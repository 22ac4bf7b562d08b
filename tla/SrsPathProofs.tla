--------------------------- MODULE SrsPathProofs ---------------------------
(***************************************************************************)
(* Theorems about the path of the SRS streams to the xApp, for any UEs,    *)
(* antennas, subscriptions, sizes and limits, whatever is lost, overtaken  *)
(* or restarted.                                                           *)
(***************************************************************************)
EXTENDS SrsPath, SrsReportProofs

-----------------------------------------------------------------------------
(***************************************************************************)
(* The streams the xApp has been given, and what its state is then.        *)
(*   CacheInv    The cache has a reference for each antenna of which one   *)
(*               has come, and only these.                                 *)
(*   PendingInv  What waits are the received streams of the snapshots that *)
(*               were not assembled.                                       *)
(*   MessageInv  A message has all that was received of its snapshot, no   *)
(*               fewer streams than are expected, and a reference for each *)
(*               antenna, all of them given before the last stream.        *)
(*   WaitingInv  A snapshot that was not assembled could not be.           *)
(***************************************************************************)
PathItem == [rnti : Rntis, timestamp : 1..MaxTimestamp, antenna_id : AntennaIds,
             generated : BOOLEAN]
Samples  == [rnti : Rntis, timestamp : 1..MaxTimestamp, antenna_id : AntennaIds]
Messages == [rnti : Rntis, timestamp : 1..MaxTimestamp, received : SUBSET Samples,
             references : SUBSET Samples, timing_advance : {{}}]
XappState == [generated_srs_cache : SUBSET Samples, pending_received_srs : SUBSET Samples,
              completed_srs_messages : Seq(Messages), latest_timing_advance : {{}}]

Received(h)        == {Sample(h[i]) : i \in {j \in 1..Len(h) : ~h[j].generated}}
ReceivedIn(h, key) == {p \in Received(h) : SameSnapshot(p, key)}

Done(x, key) ==
  \E m \in 1..Len(x.completed_srs_messages) : SameSnapshot(x.completed_srs_messages[m], key)

Referenced(h, key) ==
  \E last \in 1..Len(h) :
    /\ ~h[last].generated /\ SameSnapshot(h[last], key)
    /\ \A p \in ReceivedIn(h, key) : HasReference(h, last - 1, Key(p))

OneForEach(cache) == \A g, p \in cache : SameAntenna(g, p) => g = p

CacheInv(cache, h) ==
  /\ OneForEach(cache)
  /\ \A g \in cache : HasReference(h, Len(h), Key(g))
  /\ \A i \in 1..Len(h) : h[i].generated => \E g \in cache : SameAntenna(g, h[i])

PendingInv(x, h) == x.pending_received_srs = {p \in Received(h) : ~Done(x, p)}

MessageOf(c, h) ==
  /\ c.received = ReceivedIn(h, c)
  /\ IsFiniteSet(c.received) /\ Cardinality(c.received) = expected_rx_antennas
  /\ AntennasOf(c.references) = AntennasOf(c.received)
  /\ \A g \in c.references : g.rnti = c.rnti
  /\ Referenced(h, c)

MessageInv(x, h) ==
  \A m \in 1..Len(x.completed_srs_messages) : MessageOf(x.completed_srs_messages[m], h)

OnceInv(x) ==
  \A m, n \in 1..Len(x.completed_srs_messages) :
    SameSnapshot(x.completed_srs_messages[m], x.completed_srs_messages[n]) => m = n

Complete(h, key) ==
  /\ Cardinality(ReceivedIn(h, key)) >= expected_rx_antennas
  /\ Referenced(h, key)

WaitingInv(x, h) == \A p \in Received(h) : Done(x, p) \/ ~Complete(h, p)

Assembling(x, h) ==
  /\ CacheInv(x.generated_srs_cache, h) /\ PendingInv(x, h) /\ MessageInv(x, h)
  /\ OnceInv(x) /\ WaitingInv(x, h)

(* No more streams of a snapshot than are expected. *)
Fits(h, key) ==
  /\ IsFiniteSet(ReceivedIn(h, key))
  /\ Cardinality(ReceivedIn(h, key)) <= expected_rx_antennas

-----------------------------------------------------------------------------
(* No streams are left out while there are no more than expected. *)
LEMMA CandidatesAre ==
  ASSUME NEW R \in SUBSET Samples, IsFiniteSet(R), Cardinality(R) <= expected_rx_antennas
  PROVE  Candidates(R) = R
<1> SUFFICES ASSUME NEW p \in R
             PROVE  Cardinality({q \in R : q.antenna_id < p.antenna_id}) < expected_rx_antennas
  BY DEF Candidates
<1> DEFINE lower == {q \in R : q.antenna_id < p.antenna_id}
<1>1. p.antenna_id \in Nat
  BY ReportSetsAssumption DEF Samples
<1>2. lower \in SUBSET (R \ {p})
  BY <1>1
<1>3. /\ IsFiniteSet(R \ {p}) /\ Cardinality(R \ {p}) = Cardinality(R) - 1
      /\ Cardinality(R) \in Nat
  BY FS_RemoveElement, FS_CardinalityType
<1>4. IsFiniteSet(lower) /\ Cardinality(lower) <= Cardinality(R \ {p}) /\ Cardinality(lower) \in Nat
  BY <1>2, <1>3, FS_Subset, FS_CardinalityType
<1> QED
  BY <1>3, <1>4, ExpectedAntennasAssumption

(* There are as many references as candidates if and only if there is one   *)
(* for each of them.                                                       *)
LEMMA ReferencesAre ==
  ASSUME NEW x \in XappState, OneForEach(x.generated_srs_cache),
         NEW R \in SUBSET Samples, IsFiniteSet(R), \A p, q \in R : SameSnapshot(p, q)
  PROVE  LET refs == References(x, R)
         IN  /\ Cardinality(refs) = Cardinality(R)
                  <=> \A p \in R : \E g \in x.generated_srs_cache : SameAntenna(g, p)
             /\ Cardinality(refs) = Cardinality(R) => AntennasOf(refs) = AntennasOf(R)
<1> DEFINE refs == References(x, R)
           f == [g \in refs |-> CHOOSE p \in R : SameAntenna(g, p)]
<1>1. refs = {g \in x.generated_srs_cache : \E p \in R : SameAntenna(g, p)}
  BY DEF References
<1>2. x.generated_srs_cache \in SUBSET Samples
  BY DEF XappState
<1>3. \A p, q \in R : p.antenna_id = q.antenna_id => p = q
  BY DEF Samples, SameSnapshot
<1> HIDE DEF refs
<1>4. \A g \in refs : f[g] \in R /\ SameAntenna(g, f[g])
  BY <1>1
<1>5. f \in [refs -> R]
  BY <1>4
<1> HIDE DEF f
<1>6. \A g \in refs, p \in R : SameAntenna(g, p) <=> f[g] = p
  BY <1>3, <1>4 DEF SameAntenna
<1>7. \A g, h \in refs : f[g] = f[h] => g = h
  BY <1>1, <1>4 DEF OneForEach, SameAntenna
<1>8. f \in Injection(refs, R)
  BY <1>5, <1>7 DEF Injection, IsInjective
<1>9. Cardinality(refs) = Cardinality(R) <=> f \in Surjection(refs, R)
  BY <1>8, FS_Injection
<1>10. f \in Surjection(refs, R) <=> \A p \in R : \E g \in refs : f[g] = p
  BY <1>5 DEF Surjection
<1>11. (\A p \in R : \E g \in refs : f[g] = p)
         <=> \A p \in R : \E g \in x.generated_srs_cache : SameAntenna(g, p)
  BY <1>1, <1>6
<1>12. ASSUME \A p \in R : \E g \in refs : f[g] = p
       PROVE  AntennasOf(refs) = AntennasOf(R)
  BY <1>4, <1>12 DEF AntennasOf, SameAntenna
<1> QED
  BY <1>9, <1>10, <1>11, <1>12 DEF refs

-----------------------------------------------------------------------------
(* One more stream. *)
LEMMA AppendPlaces ==
  ASSUME NEW h \in Seq(PathItem), NEW stream \in PathItem, NEW g, g = Append(h, stream)
  PROVE  /\ g \in Seq(PathItem) /\ Len(h) \in Nat /\ Len(g) = Len(h) + 1 /\ g[Len(h) + 1] = stream
         /\ \A i \in 1..Len(h) : g[i] = h[i] /\ i \in 1..Len(g)
         /\ \A i \in 1..Len(g) : i \in 1..Len(h) \/ i = Len(h) + 1
OBVIOUS

LEMMA ReceivedAppend ==
  ASSUME NEW h \in Seq(PathItem), NEW stream \in PathItem, NEW g, g = Append(h, stream)
  PROVE  Received(g) = Received(h) \cup (IF stream.generated THEN {} ELSE {Sample(stream)})
<1>1. /\ Len(g) = Len(h) + 1 /\ g[Len(h) + 1] = stream /\ Len(h) \in Nat
      /\ \A i \in 1..Len(h) : g[i] = h[i] /\ i \in 1..Len(g)
      /\ \A i \in 1..Len(g) : i \in 1..Len(h) \/ i = Len(h) + 1
  BY AppendPlaces
<1>2. Len(h) + 1 \in 1..Len(g)
  BY <1>1
<1>3. ASSUME NEW p
      PROVE  p \in Received(g) <=> p \in Received(h) \/ (~stream.generated /\ p = Sample(stream))
  BY <1>1, <1>2, Zenon DEF Received
<1> QED
  BY <1>3

LEMMA ReceivedType ==
  ASSUME NEW h \in Seq(PathItem)
  PROVE  Received(h) \in SUBSET Samples
<1> SUFFICES ASSUME NEW i \in 1..Len(h) PROVE Sample(h[i]) \in Samples
  BY DEF Received
<1>1. h[i] \in PathItem
  OBVIOUS
<1> QED
  BY <1>1 DEF Sample, Samples, PathItem

LEMMA ReferenceAppend ==
  ASSUME NEW h \in Seq(PathItem), NEW stream \in PathItem, NEW g, g = Append(h, stream), NEW key
  PROVE  /\ \A n \in 0..Len(h) : HasReference(g, n, key) <=> HasReference(h, n, key)
         /\ HasReference(g, Len(g), key)
              <=> HasReference(h, Len(h), key) \/ (stream.generated /\ Key(stream) = key)
<1>1. /\ Len(g) = Len(h) + 1 /\ g[Len(h) + 1] = stream /\ Len(h) \in Nat
      /\ \A i \in 1..Len(h) : g[i] = h[i] /\ i \in 1..Len(g)
      /\ \A i \in 1..Len(g) : i \in 1..Len(h) \/ i = Len(h) + 1
  BY AppendPlaces
<1>2. \A n \in 0..Len(h) : \A i \in 1..n : i \in 1..Len(h)
  BY <1>1
<1>3. Len(h) + 1 \in 1..Len(g)
  BY <1>1
<1>4. \A n \in 0..Len(h) : HasReference(g, n, key) <=> HasReference(h, n, key)
  BY <1>1, <1>2, Zenon DEF HasReference
<1>5. HasReference(g, Len(g), key)
         <=> HasReference(h, Len(h), key) \/ (stream.generated /\ Key(stream) = key)
  BY <1>1, <1>3, Zenon DEF HasReference
<1> QED
  BY <1>4, <1>5

(* A reference among the first streams is one among more of them. *)
LEMMA ReferenceMore ==
  ASSUME NEW h, NEW n \in Int, NEW m \in Int, n <= m, NEW key, HasReference(h, n, key)
  PROVE  HasReference(h, m, key)
<1>1. \A i \in 1..n : i \in 1..m
  OBVIOUS
<1> QED
  BY <1>1, Zenon DEF HasReference

(* A stream of another snapshot, or a reference, changes nothing for this   *)
(* snapshot.                                                               *)
Elsewhere(stream, key) == stream.generated \/ ~SameSnapshot(stream, key)

LEMMA ReceivedElsewhere ==
  ASSUME NEW h \in Seq(PathItem), NEW stream \in PathItem, NEW g, g = Append(h, stream),
         NEW key, Elsewhere(stream, key)
  PROVE  ReceivedIn(g, key) = ReceivedIn(h, key)
<1>1. Received(g) = Received(h) \cup (IF stream.generated THEN {} ELSE {Sample(stream)})
  BY ReceivedAppend
<1>2. SameSnapshot(Sample(stream), key) <=> SameSnapshot(stream, key)
  BY DEF Sample, SameSnapshot
<1> QED
  BY <1>1, <1>2 DEF Elsewhere, ReceivedIn

LEMMA ReceivedHere ==
  ASSUME NEW h \in Seq(PathItem), NEW stream \in PathItem, NEW g, g = Append(h, stream),
         NEW key, ~Elsewhere(stream, key)
  PROVE  ReceivedIn(g, key) = ReceivedIn(h, key) \cup {Sample(stream)}
<1>1. Received(g) = Received(h) \cup (IF stream.generated THEN {} ELSE {Sample(stream)})
  BY ReceivedAppend
<1>2. SameSnapshot(Sample(stream), key) <=> SameSnapshot(stream, key)
  BY DEF Sample, SameSnapshot
<1> QED
  BY <1>1, <1>2 DEF Elsewhere, ReceivedIn

LEMMA ReferencedElsewhere ==
  ASSUME NEW h \in Seq(PathItem), NEW stream \in PathItem, NEW g, g = Append(h, stream),
         NEW key, Elsewhere(stream, key)
  PROVE  Referenced(g, key) <=> Referenced(h, key)
<1>1. /\ Len(g) = Len(h) + 1 /\ g[Len(h) + 1] = stream /\ Len(h) \in Nat
      /\ \A i \in 1..Len(h) : g[i] = h[i] /\ i \in 1..Len(g)
      /\ \A i \in 1..Len(g) : i \in 1..Len(h) \/ i = Len(h) + 1
  BY AppendPlaces
<1>2. ReceivedIn(g, key) = ReceivedIn(h, key)
  BY ReceivedElsewhere
<1>3. ASSUME NEW last \in 1..Len(h), NEW k
      PROVE  HasReference(g, last - 1, k) <=> HasReference(h, last - 1, k)
  <2>1. last - 1 \in 0..Len(h)
    BY <1>1
  <2> QED
    BY <2>1, ReferenceAppend
<1>4. ASSUME NEW last \in 1..Len(g), ~g[last].generated, SameSnapshot(g[last], key)
      PROVE  last \in 1..Len(h)
  BY <1>1, <1>4 DEF Elsewhere
<1> QED
  BY <1>1, <1>2, <1>3, <1>4 DEF Referenced

(* Whoever is of the same snapshot. *)
LEMMA SameSnapshotIs ==
  ASSUME NEW p, NEW q, SameSnapshot(p, q)
  PROVE  /\ \A r : SameSnapshot(r, p) <=> SameSnapshot(r, q)
         /\ \A x : Done(x, p) <=> Done(x, q)
         /\ \A h : ReceivedIn(h, p) = ReceivedIn(h, q)
         /\ \A h : Referenced(h, p) <=> Referenced(h, q)
         /\ \A stream : Elsewhere(stream, p) <=> Elsewhere(stream, q)
<1>1. p.rnti = q.rnti /\ p.timestamp = q.timestamp
  BY DEF SameSnapshot
<1>2. \A r : SameSnapshot(r, p) <=> SameSnapshot(r, q)
  BY <1>1 DEF SameSnapshot
<1>3. \A h : ReceivedIn(h, p) = ReceivedIn(h, q)
  BY <1>2 DEF ReceivedIn
<1> QED
  BY <1>2, <1>3 DEF Done, Referenced, Elsewhere

-----------------------------------------------------------------------------
(* What a stream leaves of what is known of another snapshot. *)
LEMMA MessageStays ==
  ASSUME NEW h \in Seq(PathItem), NEW stream \in PathItem, NEW w, w = Append(h, stream),
         NEW c, Elsewhere(stream, c), MessageOf(c, h)
  PROVE  MessageOf(c, w)
<1>1. ReceivedIn(w, c) = ReceivedIn(h, c)
  BY ReceivedElsewhere
<1>2. Referenced(w, c) <=> Referenced(h, c)
  BY ReferencedElsewhere
<1> QED
  BY <1>1, <1>2, Zenon DEF MessageOf

LEMMA CompleteStays ==
  ASSUME NEW h \in Seq(PathItem), NEW stream \in PathItem, NEW w, w = Append(h, stream),
         NEW key, Elsewhere(stream, key)
  PROVE  Complete(w, key) <=> Complete(h, key)
<1>1. ReceivedIn(w, key) = ReceivedIn(h, key)
  BY ReceivedElsewhere
<1>2. Referenced(w, key) <=> Referenced(h, key)
  BY ReferencedElsewhere
<1> QED
  BY <1>1, <1>2, Zenon DEF Complete

(* A reference takes the place of an older one of its antenna. *)
LEMMA AssemblingGenerated ==
  ASSUME NEW x \in XappState, NEW h \in Seq(PathItem), NEW stream \in PathItem,
         NEW w, w = Append(h, stream), Assembling(x, h), stream.generated,
         NEW y, y = _store_generated_srs(x, stream)
  PROVE  y \in XappState /\ Assembling(y, w)
<1> DEFINE old   == {g \in x.generated_srs_cache : ~SameAntenna(g, stream)}
           cache == old \cup {Sample(stream)}
<1>1. Sample(stream) \in Samples
  BY DEF Sample, Samples, PathItem
<1>2. cache \in SUBSET Samples
  BY <1>1 DEF XappState
<1>3. y = [x EXCEPT !.generated_srs_cache = cache]
  BY DEF _store_generated_srs
<1>4. /\ y \in XappState /\ y.generated_srs_cache = cache
      /\ y.pending_received_srs = x.pending_received_srs
      /\ y.completed_srs_messages = x.completed_srs_messages
  <2> HIDE DEF cache
  <2> QED
    BY <1>2, <1>3 DEF XappState
<1>5. \A p : Elsewhere(stream, p)
  BY DEF Elsewhere
<1>6. Received(w) = Received(h)
  BY ReceivedAppend
<1>7. \A p : Done(y, p) <=> Done(x, p)
  BY <1>4 DEF Done
<1>8. CacheInv(cache, w)
  <2>1. /\ OneForEach(x.generated_srs_cache)
        /\ \A g \in x.generated_srs_cache : HasReference(h, Len(h), Key(g))
        /\ \A i \in 1..Len(h) : h[i].generated =>
             \E g \in x.generated_srs_cache : SameAntenna(g, h[i])
    BY DEF Assembling, CacheInv
  <2>2. Key(Sample(stream)) = Key(stream) /\ SameAntenna(Sample(stream), stream)
    BY DEF Key, Sample, SameAntenna
  <2>3. OneForEach(cache)
    BY <2>1, <2>2 DEF OneForEach, SameAntenna
  <2>4. ASSUME NEW g \in cache
        PROVE  HasReference(w, Len(w), Key(g))
    <3>1. HasReference(w, Len(w), Key(g))
            <=> HasReference(h, Len(h), Key(g)) \/ (stream.generated /\ Key(stream) = Key(g))
      BY ReferenceAppend
    <3> QED
      BY <2>1, <2>2, <3>1
  <2>5. ASSUME NEW i \in 1..Len(w), w[i].generated
        PROVE  \E g \in cache : SameAntenna(g, w[i])
    <3>1. /\ Len(w) = Len(h) + 1 /\ w[Len(h) + 1] = stream /\ Len(h) \in Nat
          /\ \A k \in 1..Len(h) : w[k] = h[k] /\ k \in 1..Len(w)
          /\ \A k \in 1..Len(w) : k \in 1..Len(h) \/ k = Len(h) + 1
      BY AppendPlaces
    <3>2. CASE i = Len(h) + 1
      BY <2>2, <3>1, <3>2
    <3>3. CASE i \in 1..Len(h)
      <4>1. PICK g \in x.generated_srs_cache : SameAntenna(g, h[i])
        BY <2>1, <2>5, <3>1, <3>3
      <4>2. w[i] = h[i]
        BY <3>1, <3>3
      <4>3. CASE SameAntenna(g, stream)
        BY <2>2, <4>1, <4>2, <4>3 DEF SameAntenna
      <4>4. CASE ~SameAntenna(g, stream)
        BY <4>1, <4>2, <4>4
      <4> QED
        BY <4>3, <4>4
    <3> QED
      BY <3>1, <3>2, <3>3
  <2> HIDE DEF cache
  <2> QED
    BY <2>3, <2>4, <2>5 DEF CacheInv
<1>9. PendingInv(y, w)
  BY <1>4, <1>6, <1>7 DEF PendingInv, Assembling
<1>10. MessageInv(y, w)
  <2> SUFFICES ASSUME NEW m \in 1..Len(x.completed_srs_messages)
               PROVE  MessageOf(x.completed_srs_messages[m], w)
    BY <1>4 DEF MessageInv
  <2>1. MessageOf(x.completed_srs_messages[m], h)
    BY DEF Assembling, MessageInv
  <2> QED
    BY <1>5, <2>1, MessageStays
<1>11. OnceInv(y)
  BY <1>4, Zenon DEF OnceInv, Assembling
<1>12. WaitingInv(y, w)
  <2> SUFFICES ASSUME NEW p \in Received(w) PROVE Done(y, p) \/ ~Complete(w, p)
    BY DEF WaitingInv
  <2>1. Done(x, p) \/ ~Complete(h, p)
    BY <1>6 DEF Assembling, WaitingInv
  <2>2. Complete(w, p) <=> Complete(h, p)
    BY <1>5, CompleteStays
  <2> QED
    BY <1>7, <2>1, <2>2
<1> HIDE DEF cache
<1> QED
  BY <1>4, <1>8, <1>9, <1>10, <1>11, <1>12 DEF Assembling

(* Every candidate has a reference if each was given before the last of    *)
(* them.                                                                   *)
LEMMA ReferencedNow ==
  ASSUME NEW cache, NEW h \in Seq(PathItem), NEW stream \in PathItem, NEW w, w = Append(h, stream),
         CacheInv(cache, h), ~stream.generated, NEW key, SameSnapshot(stream, key)
  PROVE  Referenced(w, key) <=> \A p \in ReceivedIn(w, key) : \E g \in cache : SameAntenna(g, p)
<1>1. /\ Len(w) = Len(h) + 1 /\ w[Len(h) + 1] = stream /\ Len(h) \in Nat
      /\ \A k \in 1..Len(h) : w[k] = h[k] /\ k \in 1..Len(w)
      /\ \A k \in 1..Len(w) : k \in 1..Len(h) \/ k = Len(h) + 1
  BY AppendPlaces
<1>2. \A p, q : SameAntenna(p, q) <=> Key(p) = Key(q)
  BY DEF SameAntenna, Key
<1>3. \A p : \A n \in 0..Len(h) : HasReference(w, n, Key(p)) <=> HasReference(h, n, Key(p))
  BY ReferenceAppend
<1>4. ASSUME Referenced(w, key), NEW p \in ReceivedIn(w, key)
      PROVE  \E g \in cache : SameAntenna(g, p)
  <2>1. PICK last \in 1..Len(w) : \A r \in ReceivedIn(w, key) : HasReference(w, last - 1, Key(r))
    BY <1>4 DEF Referenced
  <2>2. last - 1 \in 0..Len(h)
    BY <1>1
  <2>3. HasReference(h, last - 1, Key(p))
    BY <1>3, <2>1, <2>2
  <2>4. PICK i \in 1..(last - 1) : h[i].generated /\ Key(h[i]) = Key(p)
    BY <2>3 DEF HasReference
  <2>5. i \in 1..Len(h)
    BY <2>2
  <2>6. PICK g \in cache : SameAntenna(g, h[i])
    BY <2>4, <2>5 DEF CacheInv
  <2> QED
    BY <1>2, <2>4, <2>6
<1>5. ASSUME \A p \in ReceivedIn(w, key) : \E g \in cache : SameAntenna(g, p)
      PROVE  Referenced(w, key)
  <2>1. Len(h) + 1 \in 1..Len(w) /\ (Len(h) + 1) - 1 = Len(h) /\ Len(h) \in 0..Len(h)
    BY <1>1
  <2>2. ASSUME NEW p \in ReceivedIn(w, key)
        PROVE  HasReference(w, (Len(h) + 1) - 1, Key(p))
    <3>1. PICK g \in cache : SameAntenna(g, p)
      BY <1>5
    <3>2. HasReference(h, Len(h), Key(g)) /\ Key(g) = Key(p)
      BY <1>2, <3>1 DEF CacheInv
    <3> QED
      BY <1>3, <2>1, <3>2
  <2> QED
    BY <1>1, <2>1, <2>2, Zenon DEF Referenced
<1> QED
  BY <1>4, <1>5

(* What is waiting when a received stream has been stored, of its snapshot. *)
Stored(x, stream) == [x EXCEPT !.pending_received_srs = @ \cup {Sample(stream)}]

Waiting(x, stream) ==
  {p \in Stored(x, stream).pending_received_srs : SameSnapshot(p, stream)}

LEMMA StoredIs ==
  ASSUME NEW x \in XappState, NEW stream \in PathItem, NEW y, y = Stored(x, stream)
  PROVE  /\ y \in XappState
         /\ y.pending_received_srs = x.pending_received_srs \cup {Sample(stream)}
         /\ y.generated_srs_cache = x.generated_srs_cache
         /\ y.completed_srs_messages = x.completed_srs_messages
<1> DEFINE pending == x.pending_received_srs \cup {Sample(stream)}
<1>1. pending \in SUBSET Samples
  BY DEF XappState, Sample, Samples, PathItem
<1>2. y = [x EXCEPT !.pending_received_srs = pending]
  BY DEF Stored
<1> HIDE DEF pending
<1>3. /\ y \in XappState /\ y.pending_received_srs = pending
      /\ y.generated_srs_cache = x.generated_srs_cache
      /\ y.completed_srs_messages = x.completed_srs_messages
  BY <1>1, <1>2 DEF XappState
<1> QED
  BY <1>3 DEF pending

(* The snapshot of a stream that is new and fits was not assembled before,  *)
(* and what waits of it is all that came.                                  *)
LEMMA WaitingIs ==
  ASSUME NEW x \in XappState, NEW h \in Seq(PathItem), NEW stream \in PathItem,
         NEW w, w = Append(h, stream), Assembling(x, h), ~stream.generated,
         Sample(stream) \notin Received(h), Fits(w, Sample(stream))
  PROVE  /\ ~Done(x, Sample(stream))
         /\ Waiting(x, stream) = ReceivedIn(w, Sample(stream))
         /\ Candidates(Waiting(x, stream)) = Waiting(x, stream)
<1> DEFINE s0 == Sample(stream)
           R == ReceivedIn(w, s0)
<1>1. \A p : SameSnapshot(p, s0) <=> SameSnapshot(p, stream)
  BY DEF SameSnapshot, Sample
<1>2. SameSnapshot(s0, s0) /\ SameSnapshot(stream, s0)
  BY DEF SameSnapshot, Sample
<1>3. Received(w) = Received(h) \cup {s0}
  BY ReceivedAppend
<1>4. R = ReceivedIn(h, s0) \cup {s0} /\ s0 \notin ReceivedIn(h, s0)
  BY <1>2, <1>3 DEF ReceivedIn
<1>5. ~Done(x, s0)
  <2> SUFFICES ASSUME NEW m \in 1..Len(x.completed_srs_messages),
                      SameSnapshot(x.completed_srs_messages[m], s0)
               PROVE  FALSE
    BY DEF Done
  <2> DEFINE c == x.completed_srs_messages[m]
  <2>1. MessageOf(c, h)
    BY DEF Assembling, MessageInv
  <2>2. ReceivedIn(h, c) = ReceivedIn(h, s0)
    BY SameSnapshotIs
  <2>3. c.received = ReceivedIn(h, c) /\ IsFiniteSet(c.received)
        /\ Cardinality(c.received) = expected_rx_antennas
    BY <2>1, Zenon DEF MessageOf
  <2> HIDE DEF c
  <2>4. IsFiniteSet(ReceivedIn(h, s0)) /\ Cardinality(ReceivedIn(h, s0)) = expected_rx_antennas
    BY <2>2, <2>3
  <2> HIDE DEF s0
  <2>5. Cardinality(R) = expected_rx_antennas + 1
    BY <1>4, <2>4, FS_AddElement
  <2>6. Cardinality(R) <= expected_rx_antennas
    BY DEF Fits, s0
  <2> QED
    BY <2>5, <2>6, ExpectedAntennasAssumption
<1>6. Waiting(x, stream) = {p \in x.pending_received_srs \cup {s0} : SameSnapshot(p, stream)}
  BY StoredIs DEF Waiting
<1>7. x.pending_received_srs = {p \in Received(h) : ~Done(x, p)}
  BY DEF Assembling, PendingInv
<1>8. \A p : SameSnapshot(p, s0) => ~Done(x, p)
  BY <1>5, SameSnapshotIs
<1>9. Waiting(x, stream) = R
  BY <1>1, <1>3, <1>6, <1>7, <1>8 DEF ReceivedIn
<1>10. w \in Seq(PathItem)
  BY AppendPlaces
<1>11. R \in SUBSET Samples
  BY <1>10, ReceivedType DEF ReceivedIn
<1>12. IsFiniteSet(R) /\ Cardinality(R) <= expected_rx_antennas
  BY DEF Fits
<1>13. Candidates(R) = R
  <2> HIDE DEF R
  <2> QED
    BY <1>11, <1>12, CandidatesAre
<1> QED
  BY <1>5, <1>9, <1>13

(* The message that is made of a snapshot. *)
LEMMA MessageMade ==
  ASSUME NEW x \in XappState, NEW h \in Seq(PathItem), NEW stream \in PathItem,
         NEW w, w = Append(h, stream), Assembling(x, h), ~stream.generated,
         Sample(stream) \notin Received(h), Fits(w, Sample(stream)),
         NEW c, c = Message(Stored(x, stream), stream, Waiting(x, stream))
  PROVE  /\ Assembles(Stored(x, stream), Waiting(x, stream)) <=> Complete(w, Sample(stream))
         /\ SameSnapshot(c, Sample(stream)) /\ c \in Messages
         /\ Complete(w, Sample(stream)) => MessageOf(c, w)
<1> DEFINE s0 == Sample(stream)
<1>1. PICK R : R = ReceivedIn(w, s0) /\ Waiting(x, stream) = R /\ Candidates(R) = R
  BY WaitingIs
<1>2. PICK z : z = Stored(x, stream) /\ z \in XappState
               /\ z.generated_srs_cache = x.generated_srs_cache
  BY StoredIs
<1>3. w \in Seq(PathItem) /\ R \in SUBSET Samples
  BY <1>1, AppendPlaces, ReceivedType DEF ReceivedIn
<1>4. /\ IsFiniteSet(R) /\ Cardinality(R) <= expected_rx_antennas /\ Cardinality(R) \in Nat
  BY <1>1, FS_CardinalityType DEF Fits
<1>5. \A p, q \in R : SameSnapshot(p, q)
  BY <1>1 DEF ReceivedIn, SameSnapshot
<1>6. CacheInv(x.generated_srs_cache, h)
  BY DEF Assembling
<1>7. OneForEach(z.generated_srs_cache)
  BY <1>2, <1>6 DEF CacheInv
<1>8. PICK refs : refs = References(z, R)
  OBVIOUS
<1>9. /\ Cardinality(refs) = Cardinality(R)
           <=> \A p \in R : \E g \in z.generated_srs_cache : SameAntenna(g, p)
      /\ Cardinality(refs) = Cardinality(R) => AntennasOf(refs) = AntennasOf(R)
  BY <1>2, <1>3, <1>4, <1>5, <1>7, <1>8, ReferencesAre
<1>10. SameSnapshot(stream, s0)
  BY DEF SameSnapshot, Sample
<1>11. Referenced(w, s0) <=> \A p \in R : \E g \in z.generated_srs_cache : SameAntenna(g, p)
  BY <1>1, <1>2, <1>6, <1>10, ReferencedNow
<1>12. Complete(w, s0) <=> Cardinality(R) >= expected_rx_antennas /\ Referenced(w, s0)
  BY <1>1 DEF Complete
<1>13. Assembles(z, R) <=> Complete(w, s0)
  BY <1>1, <1>8, <1>9, <1>11, <1>12 DEF Assembles
<1>14. refs \in SUBSET Samples
  BY <1>2, <1>8 DEF References, XappState
<1>15. c = [rnti |-> stream.rnti, timestamp |-> stream.timestamp, received |-> R,
            references |-> refs, timing_advance |-> {o \in z.latest_timing_advance : o.rnti = stream.rnti}]
  BY <1>1, <1>2, <1>8 DEF Message
<1>16. {o \in z.latest_timing_advance : o.rnti = stream.rnti} = {}
  BY <1>2 DEF XappState
<1>17. c \in Messages
  BY <1>3, <1>14, <1>15, <1>16 DEF Messages, PathItem
<1>18. SameSnapshot(c, s0)
  BY <1>15 DEF SameSnapshot, Sample
<1>19. ASSUME Complete(w, s0)
       PROVE  MessageOf(c, w)
  <2>1. c.received = R /\ c.references = refs /\ c.rnti = stream.rnti
    BY <1>15
  <2>2. Cardinality(R) = expected_rx_antennas /\ Referenced(w, s0)
    BY <1>4, <1>12, <1>19, ExpectedAntennasAssumption
  <2>3. ReceivedIn(w, c) = R /\ Referenced(w, c)
    BY <1>1, <1>18, <2>2, SameSnapshotIs
  <2>4. AntennasOf(refs) = AntennasOf(R)
    BY <1>9, <1>11, <2>2
  <2>5. \A g \in refs : g.rnti = c.rnti
    BY <1>1, <1>8, <2>1 DEF References, SameAntenna, ReceivedIn, SameSnapshot, Sample
  <2> QED
    BY <1>4, <2>1, <2>2, <2>3, <2>4, <2>5 DEF MessageOf
<1> QED
  BY <1>1, <1>2, <1>13, <1>17, <1>18, <1>19

(* A received stream that completes nothing waits. *)
LEMMA AssemblingWaits ==
  ASSUME NEW x \in XappState, NEW h \in Seq(PathItem), NEW stream \in PathItem,
         NEW w, w = Append(h, stream), Assembling(x, h), ~stream.generated,
         ~Done(x, Sample(stream)), ~Complete(w, Sample(stream)),
         NEW y, y = Stored(x, stream)
  PROVE  y \in XappState /\ Assembling(y, w)
<1> DEFINE s0 == Sample(stream)
<1>1. /\ y \in XappState /\ y.pending_received_srs = x.pending_received_srs \cup {s0}
      /\ y.generated_srs_cache = x.generated_srs_cache
      /\ y.completed_srs_messages = x.completed_srs_messages
  BY StoredIs
<1>2. Received(w) = Received(h) \cup {s0}
  BY ReceivedAppend
<1>3. \A p : Done(y, p) <=> Done(x, p)
  BY <1>1 DEF Done
<1>4. ASSUME NEW p, ~SameSnapshot(p, s0)
      PROVE  Elsewhere(stream, p)
  BY <1>4 DEF SameSnapshot, Sample, Elsewhere
<1>5. CacheInv(y.generated_srs_cache, w)
  <2>1. CacheInv(x.generated_srs_cache, h)
    BY DEF Assembling
  <2>2. /\ Len(w) = Len(h) + 1 /\ w[Len(h) + 1] = stream /\ Len(h) \in Nat
        /\ \A k \in 1..Len(h) : w[k] = h[k] /\ k \in 1..Len(w)
        /\ \A k \in 1..Len(w) : k \in 1..Len(h) \/ k = Len(h) + 1
    BY AppendPlaces
  <2>3. \A key : HasReference(w, Len(w), key)
                  <=> HasReference(h, Len(h), key) \/ (stream.generated /\ Key(stream) = key)
    BY ReferenceAppend
  <2>4. \A i \in 1..Len(w) : w[i].generated => i \in 1..Len(h) /\ w[i] = h[i]
    BY <2>2
  <2> QED
    BY <1>1, <2>1, <2>3, <2>4 DEF CacheInv
<1>6. PendingInv(y, w)
  BY <1>1, <1>2, <1>3 DEF PendingInv, Assembling
<1>7. MessageInv(y, w)
  <2> SUFFICES ASSUME NEW m \in 1..Len(x.completed_srs_messages)
               PROVE  MessageOf(x.completed_srs_messages[m], w)
    BY <1>1 DEF MessageInv
  <2>1. MessageOf(x.completed_srs_messages[m], h)
    BY DEF Assembling, MessageInv
  <2>2. ~SameSnapshot(x.completed_srs_messages[m], s0)
    BY DEF Done
  <2> QED
    BY <1>4, <2>1, <2>2, MessageStays
<1>8. OnceInv(y)
  BY <1>1, Zenon DEF OnceInv, Assembling
<1>9. WaitingInv(y, w)
  <2> SUFFICES ASSUME NEW p \in Received(w) PROVE Done(y, p) \/ ~Complete(w, p)
    BY DEF WaitingInv
  <2>1. CASE SameSnapshot(p, s0)
    <3>1. Complete(w, p) <=> Complete(w, s0)
      BY <2>1, SameSnapshotIs, Zenon DEF Complete
    <3> QED
      BY <3>1
  <2>2. CASE ~SameSnapshot(p, s0)
    <3>1. p \in Received(h)
      BY <1>2, <2>2 DEF SameSnapshot
    <3>2. Done(x, p) \/ ~Complete(h, p)
      BY <3>1 DEF Assembling, WaitingInv
    <3>3. Complete(w, p) <=> Complete(h, p)
      BY <1>4, <2>2, CompleteStays
    <3> QED
      BY <1>3, <3>2, <3>3
  <2> QED
    BY <2>1, <2>2
<1> QED
  BY <1>1, <1>5, <1>6, <1>7, <1>8, <1>9 DEF Assembling

(* One that completes its snapshot makes a message of it. *)
LEMMA AssemblingMakes ==
  ASSUME NEW x \in XappState, NEW h \in Seq(PathItem), NEW stream \in PathItem,
         NEW w, w = Append(h, stream), Assembling(x, h), ~stream.generated,
         ~Done(x, Sample(stream)), NEW c \in Messages, SameSnapshot(c, Sample(stream)),
         MessageOf(c, w),
         NEW y, y = [Stored(x, stream) EXCEPT
                       !.completed_srs_messages = Append(@, c),
                       !.pending_received_srs = @ \ ReceivedIn(w, Sample(stream))]
  PROVE  y \in XappState /\ Assembling(y, w)
<1> DEFINE s0 == Sample(stream)
           old == x.completed_srs_messages
<1>1. PICK z : z = Stored(x, stream) /\ z \in XappState
               /\ z.pending_received_srs = x.pending_received_srs \cup {s0}
               /\ z.generated_srs_cache = x.generated_srs_cache
               /\ z.completed_srs_messages = old
  BY StoredIs
<1>2. PICK new : new = Append(old, c) /\ new \in Seq(Messages)
  <2>1. old \in Seq(Messages)
    BY DEF XappState
  <2> HIDE DEF old
  <2>2. Append(old, c) \in Seq(Messages)
    BY <2>1
  <2> QED
    BY <2>2
<1>3. PICK pending : pending = z.pending_received_srs \ ReceivedIn(w, s0) /\ pending \in SUBSET Samples
  <2>1. z.pending_received_srs \in SUBSET Samples
    BY <1>1 DEF XappState
  <2> HIDE DEF s0
  <2>2. z.pending_received_srs \ ReceivedIn(w, s0) \in SUBSET Samples
    BY <2>1
  <2> QED
    BY <2>2, Zenon
<1>4. y = [z EXCEPT !.completed_srs_messages = new, !.pending_received_srs = pending]
  BY <1>1, <1>2, <1>3
<1>5. /\ y \in XappState /\ y.pending_received_srs = pending
      /\ y.generated_srs_cache = x.generated_srs_cache
      /\ y.completed_srs_messages = new
  BY <1>1, <1>2, <1>3, <1>4 DEF XappState
<1>6. Received(w) = Received(h) \cup {s0}
  BY ReceivedAppend
<1>7. /\ Len(old) \in Nat /\ Len(new) = Len(old) + 1 /\ new[Len(old) + 1] = c
      /\ \A m \in 1..Len(old) : new[m] = old[m] /\ m \in 1..Len(new)
      /\ \A m \in 1..Len(new) : m \in 1..Len(old) \/ m = Len(old) + 1
      /\ Len(old) + 1 \in 1..Len(new)
  <2>1. old \in Seq(Messages)
    BY DEF XappState
  <2> HIDE DEF old
  <2> QED
    BY <1>2, <2>1
<1> HIDE DEF s0
<1>8. \A p : SameSnapshot(c, p) <=> SameSnapshot(p, s0)
  BY DEF SameSnapshot, s0
<1>9. \A p : Done(y, p) <=> Done(x, p) \/ SameSnapshot(p, s0)
  <2>1. \A p : Done(y, p) <=> \E m \in 1..Len(new) : SameSnapshot(new[m], p)
    BY <1>5 DEF Done
  <2>2. \A p : Done(x, p) <=> \E m \in 1..Len(old) : SameSnapshot(old[m], p)
    BY DEF Done
  <2> HIDE DEF old
  <2> QED
    BY <1>7, <1>8, <2>1, <2>2
<1>10. ASSUME NEW p, ~SameSnapshot(p, s0)
       PROVE  Elsewhere(stream, p)
  BY <1>10 DEF SameSnapshot, Sample, Elsewhere, s0
<1>11. \A p : SameSnapshot(p, s0) => ~Done(x, p)
  BY SameSnapshotIs DEF s0
<1>12. CacheInv(y.generated_srs_cache, w)
  <2>1. CacheInv(x.generated_srs_cache, h)
    BY DEF Assembling
  <2>2. /\ Len(w) = Len(h) + 1 /\ w[Len(h) + 1] = stream /\ Len(h) \in Nat
        /\ \A k \in 1..Len(h) : w[k] = h[k] /\ k \in 1..Len(w)
        /\ \A k \in 1..Len(w) : k \in 1..Len(h) \/ k = Len(h) + 1
    BY AppendPlaces
  <2>3. \A key : HasReference(w, Len(w), key)
                  <=> HasReference(h, Len(h), key) \/ (stream.generated /\ Key(stream) = key)
    BY ReferenceAppend
  <2>4. \A i \in 1..Len(w) : w[i].generated => i \in 1..Len(h) /\ w[i] = h[i]
    BY <2>2
  <2> QED
    BY <1>5, <2>1, <2>3, <2>4 DEF CacheInv
<1>13. PendingInv(y, w)
  <2>1. x.pending_received_srs = {p \in Received(h) : ~Done(x, p)}
    BY DEF PendingInv, Assembling
  <2>2. pending = (x.pending_received_srs \cup {s0}) \ ReceivedIn(w, s0)
    BY <1>1, <1>3
  <2>3. s0 \in ReceivedIn(w, s0)
    BY <1>6 DEF ReceivedIn, SameSnapshot
  <2> QED
    BY <1>5, <1>6, <1>9, <2>1, <2>2, <2>3 DEF PendingInv, ReceivedIn
<1>14. \A m \in 1..Len(old) : ~SameSnapshot(old[m], s0)
  BY DEF Done, s0
<1>15. MessageInv(y, w)
  <2> SUFFICES ASSUME NEW m \in 1..Len(new)
               PROVE  MessageOf(new[m], w)
    BY <1>5 DEF MessageInv
  <2>1. CASE m = Len(old) + 1
    BY <1>7, <2>1
  <2>2. CASE m \in 1..Len(old)
    <3>1. MessageOf(old[m], h)
      BY <2>2 DEF Assembling, MessageInv
    <3>2. Elsewhere(stream, old[m])
      BY <1>10, <1>14, <2>2
    <3>3. MessageOf(old[m], w)
      BY <3>1, <3>2, MessageStays
    <3> QED
      BY <1>7, <2>2, <3>3
  <2> QED
    BY <1>7, <2>1, <2>2
<1>16. OnceInv(y)
  <2>1. \A m, n \in 1..Len(old) : SameSnapshot(old[m], old[n]) => m = n
    BY DEF OnceInv, Assembling
  <2>2. \A m \in 1..Len(old) : ~SameSnapshot(old[m], c) /\ ~SameSnapshot(c, old[m])
    BY <1>8, <1>14 DEF SameSnapshot
  <2> HIDE DEF old
  <2>3. \A m, n \in 1..Len(new) : SameSnapshot(new[m], new[n]) => m = n
    BY <1>7, <2>1, <2>2
  <2> QED
    BY <1>5, <2>3 DEF OnceInv
<1>17. WaitingInv(y, w)
  <2> SUFFICES ASSUME NEW p \in Received(w), ~SameSnapshot(p, s0)
               PROVE  Done(y, p) \/ ~Complete(w, p)
    BY <1>9 DEF WaitingInv
  <2>1. p \in Received(h)
    BY <1>6 DEF SameSnapshot
  <2>2. Done(x, p) \/ ~Complete(h, p)
    BY <2>1 DEF Assembling, WaitingInv
  <2>3. Complete(w, p) <=> Complete(h, p)
    BY <1>10, CompleteStays
  <2> QED
    BY <1>9, <2>2, <2>3
<1> QED
  BY <1>5, <1>12, <1>13, <1>15, <1>16, <1>17 DEF Assembling

(* What handling one stream does, if it is new and its snapshot has no more *)
(* streams than are expected.                                              *)
LEMMA AssemblingStep ==
  ASSUME NEW x \in XappState, NEW h \in Seq(PathItem), NEW stream \in PathItem,
         NEW w, w = Append(h, stream), Assembling(x, h),
         ~stream.generated => Sample(stream) \notin Received(h) /\ Fits(w, Sample(stream)),
         NEW y, y = HandleStream(x, stream)
  PROVE  y \in XappState /\ Assembling(y, w)
<1>1. CASE stream.generated
  <2>1. y = _store_generated_srs(x, stream)
    BY <1>1 DEF HandleStream
  <2> QED
    BY <1>1, <2>1, AssemblingGenerated
<1>2. CASE ~stream.generated
  <2>1. PICK R : R = Waiting(x, stream) /\ R = ReceivedIn(w, Sample(stream))
    BY <1>2, WaitingIs
  <2>2. ~Done(x, Sample(stream))
    BY <1>2, WaitingIs
  <2>3. PICK z : z = Stored(x, stream)
    OBVIOUS
  <2>4. PICK c : c = Message(Stored(x, stream), stream, Waiting(x, stream))
    OBVIOUS
  <2>5. /\ Assembles(z, R) <=> Complete(w, Sample(stream))
        /\ SameSnapshot(c, Sample(stream)) /\ c \in Messages
        /\ Complete(w, Sample(stream)) => MessageOf(c, w)
    BY <1>2, <2>1, <2>3, <2>4, MessageMade
  <2>6. y = IF ~Assembles(z, R) THEN z
            ELSE [z EXCEPT !.completed_srs_messages = Append(@, c),
                           !.pending_received_srs = @ \ R]
    BY <1>2, <2>1, <2>3, <2>4 DEF HandleStream, _try_assemble_snapshot, Stored, Waiting
  <2>7. CASE Complete(w, Sample(stream))
    <3>1. y = [Stored(x, stream) EXCEPT
                 !.completed_srs_messages = Append(@, c),
                 !.pending_received_srs = @ \ ReceivedIn(w, Sample(stream))]
      BY <2>1, <2>3, <2>5, <2>6, <2>7
    <3> QED
      BY <1>2, <2>2, <2>5, <2>7, <3>1, AssemblingMakes
  <2>8. CASE ~Complete(w, Sample(stream))
    <3>1. y = Stored(x, stream)
      BY <2>3, <2>5, <2>6, <2>8
    <3> QED
      BY <1>2, <2>2, <2>8, <3>1, AssemblingWaits
  <2> QED
    BY <2>7, <2>8
<1> QED
  BY <1>1, <1>2

-----------------------------------------------------------------------------
(* An indication is handled from its first stream to its last. *)
Handling == INSTANCE FoldLemmas WITH Op <- HandleStream

LEMMA HandlingRuns ==
  ASSUME NEW x, NEW S, NEW streams \in Seq(S)
  PROVE  \E run : /\ run[0] = x
                  /\ \A k \in 0..(Len(streams) - 1) :
                       run[k + 1] = HandleStream(run[k], streams[k + 1])
                  /\ srs_indication_callback(x, streams) = run[Len(streams)]
<1>1. srs_indication_callback(x, streams) = Handling!FoldOf(x, streams)
  BY DEF srs_indication_callback, Handling!FoldOf, Handling!FoldLeft, FoldLeft,
         Handling!MapThenFoldSet, MapThenFoldSet, Handling!Max, Max
<1> QED
  BY <1>1, Handling!FoldRuns

(* No received stream came twice, and of no snapshot more than is expected. *)
Disjoint(h, q) ==
  \A i \in 1..Len(h), j \in 1..Len(q) :
    ~h[i].generated /\ ~q[j].generated => Sample(h[i]) # Sample(q[j])

Distinct(h) ==
  \A i, j \in 1..Len(h) :
    ~h[i].generated /\ ~h[j].generated /\ Sample(h[i]) = Sample(h[j]) => i = j

Single(h) ==
  /\ Distinct(h)
  /\ \A p \in Received(h) : Fits(h, p)

LEMMA SinglePrefix ==
  ASSUME NEW w \in Seq(PathItem), Single(w), NEW h \in Seq(PathItem), NEW stream \in PathItem,
         NEW g, g = Append(h, stream), Len(g) <= Len(w), \A i \in 1..Len(g) : g[i] = w[i],
         ~stream.generated
  PROVE  Sample(stream) \notin Received(h) /\ Fits(g, Sample(stream))
<1>1. /\ Len(g) = Len(h) + 1 /\ g[Len(h) + 1] = stream /\ Len(h) \in Nat
      /\ \A k \in 1..Len(h) : g[k] = h[k] /\ k \in 1..Len(g)
  BY AppendPlaces
<1>2. Len(h) + 1 \in 1..Len(g) /\ \A i \in 1..Len(g) : i \in 1..Len(w)
  BY <1>1
<1>3. Sample(stream) \notin Received(h)
  <2> SUFFICES ASSUME NEW i \in 1..Len(h), ~h[i].generated, Sample(h[i]) = Sample(stream)
               PROVE  FALSE
    BY DEF Received
  <2>1. i \in 1..Len(w) /\ w[i] = h[i] /\ Len(h) + 1 \in 1..Len(w) /\ w[Len(h) + 1] = stream
    BY <1>1, <1>2
  <2>2. i = Len(h) + 1
    BY <2>1, Zenon DEF Single, Distinct
  <2> QED
    BY <1>1, <2>2
<1>4. Received(g) \subseteq Received(w)
  BY <1>2, Zenon DEF Received
<1>5. Sample(stream) \in Received(g)
  BY <1>1, <1>2, Zenon DEF Received
<1>6. PICK R : R = ReceivedIn(w, Sample(stream)) /\ IsFiniteSet(R)
               /\ Cardinality(R) <= expected_rx_antennas
  BY <1>4, <1>5 DEF Single, Fits
<1>7. PICK Q : Q = ReceivedIn(g, Sample(stream)) /\ Q \in SUBSET R
  BY <1>4, <1>6 DEF ReceivedIn
<1>8. IsFiniteSet(Q) /\ Cardinality(Q) <= Cardinality(R)
      /\ Cardinality(Q) \in Nat /\ Cardinality(R) \in Nat
  BY <1>6, <1>7, FS_Subset, FS_CardinalityType
<1> QED
  BY <1>3, <1>6, <1>7, <1>8, ExpectedAntennasAssumption DEF Fits

(* Whatever comes, the xApp's state is of its type. *)
LEMMA HandleType ==
  ASSUME NEW x \in XappState, NEW stream \in PathItem, NEW y, y = HandleStream(x, stream)
  PROVE  y \in XappState
<1>1. CASE stream.generated
  <2>1. PICK cache : cache = {g \in x.generated_srs_cache : ~SameAntenna(g, stream)}
                               \cup {Sample(stream)}
    OBVIOUS
  <2>2. y = [x EXCEPT !.generated_srs_cache = cache]
    BY <1>1, <2>1 DEF HandleStream, _store_generated_srs
  <2>3. cache \in SUBSET Samples
    BY <2>1 DEF XappState, Sample, Samples, PathItem
  <2> QED
    BY <2>2, <2>3 DEF XappState
<1>2. CASE ~stream.generated
  <2>1. PICK z \in XappState : z = Stored(x, stream)
    BY StoredIs
  <2>2. PICK R : R = Waiting(x, stream)
    OBVIOUS
  <2>3. PICK c : c = Message(z, stream, R)
    OBVIOUS
  <2>4. y = IF ~Assembles(z, R) THEN z
            ELSE [z EXCEPT !.completed_srs_messages = Append(@, c),
                           !.pending_received_srs = @ \ R]
    BY <1>2, <2>1, <2>2, <2>3 DEF HandleStream, _try_assemble_snapshot, Stored, Waiting
  <2>5. R \in SUBSET Samples
    BY <2>1, <2>2 DEF Waiting, XappState
  <2>6. PICK refs \in SUBSET Samples : refs = References(z, Candidates(R))
    BY <2>1 DEF References, XappState
  <2>7. PICK candidates \in SUBSET Samples : candidates = Candidates(R)
    BY <2>5 DEF Candidates
  <2>8. {o \in z.latest_timing_advance : o.rnti = stream.rnti} = {}
    BY <2>1 DEF XappState
  <2>9. c = [rnti |-> stream.rnti, timestamp |-> stream.timestamp, received |-> candidates,
             references |-> refs, timing_advance |-> {}]
    BY <2>3, <2>6, <2>7, <2>8 DEF Message
  <2>10. c \in Messages
    BY <2>9 DEF Messages, PathItem
  <2>11. PICK new : new = Append(z.completed_srs_messages, c) /\ new \in Seq(Messages)
    <3>1. PICK old \in Seq(Messages) : old = z.completed_srs_messages
      BY <2>1 DEF XappState
    <3>2. Append(old, c) \in Seq(Messages)
      BY <2>10
    <3> QED
      BY <3>1, <3>2
  <2>12. PICK pending : pending = z.pending_received_srs \ R /\ pending \in SUBSET Samples
    BY <2>1 DEF XappState
  <2>13. y = z \/ y = [z EXCEPT !.completed_srs_messages = new, !.pending_received_srs = pending]
    BY <2>4, <2>11, <2>12
  <2>14. [z EXCEPT !.completed_srs_messages = new, !.pending_received_srs = pending] \in XappState
    BY <2>1, <2>11, <2>12 DEF XappState
  <2> QED
    BY <2>13, <2>14
<1> QED
  BY <1>1, <1>2

LEMMA IndicationType ==
  ASSUME NEW x \in XappState, NEW q \in Seq(PathItem), NEW y, y = srs_indication_callback(x, q)
  PROVE  y \in XappState
<1>1. PICK n \in Nat : n = Len(q)
  OBVIOUS
<1>2. PICK run : /\ run[0] = x
                 /\ \A k \in 0..(Len(q) - 1) : run[k + 1] = HandleStream(run[k], q[k + 1])
                 /\ srs_indication_callback(x, q) = run[Len(q)]
  BY HandlingRuns
<1> DEFINE T == {k \in Nat : k <= n => run[k] \in XappState}
<1>3. 0 \in T
  BY <1>2
<1>4. ASSUME NEW k \in Nat, k \in T, k + 1 <= n
      PROVE  run[k + 1] \in XappState
  <2>1. run[k] \in XappState /\ q[k + 1] \in PathItem
    BY <1>1, <1>4
  <2>2. run[k + 1] = HandleStream(run[k], q[k + 1])
    BY <1>1, <1>2, <1>4
  <2> QED
    BY <2>1, <2>2, HandleType
<1>5. \A k \in Nat : k \in T => k + 1 \in T
  BY <1>4
<1> HIDE DEF T
<1>6. n \in T
  BY <1>3, <1>5, SetInduction
<1> QED
  BY <1>1, <1>2, <1>6 DEF T

LEMMA AssemblingIndication ==
  ASSUME NEW x \in XappState, NEW h \in Seq(PathItem), NEW q \in Seq(PathItem), Assembling(x, h),
         NEW w, w = h \o q, Single(w),
         NEW y, y = srs_indication_callback(x, q)
  PROVE  y \in XappState /\ Assembling(y, w)
<1>1. PICK n \in Nat : n = Len(q)
  OBVIOUS
<1>2. PICK run : /\ run[0] = x
                 /\ \A k \in 0..(n - 1) : run[k + 1] = HandleStream(run[k], q[k + 1])
                 /\ y = run[n]
  <2>1. PICK run : /\ run[0] = x
                   /\ \A k \in 0..(Len(q) - 1) : run[k + 1] = HandleStream(run[k], q[k + 1])
                   /\ srs_indication_callback(x, q) = run[Len(q)]
    BY HandlingRuns
  <2> QED
    BY <1>1, <2>1
<1> DEFINE first(k) == h \o SubSeq(q, 1, k)
           Good(k) == run[k] \in XappState /\ Assembling(run[k], first(k))
           T == {k \in Nat : k <= n => Good(k)}
<1>3. 0 \in T
  <2>1. first(0) = h
    OBVIOUS
  <2> QED
    BY <1>2, <2>1
<1>4. ASSUME NEW k \in Nat, k \in T
      PROVE  k + 1 \in T
  <2> SUFFICES ASSUME k + 1 <= n PROVE Good(k + 1)
    OBVIOUS
  <2>1. Good(k) /\ k \in 0..(n - 1) /\ k + 1 \in 1..n
    BY <1>4
  <2>2. PICK before \in Seq(PathItem) : before = first(k)
    <3>1. SubSeq(q, 1, k) \in Seq(PathItem)
      BY <1>1, <2>1
    <3>2. first(k) \in Seq(PathItem)
      BY <3>1
    <3> QED
      BY <3>2
  <2>3. PICK new \in PathItem : new = q[k + 1]
    BY <1>1, <2>1
  <2>4. PICK after : after = Append(before, new)
    OBVIOUS
  <2>5. after = first(k + 1)
    <3>1. h \o SubSeq(q, 1, k + 1) = Append(h \o SubSeq(q, 1, k), q[k + 1])
      BY <1>1, <2>1
    <3> QED
      BY <2>2, <2>3, <2>4, <3>1
  <2>6. w \in Seq(PathItem) /\ Len(after) <= Len(w) /\ \A i \in 1..Len(after) : after[i] = w[i]
    BY <1>1, <2>1, <2>5
  <2> HIDE DEF first
  <2>7. PICK z \in XappState : z = run[k] /\ Assembling(z, before)
    BY <2>1, <2>2
  <2>8. PICK v : v = HandleStream(z, new)
    OBVIOUS
  <2>9. run[k + 1] = v
    BY <1>2, <2>1, <2>3, <2>7, <2>8
  <2>10. ~new.generated => Sample(new) \notin Received(before) /\ Fits(after, Sample(new))
    BY <2>4, <2>6, SinglePrefix
  <2>11. v \in XappState /\ Assembling(v, after)
    BY <2>4, <2>7, <2>8, <2>10, AssemblingStep
  <2> QED
    BY <2>5, <2>9, <2>11
<1> HIDE DEF T
<1>5. n \in T
  BY <1>3, <1>4, SetInduction
<1>6. Good(n)
  BY <1>5 DEF T
<1>7. first(n) = w
  BY <1>1
<1> QED
  BY <1>2, <1>6, <1>7

-----------------------------------------------------------------------------
(* The indications of a service, one by one. *)
LEMMA EarlierIs ==
  ASSUME NEW q \in Seq(Item), NEW r \in Seq(Item)
  PROVE  Earlier(q, r) <=> \A x \in ToSet(q), y \in ToSet(r) : NotNewer(x, y)
<1>1. DOMAIN q = 1..Len(q) /\ DOMAIN r = 1..Len(r)
  OBVIOUS
<1> QED
  BY <1>1, Zenon DEF Earlier, ToSet

PartsOrdered(seqs, n) ==
  \A p \in 1..n : /\ Ordered(seqs[p])
                  /\ \A r \in 1..n : p < r => Earlier(seqs[p], seqs[r])

LEMMA FlattenOrdered ==
  ASSUME NEW seqs \in Seq(Seq(Item)), Ordered(FlattenSeq(seqs))
  PROVE  PartsOrdered(seqs, Len(seqs))
<1>1. PICK n \in Nat : n = Len(seqs)
  OBVIOUS
<1>2. PICK run : /\ run[0] = <<>>
                 /\ \A k \in 0..(n - 1) : run[k + 1] = run[k] \o seqs[k + 1]
                 /\ \A k \in 0..n : run[k] \in Seq(Item)
                 /\ FlattenSeq(seqs) = run[n]
  <2>1. PICK run : /\ run[0] = <<>>
                   /\ \A k \in 0..(Len(seqs) - 1) : run[k + 1] = run[k] \o seqs[k + 1]
                   /\ \A k \in 0..Len(seqs) : run[k] \in Seq(Item)
                   /\ FlattenSeq(seqs) = run[Len(seqs)]
    BY FlattenRuns
  <2> QED
    BY <1>1, <2>1
<1> DEFINE Within(k) == \A p \in 1..k : ToSet(seqs[p]) \subseteq ToSet(run[k])
           T == {k \in Nat : k <= n => Within(k) /\ (Ordered(run[k]) => PartsOrdered(seqs, k))}
<1>3. 0 \in T
  BY DEF PartsOrdered
<1>4. ASSUME NEW k \in Nat, k \in T
      PROVE  k + 1 \in T
  <2> SUFFICES ASSUME k + 1 <= n
               PROVE  Within(k + 1) /\ (Ordered(run[k + 1]) => PartsOrdered(seqs, k + 1))
    OBVIOUS
  <2>1. Within(k) /\ (Ordered(run[k]) => PartsOrdered(seqs, k))
    BY <1>4
  <2>2. k \in 0..(n - 1) /\ k \in 0..n /\ k + 1 \in 1..n /\ \A p \in 1..k : p \in 1..n
    OBVIOUS
  <2>3. \A p \in 1..(k + 1) : p \in 1..k \/ p = k + 1
    OBVIOUS
  <2>4. PICK q \in Seq(Item) : q = run[k]
    BY <1>2, <2>2
  <2>5. \A p \in 1..n : seqs[p] \in Seq(Item)
    BY <1>1
  <2>6. PICK r \in Seq(Item) : r = seqs[k + 1]
    BY <2>2, <2>5
  <2>7. PICK w : w = q \o r /\ w = run[k + 1]
    BY <1>2, <2>2, <2>4, <2>6
  <2>8. ToSet(w) = ToSet(q) \cup ToSet(r)
    BY <2>7, ToSetConcat
  <2>9. Within(k + 1)
    BY <2>1, <2>3, <2>4, <2>6, <2>7, <2>8
  <2>10. ASSUME Ordered(w)
         PROVE  PartsOrdered(seqs, k + 1)
    <3>1. Ordered(q) /\ Ordered(r) /\ Earlier(q, r)
      BY <2>7, <2>10, OrderedConcat
    <3>2. PartsOrdered(seqs, k)
      BY <2>1, <2>4, <3>1
    <3>3. ASSUME NEW p \in 1..k
          PROVE  Earlier(seqs[p], r)
      <4>1. PICK t \in Seq(Item) : t = seqs[p]
        BY <2>2, <2>5
      <4>2. ToSet(t) \subseteq ToSet(q)
        BY <2>1, <2>4, <4>1
      <4>3. Earlier(t, r)
        BY <3>1, <4>2, EarlierIs
      <4> QED
        BY <4>1, <4>3
    <3>4. \A p, j \in 1..(k + 1) : p < j => p \in 1..k
      OBVIOUS
    <3> QED
      BY <2>3, <2>6, <3>1, <3>2, <3>3, <3>4, Zenon DEF PartsOrdered
  <2> QED
    BY <2>7, <2>9, <2>10
<1> HIDE DEF T
<1>5. n \in T
  BY <1>3, <1>4, SetInduction
<1> QED
  BY <1>1, <1>2, <1>5 DEF T

-----------------------------------------------------------------------------
(* The snapshot a stream is of. *)
FromDrained(h) == \A i \in 1..Len(h) : OfDrained(h[i])

LEMMA DrainedOnce ==
  ASSUME TypeOK, ReportInv, NEW snap \in drained, NEW other \in drained, SameSnapshot(snap, other)
  PROVE  snap.antennas = other.antennas
<1>1. snap.antennas # {} /\ other.antennas # {}
  BY ReportSetsAssumption DEF TypeOK, Snapshot
<1>2. \A q : ReceivedAt(q, snap) = ReceivedAt(q, other)
  BY DEF ReceivedAt, SameSnapshot
<1>3. PICK s \in Services : /\ Whole(enqueued[s], snap)
                            /\ \A t \in Services \ {s} : ReceivedAt(enqueued[t], snap) = {}
  BY DEF ReportInv, SnapshotInv, InOneQueue
<1>4. PICK r \in Services : /\ Whole(enqueued[r], other)
                            /\ \A t \in Services \ {r} : ReceivedAt(enqueued[t], other) = {}
  BY DEF ReportInv, SnapshotInv, InOneQueue
<1>5. ReceivedAt(enqueued[s], snap) # {}
  BY <1>1, <1>3 DEF Whole
<1>6. s = r
  BY <1>2, <1>4, <1>5
<1> QED
  BY <1>2, <1>3, <1>4, <1>6 DEF Whole

LEMMA ReceivedOfDrained ==
  ASSUME NEW h, FromDrained(h), NEW p \in Received(h)
  PROVE  \E snap \in drained : SameSnapshot(p, snap) /\ p.antenna_id \in snap.antennas
<1>1. PICK i \in 1..Len(h) : ~h[i].generated /\ p = Sample(h[i])
  BY DEF Received
<1>2. PICK snap \in drained : SameSnapshot(h[i], snap) /\ h[i].antenna_id \in snap.antennas
  BY <1>1 DEF FromDrained, OfDrained, SameSnapshot
<1>3. SameSnapshot(p, snap) /\ p.antenna_id = h[i].antenna_id
  BY <1>1, <1>2 DEF Sample, SameSnapshot
<1> QED
  BY <1>2, <1>3

(* What came of a snapshot, and how much of it that is. *)
LEMMA PartOfSnapshot ==
  ASSUME TypeOK, ReportInv, NEW h \in Seq(PathItem), FromDrained(h), NEW snap \in drained,
         NEW R, R = ReceivedIn(h, snap)
  PROVE  /\ R \in SUBSET Samples /\ IsFiniteSet(R) /\ Cardinality(R) <= Cardinality(snap.antennas)
         /\ Cardinality(R) \in Nat /\ Cardinality(snap.antennas) \in Nat
         /\ AntennasOf(R) \subseteq snap.antennas
         /\ Cardinality(R) = Cardinality(snap.antennas) <=> AntennasOf(R) = snap.antennas
<1>1. R \in SUBSET Samples
  BY ReceivedType DEF ReceivedIn
<1>2. PICK A : A = snap.antennas /\ IsFiniteSet(A)
  BY ReportSetsAssumption, AntennaSets DEF TypeOK, Snapshot
<1>3. ASSUME NEW p \in R
      PROVE  p.antenna_id \in A
  <2>1. p \in Received(h) /\ SameSnapshot(p, snap)
    BY DEF ReceivedIn
  <2>2. PICK other \in drained : SameSnapshot(p, other) /\ p.antenna_id \in other.antennas
    BY <2>1, ReceivedOfDrained
  <2>3. SameSnapshot(other, snap)
    BY <2>1, <2>2 DEF SameSnapshot
  <2> QED
    BY <1>2, <2>2, <2>3, DrainedOnce
<1>4. \A p, q \in R : p.antenna_id = q.antenna_id => p = q
  BY <1>1 DEF ReceivedIn, SameSnapshot, Samples
<1> DEFINE f == [p \in R |-> p.antenna_id]
<1>5. f \in [R -> A] /\ \A p \in R : f[p] = p.antenna_id
  BY <1>3
<1> HIDE DEF f
<1>6. f \in Injection(R, A)
  BY <1>4, <1>5 DEF Injection, IsInjective
<1>7. IsFiniteSet(R) /\ Cardinality(R) <= Cardinality(A)
      /\ (Cardinality(R) = Cardinality(A) <=> f \in Surjection(R, A))
  BY <1>2, <1>6, FS_Injection
<1>8. f \in Surjection(R, A) <=> A \subseteq AntennasOf(R)
  BY <1>5 DEF Surjection, AntennasOf
<1>9. AntennasOf(R) \subseteq A
  BY <1>3 DEF AntennasOf
<1>10. Cardinality(R) \in Nat /\ Cardinality(A) \in Nat
  BY <1>2, <1>7, FS_CardinalityType
<1> QED
  BY <1>1, <1>2, <1>7, <1>8, <1>9, <1>10

-----------------------------------------------------------------------------
(***************************************************************************)
(* What the running xApp has been given: streams of indications of its     *)
(* subscription that are under way no more, none of them twice.            *)
(***************************************************************************)
(* A snapshot has no more antennas than the xApp expects. *)
AtMostExpected == \A antennas \in Shapes : Cardinality(antennas) <= expected_rx_antennas

GivenFrom(s, x) == subscription = s /\ \E p \in gone[s] : x \in ToSet(pdus[s][p])

GivenInv ==
  /\ subscription \in Services \cup {NoService}
  /\ gone \in [Services -> SUBSET Nat]
  /\ \A s \in Services : gone[s] \subseteq DOMAIN pdus[s]
  /\ handled \in Seq(PathItem)
  /\ \A i \in 1..Len(handled) : \E s \in Services : GivenFrom(s, handled[i])
  /\ Distinct(handled)

AssembledInv == xapp \in XappState /\ (AtMostExpected => Assembling(xapp, handled))

(* The path, with subscriptions that come and go, a network and the xApp,   *)
(* does nothing that the report services alone may not do.                 *)
THEOREM PathIsReport == PathSpec => Spec
<1>1. PathInit => Init
  BY DEF PathInit
<1>2. [PathNext]_pathVars => [Next]_vars
  <2> SUFFICES ASSUME [PathNext]_pathVars PROVE [Next]_vars
    OBVIOUS
  <2>1. CASE Gnb
    BY <2>1 DEF Gnb, Next
  <2>2. ASSUME NEW s \in Services, Start(s)
        PROVE  Next
    BY <2>2 DEF Start, Next
  <2>3. CASE Restart
    BY <2>3 DEF Restart
  <2>4. ASSUME NEW s \in Services, NEW p, Deliver(s, p) \/ Lose(s, p)
        PROVE  UNCHANGED vars
    BY <2>4 DEF Deliver, Lose
  <2>5. CASE UNCHANGED pathVars
    BY <2>5 DEF pathVars
  <2> QED
    BY <2>1, <2>2, <2>3, <2>4, <2>5 DEF PathNext
<1> QED
  BY <1>1, <1>2, PTL DEF PathSpec, Spec

LEMMA PathReportInvariant == PathSpec => [](TypeOK /\ LatestInv /\ ReportInv)
BY PathIsReport, ReportInvariant, PTL

(* An indication of a service, once there, stays what it is. *)
LEMMA PdusStay ==
  ASSUME TypeOK, [Next]_vars, NEW s \in Services, NEW p \in DOMAIN pdus[s]
  PROVE  p \in DOMAIN pdus'[s] /\ pdus'[s][p] = pdus[s][p]
<1>1. CASE UNCHANGED pdus
  BY <1>1
<1>2. ASSUME NEW r \in Services, get_indication_message(r)
      PROVE  p \in DOMAIN pdus'[s] /\ pdus'[s][p] = pdus[s][p]
  <2>1. pdus \in [Services -> Seq(Seq(Item))]
    BY DEF TypeOK
  <2>2. CASE UNCHANGED pdus
    BY <2>2
  <2>3. CASE \E batch : pdus' = [pdus EXCEPT ![r] = Append(@, batch)]
    <3>1. PICK batch : pdus' = [pdus EXCEPT ![r] = Append(@, batch)]
      BY <2>3
    <3>2. CASE s # r
      BY <2>1, <3>1, <3>2
    <3>3. CASE s = r
      <4>1. pdus'[s] = Append(pdus[s], batch)
        BY <2>1, <3>1, <3>3
      <4>2. PICK q \in Seq(Seq(Item)) : q = pdus[s]
        BY <2>1
      <4>3. p \in DOMAIN Append(q, batch) /\ Append(q, batch)[p] = q[p]
        BY <4>2
      <4> QED
        BY <4>1, <4>2, <4>3
    <3> QED
      BY <3>2, <3>3
  <2> QED
    BY <1>2, <2>2, <2>3 DEF get_indication_message
<1> QED
  BY <1>1, <1>2 DEF Next, vars, history, Publish, Withdraw, Subscribe, Unsubscribe,
                    collect_measurements

LEMMA FreshAssembling == FreshXapp \in XappState /\ Assembling(FreshXapp, <<>>)
<1>1. /\ FreshXapp \in XappState /\ FreshXapp.generated_srs_cache = {}
      /\ FreshXapp.pending_received_srs = {} /\ FreshXapp.completed_srs_messages = <<>>
  BY DEF FreshXapp, XappState
<1> HIDE DEF FreshXapp
<1>2. Received(<<>>) = {}
  BY DEF Received
<1> QED
  BY <1>1, <1>2 DEF Assembling, CacheInv, OneForEach, PendingInv, MessageInv, OnceInv, WaitingInv

LEMMA GivenInit == PathInit => GivenInv /\ AssembledInv
<1> SUFFICES ASSUME PathInit PROVE GivenInv /\ AssembledInv
  OBVIOUS
<1>1. /\ subscription = NoService /\ xapp = FreshXapp /\ handled = <<>>
      /\ gone = [s \in Services |-> {}]
  BY DEF PathInit
<1>2. GivenInv
  BY <1>1 DEF GivenInv, Distinct
<1> QED
  BY <1>1, <1>2, FreshAssembling DEF AssembledInv

-----------------------------------------------------------------------------
LEMMA PduIs ==
  ASSUME TypeOK, LatestInv, ReportInv, NEW s \in Services, NEW p \in DOMAIN pdus[s]
  PROVE  /\ pdus[s][p] \in Seq(PathItem) /\ p \in 1..Len(pdus[s])
         /\ \A x \in ToSet(pdus[s][p]) : x \in PathItem /\ OfDrained(x)
         /\ PartsOrdered(pdus[s], Len(pdus[s]))
<1>1. PICK seqs \in Seq(Seq(Item)) : seqs = pdus[s] /\ FlattenSeq(seqs) = Sent(s)
  BY SentType DEF Sent
<1>2. p \in 1..Len(seqs) /\ seqs[p] \in Seq(Item)
  BY <1>1
<1>3. PICK q \in Seq(Item) : q = seqs[p]
  BY <1>2
<1>4. ToSet(q) \subseteq ToSet(Sent(s))
  BY <1>1, <1>2, <1>3, FlattenHas
<1>5. \A x \in ToSet(q) : Past(x) /\ OfDrained(x)
  BY <1>4 DEF ReportInv, StampInv, Stamped
<1>6. ASSUME NEW x \in ToSet(q)
      PROVE  x \in PathItem
  <2>1. x \in Item
    BY ToSetType
  <2>2. x.timestamp > 0 /\ x.timestamp <= produced[x.rnti]
    BY <1>5 DEF Past
  <2>3. produced[x.rnti] <= MaxTimestamp /\ produced[x.rnti] \in Nat /\ x.timestamp \in Nat
    BY <2>1 DEF TypeOK, LatestInv, Item
  <2>4. x.timestamp \in 1..MaxTimestamp
    BY <2>2, <2>3, ReportSizesAssumption
  <2> QED
    BY <2>1, <2>4 DEF Item, PathItem
<1>7. q \in Seq(PathItem)
  <2>1. \A i \in 1..Len(q) : q[i] \in ToSet(q)
    BY DEF ToSet
  <2> QED
    BY <1>6, <2>1
<1>8. PartsOrdered(seqs, Len(seqs))
  BY <1>1, FlattenOrdered DEF ReportInv, StampInv
<1> QED
  BY <1>1, <1>2, <1>3, <1>5, <1>6, <1>7, <1>8

LEMMA GivenDrained ==
  ASSUME TypeOK, LatestInv, ReportInv, GivenInv
  PROVE  FromDrained(handled)
<1> SUFFICES ASSUME NEW i \in 1..Len(handled) PROVE OfDrained(handled[i])
  BY DEF FromDrained
<1>1. PICK s \in Services : \E p \in gone[s] : handled[i] \in ToSet(pdus[s][p])
  BY DEF GivenInv, GivenFrom
<1>2. PICK p \in DOMAIN pdus[s] : handled[i] \in ToSet(pdus[s][p])
  BY <1>1 DEF GivenInv
<1> QED
  BY <1>2, PduIs

LEMMA FitsDrained ==
  ASSUME TypeOK, ReportInv, AtMostExpected, NEW h \in Seq(PathItem), FromDrained(h),
         NEW p \in Received(h)
  PROVE  Fits(h, p)
<1>1. PICK snap \in drained : SameSnapshot(p, snap)
  BY ReceivedOfDrained
<1>2. PICK R : R = ReceivedIn(h, snap) /\ R = ReceivedIn(h, p)
  BY <1>1, SameSnapshotIs
<1>3. /\ IsFiniteSet(R) /\ Cardinality(R) <= Cardinality(snap.antennas)
      /\ Cardinality(R) \in Nat /\ Cardinality(snap.antennas) \in Nat
  BY <1>2, PartOfSnapshot
<1>4. Cardinality(snap.antennas) <= expected_rx_antennas
  BY DEF AtMostExpected, TypeOK, Snapshot
<1> QED
  BY <1>2, <1>3, <1>4, ExpectedAntennasAssumption DEF Fits

(* No received stream of an indication is in another one, or twice in it. *)
LEMMA DeliveredOnce ==
  ASSUME TypeOK, LatestInv, ReportInv, GivenInv, NEW s \in Services, NEW p \in DOMAIN pdus[s],
         p \notin gone[s], s = subscription, NEW q, q = pdus[s][p]
  PROVE  Disjoint(handled, q) /\ Distinct(q)
<1>1. /\ q \in Seq(PathItem) /\ p \in 1..Len(pdus[s])
      /\ PartsOrdered(pdus[s], Len(pdus[s]))
  BY PduIs
<1>2. \A x, y : ~x.generated /\ ~y.generated /\ Sample(x) = Sample(y)
                  /\ x \in PathItem /\ NotNewer(x, y) => FALSE
  <2> SUFFICES ASSUME NEW x, NEW y, ~x.generated, ~y.generated, Sample(x) = Sample(y),
                      x \in PathItem, NotNewer(x, y)
               PROVE  FALSE
    OBVIOUS
  <2>1. x.rnti = y.rnti /\ x.timestamp = y.timestamp /\ x.antenna_id = y.antenna_id
    BY DEF Sample
  <2>2. x.antenna_id < y.antenna_id
    BY <2>1 DEF NotNewer
  <2>3. x.antenna_id \in Nat
    BY ReportSetsAssumption DEF PathItem
  <2> QED
    BY <2>1, <2>2, <2>3
<1>3. ASSUME NEW i \in 1..Len(handled), NEW j \in 1..Len(q),
             ~handled[i].generated, ~q[j].generated, Sample(handled[i]) = Sample(q[j])
      PROVE  FALSE
  <2>1. PICK r \in gone[s] : handled[i] \in ToSet(pdus[s][r])
    BY DEF GivenInv, GivenFrom
  <2>2. r \in DOMAIN pdus[s]
    BY <2>1 DEF GivenInv
  <2>3. PICK t \in Seq(PathItem) : t = pdus[s][r] /\ r \in 1..Len(pdus[s])
    BY <2>2, PduIs
  <2>4. PICK k \in 1..Len(t) : handled[i] = t[k]
    BY <2>1, <2>3 DEF ToSet
  <2>5. t[k] \in PathItem /\ q[j] \in PathItem
    BY <1>1, <2>3
  <2>6. CASE r < p
    <3>1. Earlier(t, q)
      BY <1>1, <2>3, <2>6 DEF PartsOrdered
    <3>2. NotNewer(t[k], q[j])
      BY <3>1 DEF Earlier
    <3> QED
      BY <1>2, <1>3, <2>4, <2>5, <3>2
  <2>7. CASE p < r
    <3>1. Earlier(q, t)
      BY <1>1, <2>3, <2>7 DEF PartsOrdered
    <3>2. NotNewer(q[j], t[k])
      BY <3>1 DEF Earlier
    <3> QED
      BY <1>2, <1>3, <2>4, <2>5, <3>2
  <2>8. r # p /\ Len(pdus[s]) \in Nat
    BY <2>1 DEF TypeOK
  <2> QED
    BY <1>1, <2>3, <2>6, <2>7, <2>8
<1>4. ASSUME NEW i \in 1..Len(q), NEW j \in 1..Len(q), ~q[i].generated, ~q[j].generated,
             Sample(q[i]) = Sample(q[j])
      PROVE  i = j
  <2>1. q[i] \in PathItem /\ q[j] \in PathItem
    BY <1>1
  <2>2. Ordered(q)
    BY <1>1 DEF PartsOrdered
  <2>3. i < j => NotNewer(q[i], q[j])
    BY <2>2 DEF Ordered
  <2>4. j < i => NotNewer(q[j], q[i])
    BY <2>2 DEF Ordered
  <2>5. ~(i < j) /\ ~(j < i)
    BY <1>2, <1>4, <2>1, <2>3, <2>4
  <2> QED
    BY <2>5
<1> QED
  BY <1>3, <1>4 DEF Disjoint, Distinct

-----------------------------------------------------------------------------
(* The steps of the path. *)
PathInv == TypeOK /\ LatestInv /\ ReportInv /\ GivenInv /\ AssembledInv

LEMMA GivenGnb ==
  ASSUME PathInv, [Next]_vars, UNCHANGED ric
  PROVE  GivenInv' /\ AssembledInv'
<1>1. /\ subscription' = subscription /\ xapp' = xapp /\ gone' = gone /\ handled' = handled
  BY DEF ric
<1>2. \A s \in Services : \A p \in gone[s] :
        p \in DOMAIN pdus[s] /\ p \in DOMAIN pdus'[s] /\ pdus'[s][p] = pdus[s][p]
  BY PdusStay DEF PathInv, GivenInv
<1>3. ASSUME NEW i \in 1..Len(handled)
      PROVE  \E s \in Services : subscription = s /\ \E p \in gone[s] : handled[i] \in ToSet(pdus'[s][p])
  <2>1. PICK s \in Services : subscription = s /\ \E p \in gone[s] : handled[i] \in ToSet(pdus[s][p])
    BY DEF PathInv, GivenInv, GivenFrom
  <2> QED
    BY <1>2, <2>1
<1>4. GivenInv'
  BY <1>1, <1>2, <1>3 DEF PathInv, GivenInv, GivenFrom
<1> QED
  BY <1>1, <1>4 DEF PathInv, AssembledInv

(* Without a subscription the xApp has been given nothing. *)
LEMMA NothingGiven ==
  ASSUME GivenInv, subscription = NoService
  PROVE  handled = <<>>
<1>1. \A i \in 1..Len(handled) : FALSE
  BY NoServiceAssumption DEF GivenInv, GivenFrom
<1>2. PICK h \in Seq(PathItem) : h = handled
  BY DEF GivenInv
<1> QED
  BY <1>1, <1>2

LEMMA GivenStart ==
  ASSUME PathInv, NEW s \in Services, Start(s)
  PROVE  GivenInv' /\ AssembledInv'
<1>1. /\ subscription' = s /\ xapp' = xapp /\ gone' = gone /\ handled' = handled
      /\ pdus' = pdus /\ subscription = NoService
  BY DEF Start, Subscribe, history
<1>2. handled = <<>>
  BY <1>1, NothingGiven DEF PathInv
<1>3. GivenInv'
  BY <1>1, <1>2 DEF PathInv, GivenInv
<1> QED
  BY <1>1, <1>3 DEF PathInv, AssembledInv

LEMMA GivenRestart ==
  ASSUME PathInv, Restart
  PROVE  GivenInv' /\ AssembledInv'
<1>1. /\ subscription' = NoService /\ xapp' = FreshXapp /\ gone' = gone /\ handled' = <<>>
      /\ pdus' = pdus
  BY DEF Restart, vars, history
<1>2. GivenInv'
  BY <1>1 DEF PathInv, GivenInv, Distinct
<1> QED
  BY <1>1, <1>2, FreshAssembling DEF AssembledInv

(* An indication that is dropped, by the RIC or for its old subscription. *)
LEMMA GivenDropped ==
  ASSUME PathInv, NEW s \in Services, NEW p \in UnderWay(s),
         gone' = [gone EXCEPT ![s] = @ \cup {p}],
         UNCHANGED <<vars, subscription, xapp, handled>>
  PROVE  GivenInv' /\ AssembledInv'
<1>1. pdus' = pdus /\ subscription' = subscription /\ xapp' = xapp /\ handled' = handled
  BY DEF vars, history
<1>2. p \in DOMAIN pdus[s] /\ pdus[s] \in Seq(Seq(Item))
  BY DEF UnderWay, PathInv, TypeOK
<1>3. p \in Nat
  BY <1>2
<1>4. PICK g : g = gone'
  OBVIOUS
<1>5. /\ g \in [Services -> SUBSET Nat] /\ \A r \in Services : gone[r] \subseteq g[r]
      /\ \A r \in Services : g[r] \subseteq DOMAIN pdus[r]
  BY <1>2, <1>3, <1>4 DEF PathInv, GivenInv
<1>6. ASSUME NEW i \in 1..Len(handled)
      PROVE  \E r \in Services : subscription = r /\ \E n \in g[r] : handled[i] \in ToSet(pdus[r][n])
  BY <1>5 DEF PathInv, GivenInv, GivenFrom
<1>7. GivenInv'
  BY <1>1, <1>4, <1>5, <1>6 DEF PathInv, GivenInv, GivenFrom
<1> QED
  BY <1>1, <1>7 DEF PathInv, AssembledInv

(* An indication that is handled. *)
LEMMA GivenDelivered ==
  ASSUME PathInv, NEW s \in Services, NEW p \in UnderWay(s), s = subscription,
         gone' = [gone EXCEPT ![s] = @ \cup {p}],
         xapp' = srs_indication_callback(xapp, pdus[s][p]),
         handled' = handled \o pdus[s][p],
         UNCHANGED <<vars, subscription>>
  PROVE  GivenInv' /\ AssembledInv'
<1>1. pdus' = pdus /\ subscription' = subscription
  BY DEF vars, history
<1>2. p \in DOMAIN pdus[s] /\ p \notin gone[s] /\ pdus[s] \in Seq(Seq(Item))
  BY DEF UnderWay, PathInv, TypeOK
<1>3. p \in Nat
  BY <1>2
<1>4. PICK q \in Seq(PathItem) : q = pdus[s][p] /\ \A x \in ToSet(q) : OfDrained(x)
  BY <1>2, PduIs DEF PathInv
<1>5. PICK h \in Seq(PathItem) : h = handled /\ FromDrained(h)
  BY GivenDrained DEF PathInv, GivenInv
<1>6. PICK w \in Seq(PathItem) : w = h \o q /\ w = handled'
  <2>1. h \o q \in Seq(PathItem)
    OBVIOUS
  <2> QED
    BY <1>4, <1>5, <2>1, Zenon
<1>7. Placed(h, q, w)
  BY <1>6, ConcatPlaces
<1>8. /\ Len(h) \in Nat /\ Len(q) \in Nat
      /\ \A i \in 1..Len(h) : i \in 1..Len(w) /\ w[i] = h[i]
      /\ \A i \in 1..Len(q) : Len(h) + i \in 1..Len(w) /\ w[Len(h) + i] = q[i]
      /\ \A i \in 1..Len(w) : i \in 1..Len(h) \/ \E j \in 1..Len(q) : i = Len(h) + j
  BY <1>7 DEF Placed
<1>9. \A j \in 1..Len(q) : q[j] \in ToSet(q)
  BY DEF ToSet
<1>10. Disjoint(h, q) /\ Distinct(q)
  <2>1. TypeOK /\ LatestInv /\ ReportInv /\ GivenInv
    BY DEF PathInv
  <2>2. Disjoint(handled, q) /\ Distinct(q)
    BY <1>2, <1>4, <2>1, DeliveredOnce
  <2> QED
    BY <1>5, <2>2, Zenon
<1>11. Distinct(h)
  BY <1>5 DEF PathInv, GivenInv
<1>12. ASSUME NEW i \in 1..Len(w), NEW j \in 1..Len(w), ~w[i].generated, ~w[j].generated,
              Sample(w[i]) = Sample(w[j])
       PROVE  i = j
  <2>1. CASE i \in 1..Len(h) /\ j \in 1..Len(h)
    BY <1>8, <1>11, <1>12, <2>1, Zenon DEF Distinct
  <2>2. ASSUME NEW k \in 1..Len(q), i = Len(h) + k, j \in 1..Len(h)
        PROVE  FALSE
    <3>1. w[i] = q[k] /\ w[j] = h[j]
      BY <1>8, <2>2
    <3> QED
      BY <1>10, <1>12, <2>2, <3>1 DEF Disjoint
  <2>3. ASSUME NEW k \in 1..Len(q), j = Len(h) + k, i \in 1..Len(h)
        PROVE  FALSE
    <3>1. w[j] = q[k] /\ w[i] = h[i]
      BY <1>8, <2>3
    <3> QED
      BY <1>10, <1>12, <2>3, <3>1 DEF Disjoint
  <2>4. ASSUME NEW k \in 1..Len(q), NEW l \in 1..Len(q), i = Len(h) + k, j = Len(h) + l
        PROVE  k = l
    <3>1. w[i] = q[k] /\ w[j] = q[l]
      BY <1>8, <2>4
    <3> QED
      BY <1>10, <1>12, <2>4, <3>1 DEF Distinct
  <2> QED
    BY <1>8, <2>1, <2>2, <2>3, <2>4
<1>13. FromDrained(w)
  <2> SUFFICES ASSUME NEW i \in 1..Len(w) PROVE OfDrained(w[i])
    BY DEF FromDrained
  <2>1. CASE i \in 1..Len(h)
    BY <1>5, <1>8, <2>1, Zenon DEF FromDrained
  <2>2. ASSUME NEW j \in 1..Len(q), i = Len(h) + j
        PROVE  OfDrained(w[i])
    BY <1>4, <1>8, <1>9, <2>2, Zenon
  <2> QED
    BY <1>8, <2>1, <2>2
<1>14. AtMostExpected => Single(w)
  BY <1>12, <1>13, FitsDrained DEF PathInv, Single, Distinct
<1>15. PICK y : y = srs_indication_callback(xapp, q) /\ y = xapp'
  BY <1>4
<1>16. PICK x \in XappState : x = xapp /\ (AtMostExpected => Assembling(x, h))
  BY <1>5 DEF PathInv, AssembledInv
<1>17. y \in XappState
  BY <1>15, <1>16, IndicationType
<1>18. AtMostExpected => Assembling(y, w)
  BY <1>6, <1>14, <1>15, <1>16, AssemblingIndication
<1>19. PICK g : g = gone'
  OBVIOUS
<1>20. /\ g \in [Services -> SUBSET Nat] /\ \A r \in Services : gone[r] \subseteq g[r]
       /\ \A r \in Services : g[r] \subseteq DOMAIN pdus[r]
       /\ p \in g[s]
  BY <1>2, <1>3, <1>19 DEF PathInv, GivenInv
<1>21. ASSUME NEW i \in 1..Len(w)
       PROVE  \E r \in Services : subscription = r /\ \E n \in g[r] : w[i] \in ToSet(pdus[r][n])
  <2>1. CASE i \in 1..Len(h)
    <3>1. PICK r \in Services : subscription = r /\ \E n \in gone[r] : h[i] \in ToSet(pdus[r][n])
      BY <1>5, <2>1 DEF PathInv, GivenInv, GivenFrom
    <3>2. w[i] = h[i]
      BY <1>8, <2>1
    <3> QED
      BY <1>20, <3>1, <3>2
  <2>2. ASSUME NEW j \in 1..Len(q), i = Len(h) + j
        PROVE  \E r \in Services : subscription = r /\ \E n \in g[r] : w[i] \in ToSet(pdus[r][n])
    <3>1. w[i] \in ToSet(pdus[s][p])
      BY <1>4, <1>8, <1>9, <2>2
    <3> QED
      BY <1>20, <3>1
  <2> QED
    BY <1>8, <2>1, <2>2
<1>22. GivenInv'
  <2>1. subscription \in Services \cup {NoService}
    BY DEF PathInv, GivenInv
  <2>2. Distinct(w)
    BY <1>12 DEF Distinct
  <2>3. gone' \in [Services -> SUBSET Nat] /\ \A r \in Services : gone'[r] \subseteq DOMAIN pdus'[r]
    BY <1>1, <1>19, <1>20
  <2>4. \A i \in 1..Len(handled') : \E r \in Services :
          subscription' = r /\ \E n \in gone'[r] : handled'[i] \in ToSet(pdus'[r][n])
    BY <1>1, <1>6, <1>19, <1>21
  <2>5. Distinct(handled')
    BY <1>6, <2>2, Zenon
  <2>6. subscription' \in Services \cup {NoService} /\ handled' \in Seq(PathItem)
    BY <1>1, <1>6, <2>1
  <2> QED
    BY <2>3, <2>4, <2>5, <2>6, Zenon DEF GivenInv, GivenFrom, Distinct
<1> QED
  BY <1>6, <1>15, <1>17, <1>22, <1>18 DEF AssembledInv

LEMMA PathStep ==
  ASSUME PathInv, [PathNext]_pathVars
  PROVE  GivenInv' /\ AssembledInv'
<1>1. CASE Gnb /\ UNCHANGED ric
  <2>1. [Next]_vars
    BY <1>1 DEF Gnb, Next
  <2> QED
    BY <1>1, <2>1, GivenGnb
<1>2. ASSUME NEW s \in Services, Start(s)
      PROVE  GivenInv' /\ AssembledInv'
  BY <1>2, GivenStart
<1>3. CASE Restart
  BY <1>3, GivenRestart
<1>4. ASSUME NEW s \in Services, NEW p \in UnderWay(s), Deliver(s, p)
      PROVE  GivenInv' /\ AssembledInv'
  <2>1. CASE s = subscription
    BY <1>4, <2>1, GivenDelivered DEF Deliver
  <2>2. CASE s # subscription
    BY <1>4, <2>2, GivenDropped DEF Deliver
  <2> QED
    BY <2>1, <2>2
<1>5. ASSUME NEW s \in Services, NEW p \in UnderWay(s), Lose(s, p)
      PROVE  GivenInv' /\ AssembledInv'
  BY <1>5, GivenDropped DEF Lose
<1>6. CASE UNCHANGED pathVars
  <2>1. [Next]_vars /\ UNCHANGED ric
    BY <1>6 DEF pathVars
  <2> QED
    BY <2>1, GivenGnb
<1> QED
  BY <1>1, <1>2, <1>3, <1>4, <1>5, <1>6 DEF PathNext

LEMMA PathInvariant == PathSpec => []PathInv
<1>1. (TypeOK /\ LatestInv /\ ReportInv) /\ (GivenInv /\ AssembledInv) /\ [PathNext]_pathVars
        => (GivenInv /\ AssembledInv)'
  BY PathStep DEF PathInv
<1> QED
  BY <1>1, GivenInit, PathReportInvariant, PTL DEF PathSpec, PathInv

-----------------------------------------------------------------------------
(* What the subscription, the cache and the dictionaries of the xApp hold   *)
(* are values of the code's types, with timestamps that were given out.    *)
THEOREM PathTypeCorrect == PathSpec => []PathTypeOK
<1>1. PathInv => PathTypeOK
  <2> SUFFICES ASSUME PathInv PROVE PathTypeOK
    OBVIOUS
  <2>1. xapp \in XappState
    BY DEF PathInv, AssembledInv
  <2>2. handled \in Seq(PathItem) /\ PathItem \subseteq Item
    BY ReportSizesAssumption DEF PathInv, GivenInv, PathItem, Item
  <2>3. handled \in Seq(Item)
    BY <2>2, SeqOfSubset
  <2>4. completed \in Seq(Messages)
    BY <2>1 DEF completed, XappState
  <2>5. \A m \in 1..Len(completed) : completed[m] \in Messages
    BY <2>4
  <2> QED
    BY <2>1, <2>3, <2>5 DEF PathTypeOK, PathInv, GivenInv, XappState, Messages, Samples
<1> QED
  BY <1>1, PathInvariant, PTL

(* Also with the path and its subscriptions that come and go, a snapshot    *)
(* goes whole to one subscription.                                         *)
THEOREM PathDrainedToOneService == PathSpec => []SnapshotToOneService
BY PathIsReport, DrainedToOneService, PTL

(* If no snapshot has more antennas than the xApp expects, no snapshot is   *)
(* assembled twice, whatever is lost or late.                              *)
THEOREM NeverAssembledTwice == AtMostExpected => (PathSpec => []AssembledOnce)
<1> SUFFICES ASSUME AtMostExpected PROVE PathSpec => []AssembledOnce
  OBVIOUS
<1>1. PathInv => AssembledOnce
  BY DEF PathInv, AssembledInv, Assembling, OnceInv, AssembledOnce, completed
<1> QED
  BY <1>1, PathInvariant, PTL

LEMMA MessagesAre ==
  ASSUME AtMostExpected, PathInv, NEW m \in 1..Len(completed)
  PROVE  MessageOf(completed[m], handled)
BY DEF PathInv, AssembledInv, Assembling, MessageInv, completed

(* Then a message is all of one snapshot, with references of its antennas   *)
(* and of its UE.                                                          *)
THEOREM MessageIsOneSnapshot == AtMostExpected => (PathSpec => []AssembledFromOneSnapshot)
<1> SUFFICES ASSUME AtMostExpected PROVE PathSpec => []AssembledFromOneSnapshot
  OBVIOUS
<1>1. PathInv => AssembledFromOneSnapshot
  <2> SUFFICES ASSUME PathInv, NEW m \in 1..Len(completed)
               PROVE  /\ \E snap \in drained :
                           /\ SameSnapshot(snap, completed[m])
                           /\ AntennasOf(completed[m].received) = snap.antennas
                           /\ AntennasOf(completed[m].references) = snap.antennas
                      /\ \A p \in completed[m].received : SameSnapshot(p, completed[m])
                      /\ \A p \in completed[m].references : p.rnti = completed[m].rnti
    BY DEF AssembledFromOneSnapshot
  <2>1. PICK c : c = completed[m] /\ MessageOf(c, handled)
    BY MessagesAre
  <2>2. PICK R : R = c.received /\ R = ReceivedIn(handled, c)
    BY <2>1, Zenon DEF MessageOf
  <2>3. /\ IsFiniteSet(R) /\ Cardinality(R) = expected_rx_antennas
        /\ AntennasOf(c.references) = AntennasOf(R)
        /\ \A g \in c.references : g.rnti = c.rnti
    BY <2>1, <2>2, Zenon DEF MessageOf
  <2>4. R # {}
    BY <2>3, FS_EmptySet, ExpectedAntennasAssumption
  <2>5. PICK p \in R : p \in Received(handled) /\ SameSnapshot(p, c)
    BY <2>2, <2>4 DEF ReceivedIn
  <2>6. /\ TypeOK /\ LatestInv /\ ReportInv /\ GivenInv
        /\ handled \in Seq(PathItem) /\ FromDrained(handled)
    BY GivenDrained DEF PathInv, GivenInv
  <2>7. PICK snap \in drained : SameSnapshot(p, snap)
    BY <2>5, <2>6, ReceivedOfDrained
  <2>8. SameSnapshot(c, snap) /\ SameSnapshot(snap, c)
    BY <2>5, <2>7 DEF SameSnapshot
  <2>9. R = ReceivedIn(handled, snap)
    BY <2>2, <2>8, SameSnapshotIs
  <2>10. /\ Cardinality(R) <= Cardinality(snap.antennas)
         /\ Cardinality(R) \in Nat /\ Cardinality(snap.antennas) \in Nat
         /\ Cardinality(R) = Cardinality(snap.antennas) <=> AntennasOf(R) = snap.antennas
    BY <2>6, <2>9, PartOfSnapshot
  <2>11. Cardinality(snap.antennas) <= expected_rx_antennas
    BY <2>6 DEF AtMostExpected, TypeOK, Snapshot
  <2>12. AntennasOf(R) = snap.antennas
    BY <2>3, <2>10, <2>11
  <2>13. \A r \in R : SameSnapshot(r, c)
    BY <2>2 DEF ReceivedIn
  <2> QED
    BY <2>1, <2>2, <2>3, <2>8, <2>12, <2>13
<1> QED
  BY <1>1, PathInvariant, PTL

-----------------------------------------------------------------------------
(* If each snapshot has as many antennas as the xApp expects: *)
AsExpected == \A antennas \in Shapes : Cardinality(antennas) = expected_rx_antennas

(* The references of all the antennas of a snapshot had come before one of  *)
(* its streams.                                                            *)
ReferencedWhole(h, snap) ==
  \E last \in 1..Len(h) :
    /\ ~h[last].generated /\ SameSnapshot(h[last], snap)
    /\ \A a \in snap.antennas : \E i \in 1..(last - 1) :
         /\ h[i].generated
         /\ h[i].rnti = snap.rnti /\ h[i].antenna_id = a

LEMMA AsExpectedIsAtMost == ASSUME AsExpected PROVE AtMostExpected
BY ExpectedAntennasAssumption DEF AsExpected, AtMostExpected

LEMMA ArrivedWholeIs ==
  ASSUME PathInv, NEW snap \in drained, NEW R, R = ReceivedIn(handled, snap)
  PROVE  ArrivedWhole(snap) <=> AntennasOf(R) = snap.antennas
<1>1. /\ TypeOK /\ ReportInv /\ handled \in Seq(PathItem) /\ FromDrained(handled)
  BY GivenDrained DEF PathInv, GivenInv
<1>2. AntennasOf(R) \subseteq snap.antennas
  BY <1>1, PartOfSnapshot
<1>3. ASSUME NEW a
      PROVE  a \in AntennasOf(R) <=> \E i \in 1..Len(handled) :
               ~handled[i].generated /\ SameSnapshot(handled[i], snap) /\ handled[i].antenna_id = a
  <2>1. \A p : p \in R <=> \E i \in 1..Len(handled) :
          p = Sample(handled[i]) /\ ~handled[i].generated /\ SameSnapshot(p, snap)
    BY DEF ReceivedIn, Received
  <2>2. \A x : SameSnapshot(Sample(x), snap) <=> SameSnapshot(x, snap)
    BY DEF Sample, SameSnapshot
  <2>3. \A x : Sample(x).antenna_id = x.antenna_id
    BY DEF Sample
  <2>4. a \in AntennasOf(R) <=> \E p \in R : p.antenna_id = a
    BY DEF AntennasOf
  <2>5. ASSUME NEW p \in R, p.antenna_id = a
        PROVE  \E i \in 1..Len(handled) :
                 ~handled[i].generated /\ SameSnapshot(handled[i], snap) /\ handled[i].antenna_id = a
    <3>1. PICK i \in 1..Len(handled) :
            p = Sample(handled[i]) /\ ~handled[i].generated /\ SameSnapshot(p, snap)
      BY <2>1
    <3> QED
      BY <2>2, <2>3, <2>5, <3>1
  <2>6. ASSUME NEW i \in 1..Len(handled), ~handled[i].generated,
               SameSnapshot(handled[i], snap), handled[i].antenna_id = a
        PROVE  \E p \in R : p.antenna_id = a
    <3>1. Sample(handled[i]) \in R
      BY <2>1, <2>2, <2>6
    <3> QED
      BY <2>3, <2>6, <3>1
  <2> QED
    BY <2>4, <2>5, <2>6
<1> QED
  BY <1>2, <1>3 DEF ArrivedWhole

LEMMA CompleteIs ==
  ASSUME PathInv, AsExpected, NEW snap \in drained
  PROVE  Complete(handled, snap) <=> ArrivedWhole(snap) /\ ReferencedWhole(handled, snap)
<1>1. /\ TypeOK /\ ReportInv /\ handled \in Seq(PathItem) /\ FromDrained(handled)
  BY GivenDrained DEF PathInv, GivenInv
<1>2. PICK R : R = ReceivedIn(handled, snap)
  OBVIOUS
<1>3. /\ Cardinality(R) <= Cardinality(snap.antennas)
      /\ Cardinality(R) \in Nat /\ Cardinality(snap.antennas) \in Nat
      /\ Cardinality(R) = Cardinality(snap.antennas) <=> AntennasOf(R) = snap.antennas
  BY <1>1, <1>2, PartOfSnapshot
<1>4. Cardinality(snap.antennas) = expected_rx_antennas
  BY <1>1 DEF AsExpected, TypeOK, Snapshot
<1>5. Cardinality(R) >= expected_rx_antennas <=> AntennasOf(R) = snap.antennas
  BY <1>3, <1>4
<1>6. ArrivedWhole(snap) <=> AntennasOf(R) = snap.antennas
  BY <1>2, ArrivedWholeIs
<1>7. ASSUME AntennasOf(R) = snap.antennas
      PROVE  Referenced(handled, snap) <=> ReferencedWhole(handled, snap)
  <2>1. \A p \in R : p.rnti = snap.rnti /\ p.antenna_id \in snap.antennas
    BY <1>2, <1>7 DEF ReceivedIn, SameSnapshot, AntennasOf
  <2>2. \A a \in snap.antennas : \E p \in R : p.antenna_id = a
    BY <1>7 DEF AntennasOf
  <2>3. \A x, y : Key(x) = Key(y) <=> x.rnti = y.rnti /\ x.antenna_id = y.antenna_id
    BY DEF Key
  <2>4. ASSUME NEW last \in 1..Len(handled)
        PROVE  (\A p \in R : HasReference(handled, last - 1, Key(p)))
                 <=> \A a \in snap.antennas : \E i \in 1..(last - 1) :
                       /\ handled[i].generated
                       /\ handled[i].rnti = snap.rnti /\ handled[i].antenna_id = a
    BY <2>1, <2>2, <2>3 DEF HasReference
  <2> QED
    BY <1>2, <2>4 DEF Referenced, ReferencedWhole
<1> QED
  BY <1>2, <1>5, <1>6, <1>7 DEF Complete

(* A snapshot is assembled once it could be. *)
LEMMA AssembledIs ==
  ASSUME PathInv, AsExpected, NEW snap \in drained
  PROVE  IsAssembled(snap) <=> Complete(handled, snap)
<1>1. AtMostExpected
  BY AsExpectedIsAtMost
<1>2. ASSUME NEW m \in 1..Len(completed), SameSnapshot(completed[m], snap)
      PROVE  Complete(handled, snap)
  <2>1. PICK c : c = completed[m] /\ MessageOf(c, handled) /\ SameSnapshot(c, snap)
    BY <1>1, <1>2, MessagesAre
  <2>2. Cardinality(ReceivedIn(handled, c)) = expected_rx_antennas /\ Referenced(handled, c)
    BY <2>1, Zenon DEF MessageOf
  <2>3. Cardinality(ReceivedIn(handled, snap)) = expected_rx_antennas /\ Referenced(handled, snap)
    BY <2>1, <2>2, SameSnapshotIs
  <2> QED
    BY <2>3, ExpectedAntennasAssumption DEF Complete
<1>3. ASSUME Complete(handled, snap)
      PROVE  IsAssembled(snap)
  <2>1. PICK last \in 1..Len(handled) :
          ~handled[last].generated /\ SameSnapshot(handled[last], snap)
    BY <1>3 DEF Complete, Referenced
  <2>2. PICK p : p = Sample(handled[last])
    OBVIOUS
  <2>3. p \in Received(handled) /\ SameSnapshot(p, snap)
    BY <2>1, <2>2 DEF Received, SameSnapshot, Sample
  <2>4. Complete(handled, p)
    BY <1>3, <2>3, SameSnapshotIs, Zenon DEF Complete
  <2>5. Done(xapp, p)
    BY <1>1, <2>3, <2>4 DEF PathInv, AssembledInv, Assembling, WaitingInv
  <2> QED
    BY <2>3, <2>5 DEF Done, IsAssembled, completed, SameSnapshot
<1> QED
  BY <1>2, <1>3 DEF IsAssembled

(* Once all its streams have come a snapshot is assembled exactly if the    *)
(* references of all its antennas came before the last of them, whatever   *)
(* is lost or late.                                                        *)
THEOREM AssembledWhenReferenced == AsExpected => (PathSpec => []AssembledExactlyWhen)
<1> SUFFICES ASSUME AsExpected PROVE PathSpec => []AssembledExactlyWhen
  OBVIOUS
<1>1. PathInv => AssembledExactlyWhen
  BY AssembledIs, CompleteIs DEF AssembledExactlyWhen, ReferencedWhole
<1> QED
  BY <1>1, PathInvariant, PTL

-----------------------------------------------------------------------------
(***************************************************************************)
(* Between two received streams of a snapshot a service queues none of     *)
(* another one.                                                            *)
(***************************************************************************)
Grouped(q) ==
  \A i, j, k \in 1..Len(q) :
    /\ i < j /\ j < k /\ ~q[i].generated /\ ~q[j].generated /\ ~q[k].generated
    /\ SameSnapshot(q[i], q[k])
    => SameSnapshot(q[j], q[k])

NoneShared(q, r) == \A x \in ToSet(q), y \in ToSet(r) : ~SameSnapshot(x, y)

GroupedInv == \A s \in Services : Grouped(enqueued[s])

LEMMA GroupedConcat ==
  ASSUME NEW q \in Seq(Item), NEW r \in Seq(Item), Grouped(q), Grouped(r), NoneShared(q, r),
         NEW w, w = q \o r
  PROVE  Grouped(w)
<1>1. Placed(q, r, w)
  BY ConcatPlaces
<1>2. /\ Len(q) \in Nat /\ Len(r) \in Nat
      /\ \A i \in 1..Len(q) : i \in 1..Len(w) /\ w[i] = q[i]
      /\ \A i \in 1..Len(r) : Len(q) + i \in 1..Len(w) /\ w[Len(q) + i] = r[i]
      /\ \A i \in 1..Len(w) : i \in 1..Len(q) \/ \E j \in 1..Len(r) : i = Len(q) + j
  BY <1>1 DEF Placed
<1>3. \A i \in 1..Len(q), j \in 1..Len(r) : ~SameSnapshot(q[i], r[j])
  BY DEF NoneShared, ToSet
<1> SUFFICES ASSUME NEW i \in 1..Len(w), NEW j \in 1..Len(w), NEW k \in 1..Len(w),
                    i < j, j < k, ~w[i].generated, ~w[j].generated, ~w[k].generated,
                    SameSnapshot(w[i], w[k])
             PROVE  SameSnapshot(w[j], w[k])
  BY DEF Grouped
<1>4. CASE k \in 1..Len(q)
  <2>1. i \in 1..Len(q) /\ j \in 1..Len(q)
    BY <1>2, <1>4
  <2>2. w[i] = q[i] /\ w[j] = q[j] /\ w[k] = q[k]
    BY <1>2, <1>4, <2>1
  <2> QED
    BY <1>4, <2>1, <2>2, Zenon DEF Grouped
<1>5. ASSUME NEW c \in 1..Len(r), k = Len(q) + c
      PROVE  SameSnapshot(w[j], w[k])
  <2>1. i \notin 1..Len(q)
    BY <1>2, <1>3, <1>5
  <2>2. PICK a \in 1..Len(r) : i = Len(q) + a
    BY <1>2, <2>1
  <2>3. j \notin 1..Len(q)
    BY <1>2, <2>2
  <2>4. PICK b \in 1..Len(r) : j = Len(q) + b
    BY <1>2, <2>3
  <2>5. a < b /\ b < c
    BY <1>2, <1>5, <2>2, <2>4
  <2>6. w[i] = r[a] /\ w[j] = r[b] /\ w[k] = r[c]
    BY <1>2, <1>5, <2>2, <2>4
  <2> QED
    BY <2>5, <2>6, Zenon DEF Grouped
<1> QED
  BY <1>2, <1>4, <1>5

LEMMA CollectedGrouped ==
  ASSUME LatestInv, NEW keys
  PROVE  Grouped(CollectedItems(keys))
<1>1. PICK seqs : Parts(seqs, keys)
  BY CollectedParts
<1>2. \A u \in CompleteRntis : latest[u] \in Snapshot /\ latest[u].rnti = u /\ u \in Nat
  BY ReportSetsAssumption DEF LatestInv, CompleteRntis
<1>3. \A u \in CompleteRntis : \A q : q = StreamsOf(latest[u], keys)
        => q \in Seq(Item) /\ \A x \in ToSet(q) : x.rnti = u /\ x.timestamp = latest[u].timestamp
  <2> SUFFICES ASSUME NEW u \in CompleteRntis, NEW q, q = StreamsOf(latest[u], keys)
               PROVE  q \in Seq(Item) /\ \A x \in ToSet(q) : x.rnti = u /\ x.timestamp = latest[u].timestamp
    OBVIOUS
  <2>1. PICK ue \in Snapshot : ue = latest[u] /\ ue.rnti = u
    BY <1>2
  <2>2. /\ q \in Seq(Item)
        /\ \A i \in 1..Len(q) : q[i].rnti = ue.rnti /\ q[i].timestamp = ue.timestamp
    BY <2>1, StreamsOfIs
  <2> QED
    BY <2>1, <2>2 DEF ToSet
<1>4. PICK n \in Nat : n = Len(seqs)
  BY <1>1 DEF Parts
<1>5. \A m \in 1..n : seqs[m] \in Seq(Item) /\ Grouped(seqs[m])
  <2> SUFFICES ASSUME NEW m \in 1..n PROVE seqs[m] \in Seq(Item) /\ Grouped(seqs[m])
    OBVIOUS
  <2>1. PICK u \in CompleteRntis : seqs[m] = StreamsOf(latest[u], keys)
    BY <1>1, <1>4 DEF Parts
  <2>2. PICK q \in Seq(Item) : q = seqs[m]
                               /\ \A x \in ToSet(q) : x.rnti = u /\ x.timestamp = latest[u].timestamp
    BY <1>3, <2>1
  <2>3. \A i \in 1..Len(q) : q[i].rnti = u /\ q[i].timestamp = latest[u].timestamp
    BY <2>2 DEF ToSet
  <2>4. Grouped(q)
    BY <2>3 DEF Grouped, SameSnapshot
  <2> QED
    BY <2>2, <2>4
<1>6. ASSUME NEW k \in 1..n, NEW l \in 1..n, k < l
      PROVE  NoneShared(seqs[k], seqs[l])
  <2>1. PICK u \in CompleteRntis, v \in CompleteRntis :
          u < v /\ seqs[k] = StreamsOf(latest[u], keys) /\ seqs[l] = StreamsOf(latest[v], keys)
    BY <1>1, <1>4, <1>6 DEF Parts
  <2>2. /\ \A x \in ToSet(seqs[k]) : x.rnti = u
        /\ \A x \in ToSet(seqs[l]) : x.rnti = v
    BY <1>3, <2>1
  <2> QED
    BY <1>2, <2>1, <2>2 DEF NoneShared, SameSnapshot
<1>7. PICK run : /\ run[0] = <<>>
                 /\ \A m \in 0..(Len(seqs) - 1) : run[m + 1] = run[m] \o seqs[m + 1]
                 /\ \A m \in 0..Len(seqs) : run[m] \in Seq(Item)
                 /\ FlattenSeq(seqs) = run[Len(seqs)]
  BY <1>1, FlattenRuns DEF Parts
<1> DEFINE Within(m) == \A x \in ToSet(run[m]) : \E k \in 1..m : x \in ToSet(seqs[k])
           U == {m \in Nat : m <= n => Grouped(run[m]) /\ Within(m)}
<1>8. 0 \in U
  BY <1>7, ToSetEmpty DEF Grouped
<1>9. ASSUME NEW m \in Nat, m \in U
      PROVE  m + 1 \in U
  <2> SUFFICES ASSUME m + 1 <= n PROVE Grouped(run[m + 1]) /\ Within(m + 1)
    OBVIOUS
  <2>1. Grouped(run[m]) /\ Within(m) /\ m \in 0..(n - 1) /\ m \in 0..n /\ m + 1 \in 1..n
    BY <1>9
  <2>2. PICK q \in Seq(Item) : q = run[m] /\ Grouped(q)
    BY <1>4, <1>7, <2>1
  <2>3. PICK r \in Seq(Item) : r = seqs[m + 1] /\ Grouped(r)
    BY <1>5, <2>1
  <2>4. PICK w : w = q \o r /\ w = run[m + 1]
    BY <1>4, <1>7, <2>1, <2>2, <2>3
  <2>5. NoneShared(q, r)
    <3> SUFFICES ASSUME NEW x \in ToSet(q), NEW y \in ToSet(r) PROVE ~SameSnapshot(x, y)
      BY DEF NoneShared
    <3>1. PICK k \in 1..m : x \in ToSet(seqs[k])
      BY <2>1, <2>2
    <3>2. k \in 1..n /\ k < m + 1
      OBVIOUS
    <3>3. NoneShared(seqs[k], seqs[m + 1])
      BY <1>6, <2>1, <3>2
    <3> QED
      BY <2>3, <3>1, <3>3 DEF NoneShared
  <2>6. Grouped(w)
    BY <2>2, <2>3, <2>4, <2>5, GroupedConcat
  <2>7. ToSet(w) = ToSet(q) \cup ToSet(r)
    BY <2>4, ToSetConcat
  <2>8. \A k \in 1..m : k \in 1..(m + 1)
    OBVIOUS
  <2>9. m + 1 \in 1..(m + 1)
    OBVIOUS
  <2>10. ASSUME NEW x \in ToSet(w)
         PROVE  \E k \in 1..(m + 1) : x \in ToSet(seqs[k])
    <3>1. CASE x \in ToSet(q)
      BY <2>1, <2>2, <2>8, <3>1
    <3>2. CASE x \in ToSet(r)
      BY <2>3, <2>9, <3>2
    <3> QED
      BY <2>7, <3>1, <3>2
  <2> QED
    BY <2>4, <2>6, <2>10
<1> HIDE DEF U
<1>10. n \in U
  BY <1>8, <1>9, SetInduction
<1>11. Grouped(run[n])
  BY <1>10 DEF U
<1> QED
  BY <1>1, <1>4, <1>7, <1>11 DEF Parts

LEMMA GroupedInit == Init => GroupedInv
BY DEF Init, GroupedInv, Grouped

LEMMA GroupedStep ==
  ASSUME TypeOK, LatestInv, ReportInv, GroupedInv, [Next]_vars
  PROVE  GroupedInv'
<1>1. CASE UNCHANGED enqueued
  BY <1>1 DEF GroupedInv
<1>2. ASSUME NEW s \in Services, collect_measurements(s)
      PROVE  GroupedInv'
  <2>1. PICK items \in Seq(Item) :
          /\ Drains(s, items) /\ items = CollectedItems(generated_sent_keys[s])
          /\ \A i \in 1..Len(items) : /\ items[i].rnti \in CompleteRntis
                                      /\ items[i].timestamp = produced[items[i].rnti]
    BY <1>2, CollectDrains
  <2>2. Grouped(items)
    BY <2>1, CollectedGrouped
  <2>3. PICK q \in Seq(Item) : q = enqueued[s] /\ Grouped(q)
    BY SentType DEF GroupedInv
  <2>4. \A x \in ToSet(q) : x \in Item /\ Past(x)
    BY <2>3 DEF ToSet, ReportInv, SnapshotInv
  <2>5. \A y \in ToSet(items) : y.rnti \in CompleteRntis /\ y.timestamp = produced[y.rnti]
    BY <2>1 DEF ToSet
  <2>6. NoneShared(q, items)
    <3> SUFFICES ASSUME NEW x \in ToSet(q), NEW y \in ToSet(items), SameSnapshot(x, y)
                 PROVE  FALSE
      BY DEF NoneShared
    <3>1. latest[x.rnti] # NoSnapshot /\ x.timestamp = produced[x.rnti] /\ x.rnti \in Rntis
      BY <2>5 DEF SameSnapshot, CompleteRntis
    <3>2. x.timestamp < produced[x.rnti] /\ produced[x.rnti] \in Nat
      BY <2>4, <3>1 DEF Past, TypeOK
    <3> QED
      BY <3>1, <3>2
  <2>7. PICK w : w = q \o items /\ w = enqueued'[s] /\ Grouped(w)
    BY <2>1, <2>2, <2>3, <2>6, GroupedConcat DEF Drains
  <2>8. \A t \in Services \ {s} : enqueued'[t] = enqueued[t]
    BY <2>1 DEF Drains
  <2> QED
    BY <2>7, <2>8 DEF GroupedInv
<1> QED
  BY <1>1, <1>2 DEF Next, vars, history, Publish, Withdraw, Subscribe, Unsubscribe,
                    get_indication_message

LEMMA GroupedInvariant == PathSpec => []GroupedInv
<1>1. Spec => []GroupedInv
  BY ReportInvariant, GroupedInit, GroupedStep, PTL DEF Spec
<1> QED
  BY <1>1, PathIsReport, PTL

-----------------------------------------------------------------------------
(* When nothing was lost or overtaken, what was given is the beginning of   *)
(* what was queued, and no received stream of it is without a reference.   *)
LEMMA UndisturbedIs ==
  ASSUME PathInv, Undisturbed
  PROVE  /\ subscription \in Services /\ handled \in Seq(PathItem)
         /\ enqueued[subscription] \in Seq(Item)
         /\ Len(handled) \in Nat /\ Len(handled) <= Len(enqueued[subscription])
         /\ \A i \in 1..Len(handled) : handled[i] = enqueued[subscription][i]
                                      /\ i \in 1..Len(enqueued[subscription])
         /\ Covered(handled, {})
<1>1. PICK s \in Services : s = subscription
  BY DEF PathInv, GivenInv, Undisturbed
<1>2. PICK h \in Seq(PathItem) : h = handled
  BY DEF PathInv, GivenInv
<1>3. PICK q \in Seq(Item) : q = enqueued[s] /\ Covered(q, {})
  BY SentType DEF PathInv, ReportInv, ReferenceInv
<1>4. IsPrefix(h, q)
  BY <1>1, <1>2, <1>3 DEF Undisturbed
<1>5. Len(h) \in Nat /\ Len(q) \in Nat /\ Len(h) <= Len(q) /\ \A i \in 1..Len(h) : h[i] = q[i]
  BY <1>4 DEF IsPrefix
<1>6. \A i \in 1..Len(h) : i \in 1..Len(q)
  BY <1>5
<1>7. Covered(h, {})
  <2> SUFFICES ASSUME NEW i \in 1..Len(h), ~h[i].generated
               PROVE  HasReference(h, i - 1, Key(h[i]))
    BY DEF Covered
  <2>1. HasReference(q, i - 1, Key(h[i]))
    BY <1>3, <1>5, <1>6 DEF Covered
  <2>2. \A j \in 1..(i - 1) : j \in 1..Len(h)
    BY <1>5
  <2> QED
    BY <1>5, <2>1, <2>2, Zenon DEF HasReference
<1> QED
  BY <1>1, <1>2, <1>3, <1>5, <1>6, <1>7

LEMMA ArrivedReferenced ==
  ASSUME PathInv, Undisturbed, NEW snap \in drained, ArrivedWhole(snap)
  PROVE  ReferencedWhole(handled, snap)
<1>1. PICK h \in Seq(PathItem) : h = handled /\ Covered(h, {}) /\ Len(h) \in Nat
  BY UndisturbedIs
<1> DEFINE S == {i \in 1..Len(h) : ~h[i].generated /\ SameSnapshot(h[i], snap)}
<1>2. \A a \in snap.antennas : \E i \in S : h[i].antenna_id = a
  BY <1>1 DEF ArrivedWhole
<1>3. snap.antennas # {}
  BY ReportSetsAssumption DEF PathInv, TypeOK, Snapshot
<1>4. S # {} /\ S \in SUBSET (0..Len(h))
  BY <1>1, <1>2, <1>3
<1>5. PICK last \in S : \A i \in S : i <= last
  <2> HIDE DEF S
  <2> QED
    BY <1>1, <1>4, LargestUpTo
<1>6. ASSUME NEW a \in snap.antennas
      PROVE  \E i \in 1..(last - 1) :
               h[i].generated /\ h[i].rnti = snap.rnti /\ h[i].antenna_id = a
  <2>1. PICK i \in S : h[i].antenna_id = a
    BY <1>2
  <2>2. HasReference(h, i - 1, Key(h[i]))
    BY <1>1, <2>1 DEF Covered
  <2>3. i - 1 \in Int /\ last - 1 \in Int /\ i - 1 <= last - 1
    BY <1>5, <2>1
  <2>4. HasReference(h, last - 1, Key(h[i]))
    BY <2>2, <2>3, ReferenceMore
  <2>5. h[i].rnti = snap.rnti
    BY <2>1 DEF SameSnapshot
  <2> QED
    BY <2>1, <2>4, <2>5 DEF HasReference, Key
<1> QED
  BY <1>1, <1>5, <1>6 DEF ReferencedWhole

(* What waits is of a snapshot of which a stream is still to come. *)
LEMMA MoreToCome ==
  ASSUME AsExpected, PathInv, Undisturbed, NEW p \in xapp.pending_received_srs,
         NEW h, h = handled, NEW q, q = enqueued[subscription]
  PROVE  \E i \in 1..Len(h), k \in 1..Len(q) :
           /\ i \in 1..Len(q) /\ i < k /\ k > Len(h)
           /\ ~q[i].generated /\ SameSnapshot(q[i], p)
           /\ ~q[k].generated /\ SameSnapshot(q[k], p)
<1>1. AtMostExpected
  BY AsExpectedIsAtMost
<1>2. p \in Received(h) /\ ~Done(xapp, p)
  BY <1>1 DEF PathInv, AssembledInv, Assembling, PendingInv
<1>3. FromDrained(h)
  BY GivenDrained DEF PathInv
<1>4. PICK snap \in drained : SameSnapshot(p, snap)
  BY <1>2, <1>3, ReceivedOfDrained
<1>5. ~IsAssembled(snap)
  BY <1>2, <1>4 DEF Done, IsAssembled, completed, SameSnapshot
<1>6. ~ArrivedWhole(snap)
  BY <1>5, ArrivedReferenced, CompleteIs, AssembledIs
<1>7. PICK a \in snap.antennas : \A i \in 1..Len(h) :
        ~(~h[i].generated /\ SameSnapshot(h[i], snap) /\ h[i].antenna_id = a)
  BY <1>6 DEF ArrivedWhole
<1>8. PICK i \in 1..Len(h) : ~h[i].generated /\ p = Sample(h[i])
  BY <1>2 DEF Received
<1>9. /\ subscription \in Services /\ q \in Seq(Item) /\ Len(h) \in Nat /\ Len(h) <= Len(q)
      /\ \A n \in 1..Len(h) : h[n] = q[n] /\ n \in 1..Len(q)
  BY UndisturbedIs
<1>10. SameSnapshot(h[i], p) /\ SameSnapshot(h[i], snap)
  BY <1>4, <1>8 DEF SameSnapshot, Sample
<1>11. i \in ReceivedAt(q, snap)
  BY <1>8, <1>9, <1>10 DEF ReceivedAt, SameSnapshot
<1>12. PICK s \in Services : /\ Whole(enqueued[s], snap)
                             /\ \A t \in Services \ {s} : ReceivedAt(enqueued[t], snap) = {}
  BY DEF PathInv, ReportInv, SnapshotInv, InOneQueue
<1>13. Whole(q, snap)
  BY <1>9, <1>11, <1>12
<1>14. PICK k \in ReceivedAt(q, snap) : q[k].antenna_id = a
  BY <1>13 DEF Whole
<1>15. k \in 1..Len(q) /\ ~q[k].generated /\ SameSnapshot(q[k], snap)
  BY <1>14 DEF ReceivedAt, SameSnapshot
<1>16. k \notin 1..Len(h)
  BY <1>7, <1>9, <1>14, <1>15
<1>17. k > Len(h) /\ i < k
  BY <1>9, <1>15, <1>16
<1>18. SameSnapshot(q[k], p)
  BY <1>4, <1>15 DEF SameSnapshot
<1> QED
  BY <1>8, <1>9, <1>10, <1>15, <1>17, <1>18

(* While nothing is lost the xApp waits for nothing: what has come whole is *)
(* assembled, and what waits is of one snapshot.                           *)
THEOREM ArrivedAssembled == AsExpected => (PathSpec => []ArrivedIsAssembled)
<1> SUFFICES ASSUME AsExpected PROVE PathSpec => []ArrivedIsAssembled
  OBVIOUS
<1>1. PathInv /\ GroupedInv => ArrivedIsAssembled
  <2> SUFFICES ASSUME PathInv, GroupedInv, Undisturbed
               PROVE  /\ \A snap \in drained : ArrivedWhole(snap) => IsAssembled(snap)
                      /\ \A p, r \in xapp.pending_received_srs : SameSnapshot(p, r)
    BY DEF ArrivedIsAssembled
  <2>1. \A snap \in drained : ArrivedWhole(snap) => IsAssembled(snap)
    BY ArrivedReferenced, CompleteIs, AssembledIs
  <2>2. ASSUME NEW p \in xapp.pending_received_srs, NEW r \in xapp.pending_received_srs
        PROVE  SameSnapshot(p, r)
    <3>1. PICK h, q : h = handled /\ q = enqueued[subscription] /\ Grouped(q)
      BY UndisturbedIs DEF GroupedInv
    <3>2. PICK i \in 1..Len(h), k \in 1..Len(q) :
            /\ i \in 1..Len(q) /\ i < k /\ k > Len(h)
            /\ ~q[i].generated /\ SameSnapshot(q[i], p)
            /\ ~q[k].generated /\ SameSnapshot(q[k], p)
      BY <3>1, MoreToCome
    <3>3. PICK j \in 1..Len(h), l \in 1..Len(q) :
            /\ j \in 1..Len(q) /\ j < l /\ l > Len(h)
            /\ ~q[j].generated /\ SameSnapshot(q[j], r)
            /\ ~q[l].generated /\ SameSnapshot(q[l], r)
      BY <3>1, MoreToCome
    <3>4. Len(h) \in Nat
      BY <3>1, UndisturbedIs
    <3>5. i < l /\ j < k
      BY <3>2, <3>3, <3>4
    <3>6. SameSnapshot(q[i], q[k]) /\ SameSnapshot(q[j], q[l])
      BY <3>2, <3>3 DEF SameSnapshot
    <3>7. CASE i < j
      <4>1. SameSnapshot(q[j], q[k])
        BY <3>1, <3>2, <3>3, <3>5, <3>6, <3>7 DEF Grouped
      <4> QED
        BY <3>2, <3>3, <4>1 DEF SameSnapshot
    <3>8. CASE j < i
      <4>1. SameSnapshot(q[i], q[l])
        BY <3>1, <3>2, <3>3, <3>5, <3>6, <3>8 DEF Grouped
      <4> QED
        BY <3>2, <3>3, <4>1 DEF SameSnapshot
    <3>9. CASE i = j
      BY <3>2, <3>3, <3>9 DEF SameSnapshot
    <3> QED
      BY <3>4, <3>7, <3>8, <3>9
  <2> QED
    BY <2>1, <2>2
<1> QED
  BY <1>1, PathInvariant, GroupedInvariant, PTL
=============================================================================
