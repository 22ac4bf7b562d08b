-------------------------- MODULE SrsReportProofs --------------------------
(***************************************************************************)
(* Theorems about the SRS report services, for any UEs, antennas,          *)
(* subscriptions, sizes and limits.                                        *)
(***************************************************************************)
EXTENDS SrsReport, SequenceLemmas

-----------------------------------------------------------------------------
(* What the streams of one UE are. *)
LEMMA SortedIs ==
  ASSUME NEW S \in SUBSET Nat, IsFiniteSet(S)
  PROVE  /\ Sorted(S) \in Seq(S) /\ Increasing(Sorted(S))
         /\ \A x \in S : \E i \in 1..Len(Sorted(S)) : Sorted(S)[i] = x
<1>1. /\ Sorted(S) \in [1..Cardinality(S) -> S]
      /\ \A i, j \in DOMAIN Sorted(S) : i < j => Sorted(S)[i] < Sorted(S)[j]
  BY InOrderExists DEF Sorted
<1> QED
  BY <1>1, InOrderIs

LEMMA AntennaSets ==
  ASSUME NEW S \in SUBSET AntennaIds
  PROVE  IsFiniteSet(S) /\ S \in SUBSET Nat
BY ReportSetsAssumption, FS_Subset

AreStreams(q, ue, S, isGenerated) ==
  /\ q \in Seq(Item)
  /\ \A i \in 1..Len(q) : /\ q[i].rnti = ue.rnti /\ q[i].timestamp = ue.timestamp
                          /\ q[i].generated = isGenerated /\ q[i].antenna_id \in S
  /\ \A i, j \in 1..Len(q) : i < j => q[i].antenna_id < q[j].antenna_id
  /\ \A a \in S : \E i \in 1..Len(q) : q[i].antenna_id = a

LEMMA StreamsAre ==
  ASSUME NEW ue \in Snapshot, NEW S \in SUBSET AntennaIds, NEW isGenerated \in BOOLEAN,
         NEW q, q = Streams(ue, Sorted(S), isGenerated)
  PROVE  AreStreams(q, ue, S, isGenerated)
<1> DEFINE antennas == Sorted(S)
<1>1. /\ antennas \in Seq(S) /\ Increasing(antennas)
      /\ \A a \in S : \E i \in 1..Len(antennas) : antennas[i] = a
  BY AntennaSets, SortedIs
<1> HIDE DEF antennas
<1>2. Len(antennas) \in Nat /\ \A i \in 1..Len(antennas) : antennas[i] \in S
  BY <1>1
<1>3. q = [i \in 1..Len(antennas) |->
             [rnti |-> ue.rnti, timestamp |-> ue.timestamp, antenna_id |-> antennas[i],
              generated |-> isGenerated]]
  BY DEF Streams, antennas
<1>4. \A i \in 1..Len(antennas) :
        [rnti |-> ue.rnti, timestamp |-> ue.timestamp, antenna_id |-> antennas[i],
         generated |-> isGenerated] \in Item
  BY <1>2 DEF Snapshot, Item
<1>5. q \in Seq(Item) /\ Len(q) = Len(antennas)
  BY <1>2, <1>3, <1>4
<1>6. \A i \in 1..Len(q) : /\ q[i].rnti = ue.rnti /\ q[i].timestamp = ue.timestamp
                           /\ q[i].generated = isGenerated /\ q[i].antenna_id = antennas[i]
  BY <1>3, <1>5
<1> QED
  BY <1>1, <1>2, <1>5, <1>6 DEF AreStreams, Increasing

-----------------------------------------------------------------------------
(***************************************************************************)
(* What may be said of a queue: which references it has, that every        *)
(* received stream comes after its reference, that the timestamps of a UE  *)
(* do not decrease and the received streams of one snapshot are in antenna *)
(* order, and that a snapshot is in it once and whole.                     *)
(***************************************************************************)
Key(i) == <<i.rnti, i.antenna_id>>

HasReference(q, n, key) == \E j \in 1..n : q[j].generated /\ Key(q[j]) = key

Covered(q, keys) ==
  \A i \in 1..Len(q) : ~q[i].generated =>
    Key(q[i]) \in keys \/ HasReference(q, i - 1, Key(q[i]))

NotNewer(i, j) ==
  i.rnti = j.rnti =>
    /\ i.timestamp <= j.timestamp
    /\ ~i.generated /\ ~j.generated /\ i.timestamp = j.timestamp
         => i.antenna_id < j.antenna_id

Ordered(q)   == \A i, j \in 1..Len(q) : i < j => NotNewer(q[i], q[j])
Earlier(q, r) == \A i \in 1..Len(q), j \in 1..Len(r) : NotNewer(q[i], r[j])

ReceivedAt(q, snap) ==
  {i \in 1..Len(q) : /\ ~q[i].generated /\ q[i].rnti = snap.rnti
                     /\ q[i].timestamp = snap.timestamp}

Whole(q, snap) ==
  /\ {q[i].antenna_id : i \in ReceivedAt(q, snap)} = snap.antennas
  /\ \A i, j \in ReceivedAt(q, snap) : i < j => q[i].antenna_id < q[j].antenna_id

Placed(q, r, w) ==
  /\ Len(q) \in Nat /\ Len(r) \in Nat /\ Len(w) = Len(q) + Len(r)
  /\ \A i \in 1..Len(q) : i \in 1..Len(w) /\ w[i] = q[i]
  /\ \A i \in 1..Len(r) : Len(q) + i \in 1..Len(w) /\ w[Len(q) + i] = r[i]
  /\ \A i \in 1..Len(w) : i \in 1..Len(q) \/ \E j \in 1..Len(r) : i = Len(q) + j

LEMMA ConcatPlaces ==
  ASSUME NEW S, NEW q \in Seq(S), NEW r \in Seq(S)
  PROVE  Placed(q, r, q \o r)
<1>1. /\ Len(q) \in Nat /\ Len(r) \in Nat /\ Len(q \o r) = Len(q) + Len(r)
      /\ \A i \in 1..Len(q) : i \in 1..Len(q \o r) /\ (q \o r)[i] = q[i]
      /\ \A i \in 1..Len(r) : Len(q) + i \in 1..Len(q \o r) /\ (q \o r)[Len(q) + i] = r[i]
  OBVIOUS
<1>2. ASSUME NEW i \in 1..Len(q \o r), i \notin 1..Len(q)
      PROVE  \E j \in 1..Len(r) : i = Len(q) + j
  <2>1. i - Len(q) \in 1..Len(r) /\ i = Len(q) + (i - Len(q))
    BY <1>1, <1>2
  <2> QED
    BY <2>1
<1> QED
  BY <1>1, <1>2 DEF Placed

LEMMA CoveredConcat ==
  ASSUME NEW q \in Seq(Item), NEW r \in Seq(Item), NEW keys, NEW more,
         Covered(q, keys), Covered(r, more),
         \A key \in more : key \in keys \/ HasReference(q, Len(q), key)
  PROVE  Covered(q \o r, keys)
<1> DEFINE w == q \o r
<1>1. /\ Len(q) \in Nat /\ Len(r) \in Nat /\ Len(w) = Len(q) + Len(r)
      /\ \A i \in 1..Len(q) : i \in 1..Len(w) /\ w[i] = q[i]
      /\ \A i \in 1..Len(r) : Len(q) + i \in 1..Len(w) /\ w[Len(q) + i] = r[i]
      /\ \A i \in 1..Len(w) : i \in 1..Len(q) \/ \E j \in 1..Len(r) : i = Len(q) + j
  BY ConcatPlaces DEF Placed
<1> HIDE DEF w
<1>2. ASSUME NEW n \in Nat, n <= Len(q), NEW m \in Nat, n <= m, NEW key, HasReference(q, n, key)
      PROVE  HasReference(w, m, key)
  <2>1. PICK j \in 1..n : q[j].generated /\ Key(q[j]) = key
    BY <1>2 DEF HasReference
  <2>2. j \in 1..m /\ j \in 1..Len(q)
    BY <1>1, <1>2
  <2> QED
    BY <1>1, <2>1, <2>2, Zenon DEF HasReference
<1>3. ASSUME NEW i \in 1..Len(q), ~w[i].generated
      PROVE  Key(w[i]) \in keys \/ HasReference(w, i - 1, Key(w[i]))
  <2>1. w[i] = q[i] /\ i - 1 \in Nat /\ i - 1 <= Len(q)
    BY <1>1
  <2>2. Key(q[i]) \in keys \/ HasReference(q, i - 1, Key(q[i]))
    BY <1>3, <2>1 DEF Covered
  <2> QED
    BY <1>2, <2>1, <2>2
<1>4. ASSUME NEW i \in 1..Len(r), ~w[Len(q) + i].generated
      PROVE  Key(w[Len(q) + i]) \in keys
             \/ HasReference(w, (Len(q) + i) - 1, Key(w[Len(q) + i]))
  <2> DEFINE key == Key(r[i])
  <2>1. w[Len(q) + i] = r[i] /\ Len(q) <= (Len(q) + i) - 1 /\ (Len(q) + i) - 1 \in Nat
    BY <1>1
  <2>2. key \in more \/ HasReference(r, i - 1, key)
    BY <1>4, <2>1 DEF Covered
  <2>3. CASE key \in keys
    BY <2>1, <2>3
  <2>4. CASE HasReference(q, Len(q), key)
    <3>1. Len(q) <= Len(q)
      BY <1>1
    <3>2. HasReference(w, (Len(q) + i) - 1, key)
      BY <1>1, <1>2, <2>1, <2>4, <3>1, Zenon
    <3> QED
      BY <2>1, <3>2, Zenon
  <2>5. CASE HasReference(r, i - 1, key)
    <3>1. PICK j \in 1..(i - 1) : r[j].generated /\ Key(r[j]) = key
      BY <2>5 DEF HasReference
    <3>2. j \in 1..Len(r) /\ Len(q) + j \in 1..((Len(q) + i) - 1)
      BY <1>1
    <3>3. w[Len(q) + j] = r[j]
      BY <1>1, <3>2
    <3> QED
      BY <2>1, <3>1, <3>2, <3>3, Zenon DEF HasReference
  <2> QED
    BY <2>2, <2>3, <2>4, <2>5
<1>5. Covered(w, keys)
  BY <1>1, <1>3, <1>4 DEF Covered
<1> QED
  BY <1>5 DEF w

LEMMA CoveredPrefix ==
  ASSUME NEW q \in Seq(Item), NEW r \in Seq(Item), NEW keys, Covered(q \o r, keys)
  PROVE  Covered(q, keys)
<1> DEFINE w == q \o r
<1>1. /\ Len(q) \in Nat /\ \A i \in 1..Len(q) : i \in 1..Len(w) /\ w[i] = q[i]
  BY ConcatPlaces DEF Placed
<1>2. Covered(w, keys)
  OBVIOUS
<1> HIDE DEF w
<1> SUFFICES ASSUME NEW i \in 1..Len(q), ~q[i].generated
             PROVE  Key(q[i]) \in keys \/ HasReference(q, i - 1, Key(q[i]))
  BY DEF Covered
<1>3. i \in 1..Len(w) /\ w[i] = q[i]
  BY <1>1
<1>4. Key(q[i]) \in keys \/ HasReference(w, i - 1, Key(q[i]))
  BY <1>2, <1>3 DEF Covered
<1>5. ASSUME NEW j \in 1..(i - 1)
      PROVE  w[j] = q[j]
  BY <1>1
<1> QED
  BY <1>4, <1>5 DEF HasReference

LEMMA OrderedConcat ==
  ASSUME NEW q \in Seq(Item), NEW r \in Seq(Item)
  PROVE  /\ Ordered(q) /\ Ordered(r) /\ Earlier(q, r) => Ordered(q \o r)
         /\ Ordered(q \o r) => Ordered(q) /\ Ordered(r) /\ Earlier(q, r)
<1> DEFINE w == q \o r
           n == Len(q)
<1>1. /\ n \in Nat /\ Len(r) \in Nat /\ Len(w) = n + Len(r)
      /\ \A i \in 1..n : i \in 1..Len(w) /\ w[i] = q[i]
      /\ \A i \in 1..Len(r) : n + i \in 1..Len(w) /\ w[n + i] = r[i]
      /\ \A i \in 1..Len(w) : i \in 1..n \/ \E j \in 1..Len(r) : i = n + j
  BY ConcatPlaces DEF Placed
<1> HIDE DEF w, n
<1>2. ASSUME Ordered(q), Ordered(r), Earlier(q, r), NEW i \in 1..Len(w), NEW j \in 1..Len(w), i < j
      PROVE  NotNewer(w[i], w[j])
  <2>1. CASE i \in 1..n /\ j \in 1..n
    BY <1>1, <1>2, <2>1 DEF Ordered, n
  <2>2. CASE i \in 1..n /\ j \notin 1..n
    <3>1. PICK k \in 1..Len(r) : j = n + k
      BY <1>1, <2>2
    <3> QED
      BY <1>1, <1>2, <2>2, <3>1, Zenon DEF Earlier, n
  <2>3. CASE i \notin 1..n
    <3>1. PICK k \in 1..Len(r) : i = n + k
      BY <1>1, <2>3
    <3>2. j \notin 1..n
      BY <1>1, <1>2, <3>1
    <3>3. PICK l \in 1..Len(r) : j = n + l
      BY <1>1, <3>2
    <3>4. k < l
      BY <1>1, <1>2, <3>1, <3>3
    <3> QED
      BY <1>1, <1>2, <3>1, <3>3, <3>4, Zenon DEF Ordered
  <2> QED
    BY <2>1, <2>2, <2>3
<1>3. ASSUME Ordered(w)
      PROVE  Ordered(q) /\ Ordered(r) /\ Earlier(q, r)
  <2>1. \A i, j \in 1..n : i < j => NotNewer(q[i], q[j])
    BY <1>1, <1>3 DEF Ordered
  <2>2. ASSUME NEW i \in 1..Len(r), NEW j \in 1..Len(r), i < j
        PROVE  NotNewer(r[i], r[j])
    <3>1. n + i < n + j
      BY <1>1, <2>2
    <3> QED
      BY <1>1, <1>3, <3>1, Zenon DEF Ordered
  <2>3. ASSUME NEW i \in 1..n, NEW j \in 1..Len(r)
        PROVE  NotNewer(q[i], r[j])
    <3>1. i < n + j
      BY <1>1
    <3> QED
      BY <1>1, <1>3, <3>1, Zenon DEF Ordered
  <2> QED
    BY <2>1, <2>2, <2>3 DEF Ordered, Earlier, n
<1> QED
  BY <1>2, <1>3 DEF w, Ordered

LEMMA EarlierConcat ==
  ASSUME NEW q \in Seq(Item), NEW r \in Seq(Item), NEW t \in Seq(Item)
  PROVE  /\ Earlier(q, t) /\ Earlier(r, t) => Earlier(q \o r, t)
         /\ Earlier(t, q) /\ Earlier(t, r) => Earlier(t, q \o r)
         /\ Earlier(t, q \o r) => Earlier(t, q) /\ Earlier(t, r)
<1> DEFINE w == q \o r
           n == Len(q)
<1>1. /\ \A i \in 1..n : i \in 1..Len(w) /\ w[i] = q[i]
      /\ \A i \in 1..Len(r) : n + i \in 1..Len(w) /\ w[n + i] = r[i]
      /\ \A i \in 1..Len(w) : i \in 1..n \/ \E j \in 1..Len(r) : i = n + j
  BY ConcatPlaces DEF Placed
<1> HIDE DEF w
<1>2. ASSUME Earlier(q, t), Earlier(r, t)
      PROVE  Earlier(w, t)
  BY <1>1, <1>2, Zenon DEF Earlier
<1>3. ASSUME Earlier(t, q), Earlier(t, r)
      PROVE  Earlier(t, w)
  BY <1>1, <1>3, Zenon DEF Earlier
<1>4. ASSUME Earlier(t, w)
      PROVE  Earlier(t, q) /\ Earlier(t, r)
  BY <1>1, <1>4, Zenon DEF Earlier
<1> QED
  BY <1>2, <1>3, <1>4 DEF w

LEMMA ReceivedConcat ==
  ASSUME NEW q \in Seq(Item), NEW r \in Seq(Item), NEW snap
  PROVE  /\ ReceivedAt(q, snap) = {} /\ ReceivedAt(r, snap) = {} => ReceivedAt(q \o r, snap) = {}
         /\ Whole(q, snap) /\ ReceivedAt(r, snap) = {} => Whole(q \o r, snap)
         /\ ReceivedAt(q, snap) = {} /\ Whole(r, snap) => Whole(q \o r, snap)
<1> DEFINE w == q \o r
           n == Len(q)
<1>1. /\ n \in Nat /\ Len(r) \in Nat /\ Len(w) = n + Len(r)
      /\ \A i \in 1..n : i \in 1..Len(w) /\ w[i] = q[i]
      /\ \A i \in 1..Len(r) : n + i \in 1..Len(w) /\ w[n + i] = r[i]
      /\ \A i \in 1..Len(w) : i \in 1..n \/ \E j \in 1..Len(r) : i = n + j
  BY ConcatPlaces DEF Placed
<1> HIDE DEF w, n
<1>2. \A i \in 1..n : i \in ReceivedAt(w, snap) <=> i \in ReceivedAt(q, snap)
  BY <1>1, Zenon DEF ReceivedAt, n
<1>3. \A i \in 1..Len(r) : n + i \in ReceivedAt(w, snap) <=> i \in ReceivedAt(r, snap)
  BY <1>1, Zenon DEF ReceivedAt
<1>4. /\ \A i \in ReceivedAt(w, snap) : i \in 1..Len(w)
      /\ \A i \in ReceivedAt(q, snap) : i \in 1..n
      /\ \A i \in ReceivedAt(r, snap) : i \in 1..Len(r)
  BY DEF ReceivedAt, n
<1>5. ASSUME ReceivedAt(q, snap) = {}, ReceivedAt(r, snap) = {}
      PROVE  ReceivedAt(w, snap) = {}
  <2> SUFFICES ASSUME NEW i \in ReceivedAt(w, snap) PROVE FALSE
    OBVIOUS
  <2>1. i \in 1..Len(w)
    BY <1>4
  <2>2. CASE i \in 1..n
    BY <1>2, <1>5, <2>2, Zenon
  <2>3. ASSUME NEW k \in 1..Len(r), i = n + k
        PROVE  FALSE
    BY <1>3, <1>5, <2>3, Zenon
  <2> QED
    BY <1>1, <2>1, <2>2, <2>3
<1>6. ASSUME Whole(q, snap), ReceivedAt(r, snap) = {}
      PROVE  Whole(w, snap)
  <2>1. ReceivedAt(w, snap) = ReceivedAt(q, snap)
    <3>1. ASSUME NEW i \in ReceivedAt(w, snap)
          PROVE  i \in ReceivedAt(q, snap)
      <4>1. i \in 1..Len(w)
        BY <1>4
      <4>2. i \in 1..n
        <5> SUFFICES ASSUME NEW k \in 1..Len(r), i = n + k PROVE FALSE
          BY <1>1, <4>1
        <5> QED
          BY <1>3, <1>6, Zenon
      <4> QED
        BY <1>2, <4>2
    <3>2. \A i \in ReceivedAt(q, snap) : i \in ReceivedAt(w, snap)
      BY <1>2, <1>4
    <3> QED
      BY <3>1, <3>2
  <2>2. \A i \in ReceivedAt(q, snap) : w[i] = q[i]
    BY <1>1, <1>4
  <2> QED
    BY <1>6, <2>1, <2>2, Zenon DEF Whole
<1>7. ASSUME ReceivedAt(q, snap) = {}, Whole(r, snap)
      PROVE  Whole(w, snap)
  <2>1. \A i \in ReceivedAt(w, snap) : \E j \in ReceivedAt(r, snap) : i = n + j /\ w[i] = r[j]
    <3> SUFFICES ASSUME NEW i \in ReceivedAt(w, snap)
                 PROVE  \E j \in ReceivedAt(r, snap) : i = n + j /\ w[i] = r[j]
      OBVIOUS
    <3>1. i \in 1..Len(w)
      BY <1>4
    <3>2. i \notin 1..n
      BY <1>2, <1>7
    <3>3. PICK j \in 1..Len(r) : i = n + j
      BY <1>1, <3>1, <3>2
    <3> QED
      BY <1>1, <1>3, <3>3, Zenon
  <2>2. \A j \in ReceivedAt(r, snap) : n + j \in ReceivedAt(w, snap) /\ w[n + j] = r[j]
    BY <1>1, <1>3, <1>4
  <2>3. {w[i].antenna_id : i \in ReceivedAt(w, snap)} = {r[j].antenna_id : j \in ReceivedAt(r, snap)}
    <3>1. ASSUME NEW i \in ReceivedAt(w, snap)
          PROVE  \E j \in ReceivedAt(r, snap) : w[i].antenna_id = r[j].antenna_id
      BY <2>1
    <3>2. ASSUME NEW j \in ReceivedAt(r, snap)
          PROVE  \E i \in ReceivedAt(w, snap) : w[i].antenna_id = r[j].antenna_id
      BY <2>2
    <3> QED
      BY <3>1, <3>2
  <2>4. ASSUME NEW i \in ReceivedAt(w, snap), NEW k \in ReceivedAt(w, snap), i < k
        PROVE  w[i].antenna_id < w[k].antenna_id
    <3>1. PICK j \in ReceivedAt(r, snap) : i = n + j /\ w[i] = r[j]
      BY <2>1
    <3>2. PICK l \in ReceivedAt(r, snap) : k = n + l /\ w[k] = r[l]
      BY <2>1
    <3>3. j < l
      BY <1>1, <1>4, <2>4, <3>1, <3>2
    <3> QED
      BY <1>7, <3>1, <3>2, <3>3, Zenon DEF Whole
  <2> QED
    BY <1>7, <2>3, <2>4 DEF Whole
<1> QED
  BY <1>5, <1>6, <1>7 DEF w

LEMMA EmptyQueue ==
  ASSUME NEW keys, NEW snap, NEW q
  PROVE  /\ Covered(<<>>, keys) /\ Ordered(<<>>) /\ Earlier(<<>>, q) /\ Earlier(q, <<>>)
         /\ ReceivedAt(<<>>, snap) = {}
BY DEF Covered, Ordered, Earlier, ReceivedAt

-----------------------------------------------------------------------------
(* The streams of one UE: all of its snapshot, the received ones once and   *)
(* in order, after the references the service has not queued before.       *)
LEMMA StreamsOfIs ==
  ASSUME NEW ue \in Snapshot, NEW keys
  PROVE  LET q == StreamsOf(ue, keys)
         IN  /\ q \in Seq(Item)
             /\ \A i \in 1..Len(q) : q[i].rnti = ue.rnti /\ q[i].timestamp = ue.timestamp
             /\ Covered(q, keys) /\ Whole(q, ue)
             /\ \A a \in ue.antennas : <<ue.rnti, a>> \in keys \/ HasReference(q, Len(q), <<ue.rnti, a>>)
<1> DEFINE fresh == {a \in ue.antennas : <<ue.rnti, a>> \notin keys}
           g == Streams(ue, Sorted(fresh), TRUE)
           r == Streams(ue, Sorted(ue.antennas), FALSE)
<1>1. fresh \in SUBSET AntennaIds /\ ue.antennas \in SUBSET AntennaIds
  BY ReportSetsAssumption DEF Snapshot
<1> HIDE DEF fresh
<1>0. g = Streams(ue, Sorted(fresh), TRUE) /\ r = Streams(ue, Sorted(ue.antennas), FALSE)
  OBVIOUS
<1> HIDE DEF g, r
<1>2. AreStreams(g, ue, fresh, TRUE)
  BY <1>1, <1>0, StreamsAre
<1>3. AreStreams(r, ue, ue.antennas, FALSE)
  BY <1>1, <1>0, StreamsAre
<1>4. StreamsOf(ue, keys) = g \o r
  BY <1>0 DEF StreamsOf, fresh
<1>5. \A a \in ue.antennas : <<ue.rnti, a>> \in keys \/ HasReference(g, Len(g), <<ue.rnti, a>>)
  <2> SUFFICES ASSUME NEW a \in ue.antennas, <<ue.rnti, a>> \notin keys
               PROVE  HasReference(g, Len(g), <<ue.rnti, a>>)
    OBVIOUS
  <2>1. PICK i \in 1..Len(g) : g[i].antenna_id = a
    BY <1>2 DEF fresh, AreStreams
  <2> QED
    BY <1>2, <2>1 DEF HasReference, Key, AreStreams
<1>6. Covered(g \o r, keys)
  <2> DEFINE all == {<<ue.rnti, a>> : a \in ue.antennas}
  <2>1. Covered(g, keys)
    BY <1>2 DEF Covered, AreStreams
  <2>2. Covered(r, all)
    BY <1>3 DEF Covered, Key, AreStreams
  <2>3. \A key \in all : key \in keys \/ HasReference(g, Len(g), key)
    BY <1>5
  <2> HIDE DEF all
  <2> QED
    BY <1>2, <1>3, <2>1, <2>2, <2>3, CoveredConcat DEF AreStreams
<1>7. Whole(g \o r, ue)
  <2>1. ReceivedAt(g, ue) = {}
    BY <1>2 DEF ReceivedAt, AreStreams
  <2>2. ReceivedAt(r, ue) = 1..Len(r)
    BY <1>3 DEF ReceivedAt, AreStreams
  <2>3. {r[i].antenna_id : i \in 1..Len(r)} = ue.antennas
    BY <1>3 DEF AreStreams
  <2>4. Whole(r, ue)
    BY <1>3, <2>2, <2>3 DEF Whole, AreStreams
  <2> QED
    BY <1>2, <1>3, <2>1, <2>4, ReceivedConcat DEF AreStreams
<1> DEFINE w == g \o r
<1>8. /\ Len(g) \in Nat /\ Len(r) \in Nat /\ Len(w) = Len(g) + Len(r)
      /\ \A i \in 1..Len(g) : i \in 1..Len(w) /\ w[i] = g[i]
      /\ \A i \in 1..Len(r) : Len(g) + i \in 1..Len(w) /\ w[Len(g) + i] = r[i]
      /\ \A i \in 1..Len(w) : i \in 1..Len(g) \/ \E j \in 1..Len(r) : i = Len(g) + j
  BY <1>2, <1>3, ConcatPlaces DEF AreStreams, Placed
<1>9. w \in Seq(Item)
  BY <1>2, <1>3 DEF AreStreams
<1> HIDE DEF w
<1>10. \A i \in 1..Len(w) : w[i].rnti = ue.rnti /\ w[i].timestamp = ue.timestamp
  <2>1. \A i \in 1..Len(g) : w[i].rnti = ue.rnti /\ w[i].timestamp = ue.timestamp
    BY <1>2, <1>8 DEF AreStreams
  <2>2. \A i \in 1..Len(r) :
          w[Len(g) + i].rnti = ue.rnti /\ w[Len(g) + i].timestamp = ue.timestamp
    BY <1>3, <1>8 DEF AreStreams
  <2> QED
    BY <1>8, <2>1, <2>2
<1>11. \A a \in ue.antennas : <<ue.rnti, a>> \in keys \/ HasReference(w, Len(w), <<ue.rnti, a>>)
  <2>1. ASSUME NEW key, HasReference(g, Len(g), key)
        PROVE  HasReference(w, Len(w), key)
    BY <1>8, <2>1 DEF HasReference
  <2> QED
    BY <1>5, <2>1
<1> QED
  BY <1>4, <1>6, <1>7, <1>9, <1>10, <1>11 DEF w

-----------------------------------------------------------------------------
(* What a service queues of all the UEs that are complete. *)
LatestInv ==
  \A u \in Rntis :
    /\ produced[u] <= MaxTimestamp
    /\ latest[u] # NoSnapshot =>
         /\ latest[u] \in Snapshot
         /\ latest[u].rnti = u /\ latest[u].timestamp = produced[u] /\ produced[u] > 0

Drained == {latest[u] : u \in CompleteRntis}

(* ... as one sequence for each of them, in the order of their numbers. *)
Parts(seqs, keys) ==
  /\ seqs \in Seq(Seq(Item)) /\ CollectedItems(keys) = FlattenSeq(seqs)
  /\ \A k, l \in 1..Len(seqs) : k < l => \E u, v \in CompleteRntis :
       u < v /\ seqs[k] = StreamsOf(latest[u], keys) /\ seqs[l] = StreamsOf(latest[v], keys)
  /\ \A k \in 1..Len(seqs) : \E u \in CompleteRntis : seqs[k] = StreamsOf(latest[u], keys)
  /\ \A u \in CompleteRntis : \E k \in 1..Len(seqs) :
       /\ seqs[k] = StreamsOf(latest[u], keys)
       /\ \A l \in 1..Len(seqs) : l # k =>
            \E v \in CompleteRntis : v # u /\ seqs[l] = StreamsOf(latest[v], keys)

LEMMA CollectedParts ==
  ASSUME LatestInv, NEW keys
  PROVE  \E seqs : Parts(seqs, keys)
<1> DEFINE ues == Sorted(CompleteRntis)
           seqs == [i \in 1..Len(ues) |-> StreamsOf(latest[ues[i]], keys)]
<1>1. CompleteRntis \in SUBSET Nat /\ IsFiniteSet(CompleteRntis)
  BY ReportSetsAssumption, FS_Subset DEF CompleteRntis
<1>2. /\ ues \in Seq(CompleteRntis) /\ Increasing(ues)
      /\ \A u \in CompleteRntis : \E i \in 1..Len(ues) : ues[i] = u
  BY <1>1, SortedIs
<1>3. CollectedItems(keys) = FlattenSeq(seqs)
  BY DEF CollectedItems
<1> HIDE DEF ues
<1>4. Len(ues) \in Nat /\ \A i \in 1..Len(ues) : ues[i] \in CompleteRntis
  BY <1>2
<1>5. \A u \in CompleteRntis : latest[u] \in Snapshot
  BY DEF LatestInv, CompleteRntis
<1>6. \A u \in CompleteRntis : StreamsOf(latest[u], keys) \in Seq(Item)
  BY <1>5, StreamsOfIs
<1>7. /\ seqs \in Seq(Seq(Item)) /\ Len(seqs) = Len(ues)
      /\ \A i \in 1..Len(ues) : seqs[i] = StreamsOf(latest[ues[i]], keys)
  BY <1>4, <1>6
<1> HIDE DEF seqs
<1>8. \A k \in 1..Len(seqs) : \E u \in CompleteRntis : seqs[k] = StreamsOf(latest[u], keys)
  BY <1>4, <1>7
<1>9. ASSUME NEW u \in CompleteRntis
      PROVE  \E k \in 1..Len(seqs) :
               /\ seqs[k] = StreamsOf(latest[u], keys)
               /\ \A l \in 1..Len(seqs) : l # k =>
                    \E v \in CompleteRntis : v # u /\ seqs[l] = StreamsOf(latest[v], keys)
  <2>1. PICK k \in 1..Len(ues) : ues[k] = u
    BY <1>2
  <2>2. ASSUME NEW l \in 1..Len(ues), l # k
        PROVE  ues[l] # u
    <3>1. ues[l] \in Nat /\ ues[k] \in Nat
      BY <1>1, <1>4
    <3>2. l < k \/ k < l
      BY <1>4, <2>2
    <3>3. ues[l] < ues[k] \/ ues[k] < ues[l]
      BY <1>2, <3>2 DEF Increasing
    <3> QED
      BY <2>1, <3>1, <3>3
  <2> QED
    <3>1. k \in 1..Len(seqs) /\ seqs[k] = StreamsOf(latest[u], keys)
      BY <1>7, <2>1, Zenon
    <3>2. ASSUME NEW l \in 1..Len(seqs), l # k
          PROVE  \E v \in CompleteRntis : v # u /\ seqs[l] = StreamsOf(latest[v], keys)
      <4>1. l \in 1..Len(ues)
        BY <1>7
      <4> QED
        BY <1>4, <1>7, <2>2, <3>2, <4>1, Zenon
    <3> QED
      BY <3>1, <3>2
<1>10. ASSUME NEW k \in 1..Len(seqs), NEW l \in 1..Len(seqs), k < l
       PROVE  \E u, v \in CompleteRntis :
                u < v /\ seqs[k] = StreamsOf(latest[u], keys) /\ seqs[l] = StreamsOf(latest[v], keys)
  <2>1. k \in 1..Len(ues) /\ l \in 1..Len(ues)
    BY <1>7
  <2>2. ues[k] < ues[l]
    BY <1>2, <1>10, <2>1 DEF Increasing
  <2> QED
    BY <1>4, <1>7, <2>1, <2>2, Zenon
<1>11. Parts(seqs, keys)
  BY <1>3, <1>7, <1>8, <1>9, <1>10, Zenon DEF Parts
<1> QED
  BY <1>11

(* All of them are of complete snapshots, and every received one follows    *)
(* its reference, if the service has not queued that before.               *)
LEMMA CollectedAre ==
  ASSUME LatestInv, NEW keys
  PROVE  /\ CollectedItems(keys) \in Seq(Item)
         /\ \A i \in 1..Len(CollectedItems(keys)) :
              /\ CollectedItems(keys)[i].rnti \in CompleteRntis
              /\ CollectedItems(keys)[i].timestamp = produced[CollectedItems(keys)[i].rnti]
         /\ Covered(CollectedItems(keys), keys)
         /\ \A key \in CollectedKeys : key \in keys \/
              HasReference(CollectedItems(keys), Len(CollectedItems(keys)), key)
<1> DEFINE items == CollectedItems(keys)
           Latest(i) == i.rnti \in CompleteRntis /\ i.timestamp = produced[i.rnti]
           T == {q \in Seq(Item) : (\A i \in 1..Len(q) : Latest(q[i])) /\ Covered(q, keys)}
<1>1. PICK seqs : Parts(seqs, keys)
  BY CollectedParts
<1>2. \A u \in CompleteRntis : latest[u] \in Snapshot /\ latest[u].rnti = u
                               /\ latest[u].timestamp = produced[u]
  BY DEF LatestInv, CompleteRntis
<1>3. \A k \in 1..Len(seqs) : seqs[k] \in T
  <2> SUFFICES ASSUME NEW k \in 1..Len(seqs) PROVE seqs[k] \in T
    OBVIOUS
  <2>1. PICK u \in CompleteRntis : seqs[k] = StreamsOf(latest[u], keys)
    BY <1>1 DEF Parts
  <2>2. PICK ue \in Snapshot : ue = latest[u] /\ ue.rnti = u /\ ue.timestamp = produced[u]
    BY <1>2
  <2>3. PICK q \in Seq(Item) :
          /\ q = StreamsOf(ue, keys) /\ Covered(q, keys)
          /\ \A i \in 1..Len(q) : q[i].rnti = ue.rnti /\ q[i].timestamp = ue.timestamp
    BY StreamsOfIs
  <2>4. q \in T
    BY <2>2, <2>3
  <2> HIDE DEF T
  <2> QED
    BY <2>1, <2>2, <2>3, <2>4, Zenon
<1>4. <<>> \in T
  BY EmptyQueue
<1>5. ASSUME NEW q \in T, NEW r \in T
      PROVE  q \o r \in T
  <2> DEFINE w == q \o r
  <2>1. /\ \A i \in 1..Len(q) : w[i] = q[i]
        /\ \A i \in 1..Len(r) : w[Len(q) + i] = r[i]
        /\ \A i \in 1..Len(w) : i \in 1..Len(q) \/ \E j \in 1..Len(r) : i = Len(q) + j
    BY ConcatPlaces DEF Placed
  <2>2. w \in Seq(Item)
    OBVIOUS
  <2>3. Covered(w, keys)
    BY CoveredConcat
  <2> HIDE DEF w
  <2>4. \A i \in 1..Len(w) : Latest(w[i])
    <3>1. \A i \in 1..Len(q) : Latest(w[i])
      BY <2>1, Zenon
    <3>2. \A i \in 1..Len(r) : Latest(w[Len(q) + i])
      BY <2>1, Zenon
    <3> HIDE DEF Latest
    <3> QED
      BY <2>1, <3>1, <3>2
  <2> QED
    BY <2>2, <2>3, <2>4 DEF w
<1> HIDE DEF T
<1>6. FlattenSeq(seqs) \in T
  BY <1>1, <1>3, <1>4, <1>5, FlattenIn DEF Parts
<1>7. items \in T
  BY <1>1, <1>6 DEF Parts
<1> HIDE DEF items
<1>8. ASSUME NEW key \in CollectedKeys, key \notin keys
      PROVE  HasReference(items, Len(items), key)
  <2>1. PICK u \in CompleteRntis : \E a \in latest[u].antennas : key = <<u, a>>
    BY <1>8 DEF CollectedKeys
  <2>2. PICK a \in latest[u].antennas : key = <<u, a>>
    BY <2>1
  <2>3. PICK k \in 1..Len(seqs) : seqs[k] = StreamsOf(latest[u], keys)
    BY <1>1 DEF Parts
  <2>4. HasReference(seqs[k], Len(seqs[k]), key)
    BY <1>2, <1>8, <2>2, <2>3, StreamsOfIs
  <2>5. PICK j \in 1..Len(seqs[k]) : seqs[k][j].generated /\ Key(seqs[k][j]) = key
    BY <2>4 DEF HasReference
  <2>6. ToSet(seqs[k]) \subseteq ToSet(items)
    BY <1>1, FlattenHas DEF Parts, items
  <2>7. DOMAIN seqs[k] = 1..Len(seqs[k]) /\ DOMAIN items = 1..Len(items)
    <3>1. seqs[k] \in Seq(Item) /\ items \in Seq(Item)
      BY <1>1, <1>7 DEF Parts, T
    <3> QED
      BY <3>1
  <2>8. seqs[k][j] \in ToSet(items)
    BY <2>6, <2>7 DEF ToSet
  <2>9. PICK i \in 1..Len(items) : items[i] = seqs[k][j]
    BY <2>7, <2>8 DEF ToSet
  <2> QED
    BY <2>5, <2>9 DEF HasReference
<1> QED
  BY <1>7, <1>8 DEF T, items

(* Each complete snapshot is among them once, and whole. *)
LEMMA CollectedWhole ==
  ASSUME LatestInv, NEW keys, NEW u \in CompleteRntis
  PROVE  Whole(CollectedItems(keys), latest[u])
<1> DEFINE snap == latest[u]
<1>1. PICK seqs : Parts(seqs, keys)
  BY CollectedParts
<1>2. PICK k \in 1..Len(seqs) :
        /\ seqs[k] = StreamsOf(latest[u], keys)
        /\ \A l \in 1..Len(seqs) : l # k =>
             \E v \in CompleteRntis : v # u /\ seqs[l] = StreamsOf(latest[v], keys)
  BY <1>1 DEF Parts
<1>3. \A v \in CompleteRntis : latest[v] \in Snapshot /\ latest[v].rnti = v
  BY DEF LatestInv, CompleteRntis
<1> HIDE DEF snap
<1>4. Whole(seqs[k], snap)
  BY <1>2, <1>3, StreamsOfIs DEF snap
<1>5. ASSUME NEW l \in 1..Len(seqs), l # k
      PROVE  ReceivedAt(seqs[l], snap) = {}
  <2>1. PICK v \in CompleteRntis : v # u /\ seqs[l] = StreamsOf(latest[v], keys)
    BY <1>2, <1>5
  <2>2. PICK q \in Seq(Item) : q = seqs[l] /\ \A i \in 1..Len(q) : q[i].rnti = v
    BY <1>3, <2>1, StreamsOfIs
  <2>3. ReceivedAt(q, snap) = {}
    BY <1>3, <2>1, <2>2 DEF ReceivedAt, snap
  <2> QED
    BY <2>2, <2>3
<1>6. PICK run : /\ run[0] = <<>>
                 /\ \A m \in 0..(Len(seqs) - 1) : run[m + 1] = run[m] \o seqs[m + 1]
                 /\ \A m \in 0..Len(seqs) : run[m] \in Seq(Item)
                 /\ FlattenSeq(seqs) = run[Len(seqs)]
  BY <1>1, FlattenRuns DEF Parts
<1> DEFINE n == Len(seqs)
           U == {m \in Nat : m <= n => IF m < k THEN ReceivedAt(run[m], snap) = {}
                                       ELSE Whole(run[m], snap)}
<1>7. n \in Nat /\ \A m \in 1..n : seqs[m] \in Seq(Item)
  <2>1. seqs \in Seq(Seq(Item))
    BY <1>1 DEF Parts
  <2> QED
    BY <2>1
<1> HIDE DEF n
<1>8. k \in 1..n
  BY DEF n
<1>9. 0 \in U
  <2>1. ReceivedAt(run[0], snap) = {}
    BY <1>6, EmptyQueue
  <2> QED
    BY <1>7, <1>8, <2>1
<1>10. ASSUME NEW m \in Nat, m \in U
       PROVE  m + 1 \in U
  <2> SUFFICES ASSUME m + 1 <= n
               PROVE  IF m + 1 < k THEN ReceivedAt(run[m + 1], snap) = {}
                      ELSE Whole(run[m + 1], snap)
    OBVIOUS
  <2>1. m \in 0..(n - 1) /\ m \in 0..n /\ m + 1 \in 1..n
    BY <1>7
  <2>2. run[m] \in Seq(Item) /\ seqs[m + 1] \in Seq(Item) /\ run[m + 1] = run[m] \o seqs[m + 1]
    BY <1>6, <1>7, <2>1 DEF n
  <2>3. IF m < k THEN ReceivedAt(run[m], snap) = {} ELSE Whole(run[m], snap)
    BY <1>7, <1>10, <2>1
  <2>4. CASE m + 1 < k
    <3>1. m < k /\ m + 1 # k
      BY <1>7, <1>8, <2>4
    <3>2. ReceivedAt(seqs[m + 1], snap) = {}
      BY <1>5, <2>1, <3>1 DEF n
    <3> QED
      BY <2>2, <2>3, <2>4, <3>1, <3>2, ReceivedConcat
  <2>5. CASE m + 1 = k
    <3>1. m < k /\ ~(m + 1 < k)
      BY <1>7, <1>8, <2>5
    <3> QED
      BY <1>4, <2>2, <2>3, <2>5, <3>1, ReceivedConcat
  <2>6. CASE m + 1 > k
    <3>1. ~(m < k) /\ m + 1 # k /\ ~(m + 1 < k)
      BY <1>7, <1>8, <2>6
    <3>2. ReceivedAt(seqs[m + 1], snap) = {}
      BY <1>5, <2>1, <3>1 DEF n
    <3> QED
      BY <2>2, <2>3, <3>1, <3>2, ReceivedConcat
  <2> QED
    BY <1>7, <1>8, <2>4, <2>5, <2>6
<1> HIDE DEF U
<1>11. n \in U
  BY <1>7, <1>9, <1>10, SetInduction
<1>12. Whole(run[n], snap)
  <2>1. ~(n < k) /\ n <= n
    BY <1>7, <1>8
  <2> QED
    BY <1>11, <2>1 DEF U
<1>13. CollectedItems(keys) = run[n]
  BY <1>1, <1>6 DEF Parts, n
<1> QED
  BY <1>12, <1>13 DEF snap

(* They are in order: there is one snapshot of each UE, and it is whole. *)
LEMMA CollectedOrdered ==
  ASSUME LatestInv, NEW keys
  PROVE  Ordered(CollectedItems(keys))
<1> DEFINE q == CollectedItems(keys)
<1>1. \A i \in 1..Len(q) : q[i].timestamp = produced[q[i].rnti] /\ q[i].rnti \in CompleteRntis
  BY CollectedAre
<1>2. \A u \in CompleteRntis : /\ produced[u] \in Nat /\ latest[u].rnti = u
                                /\ latest[u].timestamp = produced[u] /\ Whole(q, latest[u])
  BY CollectedWhole DEF LatestInv, CompleteRntis, Snapshot
<1> HIDE DEF q
<1>3. ASSUME NEW i \in 1..Len(q), NEW j \in 1..Len(q), i < j
      PROVE  NotNewer(q[i], q[j])
  <2> SUFFICES ASSUME q[i].rnti = q[j].rnti PROVE NotNewer(q[i], q[j])
    BY DEF NotNewer
  <2>1. PICK u \in CompleteRntis : u = q[i].rnti
    BY <1>1
  <2>2. q[i].timestamp = produced[u] /\ q[j].timestamp = produced[u]
    BY <1>1, <2>1
  <2>3. CASE ~q[i].generated /\ ~q[j].generated
    <3>1. i \in ReceivedAt(q, latest[u]) /\ j \in ReceivedAt(q, latest[u])
      BY <1>2, <2>1, <2>2, <2>3 DEF ReceivedAt
    <3>2. q[i].antenna_id < q[j].antenna_id
      BY <1>2, <1>3, <3>1 DEF Whole
    <3> QED
      BY <1>2, <2>2, <3>2 DEF NotNewer
  <2> QED
    BY <1>2, <2>2, <2>3 DEF NotNewer
<1>4. Ordered(q)
  BY <1>3 DEF Ordered
<1> QED
  BY <1>4 DEF q

(* A batch is of one item at least, and of no more than there are. *)
LEMMA BatchLengthIs ==
  ASSUME NEW items \in Seq(Item), items # <<>>
  PROVE  BatchLength(items) \in 1..Len(items)
<1> DEFINE S == {n \in 1..Len(items) : Batches(items, n)}
<1>1. Len(items) \in Nat /\ 1 \in 1..Len(items)
  OBVIOUS
<1>2. 2..1 = {}
  OBVIOUS
<1>3. 1 \in S
  BY <1>1, <1>2 DEF Batches, max_streams_per_pdu
<1>4. S \in SUBSET (0..Len(items))
  BY <1>1
<1>5. BatchLength(items) = Max(S)
  BY DEF BatchLength
<1> HIDE DEF S
<1>6. Max(S) \in S
  BY <1>1, <1>3, <1>4, LargestUpTo
<1> QED
  BY <1>5, <1>6 DEF S

-----------------------------------------------------------------------------
(* The variables keep values of their types.  A snapshot in the collector   *)
(* is of the UE under which it is, and is the last one taken of it.        *)
Sent(s) == FlattenSeq(pdus[s])

LEMMA ReportTypeInit == Init => TypeOK /\ LatestInv
<1> SUFFICES ASSUME Init PROVE TypeOK /\ LatestInv
  OBVIOUS
<1>1. <<>> \in Seq(Item) /\ <<>> \in Seq(Seq(Item))
  OBVIOUS
<1> QED
  BY <1>1, ReportSizesAssumption DEF Init, TypeOK, LatestInv

LEMMA CollectType ==
  ASSUME TypeOK, LatestInv, NEW s \in Services, collect_measurements(s)
  PROVE  TypeOK' /\ LatestInv'
<1>1. PICK items \in Seq(Item) : items = CollectedItems(generated_sent_keys[s])
  BY CollectedAre
<1>2. CollectedKeys \in SUBSET (Rntis \X AntennaIds)
  <2> SUFFICES ASSUME NEW u \in CompleteRntis, NEW a \in latest[u].antennas
               PROVE  u \in Rntis /\ a \in AntennaIds
    BY DEF CollectedKeys
  <2>1. u \in Rntis /\ latest[u] \in Snapshot
    BY DEF LatestInv, CompleteRntis
  <2> QED
    BY <2>1, ReportSetsAssumption DEF Snapshot
<1>3. Drained \subseteq Snapshot
  BY DEF Drained, LatestInv, CompleteRntis
<1>4. /\ pending_items' = [pending_items EXCEPT ![s] = @ \o items]
      /\ enqueued' = [enqueued EXCEPT ![s] = @ \o items]
      /\ generated_sent_keys' = [generated_sent_keys EXCEPT ![s] = @ \cup CollectedKeys]
      /\ drained' = drained \cup Drained
      /\ latest' = [u \in Rntis |-> NoSnapshot]
      /\ UNCHANGED <<produced, live, popped, pdus>>
  BY <1>1 DEF collect_measurements, Drained
<1>5. pending_items[s] \o items \in Seq(Item) /\ enqueued[s] \o items \in Seq(Item)
  BY DEF TypeOK
<1>6. pending_items' \in [Services -> Seq(Item)] /\ enqueued' \in [Services -> Seq(Item)]
  BY <1>4, <1>5 DEF TypeOK
<1>7. generated_sent_keys' \in [Services -> SUBSET (Rntis \X AntennaIds)]
  BY <1>2, <1>4 DEF TypeOK
<1>8. latest' \in [Rntis -> Snapshot \cup {NoSnapshot}] /\ LatestInv'
  BY <1>4 DEF LatestInv, TypeOK
<1> QED
  BY <1>3, <1>4, <1>6, <1>7, <1>8 DEF TypeOK

(* A batch leaves the queue, and is sent or is lost. *)
Taken(s, batch, rest) ==
  /\ pending_items[s] = batch \o rest
  /\ popped' = [popped EXCEPT ![s] = @ \o batch]
  /\ pending_items' = [pending_items EXCEPT ![s] = rest]
  /\ \/ pdus' = [pdus EXCEPT ![s] = Append(@, batch)]
     \/ AppendMayFail /\ UNCHANGED pdus
  /\ UNCHANGED <<env, live, generated_sent_keys, drained, enqueued>>

LEMMA GetTakes ==
  ASSUME TypeOK, NEW s \in Services, get_indication_message(s)
  PROVE  \E batch, rest \in Seq(Item) : Taken(s, batch, rest)
<1>1. PICK items \in Seq(Item) : items = pending_items[s] /\ items # <<>>
  BY DEF TypeOK, get_indication_message
<1>2. PICK n \in 1..Len(items) : n = BatchLength(items)
  BY <1>1, BatchLengthIs
<1> DEFINE batch == SubSeq(items, 1, n)
           rest  == SubSeq(items, n + 1, Len(items))
<1>3. batch \in Seq(Item) /\ rest \in Seq(Item) /\ items = batch \o rest
  OBVIOUS
<1>4. /\ popped' = [popped EXCEPT ![s] = @ \o batch]
      /\ pending_items' = [pending_items EXCEPT ![s] = rest]
      /\ \/ pdus' = [pdus EXCEPT ![s] = Append(@, batch)]
         \/ AppendMayFail /\ UNCHANGED pdus
      /\ UNCHANGED <<env, live, generated_sent_keys, drained, enqueued>>
  BY <1>1, <1>2 DEF get_indication_message
<1> HIDE DEF batch, rest
<1>5. Taken(s, batch, rest)
  BY <1>1, <1>3, <1>4 DEF Taken
<1> QED
  BY <1>3, <1>5

LEMMA GetType ==
  ASSUME TypeOK, LatestInv, NEW s \in Services, get_indication_message(s)
  PROVE  TypeOK' /\ LatestInv'
<1>1. PICK batch \in Seq(Item), rest \in Seq(Item) : Taken(s, batch, rest)
  BY GetTakes
<1>2. popped[s] \o batch \in Seq(Item) /\ Append(pdus[s], batch) \in Seq(Seq(Item))
  BY DEF TypeOK
<1>3. popped' \in [Services -> Seq(Item)] /\ pending_items' \in [Services -> Seq(Item)]
      /\ pdus' \in [Services -> Seq(Seq(Item))]
  BY <1>1, <1>2 DEF TypeOK, Taken
<1> QED
  BY <1>1, <1>3 DEF TypeOK, LatestInv, Taken, env

LEMMA ReportTypeStep == TypeOK /\ LatestInv /\ [Next]_vars => TypeOK' /\ LatestInv'
<1> SUFFICES ASSUME TypeOK, LatestInv, [Next]_vars PROVE TypeOK' /\ LatestInv'
  OBVIOUS
<1>1. ASSUME NEW u \in Rntis, NEW antennas \in Shapes, Publish(u, antennas)
      PROVE  TypeOK' /\ LatestInv'
  <2>1. PICK snap : snap = [rnti |-> u, timestamp |-> produced[u] + 1, antennas |-> antennas]
    OBVIOUS
  <2>2. produced[u] + 1 \in Nat
    BY DEF TypeOK
  <2>3. snap \in Snapshot /\ snap.rnti = u /\ snap.timestamp = produced[u] + 1
    BY <2>1, <2>2 DEF Snapshot
  <2>4. /\ latest' = [latest EXCEPT ![u] = snap]
        /\ produced' = [produced EXCEPT ![u] = produced[u] + 1]
        /\ UNCHANGED <<live, service, history>>
    BY <1>1, <2>1 DEF Publish
  <2>5. latest' \in [Rntis -> Snapshot \cup {NoSnapshot}] /\ produced' \in [Rntis -> Nat]
    BY <2>2, <2>3, <2>4 DEF TypeOK
  <2>6. LatestInv'
    <3>1. produced[u] + 1 <= MaxTimestamp /\ produced[u] + 1 > 0
      BY <1>1, ReportSizesAssumption DEF Publish, TypeOK
    <3> QED
      BY <2>3, <2>4, <3>1 DEF TypeOK, LatestInv
  <2> QED
    BY <2>4, <2>5, <2>6 DEF TypeOK, service, history
<1>2. ASSUME NEW u \in Rntis, Withdraw(u)
      PROVE  TypeOK' /\ LatestInv'
  BY <1>2 DEF Withdraw, TypeOK, LatestInv, service, history
<1>3. ASSUME NEW s \in Services, Subscribe(s)
      PROVE  TypeOK' /\ LatestInv'
  BY <1>3 DEF Subscribe, TypeOK, LatestInv, env, service, history
<1>4. ASSUME NEW s \in Services, Unsubscribe(s)
      PROVE  TypeOK' /\ LatestInv'
  <2>1. <<>> \in Seq(Item)
    OBVIOUS
  <2> QED
    BY <1>4, <2>1 DEF Unsubscribe, TypeOK, LatestInv, env, history
<1>5. ASSUME NEW s \in Services, collect_measurements(s)
      PROVE  TypeOK' /\ LatestInv'
  BY <1>5, CollectType
<1>6. ASSUME NEW s \in Services, get_indication_message(s)
      PROVE  TypeOK' /\ LatestInv'
  BY <1>6, GetType
<1>7. CASE UNCHANGED vars
  BY <1>7 DEF vars, TypeOK, LatestInv, env, service, history
<1> QED
  BY <1>1, <1>2, <1>3, <1>4, <1>5, <1>6, <1>7 DEF Next

LEMMA ReportTypeCorrect == Spec => [](TypeOK /\ LatestInv)
BY ReportTypeInit, ReportTypeStep, PTL DEF Spec

-----------------------------------------------------------------------------
(***************************************************************************)
(* Why nothing is lost, repeated or reordered on its way out, and each     *)
(* snapshot goes to one service.                                           *)
(*   QueueInv      What left a queue is the beginning of what was queued.  *)
(*   ReferenceInv  A key is kept only for a reference that was queued, and *)
(*                 no received stream was queued ahead of its reference.   *)
(*   StampInv      What was sent and then what waits is in the order of    *)
(*                 the snapshots, and of snapshots that were drained.      *)
(*   SnapshotInv   What the collector holds is newer than all that was     *)
(*                 drained, and what was drained is in one queue.          *)
(***************************************************************************)
QueueInv(s) ==
  /\ s \in live => popped[s] \o pending_items[s] = enqueued[s]
  /\ \E rest \in Seq(Item) : enqueued[s] = popped[s] \o rest
  /\ s \notin live => pending_items[s] = <<>> /\ generated_sent_keys[s] = {}
  /\ ~AppendMayFail => Sent(s) = popped[s]

ReferenceInv(s) ==
  /\ Covered(enqueued[s], {})
  /\ \A key \in generated_sent_keys[s] : HasReference(enqueued[s], Len(enqueued[s]), key)

(* Of an earlier snapshot than the one in the collector, if there is one. *)
Past(x) == /\ x.timestamp > 0 /\ x.timestamp <= produced[x.rnti]
           /\ (latest[x.rnti] # NoSnapshot => x.timestamp < produced[x.rnti])

(* Of an antenna of a snapshot that was drained, if it was received. *)
OfDrained(x) ==
  ~x.generated => \E snap \in drained :
    /\ x.rnti = snap.rnti /\ x.timestamp = snap.timestamp
    /\ x.antenna_id \in snap.antennas

Stamped(q) == \A x \in ToSet(q) : Past(x) /\ OfDrained(x)

StampInv(s) ==
  /\ Stamped(Sent(s)) /\ Stamped(pending_items[s])
  /\ Ordered(Sent(s)) /\ Ordered(pending_items[s]) /\ Earlier(Sent(s), pending_items[s])

InOneQueue(snap) ==
  \E s \in Services : /\ Whole(enqueued[s], snap)
                      /\ \A t \in Services \ {s} : ReceivedAt(enqueued[t], snap) = {}

SnapshotInv ==
  /\ \A snap \in drained : Past(snap) /\ InOneQueue(snap)
  /\ \A s \in Services : \A i \in 1..Len(enqueued[s]) : Past(enqueued[s][i])

ReportInv ==
  /\ \A s \in Services : QueueInv(s) /\ ReferenceInv(s) /\ StampInv(s)
  /\ SnapshotInv

LEMMA SentType ==
  ASSUME TypeOK, NEW s \in Services
  PROVE  Sent(s) \in Seq(Item) /\ popped[s] \in Seq(Item) /\ pending_items[s] \in Seq(Item)
         /\ enqueued[s] \in Seq(Item) /\ pdus[s] \in Seq(Seq(Item))
<1>1. pdus[s] \in Seq(Seq(Item))
  BY DEF TypeOK
<1> QED
  BY <1>1, FlattenType DEF TypeOK, Sent

LEMMA ReportInit == Init => ReportInv
<1> SUFFICES ASSUME Init PROVE ReportInv
  OBVIOUS
<1>1. <<>> \in Seq(Item) /\ <<>> \o <<>> = <<>>
  OBVIOUS
<1>2. ASSUME NEW s \in Services
      PROVE  /\ pending_items[s] = <<>> /\ enqueued[s] = <<>> /\ popped[s] = <<>>
             /\ generated_sent_keys[s] = {} /\ Sent(s) = <<>> /\ s \notin live
  BY FlattenEmpty DEF Init, Sent
<1>3. ASSUME NEW s \in Services
      PROVE  QueueInv(s)
  BY <1>1, <1>2 DEF QueueInv
<1>4. ASSUME NEW s \in Services
      PROVE  ReferenceInv(s) /\ StampInv(s)
  BY <1>2, EmptyQueue, ToSetEmpty DEF ReferenceInv, StampInv, Stamped
<1>5. drained = {}
  BY DEF Init
<1>6. SnapshotInv
  BY <1>2, <1>5 DEF SnapshotInv
<1> QED
  BY <1>3, <1>4, <1>6 DEF ReportInv

(* A step that touches no queue. *)
LEMMA QueuesStay ==
  ASSUME TypeOK, ReportInv, UNCHANGED <<pending_items, generated_sent_keys, drained, enqueued,
                                        popped, pdus>>,
         \A s \in Services : QueueInv(s)',
         \A x : Past(x) /\ x.rnti \in Rntis /\ x.timestamp \in Nat => Past(x)'
  PROVE  ReportInv'
<1>1. \A s \in Services : Sent(s)' = Sent(s)
  BY DEF Sent
<1>2. ASSUME NEW q \in Seq(Item), Stamped(q)
      PROVE  Stamped(q)'
  <2> SUFFICES ASSUME NEW x \in ToSet(q) PROVE Past(x)' /\ OfDrained(x)'
    BY DEF Stamped
  <2>1. x \in Item
    BY ToSetType
  <2>2. x.timestamp \in Nat /\ x.rnti \in Rntis /\ Past(x) /\ OfDrained(x)
    BY <1>2, <2>1 DEF Item, Stamped
  <2> QED
    BY <2>2 DEF OfDrained
<1>3. ASSUME NEW s \in Services
      PROVE  ReferenceInv(s)' /\ StampInv(s)'
  <2>1. Stamped(Sent(s))' /\ Stamped(pending_items[s])'
    <3>1. Stamped(Sent(s)) /\ Stamped(pending_items[s])
      BY DEF ReportInv, StampInv
    <3>2. PICK q \in Seq(Item) : q = Sent(s)
      BY SentType
    <3>3. PICK r \in Seq(Item) : r = pending_items[s]
      BY SentType
    <3>4. Stamped(q)' /\ Stamped(r)'
      BY <1>2, <3>1, <3>2, <3>3
    <3>5. Sent(s)' = q /\ pending_items'[s] = r
      BY <1>1, <3>2, <3>3
    <3> QED
      BY <3>4, <3>5 DEF Stamped
  <2> QED
    BY <1>1, <2>1 DEF ReportInv, ReferenceInv, StampInv
<1>4. SnapshotInv'
  <2>1. ASSUME NEW snap \in drained'
        PROVE  Past(snap)' /\ InOneQueue(snap)'
    <3>1. snap \in drained /\ snap.rnti \in Rntis /\ snap.timestamp \in Nat
      BY DEF TypeOK, Snapshot
    <3> QED
      BY <3>1 DEF ReportInv, SnapshotInv, InOneQueue
  <2>2. ASSUME NEW s \in Services, NEW i \in 1..Len(enqueued'[s])
        PROVE  Past(enqueued[s][i])'
    <3>1. PICK x \in Item : x = enqueued[s][i]
      BY SentType
    <3>2. Past(x) /\ x.rnti \in Rntis /\ x.timestamp \in Nat
      BY <3>1 DEF ReportInv, SnapshotInv, Item
    <3>3. Past(x)'
      BY <3>2
    <3>4. enqueued'[s][i] = x
      BY <3>1
    <3> QED
      BY <3>3, <3>4 DEF Past
  <2> QED
    BY <2>1, <2>2 DEF SnapshotInv
<1> QED
  BY <1>3, <1>4 DEF ReportInv

LEMMA ReportPublish ==
  ASSUME TypeOK, LatestInv, ReportInv, NEW u \in Rntis, NEW antennas \in Shapes, Publish(u, antennas)
  PROVE  ReportInv'
<1>1. /\ produced' = [produced EXCEPT ![u] = @ + 1]
      /\ \A v \in Rntis : v # u => latest'[v] = latest[v]
      /\ UNCHANGED <<live, service, history>>
  BY DEF Publish, TypeOK
<1>2. ASSUME NEW x, Past(x), x.rnti \in Rntis, x.timestamp \in Nat
      PROVE  Past(x)'
  <2>1. PICK v \in Rntis : v = x.rnti
    BY <1>2
  <2>2. /\ x.timestamp > 0 /\ x.timestamp <= produced[v]
        /\ (latest[v] # NoSnapshot => x.timestamp < produced[v])
    BY <1>2, <2>1 DEF Past
  <2>3. CASE v = u
    <3>1. produced'[u] = produced[u] + 1 /\ produced[u] \in Nat
      BY <1>1 DEF TypeOK
    <3>2. x.timestamp <= produced'[v] /\ x.timestamp < produced'[v]
      BY <1>2, <2>2, <2>3, <3>1
    <3> QED
      BY <2>1, <2>2, <3>2 DEF Past
  <2>4. CASE v # u
    <3>1. produced'[v] = produced[v] /\ latest'[v] = latest[v]
      BY <1>1, <2>4 DEF TypeOK
    <3> QED
      BY <2>1, <2>2, <3>1 DEF Past
  <2> QED
    BY <2>3, <2>4
<1>3. \A s \in Services : QueueInv(s)'
  BY <1>1 DEF ReportInv, QueueInv, Sent, service, history
<1> QED
  BY <1>1, <1>2, <1>3, QueuesStay DEF service, history

LEMMA ReportWithdraw ==
  ASSUME TypeOK, LatestInv, ReportInv, NEW u \in Rntis, Withdraw(u)
  PROVE  ReportInv'
<1>1. /\ latest' = [latest EXCEPT ![u] = NoSnapshot]
      /\ UNCHANGED <<produced, live, service, history>>
  BY DEF Withdraw
<1>2. \A v \in Rntis : latest'[v] # NoSnapshot => latest[v] # NoSnapshot
  BY <1>1 DEF TypeOK
<1>3. ASSUME NEW x, Past(x), x.rnti \in Rntis, x.timestamp \in Nat
      PROVE  Past(x)'
  BY <1>1, <1>2, <1>3 DEF Past
<1>4. \A s \in Services : QueueInv(s)'
  BY <1>1 DEF ReportInv, QueueInv, Sent, service, history
<1> QED
  BY <1>1, <1>3, <1>4, QueuesStay DEF service, history

LEMMA ReportSubscribe ==
  ASSUME TypeOK, LatestInv, ReportInv, NEW s \in Services, Subscribe(s)
  PROVE  ReportInv'
<1>1. /\ live' = live \cup {s} /\ enqueued[s] = <<>> /\ s \notin live
      /\ UNCHANGED <<env, service, history>>
  BY DEF Subscribe
<1>2. popped[s] \o pending_items[s] = enqueued[s]
  <2>1. PICK rest \in Seq(Item) : enqueued[s] = popped[s] \o rest
    BY DEF ReportInv, QueueInv
  <2>2. popped[s] \in Seq(Item) /\ popped[s] \o rest = <<>>
    BY <1>1, <2>1, SentType
  <2>3. popped[s] = <<>>
    <3>1. Len(popped[s] \o rest) = Len(popped[s]) + Len(rest) /\ Len(rest) \in Nat
          /\ Len(popped[s]) \in Nat
      BY <2>2
    <3>2. Len(popped[s]) = 0
      BY <2>2, <3>1
    <3> QED
      BY <2>2, <3>2
  <2>4. pending_items[s] = <<>>
    BY <1>1 DEF ReportInv, QueueInv
  <2> QED
    BY <1>1, <2>3, <2>4
<1>3. \A t \in Services : QueueInv(t)'
  <2> SUFFICES ASSUME NEW t \in Services PROVE QueueInv(t)'
    OBVIOUS
  <2>1. QueueInv(t)
    BY DEF ReportInv
  <2> QED
    BY <1>1, <1>2, <2>1 DEF QueueInv, Sent, service, history
<1>4. \A x : Past(x) => Past(x)'
  BY <1>1 DEF Past, env
<1> QED
  BY <1>1, <1>3, <1>4, QueuesStay DEF service, history

LEMMA ReportUnsubscribe ==
  ASSUME TypeOK, LatestInv, ReportInv, NEW s \in Services, Unsubscribe(s)
  PROVE  ReportInv'
<1>1. /\ live' = live \ {s}
      /\ pending_items'[s] = <<>> /\ generated_sent_keys'[s] = {}
      /\ \A t \in Services \ {s} : /\ pending_items'[t] = pending_items[t]
                                   /\ generated_sent_keys'[t] = generated_sent_keys[t]
      /\ UNCHANGED <<env, history>>
  BY DEF Unsubscribe, TypeOK
<1>2. \A t \in Services : Sent(t)' = Sent(t)
  BY <1>1 DEF Sent, history
<1>3. ASSUME NEW t \in Services
      PROVE  QueueInv(t)' /\ ReferenceInv(t)' /\ StampInv(t)'
  <2>1. QueueInv(t) /\ ReferenceInv(t) /\ StampInv(t)
    BY DEF ReportInv
  <2>2. CASE t = s
    <3>1. QueueInv(t)'
      BY <1>1, <1>2, <2>1, <2>2 DEF QueueInv, history
    <3>2. ReferenceInv(t)'
      BY <1>1, <2>1, <2>2 DEF ReferenceInv, history
    <3>3. StampInv(t)'
      <4>1. /\ pending_items'[t] = <<>> /\ Sent(t)' = Sent(t)
            /\ UNCHANGED <<produced, latest, drained>>
        BY <1>1, <1>2, <2>2 DEF env, history
      <4>2. Stamped(Sent(t))' /\ Ordered(Sent(t))'
        BY <2>1, <4>1 DEF StampInv, Stamped, Past, OfDrained, Ordered
      <4>3. Stamped(pending_items[t])'
        BY <4>1, ToSetEmpty DEF Stamped
      <4>4. Ordered(pending_items'[t]) /\ Earlier(Sent(t)', pending_items'[t])
        BY <4>1, EmptyQueue
      <4> QED
        BY <4>2, <4>3, <4>4 DEF StampInv, Ordered, Earlier
    <3> QED
      BY <3>1, <3>2, <3>3
  <2>3. CASE t # s
    BY <1>1, <1>2, <2>1, <2>3
      DEF QueueInv, ReferenceInv, StampInv, Stamped, Past, OfDrained, env, history
  <2> QED
    BY <2>2, <2>3
<1>4. SnapshotInv'
  BY <1>1 DEF ReportInv, SnapshotInv, Past, InOneQueue, env, history
<1> QED
  BY <1>3, <1>4 DEF ReportInv

LEMMA ConcatAssociates ==
  ASSUME NEW S, NEW p \in Seq(S), NEW q \in Seq(S), NEW r \in Seq(S)
  PROVE  (p \o q) \o r = p \o (q \o r)
OBVIOUS

LEMMA StampedConcat ==
  ASSUME NEW q \in Seq(Item), NEW r \in Seq(Item)
  PROVE  Stamped(q \o r) <=> Stamped(q) /\ Stamped(r)
BY ToSetConcat DEF Stamped

LEMMA ReportGet ==
  ASSUME TypeOK, LatestInv, ReportInv, NEW s \in Services, get_indication_message(s)
  PROVE  ReportInv'
<1>1. PICK batch \in Seq(Item), rest \in Seq(Item) : Taken(s, batch, rest)
  BY GetTakes
<1>2. /\ pending_items[s] = batch \o rest /\ pending_items'[s] = rest
      /\ popped'[s] = popped[s] \o batch
      /\ \A t \in Services \ {s} : /\ pending_items'[t] = pending_items[t]
                                   /\ popped'[t] = popped[t] /\ pdus'[t] = pdus[t]
      /\ pdus'[s] = Append(pdus[s], batch) \/ (AppendMayFail /\ pdus'[s] = pdus[s])
      /\ UNCHANGED <<env, live, generated_sent_keys, drained, enqueued>>
  BY <1>1 DEF Taken, TypeOK
<1>3. /\ Sent(s)' = Sent(s) \o batch \/ (AppendMayFail /\ Sent(s)' = Sent(s))
      /\ \A t \in Services \ {s} : Sent(t)' = Sent(t)
  <2>1. FlattenSeq(Append(pdus[s], batch)) = FlattenSeq(pdus[s]) \o batch
    BY SentType, FlattenAppend
  <2> QED
    BY <1>2, <2>1 DEF Sent
<1>4. s \in live
  BY DEF get_indication_message
<1>5. Sent(s) \in Seq(Item) /\ popped[s] \in Seq(Item)
  BY SentType
<1>6. QueueInv(s)'
  <2>1. QueueInv(s)
    BY DEF ReportInv
  <2>2. (popped[s] \o batch) \o rest = popped[s] \o (batch \o rest)
    <3>1. PICK p \in Seq(Item) : p = popped[s]
      BY <1>5
    <3>2. (p \o batch) \o rest = p \o (batch \o rest)
      BY ConcatAssociates
    <3> QED
      BY <3>1, <3>2
  <2>3. popped'[s] \o pending_items'[s] = enqueued'[s]
    BY <1>2, <1>4, <2>1, <2>2 DEF QueueInv
  <2>4. \E r \in Seq(Item) : enqueued'[s] = popped'[s] \o r
    BY <1>2, <2>3
  <2>5. ~AppendMayFail => Sent(s)' = popped'[s]
    BY <1>2, <1>3, <2>1 DEF QueueInv
  <2> QED
    BY <1>2, <1>4, <2>3, <2>4, <2>5 DEF QueueInv
<1>7. ReferenceInv(s)'
  BY <1>2 DEF ReportInv, ReferenceInv
<1>8. StampInv(s)'
  <2>1. /\ Stamped(Sent(s)) /\ Stamped(batch \o rest) /\ Ordered(Sent(s))
        /\ Ordered(batch \o rest) /\ Earlier(Sent(s), batch \o rest)
    BY <1>2 DEF ReportInv, StampInv
  <2>2. Stamped(batch) /\ Stamped(rest) /\ Ordered(batch) /\ Ordered(rest)
        /\ Earlier(batch, rest) /\ Earlier(Sent(s), batch) /\ Earlier(Sent(s), rest)
    BY <1>5, <2>1, StampedConcat, OrderedConcat, EarlierConcat
  <2>3. Stamped(Sent(s) \o batch) /\ Ordered(Sent(s) \o batch) /\ Earlier(Sent(s) \o batch, rest)
    BY <1>5, <2>1, <2>2, StampedConcat, OrderedConcat, EarlierConcat
  <2>4. PICK sent : /\ sent = Sent(s)' /\ Stamped(sent) /\ Ordered(sent) /\ Earlier(sent, rest)
    BY <1>3, <2>1, <2>2, <2>3
  <2>5. UNCHANGED <<produced, latest, drained>>
    BY <1>2 DEF env
  <2>6. Stamped(Sent(s))' /\ Stamped(pending_items[s])'
    BY <1>2, <2>2, <2>4, <2>5 DEF Stamped, Past, OfDrained
  <2>7. Ordered(Sent(s)') /\ Ordered(pending_items'[s]) /\ Earlier(Sent(s)', pending_items'[s])
    BY <1>2, <2>2, <2>4, Zenon
  <2> QED
    BY <2>6, <2>7 DEF StampInv, Ordered, Earlier
<1>9. ASSUME NEW t \in Services \ {s}
      PROVE  QueueInv(t)' /\ ReferenceInv(t)' /\ StampInv(t)'
  <2>1. QueueInv(t) /\ ReferenceInv(t) /\ StampInv(t)
    BY DEF ReportInv
  <2> QED
    BY <1>2, <1>3, <2>1
      DEF QueueInv, ReferenceInv, StampInv, Stamped, Past, OfDrained, env
<1>10. SnapshotInv'
  BY <1>2 DEF ReportInv, SnapshotInv, Past, InOneQueue, env
<1> QED
  BY <1>6, <1>7, <1>8, <1>9, <1>10 DEF ReportInv

LEMMA ReferenceConcat ==
  ASSUME NEW q \in Seq(Item), NEW r \in Seq(Item), NEW key
  PROVE  /\ HasReference(q, Len(q), key) => HasReference(q \o r, Len(q \o r), key)
         /\ HasReference(r, Len(r), key) => HasReference(q \o r, Len(q \o r), key)
<1> DEFINE w == q \o r
<1>1. /\ Len(q) \in Nat /\ Len(r) \in Nat /\ Len(w) = Len(q) + Len(r)
      /\ \A i \in 1..Len(q) : i \in 1..Len(w) /\ w[i] = q[i]
      /\ \A i \in 1..Len(r) : Len(q) + i \in 1..Len(w) /\ w[Len(q) + i] = r[i]
  <2>1. Placed(q, r, w)
    BY ConcatPlaces
  <2> QED
    BY <2>1 DEF Placed
<1> HIDE DEF w
<1>2. HasReference(q, Len(q), key) => HasReference(w, Len(w), key)
  BY <1>1, Zenon DEF HasReference
<1>3. HasReference(r, Len(r), key) => HasReference(w, Len(w), key)
  BY <1>1, Zenon DEF HasReference
<1> QED
  BY <1>2, <1>3 DEF w

(* What is drained goes behind the queue. *)
Drains(s, items) ==
  /\ pending_items'[s] = pending_items[s] \o items
  /\ enqueued'[s] = enqueued[s] \o items
  /\ generated_sent_keys'[s] = generated_sent_keys[s] \cup CollectedKeys
  /\ \A t \in Services \ {s} : /\ pending_items'[t] = pending_items[t]
                               /\ enqueued'[t] = enqueued[t]
                               /\ generated_sent_keys'[t] = generated_sent_keys[t]
  /\ drained' = drained \cup Drained
  /\ \A u \in Rntis : latest'[u] = NoSnapshot
  /\ UNCHANGED <<produced, live, popped, pdus>>

LEMMA CollectDrains ==
  ASSUME TypeOK, LatestInv, NEW s \in Services, collect_measurements(s)
  PROVE  \E items \in Seq(Item) :
           /\ Drains(s, items) /\ items = CollectedItems(generated_sent_keys[s])
           /\ \A i \in 1..Len(items) : /\ items[i].rnti \in CompleteRntis
                                       /\ items[i].timestamp = produced[items[i].rnti]
           /\ Covered(items, generated_sent_keys[s]) /\ Ordered(items)
           /\ \A key \in CollectedKeys :
                key \in generated_sent_keys[s] \/ HasReference(items, Len(items), key)
           /\ \A u \in CompleteRntis : Whole(items, latest[u])
<1> DEFINE items == CollectedItems(generated_sent_keys[s])
<1>1. /\ items \in Seq(Item)
      /\ \A i \in 1..Len(items) : /\ items[i].rnti \in CompleteRntis
                                  /\ items[i].timestamp = produced[items[i].rnti]
      /\ Covered(items, generated_sent_keys[s])
      /\ \A key \in CollectedKeys :
           key \in generated_sent_keys[s] \/ HasReference(items, Len(items), key)
  BY CollectedAre
<1>2. Ordered(items) /\ \A u \in CompleteRntis : Whole(items, latest[u])
  BY CollectedOrdered, CollectedWhole
<1>3. Drains(s, items)
  BY DEF Drains, collect_measurements, Drained, TypeOK
<1> HIDE DEF items
<1> QED
  BY <1>1, <1>2, <1>3 DEF items

LEMMA ReportCollect ==
  ASSUME TypeOK, LatestInv, ReportInv, NEW s \in Services, collect_measurements(s)
  PROVE  ReportInv'
<1>1. PICK items \in Seq(Item) :
        /\ Drains(s, items)
        /\ \A i \in 1..Len(items) : /\ items[i].rnti \in CompleteRntis
                                    /\ items[i].timestamp = produced[items[i].rnti]
        /\ Covered(items, generated_sent_keys[s]) /\ Ordered(items)
        /\ \A key \in CollectedKeys :
             key \in generated_sent_keys[s] \/ HasReference(items, Len(items), key)
        /\ \A u \in CompleteRntis : Whole(items, latest[u])
  BY CollectDrains
<1>2. \A t \in Services : Sent(t)' = Sent(t)
  BY <1>1 DEF Drains, Sent
<1>3. /\ Sent(s) \in Seq(Item) /\ popped[s] \in Seq(Item) /\ pending_items[s] \in Seq(Item)
      /\ enqueued[s] \in Seq(Item)
  BY SentType
<1>4. s \in live /\ QueueInv(s) /\ ReferenceInv(s) /\ StampInv(s) /\ SnapshotInv
  BY DEF collect_measurements, ReportInv
<1>5. \A u \in CompleteRntis : u \in Rntis /\ latest[u] # NoSnapshot /\ latest[u] \in Snapshot
                               /\ latest[u].rnti = u /\ latest[u].timestamp = produced[u]
                               /\ produced[u] > 0
  BY DEF CompleteRntis, LatestInv
<1>6. QueueInv(s)'
  <2>1. popped[s] \o (pending_items[s] \o items) = (popped[s] \o pending_items[s]) \o items
    <3>1. PICK p \in Seq(Item) : p = popped[s]
      BY <1>3
    <3>2. PICK q \in Seq(Item) : q = pending_items[s]
      BY <1>3
    <3>3. p \o (q \o items) = (p \o q) \o items
      BY ConcatAssociates
    <3> QED
      BY <3>1, <3>2, <3>3
  <2>2. popped'[s] \o pending_items'[s] = enqueued'[s]
    BY <1>1, <1>4, <2>1 DEF Drains, QueueInv
  <2>3. pending_items'[s] \in Seq(Item)
    BY <1>1, <1>3 DEF Drains
  <2>4. \E r \in Seq(Item) : enqueued'[s] = popped'[s] \o r
    BY <2>2, <2>3
  <2> QED
    BY <1>1, <1>2, <1>4, <2>2, <2>4 DEF Drains, QueueInv
<1>7. ReferenceInv(s)'
  <2> DEFINE w == enqueued[s] \o items
  <2>1. Covered(w, {})
    BY <1>1, <1>3, <1>4, CoveredConcat DEF ReferenceInv
  <2>2. \A key \in generated_sent_keys[s] \cup CollectedKeys : HasReference(w, Len(w), key)
    BY <1>1, <1>3, <1>4, ReferenceConcat DEF ReferenceInv
  <2>3. enqueued'[s] = w /\ generated_sent_keys'[s] = generated_sent_keys[s] \cup CollectedKeys
    BY <1>1 DEF Drains
  <2> HIDE DEF w
  <2>4. Covered(enqueued'[s], {})
    BY <2>1, <2>3, Zenon
  <2>5. \A key \in generated_sent_keys'[s] : HasReference(enqueued'[s], Len(enqueued'[s]), key)
    BY <2>2, <2>3, Zenon
  <2> QED
    BY <2>4, <2>5 DEF ReferenceInv, Covered, HasReference, Key
<1>8. ASSUME NEW q \in Seq(Item), Stamped(q)
      PROVE  Earlier(q, items)
  <2> SUFFICES ASSUME NEW i \in 1..Len(q), NEW j \in 1..Len(items), q[i].rnti = items[j].rnti
               PROVE  NotNewer(q[i], items[j])
    BY DEF Earlier, NotNewer
  <2>1. PICK u \in CompleteRntis : u = items[j].rnti /\ items[j].timestamp = produced[u]
    BY <1>1
  <2>2. q[i] \in ToSet(q) /\ q[i] \in Item
    BY DEF ToSet
  <2>3. q[i].timestamp < produced[u] /\ q[i].timestamp \in Nat /\ produced[u] \in Nat
    BY <1>5, <1>8, <2>1, <2>2 DEF Stamped, Past, Item, Snapshot
  <2> QED
    BY <2>1, <2>3 DEF NotNewer
<1>9. ASSUME NEW q \in Seq(Item), Stamped(q)
      PROVE  Stamped(q)'
  <2> SUFFICES ASSUME NEW x \in ToSet(q) PROVE Past(x)' /\ OfDrained(x)'
    BY DEF Stamped
  <2>1. x \in Item /\ Past(x) /\ OfDrained(x)
    BY <1>9, ToSetType DEF Stamped
  <2>2. produced' = produced /\ drained \subseteq drained' /\ latest'[x.rnti] = NoSnapshot
    BY <1>1, <2>1 DEF Drains, Item
  <2> QED
    BY <2>1, <2>2 DEF Past, OfDrained
<1>10. Stamped(items)'
  <2> SUFFICES ASSUME NEW i \in 1..Len(items) PROVE Past(items[i])' /\ OfDrained(items[i])'
    BY DEF Stamped, ToSet
  <2>1. PICK u \in CompleteRntis : u = items[i].rnti /\ items[i].timestamp = produced[u]
    BY <1>1
  <2>2. Past(items[i])'
    <3>1. produced' = produced /\ latest'[u] = NoSnapshot /\ produced[u] \in Nat
      BY <1>1, <1>5, <2>1 DEF Drains, Snapshot
    <3> QED
      BY <1>5, <2>1, <3>1 DEF Past
  <2>3. ASSUME ~items[i].generated
        PROVE  items[i].antenna_id \in latest[u].antennas
    <3>1. i \in ReceivedAt(items, latest[u])
      BY <1>5, <2>1, <2>3 DEF ReceivedAt
    <3> QED
      BY <1>1, <3>1 DEF Whole
  <2>4. /\ latest[u] \in drained'
        /\ items[i].rnti = latest[u].rnti /\ items[i].timestamp = latest[u].timestamp
    BY <1>1, <1>5, <2>1 DEF Drains, Drained
  <2> QED
    BY <2>2, <2>3, <2>4 DEF OfDrained
<1>11. StampInv(s)'
  <2>1. PICK sent \in Seq(Item) : sent = Sent(s)
    BY <1>3
  <2>2. PICK q \in Seq(Item) : q = pending_items[s]
    BY <1>3
  <2>3. PICK w \in Seq(Item) : w = q \o items
    <3>1. q \o items \in Seq(Item)
      OBVIOUS
    <3> QED
      BY <3>1, Zenon
  <2>4. /\ Stamped(sent) /\ Stamped(q)
        /\ Ordered(sent) /\ Ordered(q) /\ Earlier(sent, q)
    BY <1>4, <2>1, <2>2 DEF StampInv
  <2>5. Stamped(sent)' /\ Stamped(w)'
    BY <1>9, <1>10, <2>3, <2>4, ToSetConcat DEF Stamped
  <2>6. Ordered(w) /\ Earlier(sent, w)
    BY <1>1, <1>8, <2>3, <2>4, OrderedConcat, EarlierConcat
  <2>7. Sent(s)' = sent /\ pending_items'[s] = w
    BY <1>1, <1>2, <2>1, <2>2, <2>3 DEF Drains
  <2>8. Stamped(Sent(s))' /\ Stamped(pending_items[s])'
    BY <2>5, <2>7, Zenon DEF Stamped
  <2>9. Ordered(Sent(s)') /\ Ordered(pending_items'[s]) /\ Earlier(Sent(s)', pending_items'[s])
    BY <2>4, <2>6, <2>7, Zenon
  <2> QED
    BY <2>8, <2>9 DEF StampInv, Ordered, Earlier
<1>12. ASSUME NEW t \in Services \ {s}
       PROVE  QueueInv(t)' /\ ReferenceInv(t)' /\ StampInv(t)'
  <2>1. QueueInv(t) /\ ReferenceInv(t) /\ StampInv(t)
    BY DEF ReportInv
  <2>2. Stamped(Sent(t))' /\ Stamped(pending_items[t])'
    <3>1. PICK q \in Seq(Item) : q = Sent(t) /\ Stamped(q)
      BY <2>1, SentType DEF StampInv
    <3>2. PICK r \in Seq(Item) : r = pending_items[t] /\ Stamped(r)
      BY <2>1, SentType DEF StampInv
    <3>3. Stamped(q)' /\ Stamped(r)'
      BY <1>9, <3>1, <3>2
    <3>4. Sent(t)' = q /\ pending_items'[t] = r
      BY <1>1, <1>2, <3>1, <3>2 DEF Drains
    <3> QED
      BY <3>3, <3>4, Zenon DEF Stamped
  <2> QED
    BY <1>1, <1>2, <2>1, <2>2 DEF Drains, QueueInv, ReferenceInv, StampInv
<1>13. SnapshotInv'
  <2>1. ASSUME NEW x, x.rnti \in Rntis, x.timestamp > 0, x.timestamp <= produced[x.rnti]
        PROVE  Past(x)'
    BY <1>1, <2>1 DEF Drains, Past
  <2>2. ASSUME NEW t \in Services, NEW i \in 1..Len(enqueued'[t])
        PROVE  Past(enqueued[t][i])'
    <3>1. \A x \in Item : x.rnti \in Rntis
      BY DEF Item
    <3>2. ASSUME NEW k \in 1..Len(enqueued[t])
          PROVE  Past(enqueued[t][k]) /\ enqueued[t][k] \in Item
      BY <1>4, SentType DEF SnapshotInv
    <3>3. ASSUME NEW k \in 1..Len(items)
          PROVE  /\ items[k].timestamp <= produced[items[k].rnti] /\ items[k].timestamp > 0
                 /\ items[k] \in Item
      <4>1. items[k] \in Item
        OBVIOUS
      <4> QED
        BY <1>1, <1>5, <4>1 DEF Item
    <3>4. PICK x \in Item : /\ x = enqueued'[t][i]
                            /\ x.timestamp > 0 /\ x.timestamp <= produced[x.rnti]
      <4>1. CASE t = s
        <5>1. enqueued'[s] = enqueued[s] \o items
          BY <1>1 DEF Drains
        <5>2. \/ i \in 1..Len(enqueued[s]) /\ enqueued'[s][i] = enqueued[s][i]
              \/ i - Len(enqueued[s]) \in 1..Len(items)
                 /\ enqueued'[s][i] = items[i - Len(enqueued[s])]
          BY <1>3, <4>1, <5>1, ConcatElement
        <5> QED
          BY <3>2, <3>3, <4>1, <5>2 DEF Past
      <4>2. CASE t # s
        <5>1. enqueued'[t] = enqueued[t]
          BY <1>1, <4>2 DEF Drains
        <5> QED
          BY <3>2, <5>1 DEF Past
      <4> QED
        BY <4>1, <4>2
    <3>5. Past(x)'
      BY <2>1, <3>1, <3>4
    <3> QED
      BY <3>4, <3>5 DEF Past
  <2>3. ASSUME NEW snap \in drained
        PROVE  Past(snap)' /\ InOneQueue(snap)'
    <3>1. Past(snap) /\ InOneQueue(snap) /\ snap.rnti \in Rntis /\ snap.timestamp \in Nat
      BY <1>4 DEF SnapshotInv, TypeOK, Snapshot
    <3>2. ReceivedAt(items, snap) = {}
      <4> SUFFICES ASSUME NEW i \in 1..Len(items), items[i].rnti = snap.rnti,
                          items[i].timestamp = snap.timestamp
                   PROVE  FALSE
        BY DEF ReceivedAt
      <4>1. snap.rnti \in CompleteRntis /\ snap.timestamp = produced[snap.rnti]
        BY <1>1
      <4> QED
        BY <1>5, <3>1, <4>1 DEF Past
    <3>3. PICK t0 \in Services : /\ Whole(enqueued[t0], snap)
                                 /\ \A t \in Services \ {t0} : ReceivedAt(enqueued[t], snap) = {}
      BY <3>1 DEF InOneQueue
    <3>4. Whole(enqueued'[t0], snap)
      <4>1. CASE t0 = s
        <5>1. enqueued'[s] = enqueued[s] \o items
          BY <1>1 DEF Drains
        <5>2. Whole(enqueued[s] \o items, snap)
          BY <1>3, <3>2, <3>3, <4>1, ReceivedConcat
        <5> QED
          BY <4>1, <5>1, <5>2, Zenon
      <4>2. CASE t0 # s
        BY <1>1, <3>3, <4>2 DEF Drains
      <4> QED
        BY <4>1, <4>2
    <3>5. ASSUME NEW t \in Services \ {t0}
          PROVE  ReceivedAt(enqueued'[t], snap) = {}
      <4>1. CASE t = s
        <5>1. enqueued'[s] = enqueued[s] \o items
          BY <1>1 DEF Drains
        <5>2. ReceivedAt(enqueued[s] \o items, snap) = {}
          BY <1>3, <3>2, <3>3, <4>1, ReceivedConcat
        <5> QED
          BY <4>1, <5>1, <5>2, Zenon
      <4>2. CASE t # s
        BY <1>1, <3>3, <4>2 DEF Drains
      <4> QED
        BY <4>1, <4>2
    <3>6. Past(snap)'
      BY <2>1, <3>1 DEF Past
    <3> QED
      BY <3>4, <3>5, <3>6 DEF InOneQueue, Whole, ReceivedAt
  <2>4. ASSUME NEW u \in CompleteRntis, NEW snap, snap = latest[u]
        PROVE  Past(snap)' /\ InOneQueue(snap)'
    <3>1. /\ u \in Rntis /\ latest[u] # NoSnapshot /\ snap.rnti = u
          /\ snap.timestamp = produced[u] /\ snap.timestamp \in Nat /\ snap.timestamp > 0
      BY <1>5, <2>4 DEF Snapshot
    <3>2. ASSUME NEW t \in Services
          PROVE  ReceivedAt(enqueued[t], snap) = {}
      <4> SUFFICES ASSUME NEW i \in 1..Len(enqueued[t]), enqueued[t][i].rnti = u,
                          enqueued[t][i].timestamp = produced[u]
                   PROVE  FALSE
        BY <3>1 DEF ReceivedAt
      <4>1. Past(enqueued[t][i])
        BY <1>4 DEF SnapshotInv
      <4> QED
        BY <3>1, <4>1 DEF Past
    <3>3. Whole(items, snap)
      BY <1>1, <2>4
    <3>4. Whole(enqueued[s] \o items, snap)
      BY <1>3, <3>2, <3>3, ReceivedConcat
    <3>5. enqueued'[s] = enqueued[s] \o items
          /\ \A t \in Services \ {s} : enqueued'[t] = enqueued[t]
      BY <1>1 DEF Drains
    <3>6. Whole(enqueued'[s], snap)
          /\ \A t \in Services \ {s} : ReceivedAt(enqueued'[t], snap) = {}
      BY <3>2, <3>4, <3>5, Zenon
    <3>7. InOneQueue(snap)'
      BY <3>6 DEF InOneQueue, Whole, ReceivedAt
    <3>8. Past(snap)'
      BY <2>1, <3>1
    <3> QED
      BY <3>7, <3>8
  <2>5. ASSUME NEW snap \in drained'
        PROVE  Past(snap)' /\ InOneQueue(snap)'
    <3>1. snap \in drained \/ \E u \in CompleteRntis : snap = latest[u]
      BY <1>1 DEF Drains, Drained
    <3> QED
      BY <2>3, <2>4, <3>1
  <2> QED
    BY <2>2, <2>5 DEF SnapshotInv
<1> QED
  BY <1>6, <1>7, <1>11, <1>12, <1>13 DEF ReportInv

LEMMA ReportStep == TypeOK /\ LatestInv /\ ReportInv /\ [Next]_vars => ReportInv'
<1> SUFFICES ASSUME TypeOK, LatestInv, ReportInv, [Next]_vars PROVE ReportInv'
  OBVIOUS
<1>1. ASSUME NEW u \in Rntis, NEW antennas \in Shapes, Publish(u, antennas)
      PROVE  ReportInv'
  BY <1>1, ReportPublish
<1>2. ASSUME NEW u \in Rntis, Withdraw(u)
      PROVE  ReportInv'
  BY <1>2, ReportWithdraw
<1>3. ASSUME NEW s \in Services, Subscribe(s)
      PROVE  ReportInv'
  BY <1>3, ReportSubscribe
<1>4. ASSUME NEW s \in Services, Unsubscribe(s)
      PROVE  ReportInv'
  BY <1>4, ReportUnsubscribe
<1>5. ASSUME NEW s \in Services, collect_measurements(s)
      PROVE  ReportInv'
  BY <1>5, ReportCollect
<1>6. ASSUME NEW s \in Services, get_indication_message(s)
      PROVE  ReportInv'
  BY <1>6, ReportGet
<1>7. CASE UNCHANGED vars
  <2>1. UNCHANGED <<pending_items, generated_sent_keys, drained, enqueued, popped, pdus,
                    latest, produced, live>>
    BY <1>7 DEF vars, env, service, history
  <2>2. \A s \in Services : QueueInv(s)'
    BY <2>1 DEF ReportInv, QueueInv, Sent
  <2>3. \A x : Past(x) => Past(x)'
    BY <2>1 DEF Past
  <2> QED
    BY <2>1, <2>2, <2>3, QueuesStay
<1> QED
  BY <1>1, <1>2, <1>3, <1>4, <1>5, <1>6, <1>7 DEF Next

LEMMA ReportInvariant == Spec => [](TypeOK /\ LatestInv /\ ReportInv)
BY ReportTypeCorrect, ReportInit, ReportStep, PTL DEF Spec

-----------------------------------------------------------------------------
(* What leaves a queue and what is left of it are what was queued, and what *)
(* left is what the indications carry, if every buffer can be written.     *)
THEOREM NothingLostFromQueue == Spec => []QueueConserved
<1>1. ReportInv => QueueConserved
  BY DEF ReportInv, QueueInv, QueueConserved, Sent
<1> QED
  BY <1>1, ReportInvariant, PTL

(* Each subscriber is sent the snapshots of a UE in the order in which they *)
(* were taken, whatever competes for them and whatever is lost.            *)
THEOREM SnapshotsInOrder == Spec => []TimestampsInOrder
<1>1. TypeOK /\ ReportInv => TimestampsInOrder
  BY DEF ReportInv, StampInv, Ordered, NotNewer, TimestampsInOrder, Sent
<1> QED
  BY <1>1, ReportInvariant, PTL

(* If every buffer can be written, no received stream is sent ahead of the  *)
(* reference of its UE and antenna.                                        *)
THEOREM ReferencesSentFirst == ~AppendMayFail => (Spec => []GeneratedSentFirst)
<1> SUFFICES ASSUME ~AppendMayFail PROVE Spec => []GeneratedSentFirst
  OBVIOUS
<1>1. TypeOK /\ ReportInv => GeneratedSentFirst
  <2> SUFFICES ASSUME TypeOK, ReportInv, NEW s \in Services,
                      NEW i \in 1..Len(Sent(s)), ~Sent(s)[i].generated
               PROVE  \E j \in 1..(i - 1) : /\ Sent(s)[j].generated
                                            /\ Sent(s)[j].rnti = Sent(s)[i].rnti
                                            /\ Sent(s)[j].antenna_id = Sent(s)[i].antenna_id
    BY DEF GeneratedSentFirst, Sent
  <2>1. PICK rest \in Seq(Item) : enqueued[s] = popped[s] \o rest
    BY DEF ReportInv, QueueInv
  <2>2. Sent(s) = popped[s] /\ popped[s] \in Seq(Item) /\ Covered(enqueued[s], {})
    BY SentType DEF ReportInv, QueueInv, ReferenceInv
  <2>3. Covered(Sent(s), {})
    BY <2>1, <2>2, CoveredPrefix
  <2>4. HasReference(Sent(s), i - 1, Key(Sent(s)[i]))
    BY <2>3 DEF Covered
  <2> QED
    BY <2>4 DEF HasReference, Key
<1> QED
  BY <1>1, ReportInvariant, PTL

(* A snapshot that was drained is in the queue of one subscription, once    *)
(* and whole, and of no other.                                             *)
THEOREM DrainedToOneService == Spec => []SnapshotToOneService
<1>1. TypeOK /\ ReportInv => SnapshotToOneService
  BY DEF ReportInv, SnapshotInv, InOneQueue, Whole, ReceivedAt, SnapshotToOneService, ReceivedOf
<1> QED
  BY <1>1, ReportInvariant, PTL
=============================================================================
