-------------------------- MODULE SrsCaptureProofs --------------------------
(***************************************************************************)
(* Theorems about SrsCapture, for any UEs, workers, ports and bounds: what *)
(* an entry of the collector holds, what a snapshot holds, the order in    *)
(* which snapshots leave, and that SrsCapture implements SnapshotBox.      *)
(***************************************************************************)
EXTENDS SrsCapture, FiniteSetTheorems, TLAPS

-----------------------------------------------------------------------------
(* The operators of the collector keep entries well-formed. *)

LEMMA NoUeDataType == NoUeData \in UeData /\ Held(NoUeData) = {}
BY DEF NoUeData, UeData, Held, NoSample, Sample

LEMMA AddSrsDataType ==
  ASSUME NEW ue \in UeData, NEW a \in AntennaIds, NEW s \in Sample, NEW t \in Nat
  PROVE  AddSrsData(ue, a, s, t) \in UeData
BY NoUeDataType DEF AddSrsData, UeData

(* add_srs_data on a full entry leaves only the new antenna, on any other    *)
(* entry it adds or replaces the antenna.                                  *)
LEMMA AddSrsDataHolds ==
  ASSUME NEW ue \in UeData, NEW a \in AntennaIds, NEW s \in Sample, NEW t \in Nat,
         s # NoSample
  PROVE  /\ Held(AddSrsData(ue, a, s, t)) =
              (IF IsComplete(ue) THEN {} ELSE Held(ue)) \cup {a}
         /\ AddSrsData(ue, a, s, t).antenna_data[a] = s
         /\ ~IsComplete(ue) =>
              \A b \in AntennaIds \ {a} :
                AddSrsData(ue, a, s, t).antenna_data[b] = ue.antenna_data[b]
BY DEF AddSrsData, UeData, Held, NoUeData

LEMMA HeldFinite ==
  ASSUME NEW ue
  PROVE  IsFiniteSet(Held(ue)) /\ Cardinality(Held(ue)) \in Nat
         /\ Held(ue) \subseteq AntennaIds
<1>1. Held(ue) \subseteq AntennaIds
  BY DEF Held
<1>2. IsFiniteSet(Held(ue))
  BY <1>1, AntennaIdsAssumption, FS_Subset
<1> QED
  BY <1>1, <1>2, FS_CardinalityType

LEMMA CardinalityAddsOne ==
  ASSUME NEW S, IsFiniteSet(S), NEW x
  PROVE  /\ Cardinality(S \cup {x}) \in Nat
         /\ Cardinality(S \cup {x}) <= Cardinality(S) + 1
<1>1. IsFiniteSet(S \cup {x}) /\ Cardinality(S \cup {x}) =
        IF x \in S THEN Cardinality(S) ELSE Cardinality(S) + 1
  BY FS_AddElement
<1>2. Cardinality(S) \in Nat
  BY FS_CardinalityType
<1> QED
  BY <1>1, <1>2

LEMMA PortsInRange ==
  /\ NofRxPorts \in Nat \ {0}
  /\ \A i \in 1..NofRxPorts : RxPorts[i] \in AntennaIds
BY RxPortsAssumption DEF NofRxPorts

LEMMA NextPortType ==
  ASSUME NEW e \in Estimate
  PROVE  NextPort(e) \in Estimate \cup {Idle}
<1>1. CASE e.rx < NofRxPorts
  <2>1. e.rx + 1 \in 1..NofRxPorts
    BY <1>1, PortsInRange DEF Estimate
  <2>2. [e EXCEPT !.rx = @ + 1, !.timestamp = NoTime] \in Estimate
    BY <2>1 DEF Estimate, NoTime
  <2> QED
    BY <1>1, <2>2 DEF NextPort
<1>2. CASE ~(e.rx < NofRxPorts) /\ e.tx < NofTxPorts
  <2>1. e.tx + 1 \in 1..NofTxPorts /\ 1 \in 1..NofRxPorts
    BY <1>2, PortsInRange, NofTxPortsAssumption DEF Estimate
  <2>2. [e EXCEPT !.tx = @ + 1, !.rx = 1, !.timestamp = NoTime] \in Estimate
    BY <2>1 DEF Estimate, NoTime
  <2> QED
    BY <1>2, <2>2 DEF NextPort
<1>3. CASE ~(e.rx < NofRxPorts) /\ ~(e.tx < NofTxPorts)
  BY <1>3 DEF NextPort
<1> QED
  BY <1>1, <1>2, <1>3

LEMMA EstimateNotIdle == Idle \notin Estimate
<1> SUFFICES ASSUME Idle \in Estimate PROVE FALSE
  OBVIOUS
<1>1. Idle.occasion = 0
  BY DEF Idle
<1>2. Idle.occasion \in Nat \ {0}
  BY DEF Estimate
<1> QED
  BY <1>1, <1>2

-----------------------------------------------------------------------------
(* The variables keep values of their types. *)
LEMMA TypeInit == Init => TypeOK
<1> SUFFICES ASSUME Init PROVE TypeOK
  OBVIOUS
<1>1. pending \in [Rntis -> UeData]
  BY NoUeDataType DEF Init
<1>2. worker \in [Workers -> Estimate \cup {Idle}]
  BY DEF Init
<1>3. reports \in [Rntis -> Seq(UeData)]
  BY DEF Init
<1> QED
  BY <1>1, <1>2, <1>3 DEF Init, TypeOK

LEMMA TypeStep == TypeOK /\ [Next]_vars => TypeOK'
<1> SUFFICES ASSUME TypeOK, [Next]_vars PROVE TypeOK'
  OBVIOUS
<1> USE DEF TypeOK
<1>1. CASE RegisterCollector
  BY <1>1 DEF RegisterCollector
<1>2. ASSUME NEW w \in Workers, NEW u \in Rntis, StartEstimate(w, u)
      PROVE  TypeOK'
  <2>1. [rnti |-> u, occasion |-> occasion[u] + 1, tx |-> 1, rx |-> 1,
         timestamp |-> NoTime] \in Estimate
    BY PortsInRange, NofTxPortsAssumption DEF Estimate, NoTime
  <2> QED
    BY <1>2, <2>1 DEF StartEstimate
<1>3. ASSUME NEW w \in Workers, ReadTimestamp(w)
      PROVE  TypeOK'
  <2>1. worker[w] \in Estimate
    BY <1>3 DEF ReadTimestamp, Busy
  <2>2. [worker[w] EXCEPT !.timestamp = clock] \in Estimate
    BY <2>1 DEF Estimate
  <2> QED
    BY <1>3, <2>2 DEF ReadTimestamp
<1>4. ASSUME NEW w \in Workers, ForwardSrs(w)
      PROVE  TypeOK'
  <2> DEFINE e == worker[w]
             s == [occasion |-> e.occasion, tx |-> e.tx]
  <2>1. e \in Estimate
    BY <1>4 DEF ForwardSrs, Busy
  <2>2. /\ e.rnti \in Rntis /\ RxPorts[e.rx] \in AntennaIds /\ s \in Sample
        /\ e.timestamp \in Nat /\ e.occasion \in Nat
    BY <2>1, PortsInRange DEF Estimate, Sample
  <2>3. AddSrsData(pending[e.rnti], RxPorts[e.rx], s, e.timestamp) \in UeData
    BY <2>2, AddSrsDataType
  <2>4. pending' \in [Rntis -> UeData]
    BY <1>4, <2>2, <2>3 DEF ForwardSrs
  <2>5. worker' \in [Workers -> Estimate \cup {Idle}]
    BY <1>4, <2>1, NextPortType DEF ForwardSrs
  <2>6. captured' \in [Rntis -> Nat]
    BY <1>4, <2>2 DEF ForwardSrs
  <2> QED
    BY <1>4, <2>4, <2>5, <2>6 DEF ForwardSrs
<1>5. CASE Drain
  <2>1. pending' \in [Rntis -> UeData]
    BY <1>5, NoUeDataType DEF Drain, WithoutComplete
  <2>2. reports' \in [Rntis -> Seq(UeData)]
    BY <1>5 DEF Drain
  <2> QED
    BY <1>5, <2>1, <2>2 DEF Drain
<1>6. ASSUME NEW u \in Rntis, Take(u)
      PROVE  TypeOK'
  BY <1>6, NoUeDataType DEF Take, WithoutUe
<1>7. CASE Cleanup
  <2>1. pending' \in [Rntis -> UeData]
    BY <1>7, NoUeDataType DEF Cleanup, WithoutOld
  <2> QED
    BY <1>7, <2>1 DEF Cleanup
<1>8. CASE Tick
  BY <1>8 DEF Tick
<1>9. CASE StepClockBack
  BY <1>9 DEF StepClockBack
<1>10. CASE UNCHANGED vars
  BY <1>10 DEF vars
<1> QED
  BY <1>1, <1>2, <1>3, <1>4, <1>5, <1>6, <1>7, <1>8, <1>9, <1>10 DEF Next

(* Type correctness of the capture side, however the collector is used. *)
THEOREM TypeCorrect == Spec => []TypeOK
BY TypeInit, TypeStep, PTL DEF Spec

-----------------------------------------------------------------------------
(* No entry and no snapshot outgrows the configuration, however many        *)
(* antennas report and however workers and readers interleave.             *)
Bounded == TypeOK /\ SnapshotBounded

LEMMA EmptyEntryBounded == Cardinality(Held(NoUeData)) <= NumRxAntennas
BY NoUeDataType, FS_EmptySet, NumRxAntennasAssumption

LEMMA BoundedInit == Init => SnapshotBounded
<1> SUFFICES ASSUME Init PROVE SnapshotBounded
  OBVIOUS
<1>1. \A u \in Rntis : pending[u] = NoUeData /\ reports[u] = <<>>
  BY DEF Init
<1>2. \A u \in Rntis : Cardinality(Held(pending[u])) <= NumRxAntennas
  BY <1>1, EmptyEntryBounded
<1>3. \A u \in Rntis : 1..Len(reports[u]) = {}
  BY <1>1
<1> QED
  BY <1>2, <1>3 DEF SnapshotBounded

LEMMA BoundedStep == Bounded /\ [Next]_vars => SnapshotBounded'
<1> SUFFICES ASSUME TypeOK, SnapshotBounded, [Next]_vars PROVE SnapshotBounded'
  BY DEF Bounded
<1> USE DEF SnapshotBounded
<1>1. CASE RegisterCollector
  BY <1>1 DEF RegisterCollector
<1>2. ASSUME NEW w \in Workers, NEW u \in Rntis, StartEstimate(w, u)
      PROVE  SnapshotBounded'
  BY <1>2 DEF StartEstimate
<1>3. ASSUME NEW w \in Workers, ReadTimestamp(w)
      PROVE  SnapshotBounded'
  BY <1>3 DEF ReadTimestamp
<1>4. ASSUME NEW w \in Workers, ForwardSrs(w)
      PROVE  SnapshotBounded'
  <2> DEFINE e == worker[w]
             a == RxPorts[e.rx]
             s == [occasion |-> e.occasion, tx |-> e.tx]
             ue == pending[e.rnti]
             new == AddSrsData(ue, a, s, e.timestamp)
  <2>1. e \in Estimate
    BY <1>4 DEF ForwardSrs, Busy, TypeOK
  <2>2. /\ e.rnti \in Rntis /\ a \in AntennaIds /\ s \in Sample /\ s # NoSample
        /\ e.timestamp \in Nat /\ ue \in UeData
    BY <2>1, PortsInRange DEF Estimate, Sample, NoSample, TypeOK
  <2>3. Held(new) = (IF IsComplete(ue) THEN {} ELSE Held(ue)) \cup {a}
    BY <2>2, AddSrsDataHolds
  <2>4. Cardinality(Held(new)) <= NumRxAntennas
    <3>1. CASE IsComplete(ue)
      <4>1. Held(new) = {a}
        BY <2>3, <3>1
      <4>2. Cardinality({a}) = 1
        BY FS_Singleton
      <4> QED
        BY <4>1, <4>2, NumRxAntennasAssumption
    <3>2. CASE ~IsComplete(ue)
      <4>1. Cardinality(Held(new)) = Cardinality(Held(ue) \cup {a})
        BY <2>3, <3>2, Zenon
      <4>2. Cardinality(Held(ue) \cup {a}) <= Cardinality(Held(ue)) + 1
        BY HeldFinite, CardinalityAddsOne
      <4>3. Cardinality(Held(ue)) < NumRxAntennas
        BY <3>2, HeldFinite, NumRxAntennasAssumption DEF IsComplete
      <4> QED
        BY <4>1, <4>2, <4>3, HeldFinite, CardinalityAddsOne, NumRxAntennasAssumption
    <3> QED
      BY <3>1, <3>2
  <2>5. \A u \in Rntis : pending'[u] = pending[u] \/ pending'[u] = new
    BY <1>4, <2>2 DEF ForwardSrs, TypeOK
  <2> HIDE DEF new
  <2> QED
    BY <1>4, <2>4, <2>5 DEF ForwardSrs
<1>5. CASE Drain
  <2>1. \A u \in Rntis : pending'[u] = pending[u] \/ pending'[u] = NoUeData
    BY <1>5 DEF Drain, WithoutComplete, TypeOK
  <2>2. \A u \in Rntis : Cardinality(Held(pending'[u])) <= NumRxAntennas
    BY <2>1, EmptyEntryBounded
  <2>3. ASSUME NEW u \in Rntis, NEW i \in 1..Len(reports'[u])
        PROVE  Cardinality(Held(reports'[u][i])) = NumRxAntennas
    <3>1. CASE u \in CompleteUes(pending)
      <4>1. Cardinality(Held(pending[u])) = NumRxAntennas
        BY <3>1, HeldFinite, NumRxAntennasAssumption DEF CompleteUes, IsComplete
      <4>2. reports'[u] = Append(reports[u], pending[u])
        BY <1>5, <3>1 DEF Drain
      <4>3. reports'[u][i] = pending[u] \/ (i \in 1..Len(reports[u]) /\ reports'[u][i] = reports[u][i])
        BY <4>2 DEF TypeOK
      <4> QED
        BY <4>1, <4>3
    <3>2. CASE u \notin CompleteUes(pending)
      BY <1>5, <3>2 DEF Drain
    <3> QED
      BY <3>1, <3>2
  <2> QED
    BY <2>2, <2>3
<1>6. ASSUME NEW u \in Rntis, Take(u)
      PROVE  SnapshotBounded'
  BY <1>6, EmptyEntryBounded DEF Take, WithoutUe, TypeOK
<1>7. CASE Cleanup
  <2>1. \A u \in Rntis : pending'[u] = pending[u] \/ pending'[u] = NoUeData
    BY <1>7 DEF Cleanup, WithoutOld, TypeOK
  <2> QED
    BY <1>7, <2>1, EmptyEntryBounded DEF Cleanup
<1>8. CASE Tick
  BY <1>8 DEF Tick
<1>9. CASE StepClockBack
  BY <1>9 DEF StepClockBack
<1>10. CASE UNCHANGED vars
  BY <1>10 DEF vars
<1> QED
  BY <1>1, <1>2, <1>3, <1>4, <1>5, <1>6, <1>7, <1>8, <1>9, <1>10 DEF Next

(* The collector stays within its configured number of antennas per UE, and *)
(* hands over exactly that many, in every use of it.                       *)
THEOREM CollectorBounded == Spec => []SnapshotBounded
<1>1. Init => Bounded
  BY TypeInit, BoundedInit DEF Bounded
<1>2. Bounded /\ [Next]_vars => Bounded'
  BY TypeStep, BoundedStep DEF Bounded
<1>3. Bounded => SnapshotBounded
  BY DEF Bounded
<1> QED
  BY <1>1, <1>2, <1>3, PTL DEF Spec

-----------------------------------------------------------------------------
(***************************************************************************)
(* Under IntendedUse no snapshot mixes occasions.  That an entry is of one *)
(* occasion is not inductive: it needs to be known which antennas the      *)
(* entry holds when the worker on the UE is at a given port, which is what *)
(* EntriesFollowWorkers says.                                              *)
(***************************************************************************)
LEMMA PrefixCardinality ==
  ASSUME NEW k \in 0..NofRxPorts
  PROVE  LET P == {RxPorts[i] : i \in 1..k}
         IN  IsFiniteSet(P) /\ Cardinality(P) = k /\ P \subseteq AntennaIds
<1> DEFINE P == {RxPorts[i] : i \in 1..k}
           f == [i \in 1..k |-> RxPorts[i]]
<1>1. 1..k \subseteq 1..NofRxPorts /\ k \in Nat
  BY PortsInRange
<1>2. f \in [1..k -> P]
  OBVIOUS
<1>3. \A i, j \in 1..k : f[i] = f[j] => i = j
  BY <1>1, RxPortsAssumption DEF NofRxPorts
<1>4. \A p \in P : \E i \in 1..k : f[i] = p
  OBVIOUS
<1>5. f \in Bijection(1..k, P)
  BY <1>2, <1>3, <1>4 DEF Bijection, Injection, Surjection, IsInjective
<1>6. IsFiniteSet(1..k) /\ Cardinality(1..k) = k
  BY <1>1, FS_Interval
<1>7. IsFiniteSet(P) /\ Cardinality(P) = k
  BY <1>5, <1>6, FS_Bijection DEF ExistsBijection
<1> QED
  BY <1>1, <1>7, PortsInRange

LEMMA AllPorts == AntennaIds = {RxPorts[i] : i \in 1..NofRxPorts}
BY RxPortsAssumption, PortsInRange DEF NofRxPorts

LEMMA AntennaCount == Cardinality(AntennaIds) = NofRxPorts
<1>1. NofRxPorts \in 0..NofRxPorts
  BY PortsInRange
<1> QED
  BY <1>1, PrefixCardinality, AllPorts, Zenon

(* With the intended configuration only a full entry is complete. *)
LEMMA CompleteIsFull ==
  ASSUME IntendedUse, NEW ue
  PROVE  IsComplete(ue) <=> Held(ue) = AntennaIds
<1>1. /\ Cardinality(Held(ue)) \in Nat /\ Cardinality(Held(ue)) <= Cardinality(AntennaIds)
      /\ Cardinality(AntennaIds) = Cardinality(Held(ue)) => AntennaIds = Held(ue)
  BY HeldFinite, AntennaIdsAssumption, FS_Subset
<1>2. IsComplete(ue) <=> Cardinality(Held(ue)) = Cardinality(AntennaIds)
  BY <1>1, AntennaCount, NumRxAntennasAssumption DEF IsComplete, IntendedUse
<1> QED
  BY <1>1, <1>2, Zenon

LEMMA EmptyIsNotComplete == ASSUME NEW ue, Held(ue) = {} PROVE ~IsComplete(ue)
<1>1. Cardinality({}) = 0
  BY FS_EmptySet
<1> QED
  BY <1>1, NumRxAntennasAssumption DEF IsComplete

(* A worker past its first port has an incomplete entry. *)
LEMMA PartialIsNotComplete ==
  ASSUME IntendedUse, NEW e \in Estimate, NEW ue, Held(ue) = Forwarded(e)
  PROVE  ~IsComplete(ue)
<1>1. e.rx - 1 \in 0..NofRxPorts /\ e.rx - 1 < NofRxPorts
  BY PortsInRange DEF Estimate
<1>2. Cardinality(Forwarded(e)) = e.rx - 1
  BY <1>1, PrefixCardinality, Zenon DEF Forwarded
<1>3. Forwarded(e) # AntennaIds
  <2> SUFFICES ASSUME Forwarded(e) = AntennaIds PROVE FALSE
    OBVIOUS
  <2>1. Cardinality(Forwarded(e)) = Cardinality(AntennaIds)
    BY Zenon
  <2> QED
    BY <1>1, <1>2, <2>1, AntennaCount, PortsInRange
<1> QED
  BY <1>3, CompleteIsFull

SnapshotsWhole == SnapshotFromOneOccasion /\ SnapshotCoversEveryAntenna

(* A complete entry is a whole snapshot of one occasion. *)
LEMMA CompleteIsWhole ==
  ASSUME IntendedUse, TypeOK, EntriesFollowWorkers,
         NEW u \in Rntis, IsComplete(pending[u])
  PROVE  Held(pending[u]) = AntennaIds /\ OneOccasion(pending[u])
<1>1. Held(pending[u]) # {}
  BY EmptyIsNotComplete
<1>2. registered
  BY <1>1 DEF EntriesFollowWorkers, EmptyUntilRegistered
<1>3. CASE Quiet(u)
  BY <1>1, <1>3 DEF EntriesFollowWorkers, NoneOrWhole
<1>4. CASE ~Quiet(u)
  <2>1. PICK w \in Workers : Busy(w) /\ worker[w].rnti = u
    BY <1>4 DEF Quiet
  <2>2. worker[w] \in Estimate
    BY <2>1 DEF TypeOK, Busy
  <2>3. EntryFollows(worker[w])
    BY <1>2, <2>1 DEF EntriesFollowWorkers
  <2>4. worker[w].rx = 1
    BY <2>1, <2>2, <2>3, PartialIsNotComplete DEF EntryFollows
  <2>5. NoneOrWhole(pending[u])
    BY <2>1, <2>3, <2>4 DEF EntryFollows
  <2> QED
    BY <1>1, <2>5 DEF NoneOrWhole
<1> QED
  BY <1>3, <1>4

(* Adding the port a worker is at extends the entry to the ports up to it,  *)
(* all of the worker's occasion and transmit port.                         *)
LEMMA ForwardExtends ==
  ASSUME IntendedUse, NEW e \in Estimate, NEW ue \in UeData,
         IF e.rx = 1 THEN NoneOrWhole(ue)
         ELSE /\ Held(ue) = Forwarded(e)
              /\ \A a \in Held(ue) : ue.antenna_data[a] = [occasion |-> e.occasion, tx |-> e.tx]
  PROVE  LET s   == [occasion |-> e.occasion, tx |-> e.tx]
             new == AddSrsData(ue, RxPorts[e.rx], s, e.timestamp)
         IN  /\ Held(new) = {RxPorts[i] : i \in 1..e.rx}
             /\ \A a \in Held(new) : new.antenna_data[a] = s
<1> DEFINE s   == [occasion |-> e.occasion, tx |-> e.tx]
           p   == RxPorts[e.rx]
           new == AddSrsData(ue, p, s, e.timestamp)
<1>1. /\ p \in AntennaIds /\ s \in Sample /\ s # NoSample /\ e.timestamp \in Nat
      /\ e.rx \in 1..NofRxPorts
  BY PortsInRange DEF Estimate, Sample, NoSample
<1>2. /\ Held(new) = (IF IsComplete(ue) THEN {} ELSE Held(ue)) \cup {p}
      /\ new.antenna_data[p] = s
      /\ ~IsComplete(ue) =>
           \A b \in AntennaIds \ {p} : new.antenna_data[b] = ue.antenna_data[b]
  BY <1>1, AddSrsDataHolds
<1>3. CASE e.rx = 1
  <2>1. Held(ue) = {} \/ IsComplete(ue)
    BY <1>3, CompleteIsFull DEF NoneOrWhole
  <2>2. Held(new) = {p}
    BY <1>2, <2>1
  <2>3. {RxPorts[i] : i \in 1..e.rx} = {p}
    BY <1>3
  <2> QED
    BY <1>2, <2>2, <2>3
<1>4. CASE e.rx # 1
  <2>1. Held(ue) = Forwarded(e) /\ ~IsComplete(ue)
    BY <1>4, PartialIsNotComplete
  <2>2. Held(new) = Forwarded(e) \cup {p}
    BY <1>2, <2>1
  <2>3. {RxPorts[i] : i \in 1..e.rx} = Forwarded(e) \cup {p}
    BY <1>1, PortsInRange DEF Forwarded
  <2>4. ASSUME NEW a \in Held(new)
        PROVE  new.antenna_data[a] = s
    <3>1. CASE a = p
      BY <1>2, <3>1
    <3>2. CASE a # p
      <4>1. a \in Held(ue) /\ a \in AntennaIds \ {p}
        BY <2>1, <2>2, <3>2, HeldFinite
      <4> QED
        BY <1>2, <1>4, <2>1, <4>1
    <3> QED
      BY <3>1, <3>2
  <2> QED
    BY <2>2, <2>3, <2>4
<1> QED
  BY <1>3, <1>4

(* The entry is right for the worker at its next port, and whole once the   *)
(* worker has left the receive ports of a transmit port.                   *)
LEMMA ForwardThenNext ==
  ASSUME NEW e \in Estimate, NEW ue \in UeData,
         Held(ue) = {RxPorts[i] : i \in 1..e.rx},
         \A a \in Held(ue) : ue.antenna_data[a] = [occasion |-> e.occasion, tx |-> e.tx]
  PROVE  LET n == NextPort(e)
         IN  /\ n = Idle => NoneOrWhole(ue)
             /\ n # Idle =>
                  /\ n.rnti = e.rnti
                  /\ IF n.rx = 1 THEN NoneOrWhole(ue)
                     ELSE /\ Held(ue) = Forwarded(n)
                          /\ \A a \in Held(ue) :
                               ue.antenna_data[a] = [occasion |-> n.occasion, tx |-> n.tx]
<1>0. e.rx \in 1..NofRxPorts
  BY DEF Estimate
<1>1. CASE e.rx < NofRxPorts
  <2> DEFINE n == NextPort(e)
  <2>1. /\ n = [e EXCEPT !.rx = @ + 1, !.timestamp = NoTime]
        /\ n.rnti = e.rnti /\ n.rx = e.rx + 1 /\ n.occasion = e.occasion /\ n.tx = e.tx
    BY <1>1 DEF NextPort, Estimate
  <2>2. n.occasion # Idle.occasion
    <3>1. e.occasion # 0
      BY DEF Estimate
    <3>2. Idle.occasion = 0
      BY DEF Idle
    <3> QED
      BY <2>1, <3>1, <3>2, Zenon
  <2>3. n # Idle /\ n.rx # 1
    <3>1. n # Idle
      BY <2>2, Zenon
    <3>2. e.rx + 1 # 1
      BY <1>0, PortsInRange
    <3>3. n.rx # 1
      BY <2>1, <3>2, Zenon
    <3> QED
      BY <3>1, <3>3
  <2>4. n.rx - 1 = e.rx
    BY <1>0, <2>1, PortsInRange
  <2>5. Forwarded(n) = {RxPorts[i] : i \in 1..e.rx}
    BY <2>4, Zenon DEF Forwarded
  <2> QED
    BY <2>1, <2>3, <2>5
<1>2. CASE ~(e.rx < NofRxPorts)
  <2>1. e.rx = NofRxPorts
    BY <1>0, <1>2, PortsInRange
  <2>2. Held(ue) = AntennaIds
    BY <2>1, AllPorts, Zenon
  <2>3. NoneOrWhole(ue)
    BY <2>2 DEF NoneOrWhole, OneOccasion
  <2>4. NextPort(e) = Idle \/ (NextPort(e).rx = 1 /\ NextPort(e).rnti = e.rnti)
    BY <1>2 DEF NextPort, Estimate
  <2> QED
    BY <2>3, <2>4
<1> QED
  BY <1>1, <1>2

-----------------------------------------------------------------------------
Inv == TypeOK /\ EntriesFollowWorkers /\ SnapshotsWhole

LEMMA InvInit == Init => EntriesFollowWorkers /\ SnapshotsWhole
<1> SUFFICES ASSUME Init PROVE EntriesFollowWorkers /\ SnapshotsWhole
  OBVIOUS
<1>1. \A w \in Workers : ~Busy(w)
  BY DEF Init, Busy
<1>2. \A u \in Rntis : Held(pending[u]) = {} /\ 1..Len(reports[u]) = {}
  BY NoUeDataType DEF Init
<1>3. EntriesFollowWorkers
  BY <1>1, <1>2 DEF EntriesFollowWorkers, OneWorkerPerUe, EmptyUntilRegistered, NoneOrWhole, Init
<1> QED
  BY <1>2, <1>3 DEF SnapshotsWhole, SnapshotFromOneOccasion, SnapshotCoversEveryAntenna

(* Forwarding keeps entries and workers in agreement. *)
LEMMA FollowForward ==
  ASSUME IntendedUse, TypeOK, EntriesFollowWorkers, NEW w \in Workers, ForwardSrs(w)
  PROVE  EntriesFollowWorkers'
<1> DEFINE e   == worker[w]
           n   == NextPort(e)
           s   == [occasion |-> e.occasion, tx |-> e.tx]
           new == AddSrsData(pending[e.rnti], RxPorts[e.rx], s, e.timestamp)
<1>1. Busy(w) /\ e \in Estimate /\ e.rnti \in Rntis
  BY DEF ForwardSrs, Busy, TypeOK, Estimate
<1>2. /\ worker'[w] = n /\ \A v \in Workers \ {w} : worker'[v] = worker[v]
      /\ registered' = registered
  BY DEF ForwardSrs, TypeOK
<1>3. n \in Estimate \cup {Idle} /\ (n # Idle => n.rnti = e.rnti)
  BY <1>1, NextPortType DEF NextPort, Estimate
<1>4. \A v \in Workers : Busy(v)' => Busy(v) /\ worker'[v].rnti = worker[v].rnti
  BY <1>1, <1>2, <1>3 DEF Busy
<1>5. OneWorkerPerUe'
  BY <1>4 DEF EntriesFollowWorkers, OneWorkerPerUe
<1>6. \A v \in Workers \ {w} : Busy(v)' => worker[v].rnti # e.rnti
  BY <1>1, <1>4 DEF EntriesFollowWorkers, OneWorkerPerUe
<1>7. \A u \in Rntis \ {e.rnti} : Quiet(u)' => Quiet(u)
  BY <1>1, <1>2 DEF Quiet, Busy
<1>8. CASE ~registered
  <2>1. pending' = pending
    BY <1>8 DEF ForwardSrs
  <2> QED
    BY <1>2, <1>5, <1>8, <2>1
    DEF EntriesFollowWorkers, EmptyUntilRegistered, NoneOrWhole
<1>9. CASE registered
  <2>1. /\ pending'[e.rnti] = new
        /\ \A u \in Rntis \ {e.rnti} : pending'[u] = pending[u]
    BY <1>1, <1>9 DEF ForwardSrs, TypeOK
  <2>2. EntryFollows(e)
    BY <1>1, <1>9 DEF EntriesFollowWorkers
  <2>3. /\ new \in UeData
        /\ Held(new) = {RxPorts[i] : i \in 1..e.rx}
        /\ \A a \in Held(new) : new.antenna_data[a] = s
    <3>1. pending[e.rnti] \in UeData
      BY <1>1 DEF TypeOK
    <3>2. RxPorts[e.rx] \in AntennaIds /\ s \in Sample /\ e.timestamp \in Nat
      BY <1>1, PortsInRange DEF Estimate, Sample
    <3>3. new \in UeData
      BY <3>1, <3>2, AddSrsDataType
    <3> HIDE DEF e
    <3>4. IF e.rx = 1 THEN NoneOrWhole(pending[e.rnti])
          ELSE /\ Held(pending[e.rnti]) = Forwarded(e)
               /\ \A a \in Held(pending[e.rnti]) :
                    pending[e.rnti].antenna_data[a] = [occasion |-> e.occasion, tx |-> e.tx]
      BY <2>2 DEF EntryFollows
    <3> QED
      BY <1>1, <3>1, <3>3, <3>4, ForwardExtends
  <2> HIDE DEF new
  <2>4. /\ n = Idle => NoneOrWhole(new)
        /\ n # Idle => IF n.rx = 1 THEN NoneOrWhole(new)
                       ELSE /\ Held(new) = Forwarded(n)
                            /\ \A a \in Held(new) :
                                 new.antenna_data[a] = [occasion |-> n.occasion, tx |-> n.tx]
    BY <1>1, <2>3, ForwardThenNext
  <2>5. ASSUME NEW v \in Workers, Busy(v)'
        PROVE  EntryFollows(worker[v])'
    <3>1. CASE v = w
      <4>1. n # Idle /\ worker'[v] = n /\ pending'[n.rnti] = new
        BY <1>2, <1>3, <2>1, <2>5, <3>1 DEF Busy
      <4> HIDE DEF n
      <4> QED
        BY <2>4, <4>1 DEF EntryFollows
    <3>2. CASE v # w
      <4>1. Busy(v) /\ worker'[v] = worker[v] /\ worker[v].rnti # e.rnti
        BY <1>2, <1>4, <1>6, <2>5, <3>2
      <4>2. worker[v].rnti \in Rntis
        BY <4>1 DEF Busy, TypeOK, Estimate
      <4>3. EntryFollows(worker[v])
        BY <1>9, <4>1 DEF EntriesFollowWorkers
      <4>4. pending'[worker[v].rnti] = pending[worker[v].rnti]
        BY <2>1, <4>1, <4>2
      <4> QED
        BY <4>1, <4>3, <4>4 DEF EntryFollows
    <3> QED
      BY <3>1, <3>2
  <2>6. ASSUME NEW u \in Rntis, Quiet(u)'
        PROVE  NoneOrWhole(pending[u])'
    <3>1. CASE u = e.rnti
      <4>1. n = Idle
        BY <1>2, <1>3, <2>6, <3>1 DEF Quiet, Busy
      <4> QED
        BY <2>1, <2>4, <3>1, <4>1 DEF NoneOrWhole
    <3>2. CASE u # e.rnti
      BY <1>7, <2>1, <2>6, <3>2 DEF EntriesFollowWorkers, NoneOrWhole
    <3> QED
      BY <3>1, <3>2
  <2> QED
    BY <1>2, <1>5, <1>9, <2>5, <2>6 DEF EntriesFollowWorkers, EmptyUntilRegistered
<1> QED
  BY <1>8, <1>9

LEMMA FollowStep ==
  ASSUME IntendedUse, TypeOK, EntriesFollowWorkers, [Next]_vars
  PROVE  EntriesFollowWorkers'
<1>1. CASE RegisterCollector
  <2>1. \A w \in Workers : ~Busy(w)
    BY <1>1 DEF RegisterCollector, IntendedUse
  <2> QED
    BY <1>1, <2>1 DEF RegisterCollector, EntriesFollowWorkers, OneWorkerPerUe,
      EmptyUntilRegistered, Busy, Quiet, NoneOrWhole
<1>2. ASSUME NEW w \in Workers, NEW u \in Rntis, StartEstimate(w, u)
      PROVE  EntriesFollowWorkers'
  <2> DEFINE n == [rnti |-> u, occasion |-> occasion[u] + 1, tx |-> 1, rx |-> 1,
                   timestamp |-> NoTime]
  <2>1. /\ ~Busy(w) /\ Quiet(u) /\ pending' = pending /\ registered' = registered
        /\ worker'[w] = n /\ \A v \in Workers \ {w} : worker'[v] = worker[v]
    BY <1>2 DEF StartEstimate, IntendedUse, TypeOK
  <2>2. n # Idle
    <3>1. n.occasion # Idle.occasion
      BY DEF TypeOK, Idle
    <3> QED
      BY <3>1
  <2>3. OneWorkerPerUe'
    BY <2>1 DEF EntriesFollowWorkers, OneWorkerPerUe, Busy, Quiet
  <2>4. ASSUME registered, NEW v \in Workers, Busy(v)'
        PROVE  EntryFollows(worker[v])'
    <3>1. CASE v = w
      <4>1. NoneOrWhole(pending[u])
        BY <2>1 DEF EntriesFollowWorkers
      <4>2. worker'[v].rx = 1 /\ worker'[v].rnti = u
        BY <2>1, <3>1
      <4> QED
        BY <2>1, <4>1, <4>2 DEF EntryFollows, NoneOrWhole
    <3>2. CASE v # w
      BY <2>1, <2>4, <3>2 DEF EntriesFollowWorkers, EntryFollows, Busy, Forwarded, NoneOrWhole
    <3> QED
      BY <3>1, <3>2
  <2>5. \A x \in Rntis : Quiet(x)' => Quiet(x)
    BY <2>1 DEF Quiet, Busy
  <2> QED
    BY <2>1, <2>3, <2>4, <2>5 DEF EntriesFollowWorkers, EmptyUntilRegistered, NoneOrWhole
<1>3. ASSUME NEW w \in Workers, ReadTimestamp(w)
      PROVE  EntriesFollowWorkers'
  <2>1. /\ worker[w] \in Estimate /\ pending' = pending /\ registered' = registered
        /\ worker'[w] = [worker[w] EXCEPT !.timestamp = clock]
        /\ \A v \in Workers \ {w} : worker'[v] = worker[v]
    BY <1>3 DEF ReadTimestamp, Busy, TypeOK
  <2>2. /\ worker'[w].rnti = worker[w].rnti /\ worker'[w].rx = worker[w].rx
        /\ worker'[w].tx = worker[w].tx /\ worker'[w].occasion = worker[w].occasion
    BY <2>1 DEF Estimate
  <2>3. \A v \in Workers : /\ worker'[v].rnti = worker[v].rnti /\ worker'[v].rx = worker[v].rx
                           /\ worker'[v].tx = worker[v].tx
                           /\ worker'[v].occasion = worker[v].occasion
    BY <2>1, <2>2
  <2>4. \A v \in Workers : Busy(v)' <=> Busy(v)
    <3>1. worker'[w].occasion # Idle.occasion
      BY <2>1, <2>2 DEF Estimate, Idle
    <3>2. Busy(w) /\ Busy(w)'
      BY <1>3, <3>1 DEF Busy, ReadTimestamp
    <3> QED
      BY <2>1, <3>2 DEF Busy
  <2>5. OneWorkerPerUe'
    BY <2>3, <2>4 DEF EntriesFollowWorkers, OneWorkerPerUe
  <2>6. \A v \in Workers : EntryFollows(worker[v]) => EntryFollows(worker[v])'
    <3> SUFFICES ASSUME NEW v \in Workers, EntryFollows(worker[v])
                 PROVE  EntryFollows(worker[v])'
      OBVIOUS
    <3>1. Forwarded(worker'[v]) = Forwarded(worker[v])
      BY <2>3, Zenon DEF Forwarded
    <3> QED
      BY <2>1, <2>3, <3>1 DEF EntryFollows, NoneOrWhole
  <2>7. \A x \in Rntis : Quiet(x)' => Quiet(x)
    BY <2>3, <2>4 DEF Quiet
  <2> QED
    BY <2>1, <2>4, <2>5, <2>6, <2>7
    DEF EntriesFollowWorkers, EmptyUntilRegistered, NoneOrWhole
<1>4. ASSUME NEW w \in Workers, ForwardSrs(w)
      PROVE  EntriesFollowWorkers'
  BY <1>4, FollowForward
<1>5. CASE Drain
  <2>1. /\ worker' = worker /\ registered' = registered
        /\ \A u \in Rntis : pending'[u] =
             IF IsComplete(pending[u]) THEN NoUeData ELSE pending[u]
    BY <1>5 DEF Drain, WithoutComplete, CompleteUes, TypeOK
  <2>2. OneWorkerPerUe'
    BY <2>1 DEF EntriesFollowWorkers, OneWorkerPerUe, Busy
  <2>3. EmptyUntilRegistered'
    BY <2>1, NoUeDataType DEF EntriesFollowWorkers, EmptyUntilRegistered
  <2>4. ASSUME registered, NEW w \in Workers, Busy(w)
        PROVE  EntryFollows(worker[w])'
    <3> DEFINE e == worker[w]
    <3>1. e \in Estimate /\ e.rnti \in Rntis /\ EntryFollows(e)
      BY <2>4 DEF EntriesFollowWorkers, TypeOK, Busy, Estimate
    <3>2. CASE e.rx = 1
      BY <2>1, <3>1, <3>2, NoUeDataType DEF EntryFollows, NoneOrWhole
    <3>3. CASE e.rx # 1
      <4>1. ~IsComplete(pending[e.rnti])
        BY <3>1, <3>3, PartialIsNotComplete DEF EntryFollows
      <4>2. pending'[e.rnti] = pending[e.rnti]
        BY <2>1, <3>1, <4>1
      <4> QED
        BY <2>1, <3>1, <3>3, <4>2 DEF EntryFollows
    <3> QED
      BY <3>2, <3>3
  <2>5. ASSUME NEW u \in Rntis, Quiet(u)
        PROVE  NoneOrWhole(pending[u])'
    BY <2>1, <2>5, NoUeDataType DEF EntriesFollowWorkers, NoneOrWhole
  <2> QED
    BY <2>1, <2>2, <2>3, <2>4, <2>5 DEF EntriesFollowWorkers, Busy, Quiet
<1>6. ASSUME NEW u \in Rntis, Take(u)
      PROVE  EntriesFollowWorkers'
  BY <1>6 DEF Take, IntendedUse
<1>7. CASE Cleanup
  BY <1>7 DEF Cleanup, IntendedUse
<1>8. CASE pending' = pending /\ worker' = worker /\ registered' = registered
  BY <1>8 DEF EntriesFollowWorkers, OneWorkerPerUe, EmptyUntilRegistered, EntryFollows,
    Busy, Quiet, NoneOrWhole, Forwarded
<1>9. CASE Tick
  BY <1>8, <1>9 DEF Tick
<1>10. CASE StepClockBack
  BY <1>8, <1>10 DEF StepClockBack
<1>11. CASE UNCHANGED vars
  BY <1>8, <1>11 DEF vars
<1> QED
  BY <1>1, <1>2, <1>3, <1>4, <1>5, <1>6, <1>7, <1>9, <1>10, <1>11 DEF Next

(* What is handed over was complete, hence whole. *)
LEMMA WholeStep ==
  ASSUME IntendedUse, Inv, [Next]_vars
  PROVE  SnapshotsWhole'
<1> USE DEF SnapshotsWhole, SnapshotFromOneOccasion, SnapshotCoversEveryAntenna
<1>1. CASE Drain
  <2>1. ASSUME NEW u \in Rntis, NEW i \in 1..Len(reports'[u])
        PROVE  OneOccasion(reports'[u][i]) /\ Held(reports'[u][i]) = AntennaIds
    <3>1. CASE u \in CompleteUes(pending)
      <4>1. OneOccasion(pending[u]) /\ Held(pending[u]) = AntennaIds
        BY <3>1, CompleteIsWhole DEF CompleteUes, Inv
      <4>2. reports'[u] = Append(reports[u], pending[u])
        BY <1>1, <3>1 DEF Drain
      <4>3. \/ reports'[u][i] = pending[u]
            \/ i \in 1..Len(reports[u]) /\ reports'[u][i] = reports[u][i]
        BY <4>2 DEF Inv, TypeOK
      <4> QED
        BY <4>1, <4>3 DEF Inv
    <3>2. CASE u \notin CompleteUes(pending)
      BY <1>1, <3>2 DEF Drain, Inv
    <3> QED
      BY <3>1, <3>2
  <2> QED
    BY <2>1
<1>2. CASE reports' = reports
  BY <1>2 DEF Inv
<1>3. CASE RegisterCollector
  BY <1>2, <1>3 DEF RegisterCollector
<1>4. ASSUME NEW w \in Workers, NEW u \in Rntis, StartEstimate(w, u)
      PROVE  SnapshotsWhole'
  BY <1>2, <1>4 DEF StartEstimate
<1>5. ASSUME NEW w \in Workers, ReadTimestamp(w) \/ ForwardSrs(w)
      PROVE  SnapshotsWhole'
  BY <1>2, <1>5 DEF ReadTimestamp, ForwardSrs
<1>6. ASSUME NEW u \in Rntis, Take(u)
      PROVE  SnapshotsWhole'
  BY <1>2, <1>6 DEF Take
<1>7. CASE Cleanup \/ Tick \/ StepClockBack \/ UNCHANGED vars
  BY <1>2, <1>7 DEF Cleanup, Tick, StepClockBack, vars
<1> QED
  BY <1>1, <1>3, <1>4, <1>5, <1>6, <1>7 DEF Next

LEMMA InvAlways == IntendedUse => (Spec => []Inv)
<1> SUFFICES ASSUME IntendedUse PROVE Spec => []Inv
  OBVIOUS
<1>1. Init => Inv
  BY TypeInit, InvInit DEF Inv
<1>2. Inv /\ [Next]_vars => Inv'
  BY TypeStep, FollowStep, WholeStep DEF Inv
<1> QED
  BY <1>1, <1>2, PTL DEF Spec

(* Used as intended, the collector never hands over a snapshot that mixes   *)
(* two occasions of a UE, for any number of UEs, workers and ports.        *)
THEOREM NoTornSnapshots == IntendedUse => (Spec => []SnapshotFromOneOccasion)
<1>1. Inv => SnapshotFromOneOccasion
  BY DEF Inv, SnapshotsWhole
<1> QED
  BY <1>1, InvAlways, PTL

(* Used as intended, every snapshot holds every antenna. *)
THEOREM NoPartialSnapshots == IntendedUse => (Spec => []SnapshotCoversEveryAntenna)
<1>1. Inv => SnapshotCoversEveryAntenna
  BY DEF Inv, SnapshotsWhole
<1> QED
  BY <1>1, InvAlways, PTL

(* Used as intended, the entry of a UE follows the worker on it, port by    *)
(* port, and is whole or absent between two transmit ports.                *)
THEOREM EntriesFollow == IntendedUse => (Spec => []EntriesFollowWorkers)
<1>1. Inv => EntriesFollowWorkers
  BY DEF Inv
<1> QED
  BY <1>1, InvAlways, PTL

-----------------------------------------------------------------------------
(* What a step may not do to an entry while the readers only drain: however *)
(* many workers are on a UE, and whenever the collector is registered.     *)

KeepsIncomplete == \A u \in Rntis :
  ~IsComplete(pending[u]) => Held(pending[u]) \subseteq Held(pending'[u])

KeepsComplete == \A u \in Rntis :
  IsComplete(pending[u]) /\ Held(pending'[u]) = {} => Len(reports'[u]) > Len(reports[u])

LEMMA KeepsStep ==
  ASSUME TypeOK, Readers = {}, [Next]_vars
  PROVE  KeepsIncomplete /\ KeepsComplete
<1>1. CASE pending' = pending
  BY <1>1, EmptyIsNotComplete DEF KeepsIncomplete, KeepsComplete
<1>2. ASSUME NEW w \in Workers, ForwardSrs(w)
      PROVE  KeepsIncomplete /\ KeepsComplete
  <2>1. CASE ~registered
    BY <1>1, <1>2, <2>1 DEF ForwardSrs
  <2>2. CASE registered
    <3> DEFINE e   == worker[w]
               s   == [occasion |-> e.occasion, tx |-> e.tx]
               new == AddSrsData(pending[e.rnti], RxPorts[e.rx], s, e.timestamp)
    <3>1. e \in Estimate
      BY <1>2 DEF ForwardSrs, Busy, TypeOK
    <3>2. /\ e.rnti \in Rntis /\ pending[e.rnti] \in UeData /\ RxPorts[e.rx] \in AntennaIds
          /\ s \in Sample /\ s # NoSample /\ e.timestamp \in Nat
      BY <3>1, PortsInRange DEF TypeOK, Estimate, Sample, NoSample
    <3>3. pending' = [pending EXCEPT ![e.rnti] = new]
      BY <1>2, <2>2 DEF ForwardSrs
    <3>4. Held(new) = (IF IsComplete(pending[e.rnti]) THEN {} ELSE Held(pending[e.rnti]))
                        \cup {RxPorts[e.rx]}
      BY <3>2, AddSrsDataHolds
    <3>5. \A u \in Rntis : pending'[u] = IF u = e.rnti THEN new ELSE pending[u]
      BY <3>2, <3>3 DEF TypeOK
    <3> HIDE DEF new, e
    <3> QED
      BY <3>2, <3>4, <3>5, EmptyIsNotComplete DEF KeepsIncomplete, KeepsComplete
  <2> QED
    BY <2>1, <2>2
<1>3. CASE Drain
  <2>1. \A u \in Rntis :
          /\ reports[u] \in Seq(UeData) /\ pending[u] \in UeData
          /\ IF IsComplete(pending[u])
             THEN reports'[u] = Append(reports[u], pending[u])
             ELSE pending'[u] = pending[u]
    BY <1>3 DEF Drain, WithoutComplete, CompleteUes, TypeOK
  <2>2. \A u \in Rntis : IsComplete(pending[u]) => Len(reports'[u]) = Len(reports[u]) + 1
                                                   /\ Len(reports[u]) \in Nat
    BY <2>1
  <2> QED
    BY <2>1, <2>2 DEF KeepsIncomplete, KeepsComplete
<1>4. ASSUME NEW w \in Workers, NEW u \in Rntis, StartEstimate(w, u)
      PROVE  pending' = pending
  BY <1>4 DEF StartEstimate, ReadTimestamp
<1>5. ASSUME NEW w \in Workers, ReadTimestamp(w)
      PROVE  pending' = pending
  BY <1>5 DEF ReadTimestamp
<1>6. ASSUME NEW u \in Rntis, Take(u)
      PROVE  FALSE
  BY <1>6 DEF Take
<1>7. CASE Cleanup
  BY <1>7 DEF Cleanup
<1>8. CASE RegisterCollector \/ Tick \/ StepClockBack \/ UNCHANGED vars
  BY <1>1, <1>8 DEF RegisterCollector, Tick, StepClockBack, vars
<1> QED
  BY <1>1, <1>2, <1>3, <1>4, <1>5, <1>6, <1>7, <1>8 DEF Next

(* While the readers only drain, an incomplete entry loses no antenna,      *)
(* however workers, readers and registration interleave.                   *)
THEOREM IncompleteKept == Readers = {} => (Spec => IncompleteKeepsAntennas)
<1> SUFFICES ASSUME Readers = {} PROVE Spec => IncompleteKeepsAntennas
  OBVIOUS
<1>1. TypeOK /\ [Next]_vars =>
        \A u \in Rntis : ~IsComplete(pending[u]) => Held(pending[u]) \subseteq Held(pending'[u])
  BY KeepsStep DEF KeepsIncomplete
<1> QED
  BY <1>1, TypeCorrect, PTL DEF Spec, IncompleteKeepsAntennas

(* While the readers only drain, a complete snapshot goes nowhere but to a  *)
(* reader or under the next one.                                           *)
THEOREM CompleteKept == Readers = {} => (Spec => CompleteNotDropped)
<1> SUFFICES ASSUME Readers = {} PROVE Spec => CompleteNotDropped
  OBVIOUS
<1>1. TypeOK /\ [Next]_vars =>
        \A u \in Rntis : IsComplete(pending[u]) /\ Held(pending'[u]) = {} =>
          Len(reports'[u]) > Len(reports[u])
  BY KeepsStep DEF KeepsComplete
<1> QED
  BY <1>1, TypeCorrect, PTL DEF Spec, CompleteNotDropped

-----------------------------------------------------------------------------
(* The order in which snapshots leave the collector, and SnapshotBox, which it *)
(* implements.                                                             *)

(* The tag of what a worker forwards. *)
Tag(e) == [occasion |-> e.occasion, tx |-> e.tx]

(* Every sample of the first entry was taken before every one of the second. *)
EntryBefore(ue, later) ==
  \A a \in Held(ue), b \in Held(later) : Before(ue.antenna_data[a], later.antenna_data[b])

(* ... before what a worker forwards now. *)
EntryBeforeTag(ue, s) == \A a \in Held(ue) : Before(ue.antenna_data[a], s)

(* No sample of the entry is of a later occasion than the UE's last one. *)
EntryUpTo(ue, o) == \A a \in Held(ue) : ue.antenna_data[a].occasion <= o

WorkersOnLast == \A w \in Workers : Busy(w) => worker[w].occasion = occasion[worker[w].rnti]

NothingAhead ==
  \A u \in Rntis : /\ EntryUpTo(pending[u], occasion[u])
                   /\ \A i \in 1..Len(reports[u]) : EntryUpTo(reports[u][i], occasion[u])

ReportsBeforeEntry ==
  \A u \in Rntis : \A i \in 1..Len(reports[u]) : EntryBefore(reports[u][i], pending[u])

ReportsBeforeWorkers ==
  \A w \in Workers : Busy(w) =>
    \A i \in 1..Len(reports[worker[w].rnti]) :
      EntryBeforeTag(reports[worker[w].rnti][i], Tag(worker[w]))

EntryBeforeWorkers ==
  \A w \in Workers : Busy(w) /\ worker[w].rx = 1 =>
    EntryBeforeTag(pending[worker[w].rnti], Tag(worker[w]))

OrderInv == /\ WorkersOnLast /\ NothingAhead
            /\ ReportsBeforeEntry /\ ReportsBeforeWorkers /\ EntryBeforeWorkers
            /\ ReportsFollowOccasions

Ordered == Inv /\ OrderInv

-----------------------------------------------------------------------------
(* What a step of estimate() leaves in the collector: the ports of the      *)
(* transmit port up to the worker's, all with its tag.                     *)
LEMMA ForwardedEntry ==
  ASSUME IntendedUse, TypeOK, EntriesFollowWorkers, NEW w \in Workers, ForwardSrs(w), registered
  PROVE  LET e == worker[w] IN
         /\ e \in Estimate /\ e.rnti \in Rntis /\ Busy(w)
         /\ pending'[e.rnti] \in UeData
         /\ Held(pending'[e.rnti]) = {RxPorts[i] : i \in 1..e.rx}
         /\ \A a \in Held(pending'[e.rnti]) : pending'[e.rnti].antenna_data[a] = Tag(e)
         /\ \A u \in Rntis \ {e.rnti} : pending'[u] = pending[u]
<1> DEFINE e   == worker[w]
           new == AddSrsData(pending[e.rnti], RxPorts[e.rx], Tag(e), e.timestamp)
<1>1. Busy(w) /\ e \in Estimate /\ e.rnti \in Rntis
  BY DEF ForwardSrs, Busy, TypeOK, Estimate
<1>2. /\ pending'[e.rnti] = new
      /\ \A u \in Rntis \ {e.rnti} : pending'[u] = pending[u]
  BY <1>1 DEF ForwardSrs, TypeOK, Tag
<1>3. EntryFollows(e)
  BY <1>1 DEF EntriesFollowWorkers
<1>4. pending[e.rnti] \in UeData /\ RxPorts[e.rx] \in AntennaIds /\ Tag(e) \in Sample
      /\ e.timestamp \in Nat
  BY <1>1, PortsInRange DEF TypeOK, Estimate, Sample, Tag
<1>5. new \in UeData
  BY <1>4, AddSrsDataType
<1> HIDE DEF e
<1>6. IF e.rx = 1 THEN NoneOrWhole(pending[e.rnti])
      ELSE /\ Held(pending[e.rnti]) = Forwarded(e)
           /\ \A a \in Held(pending[e.rnti]) :
                pending[e.rnti].antenna_data[a] = [occasion |-> e.occasion, tx |-> e.tx]
  BY <1>3 DEF EntryFollows
<1>7. /\ Held(new) = {RxPorts[i] : i \in 1..e.rx}
      /\ \A a \in Held(new) : new.antenna_data[a] = Tag(e)
  BY <1>1, <1>4, <1>6, ForwardExtends DEF Tag
<1> HIDE DEF new
<1> QED
  BY <1>1, <1>2, <1>5, <1>7 DEF e

(* The tag of a worker's next port is the same, or of the next transmit     *)
(* port from the first receive port on.                                    *)
LEMMA NextTag ==
  ASSUME NEW e \in Estimate, NextPort(e) # Idle
  PROVE  LET n == NextPort(e) IN
         /\ n.rnti = e.rnti /\ n.occasion = e.occasion
         /\ \/ e.rx < NofRxPorts /\ n.rx = e.rx + 1 /\ n.tx = e.tx
            \/ e.rx = NofRxPorts /\ n.rx = 1 /\ n.tx = e.tx + 1
<1>1. CASE e.rx < NofRxPorts
  BY <1>1 DEF NextPort, Estimate
<1>2. CASE ~(e.rx < NofRxPorts)
  <2>1. e.rx = NofRxPorts
    BY <1>2, PortsInRange DEF Estimate
  <2> QED
    BY <1>2, <2>1 DEF NextPort, Estimate
<1> QED
  BY <1>1, <1>2

LEMMA BeforeTransitive ==
  ASSUME NEW r \in Sample, NEW s \in Sample, NEW t \in Sample, Before(r, s), Before(s, t)
  PROVE  Before(r, t)
BY DEF Before, Sample

(* What happens to the order is seen in three ways of stepping: nothing     *)
(* but workers moves, the collector is drained, a port is forwarded.       *)
LEMMA OrderInit == Init => OrderInv
<1> SUFFICES ASSUME Init PROVE OrderInv
  OBVIOUS
<1>1. \A w \in Workers : ~Busy(w)
  BY DEF Init, Busy
<1>2. \A u \in Rntis : Held(pending[u]) = {} /\ 1..Len(reports[u]) = {}
  BY NoUeDataType DEF Init
<1> QED
  BY <1>1, <1>2 DEF OrderInv, WorkersOnLast, NothingAhead, EntryUpTo, ReportsBeforeEntry,
    ReportsBeforeWorkers, EntryBeforeWorkers, ReportsFollowOccasions

LEMMA OrderDrain ==
  ASSUME IntendedUse, Inv, OrderInv, Drain
  PROVE  OrderInv'
<1>1. /\ worker' = worker /\ occasion' = occasion
      /\ \A u \in Rntis : /\ reports[u] \in Seq(UeData) /\ pending[u] \in UeData
                          /\ IF IsComplete(pending[u])
                             THEN /\ pending'[u] = NoUeData
                                  /\ reports'[u] = Append(reports[u], pending[u])
                             ELSE pending'[u] = pending[u] /\ reports'[u] = reports[u]
  BY DEF Drain, WithoutComplete, CompleteUes, Inv, TypeOK
<1>2. \A u \in Rntis : pending'[u] = pending[u] \/ Held(pending'[u]) = {}
  BY <1>1, NoUeDataType
<1>3. \A u \in Rntis : \A i \in 1..Len(reports'[u]) :
        \/ i \in 1..Len(reports[u]) /\ reports'[u][i] = reports[u][i]
        \/ /\ IsComplete(pending[u]) /\ i = Len(reports[u]) + 1
           /\ reports'[u][i] = pending[u] /\ Held(pending'[u]) = {}
  BY <1>1, NoUeDataType
<1>4. \A w \in Workers : Busy(w) => worker[w].rnti \in Rntis
  BY DEF Inv, TypeOK, Busy, Estimate
<1>5. WorkersOnLast'
  BY <1>1 DEF OrderInv, WorkersOnLast, Busy
<1>6. NothingAhead'
  BY <1>1, <1>2, <1>3 DEF OrderInv, NothingAhead, EntryUpTo
<1>7. ReportsBeforeEntry'
  BY <1>1, <1>2, <1>3 DEF OrderInv, ReportsBeforeEntry, EntryBefore
<1>8. ReportsBeforeWorkers'
  <2> SUFFICES ASSUME NEW w \in Workers, Busy(w), NEW i \in 1..Len(reports'[worker[w].rnti])
               PROVE  EntryBeforeTag(reports'[worker[w].rnti][i], Tag(worker[w]))
    BY <1>1 DEF ReportsBeforeWorkers, Busy, EntryBeforeTag
  <2> DEFINE u == worker[w].rnti
  <2>1. CASE i \in 1..Len(reports[u]) /\ reports'[u][i] = reports[u][i]
    BY <2>1 DEF OrderInv, ReportsBeforeWorkers
  <2>2. CASE IsComplete(pending[u]) /\ reports'[u][i] = pending[u]
    <3>1. Held(pending[u]) # {} /\ worker[w] \in Estimate
      BY <2>2, EmptyIsNotComplete DEF Inv, TypeOK, Busy
    <3>2. EntryFollows(worker[w])
      BY <1>4, <3>1 DEF Inv, EntriesFollowWorkers, EmptyUntilRegistered
    <3>3. worker[w].rx = 1
      BY <2>2, <3>1, <3>2, PartialIsNotComplete DEF EntryFollows
    <3> QED
      BY <2>2, <3>3 DEF OrderInv, EntryBeforeWorkers
  <2> QED
    BY <1>3, <1>4, <2>1, <2>2
<1>9. EntryBeforeWorkers'
  BY <1>1, <1>2, <1>4 DEF OrderInv, EntryBeforeWorkers, EntryBeforeTag, Busy
<1>10. ReportsFollowOccasions'
  <2> SUFFICES ASSUME NEW u \in Rntis, NEW i \in 1..Len(reports'[u]),
                      NEW j \in 1..Len(reports'[u]), i < j
               PROVE  EntryBefore(reports'[u][i], reports'[u][j])
    BY DEF ReportsFollowOccasions, EntryBefore
  <2>1. i \in 1..Len(reports[u]) /\ reports'[u][i] = reports[u][i]
    BY <1>1, <1>3
  <2>2. CASE j \in 1..Len(reports[u]) /\ reports'[u][j] = reports[u][j]
    BY <2>1, <2>2 DEF OrderInv, ReportsFollowOccasions, EntryBefore
  <2>3. CASE reports'[u][j] = pending[u]
    BY <2>1, <2>3 DEF OrderInv, ReportsBeforeEntry
  <2> QED
    BY <1>3, <2>2, <2>3
<1> QED
  BY <1>5, <1>6, <1>7, <1>8, <1>9, <1>10 DEF OrderInv

LEMMA OrderForward ==
  ASSUME IntendedUse, Inv, OrderInv, NEW w \in Workers, ForwardSrs(w)
  PROVE  OrderInv'
<1> DEFINE e == worker[w]
           n == NextPort(e)
<1>1. /\ Busy(w) /\ e \in Estimate /\ e.rnti \in Rntis /\ e.occasion \in Nat /\ e.tx \in Nat
      /\ e.occasion = occasion[e.rnti] /\ n \in Estimate \cup {Idle}
  BY NextPortType, NofTxPortsAssumption
  DEF ForwardSrs, Busy, Inv, TypeOK, Estimate, OrderInv, WorkersOnLast
<1>2. /\ worker'[w] = n /\ \A v \in Workers \ {w} : worker'[v] = worker[v]
      /\ reports' = reports /\ occasion' = occasion
  BY DEF ForwardSrs, Inv, TypeOK
<1>3. \A v \in Workers \ {w} : Busy(v)' => /\ Busy(v) /\ worker'[v] = worker[v]
                                            /\ worker[v].rnti \in Rntis \ {e.rnti}
  BY <1>1, <1>2 DEF Busy, Inv, TypeOK, Estimate, EntriesFollowWorkers, OneWorkerPerUe
<1>4. Busy(w)' => /\ n # Idle /\ n.rnti = e.rnti /\ n.occasion = e.occasion
                  /\ \/ e.rx < NofRxPorts /\ n.rx = e.rx + 1 /\ n.tx = e.tx
                     \/ e.rx = NofRxPorts /\ n.rx = 1 /\ n.tx = e.tx + 1
  BY <1>1, <1>2, NextTag DEF Busy
<1>5. \A u \in Rntis : /\ pending[u] \in UeData /\ reports[u] \in Seq(UeData)
                       /\ \A i \in 1..Len(reports[u]) : reports[u][i] \in UeData
  BY DEF Inv, TypeOK
<1>6. \A u \in Rntis \ {e.rnti} : pending'[u] = pending[u]
  BY DEF ForwardSrs, Inv, TypeOK
<1>7. \/ pending'[e.rnti] = pending[e.rnti] /\ Held(pending[e.rnti]) = {}
      \/ \A a \in Held(pending'[e.rnti]) : pending'[e.rnti].antenna_data[a] = Tag(e)
  <2>1. CASE registered
    BY <2>1, ForwardedEntry DEF Inv
  <2>2. CASE ~registered
    BY <1>1, <2>2 DEF ForwardSrs, Inv, EntriesFollowWorkers, EmptyUntilRegistered
  <2> QED
    BY <2>1, <2>2
<1>8. \A i \in 1..Len(reports[e.rnti]) : EntryBeforeTag(reports[e.rnti][i], Tag(e))
  BY <1>1 DEF OrderInv, ReportsBeforeWorkers
<1>9. Tag(e).occasion = e.occasion /\ Tag(e).tx = e.tx
  BY DEF Tag
<1> HIDE DEF e, n
<1>10. WorkersOnLast'
  BY <1>1, <1>2, <1>3, <1>4 DEF OrderInv, WorkersOnLast
<1>11. NothingAhead'
  <2>1. EntryUpTo(pending'[e.rnti], occasion[e.rnti])
    BY <1>1, <1>7, <1>9 DEF EntryUpTo
  <2> QED
    BY <1>2, <1>6, <2>1 DEF OrderInv, NothingAhead, EntryUpTo
<1>12. ReportsBeforeEntry'
  <2>1. \A i \in 1..Len(reports[e.rnti]) : EntryBefore(reports[e.rnti][i], pending'[e.rnti])
    BY <1>7, <1>8 DEF EntryBefore, EntryBeforeTag
  <2> QED
    BY <1>2, <1>6, <2>1 DEF OrderInv, ReportsBeforeEntry, EntryBefore
<1>13. Busy(w)' => Before(Tag(e), Tag(n)) \/ Tag(n) = Tag(e)
  BY <1>1, <1>4 DEF Tag, Before
<1>14. ReportsBeforeWorkers'
  <2>1. ASSUME Busy(w)', NEW i \in 1..Len(reports[e.rnti])
        PROVE  EntryBeforeTag(reports[e.rnti][i], Tag(n))
    <3> SUFFICES ASSUME NEW a \in Held(reports[e.rnti][i])
                 PROVE  Before(reports[e.rnti][i].antenna_data[a], Tag(n))
      BY DEF EntryBeforeTag
    <3>1. Before(reports[e.rnti][i].antenna_data[a], Tag(e))
      BY <1>8, <2>1 DEF EntryBeforeTag
    <3>2. reports[e.rnti][i].antenna_data[a] \in Sample
      BY <1>1, <1>5, <2>1 DEF UeData, Held
    <3>3. Tag(e) \in Sample /\ Tag(n) \in Sample
      BY <1>1, <1>4, <2>1 DEF Sample, Tag
    <3> QED
      BY <1>13, <2>1, <3>1, <3>2, <3>3, BeforeTransitive
  <2> QED
    BY <1>2, <1>3, <1>4, <2>1 DEF OrderInv, ReportsBeforeWorkers, EntryBeforeTag
<1>15. EntryBeforeWorkers'
  <2>1. ASSUME Busy(w)', n.rx = 1
        PROVE  EntryBeforeTag(pending'[e.rnti], Tag(n))
    <3>1. n.tx = e.tx + 1 /\ n.occasion = e.occasion
      BY <1>1, <1>4, <2>1, PortsInRange DEF Estimate
    <3> QED
      BY <1>1, <1>7, <1>9, <3>1 DEF EntryBeforeTag, Before, Tag
  <2> QED
    BY <1>2, <1>3, <1>4, <1>6, <2>1 DEF OrderInv, EntryBeforeWorkers, EntryBeforeTag
<1>16. ReportsFollowOccasions'
  BY <1>2 DEF OrderInv, ReportsFollowOccasions
<1> QED
  BY <1>10, <1>11, <1>12, <1>14, <1>15, <1>16 DEF OrderInv

LEMMA OrderStart ==
  ASSUME IntendedUse, Inv, OrderInv, NEW w \in Workers, NEW x \in Rntis, StartEstimate(w, x)
  PROVE  OrderInv'
<1> DEFINE n == [rnti |-> x, occasion |-> occasion[x] + 1, tx |-> 1, rx |-> 1,
                 timestamp |-> NoTime]
<1>1. /\ pending' = pending /\ reports' = reports /\ Quiet(x) /\ occasion[x] \in Nat
      /\ occasion'[x] = occasion[x] + 1
      /\ \A u \in Rntis \ {x} : occasion'[u] = occasion[u]
      /\ worker'[w] = n /\ \A v \in Workers \ {w} : worker'[v] = worker[v]
  BY DEF StartEstimate, IntendedUse, Inv, TypeOK
<1>2. \A v \in Workers \ {w} : Busy(v)' => /\ Busy(v) /\ worker'[v] = worker[v]
                                            /\ worker[v].rnti \in Rntis \ {x}
  BY <1>1 DEF Busy, Inv, TypeOK, Estimate, Quiet
<1>3. \A u \in Rntis : /\ occasion[u] \in Nat /\ occasion'[u] \in Nat
                       /\ occasion[u] <= occasion'[u]
                       /\ pending[u] \in UeData
                       /\ \A i \in 1..Len(reports[u]) : reports[u][i] \in UeData
  <2>1. occasion \in [Rntis -> Nat] /\ pending \in [Rntis -> UeData]
        /\ reports \in [Rntis -> Seq(UeData)]
    BY DEF Inv, TypeOK
  <2>2. ASSUME NEW u \in Rntis
        PROVE  occasion[u] \in Nat /\ occasion'[u] \in Nat /\ occasion[u] <= occasion'[u]
    <3>1. CASE u = x
      BY <1>1, <3>1
    <3>2. CASE u # x
      BY <1>1, <2>1, <3>2
    <3> QED
      BY <3>1, <3>2
  <2> QED
    BY <2>1, <2>2
<1>4. n.rnti = x /\ Tag(n).occasion = occasion[x] + 1 /\ n.occasion = occasion[x] + 1
  BY DEF Tag
<1>5. ASSUME NEW ue \in UeData, EntryUpTo(ue, occasion[x])
      PROVE  EntryBeforeTag(ue, Tag(n)) /\ EntryUpTo(ue, occasion'[x])
  <2>1. \A a \in Held(ue) : ue.antenna_data[a].occasion \in Nat
    BY DEF UeData, Held, Sample
  <2> QED
    BY <1>1, <1>4, <1>5, <2>1 DEF EntryUpTo, EntryBeforeTag, Before
<1> HIDE DEF n
<1>6. WorkersOnLast'
  BY <1>1, <1>2, <1>4 DEF OrderInv, WorkersOnLast
<1>7. NothingAhead'
  <2>1. EntryUpTo(pending[x], occasion'[x])
        /\ \A i \in 1..Len(reports[x]) : EntryUpTo(reports[x][i], occasion'[x])
    BY <1>3, <1>5 DEF OrderInv, NothingAhead
  <2> QED
    BY <1>1, <2>1 DEF OrderInv, NothingAhead, EntryUpTo
<1>8. ReportsBeforeEntry' /\ ReportsFollowOccasions'
  BY <1>1 DEF OrderInv, ReportsBeforeEntry, EntryBefore, ReportsFollowOccasions
<1>9. EntryBeforeTag(pending[x], Tag(n))
      /\ \A i \in 1..Len(reports[x]) : EntryBeforeTag(reports[x][i], Tag(n))
  BY <1>3, <1>5 DEF OrderInv, NothingAhead
<1>10. ReportsBeforeWorkers'
  <2> SUFFICES ASSUME NEW v \in Workers, Busy(v)', NEW i \in 1..Len(reports[worker'[v].rnti])
               PROVE  EntryBeforeTag(reports[worker'[v].rnti][i], Tag(worker'[v]))
    BY <1>1 DEF ReportsBeforeWorkers, EntryBeforeTag
  <2>1. CASE v = w
    BY <1>1, <1>4, <1>9, <2>1
  <2>2. CASE v # w
    BY <1>2, <2>2 DEF OrderInv, ReportsBeforeWorkers
  <2> QED
    BY <2>1, <2>2
<1>11. EntryBeforeWorkers'
  <2> SUFFICES ASSUME NEW v \in Workers, Busy(v)', worker'[v].rx = 1
               PROVE  EntryBeforeTag(pending[worker'[v].rnti], Tag(worker'[v]))
    BY <1>1 DEF EntryBeforeWorkers, EntryBeforeTag
  <2>1. CASE v = w
    BY <1>1, <1>4, <1>9, <2>1
  <2>2. CASE v # w
    BY <1>2, <2>2 DEF OrderInv, EntryBeforeWorkers
  <2> QED
    BY <2>1, <2>2
<1> QED
  BY <1>6, <1>7, <1>8, <1>10, <1>11 DEF OrderInv

(* A step that only moves the clock, the registration or a timestamp. *)
LEMMA OrderSame ==
  ASSUME OrderInv, pending' = pending, reports' = reports, occasion' = occasion,
         \A v \in Workers : /\ Busy(v)' <=> Busy(v)
                            /\ Busy(v) => /\ worker'[v].rnti = worker[v].rnti
                                          /\ worker'[v].rx = worker[v].rx
                                          /\ Tag(worker'[v]) = Tag(worker[v])
                                          /\ worker'[v].occasion = worker[v].occasion
  PROVE  OrderInv'
<1>1. WorkersOnLast'
  BY DEF OrderInv, WorkersOnLast
<1>2. NothingAhead' /\ ReportsBeforeEntry' /\ ReportsFollowOccasions'
  BY DEF OrderInv, NothingAhead, EntryUpTo, ReportsBeforeEntry, EntryBefore,
    ReportsFollowOccasions
<1>3. ReportsBeforeWorkers' /\ EntryBeforeWorkers'
  BY DEF OrderInv, ReportsBeforeWorkers, EntryBeforeWorkers, EntryBeforeTag
<1> QED
  BY <1>1, <1>2, <1>3 DEF OrderInv

LEMMA ReadKeepsPlace ==
  ASSUME TypeOK, NEW w \in Workers, ReadTimestamp(w)
  PROVE  \A v \in Workers : /\ Busy(v)' <=> Busy(v)
                            /\ Busy(v) => /\ worker'[v].rnti = worker[v].rnti
                                          /\ worker'[v].rx = worker[v].rx
                                          /\ Tag(worker'[v]) = Tag(worker[v])
                                          /\ worker'[v].occasion = worker[v].occasion
<1>1. /\ worker[w] \in Estimate /\ Busy(w)
      /\ worker'[w] = [worker[w] EXCEPT !.timestamp = clock]
      /\ \A v \in Workers \ {w} : worker'[v] = worker[v]
  BY DEF ReadTimestamp, Busy, TypeOK
<1>2. /\ worker'[w].rnti = worker[w].rnti /\ worker'[w].rx = worker[w].rx
      /\ worker'[w].tx = worker[w].tx /\ worker'[w].occasion = worker[w].occasion
  BY <1>1 DEF Estimate
<1>3. worker'[w].occasion # Idle.occasion
  BY <1>1, <1>2 DEF Estimate, Idle
<1>4. Busy(w)'
  BY <1>3 DEF Busy
<1> QED
  BY <1>1, <1>2, <1>4 DEF Busy, Tag

LEMMA OrderStep ==
  ASSUME IntendedUse, Inv, OrderInv, [Next]_vars
  PROVE  OrderInv'
<1>1. CASE RegisterCollector \/ Tick \/ StepClockBack \/ UNCHANGED vars
  BY <1>1, OrderSame DEF RegisterCollector, Tick, StepClockBack, vars, Busy
<1>2. ASSUME NEW w \in Workers, NEW u \in Rntis, StartEstimate(w, u)
      PROVE  OrderInv'
  BY <1>2, OrderStart
<1>3. ASSUME NEW w \in Workers, ReadTimestamp(w)
      PROVE  OrderInv'
  <2>1. pending' = pending /\ reports' = reports /\ occasion' = occasion
    BY <1>3 DEF ReadTimestamp
  <2> QED
    BY <1>3, <2>1, ReadKeepsPlace, OrderSame DEF Inv
<1>4. ASSUME NEW w \in Workers, ForwardSrs(w)
      PROVE  OrderInv'
  BY <1>4, OrderForward
<1>5. CASE Drain
  BY <1>5, OrderDrain
<1>6. ASSUME NEW u \in Rntis, Take(u) \/ Cleanup
      PROVE  OrderInv'
  BY <1>6 DEF Take, Cleanup, IntendedUse
<1>7. CASE Cleanup
  BY <1>7 DEF Cleanup, IntendedUse
<1> QED
  BY <1>1, <1>2, <1>3, <1>4, <1>5, <1>6, <1>7 DEF Next

LEMMA InvStep ==
  ASSUME IntendedUse, Inv, [Next]_vars
  PROVE  Inv'
BY TypeStep, FollowStep, WholeStep DEF Inv

LEMMA OrderAlways == IntendedUse => (Spec => []Ordered)
<1> SUFFICES ASSUME IntendedUse PROVE Spec => []Ordered
  OBVIOUS
<1>1. Init => Ordered
  BY TypeInit, InvInit, OrderInit DEF Ordered, Inv
<1>2. Ordered /\ [Next]_vars => Ordered'
  BY InvStep, OrderStep DEF Ordered
<1> QED
  BY <1>1, <1>2, PTL DEF Spec

(* Used as intended, the snapshots of a UE leave the collector in the order *)
(* of its occasions and transmit ports, and none leaves twice, however     *)
(* workers of other UEs, drains and clock steps fall between.              *)
THEOREM ReportsInOrder == IntendedUse => (Spec => []ReportsFollowOccasions)
<1>1. Ordered => ReportsFollowOccasions
  BY DEF Ordered, OrderInv
<1> QED
  BY <1>1, OrderAlways, PTL

(* With one transmit port, all that is held or reported is of it. *)
OneTxPort ==
  \A u \in Rntis :
    /\ \A a \in Held(pending[u]) : pending[u].antenna_data[a].tx = 1
    /\ \A i \in 1..Len(reports[u]) :
         \A a \in Held(reports[u][i]) : reports[u][i].antenna_data[a].tx = 1

LEMMA OneTxPortStep ==
  ASSUME IntendedUse, NofTxPorts = 1, Inv, OneTxPort, [Next]_vars
  PROVE  OneTxPort'
<1>1. CASE Drain
  <2>1. /\ \A u \in Rntis : /\ reports[u] \in Seq(UeData) /\ pending[u] \in UeData
                            /\ IF IsComplete(pending[u])
                               THEN /\ pending'[u] = NoUeData
                                    /\ reports'[u] = Append(reports[u], pending[u])
                               ELSE pending'[u] = pending[u] /\ reports'[u] = reports[u]
    BY <1>1 DEF Drain, WithoutComplete, CompleteUes, Inv, TypeOK
  <2>2. \A u \in Rntis : pending'[u] = pending[u] \/ Held(pending'[u]) = {}
    BY <2>1, NoUeDataType
  <2>3. \A u \in Rntis : \A i \in 1..Len(reports'[u]) :
          \/ i \in 1..Len(reports[u]) /\ reports'[u][i] = reports[u][i]
          \/ reports'[u][i] = pending[u]
    BY <2>1
  <2>4. \A u \in Rntis : \A a \in Held(pending'[u]) : pending'[u].antenna_data[a].tx = 1
    BY <2>2 DEF OneTxPort
  <2>5. \A u \in Rntis : \A i \in 1..Len(reports'[u]) :
          \A a \in Held(reports'[u][i]) : reports'[u][i].antenna_data[a].tx = 1
    BY <2>3 DEF OneTxPort
  <2> QED
    BY <2>4, <2>5 DEF OneTxPort
<1>2. ASSUME NEW w \in Workers, ForwardSrs(w)
      PROVE  OneTxPort'
  <2> DEFINE e == worker[w]
  <2>1. e \in Estimate /\ e.rnti \in Rntis /\ Tag(e).tx = 1 /\ reports' = reports
    BY <1>2 DEF ForwardSrs, Busy, Inv, TypeOK, Estimate, Tag
  <2>2. \A u \in Rntis \ {e.rnti} : pending'[u] = pending[u]
    BY <1>2 DEF ForwardSrs, Inv, TypeOK
  <2>3. \A a \in Held(pending'[e.rnti]) : pending'[e.rnti].antenna_data[a].tx = 1
    <3>1. CASE registered
      BY <1>2, <2>1, <3>1, ForwardedEntry DEF Inv
    <3>2. CASE ~registered
      BY <1>2, <2>1, <3>2 DEF ForwardSrs, OneTxPort
    <3> QED
      BY <3>1, <3>2
  <2> QED
    BY <2>1, <2>2, <2>3 DEF OneTxPort
<1>3. CASE pending' = pending /\ reports' = reports
  BY <1>3 DEF OneTxPort
<1>4. ASSUME NEW w \in Workers, NEW u \in Rntis, StartEstimate(w, u)
      PROVE  OneTxPort'
  BY <1>3, <1>4 DEF StartEstimate
<1>5. ASSUME NEW w \in Workers, ReadTimestamp(w)
      PROVE  OneTxPort'
  BY <1>3, <1>5 DEF ReadTimestamp
<1>6. ASSUME NEW u \in Rntis, Take(u)
      PROVE  OneTxPort'
  BY <1>6 DEF Take, IntendedUse
<1>7. CASE Cleanup
  BY <1>7 DEF Cleanup, IntendedUse
<1>8. CASE RegisterCollector \/ Tick \/ StepClockBack \/ UNCHANGED vars
  BY <1>3, <1>8 DEF RegisterCollector, Tick, StepClockBack, vars
<1> QED
  BY <1>1, <1>2, <1>4, <1>5, <1>6, <1>7, <1>8 DEF Next

LEMMA OneTxPortAlways == IntendedUse /\ NofTxPorts = 1 => (Spec => []OneTxPort)
<1> SUFFICES ASSUME IntendedUse, NofTxPorts = 1 PROVE Spec => []OneTxPort
  OBVIOUS
<1>1. Init => OneTxPort
  <2> SUFFICES ASSUME Init PROVE OneTxPort
    OBVIOUS
  <2>1. \A u \in Rntis : Held(pending[u]) = {} /\ 1..Len(reports[u]) = {}
    BY NoUeDataType DEF Init
  <2> QED
    BY <2>1 DEF OneTxPort
<1>2. Inv /\ OneTxPort /\ [Next]_vars => OneTxPort'
  BY OneTxPortStep
<1> QED
  BY <1>1, <1>2, InvAlways, PTL DEF Spec

(* With one transmit port, two snapshots of a UE are never of the same      *)
(* occasion.  (With more they are: each port makes one.)                   *)
THEOREM OccasionsReportedOnce ==
  IntendedUse /\ NofTxPorts = 1 => (Spec => []OccasionReportedOnce)
<1> SUFFICES ASSUME IntendedUse, NofTxPorts = 1 PROVE Spec => []OccasionReportedOnce
  OBVIOUS
<1>1. Ordered /\ OneTxPort => OccasionReportedOnce
  <2> SUFFICES ASSUME Ordered, OneTxPort,
                      NEW u \in Rntis, NEW i \in 1..Len(reports[u]), NEW j \in 1..Len(reports[u]),
                      i # j, NEW a \in Held(reports[u][i]), NEW b \in Held(reports[u][j])
               PROVE  reports[u][i].antenna_data[a].occasion
                        # reports[u][j].antenna_data[b].occasion
    BY DEF OccasionReportedOnce
  <2> DEFINE r == reports[u][i].antenna_data[a]
             s == reports[u][j].antenna_data[b]
  <2>1. r.tx = 1 /\ s.tx = 1 /\ r \in Sample /\ s \in Sample
    <3>1. reports[u] \in Seq(UeData)
      BY DEF Ordered, Inv, TypeOK
    <3>2. reports[u][i] \in UeData /\ reports[u][j] \in UeData
      BY <3>1
    <3> QED
      BY <3>2 DEF OneTxPort, UeData, Held
  <2>2. Before(r, s) \/ Before(s, r)
    BY DEF Ordered, OrderInv, ReportsFollowOccasions
  <2> HIDE DEF r, s
  <2>3. r.occasion # s.occasion
    BY <2>1, <2>2 DEF Before, Sample
  <2> QED
    BY <2>3 DEF r, s
<1>2. Spec => []OneTxPort
  BY OneTxPortAlways
<1> QED
  BY <1>1, <1>2, OrderAlways, PTL

-----------------------------------------------------------------------------
(* Between two occasions of a UE, what waits complete is the last capture,   *)
(* and when nothing does it was the last snapshot handed over.             *)
LastKept(u) ==
  Quiet(u) =>
    /\ IsComplete(pending[u]) => OfOccasion(pending[u], captured[u])
    /\ captured[u] > 0 /\ ~IsComplete(pending[u]) =>
         reports[u] # <<>> /\ OfOccasion(LastReport(u), captured[u])

(* Nothing is captured before the collector is registered. *)
LastInv == /\ \A u \in Rntis : LastKept(u)
           /\ ~registered => \A u \in Rntis : captured[u] = 0

LEMMA LastStays ==
  ASSUME NEW u \in Rntis, LastKept(u), Quiet(u)' => Quiet(u), pending'[u] = pending[u],
         reports'[u] = reports[u], captured'[u] = captured[u]
  PROVE  LastKept(u)'
BY DEF LastKept, LastReport

LEMMA LastDrain ==
  ASSUME Inv, LastInv, Drain
  PROVE  LastInv'
<1>1. worker' = worker /\ captured' = captured /\ registered' = registered
  BY DEF Drain
<1>2. \A u \in Rntis :
        /\ reports[u] \in Seq(UeData) /\ pending[u] \in UeData
        /\ IF IsComplete(pending[u])
           THEN /\ pending'[u] = NoUeData
                /\ reports'[u] = Append(reports[u], pending[u])
           ELSE pending'[u] = pending[u] /\ reports'[u] = reports[u]
  BY DEF Drain, WithoutComplete, CompleteUes, Inv, TypeOK
<1>3. \A u \in Rntis : Quiet(u)' <=> Quiet(u)
  BY <1>1 DEF Quiet, Busy
<1>4. ASSUME NEW u \in Rntis
      PROVE  LastKept(u)'
  <2>1. CASE ~IsComplete(pending[u])
    BY <1>1, <1>2, <1>3, <2>1, LastStays DEF LastInv
  <2>2. CASE IsComplete(pending[u])
    <3>1. Quiet(u)' => OfOccasion(pending[u], captured'[u])
      BY <1>1, <1>3, <2>2 DEF LastInv, LastKept
    <3>2. reports'[u] # <<>> /\ reports'[u][Len(reports'[u])] = pending[u]
      BY <1>2, <2>2
    <3>3. ~IsComplete(pending'[u])
      BY <1>2, <2>2, NoUeDataType, EmptyIsNotComplete
    <3> QED
      BY <3>1, <3>2, <3>3 DEF LastKept, LastReport
  <2> QED
    BY <2>1, <2>2
<1> QED
  BY <1>1, <1>4 DEF LastInv

LEMMA LastForward ==
  ASSUME IntendedUse, Inv, LastInv, NEW w \in Workers, ForwardSrs(w)
  PROVE  LastInv'
<1> DEFINE e == worker[w]
           n == NextPort(e)
<1>1. /\ Busy(w) /\ e \in Estimate /\ e.rnti \in Rntis /\ e.occasion \in Nat
      /\ reports' = reports /\ registered' = registered
      /\ worker'[w] = n /\ \A v \in Workers \ {w} : worker'[v] = worker[v]
  BY DEF ForwardSrs, Busy, Inv, TypeOK, Estimate
<1>2. \A u \in Rntis \ {e.rnti} : pending'[u] = pending[u] /\ captured'[u] = captured[u]
  BY <1>1 DEF ForwardSrs, Inv, TypeOK
<1>3. \A u \in Rntis \ {e.rnti} : Quiet(u)' => Quiet(u)
  BY <1>1 DEF Quiet, Busy
<1>4. \A u \in Rntis \ {e.rnti} : LastKept(u)'
  BY <1>1, <1>2, <1>3, LastStays DEF LastInv
<1>5. CASE ~registered
  <2>1. pending' = pending /\ captured' = captured
    BY <1>5 DEF ForwardSrs
  <2>2. \A u \in Rntis : ~IsComplete(pending[u]) /\ captured[u] = 0
    BY <1>5, EmptyIsNotComplete DEF Inv, EntriesFollowWorkers, EmptyUntilRegistered, LastInv
  <2>3. \A u \in Rntis : LastKept(u)'
    BY <2>1, <2>2 DEF LastKept
  <2> QED
    BY <1>1, <1>5, <2>1, <2>3 DEF LastInv
<1>6. CASE registered
  <2>1. ASSUME NEW u \in Rntis, u = e.rnti, Quiet(u)'
        PROVE  IsComplete(pending'[u]) /\ OfOccasion(pending'[u], captured'[u])
    <3>1. n = Idle
      <4> SUFFICES ASSUME n # Idle PROVE FALSE
        OBVIOUS
      <4>1. Busy(w)' /\ worker'[w].rnti = u
        BY <1>1, <2>1, NextTag DEF Busy
      <4> QED
        BY <2>1, <4>1 DEF Quiet
    <3>2. captured'[u] = e.occasion
      BY <1>1, <1>6, <2>1, <3>1 DEF ForwardSrs, Inv, TypeOK
    <3>3. e.rx = NofRxPorts
      <4>1. e.rx \in 1..NofRxPorts
        BY <1>1 DEF Estimate
      <4>2. [e EXCEPT !.rx = @ + 1, !.timestamp = NoTime].occasion # Idle.occasion
        BY <1>1 DEF Estimate, Idle
      <4>3. ~(e.rx < NofRxPorts)
        BY <3>1, <4>2 DEF NextPort
      <4> QED
        BY <4>1, <4>3, PortsInRange
    <3>4. Held(pending'[u]) = AntennaIds
          /\ \A a \in AntennaIds : pending'[u].antenna_data[a] = Tag(e)
      BY <1>6, <2>1, <3>3, ForwardedEntry, AllPorts DEF Inv
    <3>5. IsComplete(pending'[u])
      BY <3>4, CompleteIsFull
    <3> QED
      BY <3>2, <3>4, <3>5 DEF OfOccasion, Tag
  <2>2. ASSUME NEW u \in Rntis, u = e.rnti PROVE LastKept(u)'
    BY <2>1, <2>2 DEF LastKept
  <2> QED
    BY <1>1, <1>4, <1>6, <2>2 DEF LastInv
<1> QED
  BY <1>5, <1>6

LEMMA LastStep ==
  ASSUME IntendedUse, Inv, LastInv, [Next]_vars
  PROVE  LastInv'
<1>1. CASE Drain
  BY <1>1, LastDrain
<1>2. ASSUME NEW w \in Workers, ForwardSrs(w)
      PROVE  LastInv'
  BY <1>2, LastForward
<1>3. ASSUME pending' = pending, reports' = reports, captured' = captured,
             registered => registered', \A u \in Rntis : Quiet(u)' => Quiet(u)
      PROVE  LastInv'
  BY <1>3, LastStays DEF LastInv
<1>4. ASSUME NEW w \in Workers, NEW u \in Rntis, StartEstimate(w, u)
      PROVE  LastInv'
  <2>1. ~Busy(w) /\ \A v \in Workers \ {w} : worker'[v] = worker[v]
    BY <1>4 DEF StartEstimate, Inv, TypeOK
  <2>2. \A x \in Rntis : Quiet(x)' => Quiet(x)
    BY <2>1 DEF Quiet, Busy
  <2> QED
    BY <1>3, <1>4, <2>2 DEF StartEstimate
<1>5. ASSUME NEW w \in Workers, ReadTimestamp(w)
      PROVE  LastInv'
  <2>1. \A x \in Rntis : Quiet(x)' => Quiet(x)
    BY <1>5, ReadKeepsPlace DEF Quiet, Inv
  <2> QED
    BY <1>3, <1>5, <2>1 DEF ReadTimestamp
<1>6. ASSUME NEW u \in Rntis, Take(u)
      PROVE  LastInv'
  BY <1>6 DEF Take, IntendedUse
<1>7. CASE Cleanup
  BY <1>7 DEF Cleanup, IntendedUse
<1>8. CASE RegisterCollector \/ Tick \/ StepClockBack \/ UNCHANGED vars
  BY <1>3, <1>8 DEF RegisterCollector, Tick, StepClockBack, vars, Quiet, Busy
<1> QED
  BY <1>1, <1>2, <1>4, <1>5, <1>6, <1>7, <1>8 DEF Next

(* Used as intended, the last occasion captured in full waits in the        *)
(* collector, or it was the last one handed over.                          *)
THEOREM LastCaptureKept == IntendedUse => (Spec => []LastCaptureAvailable)
<1> SUFFICES ASSUME IntendedUse PROVE Spec => []LastCaptureAvailable
  OBVIOUS
<1>1. Init => LastInv
  BY NoUeDataType, EmptyIsNotComplete DEF Init, LastInv, LastKept
<1>2. Inv /\ LastInv /\ [Next]_vars => LastInv'
  BY LastStep
<1>3. LastInv => LastCaptureAvailable
  BY DEF LastInv, LastKept, LastCaptureAvailable
<1> QED
  BY <1>1, <1>2, <1>3, InvAlways, PTL DEF Spec

-----------------------------------------------------------------------------
(***************************************************************************)
(* The collector implements the box.  Registration, the clock and the      *)
(* steps of estimate() that forward nothing leave the box alone; draining  *)
(* collects; a forwarded port publishes when it completes the entry,       *)
(* withdraws when it starts the next one over a complete entry, and is not *)
(* seen otherwise.                                                         *)
(***************************************************************************)

(* The sample a whole entry is known by is one of its own. *)
LEMMA OriginOfWhole ==
  ASSUME NEW ue \in UeData, Held(ue) = AntennaIds
  PROVE  /\ Origin(ue) \in Sample /\ Origin(ue) # NoSample
         /\ RxPorts[NofRxPorts] \in Held(ue)
         /\ Origin(ue) = ue.antenna_data[RxPorts[NofRxPorts]]
<1>1. RxPorts[NofRxPorts] \in AntennaIds
  BY PortsInRange
<1> QED
  BY <1>1 DEF Origin, Held, UeData

LEMMA BoxInit == Init => Box!Init
<1> SUFFICES ASSUME Init PROVE Box!Init
  OBVIOUS
<1>1. \A u \in Rntis : ~IsComplete(pending[u]) /\ reports[u] = <<>>
  BY NoUeDataType, EmptyIsNotComplete DEF Init
<1>2. LatestWhole = [u \in Rntis |-> NoSample]
  BY <1>1 DEF LatestWhole
<1>3. Collected = [u \in Rntis |-> <<>>]
  BY <1>1 DEF Collected
<1> QED
  BY <1>2, <1>3 DEF Box!Init, Box!NoSample, NoSample

LEMMA BoxSame ==
  ASSUME pending' = pending, reports' = reports
  PROVE  UNCHANGED Box!box
BY DEF Box!box, LatestWhole, Collected

LEMMA BoxDrain ==
  ASSUME IntendedUse, Inv, Drain
  PROVE  Box!Collect
<1>1. \A u \in Rntis :
        /\ reports[u] \in Seq(UeData) /\ pending[u] \in UeData
        /\ IF IsComplete(pending[u])
           THEN /\ pending'[u] = NoUeData
                /\ reports'[u] = Append(reports[u], pending[u])
           ELSE pending'[u] = pending[u] /\ reports'[u] = reports[u]
  BY DEF Drain, WithoutComplete, CompleteUes, Inv, TypeOK
<1>2. \A u \in Rntis : ~IsComplete(pending'[u])
  BY <1>1, NoUeDataType, EmptyIsNotComplete
<1>3. LatestWhole' = [u \in Rntis |-> NoSample]
  BY <1>2 DEF LatestWhole
<1>4. ASSUME NEW u \in Rntis
      PROVE  Collected'[u] = IF LatestWhole[u] = NoSample THEN Collected[u]
                             ELSE Append(Collected[u], LatestWhole[u])
  <2> DEFINE r == reports[u]
             p == pending[u]
  <2>1. CASE ~IsComplete(p)
    BY <1>1, <2>1 DEF Collected, LatestWhole
  <2>2. CASE IsComplete(p)
    <3>1. Held(p) = AntennaIds /\ p \in UeData /\ r \in Seq(UeData)
      BY <1>1, <2>2, CompleteIsWhole DEF Inv
    <3>2. LatestWhole[u] = Origin(p) /\ Origin(p) # NoSample
      BY <2>2, <3>1, OriginOfWhole DEF LatestWhole
    <3>3. Collected[u] = [i \in 1..Len(r) |-> Origin(r[i])]
      BY DEF Collected
    <3>4. Collected'[u] = [i \in 1..Len(Append(r, p)) |-> Origin(Append(r, p)[i])]
      BY <1>1, <2>2 DEF Collected
    <3> HIDE DEF r, p
    <3>5. [i \in 1..Len(Append(r, p)) |-> Origin(Append(r, p)[i])]
            = Append([i \in 1..Len(r) |-> Origin(r[i])], Origin(p))
      BY <3>1
    <3> QED
      BY <3>2, <3>3, <3>4, <3>5
  <2> QED
    BY <2>1, <2>2
<1>5. Collected' = [u \in Rntis |-> IF LatestWhole[u] = NoSample THEN Collected[u]
                                    ELSE Append(Collected[u], LatestWhole[u])]
  BY <1>4 DEF Collected
<1> QED
  BY <1>3, <1>5 DEF Box!Collect, Box!NoSample, NoSample

LEMMA BoxForward ==
  ASSUME IntendedUse, Inv, OrderInv, NEW w \in Workers, ForwardSrs(w), registered
  PROVE  \/ \E u \in Rntis : Box!Publish(u) \/ Box!Withdraw(u)
         \/ UNCHANGED Box!box
<1>1. PICK e \in Estimate : e = worker[w]
  BY DEF ForwardSrs, Busy, Inv, TypeOK
<1>2. PICK u \in Rntis : u = e.rnti
  BY DEF Estimate
<1>3. /\ Busy(w) /\ pending'[u] \in UeData /\ pending[u] \in UeData
      /\ Held(pending'[u]) = {RxPorts[i] : i \in 1..e.rx}
      /\ \A a \in Held(pending'[u]) : pending'[u].antenna_data[a] = Tag(e)
      /\ \A v \in Rntis \ {u} : pending'[v] = pending[v]
      /\ reports' = reports
  BY <1>1, <1>2, ForwardedEntry DEF Inv, TypeOK, ForwardSrs
<1>4. Collected' = Collected
  BY <1>3 DEF Collected
<1>5. LatestWhole' = [LatestWhole EXCEPT ![u] = LatestWhole'[u]]
  BY <1>3 DEF LatestWhole
<1>6. CASE IsComplete(pending'[u])
  <2>1. LatestWhole'[u] = Tag(e) /\ Tag(e) \in Sample /\ Before(NoSample, Tag(e))
    <3>1. LatestWhole'[u] = Origin(pending'[u]) /\ Held(pending'[u]) = AntennaIds
      BY <1>6, CompleteIsFull DEF LatestWhole
    <3>2. Origin(pending'[u]) = Tag(e)
      BY <1>3, <3>1, OriginOfWhole
    <3> QED
      BY <3>1, <3>2 DEF Tag, Sample, Estimate, Before, NoSample
  <2>2. Before(LatestWhole[u], Tag(e))
    <3>1. CASE ~IsComplete(pending[u])
      BY <2>1, <3>1 DEF LatestWhole
    <3>2. CASE IsComplete(pending[u])
      <4>1. e.rx = 1
        <5> SUFFICES ASSUME e.rx # 1 PROVE FALSE
          OBVIOUS
        <5>1. EntryFollows(e)
          BY <1>1, <1>3 DEF Inv, EntriesFollowWorkers
        <5> QED
          BY <1>2, <3>2, <5>1, PartialIsNotComplete DEF EntryFollows
      <4>2. EntryBeforeTag(pending[u], Tag(e))
        BY <1>1, <1>2, <1>3, <4>1 DEF OrderInv, EntryBeforeWorkers
      <4>3. LatestWhole[u] = Origin(pending[u]) /\ Held(pending[u]) = AntennaIds
        BY <3>2, CompleteIsFull DEF LatestWhole
      <4> QED
        BY <1>3, <4>2, <4>3, OriginOfWhole DEF EntryBeforeTag
    <3> QED
      BY <3>1, <3>2
  <2>3. ASSUME NEW i \in 1..Len(Collected[u])
        PROVE  Before(Collected[u][i], Tag(e))
    <3>1. reports[u] \in Seq(UeData)
      BY DEF Inv, TypeOK
    <3>2. i \in 1..Len(reports[u]) /\ Collected[u][i] = Origin(reports[u][i])
      BY <3>1 DEF Collected
    <3>3. reports[u][i] \in UeData
      BY <3>1, <3>2
    <3>4. Held(reports[u][i]) = AntennaIds
      BY <3>2 DEF Inv, SnapshotsWhole, SnapshotCoversEveryAntenna
    <3>5. EntryBeforeTag(reports[u][i], Tag(e))
      BY <1>1, <1>2, <1>3, <3>2 DEF OrderInv, ReportsBeforeWorkers
    <3> QED
      BY <3>2, <3>3, <3>4, <3>5, OriginOfWhole DEF EntryBeforeTag
  <2>4. Box!Publish(u)
    BY <1>4, <1>5, <2>1, <2>2, <2>3
    DEF Box!Publish, Box!Sample, Sample, Box!Before, Before
  <2> QED
    BY <2>4
<1>7. CASE ~IsComplete(pending'[u])
  <2>1. LatestWhole'[u] = NoSample
    BY <1>7 DEF LatestWhole
  <2>2. Box!Withdraw(u)
    BY <1>4, <1>5, <2>1 DEF Box!Withdraw, Box!NoSample, NoSample
  <2> QED
    BY <2>2
<1> QED
  BY <1>6, <1>7

LEMMA BoxStep ==
  ASSUME IntendedUse, Inv, OrderInv, [Next]_vars
  PROVE  [Box!Next]_(Box!box)
<1>1. CASE Drain
  BY <1>1, BoxDrain DEF Box!Next
<1>2. ASSUME NEW w \in Workers, ForwardSrs(w)
      PROVE  [Box!Next]_(Box!box)
  <2>1. CASE registered
    BY <1>2, <2>1, BoxForward DEF Box!Next
  <2>2. CASE ~registered
    BY <1>2, <2>2, BoxSame DEF ForwardSrs
  <2> QED
    BY <2>1, <2>2
<1>3. ASSUME NEW w \in Workers, NEW u \in Rntis, StartEstimate(w, u)
      PROVE  [Box!Next]_(Box!box)
  BY <1>3, BoxSame DEF StartEstimate
<1>4. ASSUME NEW w \in Workers, ReadTimestamp(w)
      PROVE  [Box!Next]_(Box!box)
  BY <1>4, BoxSame DEF ReadTimestamp
<1>5. ASSUME NEW u \in Rntis, Take(u)
      PROVE  [Box!Next]_(Box!box)
  BY <1>5 DEF Take, IntendedUse
<1>6. CASE Cleanup
  BY <1>6 DEF Cleanup, IntendedUse
<1>7. CASE RegisterCollector \/ Tick \/ StepClockBack \/ UNCHANGED vars
  BY <1>7, BoxSame DEF RegisterCollector, Tick, StepClockBack, vars
<1> QED
  BY <1>1, <1>2, <1>3, <1>4, <1>5, <1>6, <1>7 DEF Next

(* Used as intended, the collector, filled antenna by antenna by the PHY    *)
(* workers and emptied from other threads, is seen by its readers as a box *)
(* with at most one whole snapshot per UE, collected in order.             *)
THEOREM CollectorIsBox == IntendedUse => (Spec => ImplementsSnapshotBox)
<1> SUFFICES ASSUME IntendedUse PROVE Spec => Box!Spec
  BY DEF ImplementsSnapshotBox
<1>1. Init => Box!Init
  BY BoxInit
<1>2. Inv /\ OrderInv /\ [Next]_vars => [Box!Next]_(Box!box)
  BY BoxStep
<1>3. Spec => []Inv /\ []OrderInv
  BY InvAlways, OrderAlways, PTL DEF Ordered
<1> QED
  BY <1>1, <1>2, <1>3, PTL DEF Spec, Box!Spec
=============================================================================
