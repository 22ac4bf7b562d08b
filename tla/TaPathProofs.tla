---------------------------- MODULE TaPathProofs ----------------------------
(***************************************************************************)
(* Theorems about the timing-advance stream, for any subscriptions, UEs    *)
(* and bounds: about the store and the report services (TaReport), and     *)
(* about the path from the MAC to the messages of the xApp (TaPath).       *)
(***************************************************************************)
EXTENDS TaPath, SequenceLemmas

Record == 1..MaxRecords

-----------------------------------------------------------------------------
(* The variables keep values of their types. *)
LEMMA TaTypeInit == Init => TypeOK
BY TaFlagsAssumption DEF Init, TypeOK

LEMMA TaTypeStep == TypeOK /\ [Next]_vars => TypeOK'
<1> SUFFICES ASSUME TypeOK, [Next]_vars PROVE TypeOK'
  OBVIOUS
<1> USE DEF TypeOK
<1>1. CASE push_ta_indication
  <2>1. pushed + 1 \in Record
    BY <1>1, TaFlagsAssumption DEF push_ta_indication, Record
  <2> QED
    BY <1>1, <2>1, TaFlagsAssumption DEF push_ta_indication, Record
<1>2. ASSUME NEW s \in Services, Subscribe(s)
      PROVE  TypeOK'
  BY <1>2 DEF Subscribe
<1>3. ASSUME NEW s \in Services, Unsubscribe(s)
      PROVE  TypeOK'
  <2>1. ToSet(records[s]) \subseteq 1..MaxRecords
    BY ToSetType
  <2>2. cancelled' \subseteq 1..MaxRecords
    BY <1>3, <2>1 DEF Unsubscribe
  <2>3. records' \in [Services -> Seq(1..MaxRecords)] /\ ready' \in [Services -> BOOLEAN]
    BY <1>3 DEF Unsubscribe
  <2> QED
    BY <1>3, <2>2, <2>3 DEF Unsubscribe
<1>4. ASSUME NEW s \in Services, collect_measurements(s)
      PROVE  TypeOK'
  BY <1>4 DEF collect_measurements
<1>5. ASSUME NEW s \in Services, get_indication_message(s)
      PROVE  TypeOK'
  <2>1. ToSet(records[s]) \subseteq 1..MaxRecords
    BY ToSetType
  <2>2. UNCHANGED <<ta_records, pushed, live, cancelled>>
        /\ ready' = [ready EXCEPT ![s] = FALSE]
    BY <1>5 DEF get_indication_message
  <2>3. CASE /\ indications' = [indications EXCEPT ![s] = Append(@, records[s])]
             /\ records' = [records EXCEPT ![s] = <<>>] /\ UNCHANGED failed
    <3>1. Append(indications[s], records[s]) \in Seq(Seq(1..MaxRecords))
      OBVIOUS
    <3>2. <<>> \in Seq(1..MaxRecords)
      OBVIOUS
    <3> QED
      BY <2>2, <2>3, <3>1, <3>2
  <2>4. CASE UNCHANGED <<records, indications>> /\ failed' = failed \cup ToSet(records[s])
    BY <2>1, <2>2, <2>4
  <2> QED
    BY <1>5, <2>3, <2>4 DEF get_indication_message
<1>6. CASE UNCHANGED vars
  BY <1>6 DEF vars
<1> QED
  BY <1>1, <1>2, <1>3, <1>4, <1>5, <1>6 DEF Next

LEMMA TaTypeCorrect == Spec => []TypeOK
BY TaTypeInit, TaTypeStep, PTL DEF Spec

(* All that is held or sent is a sequence of numbers. *)
LEMMA SequenceTypes ==
  ASSUME TypeOK
  PROVE  /\ ta_records \in Seq(Record) /\ ta_records \in Seq(Nat)
         /\ pushed \in Nat /\ Record \subseteq Nat
         /\ \A s \in Services : /\ records[s] \in Seq(Record) /\ records[s] \in Seq(Nat)
                                /\ indications[s] \in Seq(Seq(Record))
                                /\ Sent(s) \in Seq(Record) /\ Sent(s) \in Seq(Nat)
<1>1. Record \subseteq Nat
  BY DEF Record
<1>2. \A q : q \in Seq(Record) => q \in Seq(Nat)
  BY <1>1, SeqOfSubset
<1>3. /\ ta_records \in Seq(Record) /\ pushed \in Nat
      /\ \A s \in Services : records[s] \in Seq(Record) /\ indications[s] \in Seq(Seq(Record))
  BY TaFlagsAssumption DEF TypeOK, Record
<1>4. \A s \in Services : Sent(s) \in Seq(Record)
  BY <1>3, FlattenType DEF Sent
<1> QED
  BY <1>1, <1>2, <1>3, <1>4

(* An indication that is written carries the records of its service. *)
LEMMA SentGrows ==
  ASSUME TypeOK, NEW s \in Services, get_indication_message(s)
  PROVE  \/ /\ Sent(s)' = Sent(s) \o records[s]
            /\ \A t \in Services \ {s} : Sent(t)' = Sent(t)
            /\ records' = [records EXCEPT ![s] = <<>>] /\ UNCHANGED failed
         \/ /\ \A t \in Services : Sent(t)' = Sent(t)
            /\ failed' = failed \cup ToSet(records[s]) /\ UNCHANGED <<records, indications>>
<1>1. CASE /\ indications' = [indications EXCEPT ![s] = Append(@, records[s])]
           /\ records' = [records EXCEPT ![s] = <<>>] /\ UNCHANGED failed
  <2>1. /\ indications'[s] = Append(indications[s], records[s])
        /\ \A t \in Services \ {s} : indications'[t] = indications[t]
    BY <1>1 DEF TypeOK
  <2>2. FlattenSeq(indications'[s]) = FlattenSeq(indications[s]) \o records[s]
    BY <2>1, SequenceTypes, FlattenAppend
  <2> QED
    BY <1>1, <2>1, <2>2 DEF Sent
<1>2. CASE UNCHANGED <<records, indications>> /\ failed' = failed \cup ToSet(records[s])
  BY <1>2 DEF Sent
<1> QED
  BY <1>1, <1>2 DEF get_indication_message

-----------------------------------------------------------------------------
(***************************************************************************)
(* Why observations are sent in order and to one subscriber: everything    *)
(* that was sent, is held by a service or waits in the store is in order,  *)
(* a service's records are later than what it sent, the store's are later  *)
(* than both, no two services have a record in common, and no record is    *)
(* ahead of the last one pushed.                                           *)
(***************************************************************************)
StoreInv == Increasing(ta_records) /\ UpTo(ta_records, pushed)

ServiceInv(s) ==
  /\ Increasing(Sent(s)) /\ Increasing(records[s]) /\ Precede(Sent(s), records[s])
  /\ Precede(Sent(s), ta_records) /\ Precede(records[s], ta_records)
  /\ UpTo(Sent(s), pushed) /\ UpTo(records[s], pushed)

Exclusive(s, t) ==
  /\ Apart(Sent(s), Sent(t)) /\ Apart(Sent(s), records[t]) /\ Apart(records[s], records[t])

OrderInv == /\ StoreInv
            /\ \A s \in Services : ServiceInv(s)
            /\ \A s, t \in Services : s # t => Exclusive(s, t)

LEMMA OrderInit == Init => OrderInv
<1> SUFFICES ASSUME Init PROVE OrderInv
  OBVIOUS
<1>1. ta_records = <<>> /\ \A s \in Services : records[s] = <<>> /\ Sent(s) = <<>>
  BY FlattenEmpty DEF Init, Sent
<1> QED
  BY <1>1, EmptyRelated DEF OrderInv, StoreInv, ServiceInv, Exclusive

LEMMA OrderPush ==
  ASSUME TypeOK, OrderInv, push_ta_indication
  PROVE  OrderInv'
<1>1. /\ ta_records' = Append(ta_records, pushed + 1) /\ pushed' = pushed + 1
      /\ records' = records /\ indications' = indications
  BY DEF push_ta_indication
<1>2. \A s \in Services : Sent(s)' = Sent(s)
  BY <1>1 DEF Sent
<1>3. StoreInv'
  BY <1>1, SequenceTypes, AppendRelated DEF OrderInv, StoreInv
<1>4. ASSUME NEW s \in Services
      PROVE  ServiceInv(s)'
  <2>1. UpTo(Sent(s), pushed + 1) /\ UpTo(records[s], pushed + 1)
    BY SequenceTypes, AppendRelated DEF OrderInv, ServiceInv
  <2>2. /\ Precede(Sent(s), Append(ta_records, pushed + 1))
        /\ Precede(records[s], Append(ta_records, pushed + 1))
    BY SequenceTypes, AppendRelated DEF OrderInv, StoreInv, ServiceInv
  <2> QED
    BY <1>1, <1>2, <2>1, <2>2 DEF OrderInv, ServiceInv
<1>5. \A s, t \in Services : s # t => Exclusive(s, t)'
  BY <1>1, <1>2 DEF OrderInv, Exclusive
<1> QED
  BY <1>3, <1>4, <1>5 DEF OrderInv

LEMMA OrderDrop ==
  ASSUME TypeOK, OrderInv, NEW s \in Services, Unsubscribe(s)
  PROVE  OrderInv'
<1>1. /\ ta_records' = ta_records /\ pushed' = pushed /\ indications' = indications
      /\ records'[s] = <<>> /\ \A t \in Services \ {s} : records'[t] = records[t]
  BY DEF Unsubscribe, TypeOK
<1>2. \A t \in Services : Sent(t)' = Sent(t)
  BY <1>1 DEF Sent
<1>3. \A t \in Services : ServiceInv(t)'
  BY <1>1, <1>2, EmptyRelated DEF OrderInv, ServiceInv
<1>4. \A t, v \in Services : t # v => Exclusive(t, v)'
  BY <1>1, <1>2, EmptyRelated DEF OrderInv, Exclusive
<1> QED
  BY <1>1, <1>3, <1>4 DEF OrderInv, StoreInv

(* What a drain takes is later than all that was sent or is held. *)
LEMMA OrderCollect ==
  ASSUME TypeOK, OrderInv, NEW s \in Services, collect_measurements(s)
  PROVE  OrderInv'
<1>1. /\ ta_records' = <<>> /\ pushed' = pushed /\ indications' = indications
      /\ records'[s] = ta_records /\ \A t \in Services \ {s} : records'[t] = records[t]
  BY DEF collect_measurements, TypeOK
<1>2. \A t \in Services : Sent(t)' = Sent(t)
  BY <1>1 DEF Sent
<1>3. ASSUME NEW q \in Seq(Nat), Precede(q, ta_records)
      PROVE  Apart(q, ta_records) /\ Apart(ta_records, q)
  BY <1>3, SequenceTypes, PrecedeApart
<1>4. \A t \in Services : ServiceInv(t)'
  BY <1>1, <1>2, EmptyRelated DEF OrderInv, ServiceInv, StoreInv
<1>5. ASSUME NEW t \in Services, NEW v \in Services, t # v
      PROVE  Exclusive(t, v)'
  <2>1. /\ Apart(Sent(t), ta_records) /\ Apart(records[t], ta_records)
        /\ Apart(ta_records, records[v])
    BY <1>3, SequenceTypes DEF OrderInv, ServiceInv
  <2> QED
    BY <1>1, <1>2, <1>5, <2>1 DEF OrderInv, Exclusive
<1> QED
  BY <1>1, <1>4, <1>5, EmptyRelated DEF OrderInv, StoreInv

(* What is sent is later than what was sent, and earlier than the store. *)
LEMMA OrderGet ==
  ASSUME TypeOK, OrderInv, NEW s \in Services, get_indication_message(s)
  PROVE  OrderInv'
<1>1. ta_records' = ta_records /\ pushed' = pushed
  BY DEF get_indication_message
<1>2. CASE /\ Sent(s)' = Sent(s) \o records[s]
           /\ \A t \in Services \ {s} : Sent(t)' = Sent(t)
           /\ records' = [records EXCEPT ![s] = <<>>]
  <2>1. records'[s] = <<>> /\ \A t \in Services \ {s} : records'[t] = records[t]
    BY <1>2 DEF TypeOK
  <2>2. ServiceInv(s)'
    <3>1. Increasing(Sent(s) \o records[s])
      BY SequenceTypes, ConcatIncreasing DEF OrderInv, ServiceInv
    <3>2. Precede(Sent(s) \o records[s], ta_records) /\ UpTo(Sent(s) \o records[s], pushed)
      BY SequenceTypes, ConcatRelated DEF OrderInv, ServiceInv
    <3> QED
      BY <1>1, <1>2, <2>1, <3>1, <3>2, EmptyRelated DEF ServiceInv
  <2>3. \A t \in Services \ {s} : ServiceInv(t)'
    BY <1>1, <1>2, <2>1 DEF OrderInv, ServiceInv
  <2>4. ASSUME NEW t \in Services \ {s}
        PROVE  Exclusive(s, t)' /\ Exclusive(t, s)'
    <3>1. /\ Apart(Sent(s), Sent(t)) /\ Apart(Sent(s), records[t])
          /\ Apart(records[s], records[t]) /\ Apart(Sent(t), records[s])
      BY DEF OrderInv, Exclusive
    <3>2. Apart(records[s], Sent(t))
      BY <3>1, ApartSymmetric
    <3>3. /\ Apart(Sent(s) \o records[s], Sent(t)) /\ Apart(Sent(t), Sent(s) \o records[s])
          /\ Apart(Sent(s) \o records[s], records[t])
      BY <3>1, <3>2, SequenceTypes, ConcatRelated
    <3> QED
      BY <1>2, <2>1, <3>3, EmptyRelated DEF Exclusive
  <2>5. \A t, v \in Services \ {s} : t # v => Exclusive(t, v)'
    BY <1>2, <2>1 DEF OrderInv, Exclusive
  <2> QED
    BY <1>1, <2>2, <2>3, <2>4, <2>5 DEF OrderInv, StoreInv
<1>3. CASE (\A t \in Services : Sent(t)' = Sent(t)) /\ records' = records
  BY <1>1, <1>3 DEF OrderInv, StoreInv, ServiceInv, Exclusive
<1> QED
  BY <1>2, <1>3, SentGrows

LEMMA OrderStep == TypeOK /\ OrderInv /\ [Next]_vars => OrderInv'
<1> SUFFICES ASSUME TypeOK, OrderInv, [Next]_vars PROVE OrderInv'
  OBVIOUS
<1>1. CASE push_ta_indication
  BY <1>1, OrderPush
<1>2. CASE UNCHANGED <<ta_records, pushed, records, indications>>
  <2>1. \A s \in Services : Sent(s)' = Sent(s)
    BY <1>2 DEF Sent
  <2> QED
    BY <1>2, <2>1 DEF OrderInv, StoreInv, ServiceInv, Exclusive
<1>3. ASSUME NEW s \in Services, Subscribe(s)
      PROVE  OrderInv'
  BY <1>2, <1>3 DEF Subscribe
<1>4. ASSUME NEW s \in Services, Unsubscribe(s)
      PROVE  OrderInv'
  BY <1>4, OrderDrop
<1>5. ASSUME NEW s \in Services, collect_measurements(s)
      PROVE  OrderInv'
  BY <1>5, OrderCollect
<1>6. ASSUME NEW s \in Services, get_indication_message(s)
      PROVE  OrderInv'
  BY <1>6, OrderGet
<1>7. CASE UNCHANGED vars
  BY <1>2, <1>7 DEF vars
<1> QED
  BY <1>1, <1>3, <1>4, <1>5, <1>6, <1>7 DEF Next

LEMMA OrderGivesSent == OrderInv => SentInOrder
BY DEF OrderInv, ServiceInv, Exclusive, Increasing, Apart, SentInOrder

-----------------------------------------------------------------------------
(***************************************************************************)
(* Why no observation is lost without a trace.  Accounted(n) says where    *)
(* the observation n is.  What a service holds when it is not about to     *)
(* send is what an indication that could not be written left there: only  *)
(* then may the next drain replace it.                                     *)
(***************************************************************************)
Accounted(n) ==
  \/ n \in ToSet(ta_records)
  \/ \E s \in Services : n \in ToSet(records[s]) \/ n \in ToSet(Sent(s))
  \/ n \in cancelled \/ n \in failed

AccountInv ==
  /\ \A n : n \in 1..pushed <=> Accounted(n)
  /\ \A s \in Services : ~ready[s] => ToSet(records[s]) \subseteq failed

LEMMA AccountGives == AccountInv => ObservationsAccountedFor
BY DEF AccountInv, Accounted, ObservationsAccountedFor, Kept, Emitted

LEMMA AccountInit == Init => AccountInv
<1> SUFFICES ASSUME Init PROVE AccountInv
  OBVIOUS
<1>1. ta_records = <<>> /\ pushed = 0 /\ cancelled = {} /\ failed = {}
      /\ \A s \in Services : records[s] = <<>> /\ Sent(s) = <<>>
  BY FlattenEmpty DEF Init, Sent
<1>2. ToSet(<<>>) = {} /\ 1..0 = {}
  BY ToSetEmpty
<1> QED
  BY <1>1, <1>2, Zenon DEF AccountInv, Accounted

LEMMA AccountPush ==
  ASSUME TypeOK, AccountInv, push_ta_indication
  PROVE  AccountInv'
<1>1. /\ ta_records' = Append(ta_records, pushed + 1) /\ pushed' = pushed + 1
      /\ UNCHANGED <<records, indications, ready, cancelled, failed>>
  BY DEF push_ta_indication
<1>2. \A s \in Services : Sent(s)' = Sent(s)
  BY <1>1 DEF Sent
<1>3. ToSet(Append(ta_records, pushed + 1)) = ToSet(ta_records) \cup {pushed + 1}
  BY SequenceTypes, ToSetAppend
<1>4. \A n : n \in 1..(pushed + 1) <=> n \in 1..pushed \/ n = pushed + 1
  BY SequenceTypes
<1>5. \A n : Accounted(n)' <=> Accounted(n) \/ n = pushed + 1
  BY <1>1, <1>2, <1>3, Zenon DEF Accounted
<1>6. \A n : n \in 1..pushed' <=> Accounted(n)'
  BY <1>1, <1>4, <1>5, Zenon DEF AccountInv
<1> QED
  BY <1>1, <1>6 DEF AccountInv

LEMMA AccountDrop ==
  ASSUME TypeOK, AccountInv, NEW s \in Services, Unsubscribe(s)
  PROVE  AccountInv'
<1>1. /\ UNCHANGED <<ta_records, pushed, indications, failed>>
      /\ cancelled' = cancelled \cup ToSet(records[s])
      /\ records'[s] = <<>> /\ \A t \in Services \ {s} : records'[t] = records[t]
      /\ \A t \in Services \ {s} : ready'[t] = ready[t]
  BY DEF Unsubscribe, TypeOK
<1>2. \A t \in Services : Sent(t)' = Sent(t)
  BY <1>1 DEF Sent
<1>3. ToSet(<<>>) = {}
  BY ToSetEmpty
<1>4. ASSUME NEW n
      PROVE  Accounted(n)' <=> Accounted(n)
  <2>1. CASE n \in ToSet(records[s])
    BY <1>1, <2>1, Zenon DEF Accounted
  <2>2. CASE n \notin ToSet(records[s])
    <3>1. \A t \in Services : n \in ToSet(records'[t]) <=> n \in ToSet(records[t])
      BY <1>1, <1>3, <2>2
    <3> QED
      BY <1>1, <1>2, <2>2, <3>1, Zenon DEF Accounted
  <2> QED
    BY <2>1, <2>2
<1>5. \A n : n \in 1..pushed' <=> Accounted(n)'
  BY <1>1, <1>4, Zenon DEF AccountInv
<1> QED
  BY <1>1, <1>3, <1>5 DEF AccountInv

LEMMA AccountCollect ==
  ASSUME TypeOK, AccountInv, NEW s \in Services, collect_measurements(s)
  PROVE  AccountInv'
<1>1. /\ UNCHANGED <<pushed, indications, cancelled, failed>>
      /\ ~ready[s] /\ ta_records' = <<>> /\ records'[s] = ta_records
      /\ \A t \in Services \ {s} : records'[t] = records[t] /\ ready'[t] = ready[t]
      /\ ~ready'[s] => ta_records = <<>>
  BY DEF collect_measurements, TypeOK
<1>2. \A t \in Services : Sent(t)' = Sent(t)
  BY <1>1 DEF Sent
<1>3. ToSet(<<>>) = {} /\ ToSet(records[s]) \subseteq failed
  BY <1>1, ToSetEmpty DEF AccountInv
<1>4. ASSUME NEW n
      PROVE  Accounted(n)' <=> Accounted(n)
  <2>1. (\E t \in Services : n \in ToSet(records'[t]))
          <=> n \in ToSet(ta_records) \/ \E t \in Services \ {s} : n \in ToSet(records[t])
    BY <1>1
  <2>2. n \in ToSet(records[s]) => n \in failed
    BY <1>3
  <2> QED
    BY <1>1, <1>2, <1>3, <2>1, <2>2, Zenon DEF Accounted
<1>5. \A n : n \in 1..pushed' <=> Accounted(n)'
  BY <1>1, <1>4, Zenon DEF AccountInv
<1> QED
  BY <1>1, <1>3, <1>5 DEF AccountInv

LEMMA AccountGet ==
  ASSUME TypeOK, AccountInv, NEW s \in Services, get_indication_message(s)
  PROVE  AccountInv'
<1>1. /\ UNCHANGED <<ta_records, pushed, cancelled>>
      /\ \A t \in Services \ {s} : ready'[t] = ready[t]
  BY DEF get_indication_message, TypeOK
<1>2. CASE /\ Sent(s)' = Sent(s) \o records[s]
           /\ \A t \in Services \ {s} : Sent(t)' = Sent(t)
           /\ records' = [records EXCEPT ![s] = <<>>] /\ UNCHANGED failed
  <2>1. records'[s] = <<>> /\ \A t \in Services \ {s} : records'[t] = records[t]
    BY <1>2 DEF TypeOK
  <2>2. ToSet(<<>>) = {} /\ ToSet(Sent(s) \o records[s]) = ToSet(Sent(s)) \cup ToSet(records[s])
    BY SequenceTypes, ToSetEmpty, ToSetConcat
  <2>3. ASSUME NEW n
        PROVE  (\E t \in Services : n \in ToSet(records'[t]) \/ n \in ToSet(Sent(t)'))
                 <=> \E t \in Services : n \in ToSet(records[t]) \/ n \in ToSet(Sent(t))
    BY <1>2, <2>1, <2>2
  <2>4. \A n : n \in 1..pushed' <=> Accounted(n)'
    BY <1>1, <1>2, <2>3, Zenon DEF AccountInv, Accounted
  <2> QED
    BY <1>1, <1>2, <2>1, <2>2, <2>4 DEF AccountInv
<1>3. CASE /\ \A t \in Services : Sent(t)' = Sent(t)
           /\ failed' = failed \cup ToSet(records[s]) /\ UNCHANGED <<records, indications>>
  <2>1. \A n : Accounted(n)' <=> Accounted(n)
    BY <1>1, <1>3, Zenon DEF Accounted
  <2>2. \A n : n \in 1..pushed' <=> Accounted(n)'
    BY <1>1, <2>1, Zenon DEF AccountInv
  <2> QED
    BY <1>1, <1>3, <2>2 DEF AccountInv
<1> QED
  BY <1>2, <1>3, SentGrows

LEMMA AccountStep == TypeOK /\ AccountInv /\ [Next]_vars => AccountInv'
<1> SUFFICES ASSUME TypeOK, AccountInv, [Next]_vars PROVE AccountInv'
  OBVIOUS
<1>1. CASE push_ta_indication
  BY <1>1, AccountPush
<1>2. CASE UNCHANGED <<ta_records, pushed, records, ready, indications, cancelled, failed>>
  <2>1. \A s \in Services : Sent(s)' = Sent(s)
    BY <1>2 DEF Sent
  <2> QED
    BY <1>2, <2>1 DEF AccountInv, Accounted
<1>3. ASSUME NEW s \in Services, Subscribe(s)
      PROVE  AccountInv'
  BY <1>2, <1>3 DEF Subscribe
<1>4. ASSUME NEW s \in Services, Unsubscribe(s)
      PROVE  AccountInv'
  BY <1>4, AccountDrop
<1>5. ASSUME NEW s \in Services, collect_measurements(s)
      PROVE  AccountInv'
  BY <1>5, AccountCollect
<1>6. ASSUME NEW s \in Services, get_indication_message(s)
      PROVE  AccountInv'
  BY <1>6, AccountGet
<1>7. CASE UNCHANGED vars
  BY <1>2, <1>7 DEF vars
<1> QED
  BY <1>1, <1>3, <1>4, <1>5, <1>6, <1>7 DEF Next

-----------------------------------------------------------------------------
(* On the whole path the store and the services behave as by themselves:    *)
(* the RIC and the xApp only subscribe to them and read what they sent.    *)
LEMMA PathStepIsStep == [PathNext]_pathVars => [Next]_vars
<1> SUFFICES ASSUME [PathNext]_pathVars PROVE [Next]_vars
  OBVIOUS
<1>1. CASE Gnb
  BY <1>1 DEF Gnb, Next
<1>2. ASSUME NEW s \in Services, Start(s)
      PROVE  [Next]_vars
  BY <1>2 DEF Start, Next
<1>3. CASE Restart
  BY <1>3 DEF Restart
<1>4. ASSUME NEW s \in Services, NEW p \in UnderWay(s), Deliver(s, p) \/ Lose(s, p)
      PROVE  [Next]_vars
  BY <1>4 DEF Deliver, Lose
<1>5. ASSUME NEW u \in Rntis, DeliverSnapshot(u)
      PROVE  [Next]_vars
  BY <1>5 DEF DeliverSnapshot
<1>6. CASE UNCHANGED pathVars
  BY <1>6 DEF pathVars
<1> QED
  BY <1>1, <1>2, <1>3, <1>4, <1>5, <1>6 DEF PathNext

(* The path, with subscriptions that come and go, a network and the xApp,   *)
(* does nothing that the report services alone may not do.                 *)
THEOREM PathIsReport == PathSpec => Spec
<1>1. PathInit => Init
  BY DEF PathInit
<1> QED
  BY <1>1, PathStepIsStep, PTL DEF PathSpec, Spec

(* Observations reach each subscription in the order in which they were     *)
(* pushed, and none reaches two, across drains, buffers that could not be  *)
(* written and subscriptions that come and go.                             *)
THEOREM ObservationsInOrder == PathSpec => []SentInOrder
<1>1. Spec => []OrderInv
  BY OrderInit, OrderStep, TaTypeCorrect, PTL DEF Spec
<1> QED
  BY <1>1, OrderGivesSent, PathIsReport, PTL

(* Every observation pushed waits in the store, is held, was sent, went     *)
(* with a cancelled subscription or with a buffer that could not be        *)
(* written, and nothing else is anywhere.                                  *)
THEOREM NoObservationLost == PathSpec => []ObservationsAccountedFor
<1>1. Spec => []AccountInv
  BY AccountInit, AccountStep, TaTypeCorrect, PTL DEF Spec
<1> QED
  BY <1>1, AccountGives, PathIsReport, PTL

-----------------------------------------------------------------------------
(* What the xApp's callbacks do to its state. *)
Stored == INSTANCE FoldLemmas WITH Op <- _store_timing_advance
Handled == INSTANCE FoldLemmas WITH Op <- HandleStream

Observed1 == {Observed(n) : n \in Record}

(* The SRS side of this module has antenna 0 only. *)
Samples  == [rnti : Rntis, timestamp : Nat, antenna_id : {0}]
Messages == [rnti : Rntis, timestamp : Nat, received : SUBSET Samples,
             references : SUBSET Samples, timing_advance : SUBSET Observed1]
XappState == [generated_srs_cache : SUBSET Samples, pending_received_srs : SUBSET Samples,
              completed_srs_messages : Seq(Messages), latest_timing_advance : SUBSET Observed1]

LEMMA ObservedIs ==
  ASSUME NEW n \in Record
  PROVE  LET o == ObservationOf[n]
         IN  /\ Observed(n).record = n
             /\ o.rnti # 0 => Observed(n).rnti = o.rnti
             /\ o.rnti = 0 => Observed(n).rnti = o.ue_index
BY DEF Observed, Identified

LEMMA StoringRuns ==
  ASSUME NEW x, NEW S, NEW observations \in Seq(S)
  PROVE  \E run : /\ run[0] = x
                  /\ \A k \in 0..(Len(observations) - 1) :
                       run[k + 1] = _store_timing_advance(run[k], observations[k + 1])
                  /\ timing_advance_indication_callback(x, observations)
                       = run[Len(observations)]
<1>1. timing_advance_indication_callback(x, observations) = Stored!FoldOf(x, observations)
  BY DEF timing_advance_indication_callback, Stored!FoldOf, Stored!FoldLeft, FoldLeft,
         Stored!MapThenFoldSet, MapThenFoldSet, Stored!Max, Max
<1> QED
  BY <1>1, Stored!FoldRuns

(* The dictionary of observations has, for each number that came in, the    *)
(* observation that came last, and nothing else.                           *)
Latest(dictionary, h) ==
  /\ \A o \in dictionary : \E i \in 1..Len(h) :
       o = Observed(h[i]) /\ \A j \in 1..Len(h) : i < j => Observed(h[j]).rnti # o.rnti
  /\ \A i \in 1..Len(h) : \E o \in dictionary : o.rnti = Observed(h[i]).rnti

LEMMA LatestStore ==
  ASSUME NEW x \in XappState, NEW h \in Seq(Record), NEW n \in Record,
         Latest(x.latest_timing_advance, h)
  PROVE  LET y == _store_timing_advance(x, Observed(n))
         IN  /\ y \in XappState /\ Latest(y.latest_timing_advance, Append(h, n))
             /\ y.completed_srs_messages = x.completed_srs_messages
<1> DEFINE y == _store_timing_advance(x, Observed(n))
           old == {o \in x.latest_timing_advance : o.rnti # Observed(n).rnti}
           hn == Append(h, n)
<1>1. /\ y.latest_timing_advance = old \cup {Observed(n)} /\ y \in XappState
      /\ y.completed_srs_messages = x.completed_srs_messages
  <2>1. old \cup {Observed(n)} \in SUBSET Observed1
    BY DEF XappState, Observed1
  <2>2. y = [x EXCEPT !.latest_timing_advance = old \cup {Observed(n)}]
    BY DEF _store_timing_advance
  <2> HIDE DEF old, y
  <2> QED
    BY <2>1, <2>2 DEF XappState
<1>2. /\ Len(hn) = Len(h) + 1 /\ hn[Len(h) + 1] = n /\ Len(h) \in Nat
      /\ \A i \in 1..Len(h) : hn[i] = h[i] /\ i \in 1..Len(hn) /\ i < Len(h) + 1
      /\ \A i \in 1..Len(hn) : i \in 1..Len(h) \/ i = Len(h) + 1
      /\ Len(h) + 1 \in 1..Len(hn)
      /\ \A j \in 1..Len(hn) : ~(Len(h) + 1 < j)
  OBVIOUS
<1> HIDE DEF hn
<1>3. ASSUME NEW o \in old \cup {Observed(n)}
      PROVE  \E i \in 1..Len(hn) :
               o = Observed(hn[i]) /\ \A j \in 1..Len(hn) : i < j => Observed(hn[j]).rnti # o.rnti
  <2>1. CASE o = Observed(n)
    BY <1>2, <2>1, Zenon
  <2>2. CASE o \in old
    <3>1. PICK i \in 1..Len(h) :
            o = Observed(h[i]) /\ \A j \in 1..Len(h) : i < j => Observed(h[j]).rnti # o.rnti
      BY <2>2 DEF Latest
    <3>2. \A j \in 1..Len(hn) : i < j => Observed(hn[j]).rnti # o.rnti
      BY <1>2, <2>2, <3>1
    <3> QED
      BY <1>2, <3>1, <3>2, Zenon
  <2> QED
    BY <2>1, <2>2
<1>4. ASSUME NEW i \in 1..Len(hn)
      PROVE  \E o \in old \cup {Observed(n)} : o.rnti = Observed(hn[i]).rnti
  <2>1. CASE Observed(hn[i]).rnti = Observed(n).rnti
    BY <2>1
  <2>2. CASE Observed(hn[i]).rnti # Observed(n).rnti
    <3>1. i \in 1..Len(h) /\ hn[i] = h[i]
      BY <1>2, <2>2
    <3>2. PICK o \in x.latest_timing_advance : o.rnti = Observed(h[i]).rnti
      BY <3>1 DEF Latest
    <3> QED
      BY <2>2, <3>1, <3>2
  <2> QED
    BY <2>1, <2>2
<1> HIDE DEF old
<1>5. Latest(old \cup {Observed(n)}, hn)
  BY <1>3, <1>4 DEF Latest
<1> HIDE DEF y
<1>6. y \in XappState /\ Latest(y.latest_timing_advance, hn)
      /\ y.completed_srs_messages = x.completed_srs_messages
  BY <1>1, <1>5
<1> QED
  BY <1>6 DEF y, hn

(* An indication is taken in from its first record to its last. *)
LEMMA LatestIndication ==
  ASSUME NEW x \in XappState, NEW h \in Seq(Record), NEW q \in Seq(Record),
         Latest(x.latest_timing_advance, h)
  PROVE  LET y == timing_advance_indication_callback(x, Observations(q))
         IN  /\ y \in XappState /\ Latest(y.latest_timing_advance, h \o q)
             /\ y.completed_srs_messages = x.completed_srs_messages
<1> DEFINE observations == Observations(q)
           n == Len(q)
<1>1. /\ observations \in Seq(Observed1) /\ Len(observations) = n /\ n \in Nat
      /\ \A k \in 1..n : observations[k] = Observed(q[k])
  <2>1. observations = [i \in 1..n |-> Observed(q[i])] /\ n \in Nat
    BY DEF Observations
  <2>2. \A i \in 1..n : Observed(q[i]) \in Observed1
    BY DEF Observed1
  <2> HIDE DEF observations
  <2> QED
    BY <2>1, <2>2
<1> HIDE DEF observations
<1>2. PICK run : /\ run[0] = x
                 /\ \A k \in 0..(n - 1) :
                      run[k + 1] = _store_timing_advance(run[k], observations[k + 1])
                 /\ timing_advance_indication_callback(x, observations) = run[n]
  BY <1>1, StoringRuns
<1> DEFINE Good(k) == /\ run[k] \in XappState
                      /\ Latest(run[k].latest_timing_advance, h \o SubSeq(q, 1, k))
                      /\ run[k].completed_srs_messages = x.completed_srs_messages
           T == {k \in Nat : k <= n => Good(k)}
<1>3. 0 \in T
  <2>1. h \o SubSeq(q, 1, 0) = h
    OBVIOUS
  <2> QED
    BY <1>2, <2>1
<1>4. ASSUME NEW k \in Nat, k \in T
      PROVE  k + 1 \in T
  <2> SUFFICES ASSUME k + 1 <= n PROVE Good(k + 1)
    OBVIOUS
  <2>1. Good(k) /\ k \in 0..(n - 1) /\ k + 1 \in 1..n
    BY <1>1, <1>4
  <2>2. q[k + 1] \in Record /\ h \o SubSeq(q, 1, k) \in Seq(Record)
    BY <2>1
  <2>3. h \o SubSeq(q, 1, k + 1) = Append(h \o SubSeq(q, 1, k), q[k + 1])
    BY <2>1
  <2>4. run[k + 1] = _store_timing_advance(run[k], Observed(q[k + 1]))
    BY <1>1, <1>2, <2>1
  <2>5. /\ run[k + 1] \in XappState
        /\ Latest(run[k + 1].latest_timing_advance, Append(h \o SubSeq(q, 1, k), q[k + 1]))
        /\ run[k + 1].completed_srs_messages = run[k].completed_srs_messages
    <3> HIDE DEF n
    <3>1. PICK before \in Seq(Record) : before = h \o SubSeq(q, 1, k)
      BY <2>2
    <3>2. PICK new \in Record : new = q[k + 1]
      BY <2>2
    <3>3. PICK y \in XappState : y = run[k] /\ Latest(y.latest_timing_advance, before)
      BY <2>1, <3>1
    <3> DEFINE z == _store_timing_advance(y, Observed(new))
    <3>4. /\ z \in XappState /\ Latest(z.latest_timing_advance, Append(before, new))
          /\ z.completed_srs_messages = y.completed_srs_messages
      BY <3>3, LatestStore
    <3>5. run[k + 1] = z
      BY <2>4, <3>2, <3>3
    <3> HIDE DEF z
    <3> QED
      BY <3>1, <3>2, <3>3, <3>4, <3>5
  <2> QED
    BY <2>1, <2>3, <2>5
<1> HIDE DEF T
<1>5. n \in T
  BY <1>1, <1>3, <1>4, SetInduction
<1>6. Good(n) /\ h \o SubSeq(q, 1, n) = h \o q
  BY <1>1, <1>5 DEF T
<1> QED
  BY <1>2, <1>6 DEF observations

(* One stream of an SRS indication leaves the observations alone, and adds   *)
(* at most one message, for the stream's UE and with its observation.      *)
Stream == [rnti : Rntis, timestamp : Nat, antenna_id : {0}, generated : BOOLEAN]

Completes(x, y, u) ==
  \E m \in Messages : /\ y.completed_srs_messages = Append(x.completed_srs_messages, m)
                      /\ m.rnti = u
                      /\ m.timing_advance = {o \in x.latest_timing_advance : o.rnti = u}

LEMMA HandleStreamEffect ==
  ASSUME NEW x \in XappState, NEW stream \in Stream
  PROVE  LET y == HandleStream(x, stream)
         IN  /\ y \in XappState /\ y.latest_timing_advance = x.latest_timing_advance
             /\ \/ y.completed_srs_messages = x.completed_srs_messages
                \/ ~stream.generated /\ Completes(x, y, stream.rnti)
<1>1. Sample(stream) \in Samples
  BY DEF Sample, Samples, Stream
<1>2. CASE stream.generated
  <2> DEFINE cache == {g \in x.generated_srs_cache : ~SameAntenna(g, stream)} \cup {Sample(stream)}
  <2>1. cache \in SUBSET Samples
    BY <1>1 DEF XappState
  <2>2. HandleStream(x, stream) = [x EXCEPT !.generated_srs_cache = cache]
    BY <1>2 DEF HandleStream, _store_generated_srs
  <2> HIDE DEF cache
  <2> QED
    BY <2>1, <2>2 DEF XappState
<1>3. CASE ~stream.generated
  <2> DEFINE w        == [x EXCEPT !.pending_received_srs = @ \cup {Sample(stream)}]
             received == {p \in w.pending_received_srs : SameSnapshot(p, stream)}
             m        == Message(w, stream, received)
  <2>1. w \in XappState /\ w.latest_timing_advance = x.latest_timing_advance
        /\ w.completed_srs_messages = x.completed_srs_messages
    BY <1>1 DEF XappState
  <2>2. HandleStream(x, stream) =
          IF ~Assembles(w, received) THEN w
          ELSE [w EXCEPT !.completed_srs_messages = Append(@, m),
                         !.pending_received_srs = @ \ received]
    BY <1>3 DEF HandleStream, _try_assemble_snapshot
  <2> HIDE DEF w
  <2>3. m \in Messages /\ m.rnti = stream.rnti
        /\ m.timing_advance = {o \in x.latest_timing_advance : o.rnti = stream.rnti}
    <3>1. Candidates(received) \in SUBSET Samples
      BY <2>1 DEF Candidates, XappState
    <3>2. References(w, Candidates(received)) \in SUBSET Samples
      BY <2>1 DEF References, XappState
    <3>3. {o \in w.latest_timing_advance : o.rnti = stream.rnti} \in SUBSET Observed1
      BY <2>1 DEF XappState
    <3> QED
      BY <2>1, <3>1, <3>2, <3>3 DEF Message, Messages, Stream
  <2> HIDE DEF m, received
  <2>4. CASE ~Assembles(w, received)
    BY <2>1, <2>2, <2>4
  <2>5. CASE Assembles(w, received)
    <3> DEFINE y == [w EXCEPT !.completed_srs_messages = Append(@, m),
                              !.pending_received_srs = @ \ received]
    <3>1. Append(w.completed_srs_messages, m) \in Seq(Messages)
          /\ w.pending_received_srs \ received \in SUBSET Samples
      BY <2>1, <2>3 DEF XappState
    <3>2. /\ y \in XappState /\ y.latest_timing_advance = w.latest_timing_advance
          /\ y.completed_srs_messages = Append(w.completed_srs_messages, m)
      BY <2>1, <3>1 DEF XappState
    <3>3. HandleStream(x, stream) = y
      BY <2>2, <2>5
    <3> HIDE DEF y
    <3>4. Completes(x, y, stream.rnti)
      BY <2>1, <2>3, <3>2 DEF Completes
    <3> QED
      BY <1>3, <2>1, <3>2, <3>3, <3>4
  <2> QED
    BY <2>4, <2>5
<1> QED
  BY <1>2, <1>3 DEF Stream

LEMMA HandlingRuns ==
  ASSUME NEW x, NEW S, NEW streams \in Seq(S)
  PROVE  \E run : /\ run[0] = x
                  /\ \A k \in 0..(Len(streams) - 1) :
                       run[k + 1] = HandleStream(run[k], streams[k + 1])
                  /\ srs_indication_callback(x, streams) = run[Len(streams)]
<1>1. srs_indication_callback(x, streams) = Handled!FoldOf(x, streams)
  BY DEF srs_indication_callback, Handled!FoldOf, Handled!FoldLeft, FoldLeft,
         Handled!MapThenFoldSet, MapThenFoldSet, Handled!Max, Max
<1> QED
  BY <1>1, Handled!FoldRuns

LEMMA PairInSeq ==
  ASSUME NEW S, NEW a \in S, NEW b \in S
  PROVE  <<a, b>> \in Seq(S)
OBVIOUS

LEMMA SnapshotEffect ==
  ASSUME NEW x \in XappState, NEW g \in Stream, NEW r \in Stream, g.generated, g.rnti = r.rnti
  PROVE  LET y == srs_indication_callback(x, <<g, r>>)
         IN  /\ y \in XappState /\ y.latest_timing_advance = x.latest_timing_advance
             /\ \/ y.completed_srs_messages = x.completed_srs_messages
                \/ Completes(x, y, r.rnti)
<1>1. PICK run : /\ run[0] = x
                 /\ \A k \in 0..(Len(<<g, r>>) - 1) :
                      run[k + 1] = HandleStream(run[k], <<g, r>>[k + 1])
                 /\ srs_indication_callback(x, <<g, r>>) = run[Len(<<g, r>>)]
  <2> DEFINE streams == <<g, r>>
  <2>1. streams \in Seq(Stream)
    BY PairInSeq
  <2> HIDE DEF streams
  <2>2. \E run : /\ run[0] = x
                /\ \A k \in 0..(Len(streams) - 1) :
                     run[k + 1] = HandleStream(run[k], streams[k + 1])
                /\ srs_indication_callback(x, streams) = run[Len(streams)]
    BY <2>1, HandlingRuns
  <2> QED
    BY <2>2 DEF streams
<1>2. Len(<<g, r>>) = 2 /\ <<g, r>>[0 + 1] = g /\ <<g, r>>[1 + 1] = r
      /\ 0 \in 0..(Len(<<g, r>>) - 1) /\ 1 \in 0..(Len(<<g, r>>) - 1)
  OBVIOUS
<1> DEFINE y == HandleStream(x, g)
           z == HandleStream(y, r)
<1>3. y \in XappState /\ y.latest_timing_advance = x.latest_timing_advance
      /\ y.completed_srs_messages = x.completed_srs_messages
  BY HandleStreamEffect
<1> HIDE DEF y
<1>4. /\ z \in XappState /\ z.latest_timing_advance = y.latest_timing_advance
      /\ \/ z.completed_srs_messages = y.completed_srs_messages
         \/ Completes(y, z, r.rnti)
  BY <1>3, HandleStreamEffect
<1>5. srs_indication_callback(x, <<g, r>>) = z
  <2>1. run[0 + 1] = y
    BY <1>1, <1>2, Zenon DEF y
  <2>2. 0 + 1 = 1 /\ 1 + 1 = 2
    OBVIOUS
  <2>3. run[1 + 1] = HandleStream(run[1], r)
    BY <1>1, <1>2, Zenon
  <2> QED
    BY <1>1, <1>2, <2>1, <2>2, <2>3, Zenon
<1> HIDE DEF z
<1>6. Completes(y, z, r.rnti) => Completes(x, z, r.rnti)
  BY <1>3 DEF Completes
<1> QED
  BY <1>3, <1>4, <1>5, <1>6

-----------------------------------------------------------------------------
(* What the xApp knows: its dictionary has the last of what it was given    *)
(* for each number, and its messages have, under the number of their UE,   *)
(* something that it was given.                                            *)
Given(h) == {Observed(h[i]) : i \in 1..Len(h)}

MessagesFromGiven(messages, h) ==
  \A m \in 1..Len(messages) : \A o \in messages[m].timing_advance :
    o \in Given(h) /\ o.rnti = messages[m].rnti

XappInv ==
  /\ subscription \in Services \cup {NoService}
  /\ gone \in [Services -> SUBSET Nat]
  /\ \A s \in Services : gone[s] \subseteq DOMAIN indications[s]
  /\ handled \in Seq(Record)
  /\ xapp \in XappState
  /\ Latest(xapp.latest_timing_advance, handled)
  /\ MessagesFromGiven(completed, handled)

LEMMA FreshXappState == FreshXapp \in XappState /\ FreshXapp.latest_timing_advance = {}
                        /\ FreshXapp.completed_srs_messages = <<>>
<1>1. FreshXapp = [generated_srs_cache |-> {}, pending_received_srs |-> {},
                   completed_srs_messages |-> <<>>, latest_timing_advance |-> {}]
  BY DEF FreshXapp
<1>2. <<>> \in Seq(Messages)
  OBVIOUS
<1> QED
  BY <1>1, <1>2 DEF XappState

LEMMA NothingGiven == Latest({}, <<>>) /\ MessagesFromGiven(<<>>, <<>>)
BY DEF Latest, MessagesFromGiven

LEMMA XappInit == PathInit => XappInv
<1> SUFFICES ASSUME PathInit PROVE XappInv
  OBVIOUS
<1>1. subscription = NoService /\ xapp = FreshXapp /\ handled = <<>>
      /\ gone = [s \in Services |-> {}]
  BY DEF PathInit
<1>2. handled \in Seq(Record)
  BY <1>1
<1>3. Latest(xapp.latest_timing_advance, handled) /\ MessagesFromGiven(completed, handled)
  BY <1>1, FreshXappState, NothingGiven, Zenon DEF completed
<1> QED
  BY <1>1, <1>2, <1>3, FreshXappState DEF XappInv

(* No indication is taken back. *)
LEMMA IndicationsStay ==
  ASSUME TypeOK, [Next]_vars, NEW s \in Services
  PROVE  DOMAIN indications[s] \subseteq DOMAIN indications'[s]
<1>1. indications[s] \in Seq(Seq(Record))
  BY DEF TypeOK, Record
<1>2. CASE \E t \in Services : get_indication_message(t)
  <2>1. PICK t \in Services : get_indication_message(t)
    BY <1>2
  <2>2. CASE indications' = [indications EXCEPT ![t] = Append(@, records[t])]
    <3>1. indications'[s] = indications[s]
          \/ indications'[s] = Append(indications[s], records[s])
      BY <2>2 DEF TypeOK
    <3> QED
      BY <1>1, <3>1
  <2>3. CASE indications' = indications
    BY <2>3
  <2> QED
    BY <2>1, <2>2, <2>3 DEF get_indication_message
<1>3. CASE indications' = indications
  BY <1>3
<1> QED
  BY <1>2, <1>3 DEF Next, vars, push_ta_indication, Subscribe, Unsubscribe, collect_measurements

LEMMA MoreGiven ==
  ASSUME NEW h \in Seq(Record), NEW q \in Seq(Record)
  PROVE  Given(h) \subseteq Given(h \o q)
<1>1. \A i \in 1..Len(h) : i \in 1..Len(h \o q) /\ (h \o q)[i] = h[i]
  OBVIOUS
<1> QED
  BY <1>1, Zenon DEF Given

(* A step that leaves the xApp alone. *)
LEMMA XappStays ==
  ASSUME TypeOK, XappInv, [Next]_vars, UNCHANGED <<xapp, handled>>,
         subscription' \in Services \cup {NoService},
         gone' \in [Services -> SUBSET Nat],
         \A s \in Services : gone'[s] \subseteq DOMAIN indications[s]
  PROVE  XappInv'
<1>1. \A s \in Services : gone'[s] \subseteq DOMAIN indications'[s]
  BY IndicationsStay
<1>2. /\ handled' \in Seq(Record) /\ xapp' \in XappState
      /\ Latest(xapp.latest_timing_advance, handled)'
      /\ MessagesFromGiven(completed, handled)'
  BY DEF XappInv, completed, Latest, MessagesFromGiven, Given
<1> QED
  BY <1>1, <1>2 DEF XappInv

LEMMA XappDeliver ==
  ASSUME TypeOK, XappInv, NEW s \in Services, NEW p \in UnderWay(s), Deliver(s, p)
  PROVE  XappInv'
<1>1. indications[s] \in Seq(Seq(Record)) /\ p \in DOMAIN indications[s] /\ p \in Nat
  BY DEF TypeOK, Record, UnderWay
<1>2. PICK q \in Seq(Record) : q = indications[s][p]
  BY <1>1
<1>3. /\ gone' \in [Services -> SUBSET Nat]
      /\ \A t \in Services : gone'[t] \subseteq DOMAIN indications[t]
  BY <1>1 DEF Deliver, XappInv
<1>4. [Next]_vars /\ subscription' = subscription /\ indications' = indications
  BY DEF Deliver, vars
<1>5. CASE s = subscription
  <2>1. /\ xapp' = timing_advance_indication_callback(xapp, Observations(q))
        /\ handled' = handled \o q
    BY <1>2, <1>5 DEF Deliver
  <2>2. PICK x \in XappState : x = xapp /\ Latest(x.latest_timing_advance, handled)
    BY DEF XappInv
  <2>3. PICK h \in Seq(Record) : h = handled
    BY DEF XappInv
  <2> DEFINE y == timing_advance_indication_callback(x, Observations(q))
  <2>4. /\ y \in XappState /\ Latest(y.latest_timing_advance, h \o q)
        /\ y.completed_srs_messages = x.completed_srs_messages
    BY <2>2, <2>3, LatestIndication
  <2>5. xapp' = y /\ handled' = h \o q
    BY <2>1, <2>2, <2>3
  <2> HIDE DEF y
  <2>6. h \o q \in Seq(Record)
    OBVIOUS
  <2>7. MessagesFromGiven(x.completed_srs_messages, h)
    BY <2>2, <2>3 DEF XappInv, completed
  <2>8. MessagesFromGiven(x.completed_srs_messages, h \o q)
    BY <2>7, MoreGiven DEF MessagesFromGiven
  <2>9. MessagesFromGiven(completed, handled)'
    <3>1. completed' = x.completed_srs_messages
      BY <2>4, <2>5, Zenon DEF completed
    <3>2. MessagesFromGiven(completed', handled')
      BY <2>5, <2>8, <3>1, Zenon
    <3> QED
      BY <3>2 DEF MessagesFromGiven, Given
  <2>10. xapp' \in XappState /\ handled' \in Seq(Record)
         /\ Latest(xapp.latest_timing_advance, handled)'
    BY <2>4, <2>5, <2>6, Zenon DEF Latest
  <2> QED
    BY <1>3, <1>4, <2>9, <2>10 DEF XappInv
<1>6. CASE s # subscription
  <2>1. UNCHANGED <<xapp, handled>>
    BY <1>6 DEF Deliver
  <2> QED
    BY <1>3, <1>4, <2>1, XappStays DEF XappInv
<1> QED
  BY <1>5, <1>6

(* What DeliverSnapshot does: at most one message more, for its UE and with *)
(* what the dictionary has under the UE's RNTI.                            *)
LEMMA SnapshotDelivered ==
  ASSUME XappInv, NEW u \in Rntis, DeliverSnapshot(u)
  PROVE  /\ xapp' \in XappState /\ xapp'.latest_timing_advance = xapp.latest_timing_advance
         /\ completed' = completed \/ Completes(xapp, xapp', u)
         /\ UNCHANGED <<vars, subscription, gone, handled>>
<1>1. PICK x \in XappState : x = xapp
  BY DEF XappInv
<1>2. Len(completed) + 1 \in Nat
  BY <1>1 DEF XappState, completed
<1>3. PICK g \in Stream : g = [rnti |-> u, timestamp |-> Len(completed) + 1,
                               antenna_id |-> 0, generated |-> TRUE]
  BY <1>2 DEF Stream
<1>4. PICK r \in Stream : r = [rnti |-> u, timestamp |-> Len(completed) + 1,
                               antenna_id |-> 0, generated |-> FALSE]
  BY <1>2 DEF Stream
<1>5. xapp' = srs_indication_callback(x, <<g, r>>)
      /\ UNCHANGED <<vars, subscription, gone, handled>>
  BY <1>1, <1>3, <1>4 DEF DeliverSnapshot
<1>6. g.generated /\ g.rnti = r.rnti /\ r.rnti = u
  BY <1>3, <1>4
<1> DEFINE y == srs_indication_callback(x, <<g, r>>)
<1>7. /\ y \in XappState /\ y.latest_timing_advance = x.latest_timing_advance
      /\ \/ y.completed_srs_messages = x.completed_srs_messages
         \/ Completes(x, y, r.rnti)
  BY <1>6, SnapshotEffect
<1> HIDE DEF y
<1>8. xapp' = y
  BY <1>5 DEF y
<1> QED
  BY <1>1, <1>5, <1>6, <1>7, <1>8, Zenon DEF completed

LEMMA XappSnapshot ==
  ASSUME TypeOK, XappInv, NEW u \in Rntis, DeliverSnapshot(u)
  PROVE  XappInv'
<1>1. /\ xapp' \in XappState /\ xapp'.latest_timing_advance = xapp.latest_timing_advance
      /\ completed' = completed \/ Completes(xapp, xapp', u)
      /\ UNCHANGED <<vars, subscription, gone, handled>>
  BY SnapshotDelivered
<1>2. Latest(xapp.latest_timing_advance, handled)'
  BY <1>1 DEF XappInv, Latest
<1>3. MessagesFromGiven(completed, handled)'
  <2>1. CASE completed' = completed
    BY <1>1, <2>1 DEF XappInv, MessagesFromGiven, Given
  <2>2. CASE Completes(xapp, xapp', u)
    <3>1. PICK m \in Messages :
            /\ completed' = Append(completed, m) /\ m.rnti = u
            /\ m.timing_advance = {o \in xapp.latest_timing_advance : o.rnti = u}
      BY <2>2 DEF Completes, completed
    <3>2. completed \in Seq(Messages)
      BY DEF XappInv, XappState, completed
    <3>3. \A o \in m.timing_advance : o \in Given(handled) /\ o.rnti = m.rnti
      BY <3>1 DEF XappInv, Latest, Given
    <3>4. \A k \in 1..Len(completed') : \/ k \in 1..Len(completed) /\ completed'[k] = completed[k]
                                        \/ completed'[k] = m
      BY <3>1, <3>2
    <3>5. \A k \in 1..Len(completed') : \A o \in completed'[k].timing_advance :
            o \in Given(handled) /\ o.rnti = completed'[k].rnti
      BY <3>3, <3>4, Zenon DEF XappInv, MessagesFromGiven
    <3>6. handled' = handled
      BY <1>1
    <3> QED
      BY <3>5, <3>6 DEF MessagesFromGiven, Given
  <2> QED
    BY <1>1, <2>1, <2>2
<1>4. indications' = indications
  BY <1>1 DEF vars
<1> QED
  BY <1>1, <1>2, <1>3, <1>4 DEF XappInv

LEMMA XappStep == TypeOK /\ XappInv /\ [PathNext]_pathVars => XappInv'
<1> SUFFICES ASSUME TypeOK, XappInv, [PathNext]_pathVars PROVE XappInv'
  OBVIOUS
<1>1. [Next]_vars
  BY PathStepIsStep
<1>2. CASE UNCHANGED ric
  BY <1>1, <1>2, XappStays DEF ric, XappInv
<1>3. ASSUME NEW s \in Services, Start(s)
      PROVE  XappInv'
  BY <1>1, <1>3, XappStays DEF Start, XappInv
<1>4. CASE Restart
  <2>1. subscription' = NoService /\ xapp' = FreshXapp /\ handled' = <<>> /\ gone' = gone
        /\ indications' = indications
    BY <1>4 DEF Restart, vars
  <2>2. handled' \in Seq(Record) /\ xapp' \in XappState
    BY <2>1, FreshXappState
  <2>3. Latest(xapp.latest_timing_advance, handled)' /\ MessagesFromGiven(completed, handled)'
    BY <2>1, FreshXappState, NothingGiven DEF completed, Latest, MessagesFromGiven, Given
  <2> QED
    BY <2>1, <2>2, <2>3 DEF XappInv
<1>5. ASSUME NEW s \in Services, NEW p \in UnderWay(s), Deliver(s, p)
      PROVE  XappInv'
  BY <1>5, XappDeliver
<1>6. ASSUME NEW s \in Services, NEW p \in UnderWay(s), Lose(s, p)
      PROVE  XappInv'
  <2>1. /\ gone' \in [Services -> SUBSET Nat]
        /\ \A t \in Services : gone'[t] \subseteq DOMAIN indications[t]
    BY <1>6 DEF Lose, XappInv, UnderWay, TypeOK
  <2> QED
    BY <1>1, <1>6, <2>1, XappStays DEF Lose, XappInv
<1>7. ASSUME NEW u \in Rntis, DeliverSnapshot(u)
      PROVE  XappInv'
  BY <1>7, XappSnapshot
<1>8. CASE UNCHANGED pathVars
  BY <1>2, <1>8 DEF pathVars
<1> QED
  BY <1>2, <1>3, <1>4, <1>5, <1>6, <1>7, <1>8 DEF PathNext

LEMMA XappInvariant == PathSpec => [](TypeOK /\ XappInv)
<1>1. PathSpec => []TypeOK
  BY PathIsReport, TaTypeCorrect, PTL
<1> QED
  BY <1>1, XappInit, XappStep, PTL DEF PathSpec

(* What the xApp keeps and attaches is an observation it was given, and it  *)
(* keeps one for a number.                                                 *)
THEOREM TaPathTypeCorrect == PathSpec => []TaPathTypeOK
<1>1. TypeOK /\ XappInv => TaPathTypeOK
  <2> SUFFICES ASSUME TypeOK, XappInv PROVE TaPathTypeOK
    OBVIOUS
  <2>1. xapp.latest_timing_advance \subseteq {Observed(n) : n \in 1..MaxRecords}
    BY DEF XappInv, XappState, Observed1, Record
  <2>2. ASSUME NEW o \in xapp.latest_timing_advance, NEW p \in xapp.latest_timing_advance,
               o.rnti = p.rnti
        PROVE  o = p
    <3>1. PICK i \in 1..Len(handled) :
            o = Observed(handled[i])
            /\ \A j \in 1..Len(handled) : i < j => Observed(handled[j]).rnti # o.rnti
      BY DEF XappInv, Latest
    <3>2. PICK k \in 1..Len(handled) :
            p = Observed(handled[k])
            /\ \A j \in 1..Len(handled) : k < j => Observed(handled[j]).rnti # p.rnti
      BY DEF XappInv, Latest
    <3>3. Len(handled) \in Nat
      BY DEF XappInv
    <3>4. ~(i < k) /\ ~(k < i)
      BY <2>2, <3>1, <3>2, Zenon
    <3>5. i = k
      BY <3>3, <3>4
    <3> QED
      BY <3>1, <3>2, <3>5, Zenon
  <2>3. \A m \in DOMAIN completed :
          completed[m].timing_advance \subseteq xapp.latest_timing_advance
                                        \cup {Observed(n) : n \in ToSet(handled)}
    <3>1. DOMAIN completed = 1..Len(completed) /\ DOMAIN handled = 1..Len(handled)
      BY DEF XappInv, XappState, completed
    <3>2. Given(handled) \subseteq {Observed(n) : n \in ToSet(handled)}
      BY <3>1 DEF Given, ToSet
    <3> QED
      BY <3>1, <3>2 DEF XappInv, MessagesFromGiven
  <2>4. handled \in Seq(1..MaxRecords)
    BY DEF XappInv, Record
  <2> QED
    BY <2>1, <2>2, <2>3, <2>4 DEF TaPathTypeOK, XappInv
<1> QED
  BY <1>1, XappInvariant, PTL

(* The timing advance in an SRS message is one of the message's UE, unless  *)
(* the MAC knew no RNTI and the index it left happens to be the RNTI.      *)
THEOREM TimingAdvanceMatches == PathSpec => []TimingAdvanceOfUe
<1>1. TypeOK /\ XappInv => TimingAdvanceOfUe
  <2> SUFFICES ASSUME XappInv, NEW m \in DOMAIN completed,
                      NEW o \in completed[m].timing_advance
               PROVE  \/ ObservationOf[o.record].ue = completed[m].rnti
                      \/ /\ ObservationOf[o.record].rnti = 0
                         /\ ObservationOf[o.record].ue_index = completed[m].rnti
    BY DEF TimingAdvanceOfUe
  <2>1. m \in 1..Len(completed)
    BY DEF XappInv, XappState, completed
  <2>2. o \in Given(handled) /\ o.rnti = completed[m].rnti
    BY <2>1 DEF XappInv, MessagesFromGiven
  <2>3. PICK n \in Record : o = Observed(n)
    BY <2>2 DEF Given, XappInv
  <2>4. /\ o.record = n
        /\ ObservationOf[n].rnti # 0 => o.rnti = ObservationOf[n].rnti
        /\ ObservationOf[n].rnti = 0 => o.rnti = ObservationOf[n].ue_index
    BY <2>3, ObservedIs
  <2>5. ObservationOf[n].rnti \in {0, ObservationOf[n].ue}
    BY ObservedRntiAssumption DEF Record
  <2> QED
    BY <2>2, <2>4, <2>5
<1> QED
  BY <1>1, XappInvariant, PTL

(* Only a snapshot that is complete adds a message. *)
LEMMA CompletedStays ==
  ASSUME TypeOK, XappInv, [PathNext]_pathVars, Len(completed') > Len(completed),
         completed' # completed
  PROVE  \E u \in Rntis : DeliverSnapshot(u)
<1>1. xapp' # xapp
  BY DEF completed
<1>2. ~Gnb \/ ~UNCHANGED ric
  BY <1>1 DEF ric
<1>3. ASSUME NEW s \in Services, Start(s)
      PROVE  FALSE
  BY <1>1, <1>3 DEF Start
<1>4. ASSUME Restart
      PROVE  FALSE
  <2>1. completed' = <<>>
    BY <1>4, FreshXappState DEF Restart, completed
  <2>2. Len(completed) \in Nat
    BY DEF XappInv, XappState, completed
  <2> QED
    BY <2>1, <2>2
<1>5. ASSUME NEW s \in Services, NEW p \in UnderWay(s), Deliver(s, p)
      PROVE  FALSE
  <2>1. PICK q \in Seq(Record) : q = indications[s][p]
    BY DEF TypeOK, Record, UnderWay
  <2>2. PICK x \in XappState : x = xapp /\ Latest(x.latest_timing_advance, handled)
    BY DEF XappInv
  <2>3. PICK h \in Seq(Record) : h = handled
    BY DEF XappInv
  <2>4. xapp' = timing_advance_indication_callback(x, Observations(q))
    BY <1>1, <1>5, <2>1, <2>2 DEF Deliver
  <2> DEFINE y == timing_advance_indication_callback(x, Observations(q))
  <2>5. y.completed_srs_messages = x.completed_srs_messages
    BY <2>2, <2>3, LatestIndication
  <2> HIDE DEF y
  <2>6. xapp' = y
    BY <2>4 DEF y
  <2>7. completed' = completed
    BY <2>2, <2>5, <2>6, Zenon DEF completed
  <2> QED
    BY <2>7
<1>6. ASSUME NEW s \in Services, NEW p \in UnderWay(s), Lose(s, p)
      PROVE  FALSE
  BY <1>1, <1>6 DEF Lose
<1>7. ~UNCHANGED pathVars
  BY <1>1 DEF pathVars, ric
<1> QED
  BY <1>2, <1>3, <1>4, <1>5, <1>6, <1>7 DEF PathNext

LEMMA LatestGiven ==
  ASSUME NEW dictionary, NEW h \in Seq(Record), Latest(dictionary, h), NEW u
  PROVE  {o \in dictionary : o.rnti = u} = {}
           <=> {n \in ToSet(h) : Observed(n).rnti = u} = {}
<1>1. ToSet(h) = {h[i] : i \in 1..Len(h)}
  BY DEF ToSet
<1>2. ASSUME NEW o \in dictionary, o.rnti = u
      PROVE  \E n \in ToSet(h) : Observed(n).rnti = u
  BY <1>1, <1>2, Zenon DEF Latest
<1>3. ASSUME NEW n \in ToSet(h), Observed(n).rnti = u
      PROVE  \E o \in dictionary : o.rnti = u
  BY <1>1, <1>3 DEF Latest
<1> QED
  BY <1>2, <1>3

(* What came last is what was pushed last, unless something was overtaken. *)
LEMMA LatestIsFreshest ==
  ASSUME NEW dictionary, NEW h \in Seq(Record), Latest(dictionary, h), NEW u,
         ~ \E i, j \in DOMAIN h : i < j /\ h[i] > h[j],
         NEW o \in dictionary, o.rnti = u, NEW n \in ToSet(h), Observed(n).rnti = u
  PROVE  n <= o.record
<1>1. DOMAIN h = 1..Len(h) /\ Len(h) \in Nat /\ \A i \in 1..Len(h) : h[i] \in Record
  OBVIOUS
<1>2. PICK i \in 1..Len(h) :
        o = Observed(h[i]) /\ \A j \in 1..Len(h) : i < j => Observed(h[j]).rnti # o.rnti
  BY DEF Latest
<1>3. PICK j \in 1..Len(h) : n = h[j]
  BY <1>1 DEF ToSet
<1>4. ~(i < j)
  BY <1>2, <1>3, Zenon
<1>5. o.record = h[i]
  BY <1>1, <1>2, ObservedIs, Zenon
<1>6. h[i] \in Nat /\ h[j] \in Nat
  BY <1>1 DEF Record
<1>7. j < i \/ j = i
  BY <1>1, <1>4
<1> QED
  BY <1>1, <1>3, <1>5, <1>6, <1>7

(* A message has the last observation that the xApp was given for its UE's  *)
(* number, and has one if there was any; it is the freshest of them, unless *)
(* the network let one overtake another.                                   *)
THEOREM FreshestAttached == PathSpec => AttachesFreshest
<1>1. TypeOK /\ XappInv /\ [PathNext]_pathVars =>
        (Len(completed') > Len(completed) =>
           LET message == completed'[Len(completed')]
               given   == {n \in ToSet(handled) : Observed(n).rnti = message.rnti}
           IN  /\ message.timing_advance = {} <=> given = {}
               /\ ~Overtaken => \A o \in message.timing_advance : \A n \in given : n <= o.record)
  <2> SUFFICES ASSUME TypeOK, XappInv, [PathNext]_pathVars, Len(completed') > Len(completed)
               PROVE  LET message == completed'[Len(completed')]
                          given   == {n \in ToSet(handled) : Observed(n).rnti = message.rnti}
                      IN  /\ message.timing_advance = {} <=> given = {}
                          /\ ~Overtaken => \A o \in message.timing_advance :
                                             \A n \in given : n <= o.record
    OBVIOUS
  <2>1. completed \in Seq(Messages)
    BY DEF XappInv, XappState, completed
  <2>2. ~(Len(completed) > Len(completed))
    BY <2>1
  <2>3. completed' # completed
    BY <2>2, Zenon
  <2>4. PICK u \in Rntis : DeliverSnapshot(u)
    BY <2>1, <2>3, CompletedStays
  <2>5. Completes(xapp, xapp', u)
    BY <2>3, <2>4, SnapshotDelivered
  <2>6. PICK m \in Messages :
          /\ completed' = Append(completed, m) /\ m.rnti = u
          /\ m.timing_advance = {o \in xapp.latest_timing_advance : o.rnti = u}
    BY <2>5 DEF Completes, completed
  <2>7. completed'[Len(completed')] = m
    BY <2>1, <2>6
  <2> DEFINE given == {n \in ToSet(handled) : Observed(n).rnti = m.rnti}
  <2>8. m.timing_advance = {} <=> given = {}
    <3>1. handled \in Seq(Record) /\ Latest(xapp.latest_timing_advance, handled)
      BY DEF XappInv
    <3>2. {o \in xapp.latest_timing_advance : o.rnti = u} = {}
            <=> {n \in ToSet(handled) : Observed(n).rnti = u} = {}
      BY <3>1, LatestGiven
    <3> QED
      BY <2>6, <3>2, Zenon
  <2>9. ~Overtaken => \A o \in m.timing_advance : \A n \in given : n <= o.record
    BY <2>6, LatestIsFreshest DEF XappInv, Overtaken
  <2> QED
    BY <2>7, <2>8, <2>9
<1> QED
  BY <1>1, XappInvariant, PTL DEF PathSpec, AttachesFreshest
=============================================================================
