------------------------------ MODULE TaReport ------------------------------
(***************************************************************************)
(* The timing-advance stream: ta_indication_store, a process-wide vector   *)
(* that the MAC pushes observations into and that a drain empties, and the *)
(* ta_report_service of each subscription, which holds the records of its  *)
(* last drain until they are sent.                                         *)
(***************************************************************************)
EXTENDS Naturals, FiniteSets, SequencesExt

CONSTANTS
  Services,       \* subscriptions with a timing-advance report service
  AppendMayFail,  \* may byte_buffer::append run out of memory?
  MaxRecords      \* bound: observations pushed

ASSUME TaFlagsAssumption == AppendMayFail \in BOOLEAN /\ MaxRecords \in Nat

VARIABLES
  ta_records,  \* the store
  pushed,      \* how many observations were pushed; they are numbered
  live,        \* services that exist
  records,     \* of each service
  ready,       \* the agent is about to fetch a service's message
  indications, \* history: the records of each indication of each service
  cancelled,   \* history: records a service held when its subscription ended
  failed       \* history: records whose indication could not be written

vars == <<ta_records, pushed, live, records, ready, indications, cancelled, failed>>

Init ==
  /\ ta_records = <<>>
  /\ pushed = 0
  /\ live = {}
  /\ records = [s \in Services |-> <<>>]
  /\ ready = [s \in Services |-> FALSE]
  /\ indications = [s \in Services |-> <<>>]
  /\ cancelled = {}
  /\ failed = {}

-----------------------------------------------------------------------------
(* push_ta_indication, by the MAC, whether or not anyone subscribed.  The   *)
(* mutant numbers the record before counting it.                           *)
PushUncounted ==
  /\ pushed < MaxRecords
  /\ pushed' = pushed + 1
  /\ ta_records' = Append(ta_records, pushed)
  /\ UNCHANGED <<live, records, ready, indications, cancelled, failed>>

push_ta_indication ==
  /\ pushed < MaxRecords
  /\ pushed' = pushed + 1
  /\ ta_records' = Append(ta_records, pushed + 1)
  /\ UNCHANGED <<live, records, ready, indications, cancelled, failed>>

(* get_e2sm_report_service for an action definition 0x01, and its end. *)
Subscribe(s) ==
  /\ s \notin live
  /\ live' = live \cup {s}
  /\ UNCHANGED <<ta_records, pushed, records, ready, indications, cancelled, failed>>

Unsubscribe(s) ==
  /\ s \in live
  /\ live' = live \ {s}
  /\ records' = [records EXCEPT ![s] = <<>>]
  /\ ready' = [ready EXCEPT ![s] = FALSE]
  /\ cancelled' = cancelled \cup ToSet(records[s])
  /\ UNCHANGED <<ta_records, pushed, indications, failed>>

(* collect_measurements: the records of the last drain are replaced by      *)
(* those in the store.  The agent then asks is_ind_msg_ready, and fetches   *)
(* the message before it collects for that subscription again.  The mutant *)
(* copies the store without emptying it.                                   *)
CollectCopies(s) ==
  /\ s \in live
  /\ ~ready[s]
  /\ ready' = [ready EXCEPT ![s] = ta_records # <<>>]
  /\ records' = [records EXCEPT ![s] = ta_records]
  /\ UNCHANGED <<ta_records, pushed, live, indications, cancelled, failed>>

collect_measurements(s) ==
  /\ s \in live
  /\ ~ready[s]
  /\ ready' = [ready EXCEPT ![s] = ta_records # <<>>]
  /\ records' = [records EXCEPT ![s] = ta_records]
  /\ ta_records' = <<>>
  /\ UNCHANGED <<pushed, live, indications, cancelled, failed>>

(* get_indication_message: the records are cleared only once the buffer has *)
(* been written.  The mutant sends only the first of them.                 *)
GetSendsFirst(s) ==
  /\ s \in live /\ ready[s]
  /\ ready' = [ready EXCEPT ![s] = FALSE]
  /\ indications' = [indications EXCEPT ![s] = Append(@, <<Head(records[s])>>)]
  /\ records' = [records EXCEPT ![s] = <<>>]
  /\ UNCHANGED <<ta_records, pushed, live, cancelled, failed>>

get_indication_message(s) ==
  /\ s \in live /\ ready[s]
  /\ ready' = [ready EXCEPT ![s] = FALSE]
  /\ \/ /\ indications' = [indications EXCEPT ![s] = Append(@, records[s])]
        /\ records' = [records EXCEPT ![s] = <<>>]
        /\ UNCHANGED failed
     \/ /\ AppendMayFail
        /\ failed' = failed \cup ToSet(records[s])
        /\ UNCHANGED <<records, indications>>
  /\ UNCHANGED <<ta_records, pushed, live, cancelled>>

Next ==
  \/ push_ta_indication
  \/ \E s \in Services : Subscribe(s)
  \/ \E s \in Services : Unsubscribe(s)
  \/ \E s \in Services : collect_measurements(s)
  \/ \E s \in Services : get_indication_message(s)

Spec == Init /\ [][Next]_vars

-----------------------------------------------------------------------------
Sent(s) == FlattenSeq(indications[s])

(* The variables hold values of the code's types. *)
TypeOK ==
  /\ ta_records \in Seq(1..MaxRecords)
  /\ pushed \in 0..MaxRecords
  /\ live \subseteq Services
  /\ records \in [Services -> Seq(1..MaxRecords)]
  /\ ready \in [Services -> BOOLEAN]
  /\ indications \in [Services -> Seq(Seq(1..MaxRecords))]
  /\ cancelled \subseteq 1..MaxRecords
  /\ failed \subseteq 1..MaxRecords

(* A subscriber gets the observations in the order in which they were       *)
(* pushed, across drains, failures and resubscription, and none goes to    *)
(* two subscribers, however their drains fall.  (The xApp keeps the one    *)
(* that arrives last.)                                                     *)
SentInOrder ==
  \A s, t \in Services : \A i \in 1..Len(Sent(s)), j \in 1..Len(Sent(t)) :
    /\ s = t /\ i < j => Sent(s)[i] < Sent(t)[j]
    /\ s # t => Sent(s)[i] # Sent(t)[j]

(* An observation waits in the store, is held by a service that will send   *)
(* it, or has been sent; or it went with a cancelled subscription or was   *)
(* in an indication that could not be written.                             *)
Emitted == UNION {ToSet(Sent(s)) : s \in Services}
Kept    == ToSet(ta_records) \cup UNION {ToSet(records[s]) : s \in Services}

ObservationsAccountedFor == 1..pushed = Kept \cup Emitted \cup cancelled \cup failed

(* Once some subscription stays, every observation pushed is emitted, or is *)
(* cancelled with a subscription that had drained it, or met a buffer that *)
(* could not be written: none waits in the store for ever, however other   *)
(* subscriptions come and go.                                              *)
ObservationsEmitted ==
  (\E s \in Services : <>[](s \in live)) =>
    \A n \in 1..MaxRecords : pushed >= n ~> n \in Emitted \cup cancelled \cup failed
=============================================================================
