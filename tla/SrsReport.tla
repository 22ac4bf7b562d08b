------------------------------ MODULE SrsReport ------------------------------
(***************************************************************************)
(* The SRS report services of the runOran service model: one               *)
(* srs_report_service per subscription, all of them draining the one       *)
(* srs_data_collector.  The collector is what SnapshotBox says it is: per  *)
(* UE the latest whole snapshot, or none (SrsCapture implements it).       *)
(*                                                                         *)
(* The E2 agent calls collect_measurements, is_ind_msg_ready and           *)
(* get_indication_message of a service from its own executor; the order    *)
(* and the pace of the calls are left open.                                *)
(***************************************************************************)
EXTENDS Integers, FiniteSets, SequencesExt

CONSTANTS
  Rntis,            \* UEs, numbers as they order pending_data_
  AntennaIds,       \* receive antennas, numbers as collect sorts by them
  Shapes,           \* the sets of antennas a snapshot may hold
  Services,         \* subscriptions, each with a report service of its own
  StreamBytes,      \* serialized size of one stream of a UE
  MaxPayloadBytes,  \* max_indication_payload_bytes
  AppendMayFail,    \* may byte_buffer::append run out of memory?
  MaxTimestamp      \* bound: snapshots per UE, which number their timestamps

ASSUME ReportSetsAssumption ==
  /\ Rntis \subseteq Nat /\ IsFiniteSet(Rntis)
  /\ AntennaIds \subseteq Nat /\ IsFiniteSet(AntennaIds)
  /\ Shapes \subseteq (SUBSET AntennaIds) \ {{}}
ASSUME ReportSizesAssumption ==
  /\ StreamBytes \in [Rntis -> Nat \ {0}]
  /\ MaxPayloadBytes \in Nat /\ MaxTimestamp \in Nat
ASSUME AppendMayFailAssumption == AppendMayFail \in BOOLEAN

VARIABLES
  latest,               \* the complete snapshot the collector holds of each UE
  produced,             \* timestamp of the last snapshot of each UE
  live,                 \* services that exist
  pending_items,        \* of each service
  generated_sent_keys,  \* of each service
  drained,              \* history: snapshots taken out of the collector
  enqueued,             \* history: every item a service has queued
  popped,               \* history: every item a service has taken off its queue
  pdus                  \* history: the batches that became indications

env     == <<latest, produced>>
service == <<pending_items, generated_sent_keys>>
history == <<drained, enqueued, popped, pdus>>
vars    == <<env, live, service, history>>

-----------------------------------------------------------------------------
max_streams_per_pdu == 2

Item == [rnti : Rntis, timestamp : Nat, antenna_id : AntennaIds, generated : BOOLEAN]

Snapshot   == [rnti : Rntis, timestamp : Nat, antennas : Shapes]
NoSnapshot == [timestamp |-> 0]

(* The numbers of a set in the order of std::map's keys and of std::sort. *)
Sorted(S) == CHOOSE q \in [1..Cardinality(S) -> S] :
               \A i, j \in DOMAIN q : i < j => q[i] < q[j]

Streams(ue, antennas, isGenerated) ==
  [i \in 1..Len(antennas) |->
     [rnti |-> ue.rnti, timestamp |-> ue.timestamp, antenna_id |-> antennas[i],
      generated |-> isGenerated]]

(* Mutants of StreamsOf: received streams queued twice, or before the       *)
(* generated ones.                                                         *)
StreamsOfReceivedTwice(ue, keys) ==
  LET received == Streams(ue, Sorted(ue.antennas), FALSE)
      fresh    == {a \in ue.antennas : <<ue.rnti, a>> \notin keys}
  IN  Streams(ue, Sorted(fresh), TRUE) \o received \o received

StreamsOfReceivedFirst(ue, keys) ==
  LET fresh == {a \in ue.antennas : <<ue.rnti, a>> \notin keys}
  IN  Streams(ue, Sorted(ue.antennas), FALSE) \o Streams(ue, Sorted(fresh), TRUE)

(* What collect_measurements queues for one UE: the generated streams that  *)
(* this service has not queued before, then all the received ones, each in *)
(* antenna order.                                                          *)
StreamsOf(ue, keys) ==
  LET fresh == {a \in ue.antennas : <<ue.rnti, a>> \notin keys}
  IN  Streams(ue, Sorted(fresh), TRUE) \o Streams(ue, Sorted(ue.antennas), FALSE)

(* The UEs with a complete snapshot, and what get_all_complete_ue_data       *)
(* returns for them, in the order of the map.                              *)
CompleteRntis == {u \in Rntis : latest[u] # NoSnapshot}

CollectedItems(keys) ==
  LET ues == Sorted(CompleteRntis)
  IN  FlattenSeq([i \in 1..Len(ues) |-> StreamsOf(latest[ues[i]], keys)])

CollectedKeys == UNION {{u} \X latest[u].antennas : u \in CompleteRntis}

(* The first n items of a queue go into one PDU: they agree in rnti,        *)
(* timestamp and kind; a second one is put back if the payload would       *)
(* exceed the limit, and none is tried once the limit is reached.          *)
Bytes(items, n) == n * StreamBytes[items[1].rnti]

SameStream(i, j) == /\ i.rnti = j.rnti /\ i.timestamp = j.timestamp
                    /\ i.generated = j.generated

Batches(items, n) ==
  /\ n <= max_streams_per_pdu
  /\ \A i \in 2..n : /\ SameStream(items[i], items[1])
                     /\ Bytes(items, i) <= MaxPayloadBytes
                     /\ Bytes(items, i - 1) < MaxPayloadBytes

BatchLength(items) == Max({n \in 1..Len(items) : Batches(items, n)})

Init ==
  /\ latest = [u \in Rntis |-> NoSnapshot]
  /\ produced = [u \in Rntis |-> 0]
  /\ live = {}
  /\ pending_items = [s \in Services |-> <<>>]
  /\ generated_sent_keys = [s \in Services |-> {}]
  /\ drained = {}
  /\ enqueued = [s \in Services |-> <<>>]
  /\ popped = [s \in Services |-> <<>>]
  /\ pdus = [s \in Services |-> <<>>]

-----------------------------------------------------------------------------
(* The collector completes a snapshot of a UE.  Its timestamp is a number   *)
(* that only tells it from the other snapshots of the UE: neither the      *)
(* report service nor the xApp compares timestamps but for equality.  Two  *)
(* of one UE with the same timestamp, by a clock set back, are left out.   *)
Publish(u, antennas) ==
  /\ produced[u] < MaxTimestamp
  /\ produced' = [produced EXCEPT ![u] = @ + 1]
  /\ latest' = [latest EXCEPT ![u] =
                  [rnti |-> u, timestamp |-> produced[u] + 1, antennas |-> antennas]]
  /\ UNCHANGED <<live, service, history>>

(* The UE's next occasion begins; a snapshot not yet drained is gone. *)
Withdraw(u) ==
  /\ latest' = [latest EXCEPT ![u] = NoSnapshot]
  /\ UNCHANGED <<produced, live, service, history>>

(* get_e2sm_report_service for an action definition 0x02: a new service,    *)
(* with an empty queue and no keys.                                        *)
Subscribe(s) ==
  /\ s \notin live /\ enqueued[s] = <<>>
  /\ live' = live \cup {s}
  /\ UNCHANGED <<env, service, history>>

(* The E2 agent destroys the service of a deleted subscription. *)
Unsubscribe(s) ==
  /\ s \in live
  /\ live' = live \ {s}
  /\ pending_items' = [pending_items EXCEPT ![s] = <<>>]
  /\ generated_sent_keys' = [generated_sent_keys EXCEPT ![s] = {}]
  /\ UNCHANGED <<env, history>>

(* collect_measurements: every complete snapshot leaves the collector and   *)
(* becomes items of this service.  The mutants keep the snapshots for the   *)
(* other services, and queue the items at the front.                       *)
CollectWithoutDraining(s) ==
  /\ s \in live
  /\ LET items == CollectedItems(generated_sent_keys[s])
     IN  /\ pending_items' = [pending_items EXCEPT ![s] = @ \o items]
         /\ enqueued' = [enqueued EXCEPT ![s] = @ \o items]
  /\ generated_sent_keys' = [generated_sent_keys EXCEPT ![s] = @ \cup CollectedKeys]
  /\ drained' = drained \cup {latest[u] : u \in CompleteRntis}
  /\ UNCHANGED <<latest, produced, live, popped, pdus>>

CollectAtFront(s) ==
  /\ s \in live
  /\ LET items == CollectedItems(generated_sent_keys[s])
     IN  /\ pending_items' = [pending_items EXCEPT ![s] = items \o @]
         /\ enqueued' = [enqueued EXCEPT ![s] = @ \o items]
  /\ generated_sent_keys' = [generated_sent_keys EXCEPT ![s] = @ \cup CollectedKeys]
  /\ drained' = drained \cup {latest[u] : u \in CompleteRntis}
  /\ latest' = [u \in Rntis |-> NoSnapshot]
  /\ UNCHANGED <<produced, live, popped, pdus>>

collect_measurements(s) ==
  /\ s \in live
  /\ LET items == CollectedItems(generated_sent_keys[s])
     IN  /\ pending_items' = [pending_items EXCEPT ![s] = @ \o items]
         /\ enqueued' = [enqueued EXCEPT ![s] = @ \o items]
  /\ generated_sent_keys' = [generated_sent_keys EXCEPT ![s] = @ \cup CollectedKeys]
  /\ drained' = drained \cup {latest[u] : u \in CompleteRntis}
  /\ latest' = [u \in Rntis |-> NoSnapshot]
  /\ UNCHANGED <<produced, live, popped, pdus>>

(* get_indication_message of a service with items: a batch leaves the       *)
(* queue before the buffer is written, and is gone if that fails.          *)
(* The mutants drop the item put back, and forget to pop.                  *)
GetDropsPutBack(s) ==
  /\ s \in live /\ pending_items[s] # <<>>
  /\ LET items == pending_items[s]
         n     == BatchLength(items)
         rest  == SubSeq(items, n + 1, Len(items))
         over  == n = 1 /\ rest # <<>> /\ SameStream(rest[1], items[1])
     IN  /\ popped' = [popped EXCEPT ![s] = @ \o SubSeq(items, 1, n)]
         /\ pending_items' = [pending_items EXCEPT ![s] = IF over THEN Tail(rest) ELSE rest]
         /\ pdus' = [pdus EXCEPT ![s] = Append(@, SubSeq(items, 1, n))]
  /\ UNCHANGED <<env, live, generated_sent_keys, drained, enqueued>>

GetForgetsPop(s) ==
  /\ s \in live /\ pending_items[s] # <<>>
  /\ LET batch == SubSeq(pending_items[s], 1, BatchLength(pending_items[s]))
     IN  pdus' = [pdus EXCEPT ![s] = Append(@, batch)]
  /\ Len(pdus[s]) < MaxTimestamp
  /\ UNCHANGED <<env, live, service, drained, enqueued, popped>>

get_indication_message(s) ==
  /\ s \in live /\ pending_items[s] # <<>>
  /\ LET items == pending_items[s]
         n     == BatchLength(items)
         batch == SubSeq(items, 1, n)
     IN  /\ popped' = [popped EXCEPT ![s] = @ \o batch]
         /\ pending_items' = [pending_items EXCEPT ![s] = SubSeq(items, n + 1, Len(items))]
         /\ \/ pdus' = [pdus EXCEPT ![s] = Append(@, batch)]
            \/ AppendMayFail /\ UNCHANGED pdus
  /\ UNCHANGED <<env, live, generated_sent_keys, drained, enqueued>>

Next ==
  \/ \E u \in Rntis, antennas \in Shapes : Publish(u, antennas)
  \/ \E u \in Rntis : Withdraw(u)
  \/ \E s \in Services : Subscribe(s)
  \/ \E s \in Services : Unsubscribe(s)
  \/ \E s \in Services : collect_measurements(s)
  \/ \E s \in Services : get_indication_message(s)

Spec == Init /\ [][Next]_vars

-----------------------------------------------------------------------------
(* The variables hold values of the code's types. *)
TypeOK ==
  /\ latest \in [Rntis -> Snapshot \cup {NoSnapshot}]
  /\ produced \in [Rntis -> Nat]
  /\ live \subseteq Services
  /\ pending_items \in [Services -> Seq(Item)]
  /\ generated_sent_keys \in [Services -> SUBSET (Rntis \X AntennaIds)]
  /\ drained \subseteq Snapshot
  /\ enqueued \in [Services -> Seq(Item)]
  /\ popped \in [Services -> Seq(Item)]
  /\ pdus \in [Services -> Seq(Seq(Item))]

(* Batching neither drops nor repeats nor reorders an item, the oversize     *)
(* item that is tried and put back included: what has left the queue of a  *)
(* live service followed by what is in it is what was queued, and what     *)
(* left is what the indications carry, unless a buffer was not written.    *)
QueueConserved ==
  \A s \in Services :
    /\ s \in live => popped[s] \o pending_items[s] = enqueued[s]
    /\ ~AppendMayFail => FlattenSeq(pdus[s]) = popped[s]

(* "Enqueue generated/reference streams first": whichever subscription      *)
(* drains a snapshot, its subscriber has been sent the reference of every  *)
(* antenna before the antenna's first received stream, and with the        *)
(* reference sent once only that is what lets it use the stream.           *)
GeneratedSentFirst ==
  \A s \in Services : LET sent == FlattenSeq(pdus[s]) IN
    \A i \in 1..Len(sent) : ~sent[i].generated =>
      \E j \in 1..(i - 1) : /\ sent[j].generated
                            /\ sent[j].rnti = sent[i].rnti
                            /\ sent[j].antenna_id = sent[i].antenna_id

(* Where the received streams of a snapshot are in what a service queued. *)
ReceivedOf(s, snap) ==
  {i \in 1..Len(enqueued[s]) : /\ ~enqueued[s][i].generated
                               /\ enqueued[s][i].rnti = snap.rnti
                               /\ enqueued[s][i].timestamp = snap.timestamp}

(* A snapshot taken out of the collector goes whole to exactly one of the   *)
(* subscriptions, every antenna once, in order; none is split or lost      *)
(* although they compete for it.                                           *)
SnapshotToOneService ==
  \A snap \in drained : \E s \in Services :
    LET received == ReceivedOf(s, snap)
    IN  /\ {enqueued[s][i].antenna_id : i \in received} = snap.antennas
        /\ \A i, j \in received : i < j => enqueued[s][i].antenna_id < enqueued[s][j].antenna_id
        /\ \A t \in Services \ {s} : ReceivedOf(t, snap) = {}

(* A subscriber is sent the snapshots of a UE in the order they were taken, *)
(* whatever is lost in between.                                            *)
TimestampsInOrder ==
  \A s \in Services : LET sent == FlattenSeq(pdus[s]) IN
    \A i, j \in 1..Len(sent) : i < j /\ sent[i].rnti = sent[j].rnti
      => sent[i].timestamp <= sent[j].timestamp

(* Every item queued leaves the queue, one batch per report, unless the     *)
(* subscription goes first.                                                *)
QueueDrains ==
  \A s \in Services : \A n \in 1..(2 * MaxTimestamp * Cardinality(Rntis) * Cardinality(AntennaIds)) :
    Len(enqueued[s]) >= n ~> (Len(popped[s]) >= n \/ s \notin live)
=============================================================================
