----------------------------- MODULE SrsCapture -----------------------------
(***************************************************************************)
(* The producer side of the SRS stream: the PHY workers that run           *)
(* srs_estimator_generic_impl::estimate and forward the SRS of every       *)
(* receive port to the registered srs_data_collector, and the clients that *)
(* empty the collector from other threads.                                 *)
(*                                                                         *)
(* A worker walks its transmit ports, and for each the receive ports; for  *)
(* each pair, at the first SRS symbol, it reads the clock and then, in a   *)
(* second step, takes the collector's lock and adds the samples.           *)
(***************************************************************************)
EXTENDS SrsCollector, Sequences

CONSTANTS
  Rntis,            \* UEs that transmit SRS
  Workers,          \* threads of the upper PHY that run estimate()
  RxPorts,          \* config.ports: the receive ports of an estimate, in order
  NofTxPorts,       \* config.resource.nof_antenna_ports
  Overlap,          \* may two estimates of one UE be under way at once?
  LateRegistration, \* may the collector be registered in the middle of one?
  ClockSteps,       \* may the system clock be set back?
  Readers,          \* other members in use: subset of {"take", "cleanup"}
  TimeoutUs,        \* argument of cleanup_old_data
  MaxOccasion,      \* bound: SRS occasions per UE
  MaxClock          \* bound: the clock

ASSUME RxPortsAssumption ==
  /\ RxPorts \in Seq(AntennaIds) /\ RxPorts # <<>>
  /\ \A a \in AntennaIds : \E i \in 1..Len(RxPorts) : RxPorts[i] = a
  /\ \A i, j \in 1..Len(RxPorts) : RxPorts[i] = RxPorts[j] => i = j
ASSUME NofTxPortsAssumption == NofTxPorts \in Nat \ {0}
ASSUME FlagsAssumption ==
  /\ Overlap \in BOOLEAN /\ LateRegistration \in BOOLEAN /\ ClockSteps \in BOOLEAN
  /\ Readers \subseteq {"take", "cleanup"}
ASSUME BoundsAssumption ==
  MaxOccasion \in Nat /\ MaxClock \in Nat /\ TimeoutUs \in Nat

VARIABLES
  clock,       \* std::chrono::system_clock, in microseconds
  registered,  \* srs_e2_collector # nullptr
  pending,     \* pending_data_
  worker,      \* where each worker is in estimate()
  occasion,    \* the last SRS occasion of each UE
  captured,    \* history: last occasion all of whose ports were forwarded
  reports      \* history: what get_all_complete_ue_data returned, per UE

vars == <<clock, registered, pending, worker, occasion, captured, reports>>

-----------------------------------------------------------------------------
NofRxPorts == Len(RxPorts)

(* A worker outside estimate(), and one inside: the loop indices, and the  *)
(* timestamp once it has been read for the current port.                   *)
Idle   == [occasion |-> 0]
NoTime == 0

Estimate == [rnti : Rntis, occasion : Nat \ {0}, tx : 1..NofTxPorts,
             rx : 1..NofRxPorts, timestamp : Nat]

Busy(w)  == worker[w] # Idle
Quiet(u) == \A w \in Workers : Busy(w) => worker[w].rnti # u

(* The loops of estimate(): the next receive port, else the next transmit   *)
(* port from its first receive port, else the end.  The mutant runs one     *)
(* receive port too far.                                                   *)
NextPortTooFar(e) ==
  IF e.rx <= NofRxPorts THEN [e EXCEPT !.rx = @ + 1, !.timestamp = NoTime]
  ELSE IF e.tx < NofTxPorts THEN [e EXCEPT !.tx = @ + 1, !.rx = 1, !.timestamp = NoTime]
  ELSE Idle

NextPort(e) ==
  IF e.rx < NofRxPorts THEN [e EXCEPT !.rx = @ + 1, !.timestamp = NoTime]
  ELSE IF e.tx < NofTxPorts THEN [e EXCEPT !.tx = @ + 1, !.rx = 1, !.timestamp = NoTime]
  ELSE Idle

Init ==
  /\ clock = 1
  /\ registered = FALSE
  /\ pending = [u \in Rntis |-> NoUeData]
  /\ worker = [w \in Workers |-> Idle]
  /\ occasion = [u \in Rntis |-> 0]
  /\ captured = [u \in Rntis |-> 0]
  /\ reports = [u \in Rntis |-> <<>>]

-----------------------------------------------------------------------------
(* register_srs_e2_data_collector, called when the E2 agent is created. *)
RegisterCollector ==
  /\ LateRegistration \/ \A w \in Workers : ~Busy(w)
  /\ registered' = TRUE
  /\ UNCHANGED <<clock, pending, worker, occasion, captured, reports>>

(* A worker takes up the next SRS occasion of a UE, which is on the air     *)
(* later than anything before it.  (An estimate without a context forwards *)
(* nothing and is not a step.)                                             *)
StartEstimate(w, u) ==
  /\ ~Busy(w)
  /\ Overlap \/ Quiet(u)
  /\ occasion[u] < MaxOccasion /\ clock < MaxClock
  /\ clock' = clock + 1
  /\ occasion' = [occasion EXCEPT ![u] = @ + 1]
  /\ worker' = [worker EXCEPT ![w] =
                  [rnti |-> u, occasion |-> occasion[u] + 1, tx |-> 1, rx |-> 1,
                   timestamp |-> NoTime]]
  /\ UNCHANGED <<registered, pending, captured, reports>>

(* timestamp_us = get_current_timestamp_us(), before any lock is taken. *)
ReadTimestamp(w) ==
  /\ Busy(w) /\ worker[w].timestamp = NoTime
  /\ worker' = [worker EXCEPT ![w].timestamp = clock]
  /\ UNCHANGED <<clock, registered, pending, occasion, captured, reports>>

(* collector->add_srs_data, or nothing while no collector is registered;    *)
(* the worker moves on to its next port.                                   *)
ForwardSrs(w) ==
  /\ Busy(w) /\ worker[w].timestamp # NoTime
  /\ LET e == worker[w]
         u == e.rnti
     IN  /\ pending' = IF ~registered THEN pending
                       ELSE [pending EXCEPT ![u] =
                               AddSrsData(pending[u], RxPorts[e.rx],
                                          [occasion |-> e.occasion, tx |-> e.tx],
                                          e.timestamp)]
         /\ worker' = [worker EXCEPT ![w] = NextPort(e)]
         /\ captured' = IF registered /\ NextPort(e) = Idle
                        THEN [captured EXCEPT ![u] = e.occasion] ELSE captured
  /\ UNCHANGED <<clock, registered, occasion, reports>>

(* get_all_complete_ue_data, called by a report service of the E2 agent.    *)
Drain ==
  /\ reports' = [u \in Rntis |-> IF u \in CompleteUes(pending)
                                 THEN Append(reports[u], pending[u]) ELSE reports[u]]
  /\ pending' = WithoutComplete(pending)
  /\ UNCHANGED <<clock, registered, worker, occasion, captured>>

(* get_and_clear_ue_data: the caller gets whatever is there. *)
Take(u) ==
  /\ "take" \in Readers
  /\ pending' = WithoutUe(pending, u)
  /\ UNCHANGED <<clock, registered, worker, occasion, captured, reports>>

(* cleanup_old_data(TimeoutUs). *)
Cleanup ==
  /\ "cleanup" \in Readers
  /\ pending' = WithoutOld(pending, clock, TimeoutUs)
  /\ UNCHANGED <<clock, registered, worker, occasion, captured, reports>>

Tick ==
  /\ clock < MaxClock
  /\ clock' = clock + 1
  /\ UNCHANGED <<registered, pending, worker, occasion, captured, reports>>

(* system_clock is not monotonic. *)
StepClockBack ==
  /\ ClockSteps /\ clock > 1
  /\ clock' = clock - 1
  /\ UNCHANGED <<registered, pending, worker, occasion, captured, reports>>

Next ==
  \/ RegisterCollector
  \/ \E w \in Workers, u \in Rntis : StartEstimate(w, u)
  \/ \E w \in Workers : ReadTimestamp(w)
  \/ \E w \in Workers : ForwardSrs(w)
  \/ Drain
  \/ \E u \in Rntis : Take(u)
  \/ Cleanup
  \/ Tick
  \/ StepClockBack

Spec == Init /\ [][Next]_vars

(* A worker inside estimate() runs on; the E2 agent's report timer keeps    *)
(* calling collect_measurements while a subscription lives.                *)
Fairness ==
  /\ \A w \in Workers : WF_vars(ReadTimestamp(w)) /\ WF_vars(ForwardSrs(w))
  /\ WF_vars(Drain)

FairSpec == Spec /\ Fairness

-----------------------------------------------------------------------------
(* The variables hold values of the code's types. *)
TypeOK ==
  /\ clock \in Nat
  /\ registered \in BOOLEAN
  /\ pending \in [Rntis -> UeData]
  /\ worker \in [Workers -> Estimate \cup {Idle}]
  /\ occasion \in [Rntis -> Nat]
  /\ captured \in [Rntis -> Nat]
  /\ reports \in [Rntis -> Seq(UeData)]

(* All the antennas of a snapshot carry the same occasion and transmit port *)
OneOccasion(ue) == \A a, b \in Held(ue) : ue.antenna_data[a] = ue.antenna_data[b]

(* "Keep a single SRS occasion snapshot per UE": a snapshot handed to a     *)
(* report service never mixes antennas of two occasions, although antennas *)
(* are added one by one and the collector is emptied in between.           *)
SnapshotFromOneOccasion ==
  \A u \in Rntis : \A i \in 1..Len(reports[u]) : OneOccasion(reports[u][i])

(* A snapshot handed to a report service holds every antenna the estimate   *)
(* forwards: "SRS from all antennas for a UE".                             *)
SnapshotCoversEveryAntenna ==
  \A u \in Rntis : \A i \in 1..Len(reports[u]) : Held(reports[u][i]) = AntennaIds

(* "... to avoid unbounded growth": however many antennas report, and       *)
(* whatever the workers and readers do, no entry ever holds more antennas  *)
(* than are configured, and a snapshot handed over holds exactly as many.  *)
SnapshotBounded ==
  /\ \A u \in Rntis : Cardinality(Held(pending[u])) <= NumRxAntennas
  /\ \A u \in Rntis : \A i \in 1..Len(reports[u]) :
       Cardinality(Held(reports[u][i])) = NumRxAntennas

(* The snapshots of a UE leave the collector in the order of its occasions, *)
(* and no part of one leaves twice, whenever the readers come.             *)
ReportsFollowOccasions ==
  \A u \in Rntis : \A i, j \in 1..Len(reports[u]) : i < j =>
    \A a \in Held(reports[u][i]), b \in Held(reports[u][j]) :
      Before(reports[u][i].antenna_data[a], reports[u][j].antenna_data[b])

(* "Forward ... on first SRS symbol only to avoid duplicates": two snapshots *)
(* of a UE are never of the same occasion.                                 *)
OccasionReportedOnce ==
  \A u \in Rntis : \A i, j \in 1..Len(reports[u]) : i # j =>
    \A a \in Held(reports[u][i]), b \in Held(reports[u][j]) :
      reports[u][i].antenna_data[a].occasion # reports[u][j].antenna_data[b].occasion

(* A snapshot of the occasion o of a UE. *)
OfOccasion(ue, o) == /\ Held(ue) = AntennaIds
                     /\ \A a \in AntennaIds : ue.antenna_data[a].occasion = o

LastReport(u) == reports[u][Len(reports[u])]

(* Between two occasions, the last one captured is neither lost nor torn:   *)
(* it waits complete in the collector, or it was the last one handed over. *)
LastCaptureAvailable ==
  \A u \in Rntis : captured[u] > 0 /\ Quiet(u) =>
    \/ IsComplete(pending[u]) /\ OfOccasion(pending[u], captured[u])
    \/ reports[u] # <<>> /\ OfOccasion(LastReport(u), captured[u])

(* A step takes antennas out of an entry only by completing its delivery or *)
(* by starting the next occasion on a full one: an incomplete entry loses  *)
(* nothing to the readers that drain the collector meanwhile.              *)
IncompleteKeepsAntennas ==
  [][\A u \in Rntis : ~IsComplete(pending[u]) => Held(pending[u]) \subseteq Held(pending'[u])]_vars

(* "Clear old incomplete data": a complete snapshot leaves the collector    *)
(* only to be reported, or overwritten by a newer one; it is not dropped.  *)
(* The readers that drain keep to this; cleanup_old_data, whose comment    *)
(* this is, does not.                                                      *)
CompleteNotDropped ==
  [][\A u \in Rntis : IsComplete(pending[u]) /\ Held(pending'[u]) = {} =>
       Len(reports'[u]) > Len(reports[u])]_vars

(* Every occasion captured in full is reported, unless the UE's next        *)
(* occasion begins first.                                                  *)
Reported(u, o) == \E i \in 1..Len(reports[u]) : OfOccasion(reports[u][i], o)

CapturedIsReportedOrSuperseded ==
  \A u \in Rntis : \A o \in 1..MaxOccasion :
    captured[u] = o ~> (Reported(u, o) \/ occasion[u] > o)

(***************************************************************************)
(* The inductive invariant behind SnapshotFromOneOccasion and              *)
(* SnapshotCoversEveryAntenna.  It holds when the collector is used as the *)
(* DU means to: at most one estimate per UE at a time, the collector       *)
(* registered between estimates and emptied by the report services only,   *)
(* and configured for the number of ports the estimates have.              *)
(***************************************************************************)
IntendedUse == /\ ~Overlap /\ ~LateRegistration /\ Readers = {}
               /\ NumRxAntennas = NofRxPorts

(* The ports of the current transmit port that have been forwarded. *)
Forwarded(e) == {RxPorts[i] : i \in 1..(e.rx - 1)}

(* An entry between two transmit ports: none, or one whole snapshot. *)
NoneOrWhole(ue) == \/ Held(ue) = {}
                   \/ Held(ue) = AntennaIds /\ OneOccasion(ue)

(* The entry of a UE follows the worker on it: whole until the worker       *)
(* forwards its first port, then exactly the ports forwarded, all of the   *)
(* worker's occasion and transmit port.                                    *)
EntryFollows(e) ==
  LET ue == pending[e.rnti]
  IN  IF e.rx = 1 THEN NoneOrWhole(ue)
      ELSE /\ Held(ue) = Forwarded(e)
           /\ \A a \in Held(ue) : ue.antenna_data[a] = [occasion |-> e.occasion, tx |-> e.tx]

OneWorkerPerUe == \A v, w \in Workers :
  Busy(v) /\ Busy(w) /\ worker[v].rnti = worker[w].rnti => v = w

EmptyUntilRegistered == ~registered => \A u \in Rntis : Held(pending[u]) = {}

(* Entry and worker of every UE agree at every step. *)
EntriesFollowWorkers ==
  /\ OneWorkerPerUe
  /\ EmptyUntilRegistered
  /\ registered => \A w \in Workers : Busy(w) => EntryFollows(worker[w])
  /\ \A u \in Rntis : Quiet(u) => NoneOrWhole(pending[u])

(* How the collector implements SnapshotBox: the box of a UE is full while  *)
(* its entry is complete.                                                  *)
Origin(ue) == ue.antenna_data[RxPorts[NofRxPorts]]

LatestWhole == [u \in Rntis |-> IF IsComplete(pending[u]) THEN Origin(pending[u]) ELSE NoSample]
Collected   == [u \in Rntis |-> [i \in 1..Len(reports[u]) |-> Origin(reports[u][i])]]

Box == INSTANCE SnapshotBox WITH latest <- LatestWhole, out <- Collected

(* Seen by its readers, the collector with its antennas filled one by one   *)
(* under a lock per antenna behaves as a box with one snapshot per UE.     *)
ImplementsSnapshotBox == Box!Spec
=============================================================================
