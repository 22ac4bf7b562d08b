------------------------------ MODULE SrsPath ------------------------------
(***************************************************************************)
(* The whole path of the SRS stream from the collector to the xApp: the    *)
(* report services of SrsReport, the RIC that carries their indications,   *)
(* and the xApp (Xapp) that puts snapshots together again.                 *)
(*                                                                         *)
(* E2AP runs over SCTP, but between the RIC's E2 termination and the xApp  *)
(* indications may be lost or overtake each other.  The xApp may be        *)
(* restarted; it does not end its subscription when it stops, so the       *)
(* report service of the old one goes on draining the collector.           *)
(***************************************************************************)
EXTENDS SrsReport, Xapp

CONSTANTS
  Lossy,        \* may an indication be lost on its way?
  Reordering,   \* may an indication overtake an earlier one?
  MayRestart,   \* may the xApp be restarted?
  SequenceOf,   \* the SRS sequence a UE sends in each of its snapshots
  NoService     \* no subscription

ASSUME PathFlagsAssumption ==
  Lossy \in BOOLEAN /\ Reordering \in BOOLEAN /\ MayRestart \in BOOLEAN
ASSUME NoServiceAssumption == NoService \notin Services

VARIABLES
  subscription,  \* the service whose indications the running xApp is sent
  xapp,          \* its state
  gone,          \* of each service, the indications that are under way no more
  handled        \* history: the streams the running xApp has been given

ric      == <<subscription, xapp, gone, handled>>
pathVars == <<vars, ric>>

PathInit ==
  /\ Init
  /\ subscription = NoService
  /\ xapp = FreshXapp
  /\ gone = [s \in Services |-> {}]
  /\ handled = <<>>

-----------------------------------------------------------------------------
(* start: the xApp subscribes to the SRS stream. *)
Start(s) ==
  /\ subscription = NoService
  /\ Subscribe(s)
  /\ subscription' = s
  /\ UNCHANGED <<xapp, gone, handled>>

(* signal_handler, or a crash, and main again: everything is forgotten, and *)
(* nothing is unsubscribed.                                                *)
Restart ==
  /\ MayRestart /\ subscription # NoService
  /\ subscription' = NoService
  /\ xapp' = FreshXapp
  /\ handled' = <<>>
  /\ UNCHANGED <<vars, gone>>

UnderWay(s) == DOMAIN pdus[s] \ gone[s]

(* An indication reaches the xApp, which knows it by its subscription: one  *)
(* for a subscription of an earlier run is dropped.                        *)
Deliver(s, p) ==
  /\ p \in UnderWay(s)
  /\ Reordering \/ \A q \in UnderWay(s) : p <= q
  /\ gone' = [gone EXCEPT ![s] = @ \cup {p}]
  /\ IF s = subscription
     THEN /\ xapp' = srs_indication_callback(xapp, pdus[s][p])
          /\ handled' = handled \o pdus[s][p]
     ELSE UNCHANGED <<xapp, handled>>
  /\ UNCHANGED <<vars, subscription>>

Lose(s, p) ==
  /\ Lossy
  /\ p \in UnderWay(s)
  /\ gone' = [gone EXCEPT ![s] = @ \cup {p}]
  /\ UNCHANGED <<vars, subscription, xapp, handled>>

Gnb ==
  \/ \E u \in Rntis, antennas \in Shapes : Publish(u, antennas)
  \/ \E u \in Rntis : Withdraw(u)
  \/ \E s \in Services : Unsubscribe(s)
  \/ \E s \in Services : collect_measurements(s)
  \/ \E s \in Services : get_indication_message(s)

PathNext ==
  \/ Gnb /\ UNCHANGED ric
  \/ \E s \in Services : Start(s)
  \/ Restart
  \/ \E s \in Services : \E p \in UnderWay(s) : Deliver(s, p)
  \/ \E s \in Services : \E p \in UnderWay(s) : Lose(s, p)

PathSpec == PathInit /\ [][PathNext]_pathVars

(* The report timers run, and the RIC delivers what it does not lose. *)
PathFairSpec ==
  /\ PathSpec
  /\ \A s \in Services :
       /\ WF_pathVars(get_indication_message(s) /\ UNCHANGED ric)
       /\ WF_pathVars(\E p \in UnderWay(s) : Deliver(s, p))

-----------------------------------------------------------------------------
completed == xapp.completed_srs_messages

(* The variables hold values of the code's types. *)
PathTypeOK ==
  LET samples == [rnti : Rntis, timestamp : 1..MaxTimestamp, antenna_id : AntennaIds]
  IN  /\ TypeOK
      /\ subscription \in Services \cup {NoService}
      /\ xapp.generated_srs_cache \subseteq samples
      /\ xapp.pending_received_srs \subseteq samples
      /\ \A m \in 1..Len(completed) :
           /\ completed[m].received \subseteq samples
           /\ completed[m].references \subseteq samples
      /\ \A s \in Services : gone[s] \subseteq DOMAIN pdus[s]
      /\ handled \in Seq(Item)

AntennasOf(samples) == {p.antenna_id : p \in samples}

(* A message of the xApp is one snapshot of the collector, with every       *)
(* antenna of it and of no other, and for each antenna a reference of the  *)
(* same UE and antenna: whatever is lost, late or left over from before.   *)
AssembledFromOneSnapshot ==
  \A m \in 1..Len(completed) :
    /\ \E snap \in drained :
         /\ SameSnapshot(snap, completed[m])
         /\ AntennasOf(completed[m].received) = snap.antennas
         /\ AntennasOf(completed[m].references) = snap.antennas
    /\ \A p \in completed[m].received : SameSnapshot(p, completed[m])
    /\ \A p \in completed[m].references : p.rnti = completed[m].rnti

(* No snapshot is assembled twice by one run of the xApp. *)
AssembledOnce ==
  \A m, n \in 1..Len(completed) : SameSnapshot(completed[m], completed[n]) => m = n

IsAssembled(snap) == \E m \in 1..Len(completed) : SameSnapshot(completed[m], snap)

ArrivedWhole(snap) ==
  \A a \in snap.antennas : \E i \in 1..Len(handled) :
    ~handled[i].generated /\ SameSnapshot(handled[i], snap) /\ handled[i].antenna_id = a

(* Once every received stream of a snapshot has arrived, it is assembled if *)
(* and only if the references of all its antennas had arrived before the   *)
(* last of them; a reference that comes later no longer helps it.          *)
AssembledExactlyWhen ==
  \A snap \in drained :
    IsAssembled(snap) <=>
      /\ ArrivedWhole(snap)
      /\ \E last \in 1..Len(handled) :
           /\ ~handled[last].generated /\ SameSnapshot(handled[last], snap)
           /\ \A a \in snap.antennas : \E i \in 1..(last - 1) :
                /\ handled[i].generated
                /\ handled[i].rnti = snap.rnti /\ handled[i].antenna_id = a

(* What the xApp has been given is what its subscription queued, from the   *)
(* start and without a gap: nothing was lost or overtaken so far.          *)
Undisturbed == subscription # NoService /\ IsPrefix(handled, enqueued[subscription])

(* As long as nothing is lost the xApp waits for nothing: whatever has      *)
(* arrived whole is assembled, across restarts and with the subscription   *)
(* of an earlier run competing for the snapshots, and what waits is of one *)
(* snapshot.                                                               *)
ArrivedIsAssembled ==
  Undisturbed =>
    /\ \A snap \in drained : ArrivedWhole(snap) => IsAssembled(snap)
    /\ \A p, q \in xapp.pending_received_srs : SameSnapshot(p, q)

(* generated_srs is the "expected SRS sequence" of what was received: the   *)
(* references of a message are of the sequence its UE sent.                *)
ReferencesMatch ==
  \A m \in 1..Len(completed) : \A p \in completed[m].references :
    SequenceOf[p.rnti][p.timestamp] = SequenceOf[p.rnti][completed[m].timestamp]

(* A snapshot that the subscription of the running xApp takes out of the    *)
(* collector is assembled in the end, unless the xApp or the subscription  *)
(* ends first.                                                             *)
CollectedIsAssembled ==
  \A s \in Services : \A u \in Rntis : \A t \in 1..MaxTimestamp :
    LET snap == [rnti |-> u, timestamp |-> t]
    IN  (subscription = s /\ ReceivedOf(s, snap) # {})
          ~> (IsAssembled(snap) \/ subscription # s \/ s \notin live)
=============================================================================
