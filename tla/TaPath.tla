------------------------------- MODULE TaPath -------------------------------
(***************************************************************************)
(* The path of the timing-advance stream from the MAC to the messages of   *)
(* the xApp: the store and the report services of TaReport, the RIC that   *)
(* carries their indications, and the xApp (Xapp), which keeps the last    *)
(* observation under each number and puts it into the SRS messages of the  *)
(* UE whose RNTI that number is.                                           *)
(*                                                                         *)
(* Indications may be lost or overtake each other, and the xApp may be     *)
(* restarted without ending its subscription, as in SrsPath.  Of the SRS   *)
(* stream only its effect is left: the snapshot of a UE arrives whole.     *)
(***************************************************************************)
EXTENDS TaReport, Xapp

CONSTANTS
  Rntis,         \* UEs, by their RNTIs
  ObservationOf, \* of each record, in turn: its UE, and what the MAC knew of it
  MaxMessages,   \* bound: SRS messages of one run of the xApp
  Lossy,         \* may an indication be lost on its way?
  Reordering,    \* may an indication overtake an earlier one?
  NoService      \* no subscription

ASSUME ObservationAssumption ==
  ObservationOf \in [1..MaxRecords -> [ue : Rntis, rnti : Nat, ue_index : Nat]]
(* An RNTI that the MAC knows is the UE's; it leaves 0 in the record when it *)
(* knows none.                                                             *)
ASSUME ObservedRntiAssumption ==
  \A n \in 1..MaxRecords : ObservationOf[n].rnti \in {0, ObservationOf[n].ue}
ASSUME TaPathFlagsAssumption ==
  Lossy \in BOOLEAN /\ Reordering \in BOOLEAN /\ MaxMessages \in Nat
ASSUME TaNoServiceAssumption == NoService \notin Services

VARIABLES
  subscription,  \* the service whose indications the running xApp is sent
  xapp,          \* its state
  gone,          \* of each service, the indications that are under way no more
  handled        \* history: the records the running xApp has been given

ric      == <<subscription, xapp, gone, handled>>
pathVars == <<vars, ric>>

completed == xapp.completed_srs_messages

PathInit ==
  /\ Init
  /\ subscription = NoService
  /\ xapp = FreshXapp
  /\ gone = [s \in Services |-> {}]
  /\ handled = <<>>

-----------------------------------------------------------------------------
(* The records of an indication, as the xApp's parser returns them. *)
Observed(n) ==
  Identified([record |-> n, rnti |-> ObservationOf[n].rnti,
              ue_index |-> ObservationOf[n].ue_index])

Observations(records_) == [i \in DOMAIN records_ |-> Observed(records_[i])]

UnderWay(s) == DOMAIN indications[s] \ gone[s]

(* start: the xApp subscribes to the timing-advance stream. *)
Start(s) ==
  /\ subscription = NoService /\ UnderWay(s) = {}
  /\ Subscribe(s)
  /\ subscription' = s
  /\ UNCHANGED <<xapp, gone, handled>>

(* signal_handler, or a crash, and main again: everything is forgotten, and *)
(* nothing is unsubscribed.                                                *)
Restart ==
  /\ subscription # NoService
  /\ subscription' = NoService
  /\ xapp' = FreshXapp
  /\ handled' = <<>>
  /\ UNCHANGED <<vars, gone>>

(* An indication of the xApp's subscription reaches its callback. *)
Deliver(s, p) ==
  /\ p \in UnderWay(s)
  /\ Reordering \/ \A q \in UnderWay(s) : p <= q
  /\ gone' = [gone EXCEPT ![s] = @ \cup {p}]
  /\ IF s = subscription
     THEN /\ xapp' = timing_advance_indication_callback(xapp, Observations(indications[s][p]))
          /\ handled' = handled \o indications[s][p]
     ELSE UNCHANGED <<xapp, handled>>
  /\ UNCHANGED <<vars, subscription>>

Lose(s, p) ==
  /\ Lossy
  /\ p \in UnderWay(s)
  /\ gone' = [gone EXCEPT ![s] = @ \cup {p}]
  /\ UNCHANGED <<vars, subscription, xapp, handled>>

(* A snapshot of a UE, of one antenna and with its reference, arrives. *)
DeliverSnapshot(u) ==
  /\ subscription # NoService
  /\ Len(completed) < MaxMessages
  /\ LET stream(isGenerated) == [rnti |-> u, timestamp |-> Len(completed) + 1,
                                 antenna_id |-> 0, generated |-> isGenerated]
     IN  xapp' = srs_indication_callback(xapp, <<stream(TRUE), stream(FALSE)>>)
  /\ UNCHANGED <<vars, subscription, gone, handled>>

Gnb ==
  \/ push_ta_indication
  \/ \E s \in Services : Unsubscribe(s)
  \/ \E s \in Services : collect_measurements(s)
  \/ \E s \in Services : get_indication_message(s)

PathNext ==
  \/ Gnb /\ UNCHANGED ric
  \/ \E s \in Services : Start(s)
  \/ Restart
  \/ \E s \in Services : \E p \in UnderWay(s) : Deliver(s, p)
  \/ \E s \in Services : \E p \in UnderWay(s) : Lose(s, p)
  \/ \E u \in Rntis : DeliverSnapshot(u)

PathSpec == PathInit /\ [][PathNext]_pathVars

(* The report timer of a live subscription keeps running. *)
PathFairSpec ==
  /\ PathSpec
  /\ \A s \in Services : /\ WF_pathVars(collect_measurements(s) /\ UNCHANGED ric)
                         /\ WF_pathVars(get_indication_message(s) /\ UNCHANGED ric)

-----------------------------------------------------------------------------
(* The variables hold values of the code's types, and the dictionary has    *)
(* one observation for a key.                                              *)
TaPathTypeOK ==
  /\ TypeOK
  /\ subscription \in Services \cup {NoService}
  /\ xapp.latest_timing_advance \subseteq {Observed(n) : n \in 1..MaxRecords}
  /\ \A o, p \in xapp.latest_timing_advance : o.rnti = p.rnti => o = p
  /\ \A m \in DOMAIN completed : completed[m].timing_advance \subseteq xapp.latest_timing_advance
                                   \cup {Observed(n) : n \in ToSet(handled)}
  /\ \A s \in Services : gone[s] \subseteq DOMAIN indications[s]
  /\ handled \in Seq(1..MaxRecords)

(* The timing advance in a message is that of the message's UE; only an     *)
(* observation that came without an RNTI, from a UE whose index is the     *)
(* RNTI of this one, is taken for it.                                      *)
TimingAdvanceOfUe ==
  \A m \in DOMAIN completed : \A o \in completed[m].timing_advance :
    LET observation == ObservationOf[o.record]
    IN  \/ observation.ue = completed[m].rnti
        \/ observation.rnti = 0 /\ observation.ue_index = completed[m].rnti

(* Nothing the xApp was given is older than what it was given before. *)
Overtaken == \E i, j \in DOMAIN handled : i < j /\ handled[i] > handled[j]

(* A message has the timing advance that was observed last of all that this *)
(* run of the xApp was given for the number, and has one if any was given: *)
(* stale it is only by what the network does, which may lose an indication *)
(* or let one overtake another.                                            *)
AttachesFreshest ==
  [][ Len(completed') > Len(completed) =>
        LET message == completed'[Len(completed')]
            given   == {n \in ToSet(handled) : Observed(n).rnti = message.rnti}
        IN  /\ message.timing_advance = {} <=> given = {}
            /\ ~Overtaken => \A o \in message.timing_advance : \A n \in given : n <= o.record
    ]_pathVars
=============================================================================
