---------------------------- MODULE SrsCollector ----------------------------
(***************************************************************************)
(* The data structure behind srs_data_collector (lib/e2/e2_srs_handler.cpp):*)
(* for each UE one snapshot in the making, a map from receive antenna to   *)
(* the SRS taken on it.  Every member function holds pending_data_mutex_   *)
(* for its whole body, so each is one operator here and one atomic step of *)
(* the modules that use it.                                                *)
(*                                                                         *)
(* Samples are abstracted to where they come from: the occasion of the UE  *)
(* and the transmit port whose sequence was correlated.  The generated and *)
(* the received samples of an antenna are always assigned together, so one *)
(* tag stands for both.                                                    *)
(***************************************************************************)
EXTENDS SrsSample, Integers, FiniteSets

CONSTANTS
  AntennaIds,     \* antenna ids add_srs_data is called with
  NumRxAntennas,  \* config_.num_rx_antennas
  ClockModulus    \* timestamps are unsigned: 2^64 in the code

ASSUME NumRxAntennasAssumption == NumRxAntennas \in Nat \ {0}
ASSUME AntennaIdsAssumption    == IsFiniteSet(AntennaIds)
ASSUME ClockModulusAssumption  == ClockModulus \in Nat \ {0}

-----------------------------------------------------------------------------
(* A UE without an entry in pending_data_.  add_srs_data never leaves an    *)
(* entry without antennas, so an empty antenna_data means no entry.        *)
NoUeData == [timestamp |-> 0, antenna_data |-> [a \in AntennaIds |-> NoSample]]

UeData == [timestamp : Nat, antenna_data : [AntennaIds -> Sample]]

(* The antennas antenna_data holds. *)
Held(ue) == {a \in AntennaIds : ue.antenna_data[a] # NoSample}

(* Mutants of IsComplete. *)
IsCompleteOneLate(ue)  == Cardinality(Held(ue)) > NumRxAntennas
IsCompleteOneEarly(ue) == Cardinality(Held(ue)) + 1 >= NumRxAntennas

IsComplete(ue) == Cardinality(Held(ue)) >= NumRxAntennas

(* Mutants of AddSrsData: the full snapshot is kept, and only the antenna   *)
(* is replaced; the antenna is not looked up, so a full snapshot is never  *)
(* emptied and the first antenna found keeps its samples.                  *)
AddSrsDataNoReset(ue, antenna_id, sample, timestamp) ==
  [timestamp    |-> timestamp,
   antenna_data |-> [ue.antenna_data EXCEPT ![antenna_id] = sample]]

AddSrsDataKeepsFirst(ue, antenna_id, sample, timestamp) ==
  [timestamp    |-> IF Held(ue) = {} THEN timestamp ELSE ue.timestamp,
   antenna_data |-> IF antenna_id \in Held(ue) THEN ue.antenna_data
                    ELSE [ue.antenna_data EXCEPT ![antenna_id] = sample]]

AddSrsData(ue, antenna_id, sample, timestamp) ==
  LET kept == IF IsComplete(ue) THEN NoUeData.antenna_data ELSE ue.antenna_data
  IN  [timestamp    |-> timestamp,
       antenna_data |-> [kept EXCEPT ![antenna_id] = sample]]

(* get_all_complete_ue_data: which UEs it returns, and what it leaves. *)
CompleteUes(pending_data) == {u \in DOMAIN pending_data : IsComplete(pending_data[u])}

(* Mutants of WithoutComplete: everything is erased; nothing is erased. *)
WithoutAny(pending_data)   == [u \in DOMAIN pending_data |-> NoUeData]
WithoutErase(pending_data) == pending_data

WithoutComplete(pending_data) ==
  [u \in DOMAIN pending_data |->
     IF u \in CompleteUes(pending_data) THEN NoUeData ELSE pending_data[u]]

(* get_and_clear_ue_data, whatever the entry holds. *)
WithoutUe(pending_data, rnti) == [pending_data EXCEPT ![rnti] = NoUeData]

(* cleanup_old_data: the unsigned difference wraps when the clock is behind *)
(* the timestamp.  Completeness is not looked at.                          *)
Age(current_time, timestamp) == (current_time - timestamp) % ClockModulus

WithoutOld(pending_data, current_time, timeout_us) ==
  [u \in DOMAIN pending_data |->
     IF Age(current_time, pending_data[u].timestamp) > timeout_us
     THEN NoUeData ELSE pending_data[u]]
=============================================================================
