-------------------------------- MODULE Xapp --------------------------------
(***************************************************************************)
(* The state of simple_runoran_xapp.py and what its two callbacks do with  *)
(* one indication.  A callback runs to its end before the next one, so it  *)
(* is one operator here and one step of the modules that use it.           *)
(*                                                                         *)
(* The dictionaries are sets of records, whose fields are the keys and,    *)
(* for the samples, the snapshot they were taken from: its timestamp.      *)
(***************************************************************************)
EXTENDS Integers, FiniteSets, SequencesExt

CONSTANT expected_rx_antennas

ASSUME ExpectedAntennasAssumption == expected_rx_antennas \in Nat \ {0}

(* The state after __init__. *)
FreshXapp == [generated_srs_cache |-> {}, pending_received_srs |-> {},
              completed_srs_messages |-> <<>>, latest_timing_advance |-> {}]

(* What is stored of a stream.  The mutant swaps the two keys. *)
SampleSwapped(stream) == [rnti |-> stream.antenna_id, timestamp |-> stream.timestamp,
                          antenna_id |-> stream.rnti]

Sample(stream) == [rnti |-> stream.rnti, timestamp |-> stream.timestamp,
                   antenna_id |-> stream.antenna_id]

SameAntenna(p, q)  == p.rnti = q.rnti /\ p.antenna_id = q.antenna_id
SameSnapshot(p, q) == p.rnti = q.rnti /\ p.timestamp = q.timestamp

(* Mutant of _store_generated_srs: the cache is keyed by UE alone. *)
StoreGeneratedPerUe(x, stream) ==
  [x EXCEPT !.generated_srs_cache = {g \in @ : g.rnti # stream.rnti} \cup {Sample(stream)}]

_store_generated_srs(x, stream) ==
  [x EXCEPT !.generated_srs_cache =
     {g \in @ : ~SameAntenna(g, stream)} \cup {Sample(stream)}]

(* sorted(...)[: expected_rx_antennas] *)
Candidates(received) ==
  {p \in received : Cardinality({q \in received : q.antenna_id < p.antenna_id})
                      < expected_rx_antennas}

References(x, candidates) ==
  {g \in x.generated_srs_cache : \E p \in candidates : SameAntenna(g, p)}

(* Do these streams make a message, and which?  The mutants do not look for *)
(* the references, and wait for an antenna too many.                       *)
AssemblesUnreferenced(x, received) == Cardinality(received) >= expected_rx_antennas
AssemblesOneLate(x, received)      == Cardinality(received) > expected_rx_antennas

Assembles(x, received) ==
  LET candidates == Candidates(received)
  IN  /\ Cardinality(received) >= expected_rx_antennas
      /\ Cardinality(References(x, candidates)) = Cardinality(candidates)

(* With the last observation under the UE's RNTI, if there is one. *)
Message(x, stream, received) ==
  [rnti |-> stream.rnti, timestamp |-> stream.timestamp,
   received |-> Candidates(received), references |-> References(x, Candidates(received)),
   timing_advance |-> {o \in x.latest_timing_advance : o.rnti = stream.rnti}]

(* Mutant of _try_assemble_snapshot: the streams of all the snapshots of    *)
(* the UE are looked at.                                                   *)
AssembleAcrossSnapshots(x, stream) ==
  LET received == {p \in x.pending_received_srs : p.rnti = stream.rnti}
  IN  IF ~Assembles(x, received) THEN x
      ELSE [x EXCEPT !.completed_srs_messages = Append(@, Message(x, stream, received)),
                     !.pending_received_srs = @ \ received]

(* What a received stream that was just stored completes, if anything: the  *)
(* expected number of antennas of its snapshot, each with a reference.     *)
_try_assemble_snapshot(x, stream) ==
  LET received == {p \in x.pending_received_srs : SameSnapshot(p, stream)}
  IN  IF ~Assembles(x, received) THEN x
      ELSE [x EXCEPT !.completed_srs_messages = Append(@, Message(x, stream, received)),
                     !.pending_received_srs = @ \ received]

(* One stream of an indication, and the streams of an indication in order. *)
HandleStream(x, stream) ==
  IF stream.generated THEN _store_generated_srs(x, stream)
  ELSE _try_assemble_snapshot(
         [x EXCEPT !.pending_received_srs = @ \cup {Sample(stream)}], stream)

srs_indication_callback(x, streams) == FoldLeft(HandleStream, x, streams)

-----------------------------------------------------------------------------
(* The number a record is known by: the RNTI, or the DU's index of the UE   *)
(* when there is no RNTI.  The mutant always takes the index.              *)
IdentifiedByIndex(record) == [record EXCEPT !.rnti = record.ue_index]

Identified(record) == [record EXCEPT !.rnti = IF @ # 0 THEN @ ELSE record.ue_index]

(* Mutant of _store_timing_advance: the first observation is kept. *)
StoreFirstTimingAdvance(x, observation) ==
  IF \E o \in x.latest_timing_advance : o.rnti = observation.rnti THEN x
  ELSE [x EXCEPT !.latest_timing_advance = @ \cup {observation}]

_store_timing_advance(x, observation) ==
  [x EXCEPT !.latest_timing_advance =
     {o \in @ : o.rnti # observation.rnti} \cup {observation}]

timing_advance_indication_callback(x, observations) ==
  FoldLeft(_store_timing_advance, x, observations)
=============================================================================
