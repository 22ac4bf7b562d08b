------------------------------ MODULE MCSrsPath ------------------------------
(* Instances of SrsPath for TLC. *)
EXTENDS SrsPath, TLC

CONSTANTS s1, s2

OneUe       == {1}
TwoUes      == {1, 2}
TwoAntennas == {0, 1}
Antennas3   == {0, 1, 2}
OneService  == {s1}
TwoServices == {s1, s2}
WholeOnly   == {AntennaIds}

(* By the limit of the cfg one stream of UE 1 fits in an indication or two  *)
(* do; of UE 2, one.                                                       *)
Sizes == [u \in Rntis |-> IF u = 1 THEN 3 ELSE 4]

(* A UE that keeps its sequence, and one that changes it. *)
SameSequence == [u \in Rntis |-> [t \in 1..MaxTimestamp |-> 1]]
NewSequence  == [u \in Rntis |-> [t \in 1..MaxTimestamp |-> t]]

Symmetry == Permutations(Services)
=============================================================================
