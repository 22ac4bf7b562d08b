------------------------------ MODULE MCTaPath ------------------------------
(* Instances of TaPath for TLC. *)
EXTENDS TaPath, TLC

CONSTANTS s1, s2

TwoServices == {s1, s2}

(* Two UEs with the RNTIs 1 and 2.  The DU's index of the second is the     *)
(* RNTI of the first.  Of the second UE the MAC knows the RNTI, then only   *)
(* the index; of the first one it knows the RNTI.                          *)
TwoUes == {1, 2}

TwoUesObserved ==
  <<[ue |-> 2, rnti |-> 2, ue_index |-> 1],
    [ue |-> 2, rnti |-> 0, ue_index |-> 1],
    [ue |-> 1, rnti |-> 1, ue_index |-> 2]>>
=============================================================================
