----------------------------- MODULE SrsSample -----------------------------
(* Where the samples of an antenna come from: the SRS occasion of the UE    *)
(* and the transmit port whose sequence was correlated with them.          *)
EXTENDS Naturals

Sample == [occasion : Nat, tx : Nat]

(* No samples.  Occasions are numbered from 1. *)
NoSample == [occasion |-> 0, tx |-> 0]

(* s was taken before t: on an earlier occasion, or for an earlier transmit *)
(* port of the same one.                                                   *)
Before(s, t) == \/ s.occasion < t.occasion
                \/ s.occasion = t.occasion /\ s.tx < t.tx
=============================================================================
