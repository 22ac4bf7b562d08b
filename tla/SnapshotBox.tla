---------------------------- MODULE SnapshotBox ----------------------------
(***************************************************************************)
(* What the SRS collector promises its readers, without antennas, workers  *)
(* or locks: for every UE a box with at most one whole snapshot, the       *)
(* latest.  A snapshot is put in the box, is withdrawn when the next one   *)
(* begins, or is collected; the snapshots collected of a UE are in order.  *)
(***************************************************************************)
EXTENDS SrsSample, Sequences

CONSTANT Rntis

VARIABLES
  latest,  \* the snapshot in the box of each UE, or NoSample
  out      \* the snapshots collected of each UE

box == <<latest, out>>

TypeOK == /\ latest \in [Rntis -> Sample]
          /\ out \in [Rntis -> Seq(Sample)]

Init == /\ latest = [u \in Rntis |-> NoSample]
        /\ out = [u \in Rntis |-> <<>>]

(* A snapshot newer than the one in the box and than all those collected. *)
Publish(u) ==
  /\ latest' = [latest EXCEPT ![u] = latest'[u]]
  /\ latest'[u] \in Sample
  /\ Before(latest[u], latest'[u])
  /\ \A i \in 1..Len(out[u]) : Before(out[u][i], latest'[u])
  /\ UNCHANGED out

Withdraw(u) == /\ latest' = [latest EXCEPT ![u] = NoSample]
               /\ UNCHANGED out

(* Every box is emptied, and what was in it is handed over. *)
Collect ==
  /\ latest' = [u \in Rntis |-> NoSample]
  /\ out' = [u \in Rntis |-> IF latest[u] = NoSample THEN out[u]
                             ELSE Append(out[u], latest[u])]

Next == Collect \/ \E u \in Rntis : Publish(u) \/ Withdraw(u)

Spec == Init /\ [][Next]_box
=============================================================================
