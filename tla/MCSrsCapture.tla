---------------------------- MODULE MCSrsCapture ----------------------------
(* Instances of SrsCapture for TLC. *)
EXTENDS SrsCapture

CONSTANTS u1, u2, w1, w2

OneUe      == {u1}
TwoUes     == {u1, u2}
OneWorker  == {w1}
TwoWorkers == {w1, w2}

Antennas2 == {0, 1}
Antennas3 == {0, 1, 2}
Ports2    == <<0, 1>>
Ports3    == <<0, 1, 2>>

NoReaders   == {}
OnlyCleanup == {"cleanup"}
AllReaders  == {"take", "cleanup"}

=============================================================================
