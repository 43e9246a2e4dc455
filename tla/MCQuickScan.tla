---------------------------- MODULE MCQuickScan ----------------------------
(* The instances of QuickScan that TLC checks. *)
EXTENDS QuickScan

CONSTANTS r1, r2

TwoReqs == {r1, r2}
AllFaults == FaultKinds
NoFaults == {}
=============================================================================
