-------------------------- MODULE MCCrawlLifecycle --------------------------
(* The instances of CrawlLifecycle that TLC checks. *)
EXTENDS CrawlLifecycle, TLC

CONSTANTS c1, c2, r1, r2

OneCli == {c1}
NoCli == {}
OneReq == {r1}
TwoReqs == {r1, r2}

NoFaults == {}
AllFaults == FaultKinds

ReqSymmetry == Permutations(Reqs)
=============================================================================
