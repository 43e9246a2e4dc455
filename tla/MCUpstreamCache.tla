-------------------------- MODULE MCUpstreamCache --------------------------
(***************************************************************************)
(* UpstreamCache, SafeFetch and QuickScan, that TLC checks in one run.  They *)
(* share no state; a behaviour is one of the three, chosen at its start, and *)
(* the others do not move.                                                  *)
(***************************************************************************)
EXTENDS MCQuickScan, UpstreamCache, SafeFetch, TLC

CONSTANTS t1, t2, k1, k2, k3, e1, e2, e3, e4, e5, e6

TwoThreads == {t1, t2}
ThreeKeys == {k1, k2, k3}

\* Two per key: one in the table, and one that a thread still refers to.
SixEntries == {e1, e2, e3, e4, e5, e6}
TwoPerKey == e1 :> k1 @@ e2 :> k1 @@ e3 :> k2 @@ e4 :> k2 @@ e5 :> k3 @@ e6 :> k3

VARIABLE part   \* the model whose behaviour this is

\* A part that does not run begins in one state.
PartsInit ==
    /\ Init /\ FetchInit /\ ScanInit
    /\ part \in {"cache", "fetch", "scans"}
    /\ part # "fetch" => mode = "safe" /\ method = "GET" /\ url = CHOOSE u \in URLs : TRUE

\* A fetch comes to an end, and stays there.
FetchEnded == part = "fetch" /\ fetchAt \in {"returned", "refused"}

PartsNext ==
    \/ part = "cache" /\ Next /\ UNCHANGED <<fetchVars, scanVars, part>>
    \/ part = "fetch" /\ FetchNext /\ UNCHANGED <<vars, scanVars, part>>
    \/ part = "scans" /\ ScanNext /\ UNCHANGED <<vars, fetchVars, part>>
    \/ FetchEnded /\ UNCHANGED <<vars, fetchVars, scanVars, part>>

\* In a part that does not run no fair step is enabled.
PartsSpec ==
    /\ PartsInit /\ [][PartsNext]_<<vars, fetchVars, scanVars, part>>
    /\ Fairness /\ ScanFairness
=============================================================================
