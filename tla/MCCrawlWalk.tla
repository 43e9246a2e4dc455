----------------------------- MODULE MCCrawlWalk -----------------------------
(***************************************************************************)
(* CrawlLifecycle, CrawlPages and AlertSender, that TLC checks in one run.  *)
(* A behaviour is one of the three, chosen at its start, and the others do  *)
(* not move: what they need of each other, the stop file and the halt in    *)
(* CrawlPages, is in each of them.                                          *)
(***************************************************************************)
EXTENDS MCCrawlLifecycle, CrawlPages, AlertSender

\* Two domains, one with more pages than the limit.
FivePages == {"a1", "a2", "a3", "b1", "b2"}
TwoDomains == [u \in FivePages |-> IF u \in {"b1", "b2"} THEN "b" ELSE "a"]

\* A seed listed twice; and more seeds than fit into one batch.
SomeSeeds == {<<"a1", "a1">>, <<"a1", "b1", "a3">>}
SomeLinks == {<<"b1", "a2">>, <<"a3", "b2">>, <<"b2", "a1", "b2">>}

VARIABLE part   \* the model whose behaviour this is

\* A part that does not run begins in one state.
PartsInit ==
    /\ Init /\ WalkInit /\ AlertInit
    /\ part \in {"lifecycle", "walk", "alerts"}
    /\ part # "walk" => stayOnDomain /\ seeds = <<"a1", "a1">>

\* A walk ends, and so does the process that alerts.
PartEnded ==
    \/ part = "walk" /\ ended # "no"
    \/ part = "alerts" /\ process \notin {"runs", "flushes"}

PartsNext ==
    \/ part = "lifecycle" /\ Next /\ UNCHANGED <<walkVars, alertVars, part>>
    \/ part = "walk" /\ WalkNext /\ UNCHANGED <<vars, alertVars, part>>
    \/ part = "alerts" /\ AlertNext /\ UNCHANGED <<vars, walkVars, part>>
    \/ PartEnded /\ UNCHANGED <<vars, walkVars, alertVars, part>>

PartsSpec == PartsInit /\ [][PartsNext]_<<vars, walkVars, alertVars, part>>
=============================================================================
