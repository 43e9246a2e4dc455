--------------------------- MODULE CrawlRegistry ---------------------------
(***************************************************************************)
(* What the table crawl_sessions promises about crawls, whichever process  *)
(* runs them.  One crawl runs at a time.  A running session is interrupted *)
(* only once its heartbeat has lapsed; one that runs under the dashboard's *)
(* name also without that, because the name is all that tells a session    *)
(* from before a restart.  A session that ended never runs again, and one  *)
(* that was interrupted says so for good, unless its crawl had begun to    *)
(* write its own end while it was still running.                           *)
(* CrawlLifecycle implements this module.                                  *)
(***************************************************************************)

CONSTANT Sessions       \* identities of the rows, used or not yet used

VARIABLES
    state,              \* state[s]: what the registry says of session s
    lapsed,             \* running sessions whose heartbeat is stale
    named,              \* sessions begun under the dashboard's name
    ending              \* sessions whose crawl has begun to write its own end

vars == <<state, lapsed, named, ending>>

Reported == {"completed", "stopped", "failed"}
Running == {s \in Sessions : state[s] = "running"}

Init ==
    /\ state = [s \in Sessions |-> "new"]
    /\ lapsed = {}
    /\ named = {}
    /\ ending = {}

\* A crawl begins.  What was running has lapsed and ends as interrupted.
Begin(s) ==
    /\ state[s] = "new"
    /\ Running \subseteq lapsed
    /\ state' = [x \in Sessions |-> IF x = s THEN "running"
                                    ELSE IF x \in Running THEN "interrupted"
                                    ELSE state[x]]
    /\ lapsed' = {}
    /\ named' \in {named, named \cup {s}}
    /\ UNCHANGED ending

\* The crawl of a running session begins to write its end ...
BeginReport(s) ==
    /\ s \in Running
    /\ ending' = ending \cup {s}
    /\ UNCHANGED <<state, lapsed, named>>

\* ... and writes it, whatever was written meanwhile ...
Report(s, how) ==
    /\ s \in ending
    /\ state' = [state EXCEPT ![s] = how]
    /\ lapsed' = lapsed \ {s}
    /\ ending' = ending \ {s}
    /\ UNCHANGED named

\* ... or it fails, or its process dies.
Abandon ==
    /\ ending' \in SUBSET ending
    /\ UNCHANGED <<state, lapsed, named>>

\* Somebody finds the crawl of a running session gone.
Interrupt(s) ==
    /\ s \in Running
    /\ s \in lapsed \cup named
    /\ state' = [state EXCEPT ![s] = "interrupted"]
    /\ lapsed' = lapsed \ {s}
    /\ UNCHANGED <<named, ending>>

\* Time passes without a heartbeat, or a heartbeat arrives.
Lapse ==
    /\ lapsed' \subseteq Running
    /\ UNCHANGED <<state, named, ending>>

Next ==
    \/ \E s \in Sessions : Begin(s) \/ BeginReport(s) \/ Interrupt(s)
    \/ \E s \in Sessions, how \in Reported : Report(s, how)
    \/ Abandon
    \/ Lapse

Spec == Init /\ [][Next]_vars
=============================================================================
