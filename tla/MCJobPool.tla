------------------------------ MODULE MCJobPool ------------------------------
(***************************************************************************)
(* HeavyJobs and FanOut, that TLC checks in one run.  The limiter and the   *)
(* pool share no state; a behaviour is one of the two, chosen at its start, *)
(* and the other does not move.                                             *)
(***************************************************************************)
EXTENDS MCHeavyJobs, FanOut

CONSTANTS c1, c2, c3

\* Two calls from the items of a third: enough to take both workers.
ThreeCalls == {c1, c2, c3}
TwoLevels == c1 :> <<c2, c3>> @@ c2 :> <<NoInner, NoInner>> @@ c3 :> <<NoInner, NoInner>>

VARIABLE part   \* the model whose behaviour this is

PartsInit == Init /\ FanInit /\ part \in {"jobs", "pool"}

\* The calls come to an end, and stay there.
AllReturned == \A c \in Calls : Callers(c) = {} => fan[c].at = "returned"

PartsNext ==
    \/ part = "jobs" /\ Next /\ UNCHANGED <<fanVars, part>>
    \/ part = "pool" /\ FanNext /\ UNCHANGED <<vars, part>>
    \/ part = "pool" /\ AllReturned /\ UNCHANGED <<vars, fanVars, part>>

\* In a part that does not run no fair step is enabled.
PartsSpec ==
    PartsInit /\ [][PartsNext]_<<vars, fanVars, part>> /\ Fairness /\ FanFairness
=============================================================================
