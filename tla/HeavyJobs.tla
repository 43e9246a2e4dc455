----------------------------- MODULE HeavyJobs -----------------------------
(***************************************************************************)
(* The limiter of heavy operations and everything that holds one of its    *)
(* slots: routes that work inside the request, jobs that a request starts  *)
(* on a thread of their own, and the digest, which is a job behind a lock. *)
(* The request and the thread of one operation share its slot; both may    *)
(* release it.                                                             *)
(***************************************************************************)
EXTENDS Integers, FiniteSets

CONSTANTS
    Users,
    Ops,            \* the operations the open pages can ask for, again and again
    UserOf,         \* UserOf[o], KindOf[o]: who asks for it, and what it is
    KindOf,
    MaxTotal,       \* HEAVY_JOBS_MAX
    MaxPerUser,     \* HEAVY_JOBS_PER_USER
    Faults          \* which of the failures below can happen

\* "row": the row of a job is not created.  "save": its end is not written.
\* "start": Thread.start raises.  "late": it raises although the thread runs.
FaultKinds == {"row", "save", "start", "late"}

\* A heavy route; a breach check without HIBP; a DNS recon or a breach check
\* with HIBP; a digest.
Kinds == {"route", "inline", "job", "digest"}

ASSUME ConstantsAssumption ==
    /\ IsFiniteSet(Ops)
    /\ UserOf \in [Ops -> Users]
    /\ KindOf \in [Ops -> Kinds]
    /\ MaxTotal \in Nat \ {0}
    /\ MaxPerUser \in Nat \ {0}
    /\ Faults \subseteq FaultKinds

VARIABLES
    total,      \* _total
    mine,       \* _per_user
    slot,       \* slot[o]: not held (or given back), held, or marked _released
    at,         \* at[t][o]: where the request and the thread of o are
    running,    \* operations whose row says "running"
    sending,    \* _digest_sending is locked
    done        \* done[o]: the event of a digest

vars == <<total, mine, slot, at, running, sending, done>>

Threads == {"request", "job"}
Steps == {"idle", "acquire", "row", "spawn", "work", "save", "unlock",
          "set done", "mark", "give back"}

TypeOK ==
    /\ total \in Nat
    /\ mine \in [Users -> Nat]
    /\ slot \in [Ops -> {"free", "held", "marked"}]
    /\ at \in [Threads -> [Ops -> Steps]]
    /\ running \in SUBSET Ops
    /\ sending \in BOOLEAN
    /\ done \in [Ops -> BOOLEAN]

-----------------------------------------------------------------------------
(* JobLimiter and Slot. *)

Step(t, o, from, to) == at[t][o] = from /\ at' = [at EXCEPT ![t][o] = to]

BugLimitReached(u) == mine[u] >= MaxPerUser
LimitReached(u) == mine[u] >= MaxPerUser \/ total >= MaxTotal

\* JobLimiter.acquire answers with a slot.
Acquire(o) ==
    /\ ~LimitReached(UserOf[o])
    /\ Step("request", o, "acquire",
            CASE KindOf[o] = "route" -> "work"
              [] KindOf[o] = "digest" -> "spawn"
              [] OTHER -> "row")
    /\ slot' = [slot EXCEPT ![o] = "held"]
    /\ total' = total + 1
    /\ mine' = [mine EXCEPT ![UserOf[o]] = @ + 1]
    /\ UNCHANGED <<running, sending, done>>

\* It raises Busy.
Refuse(o) ==
    /\ LimitReached(UserOf[o])
    /\ Step("request", o, "acquire", IF KindOf[o] = "digest" THEN "unlock" ELSE "idle")
    /\ UNCHANGED <<total, mine, slot, running, sending, done>>

AfterRelease(t, o) == IF t = "request" /\ KindOf[o] = "digest" THEN "unlock" ELSE "idle"

BugMark(t, o) ==
    /\ Step(t, o, "mark", "give back")
    /\ slot' = [slot EXCEPT ![o] = "marked"]
    /\ UNCHANGED <<total, mine, running, sending, done>>

\* Slot.release, under the slot's lock: only the first call goes on.
Mark(t, o) ==
    /\ IF slot[o] = "held"
       THEN /\ Step(t, o, "mark", "give back")
            /\ slot' = [slot EXCEPT ![o] = "marked"]
       ELSE /\ Step(t, o, "mark", AfterRelease(t, o))
            /\ UNCHANGED slot
    /\ UNCHANGED <<total, mine, running, sending, done>>

Less(n) == IF n > 0 THEN n - 1 ELSE 0

\* JobLimiter._release, under the limiter's lock.
GiveBack(t, o) ==
    /\ Step(t, o, "give back", AfterRelease(t, o))
    /\ slot' = [slot EXCEPT ![o] = "free"]
    /\ total' = Less(total)
    /\ mine' = [mine EXCEPT ![UserOf[o]] = Less(@)]
    /\ UNCHANGED <<running, sending, done>>

-----------------------------------------------------------------------------
(* The routes. *)

Unused(o) == at["request"][o] = "idle" /\ at["job"][o] = "idle" /\ o \notin running

BugArrive(o) ==
    /\ Unused(o)
    /\ at' = [at EXCEPT !["request"][o] = "acquire"]
    /\ sending' = (sending \/ KindOf[o] = "digest")
    /\ done' = [done EXCEPT ![o] = FALSE]
    /\ UNCHANGED <<total, mine, slot, running>>

\* A request for o.  The digest takes its lock first, or answers at once.
Arrive(o) ==
    /\ Unused(o)
    /\ KindOf[o] = "digest" => ~sending
    /\ at' = [at EXCEPT !["request"][o] = "acquire"]
    /\ sending' = (sending \/ KindOf[o] = "digest")
    /\ done' = [done EXCEPT ![o] = FALSE]
    /\ UNCHANGED <<total, mine, slot, running>>

CreateRow(o) ==
    /\ Step("request", o, "row", IF KindOf[o] = "job" THEN "spawn" ELSE "work")
    /\ running' = running \cup {o}
    /\ UNCHANGED <<total, mine, slot, sending, done>>

BugRowFails(o) ==
    /\ "row" \in Faults
    /\ Step("request", o, "row", "idle")
    /\ UNCHANGED <<total, mine, slot, running, sending, done>>

\* The storage raises: the route releases the slot.
RowFails(o) ==
    /\ "row" \in Faults
    /\ Step("request", o, "row", "mark")
    /\ UNCHANGED <<total, mine, slot, running, sending, done>>

\* start_background
Spawn(o) ==
    /\ at["request"][o] = "spawn"
    /\ at' = [at EXCEPT !["request"][o] = "idle", !["job"][o] = "work"]
    /\ UNCHANGED <<total, mine, slot, running, sending, done>>

\* Thread.start raises: the caller releases the slot.
SpawnFails(o) ==
    /\ "start" \in Faults
    /\ Step("request", o, "spawn", "mark")
    /\ UNCHANGED <<total, mine, slot, running, sending, done>>

SpawnLate(o) ==
    /\ "late" \in Faults
    /\ at["request"][o] = "spawn"
    /\ at' = [at EXCEPT !["request"][o] = "mark", !["job"][o] = "work"]
    /\ UNCHANGED <<total, mine, slot, running, sending, done>>

BugUnlockFailed(o) ==
    /\ Step("request", o, "unlock", "idle")
    /\ UNCHANGED <<total, mine, slot, running, sending, done>>

\* The digest route was refused a slot or a thread: it gives the lock up,
\* unless the thread got that far.
UnlockFailed(o) ==
    /\ Step("request", o, "unlock", "idle")
    /\ sending' = (sending /\ done[o])
    /\ UNCHANGED <<total, mine, slot, running, done>>

-----------------------------------------------------------------------------
(* The work, in the request or on the thread. *)

\* It returns or raises.
WorkEnds(t, o) ==
    /\ Step(t, o, "work", CASE KindOf[o] = "route" -> "mark"
                            [] KindOf[o] = "digest" -> "unlock"
                            [] OTHER -> "save")
    /\ UNCHANGED <<total, mine, slot, running, sending, done>>

\* The row is completed or failed; the write itself may fail.
Save(t, o) ==
    /\ Step(t, o, "save", "mark")
    /\ \/ running' = running \ {o}
       \/ "save" \in Faults /\ UNCHANGED running
    /\ UNCHANGED <<total, mine, slot, sending, done>>

\* A digest's thread unlocks; when the lock was not locked that raises, and the
\* event is not set.
UnlockSent(o) ==
    /\ Step("job", o, "unlock", IF sending THEN "set done" ELSE "mark")
    /\ sending' = FALSE
    /\ UNCHANGED <<total, mine, slot, running, done>>

SetDone(o) ==
    /\ Step("job", o, "set done", "mark")
    /\ done' = [done EXCEPT ![o] = TRUE]
    /\ UNCHANGED <<total, mine, slot, running, sending>>

-----------------------------------------------------------------------------
BugClosed == {}

\* _close_stale_jobs: no job lives when the process starts.
Closed == running

\* The process dies and starts again; the storage may not answer it.
Restart ==
    /\ total' = 0
    /\ mine' = [u \in Users |-> 0]
    /\ slot' = [o \in Ops |-> "free"]
    /\ at' = [t \in Threads |-> [o \in Ops |-> "idle"]]
    /\ sending' = FALSE
    /\ \/ running' = running \ Closed
       \/ "save" \in Faults /\ UNCHANGED running
    /\ UNCHANGED done

Init ==
    /\ total = 0
    /\ mine = [u \in Users |-> 0]
    /\ slot = [o \in Ops |-> "free"]
    /\ at = [t \in Threads |-> [o \in Ops |-> "idle"]]
    /\ running = {}
    /\ sending = FALSE
    /\ done = [o \in Ops |-> FALSE]

Release(t, o) == Mark(t, o) \/ GiveBack(t, o)

RequestStep(o) ==
    \/ Acquire(o) \/ Refuse(o)
    \/ CreateRow(o) \/ RowFails(o)
    \/ Spawn(o) \/ SpawnFails(o) \/ SpawnLate(o)
    \/ UnlockFailed(o)
    \/ WorkEnds("request", o) \/ Save("request", o) \/ Release("request", o)

JobStep(o) ==
    \/ WorkEnds("job", o) \/ Save("job", o) \/ Release("job", o)
    \/ UnlockSent(o) \/ SetDone(o)

Next ==
    \/ \E o \in Ops : Arrive(o) \/ RequestStep(o) \/ JobStep(o)
    \/ Restart

Spec == Init /\ [][Next]_vars

\* Threads are scheduled and the work ends: every fetch and every wait in it
\* has a time limit.
Fairness == \A o \in Ops : WF_vars(RequestStep(o)) /\ WF_vars(JobStep(o))

FairSpec == Spec /\ Fairness

-----------------------------------------------------------------------------
(* What the code promises. *)

\* The counters say how many slots are held, in total and per user: no slot is
\* counted twice, given back twice or lost (Slot.release "may be called more
\* than once").
Held == {o \in Ops : slot[o] # "free"}
HeldBy(u) == {o \in Held : UserOf[o] = u}

CountsExact ==
    /\ total = Cardinality(Held)
    /\ \A u \in Users : mine[u] = Cardinality(HeldBy(u))

\* There are never more than HEAVY_JOBS_MAX pieces of work going on, nor more
\* than HEAVY_JOBS_PER_USER of one user, on whatever thread, unless a thread
\* can outlive the exception of its start.
Working == {o \in Ops : \E t \in Threads : at[t][o] = "work"}

WorkWithinLimits ==
    "late" \notin Faults =>
      /\ Cardinality(Working) <= MaxTotal
      /\ \A u \in Users : Cardinality({o \in Working : UserOf[o] = u}) <= MaxPerUser

\* At most one digest is being sent, and only under the lock.
Digests == {o \in Ops : at["job"][o] = "work" /\ KindOf[o] = "digest"}

OneDigest ==
    "late" \notin Faults =>
      /\ \A o, p \in Digests : o = p
      /\ Digests # {} => sending

\* A slot that was taken is given back, whichever step of the operation fails.
SlotComesBack == \A o \in Ops : slot[o] # "free" ~> slot[o] = "free"

\* The digest's lock is not left locked: another digest can be sent.
DigestCanBeSent == []<>~sending

\* The row of a job that got its thread does not stay "running", not even when
\* the process restarts under it.
JobRowEnds ==
    \A o \in Ops : (at["job"][o] = "work" /\ o \in running) ~> o \notin running
=============================================================================
