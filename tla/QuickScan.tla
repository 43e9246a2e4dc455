----------------------------- MODULE QuickScan -----------------------------
(***************************************************************************)
(* The Quick Scans of one user: the start and cancel routes, the thread of *)
(* each scan, and the row they all write.  Nothing but the row connects    *)
(* them: no lock is held between reading its status and writing it.        *)
(***************************************************************************)
EXTENDS Integers, FiniteSets

CONSTANTS
    Reqs,           \* request threads that serve this user
    MaxScans,       \* bound: rows in a behaviour
    MaxRestarts,    \* bound: restarts of the process in a behaviour
    Slots,          \* HEAVY_JOBS_PER_USER
    Faults          \* which of the failures below can happen

\* "create": the row is not inserted.  "start": Thread.start raises.  "tor": the
\* Tor client is not made.  "db": the storage raises in the scan's thread.
FaultKinds == {"create", "start", "tor", "db"}

ASSUME ScanAssumption ==
    /\ MaxScans \in Nat
    /\ MaxRestarts \in Nat
    /\ Slots \in Nat \ {0}
    /\ Faults \subseteq FaultKinds

VARIABLES
    scans,      \* rows inserted so far
    status,     \* status[s] of quick_scan_sessions
    worker,     \* worker[s]: where the thread of scan s is
    seen,       \* seen[s]: cancel_state["cancelled"]
    req,        \* what each request thread is serving, and for which scan
    restarts    \* restarts so far

scanVars == <<scans, status, worker, seen, req, restarts>>

Scans == 1..MaxScans
Active == {"pending", "running"}
Statuses == {"none", "completed", "failed", "cancelled"} \cup Active
LiveSteps == {"starting", "load", "begin", "check", "fetch", "final", "sync",
              "complete", "crash"}
\* "lost": the thread ended, or never started, without a word to the row.
WorkerSteps == {"none", "unstarted", "done", "lost"} \cup LiveSteps
ReqSteps == {"idle", "create", "spawn", "cancel"}

ScanTypeOK ==
    /\ scans \in 0..MaxScans
    /\ status \in [Scans -> Statuses]
    /\ worker \in [Scans -> WorkerSteps]
    /\ seen \in [Scans -> BOOLEAN]
    /\ req \in [Reqs -> [at : ReqSteps, sid : 0..MaxScans]]
    /\ restarts \in 0..MaxRestarts

NoReq == [at |-> "idle", sid |-> 0]

-----------------------------------------------------------------------------
(* api_quick_scan_start *)

Serve(r, step, s) == req' = [req EXCEPT ![r] = [at |-> step, sid |-> s]]
Answer(r) == req' = [req EXCEPT ![r] = NoReq]

\* has_active_quick_scan; with one active the answer is 409.
NoActiveScan == \A s \in Scans : status[s] \notin Active

CheckActive(r) ==
    /\ req[r].at = "idle"
    /\ NoActiveScan
    /\ Serve(r, "create", 0)
    /\ UNCHANGED <<scans, status, worker, seen, restarts>>

\* The slot is taken and the row inserted.
HoldsSlotSteps == {"unstarted"} \cup LiveSteps
HoldsSlot == {s \in Scans : worker[s] \in HoldsSlotSteps}

Create(r) ==
    /\ req[r].at = "create"
    /\ Cardinality(HoldsSlot) < Slots
    /\ scans < MaxScans
    /\ scans' = scans + 1
    /\ status' = [status EXCEPT ![scans + 1] = "pending"]
    /\ worker' = [worker EXCEPT ![scans + 1] = "unstarted"]
    /\ Serve(r, "spawn", scans + 1)
    /\ UNCHANGED <<seen, restarts>>

\* Busy, or the insert raises and the slot is released.
CreateRefused(r) ==
    /\ req[r].at = "create"
    /\ \/ Cardinality(HoldsSlot) >= Slots
       \/ "create" \in Faults \/ scans = MaxScans
    /\ Answer(r)
    /\ UNCHANGED <<scans, status, worker, seen, restarts>>

\* start_background
Spawn(r) ==
    /\ req[r].at = "spawn"
    /\ \/ worker' = [worker EXCEPT ![req[r].sid] = "starting"]
       \/ "start" \in Faults /\ worker' = [worker EXCEPT ![req[r].sid] = "lost"]
    /\ Answer(r)
    /\ UNCHANGED <<scans, status, seen, restarts>>

-----------------------------------------------------------------------------
(* api_quick_scan_cancel: the status is read, then written. *)

CancelReads(r, s) ==
    /\ req[r].at = "idle"
    /\ status[s] \in Active
    /\ Serve(r, "cancel", s)
    /\ UNCHANGED <<scans, status, worker, seen, restarts>>

CancelWrites(r) ==
    /\ req[r].at = "cancel"
    /\ status' = [status EXCEPT ![req[r].sid] = "cancelled"]
    /\ Answer(r)
    /\ UNCHANGED <<scans, worker, seen, restarts>>

-----------------------------------------------------------------------------
(* The thread of scan s: run() of the route and run_quick_scan. *)

Goto(s, from, to) == worker[s] = from /\ worker' = [worker EXCEPT ![s] = to]
Write(s, new) == status' = [status EXCEPT ![s] = new]
Cancelled(s) == seen[s] \/ status[s] = "cancelled"

\* create_tor_client stands outside the try: its exception reaches no handler
\* that would tell the row.
MakeTorClient(s) ==
    /\ \/ Goto(s, "starting", "load")
       \/ "tor" \in Faults /\ Goto(s, "starting", "lost")
    /\ UNCHANGED <<scans, status, seen, req, restarts>>

\* The row is read; a scan that was cancelled does not begin.
Load(s) ==
    /\ Goto(s, "load", IF status[s] = "cancelled" THEN "done" ELSE "begin")
    /\ UNCHANGED <<scans, status, seen, req, restarts>>

\* It is written in another transaction.
Begin(s) ==
    /\ Goto(s, "begin", "check")
    /\ Write(s, "running")
    /\ UNCHANGED <<scans, seen, req, restarts>>

\* Before a source or a batch: _cancel_requested, whose answer of yes is cached,
\* then the time limit.
CheckCancel(s) ==
    /\ \E next \in {"fetch", "final"} :
         Goto(s, "check", IF Cancelled(s) THEN "final" ELSE next)
    /\ seen' = [seen EXCEPT ![s] = Cancelled(s)]
    /\ UNCHANGED <<scans, status, req, restarts>>

\* _cancel_requested before a page of the batch.
PageCheck(s) ==
    /\ worker[s] = "fetch"
    /\ Cancelled(s)
    /\ ~seen[s]
    /\ seen' = [seen EXCEPT ![s] = TRUE]
    /\ UNCHANGED <<scans, status, worker, req, restarts>>

\* The batch ends: more is queued, or nothing.
BatchEnds(s) ==
    /\ \E next \in {"check", "final"} : Goto(s, "fetch", next)
    /\ UNCHANGED <<scans, status, seen, req, restarts>>

BugFinalCheckForgotten(s) ==
    /\ Goto(s, "final", "complete")
    /\ UNCHANGED <<scans, status, seen, req, restarts>>

FinalCheck(s) ==
    /\ Goto(s, "final", IF Cancelled(s) THEN "sync" ELSE "complete")
    /\ seen' = [seen EXCEPT ![s] = Cancelled(s)]
    /\ UNCHANGED <<scans, status, req, restarts>>

\* A cancelled scan writes its counters only.
Sync(s) ==
    /\ Goto(s, "sync", "done")
    /\ UNCHANGED <<scans, status, seen, req, restarts>>

Complete(s) ==
    /\ Goto(s, "complete", "done")
    /\ Write(s, "completed")
    /\ UNCHANGED <<scans, seen, req, restarts>>

\* The storage raises; the handler's own write may raise too.  What a page
\* raises stays inside its batch.
Crash(s) ==
    /\ "db" \in Faults
    /\ \E from \in LiveSteps \ {"starting", "fetch", "crash"} : Goto(s, from, "crash")
    /\ UNCHANGED <<scans, status, seen, req, restarts>>

BugCrashIsSilent(s) ==
    /\ Goto(s, "crash", "done")
    /\ UNCHANGED <<scans, status, seen, req, restarts>>

ReportCrash(s) ==
    /\ \/ Goto(s, "crash", "done") /\ Write(s, "failed")
       \/ "db" \in Faults /\ Goto(s, "crash", "lost") /\ UNCHANGED status
    /\ UNCHANGED <<scans, seen, req, restarts>>

-----------------------------------------------------------------------------
BugClosedRunning(s) == IF status[s] = "running" THEN "failed" ELSE status[s]

\* fail_running_quick_scans
Closed(s) == IF status[s] \in Active THEN "failed" ELSE status[s]

\* Where the process dies, every thread of it ends.
Stopped(end) ==
    [s \in Scans |-> IF worker[s] \in HoldsSlotSteps THEN end ELSE worker[s]]

\* The process dies and starts again.  _close_stale_jobs, before any request;
\* when the storage raises in it, the start goes on without it.
Restart ==
    /\ restarts < MaxRestarts
    /\ restarts' = restarts + 1
    /\ \/ /\ status' = [s \in Scans |-> Closed(s)]
          /\ worker' = Stopped("done")
       \/ /\ "db" \in Faults
          /\ worker' = Stopped("lost")
          /\ UNCHANGED status
    /\ req' = [r \in Reqs |-> NoReq]
    /\ UNCHANGED <<scans, seen>>

ScanInit ==
    /\ scans = 0
    /\ status = [s \in Scans |-> "none"]
    /\ worker = [s \in Scans |-> "none"]
    /\ seen = [s \in Scans |-> FALSE]
    /\ req = [r \in Reqs |-> NoReq]
    /\ restarts = 0

StartStep(r) == CheckActive(r) \/ Create(r) \/ CreateRefused(r) \/ Spawn(r)
Finishes(r) == Create(r) \/ CreateRefused(r) \/ Spawn(r) \/ CancelWrites(r)

ScanStep(s) ==
    \/ MakeTorClient(s) \/ Load(s) \/ Begin(s)
    \/ CheckCancel(s) \/ PageCheck(s) \/ BatchEnds(s)
    \/ FinalCheck(s) \/ Sync(s) \/ Complete(s)
    \/ ReportCrash(s)

TimeIsUp(s) == CheckCancel(s) /\ worker'[s] = "final"

ScanNext ==
    \/ \E r \in Reqs : StartStep(r) \/ CancelWrites(r)
    \/ \E r \in Reqs, s \in Scans : CancelReads(r, s)
    \/ \E s \in Scans : ScanStep(s) \/ Crash(s)
    \/ Restart

ScanSpec == ScanInit /\ [][ScanNext]_scanVars

\* Threads are scheduled, every fetch has a time limit, and so has the scan: no
\* batch begins after TOTAL_TIMEOUT.
ScanFairness ==
    /\ \A s \in Scans : WF_scanVars(ScanStep(s)) /\ SF_scanVars(TimeIsUp(s))
    /\ \A r \in Reqs : WF_scanVars(Finishes(r))

FairScanSpec == ScanSpec /\ ScanFairness

-----------------------------------------------------------------------------
(* What the code promises. *)

Live(s) == worker[s] \in LiveSteps

\* A thread that ended told the row: no row waits for it, blocking the user's
\* next scan, but those of a thread that was lost.
GoneMeansFinal == \A s \in Scans : worker[s] = "done" => status[s] \notin Active

\* Once the thread has seen the cancel the status is the cancel's: it "leaves
\* status untouched" (run_quick_scan).  Only a crash after that overwrites it.
SeenCancelIsKept ==
    [][\A s \in Scans :
         seen[s] /\ status[s] = "cancelled" /\ worker[s] # "crash"
           => status'[s] = "cancelled"]_scanVars

\* No row stays pending or running for ever, unless its thread was lost.
ActiveEnds ==
    \A s \in Scans : status[s] \in Active ~> status[s] \notin Active \/ worker[s] = "lost"

\* A cancel that was answered stays ("The cancel endpoint owns status").
CancelIsKept ==
    [][\A s \in Scans : status[s] = "cancelled" => status'[s] = "cancelled"]_scanVars

\* The start route: "Single active quick scan per user".
SingleActive ==
    \A s, t \in Scans : status[s] \in Active /\ status[t] \in Active => s = t
=============================================================================
