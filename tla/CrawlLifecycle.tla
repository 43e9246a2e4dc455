--------------------------- MODULE CrawlLifecycle ---------------------------
(***************************************************************************)
(* One crawl at a time, across the threads of the dashboard process and    *)
(* the processes of the command line.  The state that decides is in three  *)
(* places that no lock covers together: the rows of crawl_sessions in the  *)
(* database, the counter _local_crawls in the dashboard process, and the   *)
(* file crawl.stop on the data volume.  A step of this module is what one  *)
(* thread does between two accesses of that state.                         *)
(***************************************************************************)
EXTENDS Integers, FiniteSets

CONSTANTS
    Dash,           \* crawl_owner() of the dashboard, the same after a restart
    Cli,            \* crawl_owner() of the processes that run "scan"
    Reqs,           \* the dashboard's request threads
    MaxSessions,    \* bound: rows of crawl_sessions in a behaviour
    MaxCrashes,     \* bound: crashes in a behaviour
    StaleAfter,     \* STALE_SECONDS in heartbeat periods
    MaxBeatAge,     \* the oldest heartbeat of a crawl whose thread is not dead
    Faults          \* which of the failures below can happen

NoOne == "nobody"
FaultKinds == {"db", "spawn", "config", "unlink"}

ASSUME ConstantsAssumption ==
    /\ Dash \notin Cli
    /\ NoOne \notin Cli \cup {Dash}
    /\ MaxSessions \in Nat
    /\ MaxCrashes \in Nat
    /\ StaleAfter \in Nat \ {0}
    /\ MaxBeatAge \in 1..StaleAfter
    /\ Faults \subseteq FaultKinds

Sessions == 1..MaxSessions
Owners == Cli \cup {Dash}

VARIABLES
    row,        \* crawl_sessions: row[s]
    sessions,   \* rows inserted so far; the next id is sessions + 1
    job,        \* the thread that runs crawl s, its Crawler included
    req,        \* the request each dashboard thread is serving
    local,      \* _local_crawls of the dashboard process
    flag,       \* crawl.stop: up, and the newest session when it was written
    crashes     \* crashes so far

vars == <<row, sessions, job, req, local, flag, crashes>>

-----------------------------------------------------------------------------
(* Types.  A definition named Bug... is a plausible mistake in the one that    *)
(* follows it: no action uses it, it shows that a property can fail.          *)

Finals == {"completed", "stopped", "failed"}
Statuses == {"none", "running", "interrupted"} \cup Finals
JobSteps == {"none", "claimed", "config", "crawl", "read", "write",
             "release", "unlink", "done", "unstarted", "dead"}
StartSteps == {"sweep to start", "check local", "check active", "claim",
               "begin", "unclaim", "unlink", "spawn"}
StatusSteps == {"sweep to status", "active", "clear"}
ReqSteps == {"idle"} \cup StartSteps \cup StatusSteps

Row == [status : Statuses, owner : Owners \cup {NoOne}, age : 0..StaleAfter]
Job == [at : JobSteps, halt : BOOLEAN, stopSeen : BOOLEAN,
        final : Finals, ended : BOOLEAN]
Req == [at : ReqSteps, idle : BOOLEAN, sid : 0..MaxSessions]

NoRow == [status |-> "none", owner |-> NoOne, age |-> 0]
NoJob == [at |-> "none", halt |-> FALSE, stopSeen |-> FALSE,
          final |-> "failed", ended |-> FALSE]
NoFlag == [up |-> FALSE, since |-> 0]
NoReq == [at |-> "idle", idle |-> FALSE, sid |-> 0]

TypeOK ==
    /\ row \in [Sessions -> Row]
    /\ sessions \in 0..MaxSessions
    /\ job \in [Sessions -> Job]
    /\ req \in [Reqs -> Req]
    /\ local \in Nat
    /\ flag \in [up : BOOLEAN, since : 0..MaxSessions]
    /\ crashes \in 0..MaxCrashes

-----------------------------------------------------------------------------
(* The rows of crawl_sessions.  One operator per transaction. *)

Running(s) == row[s].status = "running"
Stale(r) == r.age = StaleAfter

Ended(r, how) == [status |-> how, owner |-> r.owner, age |-> 0]
Begun(owner) == [status |-> "running", owner |-> owner, age |-> 0]

BugSweptAnyOwner(r, idle) ==
    IF r.status = "running" /\ (idle # NoOne \/ Stale(r))
    THEN Ended(r, "interrupted") ELSE r
BugSweptNeverStale(r, idle) ==
    IF r.status = "running" /\ r.owner = idle THEN Ended(r, "interrupted") ELSE r

\* _interrupt_stale: r after a sweep; idle names an owner that runs no crawl.
Swept(r, idle) ==
    IF r.status = "running" /\ (r.owner = idle \/ Stale(r))
    THEN Ended(r, "interrupted") ELSE r

SweptRows(idle) == [s \in Sessions |-> Swept(row[s], idle)]

\* begin_crawl_session, under its advisory lock: sweep, then insert unless a
\* crawl is running.
CrawlRunning == \E s \in Sessions : Swept(row[s], NoOne).status = "running"

BugInsertUnchecked(owner) ==
    /\ sessions < MaxSessions
    /\ sessions' = sessions + 1
    /\ row' = [SweptRows(NoOne) EXCEPT ![sessions + 1] = Begun(owner)]

InsertSession(owner) ==
    /\ sessions < MaxSessions
    /\ ~CrawlRunning
    /\ sessions' = sessions + 1
    /\ row' = [SweptRows(NoOne) EXCEPT ![sessions + 1] = Begun(owner)]

RefuseSession ==
    /\ CrawlRunning
    /\ row' = SweptRows(NoOne)
    /\ UNCHANGED sessions

-----------------------------------------------------------------------------
(* The crawl thread of session s: run() of the route and run_scan. *)

At(s, step) == job[s].at = step
Goto(s, step) == job' = [job EXCEPT ![s].at = step]
Leave(s, step) == job' = [job EXCEPT ![s] = [NoJob EXCEPT !.at = step]]

\* Keyword file, configuration, alerter, Tor client and crawler are made.
Configured(s) ==
    /\ At(s, "config")
    /\ Goto(s, "crawl")
    /\ UNCHANGED <<row, sessions, req, local, flag, crashes>>

\* One of them raises: run() skips run_scan and with it the session's end.
ConfigFails(s) ==
    /\ "config" \in Faults
    /\ At(s, "config")
    /\ Goto(s, "release")
    /\ UNCHANGED <<row, sessions, req, local, flag, crashes>>

BugHeartbeatHaltsStale(s) ==
    /\ At(s, "crawl")
    /\ ~job[s].halt
    /\ IF Running(s) /\ ~Stale(row[s])
       THEN /\ row' = [row EXCEPT ![s].age = 0]
            /\ UNCHANGED job
       ELSE /\ job' = [job EXCEPT ![s].halt = TRUE]
            /\ UNCHANGED row
    /\ UNCHANGED <<sessions, req, local, flag, crashes>>
BugHeartbeatNoHalt(s) ==
    /\ At(s, "crawl")
    /\ Running(s)
    /\ row' = [row EXCEPT ![s].age = 0]
    /\ UNCHANGED <<sessions, job, req, local, flag, crashes>>

\* _heartbeat: one beat.  A session that was ended halts the crawler, and the
\* task returns.
Heartbeat(s) ==
    /\ At(s, "crawl")
    /\ ~job[s].halt
    /\ IF Running(s)
       THEN /\ row' = [row EXCEPT ![s].age = 0]
            /\ UNCHANGED job
       ELSE /\ job' = [job EXCEPT ![s].halt = TRUE]
            /\ UNCHANGED row
    /\ UNCHANGED <<sessions, req, local, flag, crashes>>

StopFlagSeen(s) == ~job[s].halt /\ flag.up
EndAs(s, how) == job' = [job EXCEPT ![s] = [NoJob EXCEPT !.at = "read", !.final = how]]

\* _crawl_url: the stop is seen inside a batch.  The page is skipped; the
\* crawl goes on to its next batch.
PageCheck(s) ==
    /\ At(s, "crawl")
    /\ StopFlagSeen(s)
    /\ job' = [job EXCEPT ![s].stopSeen = TRUE]
    /\ UNCHANGED <<row, sessions, req, local, flag, crashes>>

BugBatchOnlyHalt(s) ==
    /\ At(s, "crawl")
    /\ job[s].halt
    /\ EndAs(s, IF job[s].stopSeen THEN "stopped" ELSE "completed")
    /\ UNCHANGED <<row, sessions, req, local, flag, crashes>>

\* crawl: _stop_now is true before a batch.
BatchCheck(s) ==
    /\ At(s, "crawl")
    /\ job[s].halt \/ flag.up
    /\ EndAs(s, IF job[s].stopSeen \/ StopFlagSeen(s) THEN "stopped" ELSE "completed")
    /\ UNCHANGED <<row, sessions, req, local, flag, crashes>>

\* The queue is empty.
Exhausted(s) ==
    /\ At(s, "crawl")
    /\ EndAs(s, IF job[s].stopSeen THEN "stopped" ELSE "completed")
    /\ UNCHANGED <<row, sessions, req, local, flag, crashes>>

\* Saving a page or a hit raises; on the command line also Ctrl-C, which
\* asyncio turns into a cancellation that neither except clause catches.
CrawlFails(s) ==
    /\ At(s, "crawl")
    /\ EndAs(s, "failed")
    /\ UNCHANGED <<row, sessions, req, local, flag, crashes>>

BugEndReadsBlind(s) ==
    /\ At(s, "read")
    /\ job' = [job EXCEPT ![s].at = "write"]
    /\ UNCHANGED <<row, sessions, req, local, flag, crashes>>

\* update_crawl_session, first statement: the row is read.
EndReads(s) ==
    /\ At(s, "read")
    /\ job' = [job EXCEPT ![s].at = "write",
                          ![s].ended = row[s].status = "interrupted"]
    /\ UNCHANGED <<row, sessions, req, local, flag, crashes>>

\* Second statement: the row is written as decided from what was read.
EndWrites(s) ==
    /\ At(s, "write")
    /\ row' = IF job[s].ended THEN row
              ELSE [row EXCEPT ![s] = Ended(@, job[s].final)]
    /\ Leave(s, "release")
    /\ UNCHANGED <<sessions, req, local, flag, crashes>>

\* The database answers neither of them.
EndLost(s) ==
    /\ "db" \in Faults
    /\ At(s, "read") \/ At(s, "write")
    /\ Leave(s, "release")
    /\ UNCHANGED <<row, sessions, req, local, flag, crashes>>

\* release_local_crawl.  A command line process exits here: nobody else reads
\* its counter, and it does not touch the flag.
Released(n) == IF n = 0 THEN 0 ELSE n - 1

ReleaseDash(s) ==
    /\ At(s, "release")
    /\ row[s].owner = Dash
    /\ Goto(s, "unlink")
    /\ local' = Released(local)
    /\ UNCHANGED <<row, sessions, req, flag, crashes>>

ExitCli(s) ==
    /\ At(s, "release")
    /\ row[s].owner \in Cli
    /\ Goto(s, "done")
    /\ UNCHANGED <<row, sessions, req, local, flag, crashes>>

\* unlink of the flag, which the file system may refuse.
Unlinked == flag' = NoFlag \/ ("unlink" \in Faults /\ flag' = flag)

\* run(): the last statement removes the flag.
UnlinkAtEnd(s) ==
    /\ At(s, "unlink")
    /\ Goto(s, "done")
    /\ Unlinked
    /\ UNCHANGED <<row, sessions, req, local, crashes>>

EndStep(s) ==
    EndReads(s) \/ EndWrites(s) \/ EndLost(s) \/ ReleaseDash(s) \/ ExitCli(s)
        \/ UnlinkAtEnd(s)

JobStep(s) ==
    \/ Configured(s) \/ ConfigFails(s)
    \/ Heartbeat(s) \/ PageCheck(s) \/ BatchCheck(s)
    \/ Exhausted(s) \/ CrawlFails(s)
    \/ EndStep(s)

-----------------------------------------------------------------------------
(* The routes. *)

Serve(r, step) == req' = [req EXCEPT ![r] = [NoReq EXCEPT !.at = step]]
Answer(r) == req' = [req EXCEPT ![r] = NoReq]

Sweeps == {"sweep to start", "sweep to status"}

\* Both routes begin with _end_stale_crawls, whose first step reads the counter.
Arrive(r, sweep) ==
    /\ req[r].at = "idle"
    /\ req' = [req EXCEPT ![r] = [NoReq EXCEPT !.at = sweep, !.idle = (local = 0)]]
    /\ UNCHANGED <<row, sessions, job, local, flag, crashes>>

\* Its second step ends what is gone; no crawl here when the counter was read
\* as 0, so a row under this process's name is from before a restart.
Sweep(r) ==
    /\ req[r].at \in Sweeps
    /\ row' = SweptRows(IF req[r].idle THEN Dash ELSE NoOne)
    /\ Serve(r, IF req[r].at = "sweep to start" THEN "check local" ELSE "active")
    /\ UNCHANGED <<sessions, job, local, flag, crashes>>

\* api_crawl_start
CheckLocal(r) ==
    /\ req[r].at = "check local"
    /\ IF local > 0 THEN Answer(r) ELSE Serve(r, "check active")
    /\ UNCHANGED <<row, sessions, job, local, flag, crashes>>

\* A crawl is active, a file is missing or Tor is down: no crawl.
CheckActive(r) ==
    /\ req[r].at = "check active"
    /\ \/ Answer(r)
       \/ /\ \A s \in Sessions : ~Running(s)
          /\ Serve(r, "claim")
    /\ UNCHANGED <<row, sessions, job, local, flag, crashes>>

Claim(r) ==
    /\ req[r].at = "claim"
    /\ local' = local + 1
    /\ Serve(r, "begin")
    /\ UNCHANGED <<row, sessions, job, flag, crashes>>

Begin(r) ==
    /\ req[r].at = "begin"
    /\ InsertSession(Dash)
    /\ job' = [job EXCEPT ![sessions + 1].at = "claimed"]
    /\ req' = [req EXCEPT ![r] = [NoReq EXCEPT !.at = "unlink", !.sid = sessions + 1]]
    /\ UNCHANGED <<local, flag, crashes>>

\* begin_crawl_session answers None, or raises and is rolled back.
BeginRefused(r) ==
    /\ req[r].at = "begin"
    /\ \/ RefuseSession
       \/ /\ "db" \in Faults \/ sessions = MaxSessions
          /\ UNCHANGED <<row, sessions>>
    /\ Serve(r, "unclaim")
    /\ UNCHANGED <<job, local, flag, crashes>>

BugUnclaimForgotten(r) ==
    /\ req[r].at = "unclaim"
    /\ Answer(r)
    /\ UNCHANGED <<row, sessions, job, local, flag, crashes>>

Unclaim(r) ==
    /\ req[r].at = "unclaim"
    /\ local' = Released(local)
    /\ Answer(r)
    /\ UNCHANGED <<row, sessions, job, flag, crashes>>

BugStartKeepsFlag(r) ==
    /\ req[r].at = "unlink"
    /\ req' = [req EXCEPT ![r].at = "spawn"]
    /\ UNCHANGED <<row, sessions, job, local, flag, crashes>>

UnlinkAtStart(r) ==
    /\ req[r].at = "unlink"
    /\ flag' = NoFlag
    /\ req' = [req EXCEPT ![r].at = "spawn"]
    /\ UNCHANGED <<row, sessions, job, local, crashes>>

\* It raises: the request ends with the claim taken and the row running.
UnlinkFails(r) ==
    /\ "unlink" \in Faults
    /\ req[r].at = "unlink"
    /\ Goto(req[r].sid, "unstarted")
    /\ Answer(r)
    /\ UNCHANGED <<row, sessions, local, flag, crashes>>

Spawn(r) ==
    /\ req[r].at = "spawn"
    /\ Goto(req[r].sid, "config")
    /\ Answer(r)
    /\ UNCHANGED <<row, sessions, local, flag, crashes>>

\* Thread.start raises: no thread, and nobody left to release the claim.
SpawnFails(r) ==
    /\ "spawn" \in Faults
    /\ req[r].at = "spawn"
    /\ Goto(req[r].sid, "unstarted")
    /\ Answer(r)
    /\ UNCHANGED <<row, sessions, local, flag, crashes>>

\* api_crawl_status: the active session is read; without one the flag goes.
ReadActive(r) ==
    /\ req[r].at = "active"
    /\ IF \E s \in Sessions : Running(s) THEN Answer(r) ELSE Serve(r, "clear")
    /\ UNCHANGED <<row, sessions, job, local, flag, crashes>>

ClearFlag(r) ==
    /\ req[r].at = "clear"
    /\ Unlinked
    /\ Answer(r)
    /\ UNCHANGED <<row, sessions, job, local, crashes>>

Route(r) ==
    \/ Sweep(r) \/ CheckLocal(r) \/ CheckActive(r) \/ Claim(r)
    \/ Begin(r) \/ BeginRefused(r) \/ Unclaim(r) \/ UnlinkAtStart(r)
    \/ UnlinkFails(r) \/ Spawn(r) \/ SpawnFails(r)
    \/ ReadActive(r) \/ ClearFlag(r)

\* api_crawl_stop
Stop ==
    /\ flag' = [up |-> TRUE, since |-> sessions]
    /\ UNCHANGED <<row, sessions, job, req, local, crashes>>

-----------------------------------------------------------------------------
(* The command line, the clock, and crashes. *)

Exited(s) == job[s].at \in {"none", "done", "unstarted", "dead"}

\* "scan": run_scan without a session id.  A refusal ends the process.
CliScan(c) ==
    /\ \A s \in Sessions : row[s].owner = c => Exited(s)
    /\ \/ /\ InsertSession(c)
          /\ job' = [job EXCEPT ![sessions + 1].at = "crawl"]
       \/ /\ RefuseSession
          /\ UNCHANGED job
    /\ UNCHANGED <<req, local, flag, crashes>>

\* A heartbeat period passes.  A crawl that lives keeps its heartbeat younger
\* than MaxBeatAge; with MaxBeatAge = StaleAfter it can be stuck that long.
Tick ==
    /\ \E s \in Sessions : Running(s) /\ ~Stale(row[s])
    /\ \A s \in Sessions : Running(s) /\ ~Exited(s) => row[s].age < MaxBeatAge
    /\ row' = [s \in Sessions |->
                 IF Running(s) /\ ~Stale(row[s])
                 THEN [row[s] EXCEPT !.age = @ + 1] ELSE row[s]]
    /\ UNCHANGED <<sessions, job, req, local, flag, crashes>>

Killed(owner) == [s \in Sessions |->
    IF row[s].owner = owner /\ ~At(s, "done") THEN [NoJob EXCEPT !.at = "dead"]
                                              ELSE job[s]]

\* The dashboard dies and comes back under the same name.
DashRestart ==
    /\ crashes < MaxCrashes
    /\ crashes' = crashes + 1
    /\ job' = Killed(Dash)
    /\ req' = [r \in Reqs |-> NoReq]
    /\ local' = 0
    /\ UNCHANGED <<row, sessions, flag>>

CliCrash(c) ==
    /\ crashes < MaxCrashes
    /\ crashes' = crashes + 1
    /\ \E s \in Sessions : row[s].owner = c /\ ~Exited(s)
    /\ job' = Killed(c)
    /\ UNCHANGED <<row, sessions, req, local, flag>>

-----------------------------------------------------------------------------
Init ==
    /\ row = [s \in Sessions |-> NoRow]
    /\ sessions = 0
    /\ job = [s \in Sessions |-> NoJob]
    /\ req = [r \in Reqs |-> NoReq]
    /\ local = 0
    /\ flag = NoFlag
    /\ crashes = 0

Next ==
    \/ \E s \in Sessions : JobStep(s)
    \/ \E r \in Reqs : Route(r)
    \/ \E r \in Reqs, sweep \in Sweeps : Arrive(r, sweep)
    \/ \E c \in Cli : CliScan(c) \/ CliCrash(c)
    \/ Stop
    \/ Tick
    \/ DashRestart

Spec == Init /\ [][Next]_vars

\* Threads are scheduled, a batch ends (every page has a timeout), time passes,
\* and the open page polls api_crawl_status.  Nobody has to start a crawl, to
\* stop one or to crash, and a crawl need not run out of links.
Fairness ==
    /\ WF_vars(Tick)
    /\ \A s \in Sessions :
         /\ WF_vars(Configured(s) \/ ConfigFails(s))
         /\ WF_vars(Heartbeat(s))
         /\ WF_vars(BatchCheck(s))
         /\ WF_vars(EndStep(s))
    /\ \A r \in Reqs :
         /\ WF_vars(Route(r))
         /\ WF_vars(\E sweep \in Sweeps : Arrive(r, sweep))

FairSpec == Spec /\ Fairness

-----------------------------------------------------------------------------
(* What the code promises. *)

\* At most one crawl is running, whatever the threads, processes, stalls and
\* restarts (begin_crawl_session: "unless a crawl is running, in any process").
AtMostOneRunning ==
    \A s, t \in Sessions : Running(s) /\ Running(t) => s = t

\* Between the insert of its row and the last write to it a crawl thread works
\* for a row that is running or that somebody interrupted, never one that is
\* absent or already final; it is told to halt only when its row was
\* interrupted, and skips its last write only then (heartbeat_crawl_session,
\* update_crawl_session).
Working(s) == job[s].at \in {"claimed", "config", "crawl", "read", "write"}

WorkerMatchesRow ==
    \A s \in Sessions :
        /\ Working(s) => row[s].status \in {"running", "interrupted"}
        /\ job[s].halt \/ job[s].ended => row[s].status = "interrupted"

\* Nobody interrupts a crawl whose process lives and whose heartbeat is fresh.
KeptWhileFresh(s) ==
    Running(s) /\ ~Exited(s) /\ ~Stale(row[s]) => row'[s].status # "interrupted"

\* That holds of the crawls of the command line: only the heartbeat decides.
FreshCliCrawlKept ==
    [][\A s \in Sessions : row[s].owner \in Cli => KeptWhileFresh(s)]_vars

\* storage.py:565 says it of every crawl: the own name is "passed only while
\* the caller runs no crawl".
FreshCrawlKept == [][\A s \in Sessions : KeptWhileFresh(s)]_vars

\* A crawl of the dashboard stops only for a flag that was written after its
\* session began: "a stop flag left from an earlier crawl is stale"
\* (dashboard_routes.py:623).  A crawl of the command line has no such step.
DashStopIsFresh ==
    [][\A s \in Sessions :
         /\ row[s].owner = Dash
         /\ ~job[s].stopSeen /\ job[s].final # "stopped"
         /\ job'[s].stopSeen \/ job'[s].final = "stopped"
         => flag.since >= s]_vars

\* A session whose process or thread is gone does not stay the running crawl
\* for ever: somebody's request ends it (interrupt_stale_crawl_sessions).
GoneSessionEnds ==
    \A s \in Sessions : (Running(s) /\ Exited(s)) ~> ~Running(s)

\* A crawl whose session was ended elsewhere stops fetching (_heartbeat,
\* halt): two crawls do not go on side by side.
InterruptedCrawlHalts ==
    \A s \in Sessions :
        (At(s, "crawl") /\ row[s].status = "interrupted") ~> ~At(s, "crawl")

\* No crawl goes on for ever under a flag that stays up (_stop_now).
FlagIsSeen == \A s \in Sessions : []<>(~At(s, "crawl") \/ ~flag.up)

\* A claim that no crawl uses is given back, so that a crawl can start again; but for
\* the claims of crawls whose old stop file could not be removed, or whose thread could
\* not be started.
ClaimIsReturned ==
    []<>(\/ local <= Cardinality({s \in Sessions : At(s, "unstarted")})
         \/ \E s \in Sessions : At(s, "crawl"))

\* A stop written while a crawl runs ends that crawl (api_crawl_stop: "Stop
\* signal sent - crawl will halt after current page.").
StopIsHonoured ==
    \A s \in Sessions :
        (At(s, "crawl") /\ flag.up /\ flag.since >= s) ~> ~At(s, "crawl")

\* storage.py:590: "A crawl that was already ended as interrupted (its heartbeat went
\* stale) keeps that status and its reason."
InterruptedIsKept ==
    [][\A s \in Sessions :
         row[s].status = "interrupted" => row'[s].status = "interrupted"]_vars

\* The table keeps the promise of CrawlRegistry: one running session, interrupted only
\* when its heartbeat lapsed or under the dashboard's name, and written by its own crawl
\* only if that had read it as running.
RegistryState ==
    [s \in Sessions |-> IF row[s].status = "none" THEN "new" ELSE row[s].status]
RegistryLapsed == {s \in Sessions : Running(s) /\ Stale(row[s])}
RegistryNamed == {s \in Sessions : row[s].owner = Dash}
RegistryEnding == {s \in Sessions : At(s, "write") /\ ~job[s].ended}

Registry == INSTANCE CrawlRegistry WITH state <- RegistryState,
                                        lapsed <- RegistryLapsed,
                                        named <- RegistryNamed,
                                        ending <- RegistryEnding

RegistrySpec == Registry!Spec
=============================================================================
