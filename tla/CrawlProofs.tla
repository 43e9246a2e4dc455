---------------------------- MODULE CrawlProofs ----------------------------
(* What CrawlLifecycle promises for every number of threads and processes,  *)
(* and CrawlPages for every graph of pages.                                 *)
EXTENDS CrawlLifecycle, CrawlPages, QueueLemmas, TLAPS

-----------------------------------------------------------------------------
(* The transactions on the rows. *)

LEMMA Positive ==
    StaleAfter \in Nat /\ StaleAfter > 0 /\ MaxSessions \in Nat /\ MaxCrashes \in Nat
BY ConstantsAssumption

\* A sweep keeps the type and the owner of a row, and only takes "running" away.
LEMMA SweptRow ==
    ASSUME NEW r \in Row, NEW idle
    PROVE  /\ Swept(r, idle) \in Row
           /\ Swept(r, idle).owner = r.owner
           /\ Swept(r, idle).status = "running" => Swept(r, idle) = r
           /\ r.status # "running" => Swept(r, idle) = r
           /\ r.status = "running" =>
                Swept(r, idle).status \in {"running", "interrupted"}
<1>1. Ended(r, "interrupted") \in Row
  BY Positive DEF Ended, Row, Statuses
<1>2. /\ Ended(r, "interrupted").status = "interrupted"
      /\ Ended(r, "interrupted").owner = r.owner
  BY DEF Ended
<1>3. QED BY <1>1, <1>2 DEF Swept

LEMMA SweptRowsType ==
    ASSUME row \in [Sessions -> Row], NEW idle
    PROVE  SweptRows(idle) \in [Sessions -> Row]
BY SweptRow DEF SweptRows

\* The rows after begin_crawl_session inserted one for owner.
LEMMA InsertType ==
    ASSUME TypeOK, NEW owner \in Owners, InsertSession(owner)
    PROVE  /\ row' \in [Sessions -> Row]
           /\ sessions' \in 0..MaxSessions
           /\ sessions + 1 \in Sessions
<1>1. sessions + 1 \in Sessions /\ sessions' \in 0..MaxSessions
  BY Positive DEF TypeOK, InsertSession, Sessions
<1>2. Begun(owner) \in Row
  BY Positive DEF Begun, Row, Statuses
<1>3. row' \in [Sessions -> Row]
  BY <1>1, <1>2, SweptRowsType DEF InsertSession, TypeOK
<1>4. QED BY <1>1, <1>3

-----------------------------------------------------------------------------
(* Types.  How the records of job, req and flag change, then the actions. *)

LEMMA JobStepNames ==
    \A step \in {"claimed", "config", "crawl", "read", "write", "release",
                 "unlink", "done", "unstarted", "dead"} : step \in JobSteps
BY DEF JobSteps

LEMMA ReqStepNames ==
    \A step \in {"check local", "check active", "claim", "begin", "unclaim",
                 "unlink", "spawn", "active", "clear"} : step \in ReqSteps
BY DEF ReqSteps, StartSteps, StatusSteps

LEMMA Zero == 0 \in 0..MaxSessions /\ 0 \in 0..StaleAfter
BY Positive

LEMMA GotoType ==
    ASSUME job \in [Sessions -> Job], NEW s, NEW step \in JobSteps, Goto(s, step)
    PROVE  job' \in [Sessions -> Job]
BY DEF Goto, Job

LEMMA FreshJob ==
    ASSUME NEW step \in JobSteps
    PROVE  [NoJob EXCEPT !.at = step] \in Job
BY DEF Job, NoJob, Finals

LEMMA LeaveType ==
    ASSUME job \in [Sessions -> Job], NEW s, NEW step \in JobSteps, Leave(s, step)
    PROVE  job' \in [Sessions -> Job]
BY FreshJob DEF Leave

LEMMA EndAsType ==
    ASSUME job \in [Sessions -> Job], NEW s, NEW how \in Finals, EndAs(s, how)
    PROVE  job' \in [Sessions -> Job]
<1>1. [NoJob EXCEPT !.at = "read", !.final = how] \in Job
  BY DEF Job, NoJob, JobSteps
<1>2. QED BY <1>1 DEF EndAs

LEMMA ServeType ==
    ASSUME req \in [Reqs -> Req], NEW r, NEW step \in ReqSteps, Serve(r, step)
    PROVE  req' \in [Reqs -> Req]
<1>1. [NoReq EXCEPT !.at = step] \in Req
  BY Zero DEF NoReq, Req
<1>2. QED BY <1>1 DEF Serve

LEMMA AnswerType ==
    ASSUME req \in [Reqs -> Req], NEW r, Answer(r)
    PROVE  req' \in [Reqs -> Req]
<1>1. NoReq \in Req
  BY Zero DEF NoReq, Req, ReqSteps
<1>2. QED BY <1>1 DEF Answer

LEMMA NoFlagType == NoFlag \in [up : BOOLEAN, since : 0..MaxSessions]
BY Zero DEF NoFlag

LEMMA JobStepType ==
    ASSUME TypeOK, NEW s \in Sessions, JobStep(s)
    PROVE  TypeOK'
<1>1. CASE Configured(s) \/ ConfigFails(s)
  BY <1>1, GotoType, JobStepNames DEF Configured, ConfigFails, TypeOK
<1>2. CASE Heartbeat(s)
  <2>1. row' \in [Sessions -> Row]
    BY <1>2, Zero DEF Heartbeat, TypeOK, Row
  <2>2. job' \in [Sessions -> Job]
    BY ZenonT(30), <1>2 DEF Heartbeat, TypeOK, Job
  <2>3. QED BY <1>2, <2>1, <2>2 DEF Heartbeat, TypeOK
<1>3. CASE PageCheck(s)
  <2>1. job' \in [Sessions -> Job]
    BY <1>3 DEF PageCheck, TypeOK, Job
  <2>2. QED BY <1>3, <2>1 DEF PageCheck, TypeOK
<1>4. CASE BatchCheck(s) \/ Exhausted(s) \/ CrawlFails(s)
  <2>1. \E how \in Finals : EndAs(s, how)
    BY <1>4 DEF BatchCheck, Exhausted, CrawlFails, Finals
  <2>2. UNCHANGED <<row, sessions, req, local, flag, crashes>>
    BY <1>4 DEF BatchCheck, Exhausted, CrawlFails
  <2>3. QED BY <2>1, <2>2, EndAsType DEF TypeOK
<1>5. CASE EndReads(s)
  <2>1. ASSUME NEW b \in BOOLEAN
        PROVE  [job[s] EXCEPT !.at = "write", !.ended = b] \in Job
    BY ZenonT(30) DEF TypeOK, Job, JobSteps
  <2>2. (row[s].status = "interrupted") \in BOOLEAN
    OBVIOUS
  <2>3. QED BY <1>5, <2>1, <2>2 DEF EndReads, TypeOK
<1>6. CASE EndWrites(s)
  <2>1. job[s].final \in Statuses
    BY DEF TypeOK, Job, Statuses
  <2>2. Ended(row[s], job[s].final) \in Row
    BY <2>1, Zero DEF Ended, TypeOK, Row
  <2>3. row' \in [Sessions -> Row]
    BY <1>6, <2>2 DEF EndWrites, TypeOK
  <2>4. QED BY <1>6, <2>3, LeaveType, JobStepNames DEF EndWrites, TypeOK
<1>7. CASE EndLost(s)
  BY <1>7, LeaveType, JobStepNames DEF EndLost, TypeOK
<1>8. CASE ReleaseDash(s) \/ ExitCli(s)
  BY <1>8, GotoType, JobStepNames DEF ReleaseDash, ExitCli, Released, TypeOK
<1>9. CASE UnlinkAtEnd(s)
  BY <1>9, GotoType, JobStepNames, NoFlagType DEF UnlinkAtEnd, Unlinked, TypeOK
<1>10. QED BY <1>1, <1>2, <1>3, <1>4, <1>5, <1>6, <1>7, <1>8, <1>9
       DEF JobStep, EndStep

LEMMA RouteType ==
    ASSUME TypeOK, NEW r \in Reqs, Route(r)
    PROVE  TypeOK'
<1>1. CASE Sweep(r)
  BY <1>1, SweptRowsType, ServeType, ReqStepNames DEF Sweep, TypeOK
<1>2. CASE CheckLocal(r) \/ CheckActive(r) \/ ReadActive(r)
  BY <1>2, ServeType, AnswerType, ReqStepNames
  DEF CheckLocal, CheckActive, ReadActive, TypeOK
<1>3. CASE Claim(r)
  <2>1. local' \in Nat
    BY <1>3 DEF Claim, TypeOK
  <2>2. QED BY <1>3, <2>1, ServeType, ReqStepNames DEF Claim, TypeOK
<1>4. CASE Unclaim(r)
  BY <1>4, AnswerType DEF Unclaim, Released, TypeOK
<1>5. CASE Begin(r)
  <2>1. /\ row' \in [Sessions -> Row]
        /\ sessions' \in 0..MaxSessions
        /\ sessions + 1 \in Sessions
    BY <1>5, InsertType DEF Begin, Owners
  <2>2. job' \in [Sessions -> Job]
    BY ZenonT(30), <1>5 DEF Begin, TypeOK, Job, JobSteps
  <2>3. sessions + 1 \in 0..MaxSessions
    BY <2>1, Positive DEF Sessions
  <2>4. [NoReq EXCEPT !.at = "unlink", !.sid = sessions + 1] \in Req
    BY <2>3, ReqStepNames DEF NoReq, Req
  <2>5. req' \in [Reqs -> Req]
    BY <1>5, <2>4 DEF Begin, TypeOK
  <2>6. QED BY <1>5, <2>1, <2>2, <2>5 DEF Begin, TypeOK
<1>6. CASE BeginRefused(r)
  BY <1>6, SweptRowsType, ServeType, ReqStepNames
  DEF BeginRefused, RefuseSession, TypeOK
<1>7. CASE UnlinkAtStart(r)
  <2>1. req' \in [Reqs -> Req]
    BY <1>7, ReqStepNames DEF UnlinkAtStart, TypeOK, Req
  <2>2. QED BY <1>7, <2>1, NoFlagType DEF UnlinkAtStart, TypeOK
<1>8. CASE ClearFlag(r)
  BY <1>8, NoFlagType, AnswerType DEF ClearFlag, Unlinked, TypeOK
<1>9. CASE UnlinkFails(r) \/ Spawn(r) \/ SpawnFails(r)
  BY <1>9, GotoType, AnswerType, JobStepNames DEF UnlinkFails, Spawn, SpawnFails, TypeOK
<1>10. QED BY <1>1, <1>2, <1>3, <1>4, <1>5, <1>6, <1>7, <1>8, <1>9 DEF Route

LEMMA ArriveType ==
    ASSUME TypeOK, NEW r \in Reqs, NEW sweep \in Sweeps, Arrive(r, sweep)
    PROVE  TypeOK'
<1>1. sweep \in ReqSteps
  BY DEF Sweeps, ReqSteps, StartSteps, StatusSteps
<1>2. ASSUME NEW b \in BOOLEAN
      PROVE  [NoReq EXCEPT !.at = sweep, !.idle = b] \in Req
  BY <1>1, Zero DEF NoReq, Req
<1>3. (local = 0) \in BOOLEAN
  OBVIOUS
<1>4. QED BY <1>2, <1>3 DEF Arrive, TypeOK

LEMMA KilledType ==
    ASSUME job \in [Sessions -> Job], NEW owner
    PROVE  Killed(owner) \in [Sessions -> Job]
BY FreshJob, JobStepNames DEF Killed

LEMMA CliType ==
    ASSUME TypeOK, NEW c \in Cli, CliScan(c) \/ CliCrash(c)
    PROVE  TypeOK'
<1>1. CASE CliScan(c) /\ InsertSession(c)
  <2>1. row' \in [Sessions -> Row] /\ sessions' \in 0..MaxSessions
    BY <1>1, InsertType DEF Owners
  <2>2. job' \in [Sessions -> Job]
    BY <1>1 DEF CliScan, TypeOK, Job, JobSteps
  <2>3. QED BY <1>1, <2>1, <2>2 DEF CliScan, TypeOK
<1>2. CASE CliScan(c) /\ RefuseSession /\ UNCHANGED job
  BY <1>2, SweptRowsType DEF CliScan, RefuseSession, TypeOK
<1>3. CASE CliCrash(c)
  <2>1. crashes' \in 0..MaxCrashes
    BY <1>3, Positive DEF CliCrash, TypeOK
  <2>2. QED BY <1>3, <2>1, KilledType DEF CliCrash, TypeOK
<1>4. QED BY <1>1, <1>2, <1>3 DEF CliScan

LEMMA EnvironmentType ==
    ASSUME TypeOK, Stop \/ Tick \/ DashRestart
    PROVE  TypeOK'
<1>1. CASE Stop
  BY <1>1 DEF Stop, TypeOK
<1>2. CASE Tick
  <2>1. ASSUME NEW s \in Sessions, ~Stale(row[s])
        PROVE  [row[s] EXCEPT !.age = @ + 1] \in Row
    <3>1. row[s] \in Row
      BY DEF TypeOK
    <3>2. row[s].age + 1 \in 0..StaleAfter
      BY <2>1, <3>1, Positive DEF Row, Stale
    <3>3. QED BY <3>1, <3>2 DEF Row
  <2>2. row' \in [Sessions -> Row]
    BY <1>2, <2>1 DEF Tick, TypeOK
  <2>3. QED BY <1>2, <2>2 DEF Tick, TypeOK
<1>3. CASE DashRestart
  <2>1. crashes' \in 0..MaxCrashes
    BY <1>3, Positive DEF DashRestart, TypeOK
  <2>2. NoReq \in Req
    BY Zero DEF NoReq, Req, ReqSteps
  <2>3. QED BY <1>3, <2>1, <2>2, KilledType DEF DashRestart, TypeOK
<1>4. QED BY <1>1, <1>2, <1>3

\* Every variable keeps its type.
THEOREM TypeCorrect == Spec => []TypeOK
<1>1. Init => TypeOK
  <2>1. NoRow \in Row
    BY Zero DEF NoRow, Row, Statuses
  <2>2. NoJob \in Job
    BY DEF NoJob, Job, JobSteps, Finals
  <2>3. NoReq \in Req
    BY Zero DEF NoReq, Req, ReqSteps
  <2>4. 0 \in 0..MaxCrashes
    BY Positive
  <2>5. QED BY <2>1, <2>2, <2>3, <2>4, Zero, NoFlagType DEF Init, TypeOK
<1>2. TypeOK /\ [Next]_vars => TypeOK'
  <2>1. TypeOK /\ Next => TypeOK'
    BY JobStepType, RouteType, ArriveType, CliType, EnvironmentType DEF Next
  <2>2. TypeOK /\ UNCHANGED vars => TypeOK'
    BY DEF vars, TypeOK
  <2>3. QED BY <2>1, <2>2
<1>3. QED BY <1>1, <1>2, PTL DEF Spec

-----------------------------------------------------------------------------
(* One crawl at a time.  A step that inserts no row makes no row run; a step *)
(* that inserts one leaves it the only one that runs.                        *)

\* What a step can do to the rows.
LEMMA RowSteps ==
    ASSUME Next
    PROVE  \/ UNCHANGED row
           \/ \E s \in Sessions : Heartbeat(s) \/ EndWrites(s)
           \/ \E idle \in {Dash, NoOne} : row' = SweptRows(idle)
           \/ Tick
           \/ \E owner \in Owners : InsertSession(owner)
<1>1. ASSUME NEW s \in Sessions, JobStep(s), ~Heartbeat(s), ~EndWrites(s)
      PROVE  UNCHANGED row
  BY <1>1 DEF JobStep, EndStep, Configured, ConfigFails, PageCheck, BatchCheck,
              Exhausted, CrawlFails, EndReads, EndLost, ReleaseDash, ExitCli,
              UnlinkAtEnd
<1>2. ASSUME NEW r \in Reqs, Route(r), ~InsertSession(Dash)
      PROVE  UNCHANGED row \/ \E idle \in {Dash, NoOne} : row' = SweptRows(idle)
  BY <1>2 DEF Route, Sweep, CheckLocal, CheckActive, Claim, Begin, BeginRefused,
              RefuseSession, Unclaim, UnlinkAtStart, UnlinkFails, Spawn, SpawnFails,
              ReadActive, ClearFlag
<1>3. ASSUME NEW c \in Cli, CliScan(c) \/ CliCrash(c), ~InsertSession(c)
      PROVE  UNCHANGED row \/ \E idle \in {Dash, NoOne} : row' = SweptRows(idle)
  BY <1>3 DEF CliScan, CliCrash, RefuseSession
<1>4. ASSUME NEW r \in Reqs, NEW sweep \in Sweeps, Arrive(r, sweep)
      PROVE  UNCHANGED row
  BY <1>4 DEF Arrive
<1>5. Stop \/ DashRestart => UNCHANGED row
  BY DEF Stop, DashRestart
<1>6. QED BY <1>1, <1>2, <1>3, <1>4, <1>5 DEF Next, Owners

\* s goes on as the running session it was.
GoesOn(s) == Running(s) /\ row'[s].owner = row[s].owner

LEMMA SweepStartsNone ==
    ASSUME TypeOK, NEW idle, row' = SweptRows(idle)
    PROVE  \A s \in Sessions : Running(s)' => GoesOn(s)
BY SweptRow DEF SweptRows, Running, GoesOn, TypeOK

LEMMA InsertRunsAlone ==
    ASSUME TypeOK, NEW owner \in Owners, InsertSession(owner)
    PROVE  \A s \in Sessions :
             Running(s)' => s = sessions + 1 /\ row'[s].owner = owner
<1>1. ASSUME NEW s \in Sessions, s # sessions + 1
      PROVE  ~Running(s)'
  <2>1. row'[s] = Swept(row[s], NoOne)
    BY <1>1 DEF InsertSession, SweptRows
  <2>2. QED BY <2>1 DEF InsertSession, CrawlRunning, Running
<1>2. row'[sessions + 1].owner = owner
  <2>1. row'[sessions + 1] = Begun(owner)
    BY InsertType, SweptRowsType DEF InsertSession, TypeOK
  <2>2. QED BY <2>1 DEF Begun
<1>3. QED BY <1>1, <1>2

LEMMA OnlyInsertStarts ==
    ASSUME TypeOK, Next, ~\E owner \in Owners : InsertSession(owner)
    PROVE  \A s \in Sessions : Running(s)' => GoesOn(s)
<1>1. CASE UNCHANGED row
  BY <1>1 DEF Running, GoesOn
<1>2. ASSUME NEW s \in Sessions, Heartbeat(s), ~UNCHANGED row
      PROVE  \A t \in Sessions : Running(t)' => GoesOn(t)
  BY <1>2 DEF Heartbeat, Running, GoesOn, TypeOK, Row
<1>3. ASSUME NEW s \in Sessions, EndWrites(s), ~UNCHANGED row
      PROVE  \A t \in Sessions : Running(t)' => GoesOn(t)
  <2>1. Ended(row[s], job[s].final).status # "running"
    BY DEF Ended, TypeOK, Job, Finals
  <2>2. QED BY <1>3, <2>1 DEF EndWrites, Running, GoesOn, TypeOK
<1>4. ASSUME NEW idle, row' = SweptRows(idle)
      PROVE  \A t \in Sessions : Running(t)' => GoesOn(t)
  BY <1>4, SweepStartsNone
<1>5. CASE Tick
  BY <1>5 DEF Tick, Running, GoesOn, TypeOK, Row
<1>6. QED BY <1>1, <1>2, <1>3, <1>4, <1>5, RowSteps

\* At most one crawl is running, in whichever process.
THEOREM OneCrawl == Spec => []AtMostOneRunning
<1>1. Init => AtMostOneRunning
  BY DEF Init, AtMostOneRunning, Running, NoRow
<1>2. TypeOK /\ AtMostOneRunning /\ [Next]_vars => AtMostOneRunning'
  <2>1. ASSUME TypeOK, NEW owner \in Owners, InsertSession(owner)
        PROVE  AtMostOneRunning'
    BY <2>1, InsertRunsAlone DEF AtMostOneRunning
  <2>2. ASSUME TypeOK, AtMostOneRunning, Next, ~\E owner \in Owners : InsertSession(owner)
        PROVE  AtMostOneRunning'
    BY <2>2, OnlyInsertStarts DEF AtMostOneRunning, GoesOn
  <2>3. AtMostOneRunning /\ UNCHANGED vars => AtMostOneRunning'
    BY DEF AtMostOneRunning, Running, vars
  <2>4. QED BY <2>1, <2>2, <2>3
<1>3. QED BY <1>1, <1>2, TypeCorrect, PTL DEF Spec

-----------------------------------------------------------------------------
(* The refinement needs to know what a crawl thread may assume of its row:   *)
(* WorkerMatchesRow.  That is inductive together with two facts: a row that  *)
(* was not inserted has no thread, and a session between its insert and the  *)
(* start of its thread is reserved for one request.                          *)

Unused ==
    \A s \in Sessions : s > sessions => row[s] = NoRow /\ job[s] = NoJob

Starting(r) == req[r].at \in {"unlink", "spawn"}

Reserved ==
    /\ \A r \in Reqs : Starting(r) =>
          /\ req[r].sid \in 1..sessions
          /\ At(req[r].sid, "claimed")
          /\ row[req[r].sid].owner = Dash
    /\ \A r, q \in Reqs :
          Starting(r) /\ Starting(q) /\ req[r].sid = req[q].sid => r = q

IInv == TypeOK /\ AtMostOneRunning /\ WorkerMatchesRow /\ Unused /\ Reserved

\* What a sweep and an insert leave of the rows.
LEMMA SweepFrame ==
    ASSUME TypeOK, NEW idle, NEW t \in Sessions
    PROVE  LET new == SweptRows(idle)[t] IN
           /\ row[t].status \in {"running", "interrupted"} =>
                new.status \in {"running", "interrupted"}
           /\ row[t].status # "running" => new = row[t]
           /\ new.owner = row[t].owner
<1>1. SweptRows(idle)[t] = Swept(row[t], idle) /\ row[t] \in Row
  BY DEF SweptRows, TypeOK
<1>2. QED BY <1>1, SweptRow

LEMMA InsertFrame ==
    ASSUME TypeOK, NEW owner \in Owners, InsertSession(owner)
    PROVE  /\ sessions + 1 \in Sessions /\ sessions' = sessions + 1
           /\ row'[sessions + 1] = Begun(owner)
           /\ \A t \in Sessions : t # sessions + 1 => row'[t] = SweptRows(NoOne)[t]
<1>1. sessions + 1 \in Sessions
  BY InsertType
<1>2. SweptRows(NoOne) \in [Sessions -> Row]
  BY SweptRowsType DEF TypeOK
<1>3. QED BY <1>1, <1>2 DEF InsertSession

LEMMA JobStepFrame ==
    ASSUME TypeOK, NEW s \in Sessions, JobStep(s)
    PROVE  /\ job[s].at \notin {"none", "claimed"}
           /\ UNCHANGED <<sessions, req>>
           /\ \A t \in Sessions \ {s} : row'[t] = row[t] /\ job'[t] = job[t]
           /\ row'[s].owner = row[s].owner
<1> USE DEF At, TypeOK
<1>1. CASE Heartbeat(s)
  <2>1. row'[s].owner = row[s].owner
    BY <1>1 DEF Heartbeat, Row
  <2>2. QED BY <1>1, <2>1 DEF Heartbeat
<1>2. CASE EndWrites(s)
  BY <1>2 DEF EndWrites, Leave, Ended
<1>3. CASE UNCHANGED row /\ ~Heartbeat(s) /\ ~EndWrites(s)
  BY <1>3 DEF JobStep, EndStep, Configured, ConfigFails, PageCheck, BatchCheck,
              Exhausted, CrawlFails, EndReads, EndLost, ReleaseDash, ExitCli,
              UnlinkAtEnd, Goto, Leave, EndAs
<1>4. QED BY <1>1, <1>2, <1>3
      DEF JobStep, EndStep, Configured, ConfigFails, PageCheck, BatchCheck,
          Exhausted, CrawlFails, EndReads, EndLost, ReleaseDash, ExitCli, UnlinkAtEnd

LEMMA JobStepMatches ==
    ASSUME TypeOK, WorkerMatchesRow, NEW s \in Sessions, JobStep(s)
    PROVE  /\ Working(s)' => row'[s].status \in {"running", "interrupted"}
           /\ job'[s].halt \/ job'[s].ended => row'[s].status = "interrupted"
<1> USE DEF At, TypeOK, WorkerMatchesRow, Working
<1>1. CASE Configured(s) \/ ConfigFails(s)
  BY <1>1 DEF Configured, ConfigFails, Goto, Job
<1>2. CASE Heartbeat(s)
  <2>1. CASE Running(s)
    <3>1. row'[s].status = "running" /\ job' = job
      BY <1>2, <2>1 DEF Heartbeat, Running, Row
    <3>2. QED BY <2>1, <3>1 DEF Running
  <2>2. CASE ~Running(s)
    BY <1>2, <2>2 DEF Heartbeat, Running, Job
  <2>3. QED BY <2>1, <2>2
<1>3. CASE PageCheck(s)
  BY <1>3 DEF PageCheck, Job
<1>4. CASE BatchCheck(s) \/ Exhausted(s) \/ CrawlFails(s)
  <2>1. UNCHANGED row /\ At(s, "crawl") /\ \E how : EndAs(s, how)
    BY <1>4 DEF BatchCheck, Exhausted, CrawlFails
  <2>2. QED BY <2>1 DEF EndAs, NoJob
<1>5. CASE EndReads(s)
  BY <1>5 DEF EndReads, Job
<1>6. CASE EndWrites(s) \/ EndLost(s)
  BY <1>6 DEF EndWrites, EndLost, Leave, NoJob
<1>7. CASE ReleaseDash(s) \/ ExitCli(s)
  BY <1>7 DEF ReleaseDash, ExitCli, Goto, Job
<1>8. CASE UnlinkAtEnd(s)
  BY <1>8 DEF UnlinkAtEnd, Goto, Job
<1>9. QED BY <1>1, <1>2, <1>3, <1>4, <1>5, <1>6, <1>7, <1>8 DEF JobStep, EndStep

LEMMA JobStepIInv ==
    ASSUME TypeOK, WorkerMatchesRow, Unused, Reserved, NEW s \in Sessions, JobStep(s)
    PROVE  WorkerMatchesRow' /\ Unused' /\ Reserved'
<1>1. WorkerMatchesRow'
  BY JobStepFrame, JobStepMatches DEF WorkerMatchesRow, Working
<1>2. Unused'
  <2>1. ~(s > sessions)
    BY JobStepFrame DEF Unused, NoJob
  <2>2. QED BY <2>1, JobStepFrame DEF Unused
<1>3. Reserved'
  <2>1. 1..sessions \subseteq Sessions
    BY Positive DEF TypeOK, Sessions
  <2>2. QED BY <2>1, JobStepFrame DEF Reserved, Starting, At
<1>4. QED BY <1>1, <1>2, <1>3

\* Steps that start and end no thread: the rows are swept, or time passes, and
\* no request gets a session it had not.
RowsSwept ==
    \A t \in Sessions :
        /\ row[t].status \in {"running", "interrupted"} =>
             row'[t].status \in {"running", "interrupted"}
        /\ row[t].status # "running" => row'[t] = row[t]
        /\ row'[t].owner = row[t].owner

LEMMA SweptIInv ==
    ASSUME TypeOK, WorkerMatchesRow, Unused, Reserved,
           RowsSwept, UNCHANGED <<sessions, job>>,
           \A r \in Reqs : Starting(r)' => Starting(r) /\ req'[r].sid = req[r].sid
    PROVE  WorkerMatchesRow' /\ Unused' /\ Reserved'
<1>1. WorkerMatchesRow'
  BY DEF WorkerMatchesRow, Working, RowsSwept
<1>2. Unused'
  BY DEF Unused, RowsSwept, NoRow
<1>3. Reserved'
  <2>1. 1..sessions \subseteq Sessions
    BY Positive DEF TypeOK, Sessions
  <2>2. QED BY <2>1 DEF Reserved, RowsSwept, At
<1>4. QED BY <1>1, <1>2, <1>3

LEMMA SweepSweeps ==
    ASSUME TypeOK, UNCHANGED row \/ \E idle : row' = SweptRows(idle)
    PROVE  RowsSwept
BY SweepFrame DEF RowsSwept

LEMMA QuietRoutes ==
    ASSUME TypeOK, NEW r \in Reqs,
           \/ Sweep(r) \/ CheckLocal(r) \/ CheckActive(r) \/ Claim(r)
           \/ BeginRefused(r) \/ Unclaim(r) \/ UnlinkAtStart(r)
           \/ ReadActive(r) \/ ClearFlag(r)
    PROVE  /\ RowsSwept
           /\ UNCHANGED <<sessions, job>>
           /\ \A q \in Reqs : Starting(q)' => Starting(q) /\ req'[q].sid = req[q].sid
<1>1. UNCHANGED row \/ \E idle : row' = SweptRows(idle)
  BY DEF Sweep, CheckLocal, CheckActive, Claim, BeginRefused, RefuseSession,
         Unclaim, UnlinkAtStart, ReadActive, ClearFlag
<1>2. UNCHANGED <<sessions, job>>
  BY DEF Sweep, CheckLocal, CheckActive, Claim, BeginRefused, RefuseSession,
         Unclaim, UnlinkAtStart, ReadActive, ClearFlag
<1>3. \A q \in Reqs : Starting(q)' => Starting(q) /\ req'[q].sid = req[q].sid
  <2>1. CASE UnlinkAtStart(r)
    BY <2>1 DEF UnlinkAtStart, Starting, TypeOK, Req
  <2>2. CASE Answer(r)
    BY <2>2 DEF Answer, NoReq, Starting, TypeOK
  <2>3. CASE \E step \in ReqSteps \ {"unlink", "spawn"} : Serve(r, step)
    BY <2>3 DEF Serve, NoReq, Starting, TypeOK
  <2>4. ~UnlinkAtStart(r) =>
          Answer(r) \/ \E step \in ReqSteps \ {"unlink", "spawn"} : Serve(r, step)
    BY DEF Sweep, CheckLocal, CheckActive, Claim, BeginRefused, Unclaim,
           ReadActive, ClearFlag, ReqSteps, StartSteps, StatusSteps
  <2>5. QED BY <2>1, <2>2, <2>3, <2>4
<1>4. QED BY <1>1, <1>2, <1>3, SweepSweeps

\* The steps that start and end threads.
LEMMA InsertIInv ==
    ASSUME TypeOK, WorkerMatchesRow, Unused, Reserved,
           NEW owner \in Owners, InsertSession(owner),
           NEW step \in {"claimed", "crawl"},
           job' = [job EXCEPT ![sessions + 1].at = step]
    PROVE  /\ WorkerMatchesRow' /\ Unused'
           /\ \A t \in Sessions : t <= sessions /\ At(t, "claimed") => At(t, "claimed")'
           /\ \A t \in Sessions : t <= sessions => row'[t].owner = row[t].owner
<1> DEFINE n == sessions + 1
<1>1. /\ n \in Sessions /\ sessions' = n /\ row'[n] = Begun(owner)
      /\ \A t \in Sessions : t # n => row'[t] = SweptRows(NoOne)[t]
  BY InsertFrame
<1>2. sessions \in Nat
  BY DEF TypeOK
<1>3. job[n] = NoJob
  BY <1>1, <1>2 DEF Unused
<1>4. /\ job'[n].at = step /\ ~job'[n].halt /\ ~job'[n].ended
      /\ \A t \in Sessions : t # n => job'[t] = job[t]
  BY <1>1, <1>3 DEF TypeOK, NoJob
<1>5. WorkerMatchesRow'
  <2> SUFFICES ASSUME NEW t \in Sessions
               PROVE  /\ Working(t)' => row'[t].status \in {"running", "interrupted"}
                      /\ job'[t].halt \/ job'[t].ended => row'[t].status = "interrupted"
    BY DEF WorkerMatchesRow
  <2>1. CASE t = n
    BY <1>1, <1>4, <2>1 DEF Begun
  <2>2. CASE t # n
    BY <1>1, <1>4, <2>2, SweepFrame DEF WorkerMatchesRow, Working
  <2>3. QED BY <2>1, <2>2
<1>6. Unused'
  <2> SUFFICES ASSUME NEW t \in Sessions, t > n
               PROVE  row'[t] = NoRow /\ job'[t] = NoJob
    BY <1>1 DEF Unused
  <2>1. t # n /\ t > sessions
    BY <1>2 DEF Sessions
  <2>2. row[t] = NoRow /\ job[t] = NoJob
    BY <2>1 DEF Unused
  <2>3. QED BY <1>1, <1>4, <2>1, <2>2, SweepFrame DEF NoRow
<1>7. \A t \in Sessions : t <= sessions => t # n
  BY <1>2 DEF Sessions
<1>8. QED BY <1>1, <1>4, <1>5, <1>6, <1>7, SweepFrame DEF At

LEMMA RouteIInv ==
    ASSUME TypeOK, WorkerMatchesRow, Unused, Reserved, NEW r \in Reqs, Route(r)
    PROVE  WorkerMatchesRow' /\ Unused' /\ Reserved'
<1>1. CASE Begin(r)
  <2> DEFINE n == sessions + 1
  <2>1. Dash \in Owners /\ sessions \in Nat /\ 1..sessions \subseteq Sessions
    BY Positive DEF Owners, TypeOK, Sessions
  <2>2. /\ n \in Sessions /\ sessions' = n /\ row'[n] = Begun(Dash)
        /\ job' = [job EXCEPT ![n].at = "claimed"]
    BY <1>1, <2>1, InsertFrame DEF Begin
  <2>3. /\ WorkerMatchesRow' /\ Unused'
        /\ \A t \in Sessions : t <= sessions /\ At(t, "claimed") => At(t, "claimed")'
        /\ \A t \in Sessions : t <= sessions => row'[t].owner = row[t].owner
    BY <1>1, <2>1, InsertIInv DEF Begin
  <2>4. /\ Starting(r)' /\ req'[r].sid = n
        /\ \A q \in Reqs : q # r => req'[q] = req[q]
    BY <1>1 DEF Begin, Starting, TypeOK, NoReq
  <2>5. job'[n].at = "claimed" /\ row'[n].owner = Dash
    <3>1. job'[n] = [job[n] EXCEPT !.at = "claimed"] /\ job[n] \in Job
      BY <2>2 DEF TypeOK
    <3>2. QED BY <2>2, <3>1 DEF Begun, Job
  <2>6. \A q \in Reqs : q # r /\ Starting(q)' =>
           /\ req'[q].sid \in 1..sessions /\ req'[q].sid \in Sessions
           /\ job'[req'[q].sid].at = "claimed" /\ row'[req'[q].sid].owner = Dash
    <3> SUFFICES ASSUME NEW q \in Reqs, q # r, Starting(q)'
                 PROVE  /\ req'[q].sid \in 1..sessions /\ req'[q].sid \in Sessions
                        /\ job'[req'[q].sid].at = "claimed" /\ row'[req'[q].sid].owner = Dash
      OBVIOUS
    <3>1. Starting(q) /\ req'[q].sid = req[q].sid
      BY <2>4 DEF Starting
    <3>2. /\ req[q].sid \in 1..sessions /\ At(req[q].sid, "claimed")
          /\ row[req[q].sid].owner = Dash
      BY <3>1 DEF Reserved
    <3>3. req[q].sid \in Sessions /\ req[q].sid <= sessions
      BY <3>2, <2>1
    <3>4. QED BY <2>3, <3>1, <3>2, <3>3 DEF At
  <2>7. \A q \in Reqs : q # r /\ Starting(q)' => req'[q].sid # n
    BY <2>1, <2>6
  <2>8. \A q, p \in Reqs : q # r /\ p # r /\ Starting(q)' /\ Starting(p)'
                             /\ req'[q].sid = req'[p].sid => q = p
    BY <2>4 DEF Reserved, Starting
  <2>9. n \in 1..n /\ 1..sessions \subseteq 1..n
    BY <2>1
  <2>10. Reserved'
    BY <2>2, <2>4, <2>5, <2>6, <2>7, <2>8, <2>9 DEF Reserved, At
  <2>11. QED BY <2>3, <2>10
<1>2. CASE UnlinkFails(r) \/ Spawn(r) \/ SpawnFails(r)
  <2> DEFINE n == req[r].sid
  <2>1. 1..sessions \subseteq Sessions
    BY Positive DEF TypeOK, Sessions
  <2>2. Starting(r)
    BY <1>2 DEF UnlinkFails, Spawn, SpawnFails, Starting
  <2>3. n \in Sessions /\ n \in 1..sessions /\ At(n, "claimed")
    BY <2>1, <2>2 DEF Reserved
  <2>4. PICK step \in {"config", "unstarted"} : Goto(n, step)
    BY <1>2 DEF UnlinkFails, Spawn, SpawnFails
  <2>5. /\ job'[n] = [job[n] EXCEPT !.at = step]
        /\ \A t \in Sessions : t # n => job'[t] = job[t]
    BY <2>3, <2>4 DEF Goto, TypeOK
  <2>6. UNCHANGED <<row, sessions>> /\ Answer(r)
    BY <1>2 DEF UnlinkFails, Spawn, SpawnFails
  <2>7. /\ ~Starting(r)'
        /\ \A q \in Reqs : q # r => req'[q] = req[q]
    BY <2>6 DEF Answer, NoReq, Starting, TypeOK
  <2>8. WorkerMatchesRow'
    BY <2>3, <2>5, <2>6 DEF WorkerMatchesRow, Working, At, TypeOK, Job
  <2>9. Unused'
    <3>1. ~(n > sessions)
      BY <2>3 DEF TypeOK
    <3>2. QED BY <2>5, <2>6, <3>1 DEF Unused
  <2>10. \A q \in Reqs : Starting(q)' =>
            /\ q # r /\ Starting(q) /\ req'[q].sid = req[q].sid
            /\ req[q].sid # n /\ req[q].sid \in Sessions
    BY <2>1, <2>2, <2>7 DEF Reserved, Starting
  <2>11. Reserved'
    BY <2>5, <2>6, <2>10 DEF Reserved, At
  <2>12. QED BY <2>8, <2>9, <2>11
<1>3. QED BY <1>1, <1>2, QuietRoutes, SweptIInv DEF Route

LEMMA KilledIInv ==
    ASSUME TypeOK, WorkerMatchesRow, Unused, NEW owner \in Owners,
           job' = Killed(owner), UNCHANGED <<row, sessions>>
    PROVE  WorkerMatchesRow' /\ Unused'
<1> USE DEF Killed, NoJob
<1>1. WorkerMatchesRow'
  BY DEF WorkerMatchesRow, Working
<1>2. Unused'
  <2>1. owner # NoOne
    BY ConstantsAssumption DEF Owners
  <2>2. QED BY <2>1 DEF Unused, NoRow
<1>3. QED BY <1>1, <1>2

LEMMA OtherIInv ==
    ASSUME TypeOK, WorkerMatchesRow, Unused, Reserved,
           \/ \E r \in Reqs, sweep \in Sweeps : Arrive(r, sweep)
           \/ \E c \in Cli : CliScan(c) \/ CliCrash(c)
           \/ Stop \/ Tick \/ DashRestart \/ UNCHANGED vars
    PROVE  WorkerMatchesRow' /\ Unused' /\ Reserved'
<1>1. ASSUME NEW r \in Reqs, NEW sweep \in Sweeps, Arrive(r, sweep)
      PROVE  WorkerMatchesRow' /\ Unused' /\ Reserved'
  <2>1. \A q \in Reqs : Starting(q)' => Starting(q) /\ req'[q].sid = req[q].sid
    BY <1>1 DEF Arrive, Starting, TypeOK, NoReq, Sweeps
  <2>2. QED BY <1>1, <2>1, SweepSweeps, SweptIInv DEF Arrive
<1>2. CASE Stop \/ UNCHANGED vars
  BY <1>2, SweepSweeps, SweptIInv DEF Stop, vars, Starting
<1>3. CASE Tick
  <2>1. RowsSwept
    BY <1>3 DEF Tick, RowsSwept, Running, TypeOK, Row
  <2>2. QED BY <1>3, <2>1, SweptIInv DEF Tick, Starting
<1>4. CASE DashRestart
  <2>1. \A r \in Reqs : ~Starting(r)'
    BY <1>4 DEF DashRestart, Starting, NoReq
  <2>2. QED BY <1>4, <2>1, KilledIInv DEF DashRestart, Reserved, Owners
<1>5. ASSUME NEW c \in Cli, CliCrash(c)
      PROVE  WorkerMatchesRow' /\ Unused' /\ Reserved'
  <2>1. 1..sessions \subseteq Sessions /\ c # Dash
    BY Positive, ConstantsAssumption DEF TypeOK, Sessions
  <2>2. Reserved'
    BY <1>5, <2>1 DEF CliCrash, Killed, Reserved, Starting, At
  <2>3. QED BY <1>5, <2>2, KilledIInv DEF CliCrash, Owners
<1>6. ASSUME NEW c \in Cli, CliScan(c), InsertSession(c),
             job' = [job EXCEPT ![sessions + 1].at = "crawl"]
      PROVE  WorkerMatchesRow' /\ Unused' /\ Reserved'
  <2>1. c \in Owners /\ 1..sessions \subseteq Sessions /\ sessions \in Nat
    BY Positive DEF Owners, TypeOK, Sessions
  <2>2. /\ WorkerMatchesRow' /\ Unused'
        /\ \A t \in Sessions : t <= sessions /\ At(t, "claimed") => At(t, "claimed")'
        /\ \A t \in Sessions : t <= sessions => row'[t].owner = row[t].owner
    BY <1>6, <2>1, InsertIInv
  <2>3. sessions' = sessions + 1 /\ UNCHANGED req
    BY <1>6 DEF CliScan, InsertSession
  <2>4. \A r \in Reqs : Starting(r) => req[r].sid \in Sessions /\ req[r].sid <= sessions
    BY <2>1 DEF Reserved
  <2>5. 1..sessions \subseteq 1..sessions'
    BY <2>1, <2>3
  <2>6. Reserved'
    BY <2>2, <2>3, <2>4, <2>5 DEF Reserved, Starting
  <2>7. QED BY <2>2, <2>6
<1>7. ASSUME NEW c \in Cli, CliScan(c), RefuseSession, UNCHANGED job
      PROVE  WorkerMatchesRow' /\ Unused' /\ Reserved'
  <2>1. UNCHANGED <<sessions, req>> /\ RowsSwept
    BY <1>7, SweepSweeps DEF CliScan, RefuseSession
  <2>2. QED BY <1>7, <2>1, SweptIInv DEF Starting
<1>8. QED BY <1>1, <1>2, <1>3, <1>4, <1>5, <1>6, <1>7 DEF CliScan

\* The inductive invariant, and with it WorkerMatchesRow: a crawl thread never
\* works for a row that is absent or final.
THEOREM Inductive == Spec => []IInv
<1>1. Init => WorkerMatchesRow /\ Unused /\ Reserved
  BY DEF Init, WorkerMatchesRow, Working, Unused, Reserved, Starting, NoRow, NoJob, NoReq
<1>2. /\ TypeOK /\ WorkerMatchesRow /\ Unused /\ Reserved
      /\ [Next]_vars
      => WorkerMatchesRow' /\ Unused' /\ Reserved'
  BY JobStepIInv, RouteIInv, OtherIInv DEF Next
<1>3. QED BY <1>1, <1>2, TypeCorrect, OneCrawl, PTL DEF Spec, IInv

THEOREM WorkerKnowsRow == Spec => []WorkerMatchesRow
BY Inductive, PTL DEF IInv

-----------------------------------------------------------------------------
(* Who ends a crawl, and which stop it sees. *)

\* A sweep that knows no owner, or the dashboard, leaves a fresh crawl of the
\* command line alone.
LEMMA SweepKeepsFreshCli ==
    ASSUME TypeOK, NEW idle \in {Dash, NoOne}, NEW s \in Sessions,
           row[s].owner \in Cli, Running(s), ~Stale(row[s])
    PROVE  SweptRows(idle)[s] = row[s]
<1>1. row[s].owner # idle
  BY ConstantsAssumption
<1>2. QED BY <1>1 DEF SweptRows, Swept

\* Nobody interrupts a crawl of the command line whose process lives and whose
\* heartbeat is fresh: the sweeps name the dashboard or nobody, and its own
\* last write has another status.
THEOREM CliCrawlsAreKept == Spec => FreshCliCrawlKept
<1>1. ASSUME TypeOK, [Next]_vars, NEW s \in Sessions, row[s].owner \in Cli, Running(s),
             ~Stale(row[s]), row'[s].status = "interrupted"
      PROVE  FALSE
  <2>1. row'[s] # row[s] /\ row[s] \in Row
    BY <1>1 DEF Running, TypeOK
  <2>2. ~UNCHANGED row
    BY <2>1
  <2>3. ASSUME NEW t \in Sessions, Heartbeat(t) PROVE FALSE
    <3>1. row'[s] = row[s] \/ row'[s] = [row[s] EXCEPT !.age = 0]
      BY <1>1, <2>3 DEF Heartbeat, TypeOK
    <3>2. row'[s].status = row[s].status
      BY <2>1, <3>1 DEF Row
    <3>3. QED BY <1>1, <3>2 DEF Running
  <2>4. ASSUME NEW t \in Sessions, EndWrites(t) PROVE FALSE
    <3>1. job[t].final # "interrupted"
      BY <1>1 DEF TypeOK, Job, Finals
    <3>2. t = s /\ row'[s] = Ended(row[s], job[t].final)
      BY <1>1, <2>1, <2>4 DEF EndWrites, TypeOK
    <3>3. QED BY <1>1, <3>1, <3>2 DEF Ended
  <2>5. ASSUME NEW idle \in {Dash, NoOne}, row' = SweptRows(idle) PROVE FALSE
    BY <1>1, <2>1, <2>5, SweepKeepsFreshCli
  <2>6. ~Tick
    BY <1>1, <2>1 DEF Tick, Running, TypeOK, Row
  <2>7. ASSUME NEW owner \in Owners, InsertSession(owner) PROVE FALSE
    <3>1. s = sessions + 1 \/ row'[s] = SweptRows(NoOne)[s]
      BY <1>1, <2>7, InsertFrame
    <3>2. s = sessions + 1
      BY <1>1, <2>1, <3>1, SweepKeepsFreshCli
    <3>3. row'[s] = Begun(owner)
      BY <1>1, <2>7, <3>2, InsertFrame
    <3>4. QED BY <1>1, <3>3 DEF Begun
  <2>8. Next
    BY <1>1, <2>2 DEF vars
  <2>9. QED BY <2>2, <2>3, <2>4, <2>5, <2>6, <2>7, <2>8, RowSteps
<1>2. TypeOK /\ [Next]_vars =>
         [\A s \in Sessions : row[s].owner \in Cli => KeptWhileFresh(s)]_vars
  BY <1>1 DEF KeptWhileFresh
<1>3. QED BY <1>2, TypeCorrect, PTL DEF Spec, FreshCliCrawlKept

\* The flag that a thread of the dashboard can see was written after its
\* session began: the request that began it took the older one away before it
\* started the thread.
FlagIsFresh ==
    /\ \A r \in Reqs : req[r].at = "spawn" /\ flag.up => flag.since >= req[r].sid
    /\ \A s \in Sessions :
          row[s].owner = Dash /\ job[s].at \in {"config", "crawl"} /\ flag.up
          => flag.since >= s

\* Steps that leave the flag alone, give no thread of the dashboard to crawl
\* and bring no request to the start of its thread.
LEMMA FlagStays ==
    ASSUME FlagIsFresh, UNCHANGED flag,
           \A r \in Reqs : req'[r].at = "spawn" => req[r].at = "spawn" /\ req'[r] = req[r],
           \A s \in Sessions :
              row'[s].owner = Dash /\ job'[s].at \in {"config", "crawl"}
              => row[s].owner = Dash /\ job[s].at \in {"config", "crawl"}
    PROVE  FlagIsFresh'
BY DEF FlagIsFresh

LEMMA FlagGoes == flag' = NoFlag => FlagIsFresh'
BY DEF FlagIsFresh, NoFlag

LEMMA JobStepFlag ==
    ASSUME TypeOK, FlagIsFresh, NEW s \in Sessions, JobStep(s)
    PROVE  FlagIsFresh'
<1>1. CASE flag' = NoFlag
  BY <1>1, FlagGoes
<1>2. CASE flag' # NoFlag
  <2>1. UNCHANGED <<req, flag>>
    BY <1>2 DEF JobStep, EndStep, Configured, ConfigFails, Heartbeat, PageCheck, BatchCheck,
                Exhausted, CrawlFails, EndReads, EndWrites, EndLost, ReleaseDash, ExitCli,
                UnlinkAtEnd, Unlinked
  <2>2. /\ row'[s].owner = row[s].owner
        /\ \A t \in Sessions \ {s} : row'[t] = row[t] /\ job'[t] = job[t]
    BY JobStepFrame
  <2>3. job'[s].at \in {"config", "crawl"} => job[s].at \in {"config", "crawl"}
    <3>1. CASE Configured(s) \/ ConfigFails(s)
      BY <3>1 DEF Configured, ConfigFails, At
    <3>2. CASE Heartbeat(s) \/ PageCheck(s)
      BY <3>2 DEF Heartbeat, PageCheck, At
    <3>3. CASE BatchCheck(s) \/ Exhausted(s) \/ CrawlFails(s)
      BY <3>3 DEF BatchCheck, Exhausted, CrawlFails, At
    <3>4. CASE EndReads(s)
      BY <3>4 DEF EndReads, TypeOK, Job
    <3>5. CASE EndWrites(s) \/ EndLost(s)
      BY <3>5 DEF EndWrites, EndLost, Leave, NoJob, TypeOK
    <3>6. CASE ReleaseDash(s) \/ ExitCli(s) \/ UnlinkAtEnd(s)
      BY <3>6 DEF ReleaseDash, ExitCli, UnlinkAtEnd, Goto, TypeOK, Job
    <3>7. QED BY <3>1, <3>2, <3>3, <3>4, <3>5, <3>6 DEF JobStep, EndStep
  <2>4. QED BY <2>1, <2>2, <2>3, FlagStays
<1>3. QED BY <1>1, <1>2

LEMMA RouteFlag ==
    ASSUME TypeOK, Unused, Reserved, FlagIsFresh, NEW r \in Reqs, Route(r)
    PROVE  FlagIsFresh'
<1>1. CASE UnlinkAtStart(r) \/ (ClearFlag(r) /\ flag' = NoFlag)
  BY <1>1, FlagGoes DEF UnlinkAtStart
<1>2. CASE Begin(r)
  <2> DEFINE n == sessions + 1
  <2>1. UNCHANGED flag /\ req'[r].at = "unlink" /\ \A q \in Reqs \ {r} : req'[q] = req[q]
    BY <1>2 DEF Begin, TypeOK, NoReq
  <2>2. /\ n \in Sessions /\ \A t \in Sessions \ {n} : row'[t].owner = row[t].owner
    BY <1>2, InsertFrame, SweepFrame DEF Begin, Owners
  <2>3. job'[n].at = "claimed" /\ \A t \in Sessions \ {n} : job'[t] = job[t]
    BY <1>2, <2>2 DEF Begin, TypeOK, Job
  <2>4. QED BY <2>1, <2>2, <2>3, FlagStays
<1>3. CASE Spawn(r) \/ SpawnFails(r)
  <2> DEFINE n == req[r].sid
  <2>1. Starting(r) /\ req[r].at = "spawn" /\ UNCHANGED <<row, flag>>
    BY <1>3 DEF Spawn, SpawnFails, Starting
  <2>2. n \in Sessions
    BY <2>1, Positive DEF Reserved, TypeOK, Sessions
  <2>3. \A t \in Sessions \ {n} : job'[t] = job[t]
    BY <1>3, <2>2 DEF Spawn, SpawnFails, Goto, TypeOK
  <2>4. req'[r].at = "idle" /\ \A q \in Reqs \ {r} : req'[q] = req[q]
    BY <1>3 DEF Spawn, SpawnFails, Answer, NoReq, TypeOK
  <2>5. flag.up => flag.since >= n
    BY <2>1 DEF FlagIsFresh
  <2>6. QED BY <2>1, <2>3, <2>4, <2>5 DEF FlagIsFresh
<1>4. CASE \/ Sweep(r) \/ CheckLocal(r) \/ CheckActive(r) \/ Claim(r)
           \/ BeginRefused(r) \/ Unclaim(r) \/ ReadActive(r)
           \/ (ClearFlag(r) /\ flag' # NoFlag)
  <2>1. UNCHANGED <<job, flag>>
    BY <1>4 DEF Sweep, CheckLocal, CheckActive, Claim, BeginRefused, Unclaim, ReadActive,
                ClearFlag, Unlinked
  <2>2. RowsSwept
    BY <1>4, QuietRoutes
  <2>3. Answer(r) \/ \E step \in ReqSteps \ {"unlink", "spawn"} : Serve(r, step)
    BY <1>4 DEF Sweep, CheckLocal, CheckActive, Claim, BeginRefused, Unclaim,
           ReadActive, ClearFlag, ReqSteps, StartSteps, StatusSteps
  <2>4. req'[r].at # "spawn" /\ \A q \in Reqs \ {r} : req'[q] = req[q]
    BY <2>3 DEF Answer, Serve, NoReq, TypeOK
  <2>5. QED BY <2>1, <2>2, <2>4, FlagStays DEF RowsSwept
<1>5. CASE UnlinkFails(r)
  <2>1. UNCHANGED <<row, flag>> /\ job' = [job EXCEPT ![req[r].sid].at = "unstarted"]
    BY <1>5 DEF UnlinkFails, Goto
  <2>2. req'[r].at = "idle" /\ \A q \in Reqs \ {r} : req'[q] = req[q]
    BY <1>5 DEF UnlinkFails, Answer, NoReq, TypeOK
  <2>3. \A t \in Sessions : job'[t].at = job[t].at \/ job'[t].at = "unstarted"
    BY <2>1 DEF TypeOK, Job
  <2>4. QED BY <2>1, <2>2, <2>3, FlagStays
<1>6. QED BY <1>1, <1>2, <1>3, <1>4, <1>5 DEF Route

LEMMA OtherFlag ==
    ASSUME TypeOK, Unused, Reserved, FlagIsFresh,
           \/ \E r \in Reqs, sweep \in Sweeps : Arrive(r, sweep)
           \/ \E c \in Cli : CliScan(c) \/ CliCrash(c)
           \/ Stop \/ Tick \/ DashRestart \/ UNCHANGED vars
    PROVE  FlagIsFresh'
<1>1. ASSUME NEW r \in Reqs, NEW sweep \in Sweeps, Arrive(r, sweep) PROVE FlagIsFresh'
  <2>1. req'[r].at # "spawn" /\ \A q \in Reqs \ {r} : req'[q] = req[q]
    BY <1>1 DEF Arrive, Sweeps, NoReq, TypeOK
  <2>2. QED BY <1>1, <2>1, FlagStays DEF Arrive
<1>2. CASE UNCHANGED vars
  BY <1>2, FlagStays DEF vars
\* The newest session is as new as any that has a thread.
<1>3. CASE Stop
  <2>1. flag'.since = sessions /\ UNCHANGED <<row, job, req>>
    BY <1>3 DEF Stop
  <2>2. \A r \in Reqs : req[r].at = "spawn" => sessions >= req[r].sid
    BY DEF Reserved, Starting, TypeOK
  <2>3. \A s \in Sessions : job[s].at \in {"config", "crawl"} => sessions >= s
    BY DEF Unused, NoJob, TypeOK, Sessions
  <2>4. QED BY <2>1, <2>2, <2>3 DEF FlagIsFresh
<1>4. CASE Tick
  <2>1. \A s \in Sessions : row'[s].owner = row[s].owner
    BY <1>4 DEF Tick, TypeOK, Row
  <2>2. QED BY <1>4, <2>1, FlagStays DEF Tick
<1>5. CASE DashRestart
  <2>1. /\ \A r \in Reqs : req'[r].at # "spawn"
        /\ \A s \in Sessions : job'[s] = job[s] \/ job'[s].at = "dead"
    BY <1>5 DEF DashRestart, Killed, NoReq, NoJob
  <2>2. QED BY <1>5, <2>1, FlagStays DEF DashRestart
<1>6. ASSUME NEW c \in Cli, CliCrash(c) PROVE FlagIsFresh'
  <2>1. \A s \in Sessions : job'[s] = job[s] \/ job'[s].at = "dead"
    BY <1>6 DEF CliCrash, Killed, NoJob
  <2>2. QED BY <1>6, <2>1, FlagStays DEF CliCrash
<1>7. ASSUME NEW c \in Cli, CliScan(c), InsertSession(c),
             job' = [job EXCEPT ![sessions + 1].at = "crawl"]
      PROVE  FlagIsFresh'
  <2> DEFINE n == sessions + 1
  <2>1. /\ n \in Sessions /\ row'[n].owner = c
        /\ \A t \in Sessions \ {n} : row'[t].owner = row[t].owner
    <3>1. /\ n \in Sessions /\ row'[n] = Begun(c)
          /\ \A t \in Sessions \ {n} : row'[t] = SweptRows(NoOne)[t]
      BY <1>7, InsertFrame DEF Owners
    <3>2. row'[n].owner = c
      BY <3>1 DEF Begun
    <3>3. QED BY <3>1, <3>2, SweepFrame
  <2>2. c # Dash
    BY ConstantsAssumption
  <2>3. UNCHANGED <<req, flag>> /\ \A t \in Sessions \ {n} : job'[t] = job[t]
    BY <1>7, <2>1 DEF CliScan, TypeOK
  <2>4. QED BY <2>1, <2>2, <2>3, FlagStays
<1>8. ASSUME NEW c \in Cli, CliScan(c), RefuseSession, UNCHANGED job
      PROVE  FlagIsFresh'
  <2>1. RowsSwept /\ UNCHANGED <<req, flag>>
    BY <1>8, SweepSweeps DEF CliScan, RefuseSession
  <2>2. QED BY <1>8, <2>1, FlagStays DEF RowsSwept
<1>9. QED BY <1>1, <1>2, <1>3, <1>4, <1>5, <1>6, <1>7, <1>8 DEF CliScan

LEMMA FlagFresh == Spec => []FlagIsFresh
<1>1. Init => FlagIsFresh
  BY DEF Init, FlagIsFresh, NoFlag
<1>2. IInv /\ FlagIsFresh /\ [Next]_vars => FlagIsFresh'
  BY JobStepFlag, RouteFlag, OtherFlag DEF Next, IInv
<1>3. QED BY <1>1, <1>2, Inductive, PTL DEF Spec

\* s has seen a stop.
Stopped(s) == job[s].stopSeen \/ job[s].final = "stopped"

\* A thread sees a stop in a crawl, and only when the flag is up.
LEMMA StopIsSeen ==
    ASSUME TypeOK, Next, NEW s \in Sessions, ~Stopped(s), Stopped(s)'
    PROVE  flag.up /\ At(s, "crawl") /\ UNCHANGED row
<1>1. ASSUME NEW t \in Sessions, JobStep(t) PROVE flag.up /\ At(s, "crawl") /\ UNCHANGED row
  <2>1. t = s
    BY <1>1, JobStepFrame DEF Stopped
  <2>2. CASE PageCheck(s)
    BY <2>2 DEF PageCheck, StopFlagSeen
  <2>3. CASE BatchCheck(s)
    BY <2>3 DEF BatchCheck, StopFlagSeen, EndAs, NoJob, TypeOK, Stopped
  <2>4. CASE Exhausted(s) \/ CrawlFails(s)
    BY <2>4 DEF Exhausted, CrawlFails, EndAs, NoJob, TypeOK, Stopped
  <2>5. CASE Configured(s) \/ ConfigFails(s)
    BY <2>5 DEF Configured, ConfigFails, Goto, TypeOK, Job, Stopped
  <2>6. CASE Heartbeat(s) \/ EndReads(s)
    BY <2>6 DEF Heartbeat, EndReads, TypeOK, Job, Stopped
  <2>7. CASE EndWrites(s) \/ EndLost(s)
    BY <2>7 DEF EndWrites, EndLost, Leave, NoJob, TypeOK, Stopped
  <2>8. CASE ReleaseDash(s) \/ ExitCli(s) \/ UnlinkAtEnd(s)
    BY <2>8 DEF ReleaseDash, ExitCli, UnlinkAtEnd, Goto, TypeOK, Job, Stopped
  <2>9. QED BY <1>1, <2>1, <2>2, <2>3, <2>4, <2>5, <2>6, <2>7, <2>8 DEF JobStep, EndStep
<1>2. ASSUME NEW r \in Reqs, Route(r) PROVE FALSE
  <2>1. \/ UNCHANGED job
        \/ \E t, step : job' = [job EXCEPT ![t].at = step]
    BY <1>2 DEF Route, Sweep, CheckLocal, CheckActive, Claim, Begin, BeginRefused,
              Unclaim, UnlinkAtStart, UnlinkFails, Spawn, SpawnFails, ReadActive,
              ClearFlag, Goto
  <2>2. QED BY <2>1 DEF Stopped, TypeOK, Job
<1>3. ASSUME NEW c \in Cli, CliScan(c) PROVE FALSE
  <2>1. \/ UNCHANGED job
        \/ \E t, step : job' = [job EXCEPT ![t].at = step]
    BY <1>3 DEF CliScan
  <2>2. QED BY <2>1 DEF Stopped, TypeOK, Job
<1>4. ASSUME NEW owner, job' = Killed(owner) PROVE FALSE
  BY <1>4 DEF Killed, NoJob, Stopped
<1>5. ASSUME UNCHANGED job PROVE FALSE
  BY <1>5 DEF Stopped
<1>6. QED BY <1>1, <1>2, <1>3, <1>4, <1>5 DEF Next, Arrive, CliCrash, Stop, Tick, DashRestart

\* A crawl of the dashboard stops only for a flag that was written after its
\* session began: the start takes an older one away before there is a thread.
THEOREM StopsAreFresh == Spec => DashStopIsFresh
<1>1. ASSUME IInv, FlagIsFresh, [Next]_vars, NEW s \in Sessions,
             row[s].owner = Dash, ~Stopped(s), Stopped(s)'
      PROVE  flag.since >= s
  <2>1. Next
    BY <1>1 DEF vars, Stopped
  <2>2. flag.up /\ At(s, "crawl")
    BY <1>1, <2>1, StopIsSeen DEF IInv
  <2>3. QED BY <1>1, <2>2 DEF FlagIsFresh, At
<1>2. IInv /\ FlagIsFresh /\ [Next]_vars =>
         [\A s \in Sessions :
            /\ row[s].owner = Dash
            /\ ~job[s].stopSeen /\ job[s].final # "stopped"
            /\ job'[s].stopSeen \/ job'[s].final = "stopped"
            => flag.since >= s]_vars
  BY <1>1 DEF Stopped
<1>3. QED BY <1>2, Inductive, FlagFresh, PTL DEF Spec, DashStopIsFresh

-----------------------------------------------------------------------------
(* CrawlLifecycle implements CrawlRegistry. *)

Owned == \A s \in Sessions : Running(s) => row[s].owner # NoOne

\* A running row has an owner: what lets begin_crawl_session sweep with none.
LEMMA RunningIsOwned == Spec => []Owned
<1>1. Init => Owned
  BY DEF Init, Owned, Running, NoRow
<1>2. TypeOK /\ Owned /\ [Next]_vars => Owned'
  <2>1. ASSUME TypeOK, NEW owner \in Owners, InsertSession(owner)
        PROVE  Owned'
    <3>1. owner # NoOne
      BY ConstantsAssumption DEF Owners
    <3>2. QED BY <2>1, <3>1, InsertRunsAlone DEF Owned
  <2>2. ASSUME TypeOK, Owned, Next, ~\E owner \in Owners : InsertSession(owner)
        PROVE  Owned'
    BY <2>2, OnlyInsertStarts DEF Owned, GoesOn
  <2>3. Owned /\ UNCHANGED vars => Owned'
    BY DEF Owned, Running, vars
  <2>4. QED BY <2>1, <2>2, <2>3
<1>3. QED BY <1>1, <1>2, TypeCorrect, PTL DEF Spec

LEMMA RegistryRunning == Registry!Running = {s \in Sessions : Running(s)}
<1>1. ASSUME NEW s \in Sessions
      PROVE  RegistryState[s] = "running" <=> Running(s)
  BY DEF Running, RegistryState
<1>2. QED BY <1>1 DEF Registry!Running

\* A step that leaves every row's status alone is time passing.
LEMMA SameStatusLapses ==
    ASSUME TypeOK, \A s \in Sessions : row'[s].status = row[s].status,
           UNCHANGED <<RegistryNamed, RegistryEnding>>
    PROVE  Registry!Lapse
<1>1. UNCHANGED RegistryState
  BY DEF RegistryState
<1>2. RegistryLapsed' \subseteq Registry!Running
  BY RegistryRunning DEF RegistryLapsed, Running
<1>3. QED BY <1>1, <1>2 DEF Registry!Lapse

\* What the registry sees of a row that was open and ends.
LEMMA RowEnds ==
    ASSUME TypeOK, NEW s \in Sessions, row[s].status \in {"running", "interrupted"},
           NEW how \in Finals \cup {"interrupted"},
           row' = [row EXCEPT ![s] = Ended(row[s], how)]
    PROVE  /\ RegistryState' = [RegistryState EXCEPT ![s] = how]
           /\ RegistryLapsed' = RegistryLapsed \ {s}
           /\ UNCHANGED RegistryNamed
<1>1. /\ row'[s].status = how /\ row'[s].owner = row[s].owner
      /\ \A t \in Sessions : t # s => row'[t] = row[t]
  BY DEF TypeOK, Ended
<1>2. how # "running" /\ how # "none"
  BY DEF Finals
<1>3. RegistryState' = [RegistryState EXCEPT ![s] = how]
  <2>1. \A t \in Sessions :
          (IF row'[t].status = "none" THEN "new" ELSE row'[t].status)
            = IF t = s THEN how
              ELSE IF row[t].status = "none" THEN "new" ELSE row[t].status
    BY <1>1, <1>2
  <2>2. QED BY <2>1 DEF RegistryState
<1>4. RegistryLapsed' = RegistryLapsed \ {s}
  BY <1>1, <1>2 DEF RegistryLapsed, Running
<1>5. UNCHANGED RegistryNamed
  BY <1>1 DEF RegistryNamed
<1>6. QED BY <1>3, <1>4, <1>5

LEMMA HeartbeatRefines ==
    ASSUME TypeOK, NEW s \in Sessions, Heartbeat(s)
    PROVE  Registry!Lapse
<1>1. \A t \in Sessions : row'[t].status = row[t].status /\ row'[t].owner = row[t].owner
  BY DEF Heartbeat, TypeOK, Row
<1>2. UNCHANGED RegistryNamed
  BY <1>1 DEF RegistryNamed
<1>3. \A t \in Sessions : job'[t].at = job[t].at /\ job'[t].ended = job[t].ended
  BY DEF Heartbeat, TypeOK, Job
<1>4. UNCHANGED RegistryEnding
  BY <1>3 DEF RegistryEnding, At
<1>5. QED BY <1>1, <1>2, <1>4, SameStatusLapses

\* A crawl reads its row to end it: as running, or as interrupted, and then it
\* will leave the row alone.
LEMMA EndReadsRefines ==
    ASSUME TypeOK, WorkerMatchesRow, NEW s \in Sessions, EndReads(s)
    PROVE  UNCHANGED Registry!vars \/ Registry!BeginReport(s)
<1>1. /\ UNCHANGED row /\ At(s, "read") /\ job'[s].at = "write"
      /\ job'[s].ended = (row[s].status = "interrupted")
      /\ \A t \in Sessions : t # s => job'[t] = job[t]
  BY DEF EndReads, TypeOK, Job
<1>2. UNCHANGED <<RegistryState, RegistryLapsed, RegistryNamed>>
  BY <1>1 DEF RegistryState, RegistryLapsed, RegistryNamed, Running
<1>3. CASE Running(s)
  <2>1. RegistryEnding' = RegistryEnding \cup {s}
    BY <1>1, <1>3 DEF RegistryEnding, At, Running
  <2>2. QED BY <1>2, <1>3, <2>1, RegistryRunning DEF Registry!BeginReport
<1>4. CASE ~Running(s)
  <2>1. row[s].status = "interrupted"
    BY <1>1, <1>4 DEF WorkerMatchesRow, Working, At, Running
  <2>2. RegistryEnding' = RegistryEnding
    BY <1>1, <2>1 DEF RegistryEnding, At
  <2>3. QED BY <1>2, <2>2 DEF Registry!vars
<1>5. QED BY <1>3, <1>4

LEMMA EndRefines ==
    ASSUME TypeOK, WorkerMatchesRow, NEW s \in Sessions, EndWrites(s)
    PROVE  \/ UNCHANGED Registry!vars
           \/ \E how \in Finals : Registry!Report(s, how)
<1> DEFINE how == job[s].final
<1>1. how \in Finals
  BY DEF TypeOK, Job
<1>2. /\ At(s, "write") /\ job'[s].at = "release"
      /\ \A t \in Sessions : t # s => job'[t] = job[t]
  BY DEF EndWrites, Leave, NoJob, TypeOK
<1>3. CASE job[s].ended
  <2>1. UNCHANGED row
    BY <1>3 DEF EndWrites
  <2>2. UNCHANGED RegistryEnding
    BY <1>2, <1>3 DEF RegistryEnding, At
  <2>3. QED BY <2>1, <2>2
            DEF Registry!vars, RegistryState, RegistryLapsed, RegistryNamed, Running
<1>4. CASE ~job[s].ended
  <2>1. row' = [row EXCEPT ![s] = Ended(row[s], how)]
    BY <1>4 DEF EndWrites
  <2>2. row[s].status \in {"running", "interrupted"}
    BY <1>2 DEF WorkerMatchesRow, Working, At
  <2>3. /\ RegistryState' = [RegistryState EXCEPT ![s] = how]
        /\ RegistryLapsed' = RegistryLapsed \ {s}
        /\ UNCHANGED RegistryNamed
    BY <1>1, <2>1, <2>2, RowEnds
  <2>4. s \in RegistryEnding /\ RegistryEnding' = RegistryEnding \ {s}
    BY <1>2, <1>4 DEF RegistryEnding, At
  <2>5. QED BY <1>1, <2>3, <2>4 DEF Registry!Report
<1>5. QED BY <1>3, <1>4

\* A sweep interrupts the running session only if it lapsed or is named.
LEMMA SweepRefines ==
    ASSUME TypeOK, AtMostOneRunning, Owned, UNCHANGED RegistryEnding,
           NEW idle \in {Dash, NoOne}, row' = SweptRows(idle)
    PROVE  UNCHANGED row \/ \E s \in Sessions : Registry!Interrupt(s)
<1>1. CASE \A s \in Sessions : Swept(row[s], idle) = row[s]
  BY <1>1 DEF SweptRows, TypeOK
<1>2. CASE \E s \in Sessions : Swept(row[s], idle) # row[s]
  <2>1. PICK s \in Sessions : Swept(row[s], idle) # row[s]
    BY <1>2
  <2>2. /\ Running(s) /\ Swept(row[s], idle) = Ended(row[s], "interrupted")
        /\ row[s].owner = Dash \/ Stale(row[s])
    BY <2>1 DEF Swept, Running, Owned
  <2>3. \A t \in Sessions : t # s => Swept(row[t], idle) = row[t]
    BY <2>2 DEF AtMostOneRunning, Swept, Running
  <2>4. row' = [row EXCEPT ![s] = Ended(row[s], "interrupted")]
    BY <2>2, <2>3 DEF SweptRows, TypeOK
  <2>5. /\ RegistryState' = [RegistryState EXCEPT ![s] = "interrupted"]
        /\ RegistryLapsed' = RegistryLapsed \ {s}
        /\ UNCHANGED RegistryNamed
    BY <2>2, <2>4, RowEnds DEF Running
  <2>6. s \in Registry!Running /\ s \in RegistryLapsed \cup RegistryNamed
    BY <2>2, RegistryRunning DEF RegistryLapsed, RegistryNamed
  <2>7. QED BY <2>5, <2>6 DEF Registry!Interrupt
<1>3. QED BY <1>1, <1>2

\* What a step can do to the reports under way: one begins or is written, or
\* some are abandoned and no row is touched.
LEMMA EndingSteps ==
    ASSUME TypeOK, Unused, Reserved, Next
    PROVE  \/ \E s \in Sessions : EndReads(s) \/ EndWrites(s)
           \/ UNCHANGED row /\ RegistryEnding' \in SUBSET RegistryEnding
           \/ UNCHANGED RegistryEnding
<1>1. ASSUME NEW s \in Sessions, JobStep(s), ~EndReads(s), ~EndWrites(s)
      PROVE  \/ UNCHANGED row /\ RegistryEnding' \in SUBSET RegistryEnding
             \/ UNCHANGED RegistryEnding
  <2>1. \A t \in Sessions \ {s} : job'[t] = job[t]
    BY <1>1, JobStepFrame
  <2>2. CASE EndLost(s)
    <3>1. UNCHANGED row /\ job'[s].at = "release"
      BY <2>2 DEF EndLost, Leave, NoJob, TypeOK
    <3>2. QED BY <2>1, <3>1 DEF RegistryEnding, At
  <2>3. CASE ~EndLost(s)
    <3>1. ~At(s, "write")
      BY <1>1, <2>3 DEF JobStep, EndStep, Configured, ConfigFails, Heartbeat, PageCheck,
                BatchCheck, Exhausted, CrawlFails, ReleaseDash, ExitCli, UnlinkAtEnd, At
    <3>2. job'[s].at # "write"
      <4>1. CASE Configured(s) \/ ConfigFails(s)
        BY <4>1 DEF Configured, ConfigFails, Goto, TypeOK, Job
      <4>2. CASE Heartbeat(s) \/ PageCheck(s)
        BY <3>1, <4>2 DEF Heartbeat, PageCheck, At, TypeOK, Job
      <4>3. CASE BatchCheck(s) \/ Exhausted(s) \/ CrawlFails(s)
        <5>1. CASE BatchCheck(s)
          BY <5>1 DEF BatchCheck, EndAs, NoJob, TypeOK
        <5>2. CASE Exhausted(s)
          BY <5>2 DEF Exhausted, EndAs, NoJob, TypeOK
        <5>3. CASE CrawlFails(s)
          BY <5>3 DEF CrawlFails, EndAs, NoJob, TypeOK
        <5>4. QED BY <4>3, <5>1, <5>2, <5>3
      <4>4. CASE ReleaseDash(s) \/ ExitCli(s) \/ UnlinkAtEnd(s)
        BY <4>4 DEF ReleaseDash, ExitCli, UnlinkAtEnd, Goto, TypeOK, Job
      <4>5. QED BY <1>1, <2>3, <4>1, <4>2, <4>3, <4>4 DEF JobStep, EndStep
    <3>3. QED BY <2>1, <3>1, <3>2 DEF RegistryEnding, At
  <2>4. QED BY <2>2, <2>3
<1>2. ASSUME NEW n \in Sessions, ~At(n, "write"),
             NEW step \in {"claimed", "crawl", "config", "unstarted"},
             job' = [job EXCEPT ![n].at = step]
      PROVE  UNCHANGED RegistryEnding
  <2>1. job'[n].at # "write" /\ \A t \in Sessions : t # n => job'[t] = job[t]
    BY <1>2 DEF TypeOK, Job
  <2>2. QED BY <1>2, <2>1 DEF RegistryEnding, At
<1>3. ASSUME NEW owner \in Owners, InsertSession(owner)
      PROVE  sessions + 1 \in Sessions /\ ~At(sessions + 1, "write")
  <2>1. sessions + 1 \in Sessions /\ sessions \in Nat
    BY <1>3, InsertFrame DEF TypeOK
  <2>2. QED BY <2>1 DEF Unused, NoJob, At
<1>4. ASSUME UNCHANGED job PROVE UNCHANGED RegistryEnding
  BY <1>4 DEF RegistryEnding, At
<1>5. ASSUME NEW r \in Reqs, Route(r) PROVE UNCHANGED RegistryEnding
  <2>1. CASE Begin(r)
    BY <1>2, <1>3, <2>1 DEF Begin, Owners
  <2>2. CASE UnlinkFails(r) \/ Spawn(r) \/ SpawnFails(r)
    <3>1. PICK step \in {"config", "unstarted"} : Goto(req[r].sid, step)
      BY <2>2 DEF UnlinkFails, Spawn, SpawnFails
    <3>2. Starting(r)
      BY <2>2 DEF UnlinkFails, Spawn, SpawnFails, Starting
    <3>3. req[r].sid \in Sessions /\ ~At(req[r].sid, "write")
      BY <3>2, Positive DEF Reserved, TypeOK, Sessions, At
    <3>4. QED BY <1>2, <3>1, <3>3 DEF Goto
  <2>3. QED BY <1>4, <1>5, <2>1, <2>2, QuietRoutes DEF Route
<1>6. ASSUME NEW c \in Cli, CliScan(c) PROVE UNCHANGED RegistryEnding
  BY <1>2, <1>3, <1>4, <1>6 DEF CliScan, Owners
<1>7. ASSUME NEW owner, job' = Killed(owner) PROVE RegistryEnding' \in SUBSET RegistryEnding
  BY <1>7 DEF Killed, NoJob, RegistryEnding, At
<1>8. QED BY <1>1, <1>4, <1>5, <1>6, <1>7
          DEF Next, Arrive, CliCrash, Stop, Tick, DashRestart

LEMMA InsertRefines ==
    ASSUME TypeOK, Unused, Owned, UNCHANGED RegistryEnding,
           NEW owner \in Owners, InsertSession(owner)
    PROVE  Registry!Begin(sessions + 1)
<1> DEFINE n == sessions + 1
<1>1. /\ n \in Sessions /\ row'[n] = Begun(owner)
      /\ \A t \in Sessions : t # n => row'[t] = Swept(row[t], NoOne)
  BY InsertFrame DEF SweptRows
<1>2. \A t \in Sessions : Swept(row[t], NoOne).status # "running"
  BY DEF InsertSession, CrawlRunning
<1>3. row[n].status = "none"
  BY <1>1, Positive DEF Unused, NoRow, TypeOK
<1>4. RegistryState[n] = "new"
  BY <1>1, <1>3 DEF RegistryState
<1>5. ASSUME NEW t \in Sessions, Running(t)
      PROVE  Stale(row[t]) /\ Swept(row[t], NoOne) = Ended(row[t], "interrupted")
  BY <1>2, <1>5 DEF Swept, Running, Owned
<1>6. Registry!Running \subseteq RegistryLapsed
  BY <1>5, RegistryRunning DEF RegistryLapsed
<1>7. RegistryState' = [t \in Sessions |-> IF t = n THEN "running"
                                           ELSE IF t \in Registry!Running THEN "interrupted"
                                           ELSE RegistryState[t]]
  <2>1. row'[n].status = "running"
    BY <1>1 DEF Begun
  <2>2. ASSUME NEW t \in Sessions, t # n, Running(t)
        PROVE  row'[t].status = "interrupted"
    <3>1. Swept(row[t], NoOne) = Ended(row[t], "interrupted")
      BY <1>5, <2>2
    <3>2. row'[t] = Swept(row[t], NoOne)
      BY <1>1, <2>2
    <3>3. QED BY <3>1, <3>2 DEF Ended
  <2>3. ASSUME NEW t \in Sessions, t # n, ~Running(t)
        PROVE  row'[t] = row[t]
    BY <1>1, <2>3 DEF Swept, Running
  <2>4. ASSUME NEW t \in Sessions
        PROVE  (IF row'[t].status = "none" THEN "new" ELSE row'[t].status)
                 = (IF t = n THEN "running" ELSE IF Running(t) THEN "interrupted"
                    ELSE IF row[t].status = "none" THEN "new" ELSE row[t].status)
    BY <2>1, <2>2, <2>3
  <2>5. \A t \in Sessions : t \in Registry!Running <=> Running(t)
    BY RegistryRunning
  <2>6. QED BY <2>4, <2>5 DEF RegistryState
<1>8. RegistryLapsed' = {}
  <2>1. row'[n].age # StaleAfter
    BY <1>1, Positive DEF Begun
  <2>2. \A t \in Sessions : t # n => row'[t].status # "running"
    BY <1>1, <1>2
  <2>3. QED BY <2>1, <2>2 DEF RegistryLapsed, Running, Stale
<1>9. RegistryNamed' \in {RegistryNamed, RegistryNamed \cup {n}}
  <2>1. row'[n].owner = owner /\ row[n].owner = NoOne /\ NoOne # Dash
    BY <1>1, Positive, ConstantsAssumption DEF Begun, Unused, NoRow, TypeOK
  <2>2. \A t \in Sessions : t # n => row'[t].owner = row[t].owner
    BY <1>1, SweepFrame DEF SweptRows
  <2>3. QED BY <1>1, <2>1, <2>2 DEF RegistryNamed
<1>10. QED BY <1>4, <1>6, <1>7, <1>8, <1>9 DEF Registry!Begin

LEMMA StepRefines ==
    ASSUME IInv, Owned, [Next]_vars
    PROVE  [Registry!Next]_(Registry!vars)
<1> USE DEF IInv
<1>1. UNCHANGED row =>
        UNCHANGED <<RegistryState, RegistryLapsed, RegistryNamed>>
  BY DEF RegistryState, RegistryLapsed, RegistryNamed, Running, Stale
<1>2. Finals = Registry!Reported
  BY DEF Finals, Registry!Reported
<1>3. ASSUME NEW s \in Sessions, EndReads(s) \/ EndWrites(s)
      PROVE  UNCHANGED Registry!vars \/ Registry!Next
  BY <1>2, <1>3, EndReadsRefines, EndRefines DEF Registry!Next
<1>4. ASSUME UNCHANGED row, RegistryEnding' \in SUBSET RegistryEnding
      PROVE  Registry!Next
  BY <1>1, <1>4 DEF Registry!Next, Registry!Abandon
<1>5. ASSUME UNCHANGED RegistryEnding, Next
      PROVE  UNCHANGED Registry!vars \/ Registry!Next
  <2>1. CASE UNCHANGED row
    BY <1>1, <1>5, <2>1 DEF Registry!vars
  <2>2. ASSUME NEW s \in Sessions, Heartbeat(s) PROVE Registry!Next
    BY <2>2, HeartbeatRefines DEF Registry!Next
  <2>3. ASSUME NEW idle \in {Dash, NoOne}, row' = SweptRows(idle)
        PROVE  UNCHANGED row \/ Registry!Next
    BY <1>5, <2>3, SweepRefines DEF Registry!Next
  <2>4. ASSUME Tick PROVE Registry!Next
    <3>1. \A s \in Sessions : row'[s].status = row[s].status /\ row'[s].owner = row[s].owner
      BY <2>4 DEF Tick, TypeOK, Row
    <3>2. UNCHANGED RegistryNamed
      BY <3>1 DEF RegistryNamed
    <3>3. QED BY <1>5, <3>1, <3>2, SameStatusLapses DEF Registry!Next
  <2>5. ASSUME NEW owner \in Owners, InsertSession(owner) PROVE Registry!Next
    BY <1>5, <2>5, InsertRefines, InsertType DEF Registry!Next
  <2>6. QED BY <1>3, <1>5, <2>1, <2>2, <2>3, <2>4, <2>5, RowSteps
<1>6. CASE Next
  BY <1>3, <1>4, <1>5, <1>6, EndingSteps
<1>7. CASE UNCHANGED vars
  <2>1. UNCHANGED RegistryEnding
    BY <1>7 DEF vars, RegistryEnding, At
  <2>2. QED BY <1>1, <1>7, <2>1 DEF vars, Registry!vars
<1>8. QED BY <1>6, <1>7

\* The rows of crawl_sessions keep the promise of CrawlRegistry: one running
\* session, interrupted only when its heartbeat lapsed or under the dashboard's
\* name, never running again, and ended by its own crawl only if that had read
\* it as running.
THEOREM KeepsRegistry == Spec => RegistrySpec
<1>1. Init => Registry!Init
  <2>1. Dash # NoOne
    BY ConstantsAssumption
  <2>2. QED BY <2>1 DEF Init, Registry!Init, RegistryState, RegistryLapsed, RegistryNamed,
                RegistryEnding, Running, NoRow, NoJob, At
<1>2. IInv /\ Owned /\ [Next]_vars => [Registry!Next]_(Registry!vars)
  BY StepRefines
<1>3. QED BY <1>1, <1>2, Inductive, RunningIsOwned, PTL
          DEF Spec, RegistrySpec, Registry!Spec

-----------------------------------------------------------------------------
(* The walk of a crawl.  What lies ahead of it is the batch and after it the *)
(* frontier: one queue, ordered by depth.                                    *)

Pages == [url : Urls, depth : 0..MaxDepth, origin : {DomainOf[u] : u \in Urls},
          ok : BOOLEAN, links : LinkLists \cup {<<>>}]
Tasks == [item : Item, at : {"waits", "fetches", "fetched", "stopped", "raised"},
          result : Results]

WalkTypes ==
    /\ seeds \in Seq(Urls) /\ stayOnDomain \in BOOLEAN
    /\ frontier \in Seq(Item) /\ batch \in Seq(Tasks) /\ recorded \in Seq(Pages)
    /\ visited \subseteq Urls
    /\ stopFile \in BOOLEAN /\ stopSeen \in BOOLEAN /\ halted \in BOOLEAN
    /\ ended \in {"no", "completed", "stopped", "failed"}

Ahead == [k \in 1..(Len(batch) + Len(frontier)) |->
            IF k <= Len(batch) THEN batch[k].item ELSE frontier[k - Len(batch)]]

\* Breadth first: what lies ahead is ordered by depth, spans two levels at most,
\* and is no higher than what was stored.
OrderInv ==
    /\ \A j, k \in DOMAIN Ahead : /\ j <= k => Ahead[j].depth <= Ahead[k].depth
                                  /\ Ahead[j].depth <= Ahead[k].depth + 1
    /\ \A i \in DOMAIN recorded, k \in DOMAIN Ahead : recorded[i].depth <= Ahead[k].depth

\* A page at url, stored or ahead, is no deeper than depth.
Within(url, depth) ==
    /\ \A j \in DOMAIN recorded : recorded[j].url = url => recorded[j].depth <= depth
    /\ \A k \in DOMAIN Ahead : Ahead[k].url = url => Ahead[k].depth <= depth

Full(domain) == PagesOf(domain) >= MaxPagesPerDomain

\* A link that was to be followed joined the queue, then or earlier, unless its
\* domain was full; a full domain stays full, and such a link never joins.
LinkInv ==
    /\ \A k \in DOMAIN Ahead : Ahead[k].url \in visited
    /\ \A i \in DOMAIN recorded : recorded[i].url \in visited
    /\ \A i \in DOMAIN recorded : \A l \in Asked(recorded[i]) :
          \/ l \in visited /\ Within(l, recorded[i].depth + 1)
          \/ l \notin visited /\ Full(DomainOf[l])

\* What joined the queue is in it until it is fetched, or the crawl saw a stop.
DoneInv ==
    /\ Range(seeds) \subseteq visited
    /\ \A u \in visited :
          Seen(u) \/ (\E k \in DOMAIN Ahead : Ahead[k].url = u) \/ stopSeen \/ halted
    /\ \A k \in DOMAIN batch : batch[k].at = "stopped" => stopSeen \/ halted
    /\ ended = "completed" => halted \/ (~stopSeen /\ batch = <<>> /\ frontier = <<>>)

WalkInv == WalkTypes /\ OrderInv /\ LinkInv /\ DoneInv

LEMMA WalkConstants ==
    /\ MaxDepth \in Nat /\ MaxConcurrent \in Nat /\ MaxConcurrent > 0 /\ MaxPagesPerDomain \in Nat
    /\ \A r \in Results : r.links \in Seq(Urls)
    /\ \A r \in Pages : r.links \in Seq(Urls)
<1>1. \A x \in LinkLists \cup {<<>>} : x \in Seq(Urls)
  <2>1. LinkLists \subseteq Seq(Urls)
    BY CrawlAssumption
  <2>2. <<>> \in Seq(Urls)
    OBVIOUS
  <2>3. QED BY <2>1, <2>2, Zenon
<1>2. QED BY <1>1, CrawlAssumption DEF Results, Pages

LEMMA InitWalk == WalkInit => WalkInv
<1> SUFFICES ASSUME WalkInit PROVE WalkInv
  OBVIOUS
<1>1. /\ seeds \in Seq(Urls) /\ stayOnDomain \in BOOLEAN /\ frontier = Queued(seeds)
      /\ visited = Range(seeds) /\ batch = <<>> /\ recorded = <<>>
      /\ stopFile = FALSE /\ stopSeen = FALSE /\ halted = FALSE /\ ended = "no"
  BY CrawlAssumption DEF WalkInit
<1>2. /\ Len(seeds) \in Nat /\ DOMAIN seeds = 1..Len(seeds)
      /\ \A i \in 1..Len(seeds) : seeds[i] \in Urls
  BY <1>1
<1>3. PICK n : n = Len(seeds)
  OBVIOUS
<1>4. /\ frontier \in [1..n -> Item]
      /\ \A i \in 1..n : frontier[i].depth = 0 /\ frontier[i].url = seeds[i]
  <2>1. \A i \in 1..n : [url |-> seeds[i], depth |-> 0, origin |-> DomainOf[seeds[i]]] \in Item
    BY <1>2, <1>3, WalkConstants DEF Item
  <2>2. frontier = [i \in 1..n |-> [url |-> seeds[i], depth |-> 0, origin |-> DomainOf[seeds[i]]]]
    BY <1>1, <1>2, <1>3 DEF Queued
  <2>3. QED BY <2>1, <2>2
<1>5. n \in Nat /\ frontier \in Seq(Item) /\ Len(frontier) = n
  BY <1>2, <1>3, <1>4
<1>6. Ahead = frontier
  <2>1. Len(batch) = 0 /\ DOMAIN frontier = 1..n
    BY <1>1, <1>4
  <2>2. \A k \in 1..n : k - 0 = k /\ ~(k <= 0)
    BY <1>5
  <2>3. QED BY <1>4, <1>5, <2>1, <2>2 DEF Ahead
<1>7. WalkTypes
  <2>1. visited \subseteq Urls
    BY <1>1, <1>2 DEF Range
  <2>2. <<>> \in Seq(Tasks) /\ <<>> \in Seq(Pages)
    OBVIOUS
  <2>3. QED BY <1>1, <1>5, <2>1, <2>2, Zenon DEF WalkTypes
<1>8. DOMAIN recorded = {} /\ DOMAIN batch = {}
  BY <1>1
<1>9. OrderInv
  BY <1>4, <1>6, <1>8 DEF OrderInv
<1>10. LinkInv
  <2>1. \A k \in 1..n : seeds[k] \in visited
    BY <1>1, <1>2, <1>3 DEF Range
  <2>2. QED BY <1>4, <1>6, <1>8, <2>1 DEF LinkInv
<1>11. DoneInv
  <2>1. ASSUME NEW u \in visited PROVE \E k \in DOMAIN Ahead : Ahead[k].url = u
    <3>1. PICK k \in 1..n : seeds[k] = u
      BY <1>1, <1>2, <1>3, <2>1 DEF Range
    <3>2. QED BY <1>4, <1>6, <3>1
  <2>2. QED BY <1>1, <1>8, <2>1 DEF DoneInv
<1>12. QED BY <1>7, <1>9, <1>10, <1>11 DEF WalkInv

\* Steps that store nothing and leave in its order what lies ahead.
LEMMA QuietWalk ==
    ASSUME WalkInv, WalkTypes', UNCHANGED <<given, visited, recorded, lost>>, Ahead' = Ahead,
           stopSeen => stopSeen', halted => halted',
           \A k \in DOMAIN batch' : batch'[k].at = "stopped" => stopSeen' \/ halted',
           ended' = "completed" => halted' \/ (~stopSeen' /\ batch' = <<>> /\ frontier' = <<>>)
    PROVE  WalkInv'
<1>1. OrderInv'
  BY DEF WalkInv, OrderInv
<1>2. \A u, d : Within(u, d)' <=> Within(u, d)
  BY DEF Within
<1>3. \A d : Full(d)' <=> Full(d)
  BY DEF Full, PagesOf
<1>4. \A p : Asked(p)' = Asked(p)
  BY DEF Asked, given
<1>5. LinkInv'
  BY <1>2, <1>3, <1>4 DEF WalkInv, LinkInv
<1>6. \A u : Seen(u)' <=> Seen(u)
  BY DEF Seen
<1>7. DoneInv'
  BY <1>6 DEF WalkInv, DoneInv, given
<1>8. QED BY <1>1, <1>5, <1>7 DEF WalkInv

LEMMA StepNextBatch ==
    ASSUME WalkInv, NextBatch
    PROVE  WalkInv'
<1>1. /\ WalkTypes /\ DoneInv /\ ended = "no" /\ batch = <<>>
      /\ UNCHANGED <<given, signals, visited, recorded, lost>>
  BY DEF WalkInv, NextBatch
<1>2. CASE UNCHANGED <<frontier, batch>>
  <2>1. /\ stopSeen' \in BOOLEAN /\ (stopSeen => stopSeen')
        /\ ended' \in {"no", "completed", "stopped", "failed"}
        /\ ended' = "completed" => halted \/ (~stopSeen' /\ frontier = <<>>)
    BY <1>1 DEF NextBatch, Noted, StopNow, WalkTypes
  <2>2. WalkTypes'
    BY <1>1, <1>2, <2>1 DEF WalkTypes, given, signals
  <2>3. Ahead' = Ahead
    BY <1>2 DEF Ahead
  <2>4. DOMAIN batch' = {}
    BY <1>1, <1>2
  <2>5. QED BY <1>1, <1>2, <2>1, <2>2, <2>3, <2>4, QuietWalk DEF signals
<1>3. CASE ~UNCHANGED <<frontier, batch>>
  <2>1. PICK n : n = IF Len(frontier) < MaxConcurrent THEN Len(frontier) ELSE MaxConcurrent
    OBVIOUS
  <2>2. /\ batch' = [i \in 1..n |-> InBatch(frontier[i])]
        /\ frontier' = SubSeq(frontier, n + 1, Len(frontier))
        /\ UNCHANGED <<stopSeen, ended>>
    BY <1>3, <2>1 DEF NextBatch
  <2>3. n \in Nat /\ n <= Len(frontier) /\ frontier \in Seq(Item) /\ Len(frontier) \in Nat
    BY <1>1, <2>1, WalkConstants DEF WalkTypes
  <2>4. /\ frontier' \in Seq(Item) /\ Len(frontier') = Len(frontier) - n
        /\ \A i \in 1..(Len(frontier) - n) : frontier'[i] = frontier[i + n]
    BY <2>2, <2>3, QueueRest
  <2>5. \A i \in 1..n : /\ InBatch(frontier[i]) \in Tasks
                        /\ InBatch(frontier[i]).item = frontier[i]
                        /\ InBatch(frontier[i]).at = "waits"
    <3>1. NoResult \in Results
      BY DEF NoResult, Results
    <3>2. \A i \in 1..n : frontier[i] \in Item
      BY <2>3
    <3>3. QED BY <3>1, <3>2 DEF InBatch, Tasks
  <2>6. /\ batch' \in Seq(Tasks) /\ Len(batch') = n
        /\ \A i \in 1..n : batch'[i].item = frontier[i] /\ batch'[i].at = "waits"
        /\ DOMAIN batch' = 1..n
    BY <2>2, <2>3, <2>5
  <2>7. WalkTypes'
    BY <1>1, <2>2, <2>4, <2>6 DEF WalkTypes, given, signals
  <2>8. Ahead' = Ahead
    <3>1. Len(batch) = 0
      BY <1>1
    <3>2. Ahead = [k \in 1..Len(frontier) |-> frontier[k]]
      BY <2>3, <3>1 DEF Ahead
    <3>3. Ahead' = [k \in 1..Len(frontier) |-> IF k <= n THEN batch'[k].item ELSE frontier'[k - n]]
      BY <2>3, <2>4, <2>6 DEF Ahead
    <3>4. \A k \in 1..Len(frontier) :
             (IF k <= n THEN batch'[k].item ELSE frontier'[k - n]) = frontier[k]
      BY <2>3, <2>4, <2>6
    <3>5. QED BY <3>2, <3>3, <3>4
  <2>9. ended' # "completed" /\ stopSeen' = stopSeen /\ halted' = halted
    BY <1>1, <2>2 DEF signals
  <2>10. QED BY <1>1, <2>6, <2>7, <2>8, <2>9, QuietWalk
<1>4. QED BY <1>2, <1>3

\* One page of the batch moves on.
LEMMA StepPage ==
    ASSUME WalkInv, NEW i \in DOMAIN batch, Look(i) \/ Fetched(i)
    PROVE  WalkInv'
<1>1. /\ WalkTypes /\ DoneInv /\ batch \in Seq(Tasks) /\ batch[i] \in Tasks
      /\ DOMAIN batch = 1..Len(batch) /\ Len(batch) \in Nat
      /\ UNCHANGED <<given, signals, frontier, visited, recorded, lost, ended>>
      /\ ended = "completed" => halted
  <2>1. WalkTypes /\ DoneInv /\ batch \in Seq(Tasks)
    BY DEF WalkInv, WalkTypes
  <2>2. /\ batch[i] \in Tasks /\ DOMAIN batch = 1..Len(batch) /\ Len(batch) \in Nat
        /\ batch # <<>>
    BY <2>1
  <2>3. UNCHANGED <<given, signals, frontier, visited, recorded, lost, ended>>
    BY DEF Look, Fetched
  <2>4. ended = "completed" => halted
    BY <2>1, <2>2 DEF DoneInv
  <2>5. QED BY <2>1, <2>2, <2>3, <2>4
<1>2. PICK t \in Tasks : /\ batch' = [batch EXCEPT ![i] = t] /\ t.item = batch[i].item
                         /\ t.at # "stopped" \/ (StopNow /\ stopSeen' = Noted)
  <2>1. CASE Look(i)
    <3>1. PICK s \in {"stopped", "fetches"} :
             /\ batch' = [batch EXCEPT ![i].at = s] /\ stopSeen' = Noted
             /\ s = "stopped" => StopNow
      BY <2>1 DEF Look
    <3>2. PICK t : t = [batch[i] EXCEPT !.at = s]
      OBVIOUS
    <3>3. t \in Tasks /\ t.item = batch[i].item /\ t.at = s
      BY <1>1, <3>2 DEF Tasks
    <3>4. batch' = [batch EXCEPT ![i] = t]
      BY <3>1, <3>2
    <3>5. QED BY <3>1, <3>3, <3>4
  <2>2. CASE Fetched(i)
    <3>1. PICK s \in {"fetched", "raised"}, r \in Results :
             \/ batch' = [batch EXCEPT ![i].at = s, ![i].result = r]
             \/ batch' = [batch EXCEPT ![i].at = s]
      <4>1. ASSUME NEW links \in LinkLists,
                   batch' = [batch EXCEPT ![i].at = "fetched",
                                          ![i].result = [ok |-> TRUE, links |-> links]]
            PROVE  \E r \in Results : batch' = [batch EXCEPT ![i].at = "fetched", ![i].result = r]
        <5>1. [ok |-> TRUE, links |-> links] \in Results
          BY DEF Results
        <5>2. QED BY <4>1, <5>1
      <4>2. batch[i].result \in Results
        BY <1>1 DEF Tasks
      <4>3. QED BY <2>2, <4>1, <4>2 DEF Fetched
    <3>2. PICK t, u : t = [batch[i] EXCEPT !.at = s, !.result = r] /\ u = [batch[i] EXCEPT !.at = s]
      OBVIOUS
    <3>3. batch' = [batch EXCEPT ![i] = t] \/ batch' = [batch EXCEPT ![i] = u]
      BY <3>1, <3>2
    <3>4. t \in Tasks /\ t.item = batch[i].item /\ t.at = s
      BY <1>1, <3>2 DEF Tasks
    <3>5. u \in Tasks /\ u.item = batch[i].item /\ u.at = s
      BY <1>1, <3>2 DEF Tasks
    <3>6. QED BY <3>3, <3>4, <3>5
  <2>3. QED BY <2>1, <2>2
<1>3. /\ batch' \in Seq(Tasks) /\ Len(batch') = Len(batch) /\ DOMAIN batch' = DOMAIN batch
      /\ \A k \in DOMAIN batch : batch'[k] = IF k = i THEN t ELSE batch[k]
  BY <1>1, <1>2
<1>4. stopSeen' \in BOOLEAN /\ (stopSeen => stopSeen')
  BY <1>1 DEF WalkTypes, Look, Fetched, Noted
<1>5. WalkTypes'
  BY <1>1, <1>3, <1>4 DEF WalkTypes, given, signals
<1>6. Ahead' = Ahead
  <2>1. \A k \in 1..(Len(batch) + Len(frontier)) :
           k <= Len(batch) => batch'[k].item = batch[k].item
    BY <1>1, <1>2, <1>3 DEF WalkTypes
  <2>2. QED BY <1>1, <1>3, <2>1 DEF Ahead
<1>7. \A k \in DOMAIN batch' : batch'[k].at = "stopped" => stopSeen' \/ halted'
  <2>1. t.at = "stopped" => stopSeen' \/ halted'
    BY <1>1, <1>2 DEF StopNow, Noted, signals
  <2>2. QED BY <1>1, <1>3, <1>4, <2>1 DEF DoneInv, signals
<1>8. QED BY <1>1, <1>4, <1>5, <1>6, <1>7, QuietWalk DEF signals

LEMMA StepSignal ==
    ASSUME WalkInv, TakeFails \/ StopFileChanges \/ Halt
    PROVE  WalkInv'
<1>1. /\ WalkTypes /\ DoneInv /\ ended = "no" /\ ended' \in {"no", "failed"}
      /\ UNCHANGED <<given, frontier, visited, batch, stopSeen, recorded, lost>>
      /\ halted' \in BOOLEAN /\ (halted => halted') /\ stopFile' \in BOOLEAN
  BY DEF WalkInv, WalkTypes, TakeFails, StopFileChanges, Halt, signals
<1>2. WalkTypes'
  BY <1>1 DEF WalkTypes, given
<1>3. Ahead' = Ahead
  BY <1>1 DEF Ahead
<1>4. QED BY <1>1, <1>2, <1>3, QuietWalk DEF DoneInv

-----------------------------------------------------------------------------
(* The links of a page, one after the other. *)

\* The pages of a domain, that of b included.
With(b, domain) == PagesOf(domain) + (IF DomainOf[b.item.url] = domain THEN 1 ELSE 0)

LEMMA AddLinkAdds ==
    ASSUME NEW b \in Tasks, b.item.depth < MaxDepth, NEW queue \in Seq(Item), NEW link \in Urls
    PROVE  \/ /\ AddLink(b, queue, link) = queue
              /\ \/ link \in visited \/ (\E k \in DOMAIN queue : queue[k].url = link)
                 \/ ~Wanted(link, b.item, With(b, DomainOf[link]))
           \/ \E n \in Item :
                 /\ AddLink(b, queue, link) = Append(queue, n)
                 /\ n.url = link /\ n.depth = b.item.depth + 1 /\ link \notin visited
                 /\ Wanted(link, b.item, With(b, DomainOf[link]))
<1>1. PICK n : n = [url |-> link, depth |-> b.item.depth + 1, origin |-> b.item.origin]
  OBVIOUS
<1>2. n \in Item /\ n.url = link /\ n.depth = b.item.depth + 1
  BY <1>1, WalkConstants DEF Item, Tasks
<1>3. CASE \/ link \in visited \cup {q.url : q \in Range(queue)}
           \/ ~Wanted(link, b.item, With(b, DomainOf[link]))
  <2>1. AddLink(b, queue, link) = queue
    BY <1>3 DEF AddLink, With
  <2>2. QED BY <1>3, <2>1 DEF Range
<1>4. CASE /\ link \notin visited \cup {q.url : q \in Range(queue)}
           /\ Wanted(link, b.item, With(b, DomainOf[link]))
  <2>1. AddLink(b, queue, link) = Append(queue, n)
    BY <1>1, <1>4 DEF AddLink, With
  <2>2. QED BY <1>2, <1>4, <2>1
<1>5. QED BY <1>3, <1>4

\* What joins the frontier: links that were new, one level deeper; and no link
\* that was wanted is left out.
Joining(b, new, links) ==
    /\ new \in Seq(Item)
    /\ \A k \in DOMAIN new : /\ new[k].depth = b.item.depth + 1 /\ new[k].url \notin visited
                             /\ With(b, DomainOf[new[k].url]) < MaxPagesPerDomain
    /\ \A l \in links : \/ l \in visited \/ (\E k \in DOMAIN new : new[k].url = l)
                        \/ ~Wanted(l, b.item, With(b, DomainOf[l]))

LEMMA AddLinkJoins ==
    ASSUME NEW b \in Tasks, b.item.depth < MaxDepth, NEW queue, NEW links, NEW link \in Urls,
           Joining(b, queue, links)
    PROVE  Joining(b, AddLink(b, queue, link), links \cup {link})
<1>1. queue \in Seq(Item) /\ DOMAIN queue = 1..Len(queue) /\ Len(queue) \in Nat
  BY DEF Joining
<1>2. CASE /\ AddLink(b, queue, link) = queue
           /\ \/ link \in visited \/ (\E k \in DOMAIN queue : queue[k].url = link)
              \/ ~Wanted(link, b.item, With(b, DomainOf[link]))
  BY <1>2 DEF Joining
<1>3. ASSUME NEW n \in Item, AddLink(b, queue, link) = Append(queue, n),
             n.url = link, n.depth = b.item.depth + 1, link \notin visited,
             Wanted(link, b.item, With(b, DomainOf[link]))
      PROVE  Joining(b, AddLink(b, queue, link), links \cup {link})
  <2>1. PICK new : new = Append(queue, n)
    OBVIOUS
  <2>2. /\ new \in Seq(Item) /\ DOMAIN new = 1..(Len(queue) + 1) /\ new[Len(queue) + 1] = n
        /\ \A k \in 1..Len(queue) : new[k] = queue[k]
    BY <1>1, <2>1
  <2>3. With(b, DomainOf[n.url]) < MaxPagesPerDomain
    BY <1>3 DEF Wanted
  <2>4. \A k \in 1..(Len(queue) + 1) : k = Len(queue) + 1 \/ k \in 1..Len(queue)
    BY <1>1
  <2>5. \A k \in DOMAIN new : /\ new[k].depth = b.item.depth + 1 /\ new[k].url \notin visited
                              /\ With(b, DomainOf[new[k].url]) < MaxPagesPerDomain
    BY <1>1, <1>3, <2>2, <2>3, <2>4 DEF Joining
  <2>6. \A k \in DOMAIN queue : k \in DOMAIN new /\ new[k] = queue[k]
    BY <1>1, <2>2
  <2>7. Len(queue) + 1 \in DOMAIN new
    BY <1>1, <2>2
  <2>8. \A l \in links \cup {link} :
           \/ l \in visited \/ (\E k \in DOMAIN new : new[k].url = l)
           \/ ~Wanted(l, b.item, With(b, DomainOf[l]))
    BY <1>3, <2>2, <2>6, <2>7 DEF Joining
  <2>9. QED BY <1>3, <2>1, <2>2, <2>5, <2>8 DEF Joining
<1>4. \/ /\ AddLink(b, queue, link) = queue
         /\ \/ link \in visited \/ (\E k \in DOMAIN queue : queue[k].url = link)
            \/ ~Wanted(link, b.item, With(b, DomainOf[link]))
      \/ \E n \in Item :
            /\ AddLink(b, queue, link) = Append(queue, n)
            /\ n.url = link /\ n.depth = b.item.depth + 1 /\ link \notin visited
            /\ Wanted(link, b.item, With(b, DomainOf[link]))
  BY <1>1, AddLinkAdds
<1>5. QED BY <1>2, <1>3, <1>4, Zenon

LEMMA NewLinksJoin ==
    ASSUME NEW b \in Tasks
    PROVE  Joining(b, NewLinks(b), IF b.item.depth < MaxDepth /\ b.result.ok
                                   THEN Range(b.result.links) ELSE {})
<1>1. CASE ~(b.item.depth < MaxDepth /\ b.result.ok)
  <2>1. NewLinks(b) = <<>>
    BY <1>1 DEF NewLinks
  <2>2. Joining(b, <<>>, {})
    BY DEF Joining
  <2>3. QED BY <1>1, <2>1, <2>2
<1>2. CASE b.item.depth < MaxDepth /\ b.result.ok
  <2> DEFINE links == b.result.links
             Q == CHOOSE f : f = [n \in 0..Len(links) |->
                                    IF n = 0 THEN <<>> ELSE AddLink(b, f[n - 1], links[n])]
  <2>1. /\ links \in Seq(Urls) /\ Len(links) \in Nat /\ DOMAIN links = 1..Len(links)
        /\ \A n \in 1..Len(links) : links[n] \in Urls
    BY WalkConstants DEF Tasks
  <2>2. NewLinks(b) = Q[Len(links)]
    BY <1>2 DEF NewLinks
  <2>3. PICK L, N : L = links /\ N = Len(links)
    OBVIOUS
  <2>4. \E f : f = [n \in 0..N |-> IF n = 0 THEN <<>> ELSE AddLink(b, f[n - 1], L[n])]
    <3>1. \A q \in Seq(Item), n \in 1..N : AddLink(b, q, L[n]) \in Seq(Item)
      BY SMTT(30), <1>2, <2>1, <2>3, AddLinkAdds
    <3>2. PICK step : step = [p \in Seq(Item) \X (1..N) |-> AddLink(b, p[1], L[p[2]])]
      OBVIOUS
    <3>3. step \in [Seq(Item) \X (1..N) -> Seq(Item)]
      BY <3>1, <3>2
    <3>4. <<>> \in Seq(Item) /\ N \in Nat
      BY <2>1, <2>3
    <3>5. PICK f \in [0..N -> Seq(Item)] : Ran(f, <<>>, N, step)
      BY <3>3, <3>4, LoopRuns
    <3>6. \A n \in 0..N : n # 0 => step[<<f[n - 1], n>>] = AddLink(b, f[n - 1], L[n])
      <4>1. \A n \in 0..N : n # 0 => n - 1 \in 0..N /\ n \in 1..N
        BY <3>4
      <4>2. QED BY <3>2, <3>5, <4>1
    <3>7. f = [n \in 0..N |-> IF n = 0 THEN <<>> ELSE AddLink(b, f[n - 1], L[n])]
      BY <3>5, <3>6 DEF Ran
    <3>8. QED BY <3>7
  <2>5. PICK f : f = Q
    OBVIOUS
  <2>6. f = [n \in 0..N |-> IF n = 0 THEN <<>> ELSE AddLink(b, f[n - 1], L[n])]
    BY <2>3, <2>4, <2>5
  <2> DEFINE S == {n \in Nat : Joining(b, f[n], {L[k] : k \in 1..n})}
  <2> HIDE DEF Q, links
  <2>7. 0 \in S
    <3>1. f[0] = <<>> /\ {L[k] : k \in 1..0} = {}
      BY <2>1, <2>3, <2>6 DEF links
    <3>2. Joining(b, <<>>, {})
      BY DEF Joining
    <3>3. QED BY <3>1, <3>2
  <2>8. ASSUME NEW n \in 0..(N - 1), n \in S PROVE n + 1 \in S
    <3>1. N \in Nat /\ n + 1 \in 0..N /\ n + 1 # 0 /\ n + 1 - 1 = n /\ L[n + 1] \in Urls
      BY <2>1, <2>3 DEF links
    <3>2. f[n + 1] = AddLink(b, f[n], L[n + 1])
      BY <2>6, <3>1
    <3>3. {L[k] : k \in 1..(n + 1)} = {L[k] : k \in 1..n} \cup {L[n + 1]}
      <4>1. \A k \in 1..(n + 1) : k \in 1..n \/ k = n + 1
        OBVIOUS
      <4>2. \A k \in 1..n : k \in 1..(n + 1)
        OBVIOUS
      <4>3. n + 1 \in 1..(n + 1)
        OBVIOUS
      <4>4. QED BY <4>1, <4>2, <4>3
    <3>4. QED BY <1>2, <2>8, <3>1, <3>2, <3>3, AddLinkJoins
  <2>9. N \in Nat /\ N \in S
    <3> HIDE DEF S
    <3>1. N \in Nat
      BY <2>1, <2>3 DEF links
    <3>2. 0..N \subseteq S
      BY <2>7, <2>8, <3>1, CountingUp
    <3>3. QED BY <3>1, <3>2
  <2>10. {L[k] : k \in 1..N} = Range(b.result.links)
    BY <2>1, <2>3 DEF links, Range
  <2>11. QED BY <1>2, <2>2, <2>3, <2>5, <2>9, <2>10
<1>3. QED BY <1>1, <1>2

LEMMA PagesGrow ==
    ASSUME recorded \in Seq(Pages), NEW p \in Pages, recorded' = Append(recorded, p), NEW d
    PROVE  /\ PagesOf(d) \in Nat
           /\ PagesOf(d)' = PagesOf(d) + (IF DomainOf[p.url] = d THEN 1 ELSE 0)
<1>1. PICK n \in Nat : n = Len(recorded)
  OBVIOUS
<1>2. /\ DOMAIN recorded = 1..n /\ DOMAIN recorded' = 1..(n + 1) /\ recorded'[n + 1] = p
      /\ \A i \in 1..n : recorded'[i] = recorded[i]
  BY <1>1
<1>3. PICK S, T : /\ S = {i \in 1..n : DomainOf[recorded[i].url] = d}
                  /\ T = {i \in 1..(n + 1) : DomainOf[recorded'[i].url] = d}
  OBVIOUS
<1>4. PagesOf(d) = Cardinality(S) /\ PagesOf(d)' = Cardinality(T)
  BY <1>2, <1>3 DEF PagesOf
<1>5. IsFiniteSet(S)
  BY <1>1, <1>3, FS_Interval, FS_Subset
<1>6. T = IF DomainOf[p.url] = d THEN S \cup {n + 1} ELSE S
  <2>1. \A i \in 1..(n + 1) : i \in 1..n \/ i = n + 1
    OBVIOUS
  <2>2. \A i \in 1..n : i \in 1..(n + 1) /\ i # n + 1
    OBVIOUS
  <2>3. \A i \in 1..n : i \in T <=> i \in S
    BY <1>2, <1>3, <2>2
  <2>4. n + 1 \in T <=> DomainOf[p.url] = d
    BY <1>2, <1>3
  <2>5. T \subseteq 1..(n + 1) /\ S \subseteq 1..n
    BY <1>3
  <2>6. \A i : i \in 1..(n + 1) <=> i \in 1..n \/ i = n + 1
    BY <2>1, <2>2
  <2>7. \A i : i \in T <=> i \in S \/ (i = n + 1 /\ DomainOf[p.url] = d)
    BY <2>2, <2>3, <2>4, <2>5, <2>6, Zenon
  <2>8. QED BY <2>7
<1>7. n + 1 \notin S
  BY <1>3
<1>8. QED BY <1>4, <1>5, <1>6, <1>7, FS_AddElement, FS_CardinalityType

-----------------------------------------------------------------------------
(* The first result of the batch is taken. *)

\* What lies ahead then: the rest, and after it the links that join.
Shifts(new) ==
    /\ \A k \in DOMAIN Ahead' :
          \/ k + 1 \in DOMAIN Ahead /\ Ahead'[k] = Ahead[k + 1]
          \/ /\ \A j \in DOMAIN Ahead' : j >= k => ~(j + 1 \in DOMAIN Ahead)
             /\ \E i \in DOMAIN new : Ahead'[k] = new[i]
    /\ \A k \in DOMAIN Ahead : k # 1 => \E j \in DOMAIN Ahead' : Ahead'[j] = Ahead[k]
    /\ \A i \in DOMAIN new : \E k \in DOMAIN Ahead' : Ahead'[k] = new[i]
    /\ 1 \in DOMAIN Ahead /\ Ahead[1] = Head(batch).item
    /\ DOMAIN Ahead \subseteq Nat /\ DOMAIN Ahead' \subseteq Nat
    /\ \A k \in DOMAIN Ahead : 1 <= k

LEMMA AheadAfterTake ==
    ASSUME WalkTypes, batch # <<>>, batch' = Tail(batch), NEW new \in Seq(Item),
           frontier' = frontier \o new
    PROVE  Shifts(new)
<1>1. PICK m, f, g : m = Len(batch) /\ f = Len(frontier) /\ g = Len(new)
  OBVIOUS
<1>2. /\ m \in Nat /\ m > 0 /\ f \in Nat /\ g \in Nat /\ Len(batch') = m - 1
      /\ Len(frontier') = f + g /\ Head(batch) = batch[1]
      /\ \A k \in 1..(m - 1) : batch'[k] = batch[k + 1]
      /\ \A k \in 1..(f + g) : frontier'[k] = IF k <= f THEN frontier[k] ELSE new[k - f]
      /\ DOMAIN new = 1..g
  BY <1>1 DEF WalkTypes
<1>3. /\ DOMAIN Ahead = 1..(m + f) /\ DOMAIN Ahead' = 1..(m - 1 + (f + g))
      /\ \A k \in 1..(m + f) : Ahead[k] = IF k <= m THEN batch[k].item ELSE frontier[k - m]
      /\ \A k \in 1..(m - 1 + (f + g)) :
            Ahead'[k] = IF k <= m - 1 THEN batch'[k].item ELSE frontier'[k - (m - 1)]
  BY <1>1, <1>2 DEF Ahead
<1>4. ASSUME NEW k \in 1..(m - 1 + f) PROVE Ahead'[k] = Ahead[k + 1]
  <2>1. k + 1 \in 1..(m + f) /\ k \in 1..(m - 1 + (f + g))
    BY <1>2
  <2>2. CASE k <= m - 1
    <3>1. k + 1 <= m /\ k \in 1..(m - 1)
      BY <1>2, <2>2
    <3>2. Ahead'[k] = batch'[k].item /\ batch'[k] = batch[k + 1]
      BY <1>2, <1>3, <2>1, <2>2, <3>1
    <3>3. Ahead[k + 1] = batch[k + 1].item
      BY <1>3, <2>1, <3>1
    <3>4. QED BY <3>2, <3>3
  <2>3. CASE ~(k <= m - 1)
    <3>1. PICK e : e = k - (m - 1)
      OBVIOUS
    <3>2. ~(k + 1 <= m) /\ e \in 1..(f + g) /\ e <= f /\ k + 1 - m = e
      BY <1>2, <2>3, <3>1
    <3>3. Ahead'[k] = frontier'[e] /\ frontier'[e] = frontier[e]
      BY <1>2, <1>3, <2>1, <2>3, <3>1, <3>2
    <3>4. Ahead[k + 1] = frontier[e]
      <4>1. PICK j : j = k + 1
        OBVIOUS
      <4>2. j \in 1..(m + f) /\ ~(j <= m) /\ j - m = e
        BY <1>2, <2>1, <3>2, <4>1
      <4>3. Ahead[j] = frontier[e]
        BY <1>3, <4>2
      <4>4. QED BY <4>1, <4>3
    <3>5. QED BY <3>3, <3>4
  <2>4. QED BY <2>2, <2>3
<1>5. ASSUME NEW i \in 1..g PROVE Ahead'[m - 1 + f + i] = new[i]
  <2>1. PICK k, e : k = m - 1 + f + i /\ e = f + i
    OBVIOUS
  <2>2. /\ k \in 1..(m - 1 + (f + g)) /\ ~(k <= m - 1) /\ k - (m - 1) = e
        /\ e \in 1..(f + g) /\ ~(e <= f) /\ e - f = i
    <3>1. m \in Nat /\ m > 0 /\ f \in Nat /\ g \in Nat
      BY <1>2
    <3>2. QED BY <2>1, <3>1
  <2>3. Ahead'[k] = frontier'[e]
    BY <1>3, <2>2
  <2>4. frontier'[e] = new[i]
    BY <1>2, <2>2
  <2>5. QED BY <2>1, <2>3, <2>4
<1>6. ASSUME NEW k \in DOMAIN Ahead'
      PROVE  \/ k + 1 \in DOMAIN Ahead /\ Ahead'[k] = Ahead[k + 1]
             \/ /\ \A j \in DOMAIN Ahead' : j >= k => ~(j + 1 \in DOMAIN Ahead)
                /\ \E i \in DOMAIN new : Ahead'[k] = new[i]
  <2>1. CASE k <= m - 1 + f
    <3>1. k \in 1..(m - 1 + f) /\ k + 1 \in 1..(m + f)
      BY <1>2, <1>3, <1>6, <2>1
    <3>2. QED BY <1>3, <1>4, <3>1
  <2>2. CASE ~(k <= m - 1 + f)
    <3>1. k - (m - 1 + f) \in 1..g /\ m - 1 + f + (k - (m - 1 + f)) = k
      BY <1>2, <1>3, <1>6, <2>2
    <3>2. \A j \in DOMAIN Ahead' : j >= k => ~(j + 1 \in DOMAIN Ahead)
      BY <1>2, <1>3, <1>6, <2>2
    <3>3. \A y : y = k - (m - 1 + f) => Ahead'[k] = new[y] /\ y \in DOMAIN new
      BY <1>2, <1>5, <3>1
    <3>4. QED BY <3>2, <3>3
  <2>3. QED BY <2>1, <2>2
<1>7. ASSUME NEW k \in DOMAIN Ahead, k # 1
      PROVE  k - 1 \in DOMAIN Ahead' /\ Ahead'[k - 1] = Ahead[k]
  <2>1. k - 1 \in 1..(m - 1 + f) /\ k - 1 + 1 = k /\ k - 1 \in 1..(m - 1 + (f + g))
    BY <1>2, <1>3, <1>7
  <2>2. QED BY <1>3, <1>4, <2>1
<1>8. ASSUME NEW i \in DOMAIN new PROVE \E k \in DOMAIN Ahead' : Ahead'[k] = new[i]
  <2>1. m - 1 + f + i \in DOMAIN Ahead'
    BY SMTT(30), <1>2, <1>3, <1>8
  <2>2. QED BY <1>2, <1>5, <1>8, <2>1
<1>9. 1 \in DOMAIN Ahead /\ Ahead[1] = Head(batch).item
  BY SMTT(30), <1>2, <1>3
<1>10. /\ DOMAIN Ahead \subseteq Nat /\ DOMAIN Ahead' \subseteq Nat
       /\ \A k \in DOMAIN Ahead : 1 <= k
  BY <1>2, <1>3
<1>11. QED BY <1>6, <1>7, <1>8, <1>9, <1>10 DEF Shifts

LEMMA AheadItems ==
    ASSUME WalkTypes
    PROVE  /\ \A k \in DOMAIN Ahead : Ahead[k] \in Item /\ Ahead[k].depth \in Nat
           /\ \A i \in DOMAIN recorded : recorded[i] \in Pages /\ recorded[i].depth \in Nat
<1>1. ASSUME NEW k \in DOMAIN Ahead PROVE Ahead[k] \in Item
  <2>1. Len(batch) \in Nat /\ Len(frontier) \in Nat /\ k \in 1..(Len(batch) + Len(frontier))
    BY <1>1 DEF Ahead, WalkTypes
  <2>2. CASE k <= Len(batch)
    <3>1. batch[k] \in Tasks
      BY <2>1, <2>2 DEF WalkTypes
    <3>2. QED BY <2>1, <2>2, <3>1 DEF Ahead, Tasks
  <2>3. CASE ~(k <= Len(batch))
    <3>1. k - Len(batch) \in 1..Len(frontier)
      BY <2>1, <2>3
    <3>2. frontier[k - Len(batch)] \in Item
      BY <3>1 DEF WalkTypes
    <3>3. QED BY <2>1, <2>3, <3>2 DEF Ahead
  <2>4. QED BY <2>2, <2>3
<1>2. \A i \in DOMAIN recorded : recorded[i] \in Pages
  BY DEF WalkTypes
<1>3. QED BY <1>1, <1>2, WalkConstants DEF Item, Pages

LEMMA TakeKeepsOrder ==
    ASSUME WalkInv, WalkTypes', batch # <<>>, batch' = Tail(batch),
           NEW new \in Seq(Item), frontier' = frontier \o new,
           \A i \in DOMAIN new : new[i].depth = Head(batch).item.depth + 1,
           \/ recorded' = recorded
           \/ \E p \in Pages : recorded' = Append(recorded, p) /\ p.depth = Head(batch).item.depth
    PROVE  OrderInv'
<1>1. WalkTypes /\ OrderInv
  BY DEF WalkInv
<1>s. Shifts(new)
  BY <1>1, AheadAfterTake
<1>a. /\ \A k \in DOMAIN Ahead : Ahead[k] \in Item /\ Ahead[k].depth \in Nat
      /\ \A i \in DOMAIN recorded : recorded[i].depth \in Nat
  BY <1>1, AheadItems
<1>2. PICK d : d = Ahead[1].depth
  OBVIOUS
<1>3. d \in Nat /\ d = Head(batch).item.depth
  BY <1>2, <1>s, <1>a DEF Shifts
<1>4. \A k \in DOMAIN Ahead : d <= Ahead[k].depth /\ Ahead[k].depth <= d + 1
  BY <1>1, <1>2, <1>s DEF OrderInv, Shifts
<1>5. ASSUME NEW k \in DOMAIN Ahead'
      PROVE  /\ k \in Nat /\ Ahead'[k].depth \in Nat
             /\ d <= Ahead'[k].depth /\ Ahead'[k].depth <= d + 1
  <2>1. CASE k + 1 \in DOMAIN Ahead /\ Ahead'[k] = Ahead[k + 1]
    BY <1>4, <1>5, <1>a, <1>s, <2>1 DEF Shifts
  <2>2. CASE \E i \in DOMAIN new : Ahead'[k] = new[i]
    <3>1. Ahead'[k].depth = d + 1
      BY <1>3, <2>2
    <3>2. k \in Nat
      BY <1>5, <1>s DEF Shifts
    <3>3. QED BY <1>3, <3>1, <3>2
  <2>3. QED BY <1>5, <1>s, <2>1, <2>2 DEF Shifts
<1>6. ASSUME NEW j \in DOMAIN Ahead', NEW k \in DOMAIN Ahead'
      PROVE  /\ j <= k => Ahead'[j].depth <= Ahead'[k].depth
             /\ Ahead'[j].depth <= Ahead'[k].depth + 1
  <2>1. /\ j \in Nat /\ k \in Nat /\ Ahead'[j].depth \in Nat /\ Ahead'[k].depth \in Nat
        /\ Ahead'[j].depth <= d + 1 /\ d <= Ahead'[k].depth
    BY <1>5
  <2>2. Ahead'[j].depth <= Ahead'[k].depth + 1
    BY <1>3, <2>1
  <2>3. CASE Ahead'[k].depth = d + 1
    BY <1>3, <2>1, <2>2, <2>3
  <2>4. CASE Ahead'[k].depth # d + 1
    <3>1. ~\E i \in DOMAIN new : Ahead'[k] = new[i]
      BY <1>3, <2>4
    <3>2. k + 1 \in DOMAIN Ahead /\ Ahead'[k] = Ahead[k + 1]
      BY <1>s, <3>1 DEF Shifts
    <3>3. ASSUME j <= k PROVE j + 1 \in DOMAIN Ahead /\ Ahead'[j] = Ahead[j + 1]
      <4>1. ~(\A l \in DOMAIN Ahead' : l >= j => ~(l + 1 \in DOMAIN Ahead))
        BY <2>1, <3>2, <3>3
      <4>2. QED BY <1>s, <4>1 DEF Shifts
    <3>4. ASSUME j <= k PROVE Ahead[j + 1].depth <= Ahead[k + 1].depth
      <4>1. j + 1 <= k + 1 /\ j + 1 \in DOMAIN Ahead /\ k + 1 \in DOMAIN Ahead
        BY <2>1, <3>2, <3>3, <3>4
      <4>2. QED BY <1>1, <4>1 DEF OrderInv
    <3>5. QED BY <2>2, <3>2, <3>3, <3>4
  <2>5. QED BY <2>3, <2>4
<1>7. ASSUME NEW i \in DOMAIN recorded'
      PROVE  recorded'[i].depth <= d /\ recorded'[i].depth \in Nat
  <2>1. ASSUME NEW l \in DOMAIN recorded PROVE recorded[l].depth <= d /\ recorded[l].depth \in Nat
    BY <1>1, <1>2, <1>s, <1>a, <2>1 DEF OrderInv, Shifts
  <2>2. ASSUME NEW p \in Pages, recorded' = Append(recorded, p), p.depth = d
        PROVE  recorded'[i].depth <= d /\ recorded'[i].depth \in Nat
    <3>1. recorded \in Seq(Pages)
      BY <1>1 DEF WalkTypes
    <3>2. (i \in DOMAIN recorded /\ recorded'[i] = recorded[i]) \/ recorded'[i] = p
      BY <1>7, <2>2, <3>1
    <3>3. QED BY <1>3, <2>1, <2>2, <3>2
  <2>3. QED BY <1>3, <1>7, <2>1, <2>2
<1>8. \A i \in DOMAIN recorded', k \in DOMAIN Ahead' : recorded'[i].depth <= Ahead'[k].depth
  BY <1>3, <1>5, <1>7
<1>9. QED BY <1>6, <1>8 DEF OrderInv

\* Nothing came of the page: it was stopped, or its fetch raised.
LEMMA TakeNothing ==
    ASSUME WalkInv, Take, Head(batch).at # "fetched"
    PROVE  WalkInv'
<1>1. /\ WalkTypes /\ LinkInv /\ DoneInv /\ batch # <<>> /\ batch' = Tail(batch) /\ ended = "no"
      /\ UNCHANGED <<frontier, visited, recorded, given, signals, stopSeen, ended>>
      /\ HasResult(batch[1])
  <2>1. batch # <<>> /\ \A i \in DOMAIN batch : HasResult(batch[i])
    BY DEF Take
  <2>2. 1 \in DOMAIN batch
    BY <2>1 DEF WalkInv, WalkTypes
  <2>3. QED BY <2>1, <2>2 DEF Take, WalkInv
<1>2. /\ Head(batch) = batch[1] /\ 1 \in DOMAIN batch /\ Tail(batch) \in Seq(Tasks)
      /\ \A k \in DOMAIN batch' : k + 1 \in DOMAIN batch /\ batch'[k] = batch[k + 1]
  BY <1>1 DEF WalkTypes
<1>3. WalkTypes'
  BY <1>1, <1>2 DEF WalkTypes, given, signals
<1>4. <<>> \in Seq(Item) /\ DOMAIN <<>> = {} /\ frontier' = frontier \o <<>>
  BY <1>1 DEF WalkTypes
<1>5. OrderInv'
  BY <1>1, <1>3, <1>4, TakeKeepsOrder
<1>6. /\ \A k \in DOMAIN Ahead' : \E j \in DOMAIN Ahead : Ahead'[k] = Ahead[j]
      /\ \A k \in DOMAIN Ahead : k # 1 => \E j \in DOMAIN Ahead' : Ahead'[j] = Ahead[k]
      /\ Ahead[1] = Head(batch).item
  <2>1. Shifts(<<>>)
    BY <1>1, <1>4, AheadAfterTake
  <2>2. QED BY <1>4, <2>1 DEF Shifts
<1>7. LinkInv'
  <2>1. \A u, d : Within(u, d) => Within(u, d)'
    BY <1>1, <1>6 DEF Within
  <2>2. \A d : Full(d)' <=> Full(d)
    BY <1>1 DEF Full, PagesOf
  <2>3. \A p : Asked(p)' = Asked(p)
    BY <1>1 DEF Asked, given
  <2>4. QED BY <1>1, <1>6, <2>1, <2>2, <2>3 DEF LinkInv
<1>8. DoneInv'
  <2>1. \A u : Seen(u) => Seen(u)'
    BY <1>1 DEF Seen, Take
  <2>2. \/ stopSeen \/ halted
        \/ \A u : u = Ahead[1].url => Seen(u)'
    <3>1. CASE batch[1].at = "raised"
      <4>1. lost' = lost \cup {batch[1].item.url}
        BY <1>2, <3>1 DEF Take
      <4>2. QED BY <1>2, <1>6, <4>1 DEF Seen
    <3>2. CASE batch[1].at = "stopped"
      BY <1>1, <1>2, <3>2 DEF DoneInv
    <3>3. QED BY <1>1, <1>2, <3>1, <3>2 DEF HasResult
  <2>3. \A u \in visited :
           Seen(u)' \/ (\E k \in DOMAIN Ahead' : Ahead'[k].url = u) \/ stopSeen \/ halted
    <3>1. SUFFICES ASSUME NEW u \in visited, ~stopSeen, ~halted, ~Seen(u)'
                   PROVE  \E k \in DOMAIN Ahead' : Ahead'[k].url = u
      OBVIOUS
    <3>2. PICK k \in DOMAIN Ahead : Ahead[k].url = u
      BY <1>1, <2>1, <3>1 DEF DoneInv
    <3>3. k # 1
      BY <2>2, <3>1, <3>2
    <3>4. QED BY <1>6, <3>2, <3>3
  <2>4. UNCHANGED <<seeds, visited, stopSeen, halted, ended>>
    BY <1>1 DEF given, signals
  <2>5. \A k \in DOMAIN batch' : batch'[k].at = "stopped" => stopSeen \/ halted
    BY <1>1, <1>2 DEF DoneInv
  <2>6. QED BY <1>1, <2>3, <2>4, <2>5 DEF DoneInv
<1>9. QED BY <1>3, <1>5, <1>7, <1>8 DEF WalkInv

\* The page is stored and its links join the frontier.
LEMMA TakePage ==
    ASSUME WalkInv, Take, Head(batch).at = "fetched"
    PROVE  WalkInv'
<1>1. PICK b, new : b = Head(batch) /\ new = NewLinks(b)
  OBVIOUS
<1>2. /\ WalkTypes /\ OrderInv /\ LinkInv /\ DoneInv /\ batch # <<>> /\ batch' = Tail(batch)
      /\ ended = "no" /\ UNCHANGED <<given, signals, stopSeen, ended>>
      /\ lost' = lost /\ frontier' = frontier \o new
      /\ visited' = visited \cup {n.url : n \in Range(new)}
  BY <1>1 DEF WalkInv, Take, Joins
<1>3. /\ b \in Tasks /\ Tail(batch) \in Seq(Tasks)
      /\ \A k \in DOMAIN batch' : k + 1 \in DOMAIN batch /\ batch'[k] = batch[k + 1]
  BY <1>1, <1>2 DEF WalkTypes
<1>4. PICK p : p = [url |-> b.item.url, depth |-> b.item.depth, origin |-> b.item.origin,
                    ok |-> b.result.ok, links |-> b.result.links]
  OBVIOUS
<1>5. /\ p \in Pages /\ p.url = b.item.url /\ p.depth = b.item.depth /\ p.origin = b.item.origin
      /\ p.ok = b.result.ok /\ p.links = b.result.links
  BY <1>3, <1>4 DEF Pages, Tasks, Item, Results
<1>6. recorded' = Append(recorded, p)
  BY <1>1, <1>4 DEF Take
<1>7. Joining(b, new, IF b.item.depth < MaxDepth /\ b.result.ok THEN Range(b.result.links) ELSE {})
  BY <1>1, <1>3, NewLinksJoin
<1>8. /\ new \in Seq(Item) /\ DOMAIN new = 1..Len(new)
      /\ \A i \in DOMAIN new : new[i] \in Item /\ new[i].depth = b.item.depth + 1
                               /\ new[i].url \notin visited
                               /\ With(b, DomainOf[new[i].url]) < MaxPagesPerDomain
  BY <1>7 DEF Joining
<1>9. \A u : u \in visited' <=> u \in visited \/ \E i \in DOMAIN new : new[i].url = u
  BY <1>2 DEF Range
<1>10. WalkTypes'
  <2>1. visited' \subseteq Urls
    BY SMTT(30), <1>2, <1>8, <1>9 DEF WalkTypes, Item
  <2>2. frontier' \in Seq(Item) /\ recorded' \in Seq(Pages)
    BY <1>2, <1>5, <1>6, <1>8 DEF WalkTypes
  <2>3. QED BY <1>2, <1>3, <2>1, <2>2 DEF WalkTypes, given, signals
<1>11. OrderInv'
  BY <1>1, <1>2, <1>5, <1>6, <1>8, <1>10, TakeKeepsOrder
<1>12. /\ \A k \in DOMAIN Ahead' : \/ \E j \in DOMAIN Ahead : Ahead'[k] = Ahead[j]
                                   \/ \E i \in DOMAIN new : Ahead'[k] = new[i]
       /\ \A k \in DOMAIN Ahead : k # 1 => \E j \in DOMAIN Ahead' : Ahead'[j] = Ahead[k]
       /\ \A i \in DOMAIN new : \E j \in DOMAIN Ahead' : Ahead'[j] = new[i]
       /\ 1 \in DOMAIN Ahead /\ Ahead[1] = b.item
  <2>1. Shifts(new)
    BY <1>2, <1>8, AheadAfterTake
  <2>2. QED BY <1>1, <2>1 DEF Shifts
<1>13. /\ \A i \in DOMAIN recorded' : \/ i \in DOMAIN recorded /\ recorded'[i] = recorded[i]
                                      \/ recorded'[i] = p
       /\ \A i \in DOMAIN recorded : i \in DOMAIN recorded' /\ recorded'[i] = recorded[i]
       /\ \E i \in DOMAIN recorded' : recorded'[i] = p
  <2>1. /\ DOMAIN recorded = 1..Len(recorded) /\ DOMAIN recorded' = 1..(Len(recorded) + 1)
        /\ Len(recorded) \in Nat /\ recorded'[Len(recorded) + 1] = p
        /\ \A i \in 1..Len(recorded) : recorded'[i] = recorded[i]
    BY <1>2, <1>5, <1>6 DEF WalkTypes
  <2>2. \A i \in 1..(Len(recorded) + 1) : i \in 1..Len(recorded) \/ i = Len(recorded) + 1
    BY <2>1
  <2>3. Len(recorded) + 1 \in DOMAIN recorded' /\ 1..Len(recorded) \subseteq DOMAIN recorded'
    BY <2>1
  <2>4. QED BY <2>1, <2>2, <2>3
<1>14. p.url \in visited
  BY <1>2, <1>5, <1>12 DEF LinkInv
<1>15. \A d : PagesOf(d)' = With(b, d) /\ PagesOf(d) \in Nat /\ PagesOf(d)' >= PagesOf(d)
  <2>1. recorded \in Seq(Pages)
    BY <1>2 DEF WalkTypes
  <2>2. QED BY <1>5, <1>6, <2>1, PagesGrow DEF With
\* What was full is full, and what joins is of no full domain.
<1>16. \A d : (Full(d) => Full(d)') /\ (\A i \in DOMAIN new : DomainOf[new[i].url] = d => ~Full(d)')
  <2>1. \A d : PagesOf(d)' \in Nat
    BY <1>15 DEF With
  <2>2. QED BY <1>8, <1>15, <2>1, WalkConstants DEF Full
\* Links that had joined are where they were.
<1>17. ASSUME NEW u \in visited, NEW d, Within(u, d)
       PROVE  Within(u, d)'
  <2>1. \A k \in DOMAIN Ahead' : Ahead'[k].url = u => Ahead'[k].depth <= d
    BY <1>8, <1>12, <1>17 DEF Within
  <2>2. p.url = u => p.depth <= d
    BY <1>5, <1>12, <1>17 DEF Within
  <2>3. \A j \in DOMAIN recorded' : recorded'[j].url = u => recorded'[j].depth <= d
    BY <1>13, <1>17, <2>2 DEF Within
  <2>4. QED BY <2>1, <2>3 DEF Within
<1>18. \A q : Asked(q)' = Asked(q)
  BY <1>2 DEF Asked, given
\* The links of a page that was stored before.
<1>19. ASSUME NEW i \in DOMAIN recorded, NEW l \in Asked(recorded[i])
       PROVE  \/ l \in visited' /\ Within(l, recorded[i].depth + 1)'
              \/ l \notin visited' /\ Full(DomainOf[l])'
  <2>1. CASE l \in visited /\ Within(l, recorded[i].depth + 1)
    <3>1. PICK d : d = recorded[i].depth + 1
      OBVIOUS
    <3>2. Within(l, d)'
      BY <1>17, <2>1, <3>1
    <3>3. recorded'[i] = recorded[i]
      BY <1>13
    <3>4. QED BY <1>9, <2>1, <3>1, <3>2, <3>3 DEF Within
  <2>2. CASE l \notin visited /\ Full(DomainOf[l])
    BY <1>9, <1>16, <2>2
  <2>3. QED BY <1>2, <2>1, <2>2 DEF LinkInv
\* The links of the page itself.
<1>20. ASSUME NEW l \in Asked(p)
       PROVE  \/ l \in visited' /\ \A d : d = p.depth + 1 => Within(l, d)'
              \/ l \notin visited' /\ Full(DomainOf[l])'
  <2>1. /\ l \in Range(b.result.links) /\ b.item.depth < MaxDepth /\ b.result.ok
        /\ ~stayOnDomain \/ DomainOf[l] = b.item.origin
    BY <1>2, <1>5, <1>20 DEF Asked, WalkTypes
  <2>2. \/ l \in visited \/ (\E i \in DOMAIN new : new[i].url = l)
        \/ ~Wanted(l, b.item, With(b, DomainOf[l]))
    BY <1>7, <2>1 DEF Joining
  <2>3. CASE l \in visited'
    <3>1. p.depth \in Nat
      BY <1>5, WalkConstants DEF Pages
    <3>2. ASSUME NEW k \in DOMAIN Ahead' PROVE Ahead'[k].depth <= p.depth + 1
      BY SMTT(30), <1>2, <1>5, <1>8, <1>12, <3>1, <3>2 DEF OrderInv
    <3>3. ASSUME NEW j \in DOMAIN recorded' PROVE recorded'[j].depth <= p.depth + 1
      <4>1. \A i \in DOMAIN recorded : recorded[i].depth <= p.depth /\ recorded[i].depth \in Nat
        BY <1>2, <1>5, <1>12, AheadItems DEF OrderInv
      <4>2. QED BY <1>13, <3>1, <3>3, <4>1
    <3>4. QED BY <2>3, <3>2, <3>3 DEF Within
  <2>4. CASE l \notin visited'
    <3>1. ~Wanted(l, b.item, With(b, DomainOf[l]))
      BY <1>9, <2>2, <2>4
    <3>2. ~(With(b, DomainOf[l]) < MaxPagesPerDomain)
      BY <2>1, <3>1 DEF Wanted
    <3>3. PagesOf(DomainOf[l])' = With(b, DomainOf[l]) /\ With(b, DomainOf[l]) \in Nat
      BY <1>15 DEF With
    <3>4. Full(DomainOf[l])'
      BY <3>2, <3>3, WalkConstants DEF Full
    <3>5. QED BY <2>4, <3>4
  <2>5. QED BY <2>3, <2>4
<1>21. LinkInv'
  <2>1. \A k \in DOMAIN Ahead' : Ahead'[k].url \in visited'
    BY ZenonT(30), <1>2, <1>9, <1>12 DEF LinkInv
  <2>2. \A i \in DOMAIN recorded' : recorded'[i].url \in visited'
    BY <1>2, <1>9, <1>13, <1>14 DEF LinkInv
  <2>3. ASSUME NEW i \in DOMAIN recorded', NEW q, q = recorded'[i], NEW l \in Asked(q)'
        PROVE  \/ l \in visited' /\ \A d : d = recorded'[i].depth + 1 => Within(l, d)'
               \/ l \notin visited' /\ Full(DomainOf[l])'
    <3>1. CASE i \in DOMAIN recorded /\ recorded'[i] = recorded[i]
      BY <1>18, <1>19, <2>3, <3>1
    <3>2. CASE recorded'[i] = p
      BY <1>18, <1>20, <2>3, <3>2
    <3>3. QED BY <1>13, <3>1, <3>2
  <2>4. QED BY <2>1, <2>2, <2>3 DEF LinkInv
<1>22. DoneInv'
  <2>1. \A u : Seen(u) => Seen(u)'
    BY <1>2, <1>13 DEF Seen
  <2>2. \A u : u = p.url => Seen(u)'
    BY <1>13 DEF Seen
  <2>3. \A u \in visited' :
           Seen(u)' \/ (\E k \in DOMAIN Ahead' : Ahead'[k].url = u) \/ stopSeen \/ halted
    <3>1. SUFFICES ASSUME NEW u \in visited', ~stopSeen, ~halted, ~Seen(u)'
                   PROVE  \E k \in DOMAIN Ahead' : Ahead'[k].url = u
      OBVIOUS
    <3>2. CASE \E i \in DOMAIN new : new[i].url = u
      BY <1>12, <3>2
    <3>3. CASE u \in visited
      <4>1. PICK k \in DOMAIN Ahead : Ahead[k].url = u
        BY <1>2, <2>1, <3>1, <3>3 DEF DoneInv
      <4>2. k # 1
        BY <1>5, <1>12, <2>2, <3>1, <4>1
      <4>3. QED BY <1>12, <4>1, <4>2
    <3>4. QED BY <1>9, <3>2, <3>3
  <2>4. UNCHANGED <<seeds, stopSeen, halted, ended>> /\ visited \subseteq visited'
    BY <1>2 DEF given, signals
  <2>5. \A k \in DOMAIN batch' : batch'[k].at = "stopped" => stopSeen \/ halted
    BY <1>2, <1>3 DEF DoneInv
  <2>6. QED BY <1>2, <2>3, <2>4, <2>5 DEF DoneInv
<1>23. QED BY <1>10, <1>11, <1>21, <1>22 DEF WalkInv

LEMMA WalkInductive == WalkSpec => []WalkInv
<1>1. WalkInv /\ [WalkNext]_walkVars => WalkInv'
  <2>1. ASSUME WalkInv, UNCHANGED walkVars PROVE WalkInv'
    <3>1. /\ UNCHANGED <<given, signals, frontier, visited, batch, stopSeen, recorded, lost, ended>>
          /\ UNCHANGED <<seeds, stayOnDomain, stopFile, halted>>
      BY <2>1 DEF walkVars, given, signals
    <3>2. Ahead' = Ahead
      BY <3>1 DEF Ahead
    <3>3. WalkTypes' /\ DoneInv
      BY <2>1, <3>1 DEF WalkInv, WalkTypes
    <3>4. QED BY <2>1, <3>1, <3>2, <3>3, QuietWalk DEF DoneInv
  <2>2. ASSUME WalkInv, WalkNext PROVE WalkInv'
    BY <2>2, StepNextBatch, StepPage, StepSignal, TakeNothing, TakePage DEF WalkNext
  <2>3. QED BY <2>1, <2>2
<1>2. QED BY <1>1, InitWalk, PTL DEF WalkSpec

\* The walk keeps to its types: a link it queues is one level deeper than its
\* page, and no deeper than the limit.
THEOREM WalkTypeCorrect == WalkSpec => []WalkTypeOK
<1>1. ASSUME WalkInv PROVE WalkTypeOK
  <2>1. WalkTypes
    BY <1>1 DEF WalkInv
  <2>2. \A i \in DOMAIN frontier : frontier[i] \in Item
    BY <2>1 DEF WalkTypes
  <2>3. \A i \in DOMAIN batch : batch[i] \in Tasks
    BY <2>1 DEF WalkTypes
  <2>4. QED BY <2>1, <2>2, <2>3 DEF WalkTypes, Tasks, WalkTypeOK
<1>2. QED BY <1>1, WalkInductive, PTL

\* Breadth first, however the fetches overlap: no page is stored deeper than
\* the links of another stored page put it.
THEOREM WalkIsBreadthFirst == WalkSpec => []ShortestDepth
<1>1. ASSUME WalkInv PROVE ShortestDepth
  <2>1. LinkInv
    BY <1>1 DEF WalkInv
  <2>2. ASSUME NEW i \in DOMAIN recorded, NEW j \in DOMAIN recorded,
               recorded[j].url \in Asked(recorded[i])
        PROVE  recorded[j].depth <= recorded[i].depth + 1
    BY <2>1, <2>2 DEF LinkInv, Within
  <2>3. QED BY <2>2 DEF ShortestDepth
<1>2. QED BY <1>1, WalkInductive, PTL

\* A crawl recorded as completed has fetched every seed and every link that it
\* was to follow, but for full domains, whatever the stop file did.
THEOREM CompletedWalks == WalkSpec => []CompletedIsComplete
<1>1. ASSUME WalkInv PROVE CompletedIsComplete
  <2>1. WalkTypes /\ LinkInv /\ DoneInv
    BY <1>1 DEF WalkInv
  <2>2. ASSUME ended = "completed", ~halted
        PROVE  \A u \in visited : Seen(u)
    <3>1. ~stopSeen /\ DOMAIN Ahead = {}
      BY <2>1, <2>2 DEF DoneInv, Ahead
    <3>2. QED BY <2>1, <2>2, <3>1 DEF DoneInv
  <2>3. QED BY <2>1, <2>2 DEF DoneInv, LinkInv, Full, CompletedIsComplete
<1>2. QED BY <1>1, WalkInductive, PTL
=============================================================================
