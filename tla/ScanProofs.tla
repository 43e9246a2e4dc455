----------------------------- MODULE ScanProofs -----------------------------
(***************************************************************************)
(* What QuickScan and AlertSender keep, for any number of scans, requests   *)
(* and hits.                                                               *)
(***************************************************************************)
EXTENDS QuickScan, AlertSender, QueueLemmas, TLAPS

-----------------------------------------------------------------------------
(* The rows of the Quick Scans. *)

NotBegun == {"none", "unstarted", "starting", "load", "begin"}

\* A row is not inserted twice.  A thread that has seen the cancel goes on to leave the
\* status as it is; and no thread ends before its row is final.
ScanInv(s) ==
    /\ s > scans => worker[s] = "none"
    /\ seen[s] => worker[s] \notin NotBegun \cup {"complete"}
    /\ seen[s] /\ worker[s] \in LiveSteps \ {"crash"} => status[s] = "cancelled"
    /\ worker[s] = "sync" => status[s] = "cancelled"
    /\ worker[s] = "done" => status[s] \notin Active

\* A request writes the row of a scan; the thread of a scan is started by one request.
ReqInv(r) ==
    /\ req[r].at \in {"spawn", "cancel"} => req[r].sid \in Scans
    /\ req[r].at = "spawn" =>
          /\ worker[req[r].sid] = "unstarted"
          /\ \A q \in Reqs \ {r} : req[q].at = "spawn" => req[q].sid # req[r].sid

QuickInv == ScanTypeOK /\ (\A s \in Scans : ScanInv(s)) /\ \A r \in Reqs : ReqInv(r)

LEMMA InitQuick == ScanInit => QuickInv
<1>1. ScanInit => ScanTypeOK
  BY ScanAssumption DEF ScanInit, ScanTypeOK, Statuses, WorkerSteps, ReqSteps, NoReq
<1>2. QED BY <1>1 DEF ScanInit, QuickInv, ScanInv, ReqInv, NoReq, NotBegun, LiveSteps

\* The types of what a step writes.
LEMMA Writes ==
    ASSUME ScanTypeOK, NEW s \in Scans
    PROVE  /\ \A new \in Statuses : [status EXCEPT ![s] = new] \in [Scans -> Statuses]
           /\ \A to \in WorkerSteps : [worker EXCEPT ![s] = to] \in [Scans -> WorkerSteps]
           /\ \A b \in BOOLEAN : [seen EXCEPT ![s] = b] \in [Scans -> BOOLEAN]
BY DEF ScanTypeOK

\* A step of the thread of scan s.
LEMMA StepScan ==
    ASSUME QuickInv, NEW s \in Scans, ScanStep(s) \/ Crash(s)
    PROVE  /\ ScanTypeOK' /\ UNCHANGED <<scans, req>>
           /\ \A c \in Scans : ScanInv(c)'
           /\ worker[s] \in LiveSteps
           /\ \A c \in Scans \ {s} : worker'[c] = worker[c]
<1> DEFINE Only(w, st, sn) ==
        /\ worker' = [worker EXCEPT ![s] = w] /\ status' = [status EXCEPT ![s] = st]
        /\ seen' = [seen EXCEPT ![s] = sn] /\ UNCHANGED <<scans, req, restarts>>
<1>0. ScanTypeOK /\ (\A c \in Scans : ScanInv(c)) /\ worker = [worker EXCEPT ![s] = worker[s]]
      /\ status = [status EXCEPT ![s] = status[s]] /\ seen = [seen EXCEPT ![s] = seen[s]]
  BY DEF QuickInv, ScanTypeOK
<1>1. ASSUME NEW w \in WorkerSteps, NEW st \in Statuses, NEW sn \in BOOLEAN, Only(w, st, sn),
             worker[s] \in LiveSteps,
             sn => w \notin NotBegun \cup {"complete"},
             sn /\ w \in LiveSteps \ {"crash"} => st = "cancelled",
             w = "sync" => st = "cancelled", w = "done" => st \notin Active
      PROVE  /\ ScanTypeOK' /\ UNCHANGED <<scans, req>>
             /\ \A c \in Scans : ScanInv(c)'
             /\ \A c \in Scans \ {s} : worker'[c] = worker[c]
  <2>1. ScanTypeOK'
    BY <1>0, <1>1 DEF ScanTypeOK
  <2>2. ScanInv(s)'
    BY <1>0, <1>1 DEF ScanTypeOK, ScanInv, LiveSteps
  <2>3. ASSUME NEW c \in Scans \ {s} PROVE ScanInv(c)' /\ worker'[c] = worker[c]
    BY <1>0, <1>1, <2>3 DEF ScanTypeOK, ScanInv
  <2>4. QED BY <1>1, <2>1, <2>2, <2>3
<1>2. \E w \in WorkerSteps, st \in Statuses, sn \in BOOLEAN :
          /\ Only(w, st, sn)
          /\ worker[s] \in LiveSteps
          /\ sn => w \notin NotBegun \cup {"complete"}
          /\ sn /\ w \in LiveSteps \ {"crash"} => st = "cancelled"
          /\ w = "sync" => st = "cancelled"
          /\ w = "done" => st \notin Active
  <2>0. /\ worker[s] \in WorkerSteps /\ status[s] \in Statuses /\ seen[s] \in BOOLEAN
        /\ ScanInv(s)
    BY <1>0 DEF ScanTypeOK
  <2> DEFINE Good(w, st, sn) ==
          /\ w \in WorkerSteps /\ st \in Statuses /\ sn \in BOOLEAN
          /\ Only(w, st, sn)
          /\ worker[s] \in LiveSteps
          /\ sn => w \notin NotBegun \cup {"complete"}
          /\ sn /\ w \in LiveSteps \ {"crash"} => st = "cancelled"
          /\ w = "sync" => st = "cancelled"
          /\ w = "done" => st \notin Active
  <2>1. SUFFICES \E w, st, sn : Good(w, st, sn)
    OBVIOUS
  <2> HIDE DEF Good
  <2> USE <1>0, <2>0
  <2>2. CASE MakeTorClient(s)
    <3>1. Good("load", status[s], seen[s]) \/ Good("lost", status[s], seen[s])
      BY <2>2 DEF MakeTorClient, Goto, Good, ScanInv, NotBegun, LiveSteps, WorkerSteps
    <3>2. QED BY <3>1
  <2>3. CASE Load(s)
    <3>1. Good(IF status[s] = "cancelled" THEN "done" ELSE "begin", status[s], seen[s])
      BY <2>3 DEF Load, Goto, Good, ScanInv, NotBegun, LiveSteps, WorkerSteps, Active
    <3>2. QED BY <3>1
  <2>4. CASE Begin(s)
    <3>1. Good("check", "running", seen[s])
      BY <2>4 DEF Begin, Goto, Write, Good, ScanInv, NotBegun, LiveSteps, WorkerSteps, Statuses, Active
    <3>2. QED BY <3>1
  <2>5. CASE CheckCancel(s)
    <3>1. Good("final", status[s], Cancelled(s)) \/ Good("fetch", status[s], Cancelled(s))
      BY <2>5 DEF CheckCancel, Cancelled, Goto, Good, ScanInv, NotBegun, LiveSteps, WorkerSteps
    <3>2. QED BY <3>1
  <2>6. CASE PageCheck(s)
    <3>1. Good(worker[s], status[s], TRUE)
      BY <2>6 DEF PageCheck, Cancelled, Good, ScanInv, NotBegun, LiveSteps, WorkerSteps
    <3>2. QED BY <3>1
  <2>7. CASE BatchEnds(s)
    <3>1. Good("check", status[s], seen[s]) \/ Good("final", status[s], seen[s])
      BY <2>7 DEF BatchEnds, Goto, Good, ScanInv, NotBegun, LiveSteps, WorkerSteps
    <3>2. QED BY <3>1
  <2>8. CASE FinalCheck(s)
    <3>1. Good(IF Cancelled(s) THEN "sync" ELSE "complete", status[s], Cancelled(s))
      BY <2>8 DEF FinalCheck, Cancelled, Goto, Good, ScanInv, NotBegun, LiveSteps, WorkerSteps
    <3>2. QED BY <3>1
  <2>9. CASE Sync(s)
    <3>1. Good("done", status[s], seen[s])
      BY <2>9 DEF Sync, Goto, Good, ScanInv, NotBegun, LiveSteps, WorkerSteps, Active
    <3>2. QED BY <3>1
  <2>10. CASE Complete(s)
    <3>1. Good("done", "completed", seen[s])
      BY <2>10 DEF Complete, Goto, Write, Good, ScanInv, NotBegun, LiveSteps, WorkerSteps, Active,
         Statuses
    <3>2. QED BY <3>1
  <2>11. CASE ReportCrash(s)
    <3>1. Good("done", "failed", seen[s]) \/ Good("lost", status[s], seen[s])
      BY <2>11 DEF ReportCrash, Goto, Write, Good, ScanInv, NotBegun, LiveSteps, WorkerSteps, Active,
         Statuses
    <3>2. QED BY <3>1
  <2>12. CASE Crash(s)
    <3>1. Good("crash", status[s], seen[s])
      BY <2>12 DEF Crash, Goto, Good, ScanInv, NotBegun, LiveSteps, WorkerSteps
    <3>2. QED BY <3>1
  <2>13. QED
    BY <2>2, <2>3, <2>4, <2>5, <2>6, <2>7, <2>8, <2>9, <2>10, <2>11, <2>12 DEF ScanStep
<1>3. QED BY <1>1, <1>2

LEMMA ServeIs ==
    ASSUME ScanTypeOK, NEW r \in Reqs, NEW step \in ReqSteps, NEW s \in 0..MaxScans,
           req' = [req EXCEPT ![r] = [at |-> step, sid |-> s]]
    PROVE  /\ req' \in [Reqs -> [at : ReqSteps, sid : 0..MaxScans]]
           /\ req'[r].at = step /\ req'[r].sid = s
           /\ \A q \in Reqs \ {r} : req'[q] = req[q]
BY DEF ScanTypeOK

LEMMA AnswerIs ==
    ASSUME ScanTypeOK, NEW r \in Reqs, Answer(r)
    PROVE  /\ req' \in [Reqs -> [at : ReqSteps, sid : 0..MaxScans]]
           /\ req'[r].at = "idle"
           /\ \A q \in Reqs \ {r} : req'[q] = req[q]
<1>1. 0 \in 0..MaxScans
  BY ScanAssumption
<1>2. QED BY <1>1, ServeIs DEF Answer, NoReq, ReqSteps

\* A step that leaves the rows and the threads to others.
LEMMA RowsKept ==
    ASSUME QuickInv, UNCHANGED <<scans, status, worker, seen, restarts>>,
           req' \in [Reqs -> [at : ReqSteps, sid : 0..MaxScans]],
           \A r \in Reqs : ReqInv(r)'
    PROVE  QuickInv'
BY DEF QuickInv, ScanTypeOK, ScanInv

\* A request that answers is no longer about any scan.
LEMMA Answered ==
    ASSUME QuickInv, NEW r \in Reqs, Answer(r),
           \A q \in Reqs \ {r} : req[q].at = "spawn" => worker'[req[q].sid] = worker[req[q].sid]
    PROVE  \A q \in Reqs : ReqInv(q)'
BY AnswerIs DEF QuickInv, ReqInv

LEMMA StepRequest ==
    ASSUME QuickInv, NEW r \in Reqs,
           \/ StartStep(r) \/ CancelWrites(r)
           \/ \E s \in Scans : CancelReads(r, s)
    PROVE  QuickInv'
<1>0. ScanTypeOK /\ (\A c \in Scans : ScanInv(c)) /\ (\A q \in Reqs : ReqInv(q))
      /\ MaxScans \in Nat
  BY ScanAssumption DEF QuickInv
<1>1. CASE CheckActive(r)
  <2>0. 0 \in 0..MaxScans
    BY <1>0
  <2>1. /\ req' \in [Reqs -> [at : ReqSteps, sid : 0..MaxScans]]
        /\ req'[r].at = "create" /\ \A q \in Reqs \ {r} : req'[q] = req[q]
    BY <1>0, <1>1, <2>0, ServeIs DEF CheckActive, Serve, ReqSteps
  <2>2. \A q \in Reqs : ReqInv(q)'
    BY <1>0, <1>1, <2>1 DEF CheckActive, ReqInv
  <2>3. QED BY <1>1, <2>1, <2>2, RowsKept DEF CheckActive
<1>2. CASE Create(r)
  <2>1. /\ scans \in Nat /\ scans < MaxScans /\ scans + 1 \in Scans /\ scans + 1 \in 0..MaxScans
        /\ worker[scans + 1] = "none" /\ ~seen[scans + 1]
    BY <1>0, <1>2 DEF Create, ScanTypeOK, Scans, ScanInv, NotBegun
  <2>2. /\ req' \in [Reqs -> [at : ReqSteps, sid : 0..MaxScans]]
        /\ req'[r].at = "spawn" /\ req'[r].sid = scans + 1
        /\ \A q \in Reqs \ {r} : req'[q] = req[q]
    BY <1>0, <1>2, <2>1, ServeIs DEF Create, Serve, ReqSteps
  <2>3. /\ worker' \in [Scans -> WorkerSteps] /\ status' \in [Scans -> Statuses]
        /\ worker'[scans + 1] = "unstarted"
        /\ \A c \in Scans \ {scans + 1} : worker'[c] = worker[c] /\ status'[c] = status[c]
        /\ UNCHANGED <<seen, restarts>> /\ scans' = scans + 1
    BY <1>0, <1>2, <2>1 DEF Create, ScanTypeOK, WorkerSteps, Statuses, Active
  <2>4. ScanTypeOK'
    BY <1>0, <2>1, <2>2, <2>3 DEF ScanTypeOK
  <2>5. ASSUME NEW c \in Scans PROVE ScanInv(c)'
    <3>1. CASE c = scans + 1
      BY <2>1, <2>3, <3>1 DEF ScanInv, LiveSteps
    <3>2. CASE c # scans + 1
      <4>1. c > scans' => c > scans
        BY <2>1, <2>3 DEF Scans
      <4>2. QED BY <1>0, <2>3, <3>2, <4>1 DEF ScanInv
    <3>3. QED BY <3>1, <3>2
  <2>6. ASSUME NEW q \in Reqs PROVE ReqInv(q)'
    <3>1. ASSUME NEW p \in Reqs \ {r}, req[p].at = "spawn" PROVE req[p].sid # scans + 1
      BY <1>0, <2>1, <3>1 DEF ReqInv
    <3>2. QED BY <1>0, <2>1, <2>2, <2>3, <3>1 DEF ReqInv
  <2>7. QED BY <2>4, <2>5, <2>6 DEF QuickInv
<1>3. CASE CreateRefused(r)
  <2>1. Answer(r) /\ UNCHANGED <<scans, status, worker, seen, restarts>>
    BY <1>3 DEF CreateRefused
  <2>2. QED BY <1>0, <2>1, AnswerIs, Answered, RowsKept
<1>4. CASE Spawn(r)
  <2>1. Answer(r) /\ UNCHANGED <<scans, status, seen, restarts>>
    BY <1>4 DEF Spawn
  <2>2. req[r].sid \in Scans /\ worker[req[r].sid] = "unstarted"
        /\ \A q \in Reqs \ {r} : req[q].at = "spawn" => req[q].sid # req[r].sid
    BY <1>0, <1>4 DEF Spawn, ReqInv
  <2>3. /\ worker' \in [Scans -> WorkerSteps]
        /\ worker'[req[r].sid] \in {"starting", "lost"}
        /\ \A c \in Scans \ {req[r].sid} : worker'[c] = worker[c]
    BY <1>0, <1>4, <2>2 DEF Spawn, ScanTypeOK, WorkerSteps, LiveSteps
  <2>4. ScanTypeOK'
    BY <1>0, <2>1, <2>3, AnswerIs DEF ScanTypeOK
  <2>5. \A c \in Scans : ScanInv(c)'
    BY <1>0, <2>1, <2>2, <2>3 DEF ScanInv, NotBegun
  <2>6. ASSUME NEW q \in Reqs \ {r}, req[q].at = "spawn"
        PROVE  worker'[req[q].sid] = worker[req[q].sid]
    BY <1>0, <2>2, <2>3, <2>6 DEF ReqInv
  <2>7. QED BY <2>1, <2>4, <2>5, <2>6, Answered DEF QuickInv
<1>5. CASE CancelWrites(r)
  <2>1. Answer(r) /\ UNCHANGED <<scans, worker, seen, restarts>> /\ req[r].sid \in Scans
    BY <1>0, <1>5 DEF CancelWrites, ReqInv
  <2>2. /\ status' \in [Scans -> Statuses]
        /\ \A c \in Scans : status'[c] \in {status[c], "cancelled"}
    BY <1>0, <1>5, <2>1 DEF CancelWrites, ScanTypeOK, Statuses
  <2>3. ScanTypeOK'
    BY <1>0, <2>1, <2>2, AnswerIs DEF ScanTypeOK
  <2>4. \A c \in Scans : ScanInv(c)'
    BY <1>0, <2>1, <2>2 DEF ScanInv, Active
  <2>5. QED BY <2>1, <2>3, <2>4, Answered DEF QuickInv
<1>6. ASSUME NEW s \in Scans, CancelReads(r, s) PROVE QuickInv'
  <2>1. s \in 0..MaxScans
    BY <1>0 DEF Scans
  <2>2. /\ req' \in [Reqs -> [at : ReqSteps, sid : 0..MaxScans]]
        /\ req'[r].at = "cancel" /\ req'[r].sid = s /\ \A q \in Reqs \ {r} : req'[q] = req[q]
    BY <1>0, <1>6, <2>1, ServeIs DEF CancelReads, Serve, ReqSteps
  <2>3. \A q \in Reqs : ReqInv(q)'
    BY <1>0, <1>6, <2>2 DEF CancelReads, ReqInv
  <2>4. QED BY <1>6, <2>2, <2>3, RowsKept DEF CancelReads
<1>7. QED BY <1>1, <1>2, <1>3, <1>4, <1>5, <1>6 DEF StartStep

LEMMA StepRestart ==
    ASSUME QuickInv, Restart
    PROVE  /\ QuickInv' /\ UNCHANGED seen
           /\ \A s \in Scans : status[s] = "cancelled" => status'[s] = "cancelled"
<1>0. ScanTypeOK /\ (\A c \in Scans : ScanInv(c))
  BY DEF QuickInv
<1>1. /\ status' \in [Scans -> Statuses] /\ worker' \in [Scans -> WorkerSteps]
      /\ UNCHANGED <<scans, seen>>
      /\ \A s \in Scans : status'[s] \in {status[s], "failed"} /\ (status[s] \notin Active => status'[s] = status[s])
      /\ \A s \in Scans : \/ worker'[s] = worker[s] /\ worker[s] \notin LiveSteps
                          \/ worker'[s] = "done" /\ status'[s] \notin Active /\ worker[s] # "none"
                          \/ worker'[s] = "lost" /\ worker[s] # "none"
  <2>1. CASE /\ status' = [s \in Scans |-> Closed(s)]
             /\ worker' = Stopped("done")
    BY <1>0, <2>1 DEF Restart, Stopped, Closed, ScanTypeOK, HoldsSlotSteps, WorkerSteps, Statuses, Active,
       LiveSteps
  <2>2. CASE worker' = Stopped("lost") /\ UNCHANGED status
    BY <1>0, <2>2 DEF Restart, Stopped, ScanTypeOK, HoldsSlotSteps, WorkerSteps, LiveSteps
  <2>3. QED BY <2>1, <2>2 DEF Restart
<1>2. 0 \in 0..MaxScans
  BY ScanAssumption
<1>3. req' \in [Reqs -> [at : ReqSteps, sid : 0..MaxScans]] /\ \A r \in Reqs : req'[r].at = "idle"
  BY <1>2 DEF Restart, NoReq, ReqSteps
<1>4. restarts' \in 0..MaxRestarts
  BY <1>0, ScanAssumption DEF Restart, ScanTypeOK
<1>5. ScanTypeOK'
  BY <1>0, <1>1, <1>3, <1>4 DEF ScanTypeOK
<1>6. \A s \in Scans : ScanInv(s)'
  BY <1>0, <1>1 DEF ScanInv, NotBegun, LiveSteps, Active
<1>7. \A r \in Reqs : ReqInv(r)'
  BY <1>3 DEF ReqInv
<1>8. \A s \in Scans : status[s] = "cancelled" => status'[s] = "cancelled"
  BY <1>1 DEF Active
<1>9. QED BY <1>1, <1>5, <1>6, <1>7, <1>8 DEF QuickInv

LEMMA StepQuick ==
    ASSUME QuickInv, [ScanNext]_scanVars
    PROVE  QuickInv'
<1>1. ASSUME NEW s \in Scans, ScanStep(s) \/ Crash(s) PROVE QuickInv'
  <2>1. /\ ScanTypeOK' /\ UNCHANGED <<scans, req>> /\ (\A c \in Scans : ScanInv(c)')
        /\ worker[s] \in LiveSteps /\ \A c \in Scans \ {s} : worker'[c] = worker[c]
    BY <1>1, StepScan
  <2>2. \A r \in Reqs : ReqInv(r)'
    BY <2>1 DEF QuickInv, ReqInv, LiveSteps
  <2>3. QED BY <2>1, <2>2 DEF QuickInv
<1>2. CASE UNCHANGED scanVars
  BY <1>2 DEF scanVars, QuickInv, ScanTypeOK, ScanInv, ReqInv
<1>3. QED BY <1>1, <1>2, StepRequest, StepRestart DEF ScanNext

LEMMA QuickInvHolds == ScanSpec => []QuickInv
BY InitQuick, StepQuick, PTL DEF ScanSpec

\* Each of the variables of the Quick Scans has its type.
THEOREM QuickTypeCorrect == ScanSpec => []ScanTypeOK
BY QuickInvHolds, PTL DEF QuickInv

\* A thread that ended has made its row final, whatever cancels, crashes and restarts came
\* between: only a thread that was lost leaves a row that waits for it.
THEOREM EndedIsFinal == ScanSpec => []GoneMeansFinal
<1>1. QuickInv => GoneMeansFinal
  BY DEF QuickInv, ScanInv, GoneMeansFinal
<1>2. QED BY <1>1, QuickInvHolds, PTL

\* Once the thread has seen the cancel the status stays the cancel's, but for a crash.
THEOREM SeenCancelStays == ScanSpec => SeenCancelIsKept
<1>1. ASSUME QuickInv, [ScanNext]_scanVars, NEW s \in Scans,
             seen[s] /\ status[s] = "cancelled" /\ worker[s] # "crash"
      PROVE  status'[s] = "cancelled"
  <2>0. ScanTypeOK /\ ScanInv(s) /\ \A q \in Reqs : ReqInv(q)
    BY <1>1 DEF QuickInv
  <2>1. CASE UNCHANGED status
    BY <1>1, <2>1
  <2>2. ASSUME NEW c \in Scans, NEW new,
               \/ Begin(c) /\ new = "running"
               \/ Complete(c) /\ new = "completed"
               \/ Goto(c, "crash", "done") /\ Write(c, new)
        PROVE  status'[s] = status[s]
    BY <1>1, <2>0, <2>2 DEF Begin, Complete, Goto, Write, ScanTypeOK, ScanInv, NotBegun
  <2>3. ASSUME NEW c \in Scans, ScanStep(c) \/ Crash(c) PROVE status'[s] = "cancelled"
    <3>1. \/ UNCHANGED status
          \/ Begin(c) \/ Complete(c)
          \/ Goto(c, "crash", "done") /\ Write(c, "failed")
      BY <2>3 DEF ScanStep, Crash, MakeTorClient, Load, CheckCancel, PageCheck, BatchEnds, FinalCheck, Sync,
         ReportCrash
    <3>2. QED BY <1>1, <2>2, <3>1
  <2>4. ASSUME NEW r \in Reqs, StartStep(r) \/ CancelWrites(r) \/ \E c \in Scans : CancelReads(r, c)
        PROVE  status'[s] = "cancelled"
    <3>1. CASE Create(r)
      <4>1. scans \in Nat
        BY <2>0, ScanAssumption DEF ScanTypeOK
      <4>2. s # scans + 1
        BY <1>1, <2>0, <4>1 DEF ScanInv, NotBegun, Scans
      <4>3. QED BY <1>1, <2>0, <3>1, <4>2 DEF Create, ScanTypeOK
    <3>2. CASE CancelWrites(r)
      BY <1>1, <2>0, <3>2 DEF CancelWrites, ScanTypeOK
    <3>3. CASE ~Create(r) /\ ~CancelWrites(r)
      BY <1>1, <2>4, <3>3 DEF StartStep, CheckActive, CreateRefused, Spawn, CancelReads
    <3>4. QED BY <3>1, <3>2, <3>3
  <2>5. QED BY <1>1, <2>1, <2>3, <2>4, StepRestart DEF ScanNext, scanVars
<1>2. QuickInv /\ [ScanNext]_scanVars =>
          [\A s \in Scans : seen[s] /\ status[s] = "cancelled" /\ worker[s] # "crash"
             => status'[s] = "cancelled"]_scanVars
  BY <1>1
<1>3. QED BY <1>2, QuickInvHolds, PTL DEF ScanSpec, SeenCancelIsKept

-----------------------------------------------------------------------------
(* The alerts of the hits. *)

\* The alerts that were tried, are being sent, or wait.
UnderWay == sent \cup Range(jobs) \cup {sending}

\* A hit is marked when its alert is under way, and from then on it is.  What is pending is
\* counted exactly, so that a wait for none left has waited for all of them.
AlertInv ==
    /\ AlertTypeOK
    /\ pending = Len(jobs) + (IF sending = 0 THEN 0 ELSE 1)
    /\ at \in {"saves", "alerts", "marks"} => found > 0
    /\ marked \subseteq UnderWay /\ (at = "marks" => found \in UnderWay)
    /\ process = "flushed" => marked \subseteq sent

LEMMA InitAlert == AlertInit => AlertInv
BY AlertAssumption DEF AlertInit, AlertInv, AlertTypeOK, UnderWay

LEMMA StepAlert ==
    ASSUME AlertInv, [AlertNext]_alertVars
    PROVE  AlertInv'
<1> USE AlertAssumption DEF AlertInv
<1>0. jobs \in Seq(1..Hits) /\ Len(jobs) \in Nat /\ Hits \in Nat /\ found \in Nat /\ found <= Hits
  BY DEF AlertTypeOK
<1>1. CASE UNCHANGED alertVars
  BY <1>1 DEF alertVars, sender, AlertTypeOK, UnderWay
<1>2. CASE Find \/ SaveHit
  <2>1. found' \in 0..Hits /\ at' \in {"scans", "saves", "alerts", "done"}
        /\ (at' \in {"saves", "alerts"} => found' > 0)
    BY <1>0, <1>2 DEF Find, SaveHit
  <2>2. UNCHANGED <<sender, sending, sent, marked, process>>
    BY <1>2 DEF Find, SaveHit
  <2>3. QED BY <2>1, <2>2 DEF sender, AlertTypeOK, UnderWay
<1>3. CASE Drop
  BY <1>3 DEF Drop, AfterDrop, sender, AlertTypeOK, UnderWay
<1>4. CASE Submit
  <2>1. /\ jobs' \in Seq(1..Hits) /\ Len(jobs') = Len(jobs) + 1
        /\ Range(jobs') = Range(jobs) \cup {found}
    BY <1>0, <1>4, QueueGrows DEF Submit
  <2>2. Len(jobs') <= MaxSize
    BY <1>0, <1>4, <2>1 DEF Submit, Dropped
  <2>3. AlertTypeOK'
    BY <1>4, <2>1, <2>2 DEF Submit, AlertTypeOK
  <2>4. pending' = Len(jobs') + (IF sending' = 0 THEN 0 ELSE 1)
    BY <1>0, <1>4, <2>1 DEF Submit
  <2>5. QED BY <1>4, <2>1, <2>3, <2>4 DEF Submit, UnderWay
<1>5. CASE Mark
  <2>1. /\ marked' \subseteq marked \cup {found} /\ at' \in {"scans", "done"} /\ process = "runs"
        /\ UNCHANGED <<found, sender, sending, sent, process>> /\ found \in UnderWay
        /\ found \in 1..Hits
    BY <1>0, <1>5 DEF Mark
  <2>2. QED BY <2>1 DEF sender, AlertTypeOK, UnderWay
<1>6. CASE TakeJob
  <2>1. /\ jobs' \in Seq(1..Hits) /\ Len(jobs') = Len(jobs) - 1 /\ sending' \in 1..Hits
        /\ Range(jobs) = Range(jobs') \cup {sending'}
    BY <1>0, <1>6, QueueShrinks DEF TakeJob
  <2>2. AlertTypeOK'
    BY <1>0, <1>6, <2>1 DEF TakeJob, AlertTypeOK
  <2>3. pending' = Len(jobs') + (IF sending' = 0 THEN 0 ELSE 1)
    BY <1>0, <1>6, <2>1 DEF TakeJob
  <2>4. 0 \notin marked
    BY DEF AlertTypeOK
  <2>5. sent' = sent /\ UnderWay \subseteq UnderWay' \cup {0}
    BY <1>6, <2>1 DEF TakeJob, UnderWay
  <2>6. QED BY <1>0, <1>6, <2>2, <2>3, <2>4, <2>5 DEF TakeJob, Alive
<1>7. CASE Send
  <2>1. UnderWay \subseteq UnderWay' /\ sending \in 1..Hits
    BY <1>7 DEF Send, UnderWay, AlertTypeOK
  <2>2. AlertTypeOK'
    BY <1>7, <2>1 DEF Send, AlertTypeOK
  <2>3. pending' = Len(jobs') + (IF sending' = 0 THEN 0 ELSE 1)
    BY <1>0, <1>7, <2>1 DEF Send
  <2>4. QED BY <1>7, <2>1, <2>2, <2>3 DEF Send, Alive
<1>8. CASE Exit \/ Flush \/ Kill
  <2>1. UNCHANGED <<found, at, jobs, pending, thread, sending, sent, marked>>
        /\ process' \in {"flushes", "flushed", "expired", "killed"}
        /\ (process' = "flushed" => pending = 0)
    BY <1>8 DEF Exit, Flush, Kill, sender
  <2>2. ASSUME pending = 0 PROVE marked \subseteq sent
    <3>1. jobs = <<>> /\ sending = 0
      BY <1>0, <2>2
    <3>2. QED BY <3>1 DEF AlertTypeOK, UnderWay, Range
  <2>3. QED BY <2>1, <2>2 DEF AlertTypeOK, UnderWay
<1>9. QED
  BY <1>1, <1>2, <1>3, <1>4, <1>5, <1>6, <1>7, <1>8 DEF AlertNext

\* Each of the variables of the sender has its type.
THEOREM AlertTypeCorrect == AlertSpec => []AlertTypeOK
BY InitAlert, StepAlert, PTL DEF AlertSpec, AlertInv

\* A row marked as alerted is one whose alert waits, is being sent, or was tried, and no
\* alert is lost when the process waits for the queue at its end.
THEOREM MarkedWasTried == AlertSpec => []MarkedIsTried
<1>1. AlertInv => MarkedIsTried
  BY DEF AlertInv, UnderWay, MarkedIsTried
<1>2. QED BY <1>1, InitAlert, StepAlert, PTL DEF AlertSpec

=============================================================================
