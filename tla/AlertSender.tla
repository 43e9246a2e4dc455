----------------------------- MODULE AlertSender -----------------------------
(***************************************************************************)
(* The alerts of a command that scans: for every hit of a page its row, the *)
(* projects it matches, the alert it queues and the mark in the row; the    *)
(* one thread that sends what is queued; and the bounded wait at the end of *)
(* the process.  Hits are numbered in the order they are found.  A process  *)
(* with no channel to alert on queues nothing and is left out.              *)
(***************************************************************************)
EXTENDS Integers, FiniteSets, Sequences, SequencesExt

CONSTANTS
    Hits,       \* how many hits there are
    MaxSize     \* ALERT_QUEUE_SIZE

ASSUME AlertAssumption == Hits \in Nat /\ MaxSize \in Nat \ {0}

VARIABLES
    found,      \* hits found so far
    at,         \* where the scan is with the last of them
    jobs,       \* _jobs: hits to alert for
    pending,    \* _pending: waiting or being sent
    thread,     \* _thread: none, not started, or alive
    sending,    \* what the thread sends, 0: nothing
    sent,       \* hits whose alert was tried
    marked,     \* rows with alerted
    process     \* the process: it runs, waits for the queue, or is gone

alertVars == <<found, at, jobs, pending, thread, sending, sent, marked, process>>
sender == <<jobs, pending, thread>>

AlertTypeOK ==
    /\ found \in 0..Hits /\ at \in {"scans", "saves", "alerts", "marks", "done"}
    /\ jobs \in Seq(1..Hits) /\ Len(jobs) <= MaxSize
    /\ pending \in Int /\ thread \in {"none", "dead", "alive"}
    /\ sending \in 0..Hits /\ sent \subseteq 1..Hits /\ marked \subseteq 1..Hits
    /\ process \in {"runs", "flushes", "flushed", "expired", "killed"}

AlertInit ==
    /\ found = 0 /\ at = "scans"
    /\ jobs = <<>> /\ pending = 0 /\ thread = "none" /\ sending = 0
    /\ sent = {} /\ marked = {} /\ process = "runs"

\* The next hit, or the scan is done.
Find ==
    /\ process = "runs" /\ at = "scans"
    /\ \/ found < Hits /\ found' = found + 1 /\ at' = "saves"
       \/ at' = "done" /\ UNCHANGED found
    /\ UNCHANGED <<sender, sending, sent, marked, process>>

\* save_hit may raise: the scan is given up.  match_hit_to_projects never does.
SaveHit ==
    /\ process = "runs" /\ at = "saves"
    /\ at' \in {"alerts", "done"}
    /\ UNCHANGED <<found, sender, sending, sent, marked, process>>

BugAfterDrop == "marks"
AfterDrop == "scans"
Dropped == Len(jobs) >= MaxSize

\* The queue is full: the alert is dropped and the row is not marked.
Drop ==
    /\ process = "runs" /\ at = "alerts" /\ Dropped
    /\ at' = AfterDrop
    /\ UNCHANGED <<found, sender, sending, sent, marked, process>>

\* submit: when there is no live thread one is started; if that fails alert answers False,
\* with the alert in the queue for a later thread.
Submit ==
    /\ process = "runs" /\ at = "alerts" /\ ~Dropped
    /\ jobs' = Append(jobs, found) /\ pending' = pending + 1
    /\ \/ thread' = "alive" /\ at' = "marks"
       \/ thread # "alive" /\ thread' = "dead" /\ at' = "scans"
    /\ UNCHANGED <<found, sending, sent, marked, process>>

\* mark_alerted may raise: the scan is given up.
Mark ==
    /\ process = "runs" /\ at = "marks"
    /\ \/ marked' = marked \cup {found} /\ at' = "scans"
       \/ at' = "done" /\ UNCHANGED marked
    /\ UNCHANGED <<found, sender, sending, sent, process>>

Alive == process \in {"runs", "flushes"} /\ thread = "alive"

\* The thread takes the oldest alert ...
TakeJob ==
    /\ Alive /\ sending = 0 /\ jobs # <<>>
    /\ sending' = Head(jobs) /\ jobs' = Tail(jobs)
    /\ UNCHANGED <<found, at, pending, thread, sent, marked, process>>

\* ... and sends it on every channel, each of which may fail.
Send ==
    /\ Alive /\ sending # 0
    /\ sent' = sent \cup {sending} /\ sending' = 0
    /\ pending' = pending - 1
    /\ UNCHANGED <<found, at, jobs, thread, marked, process>>

\* _flush_at_exit: at the end of the process, a bounded wait for what is pending.
Exit ==
    /\ process = "runs" /\ at = "done"
    /\ process' = IF pending = 0 THEN "flushed" ELSE "flushes"
    /\ UNCHANGED <<found, at, sender, sending, sent, marked>>

Flush ==
    /\ process = "flushes"
    /\ process' \in {IF pending = 0 THEN "flushed" ELSE "flushes", "expired"}
    /\ UNCHANGED <<found, at, sender, sending, sent, marked>>

Kill ==
    /\ process \in {"runs", "flushes"} /\ process' = "killed"
    /\ UNCHANGED <<found, at, sender, sending, sent, marked>>

AlertNext ==
    \/ Find \/ SaveHit \/ Drop \/ Submit \/ Mark \/ TakeJob \/ Send \/ Exit \/ Flush \/ Kill

AlertSpec == AlertInit /\ [][AlertNext]_alertVars

-----------------------------------------------------------------------------
\* A row marked as alerted is one whose alert waits, is being sent, or was tried; and when
\* the process ends without giving up its wait, nothing marked was left unsent: no alert
\* is lost between the queue, the thread and the exit.
MarkedIsTried ==
    /\ process \in {"runs", "flushes"} => marked \subseteq sent \cup Range(jobs) \cup {sending}
    /\ process = "flushed" => marked \subseteq sent
=============================================================================
