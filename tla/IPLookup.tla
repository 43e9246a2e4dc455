------------------------------ MODULE IPLookup ------------------------------
(***************************************************************************)
(* Lookups of an address: the request that asks AbuseIPDB and VirusTotal    *)
(* and saves a row; the queue of one thread that fetches the two extra      *)
(* VirusTotal answers at the pace of VT_WINDOW and completes the row; what  *)
(* is kept of them for ten minutes; and the restart that closes rows whose  *)
(* queue is gone.  Every write of a row may fail.  Ids are not reused.      *)
(***************************************************************************)
EXTENDS Naturals, FiniteSets, Sequences, SequencesExt

CONSTANTS
    Lookups,        \* lookups that are asked for
    IpOf,           \* [Lookups -> addresses]
    MaxPending,     \* max_pending of the queue
    MaxCalls,       \* VIRUSTOTAL_PER_MINUTE
    Per             \* ticks of the window

ASSUME LookupAssumption ==
    /\ MaxPending \in Nat \ {0} /\ MaxCalls \in Nat \ {0} /\ Per \in Nat \ {0}
    /\ Lookups \subseteq DOMAIN IpOf

VARIABLES
    request,    \* request[l]: how far the request of l is
    row,        \* row[l]: its row
    pacedQueue, \* lookups whose extras wait for the thread
    pacer,      \* the thread: none, dead, idle, or the lookup it works for
    window,     \* ages of the calls VT_WINDOW counts
    kept,       \* addresses whose extras are cached
    excused     \* history: rows that a failed write, or a stop before the row said
                \* running, has left as they are

lookupVars == <<request, row, pacedQueue, pacer, window, kept, excused>>

NoRow == [status |-> "none", extras |-> "none"]
Row == [status : {"none", "completed", "running"},
        extras : {"none", "pending", "complete", "failed", "skipped"}]
Resting == [for |-> "nobody", at |-> "idle", extras |-> "none"]

LookupTypeOK ==
    /\ request \in [Lookups -> {"new", "saves", "sets", "queues", "skips", "done"}]
    /\ row \in [Lookups -> Row]
    /\ Range(pacedQueue) \subseteq Lookups /\ Len(pacedQueue) <= MaxPending
    /\ pacer.at \in {"none", "idle", "turn", "files", "saves"}
    /\ Len(window) <= MaxCalls /\ \A i \in DOMAIN window : window[i] < Per
    /\ kept \subseteq {IpOf[l] : l \in Lookups} /\ excused \subseteq Lookups

LookupInit ==
    /\ request = [l \in Lookups |-> "new"]
    /\ row = [l \in Lookups |-> NoRow]
    /\ pacedQueue = <<>> /\ pacer = [Resting EXCEPT !.at = "none"]
    /\ window = <<>> /\ kept = {} /\ excused = {}

RequestGoes(l, to) == request' = [request EXCEPT ![l] = to]

\* RateWindow.try_take.  The clock is read just before the lock is taken.
MayTake == Len(window) < MaxCalls
Take == MayTake /\ window' = Append(window, 0)

\* update_ip_investigation: nothing for a row that was deleted, and it may raise.
Update(l, to) ==
    \/ row' = (IF row[l] = NoRow THEN row ELSE [row EXCEPT ![l] = to]) /\ UNCHANGED excused
    \/ excused' = excused \cup {l} /\ UNCHANGED row

\* The main report: cached, or asked for at the cost of a turn; it comes, or does not.
Investigate(l) ==
    /\ request[l] = "new"
    /\ Take \/ UNCHANGED window
    /\ \/ RequestGoes(l, "saves") /\ UNCHANGED row
       \/ /\ RequestGoes(l, "done")
          /\ row' = [row EXCEPT ![l] = [status |-> "completed", extras |-> "none"]]
    /\ UNCHANGED <<pacedQueue, pacer, kept, excused>>

\* The row is saved as completed, with extras that are pending ...
SaveRow(l) ==
    /\ request[l] = "saves"
    /\ \/ /\ RequestGoes(l, "sets")
          /\ row' = [row EXCEPT ![l] = [status |-> "completed", extras |-> "pending"]]
       \/ RequestGoes(l, "done") /\ UNCHANGED row
    /\ UNCHANGED <<pacedQueue, pacer, window, kept, excused>>

\* ... and then set to running; when that raises the request is over.
SetRunning(l) ==
    /\ request[l] = "sets"
    /\ Update(l, [row[l] EXCEPT !.status = "running"])
    /\ RequestGoes(l, IF excused' = excused THEN "queues" ELSE "done")
    /\ UNCHANGED <<pacedQueue, pacer, window, kept>>

Complete(l, extras) == Update(l, [status |-> "completed", extras |-> extras])

\* queue_virustotal_extras: the extras of this address are known, and saved at once ...
ExtrasKnown(l) ==
    /\ request[l] = "queues" /\ IpOf[l] \in kept
    /\ Complete(l, "complete") /\ RequestGoes(l, "done")
    /\ UNCHANGED <<pacedQueue, pacer, window, kept>>

\* ... or they are queued, and a thread is started when there is none; when that fails
\* the request ends, with the lookup in the queue for a later thread ...
Enqueue(l) ==
    /\ request[l] = "queues" /\ IpOf[l] \notin kept /\ Len(pacedQueue) < MaxPending
    /\ pacedQueue' = Append(pacedQueue, l)
    /\ \/ pacer' = IF pacer.at = "none" THEN Resting ELSE pacer
       \/ pacer.at = "none" /\ UNCHANGED pacer
    /\ RequestGoes(l, "done")
    /\ UNCHANGED <<row, window, kept, excused>>

BugAfterFull == "done"
AfterFull == "skips"

\* ... or the queue is full, and the request says so in the row.
Full(l) ==
    /\ request[l] = "queues" /\ IpOf[l] \notin kept /\ Len(pacedQueue) >= MaxPending
    /\ RequestGoes(l, AfterFull)
    /\ UNCHANGED <<row, pacedQueue, pacer, window, kept, excused>>

Skipped(l) ==
    /\ request[l] = "skips"
    /\ Complete(l, "skipped") /\ RequestGoes(l, "done")
    /\ UNCHANGED <<pacedQueue, pacer, window, kept>>

\* The thread takes the next lookup, waits for its turn, and asks for the resolutions;
PacerTakes ==
    /\ pacer.at = "idle" /\ pacedQueue # <<>>
    /\ pacer' = [for |-> Head(pacedQueue), at |-> "turn", extras |-> "none"]
    /\ pacedQueue' = Tail(pacedQueue)
    /\ UNCHANGED <<request, row, window, kept, excused>>

Resolutions ==
    /\ pacer.at = "turn" /\ Take
    /\ \/ \E extras \in {"complete", "failed"} :
             pacer' = [pacer EXCEPT !.at = "files", !.extras = extras]
       \/ pacer' = [pacer EXCEPT !.at = "saves", !.extras = "failed"]
    /\ UNCHANGED <<request, row, pacedQueue, kept, excused>>

\* then for a second turn and the files, unless the first answer could not be read.  What
\* went wrong, an exception included, makes the extras failed.
Files ==
    /\ pacer.at = "files" /\ Take
    /\ \E extras \in {pacer.extras, "failed"} :
          /\ pacer' = [pacer EXCEPT !.at = "saves", !.extras = extras]
          /\ kept' = IF extras = "complete" THEN kept \cup {IpOf[pacer.for]} ELSE kept
    /\ UNCHANGED <<request, row, pacedQueue, excused>>

PacerSaves ==
    /\ pacer.at = "saves"
    /\ Complete(pacer.for, pacer.extras)
    /\ pacer' = Resting
    /\ UNCHANGED <<request, pacedQueue, window, kept>>

Delete(l) ==
    /\ row[l] # NoRow
    /\ row' = [row EXCEPT ![l] = NoRow]
    /\ UNCHANGED <<request, pacedQueue, pacer, window, kept, excused>>

\* A tick.  From the oldest on, calls leave the window (RateWindow._expire).
WindowTick ==
    /\ window # <<>>
    /\ LET aged == [i \in DOMAIN window |-> window[i] + 1] IN
       \E gone \in 0..Len(window) :
          /\ \A i \in 1..gone : aged[i] >= Per
          /\ gone < Len(window) => aged[gone + 1] < Per
          /\ window' = SubSeq(aged, gone + 1, Len(window))
    /\ UNCHANGED <<request, row, pacedQueue, pacer, kept, excused>>

Forget ==
    /\ kept # {} /\ kept' = {}
    /\ UNCHANGED <<request, row, pacedQueue, pacer, window, excused>>

ClosedRow(r) == IF r.status = "running" THEN [status |-> "completed", extras |-> "skipped"] ELSE r

\* The dashboard stops and starts: requests, queue, window and cache are gone, and rows
\* that say running are closed.
LookupRestart ==
    /\ request' = [l \in Lookups |-> IF request[l] = "new" THEN "new" ELSE "done"]
    /\ row' = [l \in Lookups |-> ClosedRow(row[l])]
    /\ excused' = excused \cup {l \in Lookups : request[l] = "sets"}
    /\ pacedQueue' = <<>> /\ pacer' = [Resting EXCEPT !.at = "none"]
    /\ window' = <<>> /\ kept' = {}

LookupNext ==
    \/ \E l \in Lookups :
          \/ Investigate(l) \/ SaveRow(l) \/ SetRunning(l)
          \/ ExtrasKnown(l) \/ Enqueue(l) \/ Full(l) \/ Skipped(l) \/ Delete(l)
    \/ PacerTakes \/ Resolutions \/ Files \/ PacerSaves
    \/ WindowTick \/ Forget \/ LookupRestart

LookupSpec == LookupInit /\ [][LookupNext]_lookupVars

-----------------------------------------------------------------------------
AtWork(l) == request[l] # "done" \/ l \in Range(pacedQueue) \/ pacer.for = l

\* A row that says its extras are pending is one that somebody is still going to complete:
\* its request, the queue or the thread; not one that was forgotten by a full queue, a
\* failed fetch or a restart.  A failed write of the row itself, or a stop between the
\* saving of the row and its being set to running, leaves it pending.
PendingIsAtWork ==
    \A l \in Lookups : row[l].extras = "pending" => AtWork(l) \/ l \in excused
=============================================================================
