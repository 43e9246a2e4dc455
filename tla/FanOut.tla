------------------------------- MODULE FanOut -------------------------------
(***************************************************************************)
(* fan_out: calls from request threads and jobs that share one pool of      *)
(* workers.  An item of a call may make a call of its own, in the thread    *)
(* that runs it.  A call may have a time limit: what runs by then goes on,  *)
(* what has not begun is dropped.                                           *)
(***************************************************************************)
EXTENDS Naturals, FiniteSets, Sequences

CONSTANTS
    Calls,          \* calls of fan_out
    Inner,          \* [Calls -> Seq(Calls \cup {NoInner})]: the items of a call, each
                    \* with the call it makes
    Timed,          \* the calls with a timeout
    Workers,        \* FANOUT_WORKERS
    Parallel,       \* parallel
    NoInner

ASSUME FanOutAssumption ==
    /\ Inner \in [Calls -> Seq(Calls \cup {NoInner})]
    /\ Timed \subseteq Calls /\ Parallel \in Nat \ {0} /\ NoInner \notin Calls

VARIABLES
    fan,        \* fan[c]: where c is; the next item; the permits of its gate; whether
                \* its thread is busy and whether its time is up
    item,       \* item[c][i]: the state of an item
    result,     \* result[c]: the list the items write to
    returned,   \* returned[c]: the list that was returned
    poolQueue,  \* items that wait for a worker
    worker      \* worker[w]: the item it runs, or NoItem

fanVars == <<fan, item, result, returned, poolQueue, worker>>

Items(c) == DOMAIN Inner[c]
NoItem == <<NoInner, 0>>
Callers(c) == {x \in UNION {{p} \X Items(p) : p \in Calls} : Inner[x[1]][x[2]] = c}
Defaults(c) == [i \in Items(c) |-> "default"]

FanTypeOK ==
    /\ \A c \in Calls :
          /\ fan[c].at \in {"idle", "submits", "waits", "inline", "returned"}
          /\ fan[c].next \in 1..(Len(Inner[c]) + 1) /\ fan[c].permits \in 0..Parallel
          /\ fan[c].busy \in BOOLEAN /\ fan[c].late \in BOOLEAN
          /\ item[c] \in [Items(c) -> {"none", "queued", "running", "done", "dropped"}]
          /\ {result[c], returned[c]} \subseteq [Items(c) -> {"default", "value"}]
    /\ \A w \in Workers : worker[w] = NoItem \/ item[worker[w][1]][worker[w][2]] = "running"

FanInit ==
    /\ fan = [c \in Calls |-> [at |-> "idle", next |-> 1, permits |-> Parallel,
                                busy |-> FALSE, late |-> FALSE]]
    /\ item = [c \in Calls |-> [i \in Items(c) |-> "none"]]
    /\ result = [c \in Calls |-> Defaults(c)] /\ returned = result
    /\ poolQueue = <<>> /\ worker = [w \in Workers |-> NoItem]

\* _worker.busy, in the thread that makes the call c: it is a worker.
Busy(c) == \E p \in Callers(c) : (\E w \in Workers : worker[w] = p) \/ fan[p[1]].busy
BugInline(c) == Len(Inner[c]) = 1
Inline(c) == Len(Inner[c]) = 1 \/ Busy(c)

\* A call begins, from its own thread or from an item that runs.
Begin(c) ==
    /\ fan[c].at = "idle"
    /\ Callers(c) # {} => \E p \in Callers(c) : item[p[1]][p[2]] = "running"
    /\ fan' = [fan EXCEPT ![c] = [@ EXCEPT !.at = IF Inline(c) THEN "inline" ELSE "submits",
                                         !.busy = Busy(c)]]
    /\ UNCHANGED <<item, result, returned, poolQueue, worker>>

\* All items are submitted, or the time is up.
AllSubmitted(c) == fan[c].late \/ fan[c].next > Len(Inner[c])

\* The next item waits in the pool, and its permit of the gate is taken.
Hand(c, to) ==
    /\ fan[c].permits > 0
    /\ fan' = [fan EXCEPT ![c] = [@ EXCEPT !.at = to, !.next = fan[c].next + 1,
                                           !.permits = fan[c].permits - 1]]
    /\ item' = [item EXCEPT ![c][fan[c].next] = "queued"]
    /\ poolQueue' = Append(poolQueue, <<c, fan[c].next>>)

\* The next item goes to the pool when the gate has a permit; past the time limit, no more do.
Submit(c) ==
    /\ fan[c].at = "submits"
    /\ IF AllSubmitted(c)
       THEN fan' = [fan EXCEPT ![c].at = "waits"] /\ UNCHANGED <<item, poolQueue>>
       ELSE Hand(c, "submits")
    /\ UNCHANGED <<result, returned, worker>>

\* The pool cannot start a thread for the item, and submit raises: the call ends with the
\* exception, and leaves what it submitted, this item included, to the workers there are.
SubmitFails(c) ==
    /\ fan[c].at = "submits" /\ ~AllSubmitted(c)
    /\ Hand(c, "returned")
    /\ UNCHANGED <<result, returned, worker>>

\* A worker takes what waits longest; what was dropped is no work.
TakeItem(w) ==
    /\ worker[w] = NoItem /\ poolQueue # <<>>
    /\ poolQueue' = Tail(poolQueue)
    /\ LET c == Head(poolQueue)[1]
           i == Head(poolQueue)[2]
       IN IF item[c][i] = "dropped" THEN UNCHANGED <<item, worker>>
          ELSE /\ item' = [item EXCEPT ![c][i] = "running"]
               /\ worker' = [worker EXCEPT ![w] = <<c, i>>]
    /\ UNCHANGED <<fan, result, returned>>

\* An item ends once the call it made, if any, has returned: with a value, or it raised.
ItemEnds(c, i) ==
    /\ Inner[c][i] # NoInner => fan[Inner[c][i]].at = "returned"
    /\ item' = [item EXCEPT ![c][i] = "done"]
    /\ \E r \in {"default", "value"} : result' = [result EXCEPT ![c][i] = r]

WorkerEnds(w) ==
    /\ worker[w] # NoItem
    /\ ItemEnds(worker[w][1], worker[w][2])
    /\ fan' = [fan EXCEPT ![worker[w][1]].permits = @ + 1]
    /\ worker' = [worker EXCEPT ![w] = NoItem]
    /\ UNCHANGED <<returned, poolQueue>>

\* Inline, the items run one after the other; past the time limit none begins.
InlineBegins(c) ==
    /\ fan[c].at = "inline" /\ fan[c].next \in Items(c) /\ item[c][fan[c].next] = "none"
    /\ IF fan[c].late
       THEN /\ item' = [item EXCEPT ![c][fan[c].next] = "dropped"]
            /\ fan' = [fan EXCEPT ![c].next = @ + 1]
       ELSE item' = [item EXCEPT ![c][fan[c].next] = "running"] /\ UNCHANGED fan
    /\ UNCHANGED <<result, returned, poolQueue, worker>>

InlineEnds(c) ==
    /\ fan[c].at = "inline" /\ fan[c].next \in Items(c) /\ item[c][fan[c].next] = "running"
    /\ ItemEnds(c, fan[c].next)
    /\ fan' = [fan EXCEPT ![c].next = @ + 1]
    /\ UNCHANGED <<returned, poolQueue, worker>>

\* wait: everything that was submitted has ended, or time is up; the rest is cancelled.
ReturnList(c) ==
    /\ \/ fan[c].at = "inline" /\ fan[c].next \notin Items(c)
       \/ /\ fan[c].at = "waits"
          /\ fan[c].late \/ \A i \in Items(c) : item[c][i] \in {"none", "done"}
    /\ fan' = [fan EXCEPT ![c].at = "returned"]
    /\ item' = [item EXCEPT ![c] = [i \in Items(c) |-> IF @[i] = "queued" THEN "dropped" ELSE @[i]]]
    /\ returned' = [returned EXCEPT ![c] = result[c]]
    /\ UNCHANGED <<result, poolQueue, worker>>

TimeIsUp(c) ==
    /\ c \in Timed /\ fan[c].at \notin {"idle", "returned"} /\ ~fan[c].late
    /\ fan' = [fan EXCEPT ![c].late = TRUE]
    /\ UNCHANGED <<item, result, returned, poolQueue, worker>>

CallStep(c) == Submit(c) \/ InlineBegins(c) \/ InlineEnds(c) \/ ReturnList(c)
WorkerStep(w) == TakeItem(w) \/ WorkerEnds(w)

FanNext ==
    \/ \E c \in Calls : Begin(c) \/ CallStep(c) \/ TimeIsUp(c) \/ SubmitFails(c)
    \/ \E w \in Workers : WorkerStep(w)

\* Threads run; an item that waits for nothing of this model ends (its requests have
\* timeouts).  No call need be made, and no time limit need be reached.
FanFairness ==
    /\ \A c \in Calls : WF_fanVars(CallStep(c)) /\ WF_fanVars(Callers(c) # {} /\ Begin(c))
    /\ \A w \in Workers : WF_fanVars(WorkerStep(w))

FanSpec == FanInit /\ [][FanNext]_fanVars /\ FanFairness

-----------------------------------------------------------------------------
\* "Work running in the pool must not wait for the pool": every call returns, however
\* few workers there are and whatever calls the items of a call make, or raises.
EveryCallReturns == \A c \in Calls : fan[c].at # "idle" ~> fan[c].at = "returned"

\* What the caller of c holds after it returned: a copy.
BugAnswer(c) == result[c]
Answer(c) == returned[c]

\* "A call that ends after the time limit must not change what was returned."
AnswerStays ==
    [][\A c \in Calls : fan[c].at = "returned" => Answer(c)' = Answer(c)]_fanVars
=============================================================================
