--------------------------- MODULE UpstreamCache ---------------------------
(***************************************************************************)
(* TTLCache: answers of third parties, one fetch at a time per key, with   *)
(* an ordered table that is cut to max_entries.  The threads that ask hold *)
(* references to entries that the table may have dropped meanwhile.  What  *)
(* one thread does under the cache's lock is one step; the fetch itself    *)
(* runs without the lock.                                                  *)
(***************************************************************************)
EXTENDS Integers, Sequences

CONSTANTS
    Threads,        \* the threads that call get
    Keys,
    Entries,        \* identities for _Entry objects, and the key
    KeyOf,          \* that each can stand for
    MaxEntries,     \* max_entries
    TTL,            \* ttl, stale_for and error_ttl in ticks of the clock
    StaleFor,
    ErrorTTL

NoOne == "nobody"

ASSUME ConstantsAssumption ==
    /\ NoOne \notin Threads \cup Entries
    /\ KeyOf \in [Entries -> Keys]
    /\ MaxEntries \in Nat \ {0}
    /\ TTL \in Nat
    /\ StaleFor \in Nat
    /\ ErrorTTL \in Nat

VARIABLES
    order,      \* _entries: the entries in it, least recently asked for first
    entry,      \* entry[e]: the _Entry object e
    call        \* call[t]: what thread t is doing inside get

vars == <<order, entry, call>>

\* age: ticks since fetched_at; failed: ticks since failed_at.
Entry == [has : BOOLEAN, age : 0..TTL + StaleFor, failed : 0..ErrorTTL,
          flight : Threads \cup {NoOne}]

\* on: the thread whose fetch is waited for; well: that fetch returned.
Call == [at : {"idle", "fetch", "signal", "wait", "woken", "answer", "default"},
         entry : Entries \cup {NoOne}, on : Threads \cup {NoOne}, well : BOOLEAN]

NewEntry == [has |-> FALSE, age |-> 0, failed |-> ErrorTTL, flight |-> NoOne]
NoCall == [at |-> "idle", entry |-> NoOne, on |-> NoOne, well |-> FALSE]

\* The table is a dict: one entry per key.
TypeOK ==
    /\ order \in Seq(Entries)
    /\ \A i, j \in DOMAIN order : KeyOf[order[i]] = KeyOf[order[j]] => i = j
    /\ entry \in [Entries -> Entry]
    /\ call \in [Threads -> Call]

-----------------------------------------------------------------------------
(* Entries. *)

InDate(e) == e.has /\ e.age < TTL
Usable(e) == e.has /\ e.age < TTL + StaleFor
BackingOff(e) == e.failed < ErrorTTL
Flying(e) == e.flight # NoOne

InTable == {order[i] : i \in DOMAIN order}
Known(k) == {e \in InTable : KeyOf[e] = k}

\* An entry that neither the table nor a call refers to is gone.
Referred(ord, calls) ==
    {ord[i] : i \in DOMAIN ord} \cup {calls[t].entry : t \in Threads}
Collected(ents, ord, calls) ==
    [e \in Entries |-> IF e \in Referred(ord, calls) THEN ents[e] ELSE NewEntry]
Free(k) == {e \in Entries : KeyOf[e] = k} \ Referred(order, call)

\* move_to_end for the entry at i
MovedToEnd(i) ==
    [j \in DOMAIN order |-> IF j < i THEN order[j]
                            ELSE IF j < Len(order) THEN order[j + 1] ELSE order[i]]

BugDroppable(ord, n) == n = 0 \/ n <= Len(ord) - MaxEntries

\* The n oldest entries of ord can go: the table is too long without the last
\* of them, and none is being fetched.
Droppable(ord, n) ==
    /\ n = 0 \/ n <= Len(ord) - MaxEntries
    /\ \A i \in 1..n : ~Flying(entry[ord[i]])

\* The loop of get drops as many as can go, from the oldest on.
CutTo(ord) ==
    \E n \in 0..Len(ord) :
        /\ Droppable(ord, n)
        /\ \A m \in 0..Len(ord) : Droppable(ord, m) => m <= n
        /\ order' = SubSeq(ord, n + 1, Len(ord))

-----------------------------------------------------------------------------
(* get, under the lock: the thread finds the entry of its key, or makes one, *)
(* and is served, joins the fetch in flight, or fetches.                     *)

Idle(t) == call[t].at = "idle"
Fetching(e) == [NoCall EXCEPT !.at = "fetch", !.entry = e]
WaitingOn(u, e) == [NoCall EXCEPT !.at = "wait", !.entry = e, !.on = u]

\* No entry: a new one, and the table is cut.
Miss(t, k) ==
    /\ Idle(t)
    /\ Known(k) = {}
    /\ Free(k) # {}
    /\ LET e == CHOOSE x \in Free(k) : TRUE
       IN /\ CutTo(Append(order, e))
          /\ call' = [call EXCEPT ![t] = Fetching(e)]
          /\ entry' = Collected([entry EXCEPT ![e] = [NewEntry EXCEPT !.flight = t]],
                                order', call')

\* The entry at i is k's and thread t asks for it.
Asks(t, k, i) ==
    /\ Idle(t)
    /\ KeyOf[order[i]] = k
    /\ order' = MovedToEnd(i)

\* Served at once: an answer in date, the service is left alone, or an answer
\* to give (if it is not too old) while somebody fetches.
AtOnce(e) == InDate(e) \/ BackingOff(e) \/ (Flying(e) /\ e.has)

Served(t, k) ==
    /\ \E i \in DOMAIN order : Asks(t, k, i) /\ AtOnce(entry[order[i]])
    /\ UNCHANGED <<entry, call>>

Join(t, k) ==
    /\ \E i \in DOMAIN order :
         /\ Asks(t, k, i)
         /\ ~AtOnce(entry[order[i]])
         /\ Flying(entry[order[i]])
         /\ call' = [call EXCEPT ![t] = WaitingOn(entry[order[i]].flight, order[i])]
    /\ UNCHANGED entry

BugRefetch(t, k) ==
    \E i \in DOMAIN order :
        /\ Asks(t, k, i)
        /\ ~InDate(entry[order[i]])
        /\ ~Flying(entry[order[i]])
        /\ call' = [call EXCEPT ![t] = Fetching(order[i])]
        /\ entry' = [entry EXCEPT ![order[i]].flight = t]

Refetch(t, k) ==
    \E i \in DOMAIN order :
        /\ Asks(t, k, i)
        /\ ~AtOnce(entry[order[i]])
        /\ ~Flying(entry[order[i]])
        /\ call' = [call EXCEPT ![t] = Fetching(order[i])]
        /\ entry' = [entry EXCEPT ![order[i]].flight = t]

-----------------------------------------------------------------------------
(* The fetch ends: the entry is written under the lock, and then the event   *)
(* is set.                                                                   *)

Held(t) == entry[call[t].entry]

Land(t, well, written) ==
    /\ call[t].at = "fetch"
    /\ call' = [call EXCEPT ![t].at = "signal", ![t].well = well]
    /\ entry' = [entry EXCEPT ![call[t].entry] = [written EXCEPT !.flight = NoOne]]
    /\ UNCHANGED order

FetchReturns(t) ==
    Land(t, TRUE, [Held(t) EXCEPT !.has = TRUE, !.age = 0, !.failed = ErrorTTL])

FetchRaises(t) == Land(t, FALSE, [Held(t) EXCEPT !.failed = 0])

BugFetchIsKilled(t) ==
    /\ call[t].at = "fetch"
    /\ call' = [call EXCEPT ![t] = NoCall]
    /\ UNCHANGED <<order, entry>>

\* A BaseException that is no Exception: nothing is learnt about the service.
FetchIsKilled(t) == Land(t, FALSE, Held(t))

Woken(c, well) == [c EXCEPT !.at = "woken", !.on = NoOne, !.well = well]

\* done.set(), and the call ends.
Signal(t) ==
    /\ call[t].at = "signal"
    /\ call' = [u \in Threads |->
                  IF u = t THEN NoCall
                  ELSE IF call[u].at = "wait" /\ call[u].on = t
                  THEN Woken(call[u], call[t].well)
                  ELSE call[u]]
    /\ entry' = Collected(entry, order, call')
    /\ UNCHANGED order

\* wait_timeout passes.
GiveUp(t) ==
    /\ call[t].at = "wait"
    /\ call' = [call EXCEPT ![t] = Woken(@, FALSE)]
    /\ UNCHANGED <<order, entry>>

BugFound(t) == \E e \in Known(KeyOf[call[t].entry]) : Usable(entry[e])

\* The thread that waited looks at the entry it holds, under the lock.
Found(t) == Usable(Held(t))

ReadBack(t) ==
    /\ call[t].at = "woken"
    /\ call' = [call EXCEPT ![t].at = IF Found(t) THEN "answer" ELSE "default"]
    /\ UNCHANGED <<order, entry>>

Return(t) ==
    /\ call[t].at \in {"answer", "default"}
    /\ call' = [call EXCEPT ![t] = NoCall]
    /\ entry' = Collected(entry, order, call')
    /\ UNCHANGED order

-----------------------------------------------------------------------------
Later(n, most) == IF n < most THEN n + 1 ELSE n

Tick ==
    /\ entry' = [e \in Entries |->
                   [entry[e] EXCEPT !.age = IF entry[e].has THEN Later(@, TTL + StaleFor)
                                                            ELSE @,
                                    !.failed = Later(@, ErrorTTL)]]
    /\ UNCHANGED <<order, call>>

Init ==
    /\ order = <<>>
    /\ entry = [e \in Entries |-> NewEntry]
    /\ call = [t \in Threads |-> NoCall]

FetchEnds(t) == FetchReturns(t) \/ FetchRaises(t) \/ FetchIsKilled(t)

Get(t, k) == Miss(t, k) \/ Served(t, k) \/ Join(t, k) \/ Refetch(t, k)
Step(t) == FetchEnds(t) \/ Signal(t) \/ ReadBack(t) \/ Return(t)

Next ==
    \/ \E t \in Threads, k \in Keys : Get(t, k)
    \/ \E t \in Threads : Step(t) \/ GiveUp(t)
    \/ Tick

Spec == Init /\ [][Next]_vars

\* Every fetch has a time limit and threads are scheduled.  No thread needs its
\* own time limit to get out of get.
Fairness == \A t \in Threads : WF_vars(Step(t))
FairSpec == Spec /\ Fairness

-----------------------------------------------------------------------------
(* What the code promises. *)

\* "One fetch at a time per key", whatever the table drops meanwhile.
OneFlight ==
    \A t, u \in Threads :
        /\ call[t].at = "fetch" /\ call[u].at = "fetch"
        /\ KeyOf[call[t].entry] = KeyOf[call[u].entry]
        => t = u

\* A thread waits only for a fetch that goes on, or that ended and is about to
\* wake it: no wakeup is lost.
WaitsForAFlight ==
    \A t \in Threads :
        call[t].at = "wait" =>
          /\ call[t].on \in Threads
          /\ call[call[t].on].at \in {"fetch", "signal"}
          /\ call[call[t].on].entry = call[t].entry

\* A thread that waited for a fetch which returned gets its answer, although the
\* table may have dropped the entry meanwhile, unless the answer is too old by
\* then.
TooOld(e) == e.has /\ e.age >= TTL + StaleFor

WaiterIsServed ==
    [][\A t \in Threads :
         call[t].at = "woken" /\ call[t].well /\ call'[t].at = "default"
           => TooOld(Held(t))]_vars

\* "An outage costs one failed call per key per minute": while the failure of a
\* key's last fetch is remembered, nobody begins another.
OutageCostsOneCall ==
    [][\A e \in InTable, t \in Threads :
         BackingOff(entry[e]) /\ call[t].at # "fetch" /\ call'[t].at = "fetch"
           => KeyOf[call'[t].entry] # KeyOf[e]]_vars

\* Every call returns, without the help of wait_timeout.
CallReturns == \A t \in Threads : []<>Idle(t)
=============================================================================
