------------------------ MODULE UpstreamCacheProofs ------------------------
(* What UpstreamCache promises for every number of threads, keys and entries, and *)
(* SafeFetch for any names, addresses and redirects.                              *)
EXTENDS UpstreamCache, SafeFetch, QueueLemmas, SequenceTheorems, TLAPS

-----------------------------------------------------------------------------
(* The table. *)

OneEntryPerKey(ord) ==
    \A i, j \in DOMAIN ord : KeyOf[ord[i]] = KeyOf[ord[j]] => i = j

LEMMA OrderFacts ==
    ASSUME TypeOK
    PROVE  /\ Len(order) \in Nat
           /\ DOMAIN order = 1..Len(order)
           /\ \A i \in 1..Len(order) : order[i] \in Entries
           /\ OneEntryPerKey(order)
BY LenProperties, ElementOfSeq DEF TypeOK, OneEntryPerKey

\* Where the entry at j comes from when the one at i moves to the end of n.
From(i, n, j) == IF j < i THEN j ELSE IF j < n THEN j + 1 ELSE i

\* move_to_end permutes the positions.
LEMMA FromPermutes ==
    ASSUME NEW n \in Nat, NEW i \in 1..n
    PROVE  /\ \A j \in 1..n : From(i, n, j) \in 1..n
           /\ \A j, l \in 1..n : From(i, n, j) = From(i, n, l) => j = l
           /\ \A j \in 1..n : \E l \in 1..n : From(i, n, l) = j
<1>1. \A j \in 1..n : From(i, n, j) \in 1..n
  BY DEF From
<1>2. ASSUME NEW j \in 1..n, NEW l \in 1..n, From(i, n, j) = From(i, n, l) PROVE j = l
  BY <1>2 DEF From
<1>3. ASSUME NEW j \in 1..n PROVE \E l \in 1..n : From(i, n, l) = j
  <2>1. CASE j < i
    <3>1. From(i, n, j) = j BY <2>1 DEF From
    <3>2. QED BY <3>1
  <2>2. CASE j = i
    <3>1. n \in 1..n /\ From(i, n, n) = j BY <2>2 DEF From
    <3>2. QED BY <3>1
  <2>3. CASE j > i
    <3>1. j - 1 \in 1..n /\ From(i, n, j - 1) = j BY <2>3 DEF From
    <3>2. QED BY <3>1
  <2>4. QED BY <2>1, <2>2, <2>3
<1>4. QED BY <1>1, <1>2, <1>3

\* The table after move_to_end: the same entries in another order.
LEMMA MovedTable ==
    ASSUME TypeOK, NEW i \in DOMAIN order, order' = MovedToEnd(i)
    PROVE  /\ order' \in Seq(Entries)
           /\ OneEntryPerKey(order')
           /\ InTable' = InTable
<1> DEFINE n == Len(order)
<1>1. n \in Nat /\ DOMAIN order = 1..n /\ i \in 1..n
  BY OrderFacts
<1>2. /\ DOMAIN order' = 1..n
      /\ \A j \in 1..n : order'[j] = order[From(i, n, j)]
  BY <1>1 DEF MovedToEnd, From
<1>3. /\ \A j \in 1..n : From(i, n, j) \in 1..n
      /\ \A j, l \in 1..n : From(i, n, j) = From(i, n, l) => j = l
      /\ \A j \in 1..n : \E l \in 1..n : From(i, n, l) = j
  BY <1>1, FromPermutes
<1>4. \A j \in 1..n : order'[j] \in Entries
  BY <1>2, <1>3, OrderFacts
<1>5. order' \in [1..n -> Entries]
  BY <1>1, <1>4 DEF MovedToEnd
<1>6. order' \in Seq(Entries)
  BY <1>1, <1>5, SeqDef
<1>7. OneEntryPerKey(order')
  <2> SUFFICES ASSUME NEW j \in 1..n, NEW l \in 1..n, KeyOf[order'[j]] = KeyOf[order'[l]]
               PROVE  j = l
    BY <1>2 DEF OneEntryPerKey
  <2>1. /\ From(i, n, j) \in DOMAIN order /\ From(i, n, l) \in DOMAIN order
        /\ KeyOf[order[From(i, n, j)]] = KeyOf[order[From(i, n, l)]]
    BY <1>1, <1>2, <1>3
  <2>2. From(i, n, j) = From(i, n, l)
    BY <2>1, OrderFacts DEF OneEntryPerKey
  <2>3. QED BY <2>2, <1>3
<1>8. InTable' = {order'[j] : j \in 1..n} /\ InTable = {order[j] : j \in 1..n}
  BY <1>1, <1>2 DEF InTable
<1> HIDE DEF n
<1>9. {order'[j] : j \in 1..n} = {order[j] : j \in 1..n}
  <2>1. \A j \in 1..n : \E l \in 1..n : order'[j] = order[l]
    BY <1>2, <1>3
  <2>2. \A j \in 1..n : \E l \in 1..n : order[j] = order'[l]
    <3> TAKE j \in 1..n
    <3>1. PICK l \in 1..n : From(i, n, l) = j BY <1>3
    <3>2. order'[l] = order[j] BY <3>1, <1>2
    <3>3. QED BY <3>2
  <2>3. QED BY <2>1, <2>2
<1>10. QED BY <1>6, <1>7, <1>8, <1>9

\* The loop of get drops nothing that is being fetched, and never the entry just
\* made.
LEMMA CutTable ==
    ASSUME TypeOK, NEW e \in Entries, Known(KeyOf[e]) = {}, CutTo(Append(order, e))
    PROVE  /\ order' \in Seq(Entries)
           /\ OneEntryPerKey(order')
           /\ e \in InTable'
           /\ \A x \in InTable : Flying(entry[x]) => x \in InTable'
<1> DEFINE ord == Append(order, e)
           m == Len(order)
<1>1. /\ m \in Nat /\ Len(ord) = m + 1 /\ ord[m + 1] = e
      /\ \A i \in 1..m : ord[i] = order[i] /\ order[i] \in Entries
      /\ \A i \in 1..(m + 1) : ord[i] \in Entries
  BY OrderFacts, AppendProperties DEF TypeOK
<1>2. \A i \in 1..m : KeyOf[order[i]] # KeyOf[e]
  BY OrderFacts DEF Known, InTable
<1>3. PICK n \in 0..(m + 1) : Droppable(ord, n) /\ order' = SubSeq(ord, n + 1, m + 1)
  BY <1>1 DEF CutTo
<1>4. n <= m
  BY <1>1, <1>3, ConstantsAssumption DEF Droppable
<1>5. \A i \in 1..n : ~Flying(entry[order[i]])
  BY <1>1, <1>3, <1>4 DEF Droppable
<1>6. /\ order' \in Seq(Entries)
      /\ Len(order') = m + 1 - n
      /\ \A i \in 1..(m + 1 - n) : order'[i] = ord[n + i]
  <2>1. \A i \in (n + 1)..(m + 1) : ord[i] \in Entries
    BY <1>1, <1>3
  <2> HIDE DEF ord, m
  <2>2. n + 1 \in Int /\ m + 1 \in Int /\ n + 1 <= m + 1
    BY <1>1, <1>3, <1>4
  <2>3. /\ SubSeq(ord, n + 1, m + 1) \in Seq(Entries)
        /\ Len(SubSeq(ord, n + 1, m + 1)) = (m + 1) - (n + 1) + 1
        /\ \A i \in 1..((m + 1) - (n + 1) + 1) :
             SubSeq(ord, n + 1, m + 1)[i] = ord[(n + 1) + i - 1]
    BY <2>1, <2>2, SubSeqProperties
  <2>4. \A i \in 1..(m + 1 - n) : (n + 1) + i - 1 = n + i
    BY <1>1, <1>3
  <2>5. (m + 1) - (n + 1) + 1 = m + 1 - n
    BY <1>1, <1>3
  <2>6. QED BY <2>3, <2>4, <2>5, <1>3
<1>7. DOMAIN order' = 1..(m + 1 - n)
  BY <1>6, LenProperties
<1>8. \A i, j \in 1..(m + 1) : KeyOf[ord[i]] = KeyOf[ord[j]] => i = j
  <2> TAKE i, j \in 1..(m + 1)
  <2>1. i \in 1..m \/ i = m + 1 BY <1>1
  <2>2. j \in 1..m \/ j = m + 1 BY <1>1
  <2>3. QED BY <2>1, <2>2, <1>1, <1>2, OrderFacts DEF OneEntryPerKey
<1>9. OneEntryPerKey(order')
  <2>1. \A i \in 1..(m + 1 - n) : n + i \in 1..(m + 1)
    BY <1>1, <1>3
  <2> HIDE DEF ord
  <2>2. QED BY <1>1, <1>3, <1>6, <1>7, <1>8, <2>1 DEF OneEntryPerKey
<1>10. e \in InTable'
  <2>1. m + 1 - n \in 1..(m + 1 - n) /\ n + (m + 1 - n) = m + 1
    BY <1>1, <1>3, <1>4
  <2>2. order'[m + 1 - n] = e
    BY <2>1, <1>1, <1>6
  <2>3. QED BY <2>1, <2>2, <1>7 DEF InTable
<1>11. ASSUME NEW x \in InTable, Flying(entry[x]) PROVE x \in InTable'
  <2>1. PICK i \in 1..m : x = order[i]
    BY OrderFacts DEF InTable
  <2>2. i > n
    BY <2>1, <1>3, <1>5, <1>11, <1>1
  <2>3. i - n \in 1..(m + 1 - n) /\ n + (i - n) = i
    BY <2>1, <2>2, <1>1, <1>3
  <2>4. order'[i - n] = x
    BY <2>1, <2>3, <1>1, <1>6
  <2>5. QED BY <2>3, <2>4, <1>7 DEF InTable
<1>12. QED BY <1>6, <1>9, <1>10, <1>11
-----------------------------------------------------------------------------
(* Types. *)

LEMMA Numbers ==
    /\ TTL + StaleFor \in Nat /\ ErrorTTL \in Nat
    /\ 0 \in 0..TTL + StaleFor /\ 0 \in 0..ErrorTTL /\ ErrorTTL \in 0..ErrorTTL
BY ConstantsAssumption

LEMMA Fresh ==
    /\ NewEntry \in Entry /\ ~NewEntry.has /\ ~Flying(NewEntry)
    /\ NoCall \in Call /\ NoCall.at = "idle" /\ ~NoCall.well
BY Numbers DEF NewEntry, Entry, NoCall, Call, Flying

\* What is referred to is not collected.
LEMMA CollectedFacts ==
    ASSUME NEW ents \in [Entries -> Entry], NEW ord, NEW calls
    PROVE  /\ Collected(ents, ord, calls) \in [Entries -> Entry]
           /\ \A e \in Entries : e \in Referred(ord, calls)
                                   => Collected(ents, ord, calls)[e] = ents[e]
           /\ \A e \in Entries : \/ Collected(ents, ord, calls)[e] = ents[e]
                                  \/ Collected(ents, ord, calls)[e] = NewEntry
BY Fresh DEF Collected

LEMMA CallTypes ==
    ASSUME NEW e \in Entries, NEW u \in Threads
    PROVE  /\ Fetching(e) \in Call /\ WaitingOn(u, e) \in Call
           /\ Fetching(e).at = "fetch" /\ Fetching(e).entry = e /\ ~Fetching(e).well
           /\ WaitingOn(u, e).at = "wait" /\ WaitingOn(u, e).entry = e
           /\ WaitingOn(u, e).on = u /\ ~WaitingOn(u, e).well
BY Fresh DEF Fetching, WaitingOn, Call, NoCall

LEMMA WokenFacts ==
    ASSUME NEW c \in Call, NEW well \in BOOLEAN
    PROVE  /\ Woken(c, well) \in Call /\ Woken(c, well).at = "woken"
           /\ Woken(c, well).entry = c.entry /\ Woken(c, well).well = well
BY DEF Woken, Call

\* A thread inside get refers to an entry.
Refers == \A t \in Threads : ~Idle(t) => call[t].entry \in Entries

\* The entry that Miss takes is nobody's.
LEMMA MissFacts ==
    ASSUME TypeOK, NEW t \in Threads, NEW k \in Keys, Miss(t, k)
    PROVE  \E e \in Entries :
             /\ KeyOf[e] = k /\ e \notin Referred(order, call)
             /\ CutTo(Append(order, e))
             /\ call' = [call EXCEPT ![t] = Fetching(e)]
             /\ entry' = Collected([entry EXCEPT ![e] = [NewEntry EXCEPT !.flight = t]],
                                   order', call')
<1> DEFINE e == CHOOSE x \in Free(k) : TRUE
<1>1. e \in Free(k)
  BY DEF Miss
<1>2. e \in Entries /\ KeyOf[e] = k /\ e \notin Referred(order, call)
  BY <1>1 DEF Free
<1>3. QED BY <1>2 DEF Miss

LEMMA GetType ==
    ASSUME TypeOK, NEW t \in Threads, NEW k \in Keys, Get(t, k)
    PROVE  TypeOK'
<1>1. CASE Miss(t, k)
  <2>1. PICK e \in Entries :
             /\ KeyOf[e] = k
             /\ CutTo(Append(order, e))
             /\ call' = [call EXCEPT ![t] = Fetching(e)]
             /\ entry' = Collected([entry EXCEPT ![e] = [NewEntry EXCEPT !.flight = t]],
                                   order', call')
    BY <1>1, MissFacts
  <2>2. [NewEntry EXCEPT !.flight = t] \in Entry
    BY Fresh DEF Entry
  <2>3. entry' \in [Entries -> Entry]
    BY <2>1, <2>2, CollectedFacts DEF TypeOK
  <2>4. call' \in [Threads -> Call]
    BY <2>1, CallTypes DEF TypeOK
  <2>5. order' \in Seq(Entries) /\ OneEntryPerKey(order')
    BY <1>1, <2>1, CutTable DEF Miss
  <2>6. QED BY <2>3, <2>4, <2>5 DEF TypeOK, OneEntryPerKey
<1>2. ASSUME NEW i \in DOMAIN order, Asks(t, k, i),
             call' \in [Threads -> Call], entry' \in [Entries -> Entry]
      PROVE  TypeOK'
  BY <1>2, MovedTable DEF Asks, TypeOK, OneEntryPerKey
<1>3. CASE Served(t, k)
  BY <1>3, <1>2 DEF Served, TypeOK
<1>4. CASE Join(t, k)
  <2>1. PICK i \in DOMAIN order :
          /\ Asks(t, k, i) /\ Flying(entry[order[i]])
          /\ call' = [call EXCEPT ![t] = WaitingOn(entry[order[i]].flight, order[i])]
    BY <1>4 DEF Join
  <2>2. order[i] \in Entries /\ entry[order[i]].flight \in Threads
    BY <2>1, OrderFacts DEF TypeOK, Entry, Flying
  <2>3. QED BY <1>4, <2>1, <2>2, <1>2, CallTypes DEF Join, TypeOK
<1>5. CASE Refetch(t, k)
  <2>1. PICK i \in DOMAIN order :
          /\ Asks(t, k, i)
          /\ call' = [call EXCEPT ![t] = Fetching(order[i])]
          /\ entry' = [entry EXCEPT ![order[i]].flight = t]
    BY <1>5 DEF Refetch
  <2>2. order[i] \in Entries
    BY OrderFacts
  <2>3. entry' \in [Entries -> Entry]
    BY <2>1, <2>2 DEF TypeOK, Entry
  <2>4. QED BY <2>1, <2>2, <2>3, <1>2, CallTypes DEF TypeOK
<1>6. QED BY <1>1, <1>3, <1>4, <1>5 DEF Get

LEMMA StepType ==
    ASSUME TypeOK, Refers, NEW t \in Threads, Step(t) \/ GiveUp(t)
    PROVE  TypeOK'
<1>1. ASSUME NEW well \in BOOLEAN, NEW written \in Entry, Land(t, well, written)
      PROVE  TypeOK'
  <2>1. call[t].entry \in Entries
    BY <1>1 DEF Land, Refers, Idle
  <2>2. [written EXCEPT !.flight = NoOne] \in Entry
    BY DEF Entry
  <2>3. entry' \in [Entries -> Entry]
    BY <1>1, <2>1, <2>2 DEF Land, TypeOK
  <2>4. call' \in [Threads -> Call]
    <3>1. \A c \in Call, b \in BOOLEAN : [c EXCEPT !.at = "signal", !.well = b] \in Call
      BY DEF Call
    <3>2. call' = [call EXCEPT ![t] = [call[t] EXCEPT !.at = "signal", !.well = well]]
      BY <1>1 DEF Land
    <3>3. QED BY <1>1, <3>1, <3>2 DEF TypeOK
  <2>5. QED BY <1>1, <2>3, <2>4 DEF Land, TypeOK
<1>2. CASE FetchEnds(t)
  <2>1. Held(t) \in Entry
    BY <1>2 DEF FetchEnds, FetchReturns, FetchRaises, FetchIsKilled, Land, Refers,
                Idle, Held, TypeOK
  <2>2. /\ [Held(t) EXCEPT !.has = TRUE, !.age = 0, !.failed = ErrorTTL] \in Entry
        /\ [Held(t) EXCEPT !.failed = 0] \in Entry
    BY <2>1, Numbers DEF Entry
  <2>3. QED
    BY <1>1, <1>2, <2>1, <2>2 DEF FetchEnds, FetchReturns, FetchRaises, FetchIsKilled
<1>3. CASE Signal(t)
  <2>1. \A u \in Threads : Woken(call[u], call[t].well) \in Call
    BY WokenFacts DEF TypeOK, Call
  <2>2. call' \in [Threads -> Call]
    BY <1>3, <2>1, Fresh DEF Signal, TypeOK
  <2>3. QED BY <1>3, <2>2, CollectedFacts DEF Signal, TypeOK
<1>4. CASE GiveUp(t)
  BY <1>4, WokenFacts DEF GiveUp, TypeOK
<1>5. CASE ReadBack(t)
  BY <1>5 DEF ReadBack, TypeOK, Call
<1>6. CASE Return(t)
  BY <1>6, Fresh, CollectedFacts DEF Return, TypeOK
<1>7. QED BY <1>2, <1>3, <1>4, <1>5, <1>6 DEF Step

LEMMA TickType == ASSUME TypeOK, Tick PROVE TypeOK'
<1>1. \A n, most \in Nat : n \in 0..most => Later(n, most) \in 0..most
  BY DEF Later
<1>2. ASSUME NEW e \in Entries PROVE entry'[e] \in Entry
  <2>1. /\ entry[e] \in Entry
        /\ entry'[e] = [entry[e] EXCEPT
                          !.age = IF entry[e].has THEN Later(@, TTL + StaleFor) ELSE @,
                          !.failed = Later(@, ErrorTTL)]
    BY DEF Tick, TypeOK
  <2>2. /\ Later(entry[e].age, TTL + StaleFor) \in 0..TTL + StaleFor
        /\ Later(entry[e].failed, ErrorTTL) \in 0..ErrorTTL
    BY <2>1, <1>1, Numbers DEF Entry
  <2>3. QED BY <2>1, <2>2 DEF Entry
<1>3. entry' \in [Entries -> Entry]
  BY <1>2 DEF Tick
<1>4. QED BY <1>3 DEF Tick, TypeOK

-----------------------------------------------------------------------------
(* Who fetches, and who waits for whom. *)

\* An entry in flight is in the table and has a thread that fetches it; a thread
\* that fetches does so for its entry.
Flights ==
    /\ \A e \in Entries :
         Flying(entry[e]) => /\ e \in InTable
                             /\ call[entry[e].flight].at = "fetch"
                             /\ call[entry[e].flight].entry = e
    /\ \A t \in Threads : call[t].at = "fetch" => entry[call[t].entry].flight = t

\* A fetch that returned left its answer in the entry.
Learnt ==
    \A t \in Threads :
        call[t].well /\ call[t].at \in {"signal", "woken"} => entry[call[t].entry].has

IInv == TypeOK /\ Refers /\ Flights /\ WaitsForAFlight /\ Learnt

LEMMA MissIInv ==
    ASSUME IInv, NEW t \in Threads, NEW k \in Keys, Miss(t, k)
    PROVE  IInv'
<1>1. PICK e \in Entries :
          /\ KeyOf[e] = k /\ e \notin Referred(order, call)
          /\ CutTo(Append(order, e))
          /\ call' = [call EXCEPT ![t] = Fetching(e)]
          /\ entry' = Collected([entry EXCEPT ![e] = [NewEntry EXCEPT !.flight = t]],
                                order', call')
  BY MissFacts DEF IInv
<1> DEFINE ents == [entry EXCEPT ![e] = [NewEntry EXCEPT !.flight = t]]
<1>2. TypeOK'
  BY GetType DEF IInv, Get
<1>3. e \in InTable' /\ \A x \in InTable : Flying(entry[x]) => x \in InTable'
  BY <1>1, CutTable DEF IInv, Miss
<1>4. /\ e \notin InTable /\ \A u \in Threads : call[u].entry # e
  BY <1>1 DEF Referred, InTable
<1>5. /\ call'[t].at = "fetch" /\ call'[t].entry = e /\ ~call'[t].well
      /\ \A u \in Threads : u # t => call'[u] = call[u]
  BY <1>1, CallTypes, <1>2 DEF IInv, TypeOK
<1>6. \A u \in Threads : call'[u].entry \in Referred(order', call')
  BY DEF Referred
<1>7. ents \in [Entries -> Entry]
  BY Fresh DEF IInv, TypeOK, Entry
<1>8. /\ \A x \in Entries : x \in Referred(order', call') => entry'[x] = ents[x]
      /\ \A x \in Entries : entry'[x] = ents[x] \/ entry'[x] = NewEntry
  <2>1. entry' = Collected(ents, order', call')
    BY <1>1
  <2> HIDE DEF ents
  <2>2. QED BY <2>1, <1>7, CollectedFacts
<1>9. /\ ents[e].flight = t
      /\ \A x \in Entries : x # e => ents[x] = entry[x]
  BY Fresh DEF IInv, TypeOK, NewEntry
<1> HIDE DEF ents
<1>10. entry'[e].flight = t
  BY <1>5, <1>6, <1>8, <1>9
<1>11. \A u \in Threads : u # t /\ call[u].entry \in Entries
                           => entry'[call[u].entry] = entry[call[u].entry]
  BY <1>4, <1>5, <1>6, <1>8, <1>9
<1>12. Refers'
  BY <1>5 DEF IInv, Refers, Idle
<1>13. Flights'
  <2>1. ASSUME NEW x \in Entries, Flying(entry'[x]), x # e
        PROVE  /\ x \in InTable' /\ call'[entry'[x].flight].at = "fetch"
               /\ call'[entry'[x].flight].entry = x
    <3>1. entry'[x] = entry[x]
      BY <2>1, <1>8, <1>9, Fresh
    <3>2. /\ x \in InTable /\ call[entry[x].flight].at = "fetch"
          /\ call[entry[x].flight].entry = x
      BY <2>1, <3>1 DEF IInv, Flights
    <3>3. entry[x].flight \in Threads /\ entry[x].flight # t
      BY <2>1, <3>1, <3>2 DEF IInv, TypeOK, Entry, Flying, Miss, Idle
    <3>4. QED BY <2>1, <3>1, <3>2, <3>3, <1>3, <1>5
  <2>2. ASSUME NEW u \in Threads, u # t, call'[u].at = "fetch"
        PROVE  entry'[call'[u].entry].flight = u
    BY <2>2, <1>5, <1>11 DEF IInv, Flights, Refers, Idle
  <2>3. QED BY <2>1, <2>2, <1>3, <1>5, <1>10 DEF Flights
<1>14. WaitsForAFlight'
  <2> SUFFICES ASSUME NEW u \in Threads, call'[u].at = "wait"
               PROVE  /\ call'[u].on \in Threads
                      /\ call'[call'[u].on].at \in {"fetch", "signal"}
                      /\ call'[call'[u].on].entry = call'[u].entry
    BY DEF WaitsForAFlight
  <2>1. u # t /\ call'[u] = call[u]
    BY <1>5
  <2>2. /\ call[u].on \in Threads /\ call[call[u].on].at \in {"fetch", "signal"}
        /\ call[call[u].on].entry = call[u].entry
    BY <2>1 DEF IInv, WaitsForAFlight
  <2>3. call[u].on # t
    BY <2>2 DEF Miss, Idle
  <2>4. QED BY <2>1, <2>2, <2>3, <1>5
<1>15. Learnt'
  BY <1>5, <1>11 DEF IInv, Learnt, Refers, Idle
<1>16. QED BY <1>2, <1>12, <1>13, <1>14, <1>15 DEF IInv
\* The three ways of get when the table has the entry.
LEMMA KnownIInv ==
    ASSUME IInv, NEW t \in Threads, NEW k \in Keys,
           Served(t, k) \/ Join(t, k) \/ Refetch(t, k)
    PROVE  IInv'
<1>1. TypeOK'
  BY GetType DEF IInv, Get
<1>2. PICK i \in DOMAIN order :
          /\ Asks(t, k, i)
          /\ \/ UNCHANGED <<entry, call>>
             \/ /\ Flying(entry[order[i]])
                /\ call' = [call EXCEPT ![t] = WaitingOn(entry[order[i]].flight, order[i])]
                /\ UNCHANGED entry
             \/ /\ ~Flying(entry[order[i]])
                /\ call' = [call EXCEPT ![t] = Fetching(order[i])]
                /\ entry' = [entry EXCEPT ![order[i]].flight = t]
  BY DEF Served, Join, Refetch
<1> DEFINE e == order[i]
<1>3. e \in Entries /\ e \in InTable /\ InTable' = InTable
  BY <1>2, OrderFacts, MovedTable DEF IInv, InTable, Asks
<1>4. call[t].at = "idle"
  BY <1>2 DEF Asks, Idle
<1> HIDE DEF e
<1>5. CASE UNCHANGED <<entry, call>>
  BY <1>1, <1>3, <1>5
     DEF IInv, Refers, Idle, Flights, WaitsForAFlight, Learnt
<1>6. CASE /\ Flying(entry[e])
           /\ call' = [call EXCEPT ![t] = WaitingOn(entry[e].flight, e)]
           /\ UNCHANGED entry
  <2> DEFINE f == entry[e].flight
  <2>1. f \in Threads /\ call[f].at = "fetch" /\ call[f].entry = e /\ f # t
    BY <1>3, <1>4, <1>6 DEF IInv, Flights, TypeOK, Entry, Flying
  <2>2. /\ call'[t].at = "wait" /\ call'[t].entry = e /\ call'[t].on = f /\ ~call'[t].well
        /\ \A u \in Threads : u # t => call'[u] = call[u]
    BY <1>3, <1>6, <2>1, CallTypes DEF IInv, TypeOK
  <2> HIDE DEF f
  <2>3. Refers'
    BY <1>3, <2>2 DEF IInv, Refers, Idle
  <2>4. Flights'
    BY <1>3, <1>4, <1>6, <2>2 DEF IInv, Flights, TypeOK, Entry, Flying
  <2>5. WaitsForAFlight'
    BY <1>4, <2>1, <2>2 DEF IInv, WaitsForAFlight
  <2>6. Learnt'
    BY <1>6, <2>2 DEF IInv, Learnt
  <2>7. QED BY <1>1, <2>3, <2>4, <2>5, <2>6 DEF IInv
<1>7. CASE /\ ~Flying(entry[e])
           /\ call' = [call EXCEPT ![t] = Fetching(e)]
           /\ entry' = [entry EXCEPT ![e].flight = t]
  <2>1. /\ call'[t].at = "fetch" /\ call'[t].entry = e /\ ~call'[t].well
        /\ \A u \in Threads : u # t => call'[u] = call[u]
    BY <1>3, <1>7, CallTypes DEF IInv, TypeOK
  <2>2. /\ entry'[e].flight = t /\ entry'[e].has = entry[e].has
        /\ \A x \in Entries : x # e => entry'[x] = entry[x]
    BY <1>3, <1>7 DEF IInv, TypeOK, Entry
  <2>3. \A u \in Threads : u # t /\ call[u].at = "fetch" => call[u].entry # e
    BY <1>7, ConstantsAssumption DEF IInv, Flights, Flying
  <2>4. Refers'
    BY <1>3, <2>1 DEF IInv, Refers, Idle
  <2>5. Flights'
    <3>1. ASSUME NEW x \in Entries, Flying(entry'[x])
          PROVE  /\ x \in InTable' /\ call'[entry'[x].flight].at = "fetch"
                 /\ call'[entry'[x].flight].entry = x
      <4>1. CASE x = e
        BY <4>1, <1>3, <2>1, <2>2
      <4>2. CASE x # e
        <5>1. /\ x \in InTable /\ call[entry[x].flight].at = "fetch"
              /\ call[entry[x].flight].entry = x /\ entry[x].flight \in Threads
          BY <3>1, <4>2, <2>2 DEF IInv, Flights, TypeOK, Entry, Flying
        <5>2. entry[x].flight # t
          BY <5>1, <1>4
        <5>3. QED BY <5>1, <5>2, <4>2, <1>3, <2>1, <2>2
      <4>3. QED BY <4>1, <4>2
    <3>2. ASSUME NEW u \in Threads, call'[u].at = "fetch"
          PROVE  entry'[call'[u].entry].flight = u
      <4>1. CASE u = t
        BY <4>1, <2>1, <2>2
      <4>2. CASE u # t
        BY <3>2, <4>2, <2>1, <2>2, <2>3 DEF IInv, Flights, Refers, Idle
      <4>3. QED BY <4>1, <4>2
    <3>3. QED BY <3>1, <3>2 DEF Flights
  <2>6. WaitsForAFlight'
    BY <1>4, <2>1 DEF IInv, WaitsForAFlight
  <2>7. Learnt'
    BY <2>1, <2>2 DEF IInv, Learnt, Refers, Idle
  <2>8. QED BY <1>1, <2>4, <2>5, <2>6, <2>7 DEF IInv
<1>8. QED BY <1>2, <1>5, <1>6, <1>7 DEF e

LEMMA LandIInv ==
    ASSUME IInv, TypeOK', NEW t \in Threads, NEW well \in BOOLEAN, NEW written \in Entry,
           Land(t, well, written),
           Held(t).has \/ well => written.has
    PROVE  IInv'
<1> DEFINE e == call[t].entry
<1>1. call[t].at = "fetch" /\ e \in Entries /\ entry[e].flight = t
  BY DEF Land, IInv, Refers, Idle, Flights
<1>2. /\ call'[t].at = "signal" /\ call'[t].entry = e /\ call'[t].well = well
      /\ \A u \in Threads : u # t => call'[u] = call[u]
  BY DEF Land, IInv, TypeOK, Call
<1>3. /\ ~Flying(entry'[e]) /\ entry'[e].has = written.has
      /\ \A x \in Entries : x # e => entry'[x] = entry[x]
  BY <1>1 DEF Land, IInv, TypeOK, Entry, Flying
<1>4. InTable' = InTable /\ Held(t) = entry[e]
  BY DEF Land, InTable, Held
<1> HIDE DEF e
<1>5. Refers'
  BY <1>1, <1>2 DEF IInv, Refers, Idle
<1>6. Flights'
  <2>1. ASSUME NEW x \in Entries, Flying(entry'[x])
        PROVE  /\ x \in InTable' /\ call'[entry'[x].flight].at = "fetch"
               /\ call'[entry'[x].flight].entry = x
    <3>1. x # e /\ entry'[x] = entry[x]
      BY <2>1, <1>3
    <3>2. /\ x \in InTable /\ call[entry[x].flight].at = "fetch"
          /\ call[entry[x].flight].entry = x /\ entry[x].flight \in Threads
      BY <2>1, <3>1 DEF IInv, Flights, TypeOK, Entry, Flying
    <3>3. entry[x].flight # t
      BY <3>1, <3>2 DEF e
    <3>4. QED BY <3>1, <3>2, <3>3, <1>2, <1>4
  <2>2. ASSUME NEW u \in Threads, call'[u].at = "fetch"
        PROVE  entry'[call'[u].entry].flight = u
    <3>1. u # t /\ call'[u] = call[u]
      BY <2>2, <1>2
    <3>2. call[u].entry \in Entries /\ entry[call[u].entry].flight = u
      BY <2>2, <3>1 DEF IInv, Flights, Refers, Idle
    <3>3. QED BY <3>1, <3>2, <1>1, <1>3
  <2>3. QED BY <2>1, <2>2 DEF Flights
<1>7. WaitsForAFlight'
  <2>1. call'[t].at = "signal" /\ call'[t].entry = call[t].entry
    BY <1>2 DEF e
  <2>2. QED BY <1>1, <1>2, <2>1 DEF IInv, WaitsForAFlight
<1>8. Learnt'
  BY <1>1, <1>2, <1>3, <1>4 DEF IInv, Learnt, Refers, Idle
<1>9. QED BY <1>5, <1>6, <1>7, <1>8 DEF IInv

\* Leaving get, and what the garbage collector does then, disturbs nobody.
LEMMA LeaveIInv ==
    ASSUME IInv, TypeOK', NEW t \in Threads, call[t].at # "fetch", UNCHANGED order,
           entry' = Collected(entry, order, call'),
           call'[t] = NoCall,
           \A u \in Threads : u # t =>
              \/ call'[u] = call[u]
              \/ /\ call[u].at = "wait" /\ call[u].on = t /\ call[t].at = "signal"
                 /\ call'[u] = Woken(call[u], call[t].well),
           \A u \in Threads : u # t /\ call[u].at = "wait" /\ call[u].on = t
              => call'[u].at = "woken"
    PROVE  IInv'
<1>1. \A u \in Threads : u # t => /\ call'[u].entry = call[u].entry
                                  /\ call'[u] = call[u] \/ call'[u].at = "woken"
  <2>1. call[t].well \in BOOLEAN /\ \A u \in Threads : call[u] \in Call
    BY DEF IInv, TypeOK, Call
  <2>2. QED BY <2>1, WokenFacts
<1>2. call'[t].at = "idle" /\ ~call'[t].well
  BY Fresh
<1>3. /\ \A u \in Threads : call'[u].entry \in Referred(order, call')
      /\ \A x \in InTable : x \in Referred(order, call')
      /\ InTable' = InTable
  BY DEF Referred, InTable
<1>4. /\ \A x \in Entries : x \in Referred(order, call') => entry'[x] = entry[x]
      /\ \A x \in Entries : entry'[x] = entry[x] \/ entry'[x] = NewEntry
  BY CollectedFacts DEF IInv, TypeOK
<1>5. \A u \in Threads : u # t /\ call[u].entry \in Entries
                          => entry'[call[u].entry] = entry[call[u].entry]
  BY <1>1, <1>3, <1>4
<1>6. Refers'
  BY <1>1, <1>2 DEF IInv, Refers, Idle
<1>7. Flights'
  <2>1. ASSUME NEW x \in Entries, Flying(entry'[x])
        PROVE  /\ x \in InTable' /\ call'[entry'[x].flight].at = "fetch"
               /\ call'[entry'[x].flight].entry = x
    <3>1. entry'[x] = entry[x]
      BY <2>1, <1>4, Fresh
    <3>2. /\ x \in InTable /\ call[entry[x].flight].at = "fetch"
          /\ call[entry[x].flight].entry = x /\ entry[x].flight \in Threads
      BY <2>1, <3>1 DEF IInv, Flights, TypeOK, Entry, Flying
    <3>3. entry[x].flight # t /\ call'[entry[x].flight] = call[entry[x].flight]
      BY <3>2
    <3>4. QED BY <3>1, <3>2, <3>3, <1>3
  <2>2. ASSUME NEW u \in Threads, call'[u].at = "fetch"
        PROVE  entry'[call'[u].entry].flight = u
    <3>1. u # t /\ call'[u] = call[u]
      BY <2>2, <1>1, <1>2
    <3>2. QED BY <2>2, <3>1, <1>5 DEF IInv, Flights, Refers, Idle
  <2>3. QED BY <2>1, <2>2 DEF Flights
<1>8. WaitsForAFlight'
  <2> SUFFICES ASSUME NEW u \in Threads, call'[u].at = "wait"
               PROVE  /\ call'[u].on \in Threads
                      /\ call'[call'[u].on].at \in {"fetch", "signal"}
                      /\ call'[call'[u].on].entry = call'[u].entry
    BY DEF WaitsForAFlight
  <2>1. u # t /\ call'[u] = call[u] /\ call[u].on # t
    BY <1>1, <1>2
  <2>2. /\ call[u].on \in Threads /\ call[call[u].on].at \in {"fetch", "signal"}
        /\ call[call[u].on].entry = call[u].entry
    BY <2>1 DEF IInv, WaitsForAFlight
  <2>3. call'[call[u].on] = call[call[u].on]
    BY <2>1, <2>2
  <2>4. QED BY <2>1, <2>2, <2>3
<1>9. Learnt'
  <2> SUFFICES ASSUME NEW u \in Threads, call'[u].well, call'[u].at \in {"signal", "woken"}
               PROVE  entry'[call'[u].entry].has
    BY DEF Learnt
  <2>1. u # t
    BY <1>2
  <2>2. CASE call'[u] = call[u]
    BY <2>1, <2>2, <1>5 DEF IInv, Learnt, Refers, Idle
  <2>3. CASE /\ call[u].at = "wait" /\ call[u].on = t /\ call[t].at = "signal"
             /\ call'[u] = Woken(call[u], call[t].well)
    <3>1. call[t].well /\ call[t].entry = call[u].entry /\ call[u].entry \in Entries
      BY <2>3, WokenFacts DEF IInv, WaitsForAFlight, Refers, Idle, TypeOK, Call
    <3>2. entry[call[u].entry].has
      BY <2>3, <3>1 DEF IInv, Learnt
    <3>3. QED BY <2>1, <3>1, <3>2, <1>1, <1>5
  <2>4. QED BY <2>1, <2>2, <2>3
<1>10. QED BY <1>6, <1>7, <1>8, <1>9 DEF IInv
LEMMA StepIInv ==
    ASSUME IInv, NEW t \in Threads, Step(t) \/ GiveUp(t)
    PROVE  IInv'
<1>1. TypeOK'
  BY StepType DEF IInv
<1>2. CASE FetchEnds(t)
  <2>1. Held(t) \in Entry
    BY <1>2 DEF FetchEnds, FetchReturns, FetchRaises, FetchIsKilled, Land, IInv,
                Refers, Idle, Held, TypeOK
  <2>2. /\ [Held(t) EXCEPT !.has = TRUE, !.age = 0, !.failed = ErrorTTL] \in Entry
        /\ [Held(t) EXCEPT !.has = TRUE, !.age = 0, !.failed = ErrorTTL].has
        /\ [Held(t) EXCEPT !.failed = 0] \in Entry
        /\ [Held(t) EXCEPT !.failed = 0].has = Held(t).has
    BY <2>1, Numbers DEF Entry
  <2>3. QED
    BY <1>1, <1>2, <2>1, <2>2, LandIInv
       DEF FetchEnds, FetchReturns, FetchRaises, FetchIsKilled
<1>3. CASE Signal(t)
  <2>1. /\ call[t].at = "signal" /\ call'[t] = NoCall
        /\ UNCHANGED order /\ entry' = Collected(entry, order, call')
        /\ \A u \in Threads : u # t =>
             \/ call'[u] = call[u]
             \/ /\ call[u].at = "wait" /\ call[u].on = t
                /\ call'[u] = Woken(call[u], call[t].well)
        /\ \A u \in Threads : u # t /\ call[u].at = "wait" /\ call[u].on = t
             => call'[u] = Woken(call[u], call[t].well)
    BY <1>3 DEF Signal
  <2>2. call[t].well \in BOOLEAN /\ \A u \in Threads : call[u] \in Call
    BY DEF IInv, TypeOK, Call
  <2>3. \A u \in Threads : Woken(call[u], call[t].well).at = "woken"
    BY <2>2, WokenFacts
  <2>4. QED BY <1>1, <2>1, <2>3, LeaveIInv
<1>4. CASE Return(t)
  <2>1. /\ call[t].at \in {"answer", "default"} /\ call'[t] = NoCall
        /\ UNCHANGED order /\ entry' = Collected(entry, order, call')
        /\ \A u \in Threads : u # t => call'[u] = call[u]
    BY <1>4 DEF Return, IInv, TypeOK
  <2>2. \A u \in Threads : call[u].at = "wait" => call[u].on # t
    BY <2>1 DEF IInv, WaitsForAFlight
  <2>3. QED BY <1>1, <2>1, <2>2, LeaveIInv
<1>5. CASE GiveUp(t) \/ ReadBack(t)
  <2>1. /\ call[t].at \in {"wait", "woken"}
        /\ call'[t].at \in {"woken", "answer", "default"}
        /\ call'[t].entry = call[t].entry
        /\ call'[t].at = "woken" => ~call'[t].well
        /\ \A u \in Threads : u # t => call'[u] = call[u]
        /\ UNCHANGED <<order, entry>>
    <3>1. CASE GiveUp(t)
      BY <3>1, WokenFacts DEF GiveUp, IInv, TypeOK
    <3>2. CASE ReadBack(t)
      BY <3>2 DEF ReadBack, IInv, TypeOK, Call
    <3>3. QED BY <1>5, <3>1, <3>2
  <2>2. InTable' = InTable
    BY <2>1 DEF InTable
  <2>3. Refers'
    BY <2>1 DEF IInv, Refers, Idle
  <2>4. Flights'
    <3>1. \A x \in Entries : Flying(entry[x]) =>
             /\ entry[x].flight \in Threads /\ entry[x].flight # t
             /\ call'[entry[x].flight] = call[entry[x].flight]
      BY <2>1 DEF IInv, Flights, TypeOK, Entry, Flying
    <3>2. \A u \in Threads : call'[u].at = "fetch" => call'[u] = call[u]
      BY <2>1
    <3>3. QED BY <2>1, <2>2, <3>1, <3>2 DEF IInv, Flights, Flying
  <2>5. WaitsForAFlight'
    BY <2>1 DEF IInv, WaitsForAFlight
  <2>6. Learnt'
    BY <2>1 DEF IInv, Learnt
  <2>7. QED BY <1>1, <2>3, <2>4, <2>5, <2>6 DEF IInv
<1>6. QED BY <1>2, <1>3, <1>4, <1>5 DEF Step

LEMMA TickIInv == ASSUME IInv, Tick PROVE IInv'
<1>1. TypeOK'
  BY TickType DEF IInv
<1>2. /\ UNCHANGED <<order, call>>
      /\ \A e \in Entries : /\ entry'[e].flight = entry[e].flight
                            /\ entry'[e].has = entry[e].has
  BY DEF Tick, IInv, TypeOK, Entry
<1>3. InTable' = InTable
  BY <1>2 DEF InTable
<1>4. QED
  BY <1>1, <1>2, <1>3 DEF IInv, Refers, Idle, Flights, Flying, WaitsForAFlight, Learnt

LEMMA NextIInv == IInv /\ [Next]_vars => IInv'
<1> SUFFICES ASSUME IInv, [Next]_vars PROVE IInv'
  OBVIOUS
<1>1. CASE \E t \in Threads, k \in Keys : Get(t, k)
  BY <1>1, MissIInv, KnownIInv DEF Get
<1>2. CASE \E t \in Threads : Step(t) \/ GiveUp(t)
  BY <1>2, StepIInv
<1>3. CASE Tick
  BY <1>3, TickIInv
<1>4. CASE UNCHANGED vars
  BY <1>4 DEF vars, IInv, TypeOK, Refers, Idle, Flights, Flying, InTable,
              WaitsForAFlight, Learnt
<1>5. QED BY <1>1, <1>2, <1>3, <1>4 DEF Next

\* The invariant the theorems rest on: types, who fetches what, who waits for
\* whom, and what a fetch leaves behind.
THEOREM Inductive == Spec => []IInv
<1>1. Init => IInv
  <2> SUFFICES ASSUME Init PROVE IInv
    OBVIOUS
  <2>1. \A t \in Threads : call[t] = NoCall /\ call[t].at = "idle" /\ ~call[t].well
    BY Fresh DEF Init
  <2>2. \A e \in Entries : entry[e] = NewEntry /\ ~Flying(entry[e])
    BY Fresh DEF Init
  <2>3. order \in Seq(Entries) /\ DOMAIN order = {}
    BY EmptySeq, LenProperties DEF Init
  <2>4. TypeOK
    BY <2>3, Fresh DEF Init, TypeOK
  <2>5. QED BY <2>1, <2>2, <2>4 DEF IInv, Refers, Idle, Flights, WaitsForAFlight, Learnt
<1>2. QED BY <1>1, NextIInv, PTL DEF Spec

\* The table keeps one entry per key and every record its type.
THEOREM TypeCorrect == Spec => []TypeOK
BY Inductive, PTL DEF IInv

\* At most one fetch per key is going on, for every number of threads and however
\* small the table ("One fetch at a time per key").
THEOREM OneFetchPerKey == Spec => []OneFlight
<1>1. IInv => OneFlight
  <2> SUFFICES ASSUME IInv, NEW t \in Threads, NEW u \in Threads,
                      call[t].at = "fetch", call[u].at = "fetch",
                      KeyOf[call[t].entry] = KeyOf[call[u].entry]
               PROVE  t = u
    BY DEF OneFlight
  <2>1. /\ call[t].entry \in Entries /\ entry[call[t].entry].flight = t
        /\ call[u].entry \in Entries /\ entry[call[u].entry].flight = u
    BY DEF IInv, Refers, Idle, Flights
  <2>2. call[t].entry \in InTable /\ call[u].entry \in InTable
    BY <2>1, ConstantsAssumption DEF IInv, Flights, Flying
  <2>3. call[t].entry = call[u].entry
    BY <2>2, OrderFacts DEF IInv, InTable, OneEntryPerKey
  <2>4. QED BY <2>1, <2>3
<1>2. QED BY <1>1, Inductive, PTL

\* No wakeup is lost: who waits does so for a fetch that goes on or is about to
\* wake it.
THEOREM NoLostWakeup == Spec => []WaitsForAFlight
BY Inductive, PTL DEF IInv

\* Who waited for a fetch that returned gets its answer, unless that is too old,
\* whatever the table did with the entry.
THEOREM WaitersAreServed == Spec => WaiterIsServed
<1>1. IInv /\ [Next]_vars =>
        [\A t \in Threads :
           call[t].at = "woken" /\ call[t].well /\ call'[t].at = "default"
             => TooOld(Held(t))]_vars
  <2> SUFFICES ASSUME IInv, Next, NEW t \in Threads,
                      call[t].at = "woken", call[t].well, call'[t].at = "default"
               PROVE  TooOld(Held(t))
    OBVIOUS
  <2>1. ReadBack(t)
    <3>1. CASE \E u \in Threads, k \in Keys : Get(u, k)
      <4>1. PICK u \in Threads : \E c : /\ Idle(u) /\ call' = [call EXCEPT ![u] = c]
                                      \/ call' = call
        BY <3>1 DEF Get, Miss, Served, Join, Refetch, Asks
      <4>2. call'[t] = call[t]
        BY <4>1 DEF IInv, TypeOK, Idle
      <4>3. QED BY <4>2
    <3>2. CASE \E u \in Threads : (Step(u) \/ GiveUp(u)) /\ u # t
      <4>1. PICK u \in Threads : u # t /\ (Step(u) \/ GiveUp(u))
        BY <3>2
      <4>2. call'[t] = call[t]
        BY <4>1 DEF Step, FetchEnds, FetchReturns, FetchRaises, FetchIsKilled, Land,
                    Signal, ReadBack, Return, GiveUp, IInv, TypeOK
      <4>3. QED BY <4>2
    <3>3. CASE Step(t) \/ GiveUp(t)
      BY <3>3 DEF Step, FetchEnds, FetchReturns, FetchRaises, FetchIsKilled, Land,
                  Signal, Return, GiveUp
    <3>4. CASE Tick
      BY <3>4 DEF Tick
    <3>5. QED BY <3>1, <3>2, <3>3, <3>4 DEF Next
  <2>2. ~Found(t)
    BY <2>1 DEF ReadBack, IInv, TypeOK, Call
  <2>3. Held(t).has /\ Held(t) \in Entry
    BY DEF IInv, Learnt, Held, Refers, Idle, TypeOK
  <2>4. QED BY <2>2, <2>3, Numbers DEF Found, Usable, TooOld, Entry
<1>2. QED BY <1>1, Inductive, PTL DEF Spec, WaiterIsServed
\* Only two ways into a fetch: a new entry, or an entry of the table that may be
\* fetched.
LEMMA WaysToFetch ==
    ASSUME IInv, Next, NEW t \in Threads, call[t].at # "fetch", call'[t].at = "fetch"
    PROVE  \E k \in Keys : Miss(t, k) \/ Refetch(t, k)
<1>1. CASE \E u \in Threads, k \in Keys : Get(u, k)
  <2>1. PICK u \in Threads, k \in Keys : Get(u, k)
    BY <1>1
  <2>2. \/ UNCHANGED call
        \/ \E c : call' = [call EXCEPT ![u] = c]
    BY <2>1 DEF Get, Miss, Served, Join, Refetch
  <2>3. u = t
    BY <2>2 DEF IInv, TypeOK
  <2>4. ~Served(t, k)
    BY DEF Served
  <2>5. ~Join(t, k)
    <3> SUFFICES ASSUME Join(t, k) PROVE FALSE
      OBVIOUS
    <3>1. PICK i \in DOMAIN order :
            /\ Flying(entry[order[i]])
            /\ call' = [call EXCEPT ![t] = WaitingOn(entry[order[i]].flight, order[i])]
      BY DEF Join
    <3>2. order[i] \in Entries /\ entry[order[i]].flight \in Threads
      BY <3>1, OrderFacts DEF IInv, TypeOK, Entry, Flying
    <3>3. QED BY <3>1, <3>2, CallTypes DEF IInv, TypeOK
  <2>6. QED BY <2>1, <2>3, <2>4, <2>5 DEF Get
<1>2. CASE \E u \in Threads : Step(u) \/ GiveUp(u)
  <2>1. PICK u \in Threads : Step(u) \/ GiveUp(u)
    BY <1>2
  <2>2. call[u].well \in BOOLEAN /\ \A v \in Threads : call[v] \in Call
    BY DEF IInv, TypeOK, Call
  <2>3. /\ \A v \in Threads : Woken(call[v], call[u].well).at = "woken"
        /\ Woken(call[u], FALSE).at = "woken"
    BY <2>2, WokenFacts
  <2>4. CASE FetchEnds(u)
    BY <2>4 DEF FetchEnds, FetchReturns, FetchRaises, FetchIsKilled, Land, IInv, TypeOK, Call
  <2>5. CASE Signal(u)
    BY <2>3, <2>5, Fresh DEF Signal
  <2>6. CASE ReadBack(u)
    BY <2>6 DEF ReadBack, IInv, TypeOK, Call
  <2>7. CASE Return(u)
    BY <2>7, Fresh DEF Return, IInv, TypeOK
  <2>8. CASE GiveUp(u)
    BY <2>3, <2>8 DEF GiveUp, IInv, TypeOK
  <2>9. QED BY <2>1, <2>4, <2>5, <2>6, <2>7, <2>8 DEF Step
<1>3. CASE Tick
  BY <1>3 DEF Tick
<1>4. QED BY <1>1, <1>2, <1>3 DEF Next

\* While the failure of a key's last fetch is remembered, nobody calls the service
\* for it ("an outage costs one failed call per key per minute").
THEOREM OutageIsCheap == Spec => OutageCostsOneCall
<1>1. IInv /\ [Next]_vars =>
        [\A e \in InTable, t \in Threads :
           BackingOff(entry[e]) /\ call[t].at # "fetch" /\ call'[t].at = "fetch"
             => KeyOf[call'[t].entry] # KeyOf[e]]_vars
  <2> SUFFICES ASSUME IInv, Next, NEW e \in InTable, NEW t \in Threads,
                      BackingOff(entry[e]), call[t].at # "fetch", call'[t].at = "fetch"
               PROVE  KeyOf[call'[t].entry] # KeyOf[e]
    OBVIOUS
  <2>1. PICK k \in Keys : Miss(t, k) \/ Refetch(t, k)
    BY WaysToFetch
  <2>2. CASE Miss(t, k)
    <3>1. PICK x \in Entries : KeyOf[x] = k /\ call' = [call EXCEPT ![t] = Fetching(x)]
      BY ZenonT(30), <2>2, MissFacts DEF IInv
    <3>2. call'[t] = Fetching(x)
      BY <3>1 DEF IInv, TypeOK
    <3>3. Fetching(x).entry = x
      BY CallTypes
    <3>4. call'[t].entry = x
      BY <3>2, <3>3
    <3>5. KeyOf[e] # k
      BY <2>2 DEF Miss, Known
    <3>6. QED BY <3>1, <3>4, <3>5
  <2>3. CASE Refetch(t, k)
    <3>1. PICK i \in DOMAIN order :
            ~BackingOff(entry[order[i]]) /\ call' = [call EXCEPT ![t] = Fetching(order[i])]
      BY <2>3 DEF Refetch, AtOnce
    <3>2. order[i] \in Entries /\ call'[t].entry = order[i]
      BY <3>1, OrderFacts DEF IInv, TypeOK, Fetching, NoCall
    <3>3. order[i] # e
      BY <3>1
    <3>4. QED BY <3>1, <3>2, <3>3, OrderFacts DEF IInv, InTable, OneEntryPerKey
  <2>4. QED BY <2>1, <2>2, <2>3
<1>2. QED BY <1>1, Inductive, PTL DEF Spec, OutageCostsOneCall

-----------------------------------------------------------------------------
(* One outbound fetch. *)

FetchSteps == {"checks", "connects", "answered", "returned", "refused"}

HopInv ==
    /\ hop \in 0..(MaxRedirects + 1)
    /\ fetchAt \in {"checks", "connects"} => hop <= MaxRedirects

\* The addresses still to try are public; what goes to them has passed the policy; and
\* what has the caller's headers, or a body, goes where the caller said.
FetchInv ==
    /\ mode \in Modes /\ url \in URLs /\ first \in URLs
    /\ method \in {"GET", "POST"} /\ keyed \in BOOLEAN
    /\ fetchAt \in FetchSteps
    /\ addresses \in Seq(Addresses \ Internal)
    /\ fetchAt = "connects" => Policy(url)
    /\ keyed \/ method # "GET" => url = first
    /\ mode = "public redirects" => method = "GET"
    /\ OnlyWhatWasChecked

LEMMA InitFetch == FetchInit => FetchInv /\ HopInv
<1> SUFFICES ASSUME FetchInit PROVE FetchInv /\ HopInv
  OBVIOUS
<1>1. hop = 0 /\ addresses = <<>> /\ fetchAt = "checks" /\ first = url /\ keyed = TRUE
      /\ mode \in Modes /\ url \in URLs /\ sent = NoRequest
      /\ method \in {"GET", "POST"} /\ (mode = "public redirects" => method = "GET")
  BY DEF FetchInit
<1>2. addresses \in Seq(Addresses \ Internal)
  <2>1. addresses = <<>>
    BY <1>1
  <2>2. QED BY <2>1
<1>3. FetchInv
  BY <1>1, <1>2 DEF FetchInv, FetchSteps, OnlyWhatWasChecked
<1>4. HopInv
  <2>1. hop = 0 /\ MaxRedirects \in Nat
    BY <1>1, FetchAssumption
  <2>2. QED BY <2>1 DEF HopInv
<1>5. QED BY <1>3, <1>4

\* The first of the checked addresses, in any order.
LEMMA CheckedArePublic ==
    ASSUME NEW answer \in SUBSET Addresses, Checked(answer), NEW s \in SetToSeqs(answer)
    PROVE  FirstOf(s) \in Seq(Addresses \ Internal)
<1>1. answer \subseteq Addresses \ Internal
  BY DEF Checked
<1>2. IsFiniteSet(answer)
  BY FetchAssumption, FS_Subset
<1>3. s \in Seq(Addresses \ Internal)
  <2>1. s \in Seq(answer)
    BY <1>2, QueueOfSet
  <2>2. QED BY <1>1, <2>1
<1>4. QED BY <1>3, FetchAssumption DEF FirstOf

LEMMA StepHop == FetchInv /\ HopInv /\ [FetchNext]_fetchVars => HopInv'
<1> SUFFICES ASSUME FetchInv, HopInv, [FetchNext]_fetchVars PROVE HopInv'
  OBVIOUS
<1>0. MaxRedirects \in Nat /\ fetchAt \in FetchSteps
  BY FetchAssumption DEF FetchInv
<1>1. CASE UNCHANGED <<hop, fetchAt>>
  BY <1>1 DEF HopInv
<1>2. CASE hop' = hop /\ fetchAt' \in {"answered", "returned", "refused"}
  BY <1>0, <1>2 DEF HopInv
<1>3. CASE fetchAt = "checks" /\ fetchAt' = "connects" /\ hop' = hop
  BY <1>3 DEF HopInv
<1>4. CASE fetchAt = "connects" /\ fetchAt' = "answered" /\ hop' = hop + 1
  BY <1>0, <1>4 DEF HopInv
<1>5. CASE hop <= MaxRedirects /\ hop' = hop
  BY <1>0, <1>5 DEF HopInv
<1>6. CASE Check
  BY <1>2, <1>3, <1>6 DEF Check, Refuse
<1>7. CASE Connect
  BY <1>1, <1>2, <1>4, <1>7 DEF Connect
<1>8. CASE NoAddressLeft \/ HandBack \/ TooManyHops
  BY <1>2, <1>8 DEF NoAddressLeft, HandBack, TooManyHops, Refuse
<1>9. CASE Redirect
  BY <1>5, <1>9 DEF Redirect, Refuse
<1>10. QED BY <1>1, <1>6, <1>7, <1>8, <1>9 DEF FetchNext, fetchVars

LEMMA StepFetch == FetchInv /\ [FetchNext]_fetchVars => FetchInv'
<1> SUFFICES ASSUME FetchInv, [FetchNext]_fetchVars PROVE FetchInv'
  OBVIOUS
<1>1. CASE UNCHANGED fetchVars
  BY <1>1 DEF fetchVars, FetchInv, Policy, Safe, OnlyWhatWasChecked
<1>2. CASE Refuse
  BY <1>2 DEF Refuse, FetchInv, FetchSteps, OnlyWhatWasChecked, Safe
<1>3. CASE Check
  <2>1. CASE \E answer \in SUBSET Addresses :
                /\ Policy(url) /\ Checked(answer)
                /\ addresses' \in {FirstOf(s) : s \in SetToSeqs(answer)}
                /\ fetchAt' = "connects"
                /\ UNCHANGED <<mode, hop, url, method, keyed, first, sent>>
    <3>1. addresses' \in Seq(Addresses \ Internal)
      BY <2>1, CheckedArePublic
    <3>2. Policy(url)' /\ fetchAt' = "connects"
      BY <2>1 DEF Policy, Safe
    <3>3. UNCHANGED <<mode, url, method, keyed, first, sent>>
      BY <2>1
    <3>4. QED BY <3>1, <3>2, <3>3 DEF FetchInv, FetchSteps, OnlyWhatWasChecked, Safe
  <2>2. QED BY <1>2, <1>3, <2>1 DEF Check
<1>4. CASE Connect
  <2>1. /\ addresses \in Seq(Addresses \ Internal) /\ addresses # <<>>
        /\ fetchAt = "connects" /\ UNCHANGED <<mode, url, method, keyed, first>>
        /\ sent' = [url |-> url, address |-> Head(addresses), method |-> method, keyed |-> keyed]
    BY <1>4 DEF Connect, FetchInv
  <2>2. Head(addresses) \in Addresses \ Internal /\ Tail(addresses) \in Seq(Addresses \ Internal)
    BY <2>1, QueueShrinks
  <2>3. addresses' \in Seq(Addresses \ Internal) /\ fetchAt' \in FetchSteps
    BY <1>4, <2>1, <2>2 DEF Connect, FetchInv, FetchSteps
  <2>4. Policy(url) /\ Policy(url)'
    BY <2>1 DEF FetchInv, Policy, Safe
  <2>5. OnlyWhatWasChecked'
    <3>1. Safe' => url.scheme = "https" /\ url.host \in Listed
      BY <2>1, <2>4 DEF Policy, Safe
    <3>2. keyed \/ method # "GET" => url = first
      BY DEF FetchInv
    <3>3. QED BY <2>1, <2>2, <3>1, <3>2 DEF OnlyWhatWasChecked
  <2>6. QED BY <2>1, <2>3, <2>4, <2>5 DEF FetchInv
<1>5. CASE NoAddressLeft \/ TooManyHops
  BY <1>2, <1>5 DEF NoAddressLeft, TooManyHops
<1>6. CASE HandBack
  BY <1>6 DEF HandBack, FetchInv, FetchSteps, OnlyWhatWasChecked, Safe
<1>7. CASE Redirect
  <2>1. PICK target \in URLs, next \in Redirected(method) :
           IF Safe /\ (~Policy(target) \/ (~SameOrigin(target) /\ next # "GET"))
           THEN Refuse
           ELSE /\ url' = target /\ method' = next /\ keyed' = Keeps(target)
                /\ fetchAt' = "checks" /\ addresses' = <<>>
                /\ UNCHANGED <<mode, hop, first, sent>>
    BY <1>7 DEF Redirect
  <2>2. CASE ~(Safe /\ (~Policy(target) \/ (~SameOrigin(target) /\ next # "GET")))
    <3>1. /\ url' = target /\ method' = next /\ keyed' = Keeps(target)
          /\ fetchAt' = "checks" /\ addresses' = <<>> /\ UNCHANGED <<mode, hop, first, sent>>
      BY <2>1, <2>2
    <3>2. method' \in {"GET", "POST"} /\ (method = "GET" => method' = "GET")
      BY <3>1 DEF Redirected, FetchInv
    <3>3. mode = "public redirects" => method' = "GET"
      BY <3>2 DEF FetchInv
    <3>4. keyed' \in BOOLEAN /\ (keyed' => target = first)
      BY <3>1 DEF Keeps, SameOrigin, FetchInv
    <3>5. method' # "GET" => target = first
      <4>1. Safe \/ mode = "public redirects"
        BY <1>7 DEF Redirect, Follows, Safe
      <4>2. Safe /\ next # "GET" => target = first
        BY <2>2 DEF SameOrigin
      <4>3. QED BY <3>1, <3>3, <4>1, <4>2
    <3>6. addresses' \in Seq(Addresses \ Internal) /\ url' \in URLs /\ fetchAt' \in FetchSteps
      BY <3>1 DEF FetchSteps
    <3>7. OnlyWhatWasChecked'
      BY <3>1 DEF FetchInv, OnlyWhatWasChecked, Safe
    <3>8. QED BY <3>1, <3>2, <3>3, <3>4, <3>5, <3>6, <3>7 DEF FetchInv
  <2>3. QED BY <1>2, <2>1, <2>2
<1>8. QED BY <1>1, <1>3, <1>4, <1>5, <1>6, <1>7 DEF FetchNext

LEMMA FetchInvHolds == FetchSpec => [](FetchInv /\ HopInv)
<1>1. FetchInv /\ HopInv /\ [FetchNext]_fetchVars => (FetchInv /\ HopInv)'
  BY StepFetch, StepHop
<1>2. QED BY <1>1, InitFetch, PTL DEF FetchSpec

\* A fetch, its hops, its URLs and the addresses it has left are of their types.
THEOREM FetchTypeCorrect == FetchSpec => []FetchTypeOK
<1>1. ASSUME FetchInv, HopInv PROVE FetchTypeOK
  <2>1. Range(addresses) \subseteq Addresses
    <3>1. addresses \in Seq(Addresses \ Internal)
      BY <1>1 DEF FetchInv
    <3>2. QED BY <3>1 DEF Range
  <2>2. QED BY <1>1, <2>1 DEF FetchInv, HopInv, FetchTypeOK, FetchSteps
<1>2. QED BY <1>1, FetchInvHolds, PTL

\* Whatever a name resolves to and a server redirects to, a request goes to an address
\* that was checked, and what is the caller's own goes to the caller's own URL.
THEOREM RequestsAreChecked == FetchSpec => []OnlyWhatWasChecked
<1>1. FetchInv => OnlyWhatWasChecked
  BY DEF FetchInv
<1>2. QED BY <1>1, FetchInvHolds, PTL

=============================================================================
