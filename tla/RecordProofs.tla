---------------------------- MODULE RecordProofs ----------------------------
(***************************************************************************)
(* What IPLookup, DnsRecon, Projects and Settings keep, for any number of   *)
(* lookups, hosts, addresses, projects, rows, hits, entries and requests;   *)
(* and that Settings implements SettingsFile.                               *)
(***************************************************************************)
EXTENDS IPLookup, DnsRecon, Projects, Settings, QueueLemmas, TLAPS

-----------------------------------------------------------------------------
(* Lookups of an address. *)

RequestSteps == {"new", "saves", "sets", "queues", "skips", "done"}
PacerExtras == {"none", "complete", "failed"}

\* The thread, when it works: for a lookup, whose row it will complete.
Working == pacer.at \in {"turn", "files", "saves"}

\* The oldest call of the window is its first one.
WindowInv ==
    /\ window \in Seq(Nat) /\ Len(window) <= MaxCalls
    /\ \A i \in DOMAIN window : window[i] < Per
    /\ \A i, j \in DOMAIN window : i < j => window[i] >= window[j]

QueueInv ==
    /\ pacedQueue \in Seq(Lookups) /\ Len(pacedQueue) <= MaxPending
    /\ pacer \in [for : Lookups \cup {"nobody"}, at : {"none", "idle", "turn", "files", "saves"},
                  extras : PacerExtras]
    /\ Working => pacer.for \in Lookups
    /\ kept \subseteq {IpOf[k] : k \in Lookups} /\ excused \subseteq Lookups

Busy(l) == request[l] # "done" \/ l \in Range(pacedQueue) \/ (Working /\ pacer.for = l)

\* A row is there once its request saved it, and says that it is running before the
\* lookup is queued; a thread that rests works for nobody.
RowInv(l) ==
    /\ request[l] \in {"new", "saves"} => row[l] = NoRow
    /\ row[l].extras = "pending" =>
          /\ row[l].status # "none"
          /\ Busy(l) \/ l \in excused
          /\ row[l].status = "completed" => request[l] = "sets" \/ l \in excused

LookupInv ==
    /\ request \in [Lookups -> RequestSteps] /\ row \in [Lookups -> Row]
    /\ WindowInv /\ QueueInv
    /\ \A l \in Lookups : RowInv(l)

LEMMA InitLookup == LookupInit => LookupInv
BY LookupAssumption
DEF LookupInit, LookupInv, WindowInv, QueueInv, RowInv, Working, Busy, NoRow, Row, Resting,
    RequestSteps, PacerExtras

\* A write of a row: made, made to no row, or failed.
LEMMA Written ==
    ASSUME LookupInv, NEW l \in Lookups, NEW to \in Row, Update(l, to)
    PROVE  /\ row' \in [Lookups -> Row] /\ excused' \subseteq Lookups /\ excused \subseteq excused'
           /\ \A k \in Lookups \ {l} : row'[k] = row[k]
           /\ \/ row'[l] = row[l] /\ row' = row /\ l \in excused'
              \/ row'[l] = row[l] /\ row[l] = NoRow /\ excused' = excused
              \/ row'[l] = to /\ row[l] # NoRow /\ excused' = excused
BY DEF LookupInv, QueueInv, Update

\* What a step leaves to a lookup it is not about.
LEMMA OtherLookup ==
    ASSUME NEW k \in Lookups, RowInv(k), request'[k] = request[k], row'[k] = row[k],
           Busy(k) => Busy(k)', excused \subseteq excused'
    PROVE  RowInv(k)'
BY DEF RowInv

LEMMA StepRequest ==
    ASSUME LookupInv, NEW l \in Lookups,
           Investigate(l) \/ SaveRow(l) \/ SetRunning(l) \/ Delete(l)
    PROVE  LookupInv'
<1>0. /\ request \in [Lookups -> RequestSteps] /\ row \in [Lookups -> Row]
      /\ WindowInv /\ QueueInv /\ MaxCalls \in Nat /\ Per \in Nat /\ Per > 0
      /\ \A k \in Lookups : RowInv(k)
  BY LookupAssumption DEF LookupInv
<1>1. UNCHANGED <<pacedQueue, pacer, kept>>
  BY DEF Investigate, SaveRow, SetRunning, Delete
<1>2. WindowInv'
  <2>1. CASE UNCHANGED window
    BY <1>0, <2>1 DEF WindowInv
  <2>2. CASE Take
    <3>1. /\ window \in Seq(Nat) /\ Len(window) < MaxCalls /\ window' = Append(window, 0)
          /\ \A i \in 1..Len(window) : window[i] < Per
          /\ \A i, j \in 1..Len(window) : i < j => window[i] >= window[j]
      BY <1>0, <2>2 DEF WindowInv, Take, MayTake
    <3>2. /\ window' \in Seq(Nat) /\ Len(window') = Len(window) + 1
          /\ \A i \in 1..Len(window) : window'[i] = window[i] /\ window[i] \in Nat
          /\ window'[Len(window) + 1] = 0
      BY <3>1
    <3>3. QED BY <1>0, <3>1, <3>2 DEF WindowInv
  <2>3. QED BY <2>1, <2>2 DEF Investigate, SaveRow, SetRunning, Delete
<1>3. \A k \in Lookups \ {l} : request'[k] = request[k] /\ row'[k] = row[k]
  BY <1>0 DEF Investigate, SaveRow, SetRunning, Delete, RequestGoes, Update
<1>4. request' \in [Lookups -> RequestSteps] /\ row' \in [Lookups -> Row]
  BY <1>0 DEF Investigate, SaveRow, SetRunning, Delete, RequestGoes, Update, RequestSteps, Row, NoRow
<1>5. excused \subseteq excused' /\ excused' \subseteq Lookups
  BY <1>0 DEF Investigate, SaveRow, SetRunning, Delete, Update, QueueInv
<1>6. \A k \in Lookups \ {l} : Busy(k) => Busy(k)'
  BY <1>1, <1>3 DEF Busy, Working
<1>7. \A k \in Lookups \ {l} : RowInv(k)'
  BY <1>0, <1>3, <1>5, <1>6, OtherLookup
<1>8. RowInv(l)'
  <2>1. CASE Investigate(l)
    BY <1>0, <1>1, <2>1 DEF Investigate, RequestGoes, RowInv, Busy, Working, NoRow
  <2>2. CASE SaveRow(l)
    BY <1>0, <1>1, <2>2 DEF SaveRow, RequestGoes, RowInv, Busy, Working, NoRow
  <2>3. CASE SetRunning(l)
    <3>1. [row[l] EXCEPT !.status = "running"] \in Row
      BY <1>0 DEF Row
    <3>2. /\ request[l] = "sets" /\ request'[l] \in {"queues", "done"}
          /\ request'[l] = "queues" \/ l \in excused'
      BY <1>0, <2>3 DEF SetRunning, RequestGoes, Update
    <3>3. \/ row'[l] = row[l] /\ l \in excused'
          \/ row'[l] = row[l] /\ row[l] = NoRow
          \/ row'[l] = [row[l] EXCEPT !.status = "running"]
      BY <2>3, <3>1, Written DEF SetRunning
    <3>4. QED BY <1>0, <3>2, <3>3 DEF RowInv, Busy, NoRow, Row
  <2>4. CASE Delete(l)
    BY <1>0, <2>4 DEF Delete, RowInv, NoRow
  <2>5. QED BY <2>1, <2>2, <2>3, <2>4
<1>9. QueueInv'
  BY <1>0, <1>1, <1>5 DEF QueueInv, Working
<1>10. QED BY <1>2, <1>4, <1>7, <1>8, <1>9 DEF LookupInv

LEMMA StepQueued ==
    ASSUME LookupInv, NEW l \in Lookups,
           ExtrasKnown(l) \/ Enqueue(l) \/ Full(l) \/ Skipped(l)
    PROVE  LookupInv'
<1>0. /\ request \in [Lookups -> RequestSteps] /\ row \in [Lookups -> Row]
      /\ WindowInv /\ QueueInv /\ RowInv(l) /\ \A k \in Lookups : RowInv(k)
  BY DEF LookupInv
<1>1. UNCHANGED <<window, kept>> /\ WindowInv'
  BY <1>0 DEF ExtrasKnown, Enqueue, Full, Skipped, WindowInv
<1>2. /\ request' \in [Lookups -> RequestSteps]
      /\ \A k \in Lookups \ {l} : request'[k] = request[k]
      /\ request'[l] \in {"skips", "done"}
  BY <1>0 DEF ExtrasKnown, Enqueue, Full, Skipped, RequestGoes, AfterFull, RequestSteps
<1>3. CASE ExtrasKnown(l) \/ Skipped(l)
  <2>1. PICK to \in Row : Update(l, to) /\ to.extras # "pending"
    BY <1>3 DEF ExtrasKnown, Skipped, Complete, Row
  <2>2. /\ row' \in [Lookups -> Row] /\ excused' \subseteq Lookups /\ excused \subseteq excused'
        /\ \A k \in Lookups \ {l} : row'[k] = row[k]
        /\ l \in excused' \/ row'[l].extras # "pending"
    <3>1. NoRow.extras # "pending"
      BY DEF NoRow
    <3>2. QED BY <2>1, <3>1, Written
  <2>3. UNCHANGED <<pacedQueue, pacer>>
    BY <1>3 DEF ExtrasKnown, Skipped
  <2>4. QueueInv'
    BY <1>0, <1>1, <2>2, <2>3 DEF QueueInv, Working
  <2>5. \A k \in Lookups \ {l} : RowInv(k)'
    BY <1>0, <1>2, <2>2, <2>3, OtherLookup DEF Busy, Working
  <2>6. RowInv(l)'
    <3>1. row'[l].extras = "pending" => row'[l] = row[l]
      BY <2>1, <2>2, Written
    <3>2. QED BY <1>0, <1>2, <2>2, <3>1 DEF RowInv
  <2>7. QED BY <1>1, <1>2, <2>2, <2>4, <2>5, <2>6 DEF LookupInv
<1>4. CASE Enqueue(l)
  <2>1. /\ pacedQueue' = Append(pacedQueue, l) /\ Len(pacedQueue) < MaxPending
        /\ UNCHANGED <<row, excused>> /\ MaxPending \in Nat
        /\ pacedQueue \in Seq(Lookups) /\ request[l] = "queues"
    BY <1>0, <1>4, LookupAssumption DEF Enqueue, QueueInv
  <2>2. /\ pacedQueue' \in Seq(Lookups) /\ Len(pacedQueue') <= MaxPending
        /\ Range(pacedQueue') = Range(pacedQueue) \cup {l}
    <3>1. Len(pacedQueue') = Len(pacedQueue) + 1 /\ Len(pacedQueue) \in Nat
      BY <2>1, QueueGrows
    <3>2. QED BY <2>1, <3>1, QueueGrows
  <2>3. /\ pacer' \in [for : Lookups \cup {"nobody"},
                       at : {"none", "idle", "turn", "files", "saves"}, extras : PacerExtras]
        /\ pacer' = pacer \/ (~Working /\ ~Working')
        /\ Working' => pacer'.for \in Lookups
    BY <1>0, <1>4 DEF Enqueue, QueueInv, Working, Resting, PacerExtras
  <2>4. QueueInv'
    BY <1>0, <1>1, <2>1, <2>2, <2>3 DEF QueueInv
  <2>5. \A k \in Lookups \ {l} : RowInv(k)'
    <3>1. \A k \in Lookups \ {l} : Busy(k) => Busy(k)'
      BY <1>2, <2>2, <2>3 DEF Busy, Working
    <3>2. QED BY <1>0, <1>2, <2>1, <3>1, OtherLookup
  <2>6. RowInv(l)'
    <3>1. Busy(l)' /\ row' = row /\ excused' = excused
      BY <2>1, <2>2 DEF Busy
    <3>2. QED BY <1>0, <1>2, <2>1, <3>1 DEF RowInv
  <2>7. QED BY <1>0, <1>1, <1>2, <2>1, <2>4, <2>5, <2>6 DEF LookupInv
<1>5. CASE Full(l)
  <2>1. UNCHANGED <<row, pacedQueue, pacer, excused>> /\ request[l] = "queues" /\ request'[l] = "skips"
    BY <1>0, <1>5 DEF Full, RequestGoes, AfterFull
  <2>2. QueueInv'
    BY <1>0, <1>1, <2>1 DEF QueueInv, Working
  <2>3. \A k \in Lookups : Busy(k) => Busy(k)'
    BY <1>2, <2>1 DEF Busy, Working
  <2>4. RowInv(l)'
    BY <1>0, <2>1, <2>3 DEF RowInv
  <2>5. \A k \in Lookups \ {l} : RowInv(k)'
    BY <1>0, <1>2, <2>1, <2>3, OtherLookup
  <2>6. QED BY <1>0, <1>1, <1>2, <2>1, <2>2, <2>4, <2>5 DEF LookupInv
<1>6. QED BY <1>3, <1>4, <1>5

LEMMA StepPacer ==
    ASSUME LookupInv, PacerTakes \/ Resolutions \/ Files \/ PacerSaves
    PROVE  LookupInv'
<1>0. /\ request \in [Lookups -> RequestSteps] /\ row \in [Lookups -> Row]
      /\ WindowInv /\ QueueInv /\ \A k \in Lookups : RowInv(k)
      /\ MaxCalls \in Nat /\ Per \in Nat /\ Per > 0
  BY LookupAssumption DEF LookupInv
<1> DEFINE Pacers == [for : Lookups \cup {"nobody"},
                      at : {"none", "idle", "turn", "files", "saves"}, extras : PacerExtras]
<1>p. pacer \in Pacers /\ (Working => pacer.for \in Lookups) /\ pacedQueue \in Seq(Lookups)
  BY <1>0 DEF QueueInv
<1>r. UNCHANGED request
  BY DEF PacerTakes, Resolutions, Files, PacerSaves
<1>1. CASE PacerTakes
  <2>1. /\ pacedQueue' = Tail(pacedQueue) /\ pacedQueue # <<>> /\ ~Working
        /\ pacer' = [for |-> Head(pacedQueue), at |-> "turn", extras |-> "none"]
        /\ UNCHANGED <<row, window, kept, excused>>
    BY <1>1 DEF PacerTakes, Working
  <2>2. /\ pacedQueue' \in Seq(Lookups) /\ Head(pacedQueue) \in Lookups
        /\ Len(pacedQueue') = Len(pacedQueue) - 1 /\ Len(pacedQueue) \in Nat
        /\ Range(pacedQueue) = Range(pacedQueue') \cup {Head(pacedQueue)}
    BY <1>p, <2>1, QueueShrinks
  <2>3. pacer' \in Pacers /\ Working' /\ pacer'.for = Head(pacedQueue)
    BY <2>1, <2>2 DEF Working, PacerExtras
  <2>4. Len(pacedQueue') <= MaxPending
    BY <1>0, <2>2, LookupAssumption DEF QueueInv
  <2>5. QueueInv'
    BY <1>0, <2>1, <2>2, <2>3, <2>4 DEF QueueInv
  <2>6. \A k \in Lookups : Busy(k) => Busy(k)'
    BY <1>r, <2>1, <2>2, <2>3 DEF Busy
  <2>7. \A k \in Lookups : RowInv(k)'
    BY <1>0, <1>r, <2>1, <2>6, OtherLookup
  <2>8. QED BY <1>0, <1>r, <2>1, <2>5, <2>7 DEF LookupInv, WindowInv
<1>2. CASE Resolutions \/ Files
  <2>1. Take /\ UNCHANGED <<row, pacedQueue, excused>> /\ Working
    BY <1>2 DEF Resolutions, Files, Working
  <2>2. WindowInv'
    <3>1. /\ window \in Seq(Nat) /\ Len(window) < MaxCalls /\ window' = Append(window, 0)
          /\ \A i \in 1..Len(window) : window[i] < Per
          /\ \A i, j \in 1..Len(window) : i < j => window[i] >= window[j]
      BY <1>0, <2>1 DEF WindowInv, Take, MayTake
    <3>2. /\ window' \in Seq(Nat) /\ Len(window') = Len(window) + 1
          /\ \A i \in 1..Len(window) : window'[i] = window[i] /\ window[i] \in Nat
          /\ window'[Len(window) + 1] = 0
      BY <3>1
    <3>3. QED BY <1>0, <3>1, <3>2 DEF WindowInv
  <2>3. pacer' \in Pacers /\ pacer'.for = pacer.for /\ Working'
    BY <1>p, <1>2 DEF Resolutions, Files, Working, PacerExtras
  <2>4. kept' \subseteq {IpOf[k] : k \in Lookups}
    BY <1>0, <1>p, <1>2, <2>1 DEF Resolutions, Files, QueueInv
  <2>5. QueueInv'
    BY <1>0, <1>p, <2>1, <2>3, <2>4 DEF QueueInv
  <2>6. \A k \in Lookups : Busy(k) => Busy(k)'
    BY <1>r, <2>1, <2>3 DEF Busy
  <2>7. \A k \in Lookups : RowInv(k)'
    BY <1>0, <1>r, <2>1, <2>6, OtherLookup
  <2>8. QED BY <1>0, <1>r, <2>1, <2>2, <2>5, <2>7 DEF LookupInv
<1>3. CASE PacerSaves
  <2>1. PICK l \in Lookups : /\ l = pacer.for /\ Complete(l, pacer.extras) /\ pacer' = Resting
                             /\ UNCHANGED <<pacedQueue, window, kept>>
    BY <1>p, <1>3 DEF PacerSaves, Working
  <2>2. PICK to \in Row : Update(l, to) /\ to.extras # "pending"
    BY <1>p, <2>1 DEF Complete, Row, PacerExtras
  <2>3. /\ row' \in [Lookups -> Row] /\ excused' \subseteq Lookups /\ excused \subseteq excused'
        /\ \A k \in Lookups \ {l} : row'[k] = row[k]
        /\ row'[l].extras = "pending" => l \in excused' /\ row'[l] = row[l]
        /\ row[l] = NoRow => row'[l] = NoRow
    <3>1. NoRow.extras # "pending"
      BY DEF NoRow
    <3>2. QED BY <2>2, <3>1, Written
  <2>4. pacer' \in Pacers /\ ~Working'
    BY <2>1 DEF Resting, Working, PacerExtras
  <2>5. QueueInv'
    BY <1>0, <1>p, <2>1, <2>3, <2>4 DEF QueueInv
  <2>6. \A k \in Lookups \ {l} : Busy(k) => Busy(k)'
    BY <1>r, <2>1 DEF Busy
  <2>7. \A k \in Lookups \ {l} : RowInv(k)'
    BY <1>0, <1>r, <2>3, <2>6, OtherLookup
  <2>8. RowInv(l)'
    BY <1>0, <1>r, <2>3 DEF RowInv, NoRow
  <2>9. QED BY <1>0, <1>r, <2>1, <2>3, <2>5, <2>7, <2>8 DEF LookupInv, WindowInv
<1>4. QED BY <1>1, <1>2, <1>3

LEMMA StepTime ==
    ASSUME LookupInv, WindowTick \/ Forget \/ LookupRestart
    PROVE  LookupInv'
<1>0. /\ request \in [Lookups -> RequestSteps] /\ row \in [Lookups -> Row]
      /\ WindowInv /\ QueueInv /\ \A k \in Lookups : RowInv(k)
      /\ MaxCalls \in Nat /\ Per \in Nat /\ MaxPending \in Nat
  BY LookupAssumption DEF LookupInv
<1>1. CASE WindowTick
  <2> DEFINE n == Len(window)
             aged == [i \in DOMAIN window |-> window[i] + 1]
  <2>1. PICK gone \in 0..n :
           /\ gone < n => aged[gone + 1] < Per
           /\ window' = SubSeq(aged, gone + 1, n)
    BY <1>1 DEF WindowTick
  <2>2. /\ window \in Seq(Nat) /\ n \in Nat /\ n <= MaxCalls /\ DOMAIN window = 1..n
        /\ \A i, j \in 1..n : i < j => window[i] >= window[j]
        /\ \A i \in 1..n : window[i] \in Nat
    BY <1>0 DEF WindowInv
  <2>3. aged \in Seq(Nat) /\ Len(aged) = n /\ \A i \in 1..n : aged[i] = window[i] + 1
    BY <2>2
  <2>4. \A i, j \in 1..n : i < j => aged[i] >= aged[j]
    BY <2>2, <2>3
  <2> HIDE DEF n, aged
  <2>5. /\ window' \in Seq(Nat) /\ Len(window') = n - gone
        /\ \A i \in 1..(n - gone) : window'[i] = aged[i + gone] /\ i + gone \in 1..n
    <3>1. gone + 1 \in 1..(Len(aged) + 1) /\ gone \in Int /\ n \in Int
      BY <2>2, <2>3
    <3>2. /\ window' \in Seq(Nat) /\ Len(window') = Len(aged) + 1 - (gone + 1)
          /\ \A i \in 1..(Len(aged) + 1 - (gone + 1)) : window'[i] = aged[i + (gone + 1) - 1]
      BY <2>1, <2>3, <3>1, QueueRest
    <3>3. QED BY <2>3, <3>1, <3>2
  <2>6. \A i \in 1..(n - gone) : aged[i + gone] < Per
    <3>1. SUFFICES ASSUME NEW i \in 1..(n - gone) PROVE aged[i + gone] < Per
      OBVIOUS
    <3>2. /\ gone < n /\ gone + 1 \in 1..n /\ i + gone \in 1..n
          /\ i + gone = gone + 1 \/ gone + 1 < i + gone
      BY <2>1, <2>2
    <3>3. \A j \in 1..n : aged[j] \in Nat
      BY <2>2, <2>3
    <3>4. aged[gone + 1] >= aged[i + gone]
      BY <2>4, <3>2, <3>3
    <3>5. QED BY <1>0, <2>1, <3>2, <3>3, <3>4
  <2>7. WindowInv'
    <3>1. DOMAIN window' = 1..(n - gone) /\ n - gone <= MaxCalls
      BY <1>0, <2>2, <2>5
    <3>2. \A i, j \in 1..(n - gone) : i < j => window'[i] >= window'[j]
      <4>1. SUFFICES ASSUME NEW i \in 1..(n - gone), NEW j \in 1..(n - gone), i < j
                     PROVE  window'[i] >= window'[j]
        OBVIOUS
      <4>2. i + gone < j + gone
        BY <2>1, <2>2, <4>1
      <4>3. QED BY <2>4, <2>5, <4>1, <4>2
    <3>3. QED BY <2>5, <2>6, <3>1, <3>2 DEF WindowInv
  <2>8. UNCHANGED <<request, row, pacedQueue, pacer, kept, excused>>
    BY <1>1 DEF WindowTick
  <2>9. QueueInv' /\ \A k \in Lookups : RowInv(k)'
    BY <1>0, <2>8 DEF QueueInv, RowInv, Working, Busy
  <2>10. QED BY <1>0, <2>7, <2>8, <2>9 DEF LookupInv
<1>2. CASE Forget
  <2>1. UNCHANGED <<request, row, pacedQueue, pacer, window, excused>> /\ kept' = {}
    BY <1>2 DEF Forget
  <2>2. QueueInv' /\ WindowInv' /\ \A k \in Lookups : RowInv(k)'
    BY <1>0, <2>1 DEF QueueInv, WindowInv, RowInv, Working, Busy
  <2>3. QED BY <1>0, <2>1, <2>2 DEF LookupInv
<1>3. CASE LookupRestart
  <2>1. /\ request' \in [Lookups -> RequestSteps] /\ row' \in [Lookups -> Row]
    BY <1>0, <1>3 DEF LookupRestart, RequestSteps, ClosedRow, Row
  <2>2. /\ WindowInv' /\ QueueInv'
    BY <1>0, <1>3
    DEF LookupRestart, WindowInv, QueueInv, Working, Resting, PacerExtras
  <2>3. ASSUME NEW k \in Lookups PROVE RowInv(k)'
    <3>1. /\ row'[k] = ClosedRow(row[k]) /\ request'[k] = IF request[k] = "new" THEN "new" ELSE "done"
          /\ excused \subseteq excused'
          /\ request[k] = "sets" => k \in excused'
      BY <1>3, <2>1 DEF LookupRestart
    <3>2. row'[k].extras = "pending" =>
             row[k] = row'[k] /\ row[k].status = "completed"
      BY <1>0, <3>1 DEF ClosedRow, Row, RowInv
    <3>3. row[k] = NoRow => row'[k] = NoRow
      BY <3>1 DEF ClosedRow, NoRow
    <3>4. QED BY <1>0, <3>1, <3>2, <3>3 DEF RowInv, NoRow
  <2>4. QED BY <2>1, <2>2, <2>3 DEF LookupInv
<1>4. QED BY <1>1, <1>2, <1>3

LEMMA LookupInvHolds == LookupSpec => []LookupInv
<1>1. LookupInv /\ [LookupNext]_lookupVars => LookupInv'
  <2>1. ASSUME LookupInv, UNCHANGED lookupVars PROVE LookupInv'
    BY <2>1 DEF lookupVars, LookupInv, WindowInv, QueueInv, RowInv, Working, Busy
  <2>2. ASSUME LookupInv, LookupNext PROVE LookupInv'
    BY <2>2, StepRequest, StepQueued, StepPacer, StepTime DEF LookupNext
  <2>3. QED BY <2>1, <2>2
<1>2. QED BY <1>1, InitLookup, PTL DEF LookupSpec

\* A lookup, its row, the queue and its thread, and the window of the calls, which never
\* counts more of them than VirusTotal allows, are of their types.
THEOREM LookupTypeCorrect == LookupSpec => []LookupTypeOK
<1>1. LookupInv => LookupTypeOK
  BY DEF LookupInv, WindowInv, QueueInv, LookupTypeOK, RequestSteps, Range
<1>2. QED BY <1>1, LookupInvHolds, PTL

\* A row whose extras are pending has a request, a place in the queue or the thread to
\* complete it, or it is one that a failed write or a stop has left.
THEOREM PendingHasWorker == LookupSpec => []PendingIsAtWork
<1>1. LookupInv => PendingIsAtWork
  BY DEF LookupInv, RowInv, Busy, PendingIsAtWork, AtWork
<1>2. QED BY <1>1, LookupInvHolds, PTL

-----------------------------------------------------------------------------
(* The recon of a domain. *)

Entry == [from : {"recon", "transfer", "dnsdumpster"}, ip : IPs]
Results == {entries \in SUBSET Entry : \A x \in entries : x.from = "recon" => x.ip \notin Inside}

\* What the recon resolved itself is outside wherever it is listed: in the result, in the
\* row, in an enrichment that has read the row.
ResultsTyped ==
    /\ listed \in Results
    /\ dnsRow \in [status : {"running", "complete", "error", "none"}, result : Results]
    /\ enrich \in [Enrichers -> [at : {"out", "asks", "over"}, read : Results]]

\* The names found are the domain's, and the address records are outside once phase 1 is
\* over; a probe is of one of the names, and has checked addresses that are outside.
FoundTyped ==
    /\ found \in [main : SUBSET IPs, names : SUBSET (Below \cup {Domain}), records : SUBSET IPs]
    /\ reconAt \in {"locates", "forces", "resolves", "probes"} => found.main \subseteq IPs \ Inside

ProbesTyped ==
    /\ probe \in [Hosts -> [at : {"none", "connects", "over"}, checked : SUBSET (IPs \ Inside)]]
    /\ \A n \in Hosts : probe[n].at # "none" => n \in Below \cup {Domain}

ReconInv ==
    /\ ResultsTyped /\ FoundTyped /\ ProbesTyped
    /\ touched \subseteq IPs \ Inside /\ located \subseteq IPs \ Inside

LEMMA InitRecon == ReconInit => ReconInv
<1> SUFFICES ASSUME ReconInit PROVE ReconInv
  OBVIOUS
<1>1. {} \in Results
  BY DEF Results
<1>2. ResultsTyped
  BY <1>1 DEF ReconInit, ResultsTyped, Idle
<1>3. FoundTyped /\ ProbesTyped
  BY DEF ReconInit, FoundTyped, ProbesTyped, NothingFound, NoProbe
<1>4. QED BY <1>2, <1>3, ReconAssumption DEF ReconInit, ReconInv

\* What is located is what is located already, and addresses that are outside.
LEMMA LocatedOutside ==
    ASSUME NEW addresses \in SUBSET IPs, Locate(addresses), located \subseteq IPs \ Inside
    PROVE  located' \subseteq IPs \ Inside
BY DEF Locate

\* A result stays one when addresses of another source are added, or outside ones.
LEMMA ResultsGrow ==
    ASSUME NEW entries \in Results, NEW source \in {"recon", "transfer", "dnsdumpster"},
           NEW addresses \in SUBSET IPs, source # "recon" \/ addresses \subseteq IPs \ Inside
    PROVE  entries \cup From(source, addresses) \in Results
<1>1. ASSUME NEW x \in From(source, addresses)
      PROVE  x \in Entry /\ (x.from = "recon" => x.ip \notin Inside)
  BY <1>1 DEF From, Entry
<1>2. QED BY <1>1 DEF Results

LEMMA StepPhase1 ==
    ASSUME ReconInv, Begin \/ Records \/ Passive \/ ZoneTransfer \/ Phase1Ends
    PROVE  ReconInv'
<1>0. ResultsTyped /\ FoundTyped /\ ProbesTyped
  BY DEF ReconInv
<1>1. CASE Begin
  <2>1. reconAt' \in {"phase 1", "refused"} /\ UNCHANGED <<found, probe, touched, located>>
    BY <1>1 DEF Begin, Goes
  <2>2. UNCHANGED <<listed, dnsRow, enrich>>
    BY <1>1 DEF Begin
  <2>3. FoundTyped'
    BY <1>0, <2>1 DEF FoundTyped
  <2>4. QED BY <1>0, <2>1, <2>2, <2>3 DEF ReconInv, ResultsTyped, ProbesTyped
<1>2. CASE Records \/ Passive
  <2>1. PICK addresses \in SUBSET IPs, names \in SUBSET Hosts : Finds(addresses, names)
    BY <1>2 DEF Records, Passive
  <2>2. /\ reconAt = "phase 1" /\ UNCHANGED <<reconAt, probe, touched, located>>
        /\ UNCHANGED <<listed, dnsRow, enrich>>
    BY <1>2 DEF Records, Passive
  <2>3. FoundTyped'
    BY <1>0, <2>1, <2>2 DEF FoundTyped, Finds, Own
  <2>4. QED BY <1>0, <2>2, <2>3 DEF ReconInv, ResultsTyped, ProbesTyped
<1>3. CASE ZoneTransfer
  <2>1. UNCHANGED <<reconAt, probe, located>> /\ UNCHANGED <<listed, dnsRow, enrich>>
    BY <1>3 DEF ZoneTransfer
  <2>2. touched' \subseteq IPs \ Inside
    BY <1>3 DEF ZoneTransfer, ReconInv, Touch
  <2>3. \/ UNCHANGED found
        \/ \E records \in SUBSET IPs : found' = [found EXCEPT !.records = records]
    BY <1>3 DEF ZoneTransfer
  <2>4. FoundTyped'
    BY <1>0, <2>1, <2>3 DEF FoundTyped
  <2>5. QED BY <1>0, <2>1, <2>2, <2>4 DEF ReconInv, ResultsTyped, ProbesTyped
<1>4. CASE Phase1Ends
  <2>1. /\ found' = [found EXCEPT !.main = PublicOf(found.main)]
        /\ listed' = From("recon", PublicOf(found.main)) \cup From("transfer", found.records)
    BY <1>4 DEF Phase1Ends
  <2>2. UNCHANGED <<probe, touched, located, dnsRow, enrich>>
    BY <1>4 DEF Phase1Ends
  <2>3. found.main \in SUBSET IPs /\ found.records \in SUBSET IPs
    BY <1>0 DEF FoundTyped
  <2>4. PublicOf(found.main) \in SUBSET IPs /\ PublicOf(found.main) \subseteq IPs \ Inside
    BY <2>3 DEF PublicOf
  <2>5. FoundTyped'
    BY <1>0, <2>1, <2>4 DEF FoundTyped
  <2>6. {} \cup From("recon", PublicOf(found.main)) \in Results
    <3>1. {} \in Results
      BY DEF Results
    <3>2. QED BY <2>4, <3>1, ResultsGrow
  <2>7. listed' \in Results
    BY <2>1, <2>3, <2>6, ResultsGrow
  <2>8. QED BY <1>0, <2>2, <2>5, <2>7 DEF ReconInv, ResultsTyped, ProbesTyped
<1>5. QED BY <1>1, <1>2, <1>3, <1>4

LEMMA StepPhase2 ==
    ASSUME ReconInv, LocateMain \/ BruteForce \/ Resolve
    PROVE  ReconInv'
<1>0. ResultsTyped /\ FoundTyped /\ ProbesTyped
  BY DEF ReconInv
<1>1. CASE LocateMain
  <2>1. located' \subseteq IPs \ Inside
    BY <1>0, <1>1, LocatedOutside DEF LocateMain, ReconInv, FoundTyped
  <2>2. /\ reconAt = "locates" /\ UNCHANGED <<found, probe, touched>>
        /\ UNCHANGED <<listed, dnsRow, enrich>>
    BY <1>1 DEF LocateMain
  <2>3. QED BY <1>0, <2>1, <2>2 DEF ReconInv, ResultsTyped, FoundTyped, ProbesTyped
<1>2. CASE BruteForce
  <2>1. reconAt = "forces" /\ UNCHANGED <<probe, touched, located, dnsRow, enrich>>
    BY <1>2 DEF BruteForce
  <2>2. CASE UNCHANGED <<found, listed>>
    BY <1>0, <2>1, <2>2 DEF ReconInv, ResultsTyped, FoundTyped, ProbesTyped
  <2>3. ASSUME NEW names \in SUBSET Wordlist, NEW addresses \in SUBSET IPs,
               found' = [found EXCEPT !.names = @ \cup names],
               Lists("recon", IF names = {} THEN {} ELSE PublicOf(addresses))
        PROVE  ReconInv'
    <3>1. FoundTyped'
      BY <1>0, <2>1, <2>3, ReconAssumption DEF FoundTyped
    <3>2. PICK public \in SUBSET IPs :
              public \subseteq IPs \ Inside /\ Lists("recon", public)
      BY <2>3 DEF PublicOf
    <3>3. listed' \in Results
      BY <1>0, <3>2, ResultsGrow DEF Lists, ResultsTyped
    <3>4. QED BY <1>0, <2>1, <3>1, <3>3 DEF ReconInv, ResultsTyped, ProbesTyped
  <2>4. QED BY <1>2, <2>2, <2>3 DEF BruteForce
<1>3. CASE Resolve
  <2>1. PICK addresses \in SUBSET IPs :
           Lists("recon", PublicOf(addresses)) /\ Locate(PublicOf(addresses))
    BY <1>3 DEF Resolve
  <2>2. PublicOf(addresses) \in SUBSET IPs /\ PublicOf(addresses) \subseteq IPs \ Inside
    BY DEF PublicOf
  <2>3. listed' \in Results
    BY <1>0, <2>1, <2>2, ResultsGrow DEF Lists, ResultsTyped
  <2>4. /\ reconAt = "resolves" /\ touched' = touched \cup found.main
        /\ UNCHANGED <<found, probe, dnsRow, enrich>>
    BY <1>3 DEF Resolve, Touch
  <2>5. touched' \subseteq IPs \ Inside
    BY <1>0, <2>4 DEF ReconInv, FoundTyped
  <2>6. located' \subseteq IPs \ Inside
    BY <2>1, <2>2, LocatedOutside DEF ReconInv
  <2>7. QED BY <1>0, <2>3, <2>4, <2>5, <2>6 DEF ReconInv, ResultsTyped, FoundTyped, ProbesTyped
<1>4. QED BY <1>1, <1>2, <1>3

LEMMA StepProbe ==
    ASSUME ReconInv, NEW n \in Hosts, Check(n) \/ Connect(n)
    PROVE  ReconInv'
<1>0. ResultsTyped /\ FoundTyped /\ ProbesTyped
  BY DEF ReconInv
<1>1. CASE Check(n)
  <2>1. PICK p \in [at : {"connects", "over"}, checked : SUBSET (IPs \ Inside)] :
           probe' = [probe EXCEPT ![n] = p]
    BY <1>1 DEF Check
  <2>2. /\ n \in found.names /\ UNCHANGED <<reconAt, found, touched, located>>
        /\ UNCHANGED <<listed, dnsRow, enrich>>
    BY <1>1 DEF Check
  <2>3. n \in Below \cup {Domain}
    BY <1>0, <2>2 DEF FoundTyped
  <2>4. ProbesTyped'
    BY <1>0, <2>1, <2>3 DEF ProbesTyped
  <2>5. QED BY <1>0, <2>2, <2>4 DEF ReconInv, ResultsTyped, FoundTyped
<1>2. CASE Connect(n)
  <2>1. PICK a \in probe[n].checked : touched' = touched \cup {a}
    BY <1>2 DEF Connect, Touch
  <2>2. touched' \subseteq IPs \ Inside
    BY <1>0, <2>1 DEF ReconInv, ProbesTyped
  <2>3. /\ probe[n].at # "none" /\ UNCHANGED <<reconAt, found, located>>
        /\ UNCHANGED <<listed, dnsRow, enrich>>
    BY <1>2 DEF Connect
  <2>4. probe' = [probe EXCEPT ![n].at = "over"] \/ probe' = probe
    BY <1>2 DEF Connect
  <2>5. ProbesTyped'
    BY <1>0, <2>3, <2>4 DEF ProbesTyped
  <2>6. QED BY <1>0, <2>2, <2>3, <2>5 DEF ReconInv, ResultsTyped, FoundTyped
<1>3. QED BY <1>1, <1>2

LEMMA StepRow ==
    ASSUME ReconInv, CompleteRecon \/ ReconFails \/ DeleteRow
    PROVE  ReconInv'
<1>0. ResultsTyped /\ FoundTyped /\ ProbesTyped
  BY DEF ReconInv
<1>1. UNCHANGED <<found, probe, touched, located, listed, enrich>>
  BY DEF CompleteRecon, ReconFails, DeleteRow
<1>2. reconAt' \in {"complete", "over"} \/ UNCHANGED reconAt
  BY DEF CompleteRecon, ReconFails, DeleteRow, Goes
<1>3. FoundTyped'
  BY <1>0, <1>1, <1>2 DEF FoundTyped
<1>4. /\ dnsRow.result \in Results /\ listed \in Results /\ {} \in Results
      /\ dnsRow.status \in {"running", "complete", "error", "none"}
  BY <1>0 DEF ResultsTyped, Results
<1>5. \E status \in {"running", "complete", "error", "none"}, result \in Results :
          dnsRow' = [status |-> status, result |-> result]
  <2>1. CASE CompleteRecon
    BY <1>0, <1>4, <2>1 DEF CompleteRecon, ResultsTyped
  <2>2. CASE ReconFails
    <3>1. dnsRow = [status |-> dnsRow.status, result |-> dnsRow.result]
      BY <1>0 DEF ResultsTyped
    <3>2. \/ dnsRow' = dnsRow
          \/ dnsRow' = [status |-> "error", result |-> dnsRow.result]
      BY <1>0, <2>2 DEF ReconFails, ResultsTyped
    <3>3. QED BY <1>4, <3>1, <3>2
  <2>3. CASE DeleteRow
    BY <1>4, <2>3 DEF DeleteRow
  <2>4. QED BY <2>1, <2>2, <2>3
<1>6. ResultsTyped'
  BY <1>0, <1>1, <1>5 DEF ResultsTyped
<1>7. QED BY <1>0, <1>1, <1>3, <1>6 DEF ReconInv, ProbesTyped

LEMMA StepEnrich ==
    ASSUME ReconInv, NEW e \in Enrichers, EnrichReads(e) \/ EnrichStores(e)
    PROVE  ReconInv'
<1>0. ResultsTyped /\ FoundTyped /\ ProbesTyped
  BY DEF ReconInv
<1>1. UNCHANGED <<reconAt, found, probe, touched, located, listed>>
  BY DEF EnrichReads, EnrichStores
<1>2. CASE EnrichReads(e)
  <2>1. enrich' = [enrich EXCEPT ![e] = [at |-> "asks", read |-> dnsRow.result]]
    BY <1>2 DEF EnrichReads
  <2>2. UNCHANGED dnsRow
    BY <1>2 DEF EnrichReads
  <2>3. ResultsTyped'
    BY <1>0, <1>1, <2>1, <2>2 DEF ResultsTyped
  <2>4. QED BY <1>0, <1>1, <2>3 DEF ReconInv, FoundTyped, ProbesTyped
<1>3. CASE EnrichStores(e)
  <2>1. enrich' = [enrich EXCEPT ![e].at = "over"]
    BY <1>3 DEF EnrichStores
  <2>2. CASE UNCHANGED dnsRow
    <3>1. ResultsTyped'
      BY <1>0, <1>1, <2>1, <2>2 DEF ResultsTyped
    <3>2. QED BY <1>0, <1>1, <3>1 DEF ReconInv, FoundTyped, ProbesTyped
  <2>3. ASSUME NEW addresses \in SUBSET IPs,
               dnsRow' = [dnsRow EXCEPT !.result =
                             enrich[e].read \cup From("dnsdumpster", addresses)]
        PROVE  ReconInv'
    <3>1. enrich[e].read \cup From("dnsdumpster", addresses) \in Results
      BY <1>0, ResultsGrow DEF ResultsTyped
    <3>2. ResultsTyped'
      BY <1>0, <1>1, <2>1, <2>3, <3>1 DEF ResultsTyped
    <3>3. QED BY <1>0, <1>1, <3>2 DEF ReconInv, FoundTyped, ProbesTyped
  <2>4. QED BY <1>3, <2>2, <2>3 DEF EnrichStores
<1>4. QED BY <1>2, <1>3

LEMMA StepRecon == ReconInv /\ [ReconNext]_reconVars => ReconInv'
<1> SUFFICES ASSUME ReconInv, [ReconNext]_reconVars PROVE ReconInv'
  OBVIOUS
<1>1. CASE UNCHANGED reconVars
  BY <1>1 DEF ReconInv, ResultsTyped, FoundTyped, ProbesTyped, reconVars
<1>2. QED
  BY <1>1, StepPhase1, StepPhase2, StepProbe, StepRow, StepEnrich DEF ReconNext

\* Whatever the resolver answers, and however often it changes its answer: a recon connects
\* to, looks up and locates public addresses only, lists no other of those it resolves
\* itself, in its result and in the row an enrichment stores anew, and probes hosts of its
\* domain only.  What a zone transfer or DNSDumpster names is stored as it comes and not covered.
THEOREM ReconIsOutside == ReconSpec => []ReconStaysOutside
<1>1. ASSUME ReconInv PROVE ReconStaysOutside
  <2>1. ASSUME NEW entry \in listed \cup dnsRow.result, entry.from = "recon"
        PROVE  entry.ip \notin Inside
    BY <1>1, <2>1 DEF ReconInv, ResultsTyped, Results
  <2>2. QED BY <1>1, <2>1 DEF ReconInv, ProbesTyped, ReconStaysOutside
<1>2. QED BY <1>1, InitRecon, StepRecon, PTL DEF ReconSpec

-----------------------------------------------------------------------------
(* Projects and the hits that are matched. *)

Deleted == [status |-> "deleted"]
Grounds == {"keyword", "domain", "entity"}

\* What a request is about to do.
AskInv(a) ==
    /\ a.does \in {"nothing", "delete", "status", "add", "remove"}
    /\ a.does = "delete" => a.project \in ProjectIds
    /\ a.does = "status" => a.project \in ProjectIds /\ a.status \in ProjectStatuses

\* Projects that were created at some time, finitely many; and those that are there.
Created == {p \in ProjectIds : project[p] # NoProject}
There == {p \in ProjectIds : Exists(p)}

ProjectInv ==
    /\ project \in [ProjectIds -> {NoProject, Deleted} \cup [status : ProjectStatuses, owner : People]]
    /\ DOMAIN ask = ProjectReqs /\ \A q \in ProjectReqs : AskInv(ask[q])
    /\ IsFiniteSet(Created)

HitsOf(rows, p, h) == {x \in rows : x.project = p /\ x.hit = h}

\* What the match of h records in project p, whose settings are names.
Due(p, h, names) ==
    IF MatchedOn(h, names) = "nothing" THEN {}
    ELSE {[project |-> p, hit |-> h, on |-> MatchedOn(h, names)]}

\* The rows record h, as it is due, in those projects of done that are there, and in none
\* that is not of done.
RecordedIn(rows, there, h, loaded, done) ==
    \A p \in ProjectIds :
        /\ p \notin done => HitsOf(rows, p, h) = {}
        /\ p \in done \cap there => HitsOf(rows, p, h) = Due(p, h, loaded[p])

\* A match that goes on has recorded the hit in the projects that are not still to do;
\* while it reads, all are.
MatchInv ==
    match # NoMatch =>
        /\ match = [hit |-> match.hit, todo |-> match.todo, loaded |-> match.loaded,
                    unread |-> match.unread]
        /\ match.unread # <<>> => DOMAIN match.loaded \subseteq Range(match.todo)
        /\ match.hit \in NewHits /\ matched[match.hit].is = "begun"
        /\ match.todo \in Seq(ProjectIds) /\ Range(match.todo) \subseteq DOMAIN match.loaded
        /\ \A i, j \in 1..Len(match.todo) : match.todo[i] = match.todo[j] => i = j
        /\ DOMAIN match.loaded \subseteq Created
        /\ RecordedIn(projectHits, There, match.hit, match.loaded,
                      DOMAIN match.loaded \ Range(match.todo))

HitInv ==
    /\ projectHits \subseteq [project : Created, hit : NewHits, on : Grounds]
    /\ matched = [h \in NewHits |-> [is |-> matched[h].is, by |-> matched[h].by]]
    /\ \A h \in NewHits :
          /\ matched[h].is \in {"new", "begun", "done"}
          /\ matched[h].is = "new" => RecordedIn(projectHits, There, h, Nothing, {})
          /\ matched[h].is = "done" =>
                /\ DOMAIN matched[h].by \subseteq Created
                /\ RecordedIn(projectHits, There, h, matched[h].by, DOMAIN matched[h].by)

ProjectsInv == ProjectInv /\ HitInv /\ MatchInv

LEMMA InitProjects == ProjectsInit => ProjectsInv
<1> SUFFICES ASSUME ProjectsInit PROVE ProjectsInv
  OBVIOUS
<1>1. PICK p \in ProjectIds, u \in People :
         project = [q \in ProjectIds |->
                       IF q = p THEN [status |-> "active", owner |-> u] ELSE NoProject]
  BY DEF ProjectsInit
<1>2. /\ projectHits = {} /\ ask = [q \in ProjectReqs |-> NoAsk] /\ match = NoMatch
      /\ matched = [h \in NewHits |-> [is |-> "new", by |-> Nothing]]
  BY DEF ProjectsInit
<1>3. Created \subseteq {p} /\ IsFiniteSet({p})
  BY <1>1, FS_Singleton DEF Created
<1>4. ProjectInv
  <2>1. project \in [ProjectIds -> {NoProject, Deleted} \cup [status : ProjectStatuses, owner : People]]
    BY <1>1 DEF ProjectStatuses
  <2>2. IsFiniteSet(Created)
    BY <1>3, FS_Subset
  <2>3. QED BY <1>2, <2>1, <2>2 DEF ProjectInv, AskInv, NoAsk
<1>5. HitInv
  BY <1>2 DEF HitInv, RecordedIn, HitsOf
<1>6. QED BY <1>2, <1>4, <1>5 DEF ProjectsInv, MatchInv

\* Projects that are gone, and rows that are gone with them, change nothing of what is
\* recorded.
LEMMA StillRecorded ==
    ASSUME NEW rows, NEW rows2 \in SUBSET rows, NEW there, NEW there2, NEW h, NEW loaded,
           NEW done, there2 \cap done \subseteq there,
           \A x \in rows : x.project \in there2 => x \in rows2,
           RecordedIn(rows, there, h, loaded, done)
    PROVE  RecordedIn(rows2, there2, h, loaded, done)
<1>1. SUFFICES ASSUME NEW p \in ProjectIds
               PROVE  /\ p \notin done => HitsOf(rows2, p, h) = {}
                      /\ p \in done \cap there2 => HitsOf(rows2, p, h) = Due(p, h, loaded[p])
  BY DEF RecordedIn
<1>2. HitsOf(rows2, p, h) \subseteq HitsOf(rows, p, h)
  BY DEF HitsOf
<1>3. p \in there2 => HitsOf(rows, p, h) \subseteq HitsOf(rows2, p, h)
  BY DEF HitsOf
<1>4. QED BY <1>2, <1>3 DEF RecordedIn

LEMMA KeepsMatches ==
    ASSUME ProjectsInv, UNCHANGED <<match, matched>>, Created \subseteq Created',
           There' \cap Created \subseteq There, projectHits' \subseteq projectHits,
           \A x \in projectHits : x.project \in There' => x \in projectHits'
    PROVE  HitInv' /\ MatchInv'
<1>0. HitInv /\ MatchInv
  BY DEF ProjectsInv
<1>1. ASSUME NEW h, NEW loaded, NEW done \in SUBSET Created,
             RecordedIn(projectHits, There, h, loaded, done)
      PROVE  RecordedIn(projectHits', There', h, loaded, done)
  BY <1>1, StillRecorded
<1>2. HitInv'
  <2>1. projectHits' \subseteq [project : Created', hit : NewHits, on : Grounds]
    BY <1>0 DEF HitInv
  <2>2. ASSUME NEW h \in NewHits
        PROVE  /\ matched'[h].is \in {"new", "begun", "done"}
               /\ matched'[h].is = "new" => RecordedIn(projectHits', There', h, Nothing, {})
               /\ matched'[h].is = "done" =>
                     /\ DOMAIN matched'[h].by \subseteq Created'
                     /\ RecordedIn(projectHits', There', h, matched'[h].by, DOMAIN matched'[h].by)
    BY <1>0, <1>1 DEF HitInv
  <2>3. QED BY <1>0, <2>1, <2>2 DEF HitInv
<1>3. MatchInv'
  BY <1>0, <1>1 DEF MatchInv
<1>4. QED BY <1>2, <1>3

\* The steps of a request but the deletion.
LEMMA StepAsk ==
    ASSUME ProjectsInv, NEW q \in ProjectReqs,
           AskProject(q) \/ SetStatus(q) \/ AddRow(q) \/ RemoveRow(q) \/ RequestFails(q)
    PROVE  ProjectsInv'
<1>0. ProjectInv
  BY DEF ProjectsInv
<1>1. DOMAIN ask' = ProjectReqs /\ \A r \in ProjectReqs : AskInv(ask'[r])
  <2>1. PICK a : AskInv(a) /\ ask' = [ask EXCEPT ![q] = a]
    BY DEF AskProject, SetStatus, AddRow, RemoveRow, RequestFails, Answered, Asks, NoAsk, AskInv,
           Access
  <2>2. QED BY <1>0, <2>1 DEF ProjectInv
<1>2. /\ project' \in [ProjectIds -> {NoProject, Deleted} \cup [status : ProjectStatuses, owner : People]]
      /\ Created' = Created /\ There' = There
  <2>1. CASE UNCHANGED project
    BY <1>0, <2>1 DEF ProjectInv, Created, There, Exists
  <2>2. CASE SetStatus(q)
    <3> DEFINE p == ask[q].project
               s == ask[q].status
    <3>1. p \in ProjectIds /\ s \in ProjectStatuses
      BY <1>0, <2>2 DEF SetStatus, ProjectInv, AskInv
    <3>2. CASE ~Exists(p)
      BY <2>1, <2>2, <3>2 DEF SetStatus
    <3>3. CASE Exists(p)
      <4>1. project[p] \in [status : ProjectStatuses, owner : People]
        BY <1>0, <3>1, <3>3 DEF ProjectInv, Exists, Deleted
      <4>2. project' = [project EXCEPT ![p] = [status |-> s, owner |-> project[p].owner]]
        <5>1. [project[p] EXCEPT !.status = s] = [status |-> s, owner |-> project[p].owner]
          BY <4>1
        <5>2. project' = [project EXCEPT ![p] = [project[p] EXCEPT !.status = s]]
          BY <2>2, <3>3 DEF SetStatus
        <5>3. QED BY <5>1, <5>2
      <4>3. /\ [status |-> s, owner |-> project[p].owner] \in [status : ProjectStatuses, owner : People]
            /\ [status |-> s, owner |-> project[p].owner] \notin {NoProject, Deleted}
        BY <3>1, <4>1 DEF ProjectStatuses, NoProject, Deleted
      <4>4. /\ project[p] \notin {NoProject, Deleted}
            /\ DOMAIN project = ProjectIds /\ DOMAIN project' = ProjectIds
            /\ project'[p] \notin {NoProject, Deleted}
            /\ \A o \in ProjectIds \ {p} : project'[o] = project[o]
        BY <1>0, <3>1, <3>3, <4>2, <4>3 DEF Exists, Deleted, ProjectInv
      <4>5. Created' = Created /\ There' = There
        BY <4>4 DEF Created, There, Exists, Deleted
      <4>6. QED BY <1>0, <3>1, <4>2, <4>3, <4>5 DEF ProjectInv
    <3>4. QED BY <3>2, <3>3
  <2>3. QED BY <2>1, <2>2 DEF AskProject, AddRow, RemoveRow, RequestFails
<1>3. ProjectInv'
  BY <1>0, <1>1, <1>2 DEF ProjectInv
<1>4. UNCHANGED <<projectHits, match, matched>>
  BY DEF AskProject, SetStatus, AddRow, RemoveRow, RequestFails
<1>5. QED BY <1>2, <1>3, <1>4, KeepsMatches DEF ProjectsInv

LEMMA StepCreate ==
    ASSUME ProjectsInv, NEW u \in People, CreateProject(u)
    PROVE  ProjectsInv'
<1>0. ProjectInv
  BY DEF ProjectsInv
<1>1. PICK p \in ProjectIds :
         project[p] = NoProject /\ project' = [project EXCEPT ![p] = [status |-> "active", owner |-> u]]
  BY DEF CreateProject
<1>2. UNCHANGED <<ask, projectHits, match, matched>>
  BY DEF CreateProject
<1>3. [status |-> "active", owner |-> u] \in [status : ProjectStatuses, owner : People]
      /\ [status |-> "active", owner |-> u] # NoProject
  BY DEF ProjectStatuses, NoProject
<1>4. Created' = Created \cup {p} /\ p \notin Created /\ There' \subseteq There \cup {p}
  BY <1>0, <1>1, <1>3 DEF Created, There, Exists, ProjectInv
<1>5. ProjectInv'
  <2>1. IsFiniteSet(Created')
    BY <1>0, <1>4, FS_AddElement DEF ProjectInv
  <2>2. project' \in [ProjectIds -> {NoProject, Deleted} \cup [status : ProjectStatuses, owner : People]]
    BY <1>0, <1>1, <1>3 DEF ProjectInv
  <2>3. QED BY <1>0, <1>2, <2>1, <2>2 DEF ProjectInv
<1>6. QED BY <1>2, <1>4, <1>5, KeepsMatches DEF ProjectsInv

LEMMA StepDelete ==
    ASSUME ProjectsInv, NEW q \in ProjectReqs, DeleteProject(q)
    PROVE  ProjectsInv'
<1> DEFINE p == ask[q].project
<1>0. ProjectInv
  BY DEF ProjectsInv
<1>1. /\ p \in ProjectIds /\ project' = [project EXCEPT ![p] = Deleted]
      /\ projectHits' = {x \in projectHits : x.project # p}
      /\ ask' = [ask EXCEPT ![q] = NoAsk] /\ UNCHANGED <<match, matched>>
  BY <1>0 DEF DeleteProject, ProjectInv, AskInv, Deleted, Answered, Asks
<1>2. Deleted # NoProject
  BY DEF Deleted, NoProject
<1> HIDE DEF p
<1>3. Created' = Created \cup {p} /\ There' = There \ {p}
  BY <1>0, <1>1, <1>2 DEF Created, There, Exists, ProjectInv, Deleted
<1>4. ProjectInv'
  <2>1. IsFiniteSet(Created')
    BY <1>0, <1>3, FS_AddElement DEF ProjectInv
  <2>2. project' \in [ProjectIds -> {NoProject, Deleted} \cup [status : ProjectStatuses, owner : People]]
    BY <1>0, <1>1 DEF ProjectInv
  <2>3. QED BY <1>0, <1>1, <2>1, <2>2 DEF ProjectInv, AskInv, NoAsk
<1>5. QED BY <1>1, <1>3, <1>4, KeepsMatches DEF ProjectsInv

\* A hit is matched from the time its match begins: nothing was recorded for it before.
LEMMA StepLoad ==
    ASSUME ProjectsInv, NEW h \in NewHits, LoadProjects(h)
    PROVE  ProjectsInv'
<1>0. ProjectInv /\ HitInv /\ match = NoMatch /\ matched[h].is = "new"
  BY DEF ProjectsInv, LoadProjects
<1>1. UNCHANGED <<project, configRow, projectHits, ask>> /\ Created' = Created /\ There' = There
  BY DEF LoadProjects, Created, There, Exists
<1>2. PICK order \in SetToSeqs(ActiveProjects) :
         match' = [hit |-> h, todo |-> order, loaded |-> [p \in ActiveProjects |-> {}],
                   unread |-> match'.unread]
  <2>1. PICK order \in SetToSeqs(ActiveProjects) : \E unread :
           match' = [hit |-> h, todo |-> order, loaded |-> [p \in ActiveProjects |-> {}],
                     unread |-> unread]
    BY DEF LoadProjects
  <2>2. PICK unread :
           match' = [hit |-> h, todo |-> order, loaded |-> [p \in ActiveProjects |-> {}],
                     unread |-> unread]
    BY <2>1
  <2>3. QED BY <2>1, <2>2
<1>3. ActiveProjects \subseteq Created /\ IsFiniteSet(ActiveProjects)
  <2>1. ActiveProjects \subseteq Created
    BY DEF ActiveProjects, Created, Exists
  <2>2. QED BY <1>0, <2>1, FS_Subset DEF ProjectInv
<1>4. /\ order \in Seq(ActiveProjects) /\ Range(order) = ActiveProjects
      /\ \A i, j \in 1..Len(order) : order[i] = order[j] => i = j
  BY <1>3, QueueOfSet
<1>5. order \in Seq(ProjectIds)
  <2>1. ActiveProjects \subseteq ProjectIds
    BY DEF ActiveProjects
  <2>2. QED BY <1>4, <2>1
<1>6. /\ matched'[h] = [is |-> "begun", by |-> matched[h].by] /\ DOMAIN matched' = NewHits
      /\ \A k \in NewHits \ {h} : matched'[k] = matched[k]
  <2>1. matched[h] = [is |-> matched[h].is, by |-> matched[h].by] /\ DOMAIN matched = NewHits
    BY <1>0 DEF HitInv
  <2>2. matched' = [matched EXCEPT ![h] = [is |-> "begun", by |-> matched[h].by]]
    <3>1. [matched[h] EXCEPT !.is = "begun"] = [is |-> "begun", by |-> matched[h].by]
      BY <2>1
    <3>2. matched' = [matched EXCEPT ![h] = [matched[h] EXCEPT !.is = "begun"]]
      BY DEF LoadProjects
    <3>3. QED BY <3>1, <3>2
  <2>3. QED BY <2>1, <2>2
<1>7. HitInv'
  <2>1. matched' = [k \in NewHits |-> [is |-> matched'[k].is, by |-> matched'[k].by]]
    <3>1. \A k \in NewHits : matched'[k] = [is |-> matched'[k].is, by |-> matched'[k].by]
      BY <1>0, <1>6 DEF HitInv
    <3>2. matched' = [k \in NewHits |-> matched'[k]]
      BY <1>6 DEF LoadProjects
    <3>3. QED BY <3>1, <3>2
  <2>2. QED BY <1>0, <1>1, <1>6, <2>1 DEF HitInv
<1>8. RecordedIn(projectHits, There, h, match'.loaded, {})
  BY <1>0 DEF HitInv, RecordedIn
<1>9. MatchInv'
  <2>1. /\ match'.hit = h /\ match'.todo = order /\ DOMAIN match'.loaded = ActiveProjects
        /\ match' = [hit |-> match'.hit, todo |-> match'.todo, loaded |-> match'.loaded,
                     unread |-> match'.unread]
    BY <1>2
  <2>2. DOMAIN match'.loaded \ Range(match'.todo) = {}
    BY <1>4, <2>1
  <2>3. RecordedIn(projectHits', There', match'.hit, match'.loaded,
                   DOMAIN match'.loaded \ Range(match'.todo))
    BY <1>1, <1>8, <2>1, <2>2
  <2>4. matched'[match'.hit].is = "begun" /\ DOMAIN match'.loaded \subseteq Created'
    BY <1>1, <1>3, <1>6, <2>1
  <2>5. QED BY <1>4, <1>5, <2>1, <2>3, <2>4 DEF MatchInv
<1>10. QED BY <1>0, <1>1, <1>7, <1>9 DEF ProjectsInv, ProjectInv

\* A table is read: nothing is recorded yet, so what is loaded matters for no project.
LEMMA StepLoadRows ==
    ASSUME ProjectsInv, LoadRows
    PROVE  ProjectsInv'
<1>0. ProjectInv /\ HitInv /\ MatchInv /\ match # NoMatch /\ match.unread # <<>>
  BY DEF ProjectsInv, LoadRows
<1>1. /\ UNCHANGED <<project, configRow, projectHits, ask, matched>>
      /\ Created' = Created /\ There' = There
  BY DEF LoadRows, Created, There, Exists
<1>2. PICK unread, p, names :
         match' = [match EXCEPT !.unread = unread, !.loaded = [match.loaded EXCEPT ![p] = names]]
  BY DEF LoadRows
<1>3. /\ match' = [hit |-> match.hit, todo |-> match.todo,
                   loaded |-> [match.loaded EXCEPT ![p] = names], unread |-> unread]
      /\ DOMAIN match.loaded \ Range(match.todo) = {}
  BY <1>0, <1>2 DEF MatchInv
<1>4. /\ match'.hit = match.hit /\ match'.todo = match.todo
      /\ match'.loaded = [match.loaded EXCEPT ![p] = names] /\ match'.unread = unread
  BY <1>3
<1>5. DOMAIN match'.loaded = DOMAIN match.loaded
  BY <1>4
<1>6. RecordedIn(projectHits, There, match.hit, match'.loaded, {})
  BY <1>0, <1>3 DEF MatchInv, RecordedIn
<1>7. MatchInv'
  <2>1. DOMAIN match'.loaded \ Range(match'.todo) = {}
    BY <1>3, <1>4, <1>5
  <2>2. RecordedIn(projectHits', There', match'.hit, match'.loaded,
                   DOMAIN match'.loaded \ Range(match'.todo))
    BY <1>1, <1>4, <1>6, <2>1
  <2>3. /\ match' = [hit |-> match'.hit, todo |-> match'.todo, loaded |-> match'.loaded,
                     unread |-> match'.unread]
        /\ DOMAIN match'.loaded \subseteq Range(match'.todo)
    BY <1>3, <1>4, <2>1
  <2>4. /\ match'.hit \in NewHits /\ matched'[match'.hit].is = "begun"
        /\ match'.todo \in Seq(ProjectIds) /\ DOMAIN match'.loaded \subseteq Created'
        /\ Range(match'.todo) \subseteq DOMAIN match'.loaded
        /\ \A i, j \in 1..Len(match'.todo) : match'.todo[i] = match'.todo[j] => i = j
    BY <1>0, <1>1, <1>4, <1>5 DEF MatchInv
  <2>5. QED BY <2>2, <2>3, <2>4 DEF MatchInv
<1>8. HitInv'
  BY <1>0, <1>1 DEF HitInv
<1>9. ProjectInv'
  BY <1>0, <1>1 DEF ProjectInv
<1>10. QED BY <1>7, <1>8, <1>9 DEF ProjectsInv

\* One project more: the hit is recorded in it if it is due, and nothing else changes.
LEMMA OneMoreRecorded ==
    ASSUME NEW rows, NEW there, NEW h, NEW loaded, NEW done, NEW p \in ProjectIds \ done,
           RecordedIn(rows, there, h, loaded, done)
    PROVE  /\ HitsOf(rows, p, h) = {}
           /\ RecordedIn(rows \cup Due(p, h, loaded[p]), there, h, loaded, done \cup {p})
<1>1. HitsOf(rows, p, h) = {}
  BY DEF RecordedIn
<1>2. \A q \in ProjectIds \ {p} :
         HitsOf(rows \cup Due(p, h, loaded[p]), q, h) = HitsOf(rows, q, h)
  BY DEF HitsOf, Due
<1>3. HitsOf(rows \cup Due(p, h, loaded[p]), p, h) = Due(p, h, loaded[p])
  <2>1. \A x \in Due(p, h, loaded[p]) : x.project = p /\ x.hit = h
    BY DEF Due
  <2>2. QED BY <1>1, <2>1 DEF HitsOf
<1>4. QED BY <1>1, <1>2, <1>3 DEF RecordedIn

\* ... for no other hit either.
LEMMA OthersRecorded ==
    ASSUME NEW rows, NEW there, NEW h, NEW loaded, NEW done, NEW p, NEW k, NEW names, k # h,
           RecordedIn(rows, there, h, loaded, done)
    PROVE  RecordedIn(rows \cup Due(p, k, names), there, h, loaded, done)
<1>1. \A q \in ProjectIds : HitsOf(rows \cup Due(p, k, names), q, h) = HitsOf(rows, q, h)
  BY DEF HitsOf, Due
<1>2. QED BY <1>1 DEF RecordedIn

LEMMA StepMatch ==
    ASSUME ProjectsInv, MatchNext
    PROVE  ProjectsInv'
<1>0. /\ ProjectInv /\ HitInv /\ MatchInv /\ match # NoMatch /\ match.todo # <<>>
      /\ match.unread = <<>>
  BY DEF ProjectsInv, MatchNext
<1>1. PICK p, h, loaded, todo :
         p = Head(match.todo) /\ h = match.hit /\ loaded = match.loaded /\ todo = match.todo
  OBVIOUS
<1>2. /\ h \in NewHits /\ matched[h].is = "begun" /\ todo \in Seq(ProjectIds)
      /\ Range(todo) \subseteq DOMAIN loaded
      /\ \A i, j \in 1..Len(todo) : todo[i] = todo[j] => i = j
      /\ DOMAIN loaded \subseteq Created
      /\ RecordedIn(projectHits, There, h, loaded, DOMAIN loaded \ Range(todo))
      /\ match = [hit |-> h, todo |-> todo, loaded |-> loaded, unread |-> <<>>]
  BY <1>0, <1>1 DEF MatchInv
<1>3. /\ p \in ProjectIds /\ Tail(todo) \in Seq(ProjectIds) /\ p \in Range(todo)
      /\ Range(todo) = Range(Tail(todo)) \cup {p} /\ p \notin Range(Tail(todo))
      /\ \A i, j \in 1..Len(Tail(todo)) : Tail(todo)[i] = Tail(todo)[j] => i = j
  <2>1. todo # <<>> /\ p = Head(todo)
    BY <1>0, <1>1
  <2>2. QED BY <1>2, <2>1, QueueShrinks, DistinctShrinks
<1>4. /\ HitsOf(projectHits, p, h) = {}
      /\ RecordedIn(projectHits \cup Due(p, h, loaded[p]), There, h, loaded,
                    (DOMAIN loaded \ Range(todo)) \cup {p})
  <2>1. p \in ProjectIds \ (DOMAIN loaded \ Range(todo))
    BY <1>3
  <2>2. QED BY <1>2, <2>1, OneMoreRecorded
<1>5. projectHits' = projectHits \cup Due(p, h, loaded[p])
  <2>1. ~\E x \in projectHits : x.project = p /\ x.hit = h
    BY <1>4 DEF HitsOf
  <2>2. projectHits' = IF MatchedOn(h, loaded[p]) = "nothing" THEN projectHits
                       ELSE projectHits \cup {[project |-> p, hit |-> h,
                                               on |-> MatchedOn(h, loaded[p])]}
    BY <1>1, <2>1 DEF MatchNext
  <2>3. QED BY <2>2 DEF Due
<1>6. match' = [hit |-> h, todo |-> Tail(todo), loaded |-> loaded, unread |-> <<>>]
  <2>1. match' = [match EXCEPT !.todo = Tail(todo)]
    BY <1>1 DEF MatchNext, RestOf
  <2>2. QED BY <1>2, <2>1
<1>7. /\ UNCHANGED <<project, ask, matched>> /\ Created' = Created /\ There' = There
  BY DEF MatchNext, Created, There, Exists
<1>8. HitInv'
  <2>1. projectHits' \subseteq [project : Created', hit : NewHits, on : Grounds]
    <3>1. Due(p, h, loaded[p]) \subseteq [project : Created, hit : NewHits, on : Grounds]
      BY <1>2, <1>3 DEF Due, MatchedOn, Grounds
    <3>2. QED BY <1>0, <1>5, <1>7, <3>1 DEF HitInv
  <2>2. ASSUME NEW k \in NewHits
        PROVE  /\ matched[k].is = "new" => RecordedIn(projectHits', There, k, Nothing, {})
               /\ matched[k].is = "done" =>
                     RecordedIn(projectHits', There, k, matched[k].by, DOMAIN matched[k].by)
    <3>1. CASE k = h
      BY <1>2, <3>1
    <3>2. CASE k # h
      BY <1>0, <1>5, <3>2, OthersRecorded DEF HitInv
    <3>3. QED BY <3>1, <3>2
  <2>3. QED BY <1>0, <1>7, <2>1, <2>2 DEF HitInv
<1>9. MatchInv'
  <2>1. (DOMAIN loaded \ Range(todo)) \cup {p} = DOMAIN loaded \ Range(Tail(todo))
    BY <1>2, <1>3
  <2>2. RecordedIn(projectHits', There', h, loaded, DOMAIN loaded \ Range(Tail(todo)))
    BY <1>4, <1>5, <1>7, <2>1
  <2>3. Range(Tail(todo)) \subseteq DOMAIN loaded
    BY <1>2, <1>3
  <2>4. /\ match'.hit = h /\ match'.todo = Tail(todo) /\ match'.loaded = loaded
        /\ match'.unread = <<>>
        /\ matched'[h].is = "begun" /\ DOMAIN loaded \subseteq Created'
    BY <1>2, <1>6, <1>7
  <2>5. QED BY <1>2, <1>3, <1>6, <2>2, <2>3, <2>4 DEF MatchInv
<1>10. QED BY <1>0, <1>7, <1>8, <1>9 DEF ProjectsInv, ProjectInv

LEMMA StepMatched ==
    ASSUME ProjectsInv, MatchEnds \/ MatchFails
    PROVE  ProjectsInv'
<1>0. ProjectInv /\ HitInv /\ MatchInv /\ match # NoMatch
  BY DEF ProjectsInv, MatchEnds, MatchFails
<1>1. /\ UNCHANGED <<project, projectHits, ask>> /\ Created' = Created /\ There' = There
      /\ match' = NoMatch
  BY DEF MatchEnds, MatchFails, Created, There, Exists
<1>2. ProjectInv' /\ MatchInv'
  BY <1>0, <1>1 DEF ProjectInv, MatchInv
<1>3. CASE UNCHANGED matched
  BY <1>0, <1>1, <1>2, <1>3 DEF ProjectsInv, HitInv
<1>4. CASE MatchEnds
  <2>1. PICK h, loaded : h = match.hit /\ loaded = match.loaded
    OBVIOUS
  <2>2. Range(match.todo) = {}
    BY <1>4 DEF MatchEnds, Range
  <2>3. /\ h \in NewHits /\ DOMAIN loaded \subseteq Created
        /\ RecordedIn(projectHits, There, h, loaded, DOMAIN loaded)
    BY <1>0, <2>1, <2>2 DEF MatchInv
  <2>4. matched' = [matched EXCEPT ![h] = [is |-> "done", by |-> loaded]]
    BY <1>4, <2>1 DEF MatchEnds
  <2>5. /\ matched'[h] = [is |-> "done", by |-> loaded]
        /\ \A k \in NewHits \ {h} : matched'[k] = matched[k]
        /\ matched' = [k \in NewHits |-> matched'[k]]
    BY <1>0, <2>3, <2>4 DEF HitInv
  <2>6. \A k \in NewHits : matched'[k] = [is |-> matched'[k].is, by |-> matched'[k].by]
    BY <1>0, <2>5 DEF HitInv
  <2>7. matched' = [k \in NewHits |-> [is |-> matched'[k].is, by |-> matched'[k].by]]
    BY <2>5, <2>6
  <2>8. HitInv'
    BY <1>0, <1>1, <2>3, <2>5, <2>7 DEF HitInv
  <2>9. QED BY <1>2, <2>8 DEF ProjectsInv
<1>5. QED BY <1>3, <1>4 DEF MatchFails

LEMMA StepProjects == ProjectsInv /\ [ProjectsNext]_projectVars => ProjectsInv'
<1> SUFFICES ASSUME ProjectsInv, [ProjectsNext]_projectVars PROVE ProjectsInv'
  OBVIOUS
<1>1. CASE UNCHANGED projectVars
  BY <1>1
  DEF projectVars, ProjectsInv, ProjectInv, HitInv, MatchInv, Created, There, Exists
<1>2. QED
  BY <1>1, StepCreate, StepAsk, StepDelete, StepLoad, StepLoadRows, StepMatch, StepMatched
  DEF ProjectsNext

\* A hit that was matched is recorded once in every project that was active when its match
\* began and whose settings as they were read it meets, and in no other, for any number of projects, rows and
\* requests that change them meanwhile.
THEOREM HitsAreRecorded == ProjectsSpec => []MatchedIsRecorded
<1>1. ASSUME ProjectsInv PROVE MatchedIsRecorded
  <2>1. SUFFICES ASSUME NEW h \in NewHits, matched[h].is = "done"
                 PROVE  {x \in projectHits : x.hit = h /\ Exists(x.project)} =
                        {[project |-> p, hit |-> h, on |-> MatchedOn(h, matched[h].by[p])] :
                            p \in {q \in DOMAIN matched[h].by :
                                      Exists(q) /\ MatchedOn(h, matched[h].by[q]) # "nothing"}}
    BY DEF MatchedIsRecorded
  <2> DEFINE loaded == matched[h].by
             Recorded == {x \in projectHits : x.hit = h /\ Exists(x.project)}
             IsDue(p) == Exists(p) /\ MatchedOn(h, loaded[p]) # "nothing"
             RowOf(p) == [project |-> p, hit |-> h, on |-> MatchedOn(h, loaded[p])]
  <2>2. /\ DOMAIN loaded \subseteq ProjectIds
        /\ RecordedIn(projectHits, There, h, loaded, DOMAIN loaded)
        /\ projectHits \subseteq [project : ProjectIds, hit : NewHits, on : Grounds]
    BY <1>1, <2>1 DEF ProjectsInv, HitInv, Created
  <2> HIDE DEF loaded
  <2>3. ASSUME NEW x \in Recorded
        PROVE  x.project \in DOMAIN loaded /\ IsDue(x.project) /\ x = RowOf(x.project)
    <3>1. /\ x.project \in ProjectIds /\ x \in HitsOf(projectHits, x.project, h)
          /\ Exists(x.project)
      BY <2>2 DEF HitsOf
    <3>2. x.project \in DOMAIN loaded /\ x.project \in There
      BY <2>2, <3>1 DEF RecordedIn, There
    <3>3. x \in Due(x.project, h, loaded[x.project])
      BY <2>2, <3>1, <3>2 DEF RecordedIn
    <3>4. QED BY <3>1, <3>2, <3>3 DEF Due
  <2>4. ASSUME NEW p \in DOMAIN loaded, IsDue(p) PROVE RowOf(p) \in Recorded
    <3>1. RowOf(p) \in Due(p, h, loaded[p])
      BY <2>4 DEF Due
    <3>2. HitsOf(projectHits, p, h) = Due(p, h, loaded[p])
      BY <2>2, <2>4 DEF RecordedIn, There
    <3>3. RowOf(p) \in projectHits
      BY <3>1, <3>2 DEF HitsOf
    <3>4. QED BY <2>4, <3>3
  <2>5. Recorded = {RowOf(p) : p \in {q \in DOMAIN loaded : IsDue(q)}}
    BY <2>3, <2>4
  <2>6. QED BY <2>5 DEF loaded
<1>2. QED BY <1>1, InitProjects, StepProjects, PTL DEF ProjectsSpec

-----------------------------------------------------------------------------
(* The settings files: types. *)

LEMMA SettingMarks ==
    /\ Valid \subseteq Entries /\ Bundled \subseteq Entries /\ Ransomware \subseteq Valid
    /\ "absent" \notin Entries /\ NoHolder \notin SettingReqs
BY SettingsAssumption DEF NoHolder

LEMMA FileIsRead == SettingsTypeOK => OnDisk \subseteq Entries
BY SettingMarks DEF SettingsTypeOK, OnDisk

LEMMA ChangeIsAFile ==
    ASSUME SettingsTypeOK, NEW w \in SettingReqs
    PROVE  Changed(w) \subseteq Entries /\ Changed(w) # Absent
BY SettingMarks DEF SettingsTypeOK, Changed, Absent

LEMMA WantsType ==
    ASSUME SettingsTypeOK, NEW w \in SettingReqs, NEW add \in SUBSET Valid,
           NEW remove \in SUBSET Entries, Wants(w, add, remove)
    PROVE  SettingsTypeOK'
BY DEF SettingsTypeOK, Wants, EditSteps

\* What begins a request, in one form.
LEMMA EditBegins ==
    ASSUME NEW w \in SettingReqs,
           AddAll(w) \/ Import(w) \/ AddRansomware(w) \/ RemoveEntry(w)
    PROVE  \E add \in SUBSET Valid, remove \in SUBSET Entries : Wants(w, add, remove)
BY SettingMarks DEF AddAll, Import, AddRansomware, RemoveEntry

LEMMA StepSettings == SettingsTypeOK /\ [SettingsNext]_settingVars => SettingsTypeOK'
<1> SUFFICES ASSUME SettingsTypeOK, [SettingsNext]_settingVars PROVE SettingsTypeOK'
  OBVIOUS
<1>1. CASE UNCHANGED settingVars
  BY <1>1 DEF SettingsTypeOK, settingVars
<1>2. ASSUME NEW w \in SettingReqs,
             AddAll(w) \/ Import(w) \/ AddRansomware(w) \/ RemoveEntry(w)
      PROVE  SettingsTypeOK'
  BY <1>2, EditBegins, WantsType
<1>3. ASSUME NEW w \in SettingReqs, TakeLock(w) PROVE SettingsTypeOK'
  BY <1>3 DEF TakeLock, EditGoes, SettingsTypeOK, EditSteps
<1>4. ASSUME NEW w \in SettingReqs, ReadFile(w) PROVE SettingsTypeOK'
  <2>1. PICK Edits : Edits = [at : EditSteps, add : SUBSET Valid, remove : SUBSET Entries,
                              text : SUBSET Entries]
    OBVIOUS
  <2>2. \A e \in Edits : [e EXCEPT !.at = "writes", !.text = OnDisk] \in Edits
    BY <2>1, FileIsRead DEF EditSteps
  <2>3. edit' = [edit EXCEPT ![w] = [edit[w] EXCEPT !.at = "writes", !.text = OnDisk]]
    BY <1>4 DEF ReadFile
  <2>4. edit \in [SettingReqs -> Edits]
    BY <2>1 DEF SettingsTypeOK
  <2>5. edit' \in [SettingReqs -> Edits]
    BY <1>4, <2>2, <2>3, <2>4
  <2>6. QED BY <1>4, <2>1, <2>5 DEF ReadFile, SettingsTypeOK
<1>5. ASSUME NEW w \in SettingReqs, KeepFile(w) PROVE SettingsTypeOK'
  BY <1>5 DEF KeepFile, EditGoes, ReleaseFile, SettingsTypeOK, EditSteps
<1>6. ASSUME NEW w \in SettingReqs, WriteTemp(w) PROVE SettingsTypeOK'
  BY <1>6 DEF WriteTemp, EditGoes, SettingsTypeOK, EditSteps
<1>7. ASSUME NEW w \in SettingReqs, Rename(w) PROVE SettingsTypeOK'
  BY <1>7, ChangeIsAFile DEF Rename, EditGoes, ReleaseFile, SettingsTypeOK, EditSteps
<1>8. ASSUME NEW w \in SettingReqs, EditFails(w) PROVE SettingsTypeOK'
  BY <1>8 DEF EditFails, NoEdit, ReleaseFile, SettingsTypeOK, EditSteps
<1>9. ASSUME NEW w \in SettingReqs, TellDone(w) PROVE SettingsTypeOK'
  BY <1>9 DEF TellDone, NoEdit, SettingsTypeOK, EditSteps
<1>10. CASE ReadSettings
  BY <1>10, FileIsRead DEF ReadSettings, SettingsTypeOK
<1>11. CASE DashboardDies
  BY <1>11 DEF DashboardDies, NoEdit, SettingsTypeOK, EditSteps
<1>12. QED
  BY <1>1, <1>2, <1>3, <1>4, <1>5, <1>6, <1>7, <1>8, <1>9, <1>10, <1>11 DEF SettingsNext

LEMMA InitSettings == SettingsInit => SettingsTypeOK
BY SettingMarks DEF SettingsInit, SettingsTypeOK, NoEdit, EditSteps

\* Whatever was asked, done or broken off, the file holds entries and nothing else.
THEOREM SettingsTypeCorrect == SettingsSpec => []SettingsTypeOK
BY InitSettings, StepSettings, PTL DEF SettingsSpec

-----------------------------------------------------------------------------
(* The request that reads, changes or writes the file holds its lock, and what *)
(* it has read is still what is there.                                         *)

\* A request is at one of these steps from its read to its rename.
Writing == {"reads", "writes", "renames"}

OneWriter == \A w \in SettingReqs : edit[w].at \in Writing => fileLock = w

ReadIsCurrent ==
    \A w \in SettingReqs : edit[w].at \in {"writes", "renames"} => edit[w].text = OnDisk

\* A request that nobody has made asks for nothing.
NothingAsked == \A w \in SettingReqs : edit[w].at = "none" => edit[w] = NoEdit

Guarded == OneWriter /\ ReadIsCurrent /\ NothingAsked

LEMMA InitGuarded == SettingsInit => Guarded
BY DEF SettingsInit, Guarded, OneWriter, ReadIsCurrent, NothingAsked, NoEdit, Writing

LEMMA StepGuarded ==
    ASSUME SettingsTypeOK, Guarded, [SettingsNext]_settingVars
    PROVE  Guarded'
<1> USE DEF Guarded, OneWriter, ReadIsCurrent, NothingAsked, Writing
<1>1. CASE UNCHANGED settingVars
  BY <1>1 DEF settingVars, OnDisk
<1>2. ASSUME NEW w \in SettingReqs,
             AddAll(w) \/ Import(w) \/ AddRansomware(w) \/ RemoveEntry(w)
      PROVE  Guarded'
  <2>1. PICK add \in SUBSET Valid, remove \in SUBSET Entries : Wants(w, add, remove)
    BY <1>2, EditBegins
  <2>2. QED BY <2>1 DEF Wants, OnDisk, SettingsTypeOK
<1>3. ASSUME NEW w \in SettingReqs, TakeLock(w) PROVE Guarded'
  BY <1>3, SettingMarks DEF TakeLock, Free, EditGoes, OnDisk, SettingsTypeOK
<1>4. ASSUME NEW w \in SettingReqs, ReadFile(w) PROVE Guarded'
  BY <1>4 DEF ReadFile, OnDisk, SettingsTypeOK
<1>5. ASSUME NEW w \in SettingReqs, KeepFile(w) PROVE Guarded'
  BY <1>5, SettingMarks DEF KeepFile, EditGoes, ReleaseFile, OnDisk, SettingsTypeOK
<1>6. ASSUME NEW w \in SettingReqs, WriteTemp(w) PROVE Guarded'
  BY <1>6 DEF WriteTemp, EditGoes, OnDisk, SettingsTypeOK
\* No other request is about to write what it has read: w alone holds the lock.
<1>7. ASSUME NEW w \in SettingReqs, Rename(w) PROVE Guarded'
  <2>1. \A v \in SettingReqs \ {w} : edit[v].at \notin Writing
    BY <1>7 DEF Rename
  <2>2. \A v \in SettingReqs \ {w} : edit'[v] = edit[v]
    BY <1>7 DEF Rename, EditGoes, SettingsTypeOK
  <2>3. edit'[w].at = "done"
    BY <1>7 DEF Rename, EditGoes, SettingsTypeOK
  <2>4. QED BY <2>1, <2>2, <2>3
<1>8. ASSUME NEW w \in SettingReqs, EditFails(w) PROVE Guarded'
  BY <1>8 DEF EditFails, NoEdit, ReleaseFile, OnDisk, SettingsTypeOK
<1>9. ASSUME NEW w \in SettingReqs, TellDone(w) PROVE Guarded'
  BY <1>9 DEF TellDone, NoEdit, OnDisk, SettingsTypeOK
<1>10. CASE ReadSettings
  BY <1>10 DEF ReadSettings, OnDisk
<1>11. CASE DashboardDies
  BY <1>11 DEF DashboardDies, NoEdit, OnDisk
<1>12. QED
  BY <1>1, <1>2, <1>3, <1>4, <1>5, <1>6, <1>7, <1>8, <1>9, <1>10, <1>11 DEF SettingsNext

\* One request at a time reads, changes and writes a file, and what it has read is what
\* the file holds until it writes it: lock_for and the two update functions.
THEOREM OneChangeAtATime == SettingsSpec => [](OneWriter /\ ReadIsCurrent)
BY InitSettings, StepSettings, InitGuarded, StepGuarded, PTL DEF SettingsSpec, Guarded

-----------------------------------------------------------------------------
(* The refinement: what a step does to the content of the file and to the wishes. *)

LEMMA WishesStay ==
    ASSUME NEW w \in SettingReqs, SettingsTypeOK,
           \A v \in SettingReqs : edit'[v] = edit[v]
                                  \/ (v = w /\ WishOf(w)' = WishOf(w))
    PROVE  Wish' = Wish
BY DEF Wish, WishOf

LEMMA WishChanges ==
    ASSUME NEW w \in SettingReqs, SettingsTypeOK,
           \A v \in SettingReqs \ {w} : edit'[v] = edit[v]
    PROVE  Wish' = [Wish EXCEPT ![w] = WishOf(w)']
BY DEF Wish, WishOf

\* A change that is written is the abstract one.
LEMMA ChangeIsDone ==
    ASSUME NEW w \in SettingReqs, SettingsTypeOK, Guarded, edit[w].at \in {"writes", "renames"}
    PROVE  Changed(w) = (OnDisk \ edit[w].remove) \cup edit[w].add
BY DEF Changed, Guarded, ReadIsCurrent

LEMMA StepRefines ==
    ASSUME SettingsTypeOK, Guarded, [SettingsNext]_settingVars
    PROVE  [Abstract!FileNext]_<<OnDisk, Wish, shown>>
<1>1. CASE UNCHANGED settingVars
  BY <1>1 DEF settingVars, OnDisk, Wish, WishOf
<1>2. ASSUME NEW w \in SettingReqs,
             AddAll(w) \/ Import(w) \/ AddRansomware(w) \/ RemoveEntry(w)
      PROVE  Abstract!Ask(w)
  <2>1. PICK add \in SUBSET Valid, remove \in SUBSET Entries : Wants(w, add, remove)
    BY <1>2, EditBegins
  <2>2. edit'[w] = [at |-> "locks", add |-> add, remove |-> remove, text |-> {}]
    BY <2>1 DEF Wants, SettingsTypeOK
  <2>3. WishOf(w) = [at |-> "none", add |-> {}, remove |-> {}]
    BY <2>1 DEF Wants, WishOf, NoEdit
  <2>4. WishOf(w)' = [at |-> "asked", add |-> add, remove |-> remove]
    BY <2>2 DEF WishOf
  <2>5. Wish' = [Wish EXCEPT ![w] = WishOf(w)']
    BY <2>1, WishChanges DEF Wants, SettingsTypeOK
  <2>6. Wish[w] = WishOf(w) /\ Wish'[w] = WishOf(w)'
    BY DEF Wish
  <2>7. OnDisk' = OnDisk /\ shown' = shown
    BY <2>1 DEF Wants, OnDisk
  <2>8. Wish[w] = Abstract!NoWish
    BY <2>3, <2>6 DEF Abstract!NoWish
  <2>9. /\ Wish'[w].at = "asked" /\ Wish'[w].add \subseteq Valid
        /\ Wish'[w].remove \subseteq Entries
    BY <2>4, <2>6
  <2>10. Wish' = [Wish EXCEPT ![w] = Wish'[w]]
    BY <2>5, <2>6
  <2>11. QED BY <2>7, <2>8, <2>9, <2>10 DEF Abstract!Ask
<1>3. ASSUME NEW w \in SettingReqs, TakeLock(w) \/ ReadFile(w) \/ WriteTemp(w)
      PROVE  UNCHANGED <<OnDisk, Wish, shown>>
  <2>1. OnDisk' = OnDisk /\ shown' = shown
    BY <1>3 DEF TakeLock, ReadFile, WriteTemp, OnDisk
  <2>2. WishOf(w)' = WishOf(w)
    BY <1>3 DEF TakeLock, ReadFile, WriteTemp, EditGoes, WishOf, SettingsTypeOK
  <2>3. \A v \in SettingReqs \ {w} : edit'[v] = edit[v]
    BY <1>3 DEF TakeLock, ReadFile, WriteTemp, EditGoes, SettingsTypeOK
  <2>4. Wish' = Wish
    BY <2>2, <2>3, WishesStay
  <2>5. QED BY <2>1, <2>4
<1>4. ASSUME NEW w \in SettingReqs, KeepFile(w) \/ Rename(w)
      PROVE  Abstract!Do(w)
  <2>1. edit[w].at \in {"writes", "renames"}
    BY <1>4 DEF KeepFile, Rename
  <2>2. OnDisk' = Changed(w)
    <3>1. CASE KeepFile(w)
      BY <3>1, <2>1 DEF KeepFile, OnDisk, Guarded, ReadIsCurrent
    <3>2. CASE Rename(w)
      BY <3>2, ChangeIsAFile DEF Rename, OnDisk
    <3>3. QED BY <1>4, <3>1, <3>2
  <2>3. edit' = [edit EXCEPT ![w].at = "done"] /\ shown' = shown
    BY <1>4 DEF KeepFile, Rename, EditGoes
  <2>4. Wish[w] = WishOf(w) /\ Wish[w].at = "asked"
        /\ Wish[w].add = edit[w].add /\ Wish[w].remove = edit[w].remove
    BY <2>1 DEF Wish, WishOf
  <2>5. WishOf(w)' = [WishOf(w) EXCEPT !.at = "done"]
    BY <2>1, <2>3 DEF WishOf, SettingsTypeOK
  <2>6. Wish' = [Wish EXCEPT ![w] = WishOf(w)']
    BY <2>3, WishChanges DEF SettingsTypeOK
  <2>7. Wish' = [Wish EXCEPT ![w].at = "done"]
    BY <2>4, <2>5, <2>6
  <2>8. OnDisk' = (OnDisk \ Wish[w].remove) \cup Wish[w].add
    BY <2>1, <2>2, <2>4, ChangeIsDone
  <2>9. QED BY <2>3, <2>4, <2>7, <2>8 DEF Abstract!Do
<1>5. ASSUME NEW w \in SettingReqs, EditFails(w) \/ TellDone(w)
      PROVE  Abstract!Tell(w)
  <2>1. edit[w].at \in {"locks", "reads", "writes", "renames", "done"}
    BY <1>5 DEF EditFails, TellDone
  <2>2. Wish[w].at \in {"asked", "done"}
    BY <2>1 DEF Wish, WishOf
  <2>3. edit' = [edit EXCEPT ![w] = NoEdit]
    BY <1>5 DEF EditFails, TellDone
  <2>4. WishOf(w)' = Abstract!NoWish
    BY <2>3 DEF WishOf, NoEdit, Abstract!NoWish, SettingsTypeOK
  <2>5. Wish' = [Wish EXCEPT ![w] = Abstract!NoWish]
    BY <2>3, <2>4, WishChanges DEF SettingsTypeOK
  <2>6. OnDisk' = OnDisk /\ shown' = shown
    BY <1>5 DEF EditFails, TellDone, OnDisk
  <2>7. QED BY <2>2, <2>5, <2>6 DEF Abstract!Tell
<1>6. CASE ReadSettings
  BY <1>6 DEF ReadSettings, Abstract!FileNext, Abstract!Show, OnDisk, Wish, WishOf
<1>7. CASE DashboardDies
  <2>1. \A w \in SettingReqs : WishOf(w)' = Abstract!NoWish
    BY <1>7 DEF DashboardDies, WishOf, NoEdit, Abstract!NoWish
  <2>2. Wish' = [w \in SettingReqs |-> Abstract!NoWish]
    BY <2>1 DEF Wish
  <2>3. QED BY <1>7, <2>2 DEF DashboardDies, Abstract!Stop, Abstract!FileNext, OnDisk
<1>8. QED
  BY <1>1, <1>2, <1>3, <1>4, <1>5, <1>6, <1>7 DEF SettingsNext, Abstract!FileNext

LEMMA InitRefines == SettingsInit => Abstract!FileInit
BY DEF SettingsInit, Abstract!FileInit, OnDisk, Wish, WishOf, NoEdit, Abstract!NoWish

\* A change of the keywords or the seeds is made to all that the file holds at that moment
\* and in one step, and a request that is told of success has its change: file_store.py.
THEOREM KeepsChanges == SettingsSpec => ChangesAreAtomic
<1>1. SettingsTypeOK /\ Guarded /\ [SettingsNext]_settingVars
      => [Abstract!FileNext]_<<OnDisk, Wish, shown>>
  BY StepRefines
<1>2. SettingsInit => SettingsTypeOK /\ Guarded
  BY InitSettings, InitGuarded
<1>3. SettingsTypeOK /\ Guarded /\ [SettingsNext]_settingVars => SettingsTypeOK' /\ Guarded'
  BY StepSettings, StepGuarded
<1>4. SettingsSpec => Abstract!FileInit /\ [][Abstract!FileNext]_<<OnDisk, Wish, shown>>
  BY <1>1, <1>2, <1>3, InitRefines, PTL DEF SettingsSpec
<1>5. QED BY <1>4 DEF ChangesAreAtomic, Abstract!FileSpec

=============================================================================
