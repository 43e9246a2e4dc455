-------------------------- MODULE HeavyJobsProofs --------------------------
(* What HeavyJobs promises for every number of users and operations, and FanOut for *)
(* every number of calls, items and workers.                                        *)
EXTENDS HeavyJobs, FanOut, QueueLemmas, FiniteSetTheorems, TLAPS

-----------------------------------------------------------------------------
(* Types. *)

LEMMA StepNames ==
    /\ "request" \in Threads /\ "job" \in Threads
    /\ \A s \in {"idle", "acquire", "row", "spawn", "work", "save", "unlock",
                 "set done", "mark", "give back"} : s \in Steps
BY DEF Threads, Steps

LEMMA MoveType ==
    ASSUME NEW a \in [Threads -> [Ops -> Steps]],
           NEW t \in Threads, NEW o \in Ops, NEW to \in Steps
    PROVE  [a EXCEPT ![t][o] = to] \in [Threads -> [Ops -> Steps]]
OBVIOUS

LEMMA StepType ==
    ASSUME TypeOK, NEW t \in Threads, NEW o \in Ops, NEW to \in Steps
    PROVE  [at EXCEPT ![t][o] = to] \in [Threads -> [Ops -> Steps]]
BY MoveType DEF TypeOK

LEMMA KindNames == \A o \in Ops : KindOf[o] \in Kinds /\ UserOf[o] \in Users
BY ConstantsAssumption

LEMMA LessType == \A n \in Nat : Less(n) \in Nat /\ Less(n) <= n
BY DEF Less

\* The steps of a request and of a thread keep the types.
LEMMA LimiterType ==
    ASSUME TypeOK, NEW o \in Ops, NEW t \in Threads,
           Acquire(o) \/ Refuse(o) \/ Mark(t, o) \/ GiveBack(t, o)
    PROVE  TypeOK'
<1>1. CASE Acquire(o)
  <2>1. \E to \in Steps : at' = [at EXCEPT !["request"][o] = to]
    BY <1>1, KindNames DEF Acquire, Step, Steps, Kinds
  <2>2. at' \in [Threads -> [Ops -> Steps]]
    BY ZenonT(30), <2>1, StepType, StepNames
  <2>3. mine[UserOf[o]] + 1 \in Nat /\ total + 1 \in Nat
    BY KindNames DEF TypeOK
  <2>4. QED BY <1>1, <2>2, <2>3 DEF Acquire, TypeOK
<1>2. CASE Refuse(o)
  BY <1>2, StepType, StepNames DEF Refuse, Step, TypeOK
<1>3. AfterRelease(t, o) \in Steps
  BY StepNames DEF AfterRelease
<1>4. CASE Mark(t, o)
  <2>1. \E to \in Steps : at' = [at EXCEPT ![t][o] = to]
    BY <1>3, <1>4, StepNames DEF Mark, Step
  <2>2. at' \in [Threads -> [Ops -> Steps]]
    BY <2>1, StepType
  <2>3. slot' = slot \/ slot' = [slot EXCEPT ![o] = "marked"]
    BY <1>4 DEF Mark
  <2>4. QED BY <1>4, <2>2, <2>3 DEF Mark, TypeOK
<1>5. CASE GiveBack(t, o)
  <2>1. at' \in [Threads -> [Ops -> Steps]]
    BY <1>3, <1>5, StepType DEF GiveBack, Step
  <2>2. Less(total) \in Nat /\ Less(mine[UserOf[o]]) \in Nat
    BY KindNames, LessType DEF TypeOK
  <2>3. QED BY <1>5, <2>1, <2>2 DEF GiveBack, TypeOK
<1>6. QED BY <1>1, <1>2, <1>4, <1>5

LEMMA RouteType ==
    ASSUME TypeOK, NEW o \in Ops,
           \/ Arrive(o) \/ CreateRow(o) \/ RowFails(o) \/ Spawn(o)
           \/ SpawnFails(o) \/ SpawnLate(o) \/ UnlockFailed(o)
    PROVE  TypeOK'
<1>1. CASE Arrive(o)
  BY <1>1, StepType, StepNames DEF Arrive, TypeOK
<1>2. CASE CreateRow(o)
  <2>1. \E to \in Steps : at' = [at EXCEPT !["request"][o] = to]
    BY <1>2, StepNames DEF CreateRow, Step
  <2>2. at' \in [Threads -> [Ops -> Steps]]
    BY ZenonT(30), <2>1, StepType, StepNames
  <2>3. QED BY <1>2, <2>2 DEF CreateRow, TypeOK
<1>3. CASE RowFails(o) \/ SpawnFails(o)
  <2>1. at' = [at EXCEPT !["request"][o] = "mark"]
    BY <1>3 DEF RowFails, SpawnFails, Step
  <2>2. at' \in [Threads -> [Ops -> Steps]]
    BY <2>1, StepType, StepNames
  <2>3. QED BY <1>3, <2>2 DEF RowFails, SpawnFails, TypeOK
<1>4. CASE Spawn(o) \/ SpawnLate(o)
  <2>1. PICK to \in Steps :
          at' = [at EXCEPT !["request"][o] = to, !["job"][o] = "work"]
    BY <1>4, StepNames DEF Spawn, SpawnLate
  <2>2. [at EXCEPT !["request"][o] = to] \in [Threads -> [Ops -> Steps]]
    BY StepType, StepNames
  <2>3. [[at EXCEPT !["request"][o] = to] EXCEPT !["job"][o] = "work"]
          \in [Threads -> [Ops -> Steps]]
    BY <2>2, MoveType, StepNames
  <2>4. at' \in [Threads -> [Ops -> Steps]]
    BY <2>1, <2>3
  <2>5. QED BY <1>4, <2>4 DEF Spawn, SpawnLate, TypeOK
<1>5. CASE UnlockFailed(o)
  BY <1>5, StepType, StepNames DEF UnlockFailed, Step, TypeOK
<1>6. QED BY <1>1, <1>2, <1>3, <1>4, <1>5

LEMMA WorkType ==
    ASSUME TypeOK, NEW o \in Ops, NEW t \in Threads,
           WorkEnds(t, o) \/ Save(t, o) \/ UnlockSent(o) \/ SetDone(o)
    PROVE  TypeOK'
<1>1. CASE WorkEnds(t, o)
  BY <1>1, StepType, StepNames DEF WorkEnds, Step, TypeOK
<1>2. CASE Save(t, o)
  BY <1>2, StepType, StepNames DEF Save, Step, TypeOK
<1>3. CASE UnlockSent(o)
  BY <1>3, StepType, StepNames DEF UnlockSent, Step, TypeOK
<1>4. CASE SetDone(o)
  BY <1>4, StepType, StepNames DEF SetDone, Step, TypeOK
<1>5. QED BY <1>1, <1>2, <1>3, <1>4

LEMMA RestartType ==
    ASSUME TypeOK, Restart
    PROVE  TypeOK'
<1>1. [t \in Threads |-> [o \in Ops |-> "idle"]] \in [Threads -> [Ops -> Steps]]
  BY StepNames
<1>2. running \ Closed \in SUBSET Ops /\ running \in SUBSET Ops
  BY DEF TypeOK
<1>3. [u \in Users |-> 0] \in [Users -> Nat]
  OBVIOUS
<1>4. [o \in Ops |-> "free"] \in [Ops -> {"free", "held", "marked"}]
  OBVIOUS
<1>5. QED BY <1>1, <1>2, <1>3, <1>4 DEF TypeOK, Restart

\* The steps of Next, one thread at a time.
LEMMA NextSteps ==
    ASSUME Next, ~Restart
    PROVE  \E o \in Ops, t \in Threads :
             \/ Arrive(o) \/ Acquire(o) \/ Refuse(o) \/ CreateRow(o) \/ RowFails(o)
             \/ Spawn(o) \/ SpawnFails(o) \/ SpawnLate(o) \/ UnlockFailed(o)
             \/ WorkEnds(t, o) \/ Save(t, o) \/ Mark(t, o) \/ GiveBack(t, o)
             \/ UnlockSent(o) \/ SetDone(o)
<1>1. PICK o \in Ops : Arrive(o) \/ RequestStep(o) \/ JobStep(o)
  BY DEF Next
<1>2. CASE Arrive(o) \/ RequestStep(o)
  BY <1>2, StepNames DEF RequestStep, Release
<1>3. CASE JobStep(o)
  BY <1>3, StepNames DEF JobStep, Release
<1>4. QED BY <1>1, <1>2, <1>3

\* Every variable keeps its type.
THEOREM TypeCorrect == Spec => []TypeOK
<1>1. Init => TypeOK
  <2> SUFFICES ASSUME Init PROVE TypeOK
    OBVIOUS
  <2>1. [t \in Threads |-> [o \in Ops |-> "idle"]] \in [Threads -> [Ops -> Steps]]
    BY StepNames
  <2>2. [u \in Users |-> 0] \in [Users -> Nat]
    OBVIOUS
  <2>3. [o \in Ops |-> "free"] \in [Ops -> {"free", "held", "marked"}]
    OBVIOUS
  <2>4. [o \in Ops |-> FALSE] \in [Ops -> BOOLEAN]
    OBVIOUS
  <2>5. QED BY <2>1, <2>2, <2>3, <2>4 DEF Init, TypeOK
<1>2. TypeOK /\ [Next]_vars => TypeOK'
  <2>1. TypeOK /\ Restart => TypeOK'
    BY RestartType
  <2>2. TypeOK /\ Next /\ ~Restart => TypeOK'
    BY NextSteps, LimiterType, RouteType, WorkType
  <2>3. TypeOK /\ UNCHANGED vars => TypeOK'
    BY DEF TypeOK, vars
  <2>4. QED BY <2>1, <2>2, <2>3
<1>3. QED BY <1>1, <1>2, PTL DEF Spec

-----------------------------------------------------------------------------
(* The counters.  A slot that is held has somebody on the way to release it,  *)
(* and exactly one thread gives it back.                                     *)

ToRelease(o) ==
    \/ at["request"][o] \in {"row", "spawn", "work", "save", "mark"}
    \/ at["job"][o] \in {"work", "save", "unlock", "set done", "mark"}
GivingBack(o) == at["request"][o] = "give back" \/ at["job"][o] = "give back"

HasReleaser(o) ==
    /\ at["request"][o] \in {"acquire", "row", "spawn"} => at["job"][o] = "idle"
    /\ at["request"][o] \in {"row", "work", "save"} => KindOf[o] # "digest"
    /\ slot[o] = "held" => ToRelease(o)
    /\ slot[o] = "marked" <=> GivingBack(o)
    /\ ~(at["request"][o] = "give back" /\ at["job"][o] = "give back")
    /\ "late" \notin Faults =>
         /\ at["job"][o] # "idle" => at["request"][o] = "idle"
         /\ ToRelease(o) => slot[o] = "held"

Released == \A o \in Ops : HasReleaser(o)

LEMMA OthersKeep ==
    ASSUME Released, NEW o \in Ops,
           \A p \in Ops : p # o =>
             /\ slot'[p] = slot[p]
             /\ at'["request"][p] = at["request"][p]
             /\ at'["job"][p] = at["job"][p],
           HasReleaser(o)'
    PROVE  Released'
<1>1. ASSUME NEW p \in Ops, p # o PROVE HasReleaser(p)'
  <2>1. HasReleaser(p)
    BY DEF Released
  <2>2. /\ slot'[p] = slot[p]
        /\ at'["request"][p] = at["request"][p] /\ at'["job"][p] = at["job"][p]
    BY <1>1
  <2>3. QED BY <2>1, <2>2 DEF HasReleaser, ToRelease, GivingBack
<1>2. QED BY <1>1 DEF Released

LEMMA RequestFrame ==
    ASSUME TypeOK, NEW o \in Ops, NEW from, NEW to, Step("request", o, from, to)
    PROVE  /\ at["request"][o] = from /\ at'["request"][o] = to
           /\ at'["job"] = at["job"]
           /\ \A p \in Ops : p # o => at'["request"][p] = at["request"][p]
BY StepNames DEF TypeOK, Step

LEMMA JobFrame ==
    ASSUME TypeOK, NEW o \in Ops, NEW from, NEW to, Step("job", o, from, to)
    PROVE  /\ at["job"][o] = from /\ at'["job"][o] = to
           /\ at'["request"] = at["request"]
           /\ \A p \in Ops : p # o => at'["job"][p] = at["job"][p]
BY StepNames DEF TypeOK, Step

\* A step of one operation keeps its slot on the way to its release.
LEMMA RequestReleased ==
    ASSUME TypeOK, Released, NEW o \in Ops,
           \/ Arrive(o) \/ Acquire(o) \/ Refuse(o) \/ CreateRow(o) \/ RowFails(o)
           \/ Spawn(o) \/ SpawnFails(o) \/ SpawnLate(o) \/ UnlockFailed(o)
    PROVE  Released'
<1>1. HasReleaser(o)
  BY DEF Released
<1>2. KindOf[o] \in Kinds
  BY KindNames
<1>3. CASE Arrive(o)
  <2>1. Step("request", o, "idle", "acquire") /\ at["job"][o] = "idle" /\ slot' = slot
    BY <1>3 DEF Arrive, Unused, Step
  <2>2. /\ at["request"][o] = "idle" /\ at'["request"][o] = "acquire"
        /\ at'["job"] = at["job"]
        /\ \A p \in Ops : p # o => at'["request"][p] = at["request"][p]
    BY <2>1, RequestFrame
  <2>3. HasReleaser(o)'
    BY <1>1, <2>1, <2>2 DEF HasReleaser, ToRelease, GivingBack
  <2>4. QED BY <2>1, <2>2, <2>3, OthersKeep
<1>4. CASE Acquire(o)
  <2>1. PICK to \in {"work", "spawn", "row"} :
          /\ Step("request", o, "acquire", to)
          /\ to \in {"work", "row"} => KindOf[o] # "digest"
    BY <1>2, <1>4 DEF Acquire, Kinds
  <2>2. /\ at["request"][o] = "acquire" /\ at'["request"][o] = to
        /\ at'["job"] = at["job"]
        /\ \A p \in Ops : p # o => at'["request"][p] = at["request"][p]
    BY <2>1, RequestFrame
  <2>3. slot'[o] = "held" /\ \A p \in Ops : p # o => slot'[p] = slot[p]
    BY <1>4 DEF Acquire, TypeOK
  <2>4. HasReleaser(o)'
    BY <1>1, <2>1, <2>2, <2>3 DEF HasReleaser, ToRelease, GivingBack
  <2>5. QED BY <2>2, <2>3, <2>4, OthersKeep
<1>5. CASE Refuse(o) \/ CreateRow(o) \/ RowFails(o) \/ SpawnFails(o) \/ UnlockFailed(o)
  <2>1. slot' = slot
    BY <1>5 DEF Refuse, CreateRow, RowFails, SpawnFails, UnlockFailed
  <2>2. \/ \E to \in {"unlock", "idle"} : Step("request", o, "acquire", to)
        \/ \E to \in {"spawn", "work", "mark"} : Step("request", o, "row", to)
        \/ Step("request", o, "spawn", "mark")
        \/ Step("request", o, "unlock", "idle")
    BY <1>5 DEF Refuse, CreateRow, RowFails, SpawnFails, UnlockFailed
  <2>3. PICK from, to :
          /\ Step("request", o, from, to)
          /\ \/ from = "acquire" /\ to \in {"unlock", "idle"}
             \/ from = "row" /\ to \in {"spawn", "work", "mark"}
             \/ from = "spawn" /\ to = "mark"
             \/ from = "unlock" /\ to = "idle"
    BY <2>2
  <2>4. /\ at["request"][o] = from /\ at'["request"][o] = to
        /\ at'["job"] = at["job"]
        /\ \A p \in Ops : p # o => at'["request"][p] = at["request"][p]
    BY <2>3, RequestFrame
  <2>5. HasReleaser(o)'
    BY <1>1, <2>1, <2>3, <2>4 DEF HasReleaser, ToRelease, GivingBack
  <2>6. QED BY <2>1, <2>4, <2>5, OthersKeep
<1>6. CASE Spawn(o) \/ SpawnLate(o)
  <2>1. at["request"][o] = "spawn" /\ slot' = slot
    BY <1>6 DEF Spawn, SpawnLate
  <2>2. PICK to \in {"idle", "mark"} :
          /\ at' = [at EXCEPT !["request"][o] = to, !["job"][o] = "work"]
          /\ "late" \notin Faults => to = "idle"
    BY <1>6 DEF Spawn, SpawnLate
  <2>3. /\ at'["request"][o] = to /\ at'["job"][o] = "work"
        /\ \A p \in Ops : p # o => /\ at'["request"][p] = at["request"][p]
                                   /\ at'["job"][p] = at["job"][p]
    BY <2>2, StepNames DEF TypeOK
  <2>4. HasReleaser(o)'
    BY <1>1, <2>1, <2>2, <2>3 DEF HasReleaser, ToRelease, GivingBack
  <2>5. QED BY <2>1, <2>3, <2>4, OthersKeep
<1>7. QED BY <1>3, <1>4, <1>5, <1>6

\* Whichever thread moves, the other one stays.
Moved(t, o, from, to) ==
    \/ /\ t = "request" /\ at["request"][o] = from
       /\ at'["request"][o] = to /\ at'["job"] = at["job"]
    \/ /\ t = "job" /\ at["job"][o] = from
       /\ at'["job"][o] = to /\ at'["request"] = at["request"]

LEMMA ThreadFrame ==
    ASSUME TypeOK, NEW o \in Ops, NEW t \in Threads, NEW from, NEW to,
           Step(t, o, from, to)
    PROVE  /\ Moved(t, o, from, to)
           /\ \A p \in Ops : p # o => /\ at'["request"][p] = at["request"][p]
                                      /\ at'["job"][p] = at["job"][p]
<1>1. CASE t = "request"
  BY <1>1, RequestFrame DEF Moved
<1>2. CASE t = "job"
  BY <1>2, JobFrame DEF Moved
<1>3. QED BY <1>1, <1>2 DEF Threads

LEMMA WorkReleased ==
    ASSUME TypeOK, Released, NEW o \in Ops, NEW t \in Threads,
           WorkEnds(t, o) \/ Save(t, o) \/ UnlockSent(o) \/ SetDone(o)
    PROVE  Released'
<1>1. HasReleaser(o)
  BY DEF Released
<1>2. KindOf[o] \in Kinds
  BY KindNames
<1>3. slot' = slot
  BY DEF WorkEnds, Save, UnlockSent, SetDone
<1>4. CASE WorkEnds(t, o)
  <2>1. PICK to \in {"mark", "unlock", "save"} :
          /\ Step(t, o, "work", to)
          /\ to = "unlock" <=> KindOf[o] = "digest"
    BY <1>2, <1>4 DEF WorkEnds, Kinds
  <2>2. Moved(t, o, "work", to)
    BY <2>1, ThreadFrame
  <2>3. HasReleaser(o)'
    BY <1>1, <1>3, <2>1, <2>2 DEF Moved, HasReleaser, ToRelease, GivingBack
  <2>4. QED BY <1>3, <2>1, <2>3, ThreadFrame, OthersKeep
<1>5. CASE Save(t, o)
  <2>1. Step(t, o, "save", "mark")
    BY <1>5 DEF Save
  <2>2. Moved(t, o, "save", "mark")
    BY <2>1, ThreadFrame
  <2>3. HasReleaser(o)'
    BY <1>1, <1>3, <2>1, <2>2 DEF Moved, HasReleaser, ToRelease, GivingBack
  <2>4. QED BY <1>3, <2>1, <2>3, ThreadFrame, OthersKeep
<1>6. CASE UnlockSent(o) \/ SetDone(o)
  <2>1. PICK from \in {"unlock", "set done"}, to \in {"set done", "mark"} :
          Step("job", o, from, to)
    BY <1>6 DEF UnlockSent, SetDone
  <2>2. /\ at["job"][o] = from /\ at'["job"][o] = to
        /\ at'["request"] = at["request"]
        /\ \A p \in Ops : p # o => at'["job"][p] = at["job"][p]
    BY <2>1, JobFrame
  <2>3. HasReleaser(o)'
    BY <1>1, <1>3, <2>1, <2>2 DEF HasReleaser, ToRelease, GivingBack
  <2>4. QED BY <1>3, <2>2, <2>3, OthersKeep
<1>7. QED BY <1>4, <1>5, <1>6

LEMMA ReleaseReleased ==
    ASSUME TypeOK, Released, NEW o \in Ops, NEW t \in Threads,
           Mark(t, o) \/ GiveBack(t, o)
    PROVE  Released'
<1>1. HasReleaser(o) /\ slot[o] \in {"free", "held", "marked"}
  BY DEF Released, TypeOK
<1>2. AfterRelease(t, o) \in {"idle", "unlock"}
      /\ (AfterRelease(t, o) = "unlock" => t = "request")
  BY DEF AfterRelease
<1>3. CASE Mark(t, o) /\ slot[o] = "held"
  <2>1. /\ Step(t, o, "mark", "give back")
        /\ slot'[o] = "marked" /\ \A p \in Ops : p # o => slot'[p] = slot[p]
    BY <1>3 DEF Mark, TypeOK
  <2>2. Moved(t, o, "mark", "give back")
    BY <2>1, ThreadFrame
  <2>3. HasReleaser(o)'
    BY <1>1, <1>3, <2>1, <2>2 DEF Moved, HasReleaser, ToRelease, GivingBack
  <2>4. QED BY <2>1, <2>3, ThreadFrame, OthersKeep
<1>4. CASE Mark(t, o) /\ slot[o] # "held"
  <2>1. Step(t, o, "mark", AfterRelease(t, o)) /\ slot' = slot
    BY <1>4 DEF Mark
  <2>2. Moved(t, o, "mark", AfterRelease(t, o))
    BY <2>1, ThreadFrame
  <2>3. HasReleaser(o)'
    BY <1>1, <1>2, <1>4, <2>1, <2>2 DEF Moved, HasReleaser, ToRelease, GivingBack
  <2>4. QED BY <2>1, <2>3, ThreadFrame, OthersKeep
<1>5. CASE GiveBack(t, o)
  <2>1. /\ Step(t, o, "give back", AfterRelease(t, o))
        /\ slot'[o] = "free" /\ \A p \in Ops : p # o => slot'[p] = slot[p]
    BY <1>5 DEF GiveBack, TypeOK
  <2>2. Moved(t, o, "give back", AfterRelease(t, o))
    BY <2>1, ThreadFrame
  <2>3. HasReleaser(o)'
    BY <1>1, <1>2, <2>1, <2>2 DEF Moved, HasReleaser, ToRelease, GivingBack
  <2>4. QED BY <2>1, <2>3, ThreadFrame, OthersKeep
<1>6. QED BY <1>3, <1>4, <1>5

-----------------------------------------------------------------------------
(* Counting. *)

LEMMA HeldFinite ==
    /\ IsFiniteSet(Held)
    /\ \A u \in Users : IsFiniteSet(HeldBy(u))
BY FS_Subset, ConstantsAssumption DEF Held, HeldBy

\* One more slot is held.
LEMMA HeldGains ==
    ASSUME NEW o \in Ops, slot[o] = "free", slot'[o] # "free",
           \A p \in Ops : p # o => slot'[p] = slot[p]
    PROVE  /\ Cardinality(Held') = Cardinality(Held) + 1
           /\ \A u \in Users : Cardinality(HeldBy(u)') =
                IF u = UserOf[o] THEN Cardinality(HeldBy(u)) + 1
                                 ELSE Cardinality(HeldBy(u))
<1>1. Held' = Held \cup {o} /\ o \notin Held
  BY DEF Held
<1>2. Cardinality(Held') = Cardinality(Held) + 1
  BY <1>1, FS_AddElement, HeldFinite
<1>3. ASSUME NEW u \in Users, u = UserOf[o]
      PROVE  Cardinality(HeldBy(u)') = Cardinality(HeldBy(u)) + 1
  <2>1. HeldBy(u)' = HeldBy(u) \cup {o} /\ o \notin HeldBy(u)
    BY <1>1, <1>3 DEF HeldBy
  <2>2. QED BY <2>1, FS_AddElement, HeldFinite
<1>4. ASSUME NEW u \in Users, u # UserOf[o]
      PROVE  HeldBy(u)' = HeldBy(u)
  BY <1>1, <1>4 DEF HeldBy
<1>5. QED BY <1>2, <1>3, <1>4

\* One less.
LEMMA HeldLoses ==
    ASSUME NEW o \in Ops, slot[o] # "free", slot'[o] = "free",
           \A p \in Ops : p # o => slot'[p] = slot[p]
    PROVE  /\ Cardinality(Held) > 0 /\ Cardinality(HeldBy(UserOf[o])) > 0
           /\ Cardinality(Held') = Cardinality(Held) - 1
           /\ \A u \in Users : Cardinality(HeldBy(u)') =
                IF u = UserOf[o] THEN Cardinality(HeldBy(u)) - 1
                                 ELSE Cardinality(HeldBy(u))
<1>1. Held' = Held \ {o} /\ o \in Held
  BY DEF Held
<1>2. Cardinality(Held') = Cardinality(Held) - 1
  BY <1>1, FS_RemoveElement, HeldFinite
<1>3. ASSUME NEW u \in Users, u = UserOf[o]
      PROVE  Cardinality(HeldBy(u)') = Cardinality(HeldBy(u)) - 1
  <2>1. HeldBy(u)' = HeldBy(u) \ {o} /\ o \in HeldBy(u)
    BY <1>1, <1>3 DEF HeldBy
  <2>2. QED BY <2>1, FS_RemoveElement, HeldFinite
<1>4. ASSUME NEW u \in Users, u # UserOf[o]
      PROVE  HeldBy(u)' = HeldBy(u)
  BY <1>1, <1>4 DEF HeldBy
<1>5. UserOf[o] \in Users /\ Held # {} /\ HeldBy(UserOf[o]) # {}
  BY <1>1, KindNames DEF HeldBy
<1>6. Cardinality(Held) > 0 /\ Cardinality(HeldBy(UserOf[o])) > 0
  BY <1>5, HeldFinite, FS_EmptySet, FS_CardinalityType
<1>7. QED BY <1>2, <1>3, <1>4, <1>6

\* A slot that is held is on its way to exactly one release.
THEOREM SlotsReleased == Spec => []Released
<1>1. Init => Released
  BY DEF Init, Released, HasReleaser, ToRelease, GivingBack, Threads
<1>2. TypeOK /\ Released /\ [Next]_vars => Released'
  <2>1. TypeOK /\ Released /\ Restart => Released'
    <3> SUFFICES ASSUME Restart, NEW o \in Ops PROVE HasReleaser(o)'
      BY DEF Released
    <3>1. slot'[o] = "free" /\ at'["request"][o] = "idle" /\ at'["job"][o] = "idle"
      BY StepNames DEF Restart
    <3>2. QED BY <3>1 DEF HasReleaser, ToRelease, GivingBack
  <2>2. TypeOK /\ Released /\ Next /\ ~Restart => Released'
    BY NextSteps, RequestReleased, WorkReleased, ReleaseReleased
  <2>3. Released /\ UNCHANGED vars => Released'
    BY DEF Released, HasReleaser, ToRelease, GivingBack, vars
  <2>4. QED BY <2>1, <2>2, <2>3
<1>3. QED BY <1>1, <1>2, TypeCorrect, PTL DEF Spec

LEMMA AcquireCounts ==
    ASSUME TypeOK, Released, CountsExact, NEW o \in Ops, Acquire(o)
    PROVE  CountsExact'
<1>1. slot[o] = "free"
  <2>1. at["request"][o] = "acquire"
    BY DEF Acquire, Step
  <2>2. QED BY <2>1 DEF Released, HasReleaser, ToRelease, GivingBack, TypeOK
<1>2. slot'[o] # "free" /\ \A p \in Ops : p # o => slot'[p] = slot[p]
  BY DEF Acquire, TypeOK
<1>3. total' = total + 1
  BY DEF Acquire
<1>4. \A u \in Users : mine'[u] = IF u = UserOf[o] THEN mine[u] + 1 ELSE mine[u]
  BY DEF Acquire, TypeOK
<1>5. QED BY <1>1, <1>2, <1>3, <1>4, HeldGains DEF CountsExact

LEMMA GiveBackCounts ==
    ASSUME TypeOK, Released, CountsExact, NEW o \in Ops, NEW t \in Threads, GiveBack(t, o)
    PROVE  CountsExact'
<1>1. slot[o] # "free"
  <2>1. at["request"][o] = "give back" \/ at["job"][o] = "give back"
    BY DEF GiveBack, Step, Threads
  <2>2. QED BY <2>1 DEF Released, HasReleaser, GivingBack
<1>2. slot'[o] = "free" /\ \A p \in Ops : p # o => slot'[p] = slot[p]
  BY DEF GiveBack, TypeOK
<1>3. Cardinality(Held) > 0 /\ Cardinality(HeldBy(UserOf[o])) > 0
  BY <1>1, <1>2, HeldLoses
<1>4. total' = total - 1
  BY <1>3 DEF GiveBack, Less, CountsExact
<1>5. \A u \in Users : mine'[u] = IF u = UserOf[o] THEN mine[u] - 1 ELSE mine[u]
  BY <1>3, KindNames DEF GiveBack, Less, CountsExact, TypeOK
<1>6. QED BY <1>1, <1>2, <1>4, <1>5, HeldLoses DEF CountsExact

\* Whatever fails, the counters of the limiter are the slots that are held.
THEOREM LimiterCounts == Spec => []CountsExact
<1>1. Init => CountsExact
  <2> SUFFICES ASSUME Init PROVE CountsExact
    OBVIOUS
  <2>1. Held = {} /\ \A u \in Users : HeldBy(u) = {}
    BY DEF Init, Held, HeldBy
  <2>2. QED BY <2>1, FS_EmptySet DEF Init, CountsExact
<1>2. TypeOK /\ Released /\ CountsExact /\ [Next]_vars => CountsExact'
  <2> SUFFICES ASSUME TypeOK, Released, CountsExact, [Next]_vars
               PROVE  CountsExact'
    OBVIOUS
  <2>1. CASE Restart
    <3>1. Held' = {} /\ \A u \in Users : HeldBy(u)' = {}
      BY <2>1 DEF Restart, Held, HeldBy
    <3>2. QED BY <2>1, <3>1, FS_EmptySet DEF Restart, CountsExact
  <2>2. ASSUME /\ total' = total /\ mine' = mine
               /\ \A o \in Ops : slot'[o] = "free" <=> slot[o] = "free"
        PROVE  CountsExact'
    <3>1. Held' = Held /\ \A u \in Users : HeldBy(u)' = HeldBy(u)
      BY <2>2 DEF Held, HeldBy
    <3>2. QED BY <2>2, <3>1 DEF CountsExact
  <2>3. CASE Next /\ ~Restart
    <3>1. PICK o \in Ops, t \in Threads :
             \/ Arrive(o) \/ Acquire(o) \/ Refuse(o) \/ CreateRow(o) \/ RowFails(o)
             \/ Spawn(o) \/ SpawnFails(o) \/ SpawnLate(o) \/ UnlockFailed(o)
             \/ WorkEnds(t, o) \/ Save(t, o) \/ Mark(t, o) \/ GiveBack(t, o)
             \/ UnlockSent(o) \/ SetDone(o)
      BY <2>3, NextSteps
    <3>2. CASE Acquire(o)
      BY <3>2, AcquireCounts
    <3>3. CASE GiveBack(t, o)
      BY <3>3, GiveBackCounts
    <3>4. CASE Mark(t, o)
      <4>1. \A p \in Ops : slot'[p] = "free" <=> slot[p] = "free"
        BY <3>4 DEF Mark, TypeOK
      <4>2. QED BY <2>2, <3>4, <4>1 DEF Mark
    <3>5. CASE \/ Arrive(o) \/ Refuse(o) \/ CreateRow(o) \/ RowFails(o) \/ Spawn(o)
               \/ SpawnFails(o) \/ SpawnLate(o) \/ UnlockFailed(o)
               \/ WorkEnds(t, o) \/ Save(t, o) \/ UnlockSent(o) \/ SetDone(o)
      BY <2>2, <3>5
         DEF Arrive, Refuse, CreateRow, RowFails, Spawn, SpawnFails, SpawnLate,
             UnlockFailed, WorkEnds, Save, UnlockSent, SetDone
    <3>6. QED BY <3>1, <3>2, <3>3, <3>4, <3>5
  <2>4. CASE UNCHANGED vars
    BY <2>2, <2>4 DEF vars
  <2>5. QED BY <2>1, <2>3, <2>4
<1>3. QED BY <1>1, <1>2, TypeCorrect, SlotsReleased, PTL DEF Spec

-----------------------------------------------------------------------------
(* The limits. *)

\* The counters stay within the limits: acquire tests both under one lock.
Within == total <= MaxTotal /\ \A u \in Users : mine[u] <= MaxPerUser

THEOREM CountersWithinLimits == Spec => []Within
<1>1. Init => Within
  BY ConstantsAssumption DEF Init, Within
<1>2. TypeOK /\ Within /\ [Next]_vars => Within'
  <2> SUFFICES ASSUME TypeOK, Within, [Next]_vars PROVE Within'
    OBVIOUS
  <2>1. CASE Restart
    BY <2>1, ConstantsAssumption DEF Restart, Within
  <2>2. CASE Next /\ ~Restart
    <3>1. PICK o \in Ops, t \in Threads :
             \/ Arrive(o) \/ Acquire(o) \/ Refuse(o) \/ CreateRow(o) \/ RowFails(o)
             \/ Spawn(o) \/ SpawnFails(o) \/ SpawnLate(o) \/ UnlockFailed(o)
             \/ WorkEnds(t, o) \/ Save(t, o) \/ Mark(t, o) \/ GiveBack(t, o)
             \/ UnlockSent(o) \/ SetDone(o)
      BY <2>2, NextSteps
    <3>2. CASE Acquire(o)
      <4>1. total + 1 <= MaxTotal /\ mine[UserOf[o]] + 1 <= MaxPerUser
        BY <3>2, KindNames, ConstantsAssumption DEF Acquire, LimitReached, TypeOK
      <4>2. QED BY <3>2, <4>1 DEF Acquire, Within, TypeOK
    <3>3. CASE GiveBack(t, o)
      <4>1. Less(total) <= MaxTotal /\ Less(mine[UserOf[o]]) <= MaxPerUser
        BY KindNames, ConstantsAssumption DEF Less, Within, TypeOK
      <4>2. QED BY <3>3, <4>1 DEF GiveBack, Within, TypeOK
    <3>4. CASE \/ Arrive(o) \/ Refuse(o) \/ CreateRow(o) \/ RowFails(o) \/ Spawn(o)
               \/ SpawnFails(o) \/ SpawnLate(o) \/ UnlockFailed(o) \/ Mark(t, o)
               \/ WorkEnds(t, o) \/ Save(t, o) \/ UnlockSent(o) \/ SetDone(o)
      BY <3>4
         DEF Within, Arrive, Refuse, CreateRow, RowFails, Spawn, SpawnFails,
             SpawnLate, UnlockFailed, Mark, WorkEnds, Save, UnlockSent, SetDone
    <3>5. QED BY <3>1, <3>2, <3>3, <3>4
  <2>3. CASE UNCHANGED vars
    BY <2>3 DEF Within, vars
  <2>4. QED BY <2>1, <2>2, <2>3
<1>3. QED BY <1>1, <1>2, TypeCorrect, PTL DEF Spec

\* Never more work at once than HEAVY_JOBS_MAX, never more of one user than
\* HEAVY_JOBS_PER_USER, when no thread outlives the exception of its start.
THEOREM WorkStaysWithinLimits == Spec => []WorkWithinLimits
<1>1. Released /\ CountsExact /\ Within => WorkWithinLimits
  <2> SUFFICES ASSUME Released, CountsExact, Within, "late" \notin Faults
               PROVE  /\ Cardinality(Working) <= MaxTotal
                      /\ \A u \in Users :
                           Cardinality({o \in Working : UserOf[o] = u}) <= MaxPerUser
    BY DEF WorkWithinLimits
  <2>1. Working \subseteq Held
    BY DEF Working, Held, Threads, Released, HasReleaser, ToRelease
  <2>2. IsFiniteSet(Working) /\ Cardinality(Working) <= Cardinality(Held)
    BY <2>1, FS_Subset, HeldFinite
  <2>3. Cardinality(Working) \in Nat /\ Cardinality(Held) \in Nat
    BY <2>2, HeldFinite, FS_CardinalityType
  <2>4. Cardinality(Working) <= MaxTotal
    BY <2>2, <2>3, ConstantsAssumption DEF CountsExact, Within
  <2>5. ASSUME NEW u \in Users
        PROVE  Cardinality({o \in Working : UserOf[o] = u}) <= MaxPerUser
    <3> DEFINE W == {o \in Working : UserOf[o] = u}
    <3>1. W \subseteq HeldBy(u)
      BY <2>1 DEF HeldBy
    <3>2. IsFiniteSet(W) /\ Cardinality(W) <= Cardinality(HeldBy(u))
      BY <3>1, FS_Subset, HeldFinite
    <3>3. Cardinality(W) \in Nat /\ Cardinality(HeldBy(u)) \in Nat
      BY <3>2, HeldFinite, FS_CardinalityType
    <3> HIDE DEF W
    <3>4. Cardinality(W) <= MaxPerUser
      BY <3>2, <3>3, ConstantsAssumption DEF CountsExact, Within
    <3>5. QED BY <3>4 DEF W
  <2>6. QED BY <2>4, <2>5
<1>2. QED BY <1>1, SlotsReleased, LimiterCounts, CountersWithinLimits, PTL

-----------------------------------------------------------------------------
(* The digest's lock. *)

\* Who took the lock and has not given it up.
Owns(o) ==
    /\ KindOf[o] = "digest"
    /\ at["request"][o] # "idle" \/ at["job"][o] \in {"work", "unlock"}

OneOwner ==
    "late" \notin Faults =>
      /\ \A o, p \in Ops : Owns(o) /\ Owns(p) => o = p
      /\ \A o \in Ops : Owns(o) => sending
      /\ \A o \in Ops : at["request"][o] = "unlock" \/ at["job"][o] = "unlock"
                          => KindOf[o] = "digest"

\* A step that neither takes the lock nor gives it up.
LEMMA QuietLock ==
    ASSUME OneOwner, sending' = sending, NEW o \in Ops,
           \A p \in Ops : p # o => /\ at'["request"][p] = at["request"][p]
                                   /\ at'["job"][p] = at["job"][p],
           Owns(o)' => Owns(o),
           at'["request"][o] = "unlock" \/ at'["job"][o] = "unlock"
             => KindOf[o] = "digest"
    PROVE  OneOwner'
<1>1. \A p \in Ops : Owns(p)' => Owns(p)
  BY DEF Owns
<1>2. QED BY <1>1 DEF OneOwner

\* A step that leaves nobody with the lock.
LEMMA NobodyOwns ==
    ASSUME TypeOK, Released, OneOwner, NEW o \in Ops, UnlockFailed(o) \/ UnlockSent(o)
    PROVE  OneOwner'
<1> SUFFICES ASSUME "late" \notin Faults
             PROVE  /\ \A p \in Ops : ~Owns(p)'
                    /\ \A p \in Ops : at'["request"][p] = "unlock" \/ at'["job"][p] = "unlock"
                                        => KindOf[p] = "digest"
  BY DEF OneOwner
<1>1. PICK t \in Threads, to \in {"idle", "set done", "mark"} :
        /\ Step(t, o, "unlock", to)
        /\ to = "idle" <=> t = "request"
  BY StepNames DEF UnlockFailed, UnlockSent
<1>2. /\ Moved(t, o, "unlock", to)
      /\ \A p \in Ops : p # o => /\ at'["request"][p] = at["request"][p]
                                 /\ at'["job"][p] = at["job"][p]
  BY <1>1, ThreadFrame
<1>3. at["job"][o] # "idle" => at["request"][o] = "idle"
  BY DEF Released, HasReleaser
<1>4. Owns(o)
  BY <1>2 DEF Moved, OneOwner, Owns
<1>5. ~Owns(o)'
  BY <1>1, <1>2, <1>3 DEF Moved, Owns
<1>6. ASSUME NEW p \in Ops, p # o PROVE ~Owns(p)'
  BY <1>2, <1>4, <1>6 DEF OneOwner, Owns
<1>7. at'["request"][o] # "unlock" /\ at'["job"][o] # "unlock"
  BY <1>1, <1>2, <1>3 DEF Moved
<1>8. QED BY <1>2, <1>5, <1>6, <1>7 DEF OneOwner

LEMMA ArriveLock ==
    ASSUME TypeOK, OneOwner, NEW o \in Ops, Arrive(o)
    PROVE  OneOwner'
<1>1. /\ Step("request", o, "idle", "acquire") /\ at["job"][o] = "idle"
      /\ KindOf[o] = "digest" => ~sending
      /\ sending' = (sending \/ KindOf[o] = "digest")
  BY DEF Arrive, Unused, Step
<1>2. /\ at["request"][o] = "idle" /\ at'["request"][o] = "acquire"
      /\ at'["job"] = at["job"]
      /\ \A p \in Ops : p # o => at'["request"][p] = at["request"][p]
  BY <1>1, RequestFrame
<1>3. \A p \in Ops : p # o => (Owns(p)' <=> Owns(p))
  BY <1>2 DEF Owns
<1>4. CASE KindOf[o] = "digest"
  <2>1. "late" \notin Faults => \A p \in Ops : ~Owns(p)
    BY <1>1, <1>4 DEF OneOwner
  <2>2. sending'
    BY <1>1, <1>4
  <2>3. QED BY <1>2, <1>3, <1>4, <2>1, <2>2 DEF OneOwner
<1>5. CASE KindOf[o] # "digest"
  <2>1. ~Owns(o)'
    BY <1>5 DEF Owns
  <2>2. sending => sending'
    BY <1>1
  <2>3. QED BY <1>2, <1>3, <2>1, <2>2 DEF OneOwner
<1>6. QED BY <1>4, <1>5

\* One move of a thread that is not about to work or to unlock anew.
Goes(s, o, from, to) ==
    /\ Step(s, o, from, to)
    /\ from # "idle"
    /\ to = "unlock" => KindOf[o] = "digest"
    /\ s = "job" => to # "work" /\ (to = "unlock" => from = "work")

LEMMA OtherLock ==
    ASSUME TypeOK, OneOwner, NEW o \in Ops, NEW t \in Threads,
           \/ Acquire(o) \/ Refuse(o) \/ CreateRow(o) \/ RowFails(o)
           \/ SpawnFails(o) \/ WorkEnds(t, o) \/ Save(t, o)
           \/ Mark(t, o) \/ GiveBack(t, o) \/ SetDone(o)
    PROVE  OneOwner'
<1>1. sending' = sending
  BY DEF Acquire, Refuse, CreateRow, RowFails, SpawnFails, WorkEnds, Save, Mark,
         GiveBack, SetDone
<1>2. \E s \in Threads : \E from, to : Goes(s, o, from, to)
  <2>1. CASE Acquire(o) \/ Refuse(o) \/ CreateRow(o) \/ RowFails(o) \/ SpawnFails(o)
    <3>1. KindOf[o] \in Kinds
      BY KindNames
    <3>2. \/ \E to \in {"work", "spawn", "row"} : Step("request", o, "acquire", to)
          \/ Step("request", o, "acquire", "unlock") /\ KindOf[o] = "digest"
          \/ Step("request", o, "acquire", "idle")
          \/ \E to \in {"spawn", "work", "mark"} : Step("request", o, "row", to)
          \/ Step("request", o, "spawn", "mark")
      BY <2>1, <3>1 DEF Acquire, Refuse, CreateRow, RowFails, SpawnFails, Kinds
    <3>3. PICK from, to : Goes("request", o, from, to)
      BY <3>2 DEF Goes
    <3>4. QED BY <3>3, StepNames
  <2>2. CASE WorkEnds(t, o)
    <3>1. KindOf[o] \in Kinds
      BY KindNames
    <3>2. PICK to \in {"mark", "unlock", "save"} :
            Step(t, o, "work", to) /\ (to = "unlock" <=> KindOf[o] = "digest")
      BY <2>2, <3>1 DEF WorkEnds, Kinds
    <3>3. Goes(t, o, "work", to)
      BY <3>2 DEF Goes
    <3>4. QED BY <3>3
  <2>3. CASE Save(t, o)
    <3>1. Goes(t, o, "save", "mark")
      BY <2>3 DEF Save, Goes
    <3>2. QED BY <3>1
  <2>4. CASE SetDone(o)
    <3>1. Goes("job", o, "set done", "mark")
      BY <2>4 DEF SetDone, Goes
    <3>2. QED BY <3>1, StepNames
  <2>5. CASE Mark(t, o) \/ GiveBack(t, o)
    <3>1. /\ AfterRelease(t, o) \in {"idle", "unlock"}
          /\ AfterRelease(t, o) = "unlock" => t = "request" /\ KindOf[o] = "digest"
      BY DEF AfterRelease
    <3>2. PICK from \in {"mark", "give back"} :
            Step(t, o, from, "give back") \/ Step(t, o, from, AfterRelease(t, o))
      BY <2>5 DEF Mark, GiveBack
    <3>3. Goes(t, o, from, "give back") \/ Goes(t, o, from, AfterRelease(t, o))
      BY <3>1, <3>2 DEF Goes
    <3>4. QED BY <3>3
  <2>6. QED BY <2>1, <2>2, <2>3, <2>4, <2>5
<1>3. PICK s \in Threads : \E from, to : Goes(s, o, from, to)
  BY <1>2
<1>4. PICK from, to : Goes(s, o, from, to)
  BY <1>3
<1>5. /\ Moved(s, o, from, to)
      /\ \A p \in Ops : p # o => /\ at'["request"][p] = at["request"][p]
                                 /\ at'["job"][p] = at["job"][p]
  BY <1>4, ThreadFrame DEF Goes
<1>6. Owns(o)' => Owns(o)
  BY <1>4, <1>5 DEF Goes, Moved, Owns
<1>7. CASE "late" \in Faults
  BY <1>7 DEF OneOwner
<1>8. CASE "late" \notin Faults
  <2>1. at'["request"][o] = "unlock" \/ at'["job"][o] = "unlock" => KindOf[o] = "digest"
    BY <1>4, <1>5, <1>8 DEF Goes, Moved, OneOwner
  <2>2. QED BY <1>1, <1>5, <1>6, <2>1, QuietLock
<1>9. QED BY <1>7, <1>8

LEMMA SpawnLock ==
    ASSUME TypeOK, OneOwner, NEW o \in Ops, Spawn(o) \/ SpawnLate(o)
    PROVE  OneOwner'
<1>1. at["request"][o] = "spawn" /\ sending' = sending
  BY DEF Spawn, SpawnLate
<1>2. PICK to \in {"idle", "mark"} :
        at' = [at EXCEPT !["request"][o] = to, !["job"][o] = "work"]
  BY DEF Spawn, SpawnLate
<1>3. /\ at'["request"][o] = to /\ at'["job"][o] = "work"
      /\ \A p \in Ops : p # o => /\ at'["request"][p] = at["request"][p]
                                 /\ at'["job"][p] = at["job"][p]
  BY <1>2, StepNames DEF TypeOK
<1>4. Owns(o)' => Owns(o)
  BY <1>1 DEF Owns
<1>5. QED BY <1>1, <1>3, <1>4, QuietLock

\* At most one digest is being sent, and the lock is held while it is.
THEOREM OneDigestAtATime == Spec => []OneDigest
<1>1. Init => OneOwner
  <2> SUFFICES ASSUME Init PROVE OneOwner
    OBVIOUS
  <2>1. \A o \in Ops : at["request"][o] = "idle" /\ at["job"][o] = "idle"
    BY StepNames DEF Init
  <2>2. QED BY <2>1 DEF OneOwner, Owns
<1>2. TypeOK /\ Released /\ OneOwner /\ [Next]_vars => OneOwner'
  <2>1. TypeOK /\ OneOwner /\ Restart => OneOwner'
    <3> SUFFICES ASSUME Restart PROVE OneOwner'
      OBVIOUS
    <3>1. \A o \in Ops : at'["request"][o] = "idle" /\ at'["job"][o] = "idle"
      BY StepNames DEF Restart
    <3>2. QED BY <3>1 DEF OneOwner, Owns
  <2>2. TypeOK /\ Released /\ OneOwner /\ Next /\ ~Restart => OneOwner'
    BY NextSteps, NobodyOwns, ArriveLock, OtherLock, SpawnLock
  <2>3. OneOwner /\ UNCHANGED vars => OneOwner'
    BY DEF OneOwner, Owns, vars
  <2>4. QED BY <2>1, <2>2, <2>3
<1>3. OneOwner => OneDigest
  BY DEF OneOwner, OneDigest, Digests, Owns
<1>4. QED BY <1>1, <1>2, <1>3, TypeCorrect, SlotsReleased, PTL DEF Spec

-----------------------------------------------------------------------------
(* The pool of fan_out. *)

FanSteps == {"idle", "submits", "waits", "inline", "returned"}
ItemSteps == {"none", "queued", "running", "done", "dropped"}
FanRecords == [at : FanSteps, next : Nat, permits : Nat, busy : BOOLEAN, late : BOOLEAN]

FanTypes ==
    /\ fan \in [Calls -> FanRecords]
    /\ \A c \in Calls : fan[c].next \in 1..(Len(Inner[c]) + 1)
    /\ DOMAIN item = Calls /\ \A c \in Calls : item[c] \in [Items(c) -> ItemSteps]
    /\ DOMAIN result = Calls /\ DOMAIN returned = Calls
    /\ \A c \in Calls : {result[c], returned[c]} \subseteq [Items(c) -> {"default", "value"}]
    /\ poolQueue \in Seq(Calls \X Nat) /\ worker \in [Workers -> (Calls \X Nat) \cup {NoItem}]

\* What was given to the pool: an item that its call has submitted.
Pooled(x) ==
    /\ x \in Calls \X Nat /\ x[2] \in Items(x[1]) /\ x[2] < fan[x[1]].next
    /\ fan[x[1]].at \notin {"idle", "inline"}
StateOf(x) == item[x[1]][x[2]]

\* An item waits in the pool once, and one worker runs it.
PoolInv ==
    /\ \A x \in Range(poolQueue) : Pooled(x) /\ StateOf(x) \in {"queued", "dropped"}
    /\ \A i, j \in 1..Len(poolQueue) : poolQueue[i] = poolQueue[j] => i = j
    /\ \A w \in Workers : worker[w] # NoItem =>
          /\ Pooled(worker[w]) /\ StateOf(worker[w]) = "running"
          /\ \A v \in Workers \ {w} : worker[v] # worker[w]

\* The items of c that hold a permit of its gate.
InPool(c) ==
    {i \in Items(c) : <<c, i>> \in Range(poolQueue) \/ \E w \in Workers : worker[w] = <<c, i>>}

GateInv == \A c \in Calls : fan[c].permits + Cardinality(InPool(c)) <= Parallel

FanInv == FanTypes /\ PoolInv /\ GateInv

LEMMA FanConstants ==
    /\ Parallel \in Nat /\ Parallel > 0 /\ NoItem \notin Calls \X Nat
    /\ \A c \in Calls : Inner[c] \in Seq(Calls \cup {NoInner}) /\ Len(Inner[c]) \in Nat
                        /\ Items(c) = 1..Len(Inner[c]) /\ IsFiniteSet(Items(c))
<1>1. Parallel \in Nat /\ Parallel > 0 /\ NoItem \notin Calls \X Nat
  BY FanOutAssumption DEF NoItem
<1>2. \A c \in Calls : Inner[c] \in Seq(Calls \cup {NoInner})
  BY FanOutAssumption
<1>3. \A c \in Calls : Len(Inner[c]) \in Nat /\ Items(c) = 1..Len(Inner[c])
  BY <1>2 DEF Items
<1>4. \A c \in Calls : IsFiniteSet(Items(c))
  BY <1>3, FS_Interval
<1>5. QED BY <1>1, <1>2, <1>3, <1>4

LEMMA InPoolFinite ==
    \A c \in Calls : IsFiniteSet(InPool(c)) /\ Cardinality(InPool(c)) \in Nat
BY FanConstants, FS_Subset, FS_CardinalityType DEF InPool

LEMMA InitFan == FanInit => FanInv
<1> SUFFICES ASSUME FanInit PROVE FanInv
  OBVIOUS
<1>1. FanTypes
  BY FanConstants
  DEF FanInit, FanTypes, FanRecords, FanSteps, ItemSteps, Defaults, NoItem
<1>2. poolQueue = <<>> /\ Range(poolQueue) = {} /\ \A w \in Workers : worker[w] = NoItem
  BY DEF FanInit, Range
<1>3. PoolInv
  BY <1>2 DEF PoolInv
<1>4. \A c \in Calls : InPool(c) = {} /\ fan[c].permits = Parallel
  BY <1>2, FanConstants DEF InPool, FanInit
<1>5. GateInv
  <2>1. Cardinality({}) = 0
    BY FS_EmptySet
  <2>2. \A c \in Calls : Parallel + Cardinality(InPool(c)) <= Parallel
    <3>1. Parallel \in Nat
      BY FanConstants
    <3>2. QED BY <1>4, <2>1, <3>1
  <2>3. QED BY <1>4, <2>2 DEF GateInv
<1>6. QED BY <1>1, <1>3, <1>5 DEF FanInv

\* Calls go on, and do not go back.
Advances ==
    \A d \in Calls : /\ fan'[d].next >= fan[d].next
                     /\ fan[d].at \notin {"idle", "inline"} => fan'[d].at \notin {"idle", "inline"}

LEMMA PooledStays ==
    ASSUME FanTypes, FanTypes', Advances, NEW x, Pooled(x)
    PROVE  Pooled(x)'
<1>1. x[1] \in Calls /\ x[2] \in Nat
  BY DEF Pooled
<1>2. fan[x[1]].next \in Nat /\ fan'[x[1]].next \in Nat
  BY <1>1 DEF FanTypes, FanRecords
<1>3. QED BY <1>1, <1>2 DEF Pooled, Advances

\* A step that leaves the pool alone, and the state of what is in it but for what it drops.
LEMMA SamePool ==
    ASSUME FanInv, FanTypes', Advances, UNCHANGED <<poolQueue, worker>>,
           \A c \in Calls : fan'[c].permits = fan[c].permits,
           \A x : Pooled(x) => \/ StateOf(x)' = StateOf(x)
                               \/ StateOf(x) = "queued" /\ StateOf(x)' = "dropped"
    PROVE  FanInv'
<1>0. FanTypes /\ PoolInv /\ GateInv
  BY DEF FanInv
<1>1. PoolInv'
  <2>1. \A x \in Range(poolQueue) : Pooled(x)' /\ StateOf(x)' \in {"queued", "dropped"}
    BY <1>0, PooledStays DEF PoolInv
  <2>2. \A w \in Workers : worker[w] # NoItem =>
           Pooled(worker[w])' /\ StateOf(worker[w])' = "running"
    BY <1>0, PooledStays DEF PoolInv
  <2>3. QED BY <1>0, <2>1, <2>2 DEF PoolInv
<1>2. GateInv'
  <2>1. \A c \in Calls : InPool(c)' = InPool(c)
    BY DEF InPool
  <2>2. QED BY <1>0, <2>1 DEF GateInv
<1>3. QED BY <1>1, <1>2 DEF FanInv

LEMMA StepBegin ==
    ASSUME FanInv, NEW c \in Calls, Begin(c) \/ TimeIsUp(c)
    PROVE  FanInv'
<1>0. FanTypes /\ fan[c] \in FanRecords
  BY DEF FanInv, FanTypes
<1>1. UNCHANGED <<item, result, returned, poolQueue, worker>>
  BY DEF Begin, TimeIsUp
<1>2. PICK r \in FanRecords :
         /\ fan' = [fan EXCEPT ![c] = r] /\ r.next = fan[c].next /\ r.permits = fan[c].permits
         /\ r.at = fan[c].at \/ fan[c].at = "idle"
  <2>1. CASE Begin(c)
    <3>1. PICK a \in FanSteps, b \in BOOLEAN : fan' = [fan EXCEPT ![c] = [@ EXCEPT !.at = a, !.busy = b]]
      <4>1. (IF Inline(c) THEN "inline" ELSE "submits") \in FanSteps /\ Busy(c) \in BOOLEAN
        BY DEF FanSteps, Busy
      <4>2. QED BY <2>1, <4>1 DEF Begin
    <3> DEFINE r == [fan[c] EXCEPT !.at = a, !.busy = b]
    <3>2. r \in FanRecords /\ r.next = fan[c].next /\ r.permits = fan[c].permits
      BY <1>0 DEF FanRecords
    <3>3. fan[c].at = "idle"
      BY <2>1 DEF Begin
    <3>4. QED BY <3>1, <3>2, <3>3
  <2>2. CASE TimeIsUp(c)
    <3> DEFINE r == [fan[c] EXCEPT !.late = TRUE]
    <3>1. r \in FanRecords /\ r.next = fan[c].next /\ r.permits = fan[c].permits /\ r.at = fan[c].at
      BY <1>0 DEF FanRecords
    <3>2. fan' = [fan EXCEPT ![c] = r]
      BY <2>2 DEF TimeIsUp
    <3>3. QED BY <3>1, <3>2
  <2>3. QED BY <2>1, <2>2
<1>3. /\ fan' \in [Calls -> FanRecords] /\ fan'[c] = r
      /\ \A d \in Calls \ {c} : fan'[d] = fan[d]
  BY <1>0, <1>2 DEF FanTypes
<1>4. FanTypes'
  BY <1>0, <1>1, <1>2, <1>3 DEF FanTypes
<1>5. Advances /\ \A d \in Calls : fan'[d].permits = fan[d].permits
  <2>1. \A d \in Calls : fan[d].next \in Nat
    BY <1>0 DEF FanTypes, FanRecords
  <2>2. QED BY <1>2, <1>3, <2>1 DEF Advances
<1>6. QED BY <1>1, <1>4, <1>5, SamePool DEF StateOf

\* An item waits in the pool, of a call that goes on submitting or has raised.
LEMMA StepHand ==
    ASSUME FanInv, NEW c \in Calls, NEW to \in {"submits", "returned"}, Hand(c, to),
           fan[c].at = "submits", ~AllSubmitted(c), UNCHANGED <<result, returned, worker>>
    PROVE  FanInv'
<1>0. FanTypes /\ PoolInv /\ GateInv /\ fan[c] \in FanRecords /\ DOMAIN fan = Calls
  BY DEF FanInv, FanTypes
<1>n. PICK n : n = fan[c].next
  OBVIOUS
<1> DEFINE r == [fan[c] EXCEPT !.at = to, !.next = fan[c].next + 1, !.permits = fan[c].permits - 1]
<1>1. /\ fan' = [fan EXCEPT ![c] = r] /\ fan[c].permits > 0
      /\ item' = [item EXCEPT ![c][n] = "queued"] /\ poolQueue' = Append(poolQueue, <<c, n>>)
  <2>1. /\ fan[c].permits > 0
        /\ fan' = [fan EXCEPT ![c] = [@ EXCEPT !.at = to, !.next = fan[c].next + 1,
                                               !.permits = fan[c].permits - 1]]
        /\ item' = [item EXCEPT ![c][fan[c].next] = "queued"]
        /\ poolQueue' = Append(poolQueue, <<c, fan[c].next>>)
    BY DEF Hand
  <2>2. fan' = [fan EXCEPT ![c] = r]
    BY <2>1
  <2> HIDE DEF r
  <2>3. QED BY <1>n, <2>1, <2>2
<1>2. n \in Nat /\ n \in Items(c) /\ <<c, n>> \in Calls \X Nat
  BY <1>0, <1>n, FanConstants DEF FanTypes, AllSubmitted
<1>3. /\ r \in FanRecords /\ r.at = to /\ r.next = n + 1
      /\ r.permits = fan[c].permits - 1 /\ fan[c].permits \in Nat
  <2>1. fan[c].permits \in Nat /\ fan[c].permits - 1 \in Nat /\ n + 1 \in Nat
    BY <1>0, <1>1, <1>n DEF FanRecords
  <2>2. /\ r.at = to /\ r.next = fan[c].next + 1 /\ r.permits = fan[c].permits - 1
    BY <1>0 DEF FanRecords
  <2>3. r \in FanRecords
    BY <1>0, <1>n, <2>1 DEF FanRecords, FanSteps
  <2>4. QED BY <1>n, <2>1, <2>2, <2>3
<1> HIDE DEF r
<1>4. /\ fan' \in [Calls -> FanRecords] /\ fan'[c] = r
      /\ \A d \in Calls \ {c} : fan'[d] = fan[d]
  BY <1>0, <1>1, <1>3 DEF FanTypes
<1>5. /\ DOMAIN item' = Calls /\ item'[c] = [item[c] EXCEPT ![n] = "queued"]
      /\ \A d \in Calls \ {c} : item'[d] = item[d]
  BY <1>0, <1>1 DEF FanTypes
<1>6. FanTypes'
  <2>1. item'[c] \in [Items(c) -> ItemSteps]
    BY <1>0, <1>2, <1>5 DEF FanTypes, ItemSteps
  <2>2. fan'[c].next \in 1..(Len(Inner[c]) + 1)
    BY <1>2, <1>3, <1>4, FanConstants
  <2>3. poolQueue' \in Seq(Calls \X Nat)
    BY <1>0, <1>1, <1>2 DEF FanTypes
  <2>4. QED BY <1>0, <1>4, <1>5, <2>1, <2>2, <2>3 DEF FanTypes
<1>7. Advances
  <2>1. \A d \in Calls : fan[d].next \in Nat
    BY <1>0 DEF FanTypes, FanRecords
  <2>2. QED BY <1>3, <1>4, <1>n, <2>1 DEF Advances
\* What is in the pool was submitted earlier.
<1>8. ASSUME NEW y, Pooled(y) PROVE y # <<c, n>> /\ Pooled(y)' /\ StateOf(y)' = StateOf(y)
  <2>1. Pooled(y)'
    BY <1>0, <1>6, <1>7, <1>8, PooledStays
  <2>2. y \in Calls \X Nat /\ y[2] \in Items(y[1]) /\ (y[1] = c => y[2] < n)
    BY <1>8, <1>n DEF Pooled
  <2>3. ~(y[1] = c /\ y[2] = n)
    BY <1>2, <2>2
  <2>4. StateOf(y)' = StateOf(y)
    BY <1>0, <1>5, <2>2, <2>3 DEF StateOf, FanTypes
  <2>5. QED BY <2>1, <2>3, <2>4
<1>9. Pooled(<<c, n>>)' /\ StateOf(<<c, n>>)' = "queued"
  BY <1>0, <1>2, <1>3, <1>4, <1>5 DEF Pooled, StateOf, FanTypes
<1>10. /\ Range(poolQueue') = Range(poolQueue) \cup {<<c, n>>} /\ <<c, n>> \notin Range(poolQueue)
       /\ \A w \in Workers : worker[w] # <<c, n>>
  <2>1. poolQueue \in Seq(Calls \X Nat)
    BY <1>0 DEF FanTypes
  <2>2. Range(poolQueue') = Range(poolQueue) \cup {<<c, n>>}
    BY <1>1, <1>2, <2>1, QueueGrows
  <2>3. <<c, n>> # NoItem
    BY <1>2, FanConstants
  <2>4. QED BY <1>0, <1>8, <2>2, <2>3 DEF PoolInv
<1>11. PoolInv'
  <2>1. \A i, j \in 1..Len(poolQueue') : poolQueue'[i] = poolQueue'[j] => i = j
    <3>1. poolQueue \in Seq(Calls \X Nat) /\ <<c, n>> \in (Calls \X Nat) \ Range(poolQueue)
      BY <1>0, <1>2, <1>10 DEF FanTypes
    <3>2. \A i, j \in 1..Len(poolQueue) : poolQueue[i] = poolQueue[j] => i = j
      BY <1>0 DEF PoolInv
    <3>3. QED BY <1>1, <3>1, <3>2, DistinctGrows
  <2>2. \A x \in Range(poolQueue') : Pooled(x)' /\ StateOf(x)' \in {"queued", "dropped"}
    BY <1>0, <1>8, <1>9, <1>10 DEF PoolInv
  <2>3. \A w \in Workers : worker[w] # NoItem =>
           \A y : y = worker[w] => Pooled(y)' /\ StateOf(y)' = "running"
    BY <1>0, <1>8 DEF PoolInv
  <2>4. \A w \in Workers : worker'[w] # NoItem =>
           \A v \in Workers \ {w} : worker'[v] # worker'[w]
    BY <1>0 DEF PoolInv
  <2>5. worker' = worker
    OBVIOUS
  <2>6. QED BY <2>1, <2>2, <2>3, <2>4, <2>5 DEF PoolInv
<1>12. GateInv'
  <2>1. /\ InPool(c)' = InPool(c) \cup {n} /\ n \notin InPool(c)
        /\ \A d \in Calls \ {c} : InPool(d)' = InPool(d)
    BY <1>2, <1>10 DEF InPool
  <2>2. Cardinality(InPool(c)') = Cardinality(InPool(c)) + 1
    BY <2>1, InPoolFinite, FS_AddElement
  <2>3. fan'[c].permits + Cardinality(InPool(c)') <= Parallel
    BY <1>0, <1>3, <1>4, <2>2, InPoolFinite, FanConstants DEF GateInv
  <2>4. QED BY <1>0, <1>4, <2>1, <2>3 DEF GateInv
<1>13. QED BY <1>6, <1>11, <1>12 DEF FanInv

LEMMA StepSubmit ==
    ASSUME FanInv, NEW c \in Calls, Submit(c) \/ SubmitFails(c)
    PROVE  FanInv'
<1>0. FanTypes /\ PoolInv /\ GateInv /\ fan[c] \in FanRecords /\ DOMAIN fan = Calls
  BY DEF FanInv, FanTypes
<1>1. UNCHANGED <<result, returned, worker>> /\ fan[c].at = "submits"
  BY DEF Submit, SubmitFails
<1>2. CASE Submit(c) /\ AllSubmitted(c)
  <2> DEFINE r == [fan[c] EXCEPT !.at = "waits"]
  <2>1. fan' = [fan EXCEPT ![c] = r] /\ UNCHANGED <<item, poolQueue>>
    BY <1>2 DEF Submit
  <2>2. /\ r \in FanRecords /\ r.at = "waits" /\ r.next = fan[c].next
        /\ r.permits = fan[c].permits
    BY <1>0 DEF FanRecords, FanSteps
  <2> HIDE DEF r
  <2>3. /\ fan' \in [Calls -> FanRecords] /\ fan'[c] = r
        /\ \A d \in Calls \ {c} : fan'[d] = fan[d]
    BY <1>0, <2>1, <2>2 DEF FanTypes
  <2>4. FanTypes'
    BY <1>0, <1>1, <2>1, <2>2, <2>3 DEF FanTypes
  <2>5. Advances /\ \A d \in Calls : fan'[d].permits = fan[d].permits
    <3>1. \A d \in Calls : fan[d].next \in Nat
      BY <1>0 DEF FanTypes, FanRecords
    <3>2. QED BY <2>2, <2>3, <3>1 DEF Advances
  <2>6. QED BY <1>1, <2>1, <2>4, <2>5, SamePool DEF StateOf
<1>3. CASE ~AllSubmitted(c)
  BY <1>1, <1>3, StepHand DEF Submit, SubmitFails
<1>4. QED BY <1>2, <1>3 DEF SubmitFails

\* The first in the queue is dropped work, or the worker begins it.
LEMMA StepTake ==
    ASSUME FanInv, NEW w \in Workers, TakeItem(w)
    PROVE  FanInv'
<1>0. /\ FanTypes /\ PoolInv /\ GateInv /\ UNCHANGED <<fan, result, returned>>
      /\ worker[w] = NoItem /\ poolQueue # <<>> /\ poolQueue \in Seq(Calls \X Nat)
      /\ poolQueue' = Tail(poolQueue) /\ DOMAIN worker = Workers
  BY DEF FanInv, FanTypes, TakeItem
<1>1. PICK c, i, x : c = x[1] /\ i = x[2] /\ x = Head(poolQueue)
  OBVIOUS
<1>2. /\ Tail(poolQueue) \in Seq(Calls \X Nat) /\ x \in Calls \X Nat
      /\ Range(poolQueue) = Range(poolQueue') \cup {x} /\ x \notin Range(poolQueue')
      /\ \A a, b \in 1..Len(poolQueue') : poolQueue'[a] = poolQueue'[b] => a = b
  BY <1>0, <1>1, QueueShrinks, DistinctShrinks DEF PoolInv
<1>3. Pooled(x) /\ StateOf(x) \in {"queued", "dropped"} /\ x # NoItem /\ x = <<c, i>>
      /\ c \in Calls /\ i \in Items(c)
  BY <1>0, <1>1, <1>2, FanConstants DEF PoolInv, Pooled
<1>4. \A y : Pooled(y)' <=> Pooled(y)
  BY <1>0 DEF Pooled
<1>5. CASE StateOf(x) = "dropped"
  <2>1. UNCHANGED <<item, worker>>
    BY <1>1, <1>5 DEF TakeItem, StateOf
  <2>2. FanTypes'
    BY <1>0, <1>2, <2>1 DEF FanTypes
  <2>3. \A y : StateOf(y)' = StateOf(y)
    BY <2>1 DEF StateOf
  <2>4. PoolInv'
    BY <1>0, <1>2, <1>4, <2>1, <2>3 DEF PoolInv
  <2>5. \A d \in Calls : InPool(d)' \subseteq InPool(d)
    BY <1>2, <2>1 DEF InPool
  <2>6. \A d \in Calls : Cardinality(InPool(d)') <= Cardinality(InPool(d))
                         /\ Cardinality(InPool(d)') \in Nat
    BY <2>5, InPoolFinite, FS_Subset, FS_CardinalityType
  <2>7. GateInv'
    <3>1. \A d \in Calls : fan[d].permits \in Nat
      BY <1>0 DEF FanTypes, FanRecords
    <3>2. QED BY SMTT(30), <1>0, <2>6, <3>1, InPoolFinite, FanConstants DEF GateInv
  <2>8. QED BY <2>2, <2>4, <2>7 DEF FanInv
<1>6. CASE StateOf(x) # "dropped"
  <2>1. /\ item' = [item EXCEPT ![c][i] = "running"] /\ worker' = [worker EXCEPT ![w] = x]
        /\ StateOf(x) = "queued"
    BY <1>1, <1>3, <1>6 DEF TakeItem, StateOf
  <2>2. /\ DOMAIN item' = Calls /\ item'[c] = [item[c] EXCEPT ![i] = "running"]
        /\ \A d \in Calls \ {c} : item'[d] = item[d]
    BY <1>0, <1>3, <2>1 DEF FanTypes
  <2>3. worker'[w] = x /\ \A v \in Workers \ {w} : worker'[v] = worker[v]
    BY <1>0, <2>1
  <2>4. FanTypes'
    <3>1. item'[c] \in [Items(c) -> ItemSteps]
      BY <1>0, <1>3, <2>2 DEF FanTypes, ItemSteps
    <3>2. worker' \in [Workers -> (Calls \X Nat) \cup {NoItem}]
      BY <1>0, <1>2, <2>1 DEF FanTypes
    <3>3. QED BY <1>0, <1>2, <2>2, <3>1, <3>2 DEF FanTypes
  <2>5. ASSUME NEW y, Pooled(y), y # x PROVE StateOf(y)' = StateOf(y)
    <3>1. y \in Calls \X Nat /\ y[2] \in Items(y[1]) /\ ~(y[1] = c /\ y[2] = i)
      BY <1>3, <2>5 DEF Pooled
    <3>2. QED BY <1>0, <2>2, <3>1 DEF StateOf, FanTypes
  <2>6. StateOf(x)' = "running"
    BY <1>0, <1>3, <2>2 DEF StateOf, FanTypes
  <2>7. \A v \in Workers : worker[v] # x
    BY <1>0, <1>3, <2>1 DEF PoolInv
  <2>8. PoolInv'
    <3>1. \A y \in Range(poolQueue') : Pooled(y)' /\ StateOf(y)' \in {"queued", "dropped"}
      BY <1>0, <1>2, <1>4, <2>5 DEF PoolInv
    <3>2. ASSUME NEW v \in Workers, worker'[v] # NoItem
          PROVE  /\ \A y : y = worker'[v] => Pooled(y) /\ StateOf(y)' = "running"
                 /\ \A u \in Workers \ {v} : worker'[u] # worker'[v]
      <4>1. CASE v = w
        BY <1>3, <1>4, <2>3, <2>6, <2>7, <4>1
      <4>2. CASE v # w
        BY <1>0, <1>4, <2>3, <2>5, <2>7, <3>2, <4>2 DEF PoolInv
      <4>3. QED BY <4>1, <4>2
    <3>3. QED BY <1>2, <1>4, <3>1, <3>2 DEF PoolInv
  <2>9. \A d \in Calls : InPool(d)' = InPool(d)
    <3>1. \A y \in Calls \X Nat :
             (\E v \in Workers : worker'[v] = y) <=> (y = x \/ \E v \in Workers : worker[v] = y)
      BY <1>0, <2>3, FanConstants
    <3>2. \A y \in Calls \X Nat :
             (y \in Range(poolQueue') \/ \E v \in Workers : worker'[v] = y)
             <=> (y \in Range(poolQueue) \/ \E v \in Workers : worker[v] = y)
      BY <1>2, <3>1
    <3>3. \A d \in Calls : \A k \in Items(d) : <<d, k>> \in Calls \X Nat
      BY FanConstants
    <3>4. QED BY <3>2, <3>3 DEF InPool
  <2>10. GateInv'
    BY <1>0, <2>9 DEF GateInv
  <2>11. QED BY <2>4, <2>8, <2>10 DEF FanInv
<1>7. QED BY <1>5, <1>6

\* What an item writes when it ends.
LEMMA ItemIsDone ==
    ASSUME FanTypes, NEW c \in Calls, NEW i \in Items(c), ItemEnds(c, i)
    PROVE  /\ DOMAIN item' = Calls /\ item'[c] = [item[c] EXCEPT ![i] = "done"]
           /\ item'[c] \in [Items(c) -> ItemSteps]
           /\ \A d \in Calls \ {c} : item'[d] = item[d] /\ result'[d] = result[d]
           /\ DOMAIN result' = Calls /\ result'[c] \in [Items(c) -> {"default", "value"}]
<1>1. /\ DOMAIN item = Calls /\ item[c] \in [Items(c) -> ItemSteps]
      /\ DOMAIN result = Calls /\ result[c] \in [Items(c) -> {"default", "value"}]
  BY DEF FanTypes
<1>2. PICK r \in {"default", "value"} :
         item' = [item EXCEPT ![c][i] = "done"] /\ result' = [result EXCEPT ![c][i] = r]
  BY DEF ItemEnds
<1>3. result'[c] = [result[c] EXCEPT ![i] = r] /\ item'[c] = [item[c] EXCEPT ![i] = "done"]
  BY <1>1, <1>2
<1>4. result'[c] \in [Items(c) -> {"default", "value"}] /\ item'[c] \in [Items(c) -> ItemSteps]
  BY <1>1, <1>3 DEF ItemSteps
<1>5. QED BY <1>1, <1>2, <1>3, <1>4

\* The worker's item ends and gives its permit back.
LEMMA StepWorkerEnds ==
    ASSUME FanInv, NEW w \in Workers, WorkerEnds(w)
    PROVE  FanInv'
<1>0. /\ FanTypes /\ PoolInv /\ GateInv /\ UNCHANGED <<returned, poolQueue>>
      /\ worker[w] # NoItem /\ DOMAIN worker = Workers /\ DOMAIN fan = Calls
      /\ worker' = [worker EXCEPT ![w] = NoItem]
  BY DEF FanInv, FanTypes, WorkerEnds
<1>1. PICK c, i, x : c = x[1] /\ i = x[2] /\ x = worker[w]
  OBVIOUS
<1>2. /\ Pooled(x) /\ StateOf(x) = "running" /\ x = <<c, i>> /\ c \in Calls /\ i \in Items(c)
      /\ \A v \in Workers \ {w} : worker[v] # x
      /\ fan[c] \in FanRecords
  BY <1>0, <1>1 DEF PoolInv, Pooled, FanTypes
<1>3. ItemEnds(c, i) /\ fan' = [fan EXCEPT ![c].permits = @ + 1]
  BY <1>1 DEF WorkerEnds
<1>4. PICK r : r = [fan[c] EXCEPT !.permits = fan[c].permits + 1]
  OBVIOUS
<1>5. /\ r \in FanRecords /\ r.at = fan[c].at /\ r.next = fan[c].next
      /\ r.permits = fan[c].permits + 1 /\ fan[c].permits \in Nat
  <2>1. fan[c].permits \in Nat /\ fan[c].permits + 1 \in Nat
    BY <1>2 DEF FanRecords
  <2>2. QED BY <1>2, <1>4, <2>1 DEF FanRecords
<1>6. /\ fan' \in [Calls -> FanRecords] /\ fan'[c] = r
      /\ \A d \in Calls \ {c} : fan'[d] = fan[d]
  <2>1. fan' = [fan EXCEPT ![c] = r]
    BY <1>3, <1>4
  <2>2. QED BY <1>0, <1>2, <1>5, <2>1 DEF FanTypes
<1>7. worker'[w] = NoItem /\ \A v \in Workers \ {w} : worker'[v] = worker[v]
  BY <1>0
<1>8. FanTypes'
  <2>1. worker' \in [Workers -> (Calls \X Nat) \cup {NoItem}]
    BY <1>0 DEF FanTypes
  <2>2. \A d \in Calls : fan'[d].next \in 1..(Len(Inner[d]) + 1)
    BY <1>0, <1>5, <1>6 DEF FanTypes
  <2>3. /\ DOMAIN item' = Calls /\ \A d \in Calls : item'[d] \in [Items(d) -> ItemSteps]
        /\ DOMAIN result' = Calls
        /\ \A d \in Calls : {result'[d], returned'[d]} \subseteq [Items(d) -> {"default", "value"}]
    <3>1. /\ DOMAIN item' = Calls /\ item'[c] \in [Items(c) -> ItemSteps]
          /\ \A d \in Calls \ {c} : item'[d] = item[d] /\ result'[d] = result[d]
          /\ DOMAIN result' = Calls /\ result'[c] \in [Items(c) -> {"default", "value"}]
      BY <1>0, <1>2, <1>3, ItemIsDone
    <3>2. /\ \A d \in Calls : item[d] \in [Items(d) -> ItemSteps]
          /\ \A d \in Calls : {result[d], returned[d]} \subseteq [Items(d) -> {"default", "value"}]
      BY <1>0 DEF FanTypes
    <3>3. returned' = returned
      BY <1>0
    <3>4. QED BY <3>1, <3>2, <3>3
  <2>4. QED BY <1>0, <1>6, <2>1, <2>2, <2>3 DEF FanTypes
<1>9. Advances
  <2>1. \A d \in Calls : fan[d].next \in Nat
    BY <1>0 DEF FanTypes, FanRecords
  <2>2. QED BY <1>5, <1>6, <2>1 DEF Advances
<1>10. ASSUME NEW y, Pooled(y), y # x PROVE Pooled(y)' /\ StateOf(y)' = StateOf(y)
  <2>1. Pooled(y)'
    BY <1>0, <1>8, <1>9, <1>10, PooledStays
  <2>2. y \in Calls \X Nat /\ y[2] \in Items(y[1]) /\ ~(y[1] = c /\ y[2] = i)
    BY <1>2, <1>10 DEF Pooled
  <2>3. /\ item'[c] = [item[c] EXCEPT ![i] = "done"]
        /\ \A d \in Calls \ {c} : item'[d] = item[d]
    BY <1>0, <1>2, <1>3, ItemIsDone
  <2>4. QED BY <1>0, <2>1, <2>2, <2>3 DEF StateOf, FanTypes
<1>11. x \notin Range(poolQueue)
  BY <1>0, <1>2 DEF PoolInv
<1>12. PoolInv'
  <2>1. \A y \in Range(poolQueue) : Pooled(y)' /\ StateOf(y)' \in {"queued", "dropped"}
    BY <1>0, <1>10, <1>11 DEF PoolInv
  <2>2. ASSUME NEW v \in Workers, worker'[v] # NoItem
        PROVE  /\ \A y : y = worker'[v] => Pooled(y)' /\ StateOf(y)' = "running"
               /\ \A u \in Workers \ {v} : worker'[u] # worker'[v]
    <3>1. v # w /\ worker'[v] = worker[v] /\ worker[v] # x
      BY <1>2, <1>7, <2>2
    <3>2. Pooled(worker[v]) /\ StateOf(worker[v]) = "running"
          /\ \A u \in Workers \ {v} : worker[u] # worker[v]
      BY <1>0, <2>2, <3>1 DEF PoolInv
    <3>3. QED BY <1>7, <1>10, <2>2, <3>1, <3>2
  <2>3. poolQueue' = poolQueue
    BY <1>0
  <2>4. \A i1, j1 \in 1..Len(poolQueue) : poolQueue[i1] = poolQueue[j1] => i1 = j1
    BY <1>0 DEF PoolInv
  <2>5. QED BY <2>1, <2>2, <2>3, <2>4 DEF PoolInv
<1>13. GateInv'
  <2>1. \A d \in Calls : \A k \in Items(d) : <<d, k>> \in Calls \X Nat /\ <<d, k>> # NoItem
    BY FanConstants
  <2>2. InPool(c)' = InPool(c) \ {i} /\ i \in InPool(c)
    <3>1. worker[w] = <<c, i>>
      BY <1>1, <1>2
    <3>2. \A k \in Items(c) \ {i} :
             (\E v \in Workers : worker'[v] = <<c, k>>) <=> \E v \in Workers : worker[v] = <<c, k>>
      BY <1>2, <1>7, <2>1, <3>1
    <3>3. \A v \in Workers : worker'[v] # <<c, i>>
      BY <1>2, <1>7, <2>1
    <3>4. <<c, i>> \notin Range(poolQueue)
      BY <1>2, <1>11
    <3>5. i \in InPool(c)
      BY <1>2, <3>1 DEF InPool
    <3>6. \A k \in Items(c) : k \in InPool(c)' <=> k \in InPool(c) \ {i}
      BY <1>0, <3>2, <3>3, <3>4 DEF InPool
    <3>7. InPool(c) \subseteq Items(c) /\ InPool(c)' \subseteq Items(c)
      BY DEF InPool
    <3>8. QED BY <3>5, <3>6, <3>7
  <2>3. \A d \in Calls \ {c} : InPool(d)' = InPool(d)
    <3>1. \A d \in Calls \ {c} : \A k \in Items(d) : <<d, k>> # x
      BY <1>2
    <3>2. \A d \in Calls \ {c} : \A k \in Items(d) :
             (\E v \in Workers : worker'[v] = <<d, k>>) <=> \E v \in Workers : worker[v] = <<d, k>>
      <4>1. ASSUME NEW d \in Calls \ {c}, NEW k \in Items(d), NEW v \in Workers
            PROVE  worker'[v] = <<d, k>> <=> worker[v] = <<d, k>>
        BY <1>1, <1>7, <2>1, <3>1
      <4>2. QED BY <4>1
    <3>3. QED BY <1>0, <3>2 DEF InPool
  <2>4. Cardinality(InPool(c)') = Cardinality(InPool(c)) - 1
    BY <1>2, <2>2, InPoolFinite, FS_RemoveElement
  <2>5. fan'[c].permits + Cardinality(InPool(c)') <= Parallel
    BY <1>0, <1>2, <1>5, <1>6, <2>4, InPoolFinite, FanConstants DEF GateInv
  <2>6. QED BY <1>0, <1>6, <2>3, <2>5 DEF GateInv
<1>14. QED BY <1>8, <1>12, <1>13 DEF FanInv

\* A call that runs its items itself has none in the pool.
LEMMA StepInline ==
    ASSUME FanInv, NEW c \in Calls, InlineBegins(c) \/ InlineEnds(c)
    PROVE  FanInv'
<1> DEFINE n == fan[c].next
<1>0. /\ FanTypes /\ fan[c] \in FanRecords /\ DOMAIN fan = Calls /\ fan[c].at = "inline"
      /\ n \in Items(c) /\ n \in Nat /\ n + 1 \in 1..(Len(Inner[c]) + 1)
      /\ UNCHANGED <<returned, poolQueue, worker>>
  <2>1. fan[c].next \in Items(c)
    BY DEF InlineBegins, InlineEnds
  <2>2. QED BY <2>1, FanConstants DEF FanInv, FanTypes, InlineBegins, InlineEnds
<1>1. \/ UNCHANGED fan
      \/ fan' = [fan EXCEPT ![c] = [fan[c] EXCEPT !.next = n + 1]]
  BY DEF InlineBegins, InlineEnds
<1>2. /\ DOMAIN item' = Calls /\ item'[c] \in [Items(c) -> ItemSteps]
      /\ \A d \in Calls \ {c} : item'[d] = item[d]
      /\ DOMAIN result' = Calls
      /\ \A d \in Calls : result'[d] \in [Items(d) -> {"default", "value"}]
  <2>1. CASE InlineBegins(c)
    <3>1. PICK s \in {"dropped", "running"} :
             item' = [item EXCEPT ![c][n] = s] /\ UNCHANGED result
      BY <2>1 DEF InlineBegins
    <3>2. /\ DOMAIN item = Calls /\ item[c] \in [Items(c) -> ItemSteps]
          /\ s \in ItemSteps
      BY <1>0 DEF FanTypes, ItemSteps
    <3> HIDE DEF n
    <3>3. item'[c] = [item[c] EXCEPT ![n] = s]
      BY <3>1, <3>2
    <3>4. QED BY <1>0, <3>1, <3>2, <3>3 DEF FanTypes
  <2>2. CASE InlineEnds(c)
    <3>1. ItemEnds(c, n)
      BY <2>2 DEF InlineEnds
    <3> HIDE DEF n
    <3>2. QED BY <1>0, <3>1, ItemIsDone DEF FanTypes
  <2>3. QED BY <2>1, <2>2
<1>3. /\ fan' \in [Calls -> FanRecords] /\ \A d \in Calls \ {c} : fan'[d] = fan[d]
      /\ fan'[c].at = fan[c].at /\ fan'[c].permits = fan[c].permits
      /\ fan'[c].next = n \/ fan'[c].next = n + 1
  <2>1. CASE UNCHANGED fan
    BY <1>0, <2>1 DEF FanTypes
  <2>2. CASE fan' = [fan EXCEPT ![c] = [fan[c] EXCEPT !.next = n + 1]]
    <3>1. n + 1 \in Nat
      BY <1>0
    <3>2. PICK r : r = [fan[c] EXCEPT !.next = n + 1]
      OBVIOUS
    <3>3. r \in FanRecords /\ r.at = fan[c].at /\ r.permits = fan[c].permits /\ r.next = n + 1
      BY <1>0, <3>1, <3>2 DEF FanRecords
    <3>4. fan' = [fan EXCEPT ![c] = r]
      BY <2>2, <3>2
    <3> HIDE DEF n
    <3>5. QED BY <1>0, <3>3, <3>4 DEF FanTypes
  <2>3. QED BY <1>1, <2>1, <2>2
<1>4. FanTypes'
  <2>1. \A d \in Calls : fan'[d].next \in 1..(Len(Inner[d]) + 1)
    BY <1>0, <1>3 DEF FanTypes
  <2>2. QED BY <1>0, <1>2, <1>3, <2>1 DEF FanTypes
<1>5. Advances /\ \A d \in Calls : fan'[d].permits = fan[d].permits
  <2>1. \A d \in Calls : fan[d].next \in Nat
    BY <1>0 DEF FanTypes, FanRecords
  <2>2. QED BY <1>0, <1>3, <2>1 DEF Advances
<1>6. \A y : Pooled(y) => StateOf(y)' = StateOf(y)
  BY <1>0, <1>2 DEF Pooled, StateOf
<1>7. QED BY <1>0, <1>4, <1>5, <1>6, SamePool

LEMMA StepReturn ==
    ASSUME FanInv, NEW c \in Calls, ReturnList(c)
    PROVE  FanInv'
<1>0. /\ FanTypes /\ fan[c] \in FanRecords /\ DOMAIN fan = Calls
      /\ DOMAIN item = Calls /\ DOMAIN returned = Calls
      /\ UNCHANGED <<result, poolQueue, worker>>
  BY DEF FanInv, FanTypes, ReturnList
<1>1. PICK r, s :
         /\ r = [fan[c] EXCEPT !.at = "returned"]
         /\ s = [i \in Items(c) |-> IF item[c][i] = "queued" THEN "dropped" ELSE item[c][i]]
  OBVIOUS
<1>2. /\ fan' = [fan EXCEPT ![c] = r] /\ item' = [item EXCEPT ![c] = s]
      /\ returned' = [returned EXCEPT ![c] = result[c]]
  BY <1>1 DEF ReturnList
<1>3. r \in FanRecords /\ r.next = fan[c].next /\ r.permits = fan[c].permits /\ r.at = "returned"
  BY <1>0, <1>1 DEF FanRecords, FanSteps
<1>4. s \in [Items(c) -> ItemSteps]
  BY <1>0, <1>1 DEF FanTypes, ItemSteps
<1>5. /\ fan' \in [Calls -> FanRecords] /\ fan'[c] = r
      /\ \A d \in Calls \ {c} : fan'[d] = fan[d] /\ item'[d] = item[d] /\ returned'[d] = returned[d]
      /\ DOMAIN item' = Calls /\ item'[c] = s
      /\ DOMAIN returned' = Calls /\ returned'[c] = result[c]
  BY <1>0, <1>2, <1>3 DEF FanTypes
<1>6. FanTypes'
  <2>1. \A d \in Calls : fan'[d].next \in 1..(Len(Inner[d]) + 1)
    BY <1>0, <1>3, <1>5 DEF FanTypes
  <2>2. \A d \in Calls : {result[d], returned'[d]} \subseteq [Items(d) -> {"default", "value"}]
    BY SMTT(30), <1>0, <1>5 DEF FanTypes
  <2>3. \A d \in Calls : item'[d] \in [Items(d) -> ItemSteps]
    BY <1>0, <1>4, <1>5 DEF FanTypes
  <2>4. QED BY <1>0, <1>5, <2>1, <2>2, <2>3 DEF FanTypes
<1>7. Advances /\ \A d \in Calls : fan'[d].permits = fan[d].permits
  <2>1. \A d \in Calls : fan[d].next \in Nat
    BY <1>0 DEF FanTypes, FanRecords
  <2>2. QED BY <1>3, <1>5, <2>1 DEF Advances
<1>8. ASSUME NEW y, Pooled(y)
      PROVE  \/ StateOf(y)' = StateOf(y)
             \/ StateOf(y) = "queued" /\ StateOf(y)' = "dropped"
  <2>1. y[1] \in Calls /\ y[2] \in Items(y[1])
    BY <1>8 DEF Pooled
  <2>2. CASE y[1] = c
    BY <1>1, <1>5, <2>1, <2>2 DEF StateOf
  <2>3. CASE y[1] # c
    BY <1>5, <2>1, <2>3 DEF StateOf
  <2>4. QED BY <2>2, <2>3
<1>9. QED BY <1>0, <1>6, <1>7, <1>8, SamePool

LEMMA FanInvHolds == FanInit /\ [][FanNext]_fanVars => []FanInv
<1>1. FanInv /\ [FanNext]_fanVars => FanInv'
  <2>1. ASSUME FanInv, UNCHANGED fanVars PROVE FanInv'
    <3>1. UNCHANGED <<fan, item, result, returned, poolQueue, worker>>
      BY <2>1 DEF fanVars
    <3>2. FanTypes'
      BY <2>1, <3>1 DEF FanInv, FanTypes
    <3>3. \A y : (Pooled(y)' <=> Pooled(y)) /\ StateOf(y)' = StateOf(y)
      BY <3>1 DEF Pooled, StateOf
    <3>4. PoolInv'
      BY <2>1, <3>1, <3>3 DEF FanInv, PoolInv
    <3>5. \A c \in Calls : InPool(c)' = InPool(c)
      BY <3>1 DEF InPool
    <3>6. GateInv'
      BY <2>1, <3>1, <3>5 DEF FanInv, GateInv
    <3>7. QED BY <3>2, <3>4, <3>6 DEF FanInv
  <2>2. ASSUME FanInv, FanNext PROVE FanInv'
    BY <2>2, StepBegin, StepSubmit, StepInline, StepReturn, StepTake, StepWorkerEnds
    DEF FanNext, CallStep, WorkerStep
  <2>3. QED BY <2>1, <2>2
<1>2. QED BY <1>1, InitFan, PTL

\* Every call keeps within the permits of its gate, gives back what it took, and an item
\* that a worker runs is one that was submitted, and runs.
THEOREM FanTypeCorrect == FanSpec => []FanTypeOK
<1>1. ASSUME FanInv PROVE FanTypeOK
  <2>1. FanTypes /\ PoolInv /\ GateInv
    BY <1>1 DEF FanInv
  <2>2. \A c \in Calls : fan[c].permits \in 0..Parallel
    <3>1. \A c \in Calls : fan[c].permits \in Nat
      BY <2>1 DEF FanTypes, FanRecords
    <3>2. QED BY <2>1, <3>1, InPoolFinite, FanConstants DEF GateInv
  <2>3. \A w \in Workers : worker[w] = NoItem \/ item[worker[w][1]][worker[w][2]] = "running"
    BY <2>1 DEF PoolInv, StateOf
  <2>4. QED BY <2>1, <2>2, <2>3 DEF FanTypes, FanRecords, FanSteps, ItemSteps, FanTypeOK
<1>2. QED BY <1>1, FanInvHolds, PTL DEF FanSpec

\* No item runs twice at a time: a worker's item waits in no queue and no other worker
\* has it.
THEOREM ItemsRunOnce == FanSpec => []PoolInv
BY FanInvHolds, PTL DEF FanSpec, FanInv

\* What a call has returned is never changed by its items that still run.
THEOREM ReturnedStays == FanSpec => AnswerStays
<1>1. ASSUME FanInv, [FanNext]_fanVars, NEW c \in Calls, fan[c].at = "returned"
      PROVE  Answer(c)' = Answer(c)
  <2>0. DOMAIN returned = Calls
    BY <1>1 DEF FanInv, FanTypes
  <2>1. CASE UNCHANGED returned
    BY <2>1 DEF Answer
  <2>2. ASSUME NEW d \in Calls, ReturnList(d) PROVE Answer(c)' = Answer(c)
    <3>1. d # c /\ returned' = [returned EXCEPT ![d] = result[d]]
      BY <1>1, <2>2 DEF ReturnList
    <3>2. QED BY <2>0, <3>1 DEF Answer
  <2>3. ASSUME NEW d \in Calls,
               \/ Begin(d) \/ TimeIsUp(d) \/ Submit(d) \/ SubmitFails(d)
               \/ InlineBegins(d) \/ InlineEnds(d)
        PROVE  UNCHANGED returned
    BY <2>3 DEF Begin, TimeIsUp, Submit, SubmitFails, InlineBegins, InlineEnds
  <2>4. ASSUME NEW w \in Workers, WorkerStep(w) PROVE UNCHANGED returned
    BY <2>4 DEF WorkerStep, TakeItem, WorkerEnds
  <2>5. QED BY <1>1, <2>1, <2>2, <2>3, <2>4 DEF FanNext, CallStep, fanVars
<1>2. FanInv /\ [FanNext]_fanVars =>
         [\A c \in Calls : fan[c].at = "returned" => Answer(c)' = Answer(c)]_fanVars
  BY <1>1
<1>3. QED BY <1>2, FanInvHolds, PTL DEF FanSpec, AnswerStays

=============================================================================
