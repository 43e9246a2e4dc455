---------------------------- MODULE ChannelProofs ----------------------------
(***************************************************************************)
(* What ChannelMonitor and ChannelExport keep, for any number of jobs and   *)
(* any limits: the running job keeps its slot and its folder, an ending     *)
(* that was told stands, a download sends what the folder holds, and the    *)
(* media of a job stay within their limit.                                  *)
(***************************************************************************)
EXTENDS ChannelMonitor, ChannelExport, TLAPS

Alive == {"starts", "works"}

-----------------------------------------------------------------------------
(* The inductive invariant of the jobs, job by job. *)

\* A job of which nothing was begun is nowhere.  One whose thread lives holds the slot, and
\* a sweep under way has noted it, or finds its folder new.
Running(j) ==
    /\ worker[j] = "none" => ~There(j) /\ j \notin sweep.folders
    /\ j \in aged => There(j)
    /\ worker[j] \in Alive =>
          /\ active = j /\ disk[j] = [dir |-> "whole", file |-> "running"]
          /\ sweep.at \in {"noted", "folders"} => j = sweep.spared \/ j \notin aged
    /\ active = j => worker[j] \in Alive

\* Only a job that has ended was told to have, is packed, has a ZIP or is swept away.
OnlyEnded(j) ==
    worker[j] # "ended" =>
        /\ zip[j] = NoZip /\ load[j] = "none" /\ told[j] = "none" /\ sweep.cutting # j

\* What was told is what is stored, will be once it is settled, or is lost.
ToldIsStored(j) ==
    told[j] # "none" /\ There(j) =>
        \/ disk[j].file \in {"none", told[j]}
        \/ disk[j].file = "running" /\ told[j] = "interrupted"

\* What is packed is what the folder has, and so is a ZIP that is newer than its folder.
ZipIsFresh(j) ==
    /\ load[j] \in Contents => load[j] = disk[j].dir
    /\ There(j) /\ Reusable(j) => zip[j].holds = disk[j].dir \/ zip[j].stray

\* While the sweep deletes folders, every ZIP there is will be looked at by it.
ZipIsListed(j) ==
    /\ zip[j] # NoZip =>
          \/ zip[j].stray
          \/ sweep.at \in {"folders", "zips"} /\ j \in sweep.zips
          \/ sweep.at # "folders" /\ There(j)
    /\ sweep.cutting = j => sweep.at = "folders"

JobInv(j) ==
    Running(j) /\ OnlyEnded(j) /\ ToldIsStored(j) /\ ZipIsFresh(j) /\ ZipIsListed(j)

MonitorInv == TypeOK /\ \A j \in Jobs : JobInv(j)

LEMMA InitMonitor == Init => MonitorInv
BY JobsAssumption DEF Init, MonitorInv, TypeOK, JobInv, Running, OnlyEnded, ToldIsStored,
   ZipIsFresh, ZipIsListed, Folder, Zip, NoFolder, NoZip, Resting, Contents, Finals, There, Alive,
   Reusable

-----------------------------------------------------------------------------
(* Types. *)

LEMMA TypesOfTouched ==
    ASSUME TypeOK, NEW js, Touched(js)
    PROVE  aged' \subseteq Jobs /\ zip' \in [Jobs -> Zip]
<1>1. zip' \in [Jobs -> Zip]
  BY ZenonT(30) DEF TypeOK, Touched, Zip
<1>2. QED BY <1>1 DEF TypeOK, Touched

LEMMA TypesOfSettle ==
    ASSUME TypeOK, NEW js \in SUBSET Jobs, Settle(js)
    PROVE  /\ disk' \in [Jobs -> Folder] /\ aged' \subseteq Jobs /\ zip' \in [Jobs -> Zip]
<1>1. PICK stored \in SUBSET js :
          disk' = [j \in Jobs |-> IF j \in stored THEN [disk[j] EXCEPT !.file = "interrupted"]
                                                  ELSE disk[j]]
  BY DEF Settle
<1>2. disk' \in [Jobs -> Folder]
  BY <1>1 DEF TypeOK, Folder, Finals
<1>3. \E logged : Touched(logged)
  BY DEF Settle
<1>4. QED BY <1>2, <1>3, TypesOfTouched

LEMMA TypesOfUnlink ==
    ASSUME TypeOK, NEW j \in Jobs, UnlinkZip(j)
    PROVE  zip' \in [Jobs -> Zip]
<1>1. NoZip \in Zip
  BY DEF NoZip, Zip
<1>2. CASE zip' = [zip EXCEPT ![j] = NoZip]
  BY <1>1, <1>2 DEF TypeOK
<1>3. CASE zip' = [zip EXCEPT ![j].stray = TRUE]
  <2>1. DEFINE left == [zip[j] EXCEPT !.stray = TRUE]
  <2>2. zip[j] \in Zip /\ zip \in [Jobs -> Zip]
    BY DEF TypeOK
  <2>3. left \in Zip
    BY <2>2 DEF Zip
  <2>4. zip' = [zip EXCEPT ![j] = left]
    BY <1>3
  <2>5. HIDE DEF left
  <2>6. QED BY <2>2, <2>3, <2>4
<1>4. QED BY <1>2, <1>3 DEF UnlinkZip

LEMMA TypesOfJob ==
    ASSUME TypeOK, NEW j \in Jobs, Job(j)
    PROVE  TypeOK'
<1>1. CASE StartFails(j)
  <2>1. disk' = disk \/ disk' = [disk EXCEPT ![j].dir = "whole"]
    BY <1>1 DEF StartFails
  <2>2. disk' \in [Jobs -> Folder]
    <3>1. DEFINE made == [disk[j] EXCEPT !.dir = "whole"]
    <3>2. disk[j] \in Folder /\ disk \in [Jobs -> Folder]
      BY DEF TypeOK
    <3>3. made \in Folder
      BY <3>2 DEF Folder
    <3>4. disk' = disk \/ disk' = [disk EXCEPT ![j] = made]
      BY <2>1
    <3>5. HIDE DEF made
    <3>6. QED BY <3>2, <3>3, <3>4
  <2>3. QED BY <1>1, <2>2 DEF TypeOK, StartFails
<1>2. CASE Start(j)
  BY <1>2 DEF TypeOK, Start, Folder
<1>3. CASE ThreadStarts(j)
  BY <1>3 DEF TypeOK, ThreadStarts
<1>4. CASE Works(j)
  BY <1>4 DEF TypeOK, Works, Touched, Zip
<1>5. ASSUME NEW status \in Finals, Finish(j, status) PROVE TypeOK'
  <2>1. zip' \in [Jobs -> Zip] /\ aged' \subseteq Jobs
    BY <1>5, TypesOfTouched DEF Finish
  <2>2. disk' \in [Jobs -> Folder]
    <3>1. status \in {"none", "running"} \cup Finals /\ disk \in [Jobs -> Folder]
      BY DEF TypeOK
    <3>2. disk' = [disk EXCEPT ![j].file = status] \/ disk' = disk
      BY <1>5 DEF Finish
    <3>3. QED BY <3>1, <3>2 DEF Folder
  <2>3. QED BY <1>5, <2>1, <2>2 DEF TypeOK, Finish, Freed
<1>6. QED
  BY <1>1, <1>2, <1>3, <1>4, <1>5 DEF Job, ThreadCannotStart, RunEnds, Finals

LEMMA TypesOfRequest ==
    ASSUME TypeOK, NEW j \in Jobs, Request(j)
    PROVE  TypeOK'
<1>1. ASSUME NEW js \in SUBSET Jobs, Settle(js), UNCHANGED <<active, worker, sweep>>,
             load' \in [Jobs -> {"none", "asked", "swept"} \cup Contents],
             told' \in [Jobs -> {"none"} \cup Finals]
      PROVE  TypeOK'
  BY <1>1, TypesOfSettle DEF TypeOK
<1>2. CASE Read(j)
  <2>1. told' \in [Jobs -> {"none"} \cup Finals]
    BY <1>2 DEF TypeOK, Read
  <2>2. QED BY <1>1, <1>2, <2>1 DEF TypeOK, Read
<1>3. CASE AskZip(j)
  BY <1>1, <1>3 DEF TypeOK, AskZip
<1>4. CASE SendKept(j) \/ LoadFails(j)
  BY <1>4 DEF TypeOK, SendKept, LoadFails
<1>5. CASE Pack(j)
  BY <1>5 DEF TypeOK, Pack, Ready, There, Folder, Contents
<1>6. CASE SendBuilt(j)
  <2>1. PICK holds \in Contents, fresh \in BOOLEAN :
            zip' = [zip EXCEPT ![j] = [holds |-> holds, fresh |-> fresh,
                                       stray |-> sweep.at # "rests" \/ load[j] = "swept"]]
    BY <1>6 DEF SendBuilt, Builds, Contents
  <2>2. QED BY <1>6, <2>1 DEF TypeOK, SendBuilt, Zip
<1>7. CASE DeleteFails(j)
  <2>1. PICK file \in {disk[j].file, "none"} :
            disk' = [disk EXCEPT ![j] = [dir |-> "cut", file |-> file]]
    BY <1>7 DEF DeleteFails
  <2>2. disk' \in [Jobs -> Folder]
    BY <2>1 DEF TypeOK, Folder
  <2>3. QED BY <1>7, <2>2, TypesOfTouched DEF TypeOK, DeleteFails
<1>8. CASE Delete(j)
  <2>1. zip' \in [Jobs -> Zip]
    BY <1>8, TypesOfUnlink DEF Delete
  <2>2. disk' \in [Jobs -> Folder]
    BY <1>8 DEF TypeOK, Delete, Folder, NoFolder
  <2>3. QED BY <1>8, <2>1, <2>2 DEF TypeOK, Delete
<1>9. QED BY <1>2, <1>3, <1>4, <1>5, <1>6, <1>7, <1>8 DEF Request

\* The part of the sweep.
Sweeps == [at : {"rests", "settled", "noted", "folders", "zips"}, spared : Jobs \cup {NoJob},
           folders : SUBSET Jobs, zips : SUBSET Jobs, cutting : Jobs \cup {NoJob}]

LEMMA TypesOfSweep ==
    ASSUME TypeOK, Sweep
    PROVE  TypeOK'
<1>0. TypeOK => sweep \in Sweeps
  BY DEF TypeOK, Sweeps
<1>1. CASE SweepSettles
  <2>1. sweep' \in Sweeps
    BY <1>0, <1>1 DEF SweepSettles, Sweeps
  <2>2. QED BY <1>1, <2>1, TypesOfSettle DEF TypeOK, SweepSettles, Sweeps
<1>2. CASE SweepNotes
  <2>1. sweep' \in Sweeps
    BY <1>0, <1>2 DEF SweepNotes, Sweeps, TypeOK
  <2>2. QED BY <1>2, <2>1 DEF TypeOK, SweepNotes, Sweeps
<1>9. CASE SweepLists
  <2>1. sweep' = [at |-> "folders", spared |-> sweep.spared, folders |-> {j \in Jobs : There(j)},
                  zips |-> {j \in Jobs : zip[j] # NoZip}, cutting |-> sweep.cutting]
    BY <1>0, <1>9 DEF SweepLists, Sweeps
  <2>2. sweep.spared \in Jobs \cup {NoJob} /\ sweep.cutting \in Jobs \cup {NoJob}
    BY DEF TypeOK
  <2>3. sweep' \in Sweeps
    BY <2>1, <2>2 DEF Sweeps
  <2>4. QED BY <1>9, <2>3 DEF TypeOK, SweepLists, Sweeps
<1>3. CASE SweepTurnsToZips
  <2>1. sweep' \in Sweeps
    BY <1>0, <1>3 DEF SweepTurnsToZips, Sweeps
  <2>2. QED BY <1>3, <2>1 DEF TypeOK, SweepTurnsToZips, Sweeps
<1>4. CASE SweepEnds
  <2>1. sweep' \in Sweeps
    BY <1>4 DEF SweepEnds, Resting, Sweeps
  <2>2. QED BY <1>4, <2>1 DEF TypeOK, SweepEnds, Sweeps
<1>5. ASSUME NEW j \in Jobs, SweepPasses(j) PROVE TypeOK'
  BY <1>5 DEF TypeOK, SweepPasses
<1>6. ASSUME NEW j \in Jobs, SweepCuts(j) PROVE TypeOK'
  <2>1. sweep' \in Sweeps
    BY <1>0, <1>6 DEF SweepCuts, Sweeps
  <2>2. PICK file \in {disk[j].file, "none"} :
            disk' = [disk EXCEPT ![j] = [dir |-> "cut", file |-> file]]
    BY <1>6 DEF SweepCuts
  <2>4. disk' \in [Jobs -> Folder]
    BY <2>2 DEF TypeOK, Folder
  <2>5. load' \in [Jobs -> {"none", "asked", "swept"} \cup Contents]
    BY <1>6 DEF TypeOK, SweepCuts, SweptAway
  <2>3. QED BY <1>6, <2>1, <2>4, <2>5, TypesOfTouched DEF TypeOK, SweepCuts, Sweeps
<1>7. ASSUME NEW j \in Jobs, SweepCut(j) PROVE TypeOK'
  <2>1. sweep' \in Sweeps
    BY <1>0, <1>7 DEF SweepCut, Sweeps
  <2>2. disk' \in [Jobs -> Folder] /\ load' \in [Jobs -> {"none", "asked", "swept"} \cup Contents]
    BY <1>7 DEF TypeOK, SweepCut, SweptAway, Folder, NoFolder
  <2>3. QED BY <1>7, <2>1, <2>2 DEF TypeOK, SweepCut, Sweeps
<1>8. ASSUME NEW j \in Jobs, SweepZip(j) PROVE TypeOK'
  <2>1. sweep' \in Sweeps
    BY <1>0, <1>8 DEF SweepZip, Sweeps
  <2>2. zip' \in [Jobs -> Zip]
    BY <1>8, TypesOfUnlink DEF TypeOK, SweepZip
  <2>3. QED BY <1>8, <2>1, <2>2 DEF TypeOK, SweepZip, Sweeps
<1>10. QED BY <1>1, <1>2, <1>3, <1>4, <1>5, <1>6, <1>7, <1>8, <1>9 DEF Sweep

LEMMA TypesOfStep ==
    ASSUME TypeOK, [Next]_vars
    PROVE  TypeOK'
<1>1. ASSUME NEW j \in Jobs, Ages(j) PROVE TypeOK'
  BY <1>1 DEF TypeOK, Ages
<1>2. CASE Restart
  <2>1. sweep' \in Sweeps
    BY <1>2 DEF Restart, Resting, Sweeps
  <2>2. zip' \in [Jobs -> Zip]
    BY ZenonT(30), <1>2 DEF TypeOK, Restart, Zip
  <2>3. QED BY <1>2, <2>1, <2>2 DEF TypeOK, Restart, Sweeps
<1>3. CASE UNCHANGED vars
  BY <1>3 DEF TypeOK, vars
<1>4. QED BY <1>1, <1>2, <1>3, TypesOfJob, TypesOfRequest, TypesOfSweep DEF Next

\* Each of the variables has its type.
THEOREM ChannelTypeCorrect == Spec => []TypeOK
<1>1. Init => TypeOK
  BY InitMonitor DEF MonitorInv
<1>2. QED BY <1>1, TypesOfStep, PTL DEF Spec

-----------------------------------------------------------------------------
(* What a step does to the invariant of a job. *)

LEMMA TouchedIs ==
    ASSUME TypeOK, NEW js, Touched(js), NEW c \in Jobs
    PROVE  /\ zip'[c].holds = zip[c].holds /\ zip'[c].stray = zip[c].stray
           /\ c \notin js => zip'[c] = zip[c]
           /\ zip'[c].fresh => c \notin js
           /\ zip[c] = NoZip => zip'[c] = NoZip
<1>1. zip[c] \in Zip /\ zip'[c] = IF c \in js THEN [zip[c] EXCEPT !.fresh = FALSE] ELSE zip[c]
  BY DEF TypeOK, Touched
<1>2. c \in js => zip'[c] = [holds |-> zip[c].holds, fresh |-> FALSE, stray |-> zip[c].stray]
  BY <1>1 DEF Zip
<1>3. CASE c \in js
  <2>1. /\ zip'[c].holds = zip[c].holds /\ zip'[c].stray = zip[c].stray
        /\ zip'[c].fresh = FALSE
    BY <1>2, <1>3
  <2>2. ASSUME zip[c] = NoZip PROVE zip'[c] = NoZip
    BY <1>2, <1>3, <2>2 DEF NoZip
  <2>3. QED BY <1>3, <2>1, <2>2
<1>4. CASE c \notin js
  BY <1>1, <1>4
<1>5. QED BY <1>3, <1>4

\* A job the step does not change.
LEMMA OtherJob ==
    ASSUME NEW c \in Jobs, JobInv(c), UNCHANGED sweep,
           worker'[c] = worker[c], disk'[c] = disk[c], zip'[c] = zip[c], load'[c] = load[c],
           told'[c] = told[c], active' = c <=> active = c, c \in aged' => c \in aged
    PROVE  JobInv(c)'
BY DEF JobInv, Running, OnlyEnded, ToldIsStored, ZipIsFresh, ZipIsListed, There, Reusable

\* The jobs are settled, and of one of those that have ended something is told or asked.
LEMMA SettledJob ==
    ASSUME TypeOK, NEW c \in Jobs, JobInv(c), NEW js \in SUBSET Jobs, Settle(js),
           \A j \in js : Left(j), UNCHANGED <<active, worker>>,
           UNCHANGED <<sweep.cutting, sweep.folders, sweep.spared>>,
           sweep'.at = sweep.at \/ (sweep.at = "rests" /\ sweep'.at = "settled"),
           UNCHANGED sweep.zips,
           load'[c] = load[c] \/ (load'[c] = "asked" /\ worker[c] = "ended"),
           \/ told'[c] = told[c]
           \/ /\ worker[c] = "ended"
              /\ told'[c] = IF Left(c) THEN "interrupted" ELSE disk[c].file
    PROVE  JobInv(c)'
<1>1. PICK stored \in SUBSET js :
          /\ disk' = [j \in Jobs |-> IF j \in stored THEN [disk[j] EXCEPT !.file = "interrupted"]
                                                     ELSE disk[j]]
          /\ \E logged \in {stored, js} : Touched(logged)
  BY DEF Settle
<1>2. /\ disk'[c].dir = disk[c].dir
      /\ disk'[c] = disk[c] \/ (Left(c) /\ disk'[c].file = "interrupted")
      /\ There(c)' <=> There(c)
  <2>1. disk[c] \in Folder /\ disk'[c] = IF c \in stored THEN [disk[c] EXCEPT !.file = "interrupted"]
                                                          ELSE disk[c]
    BY <1>1 DEF TypeOK
  <2>2. c \in stored =>
            disk'[c] = [dir |-> disk[c].dir, file |-> "interrupted"] /\ Left(c)
    BY <1>1, <2>1 DEF Folder
  <2>3. CASE c \in stored
    BY <2>2, <2>3 DEF There
  <2>4. CASE c \notin stored
    BY <2>1, <2>4 DEF There
  <2>5. QED BY <2>3, <2>4
<1>3. /\ zip'[c].holds = zip[c].holds /\ zip'[c].stray = zip[c].stray
      /\ zip'[c].fresh => zip[c].fresh
      /\ zip[c] = NoZip => zip'[c] = NoZip
  BY <1>1, TouchedIs
<1>10. c \in aged' => c \in aged
  BY <1>1 DEF Touched
<1>4. Running(c)'
  BY <1>2, <1>10 DEF JobInv, Running, Left
<1>5. OnlyEnded(c)'
  BY <1>3 DEF JobInv, OnlyEnded
<1>6. ToldIsStored(c)'
  <2>1. told[c] # "running"
    BY DEF TypeOK, Finals
  <2>2. QED BY <1>2, <2>1 DEF JobInv, ToldIsStored, Left
<1>7. ZipIsFresh(c)'
  BY <1>2, <1>3 DEF JobInv, ZipIsFresh, Reusable, Contents
<1>8. ZipIsListed(c)'
  BY <1>2, <1>3 DEF JobInv, ZipIsListed
<1>9. QED BY <1>4, <1>5, <1>6, <1>7, <1>8 DEF JobInv

LEMMA JobSteps ==
    ASSUME MonitorInv, NEW j \in Jobs, Job(j), NEW c \in Jobs
    PROVE  JobInv(c)'
<1>0. TypeOK /\ JobInv(c) /\ JobInv(j)
  BY DEF MonitorInv
<1>1. CASE StartFails(j)
  <2>1. CASE c = j
    BY <1>0, <1>1, <2>1, JobsAssumption DEF TypeOK, StartFails, JobInv, Running, OnlyEnded, ToldIsStored,
       ZipIsFresh, ZipIsListed, There, Reusable, NoZip, Alive, Contents, Folder
  <2>2. CASE c # j
    BY <1>0, <1>1, <2>2, OtherJob DEF TypeOK, StartFails
  <2>3. QED BY <2>1, <2>2
<1>2. CASE Start(j)
  <2>1. CASE c = j
    BY <1>0, <1>2, <2>1, JobsAssumption DEF TypeOK, Start, JobInv, Running, OnlyEnded, ToldIsStored,
       ZipIsFresh, ZipIsListed, There, Reusable, NoZip, Alive, Contents, NoFolder
  <2>2. CASE c # j
    BY <1>0, <1>2, <2>2, OtherJob, JobsAssumption DEF TypeOK, Start
  <2>3. QED BY <2>1, <2>2
<1>3. CASE ThreadStarts(j)
  <2>1. CASE c = j
    BY <1>0, <1>3, <2>1 DEF TypeOK, ThreadStarts, JobInv, Running, OnlyEnded, ToldIsStored,
       ZipIsFresh, ZipIsListed, There, Reusable, Alive
  <2>2. CASE c # j
    BY <1>0, <1>3, <2>2, OtherJob DEF TypeOK, ThreadStarts
  <2>3. QED BY <2>1, <2>2
<1>4. CASE Works(j)
  <2>0. Touched({j})
    BY <1>4 DEF Works
  <2>4. c \in aged' => c \in aged
    BY <2>0 DEF Touched
  <2>1. CASE c = j
    BY <1>0, <1>4, <2>0, <2>1, <2>4, TouchedIs DEF Works, JobInv, Running, OnlyEnded, ToldIsStored,
       ZipIsFresh, ZipIsListed, There, Reusable, Alive
  <2>2. CASE c # j
    BY <1>0, <1>4, <2>0, <2>2, <2>4, OtherJob, TouchedIs DEF Works
  <2>3. QED BY <2>1, <2>2
<1>5. ASSUME NEW status \in Finals, worker[j] \in Alive, Finish(j, status) PROVE JobInv(c)'
  <2>0. Touched({j}) /\ active = j /\ active' = NoJob /\ UNCHANGED <<load, sweep, told>>
    BY <1>0, <1>5 DEF Finish, Freed, JobInv, Running
  <2>1. CASE c = j
    <3>1. /\ worker'[c] = "ended" /\ zip'[c] = NoZip /\ load'[c] = "none" /\ told'[c] = "none"
          /\ There(c)' /\ active' # c
      BY <1>0, <1>5, <2>0, <2>1, TouchedIs, JobsAssumption
         DEF Finish, TypeOK, JobInv, Running, OnlyEnded, Alive, There, Folder
    <3>2. QED
      BY <1>0, <2>0, <2>1, <3>1 DEF JobInv, Running, OnlyEnded, ToldIsStored, ZipIsFresh, ZipIsListed,
         Reusable, NoZip, Alive, Contents
  <2>2. CASE c # j
    <3>1. worker'[c] = worker[c] /\ disk'[c] = disk[c] /\ zip'[c] = zip[c]
      BY <1>0, <1>5, <2>0, <2>2, TouchedIs DEF Finish, TypeOK
    <3>2. c \in aged' => c \in aged
      BY <2>0 DEF Touched
    <3>3. QED BY <1>0, <2>0, <2>2, <3>1, <3>2, OtherJob, JobsAssumption
  <2>3. QED BY <2>1, <2>2
<1>6. QED
  BY <1>1, <1>2, <1>3, <1>4, <1>5 DEF Job, ThreadCannotStart, RunEnds, Finals, Alive

\* A ZIP that goes, or is left behind.
LEMMA Unlinked ==
    ASSUME TypeOK, NEW j \in Jobs, UnlinkZip(j)
    PROVE  /\ zip'[j] = NoZip \/ (zip'[j].stray /\ zip[j] # NoZip)
           /\ \A c \in Jobs \ {j} : zip'[c] = zip[c]
<1>1. CASE zip' = [zip EXCEPT ![j] = NoZip]
  BY <1>1 DEF TypeOK
<1>2. CASE zip[j] # NoZip /\ zip' = [zip EXCEPT ![j].stray = TRUE]
  <2>1. zip'[j].stray
    BY <1>2 DEF TypeOK, Zip
  <2>2. QED BY <1>2, <2>1 DEF TypeOK
<1>3. QED BY <1>1, <1>2 DEF UnlinkZip

\* A job that is read and is not running has ended.
LEMMA EndedHas ==
    ASSUME TypeOK, NEW j \in Jobs, JobInv(j), There(j), Status(j) # "running"
    PROVE  worker[j] = "ended"
<1>1. ASSUME worker[j] \in Alive PROVE FALSE
  BY <1>1 DEF JobInv, Running, Status, Left
<1>2. worker[j] # "none"
  BY DEF JobInv, Running
<1>3. QED BY <1>1, <1>2 DEF TypeOK, Alive

LEMMA RequestSteps ==
    ASSUME MonitorInv, NEW j \in Jobs, Request(j), NEW c \in Jobs
    PROVE  JobInv(c)'
<1>0. TypeOK /\ JobInv(c) /\ JobInv(j)
  BY DEF MonitorInv
<1>1. CASE Read(j)
  <2>1. There(j) /\ Settle(IF Left(j) THEN {j} ELSE {}) /\ UNCHANGED <<active, worker, load, sweep>>
    BY <1>1 DEF Read
  <2>2. CASE Status(j) \in Finals
    <3>1. worker[j] = "ended" /\ active # j
      BY <1>0, <2>1, <2>2, EndedHas DEF Finals, JobInv, Running, Alive
    <3>2. Status(j) = IF Left(j) THEN "interrupted" ELSE disk[j].file
      BY <2>2, <3>1 DEF Status, Finals
    <3>3. told'[c] = IF c = j THEN Status(j) ELSE told[c]
      BY <1>1, <2>2, <1>0 DEF Read, TypeOK
    <3>4. QED BY <1>0, <2>1, <3>1, <3>2, <3>3, SettledJob
  <2>3. CASE Status(j) \notin Finals
    <3>1. told'[c] = told[c]
      BY <1>1, <2>3, <1>0 DEF Read, TypeOK
    <3>2. QED BY <1>0, <2>1, <3>1, SettledJob
  <2>4. QED BY <2>2, <2>3
<1>2. CASE AskZip(j)
  <2>1. worker[j] = "ended"
    BY <1>0, <1>2, EndedHas DEF AskZip, Ended
  <2>2. load'[c] = IF c = j THEN "asked" ELSE load[c]
    BY <1>2, <1>0 DEF AskZip, TypeOK
  <2>3. Settle(IF Left(j) THEN {j} ELSE {}) /\ UNCHANGED <<active, worker, sweep, told>>
    BY <1>2 DEF AskZip
  <2>4. QED BY <1>0, <2>1, <2>2, <2>3, SettledJob
<1>3. CASE SendKept(j) \/ LoadFails(j)
  <2>1. /\ load'[c] = IF c = j THEN "none" ELSE load[c]
        /\ UNCHANGED <<active, worker, disk, aged, zip, sweep, told>>
    BY <1>3, <1>0 DEF SendKept, LoadFails, TypeOK
  <2>2. QED BY <1>0, <2>1 DEF JobInv, Running, OnlyEnded, ToldIsStored, ZipIsFresh, ZipIsListed,
     There, Reusable, Contents
<1>4. CASE Pack(j)
  <2>1. worker[j] = "ended" /\ active # j
    BY <1>0, <1>4 DEF Pack, Ready, JobInv, Running, OnlyEnded, Alive
  <2>2. /\ load'[c] = IF c = j THEN disk[j].dir ELSE load[c]
        /\ UNCHANGED <<active, worker, disk, aged, zip, sweep, told>>
    BY <1>0, <1>4, <2>1 DEF Pack, TypeOK
  <2>3. QED BY <1>0, <2>1, <2>2 DEF JobInv, Running, OnlyEnded, ToldIsStored, ZipIsFresh,
     ZipIsListed, There, Reusable
<1>5. CASE SendBuilt(j)
  <2>1. PICK holds \in IF load[j] = "swept" THEN {"whole", "cut"} ELSE {load[j]}, fresh \in BOOLEAN :
            zip' = [zip EXCEPT ![j] = [holds |-> holds, fresh |-> fresh,
                                       stray |-> sweep.at # "rests" \/ load[j] = "swept"]]
    BY <1>5 DEF SendBuilt
  <2>2. load[j] # "none" /\ worker[j] = "ended"
    BY <1>0, <1>5 DEF SendBuilt, Builds, Contents, JobInv, OnlyEnded
  <2>3. /\ load'[c] = IF c = j THEN "none" ELSE load[c]
        /\ UNCHANGED <<active, worker, disk, aged, sweep, told>>
    BY <1>0, <1>5 DEF SendBuilt, TypeOK
  <2>4. CASE c = j
    <3>1. /\ zip'[c].holds = holds
          /\ zip'[c].stray <=> (sweep.at # "rests" \/ load[j] = "swept")
      BY <1>0, <2>1, <2>4 DEF TypeOK
    <3>2. load[j] # "swept" => load[j] \in Contents /\ holds = load[j] /\ holds = disk[j].dir
      BY <1>0, <1>5, <2>1 DEF SendBuilt, Builds, JobInv, ZipIsFresh
    <3>3. load[j] # "swept" => There(j)
      BY <3>2 DEF There, Contents
    <3>4. QED BY <1>0, <2>2, <2>3, <2>4, <3>1, <3>2, <3>3
       DEF JobInv, Running, OnlyEnded, ToldIsStored, ZipIsFresh, ZipIsListed, There, Reusable, Contents
  <2>5. CASE c # j
    <3>1. zip'[c] = zip[c]
      BY <1>0, <2>1, <2>5 DEF TypeOK
    <3>2. QED BY <1>0, <2>3, <2>5, <3>1, OtherJob
  <2>6. QED BY <2>4, <2>5
<1>6. ASSUME MayDelete(j) PROVE worker[j] = "ended" /\ load[j] \notin Contents
  BY <1>0, <1>6 DEF MayDelete, ZipLockFree, Builds, TypeOK, JobInv, Running, Alive
<1>7. CASE DeleteFails(j)
  <2>1. MayDelete(j) /\ Touched({j}) /\ UNCHANGED <<active, worker, load, sweep, told>>
    BY <1>7 DEF DeleteFails
  <2>5. c \in aged' => c \in aged
    BY <2>1 DEF Touched
  <2>2. CASE c = j
    <3>1. disk'[c].dir = "cut" /\ disk'[c].file \in {disk[c].file, "none"} /\ There(c)
      BY <1>0, <1>7, <2>2 DEF DeleteFails, MayDelete, TypeOK
    <3>2. QED BY <1>0, <1>6, <2>1, <2>2, <2>5, <3>1, TouchedIs DEF JobInv, Running, OnlyEnded, ToldIsStored,
       ZipIsFresh, ZipIsListed, There, Reusable, Alive
  <2>3. CASE c # j
    <3>1. disk'[c] = disk[c] /\ zip'[c] = zip[c]
      BY <1>0, <1>7, <2>1, <2>3, TouchedIs DEF DeleteFails, TypeOK
    <3>2. QED BY <1>0, <2>1, <2>3, <2>5, <3>1, OtherJob
  <2>4. QED BY <2>2, <2>3
<1>8. CASE Delete(j)
  <2>1. MayDelete(j) /\ UnlinkZip(j) /\ UNCHANGED <<active, worker, load, sweep, told>>
    BY <1>8 DEF Delete
  <2>5. c \in aged' => c \in aged /\ c # j
    BY <1>8 DEF Delete
  <2>2. CASE c = j
    <3>1. disk'[c].dir = "none"
      BY <1>0, <1>8, <2>2 DEF Delete, TypeOK, NoFolder
    <3>2. QED BY <1>0, <1>6, <2>1, <2>2, <2>5, <3>1, Unlinked DEF JobInv, Running, OnlyEnded, ToldIsStored,
       ZipIsFresh, ZipIsListed, There, Alive
  <2>3. CASE c # j
    <3>1. disk'[c] = disk[c] /\ zip'[c] = zip[c]
      BY <1>0, <1>8, <2>1, <2>3, Unlinked DEF Delete, TypeOK
    <3>2. QED BY <1>0, <2>1, <2>3, <2>5, <3>1, OtherJob
  <2>4. QED BY <2>2, <2>3
<1>9. QED BY <1>1, <1>2, <1>3, <1>4, <1>5, <1>7, <1>8 DEF Request

LEMMA SweepSteps ==
    ASSUME MonitorInv, Sweep, NEW c \in Jobs
    PROVE  JobInv(c)'
<1>0. TypeOK /\ JobInv(c) /\ sweep \in Sweeps
  BY DEF MonitorInv, TypeOK, Sweeps
<1> USE DEF JobInv, Running, OnlyEnded, ToldIsStored, ZipIsFresh, ZipIsListed
<1>1. CASE SweepSettles
  <2>1. sweep' = [at |-> "settled", spared |-> sweep.spared, folders |-> sweep.folders,
                  zips |-> sweep.zips, cutting |-> sweep.cutting] /\ sweep.at = "rests"
    BY <1>0, <1>1 DEF SweepSettles, Sweeps
  <2>2. Settle({j \in Jobs : Left(j)}) /\ UNCHANGED <<active, worker, load, told>>
    BY <1>1 DEF SweepSettles
  <2>3. QED BY <1>0, <2>1, <2>2, SettledJob
<1>2. CASE SweepNotes
  <2>1. /\ UNCHANGED <<active, worker, disk, aged, zip, load, told>> /\ sweep.at = "settled"
        /\ sweep' = [at |-> "noted", spared |-> active, folders |-> sweep.folders,
                     zips |-> sweep.zips, cutting |-> sweep.cutting]
    BY <1>0, <1>2 DEF SweepNotes, Sweeps
  <2>2. QED BY <1>0, <2>1 DEF There, Reusable
<1>10. CASE SweepLists
  <2>1. sweep' = [at |-> "folders", spared |-> sweep.spared, folders |-> {j \in Jobs : There(j)},
                  zips |-> {j \in Jobs : zip[j] # NoZip}, cutting |-> sweep.cutting]
    BY <1>0, <1>10 DEF SweepLists, Sweeps
  <2>2. UNCHANGED <<active, worker, disk, aged, zip, load, told>> /\ sweep.at = "noted"
    BY <1>10 DEF SweepLists
  <2>3. /\ sweep'.at = "folders" /\ sweep'.cutting = sweep.cutting /\ sweep'.spared = sweep.spared
        /\ c \in sweep'.folders <=> There(c)
        /\ c \in sweep'.zips <=> zip[c] # NoZip
    BY <2>1
  <2>4. QED BY <1>0, <2>2, <2>3 DEF There, Reusable
<1>3. CASE SweepTurnsToZips
  <2>1. sweep' = [at |-> "zips", spared |-> NoJob, folders |-> sweep.folders,
                  zips |-> sweep.zips, cutting |-> sweep.cutting]
    BY <1>0, <1>3 DEF SweepTurnsToZips, Sweeps
  <2>2. /\ UNCHANGED <<active, worker, disk, aged, zip, load, told>> /\ sweep.at = "folders"
        /\ sweep.folders = {} /\ sweep.cutting = NoJob
    BY <1>3 DEF SweepTurnsToZips
  <2>3. QED BY <1>0, <2>1, <2>2, JobsAssumption DEF There, Reusable
<1>4. CASE SweepEnds
  <2>1. /\ UNCHANGED <<active, worker, disk, aged, zip, load, told>> /\ sweep' = Resting
        /\ sweep.at = "zips" /\ sweep.zips = {}
    BY <1>4 DEF SweepEnds
  <2>2. QED BY <1>0, <2>1, JobsAssumption DEF There, Reusable, Resting
<1>5. ASSUME NEW j \in Jobs, SweepPasses(j) PROVE JobInv(c)'
  <2>1. sweep' = [at |-> sweep.at, spared |-> sweep.spared, folders |-> sweep.folders \ {j},
                  zips |-> sweep.zips, cutting |-> sweep.cutting]
    BY <1>0, <1>5 DEF SweepPasses, Sweeps
  <2>2. UNCHANGED <<active, worker, disk, aged, zip, load, told>>
    BY <1>5 DEF SweepPasses
  <2>3. QED BY <1>0, <2>1, <2>2 DEF There, Reusable
<1>6. ASSUME NEW j \in Jobs, SweepCuts(j) PROVE JobInv(c)'
  <2>1. sweep' = [at |-> sweep.at, spared |-> sweep.spared, folders |-> sweep.folders \ {j},
                  zips |-> sweep.zips, cutting |-> j]
    BY <1>0, <1>6 DEF SweepCuts, Sweeps
  <2>2. /\ Touched({j}) /\ UNCHANGED <<active, worker, told>> /\ sweep.at = "folders"
        /\ j \in sweep.folders /\ There(j) /\ j # sweep.spared /\ j \in aged
    BY <1>6 DEF SweepCuts, Expired
  <2>3. /\ c = j => disk'[c].dir = "cut" /\ disk'[c].file \in {disk[c].file, "none"}
        /\ c # j => disk'[c] = disk[c]
    BY <1>0, <1>6 DEF SweepCuts, TypeOK
  <2>4. load'[c] = load[c] \/ (c = j /\ Builds(j) /\ load'[c] = "swept")
    BY <1>0, <1>6 DEF SweepCuts, SweptAway, TypeOK
  <2>5. c = j => load'[c] \notin Contents
    BY <1>0, <1>6 DEF SweepCuts, SweptAway, TypeOK, Builds, Contents
  <2>6. c = j => worker[j] = "ended"
    BY <1>0, <2>2 DEF TypeOK, Alive
  <2>10. aged' \subseteq aged \ {j}
    BY <2>2 DEF Touched
  <2>7. CASE c = j
    <3>1. There(c) /\ There(c)' /\ disk'[c].file \in {disk[c].file, "none"}
      BY <2>2, <2>3, <2>7 DEF There
    <3>2. ~Reusable(c)'
      BY <2>2, <2>7, <1>0, TouchedIs DEF Reusable
    <3>3. zip'[c].stray = zip[c].stray /\ (zip[c] = NoZip => zip'[c] = NoZip)
      BY <2>2, <1>0, TouchedIs
    <3>4. Running(c)' /\ OnlyEnded(c)'
      BY <1>0, <2>1, <2>2, <2>6, <2>7, <2>10, <3>1 DEF Alive
    <3>5. ToldIsStored(c)' /\ ZipIsFresh(c)'
      BY <1>0, <2>2, <2>5, <2>7, <3>1, <3>2
    <3>6. ZipIsListed(c)'
      BY <1>0, <2>1, <2>2, <3>3
    <3>7. QED BY <3>4, <3>5, <3>6
  <2>8. CASE c # j
    <3>1. zip'[c] = zip[c] /\ disk'[c] = disk[c] /\ load'[c] = load[c]
      BY <1>0, <2>2, <2>3, <2>4, <2>8, TouchedIs
    <3>2. QED BY <1>0, <2>1, <2>2, <2>8, <2>10, <3>1 DEF There, Reusable
  <2>9. QED BY <2>7, <2>8
<1>7. ASSUME NEW j \in Jobs, SweepCut(j) PROVE JobInv(c)'
  <2>1. sweep' = [at |-> sweep.at, spared |-> sweep.spared, folders |-> sweep.folders,
                  zips |-> sweep.zips, cutting |-> NoJob]
    BY <1>0, <1>7 DEF SweepCut, Sweeps
  <2>2. UNCHANGED <<active, worker, zip, told>> /\ sweep.cutting = j
    BY <1>7 DEF SweepCut
  <2>3. disk'[c] = disk[c] \/ (c = j /\ disk'[c].dir = "none")
    BY <1>0, <1>7 DEF SweepCut, TypeOK, NoFolder
  <2>4. load'[c] = load[c] \/ (c = j /\ Builds(j) /\ load'[c] = "swept")
    BY <1>0, <1>7 DEF SweepCut, SweptAway, TypeOK
  <2>10. c \in aged' => c \in aged /\ (c # j \/ disk'[c] = disk[c])
    BY <1>7 DEF SweepCut
  <2>5. c = j => load'[c] \notin Contents /\ worker[j] = "ended" /\ sweep.at = "folders"
    BY <1>0, <1>7 DEF SweepCut, SweptAway, TypeOK, Builds, Contents
  <2>6. Running(c)' /\ OnlyEnded(c)'
    BY <1>0, <2>1, <2>2, <2>3, <2>4, <2>5, <2>10, JobsAssumption DEF There, Alive
  <2>7. ToldIsStored(c)' /\ ZipIsFresh(c)'
    BY <1>0, <2>2, <2>3, <2>4, <2>5 DEF There, Reusable
  <2>8. ZipIsListed(c)'
    BY <1>0, <2>1, <2>2, <2>3, <2>5, JobsAssumption DEF There
  <2>9. QED BY <2>6, <2>7, <2>8
<1>8. ASSUME NEW j \in Jobs, SweepZip(j) PROVE JobInv(c)'
  <2>1. sweep' = [at |-> sweep.at, spared |-> sweep.spared, folders |-> sweep.folders,
                  zips |-> sweep.zips \ {j}, cutting |-> sweep.cutting]
    BY <1>0, <1>8 DEF SweepZip, Sweeps
  <2>2. UNCHANGED <<active, worker, disk, aged, load, told>> /\ sweep.at = "zips"
    BY <1>8 DEF SweepZip
  <2>3. CASE c = j
    <3>1. \/ zip'[c] = NoZip
          \/ zip'[c].stray /\ zip[c] # NoZip
          \/ There(c) /\ zip' = zip
      BY <1>0, <1>8, <2>3, Unlinked DEF SweepZip, Orphaned
    <3>2. \/ zip'[c] = NoZip
          \/ zip'[c].stray
          \/ There(c) /\ zip'[c] = zip[c]
      BY <3>1
    <3>3. worker[c] # "ended" => zip'[c] = NoZip
      BY <1>0, <3>1
    <3>4. Running(c)' /\ OnlyEnded(c)' /\ ToldIsStored(c)'
      BY <1>0, <2>1, <2>2, <3>3 DEF There
    <3>5. NoZip.holds = "none"
      BY DEF NoZip
    <3>6. ZipIsFresh(c)'
      BY <1>0, <2>2, <3>2, <3>5 DEF There, Reusable
    <3>7. ZipIsListed(c)'
      BY <1>0, <2>1, <2>2, <3>2 DEF There
    <3>8. QED BY <3>4, <3>6, <3>7
  <2>4. CASE c # j
    <3>1. zip'[c] = zip[c]
      BY <1>0, <1>8, <2>4, Unlinked DEF SweepZip
    <3>2. QED BY <1>0, <2>1, <2>2, <2>4, <3>1 DEF There, Reusable
  <2>5. QED BY <2>3, <2>4
<1>9. QED BY <1>1, <1>2, <1>10, <1>3, <1>4, <1>5, <1>6, <1>7, <1>8 DEF Sweep

LEMMA RestartStep ==
    ASSUME MonitorInv, Restart, NEW c \in Jobs
    PROVE  JobInv(c)'
<1>0. TypeOK /\ JobInv(c)
  BY DEF MonitorInv
<1>1. /\ active' = NoJob /\ load'[c] = "none" /\ sweep' = Resting /\ UNCHANGED <<disk, aged, told>>
      /\ worker'[c] = IF worker[c] = "none" THEN "none" ELSE "ended"
      /\ zip'[c] = IF There(c) \/ zip[c] = NoZip THEN zip[c] ELSE [zip[c] EXCEPT !.stray = TRUE]
  BY DEF Restart
<1>2. /\ sweep'.at = "rests" /\ sweep'.folders = {} /\ sweep'.cutting = NoJob
  BY <1>1 DEF Resting
<1>3. /\ There(c) \/ zip[c] = NoZip => zip'[c] = zip[c]
      /\ ~(There(c) \/ zip[c] = NoZip) => zip'[c].stray
  BY <1>0, <1>1 DEF TypeOK, Zip
<1>4. Running(c)' /\ OnlyEnded(c)'
  BY <1>0, <1>1, <1>2, <1>3, JobsAssumption DEF JobInv, Running, OnlyEnded, There, Alive
<1>5. ToldIsStored(c)' /\ ZipIsFresh(c)'
  BY <1>0, <1>1, <1>3 DEF JobInv, ToldIsStored, ZipIsFresh, There, Reusable, Contents
<1>6. ZipIsListed(c)'
  BY <1>0, <1>1, <1>2, <1>3, JobsAssumption DEF JobInv, ZipIsListed, There
<1>7. QED BY <1>4, <1>5, <1>6 DEF JobInv

LEMMA StepMonitor ==
    ASSUME MonitorInv, [Next]_vars
    PROVE  MonitorInv'
<1>1. TypeOK'
  BY TypesOfStep DEF MonitorInv
<1>2. ASSUME NEW c \in Jobs PROVE JobInv(c)'
  <2>0. JobInv(c)
    BY DEF MonitorInv
  <2>3. CASE UNCHANGED vars
    BY <2>0, <2>3, OtherJob DEF vars
  <2>4. ASSUME NEW j \in Jobs, Ages(j) PROVE JobInv(c)'
    BY <2>0, <2>4 DEF Ages, JobInv, Running, OnlyEnded, ToldIsStored, ZipIsFresh, ZipIsListed, There,
       Reusable
  <2>1. ASSUME \/ UNCHANGED vars
               \/ \E j \in Jobs : Ages(j)
        PROVE  JobInv(c)'
    BY <2>1, <2>3, <2>4
  <2>2. QED BY <2>1, JobSteps, RequestSteps, SweepSteps, RestartStep DEF Next
<1>3. QED BY <1>1, <1>2 DEF MonitorInv

LEMMA MonitorInvHolds == Spec => []MonitorInv
BY InitMonitor, StepMonitor, PTL DEF Spec

-----------------------------------------------------------------------------
\* A running job keeps the one slot and its whole folder, whatever is deleted, swept or
\* settled meanwhile, and the slot is not held for a job whose thread is gone.
THEOREM RunningJobIsKept == Spec => []SlotAndFolder
<1>1. MonitorInv => SlotAndFolder
  BY JobsAssumption DEF MonitorInv, TypeOK, JobInv, Running, SlotAndFolder, Alive
<1>2. QED BY <1>1, MonitorInvHolds, PTL

\* What somebody was told of the end of a job is what everybody is told, as long as it is
\* known.
THEOREM EndingsStand == Spec => []ToldIsKept
<1>1. ASSUME MonitorInv, NEW j \in Jobs, told[j] # "none", There(j)
      PROVE  Status(j) \in {told[j], "archived"}
  <2>1. active # j /\ ToldIsStored(j) /\ told[j] # "running"
    BY <1>1 DEF MonitorInv, TypeOK, JobInv, Running, OnlyEnded, Alive, Finals
  <2>2. Status(j) = IF Left(j) THEN "interrupted"
                    ELSE IF disk[j].file = "none" THEN "archived" ELSE disk[j].file
    BY <2>1 DEF Status
  <2>3. QED BY <1>1, <2>1, <2>2 DEF ToldIsStored, Left
<1>2. MonitorInv => ToldIsKept
  BY <1>1 DEF ToldIsKept
<1>3. QED BY <1>2, MonitorInvHolds, PTL

\* A download sends what the folder of the job holds, and no ZIP outlives the folder but
\* those that met the sweep and those whose unlink failed.
THEOREM ZipsAreTrue == Spec => []ZipIsTheFolders
<1>1. MonitorInv => ZipIsTheFolders
  BY DEF MonitorInv, JobInv, ZipIsFresh, ZipIsListed, ZipIsTheFolders, Ready
<1>2. QED BY <1>1, MonitorInvHolds, PTL

-----------------------------------------------------------------------------
(* The media of an export. *)

LargestMedium == IF MaxFile > MaxVideo THEN MaxFile ELSE MaxVideo

\* A message is begun only below the limit, and a download only where what Telegram states
\* of it still fits.
WithinBudget ==
    /\ ExportTypeOK
    /\ mediaBytes <= MaxJob + understated /\ mediaBytes < MaxJob + LargestMedium
    /\ exportAt \in {"fetches", "downloads", "weighs", "notes"} => results < Limit
    /\ exportAt \in {"fetches", "downloads", "weighs"} =>
          medium.cap \in Caps /\ medium.cap <= LargestMedium
    /\ exportAt \in {"downloads", "weighs"} =>
          mediaBytes < MaxJob /\ mediaBytes + medium.stated <= MaxJob

LEMMA LimitsAreNat ==
    /\ Limit \in Nat \ {0} /\ MaxJob \in Nat \ {0}
    /\ MaxFile \in Nat /\ MaxVideo \in Nat /\ MaxSize \in Nat /\ LargestMedium \in Nat
    /\ \A cap \in Caps : cap \in Nat /\ cap <= LargestMedium
BY LimitsAssumption DEF LargestMedium, Caps

LEMMA MediumFields ==
    ASSUME NEW cap \in Caps \cup {0}, NEW stated \in Sizes, NEW size \in Sizes
    PROVE  [cap |-> cap, stated |-> stated, size |-> size] \in
               [cap : Caps \cup {0}, stated : Sizes, size : Sizes]
OBVIOUS

LEMMA InitExport == ExportInit => WithinBudget
<1>1. NoMedium \in [cap : Caps \cup {0}, stated : Sizes, size : Sizes]
  BY LimitsAreNat DEF NoMedium, Sizes
<1>2. 0 \in 0..Limit /\ 0 <= MaxJob + 0 /\ 0 < MaxJob + LargestMedium
  BY LimitsAreNat
<1>3. ASSUME ExportInit PROVE ExportTypeOK
  <2>1. medium \in [cap : Caps \cup {0}, stated : Sizes, size : Sizes]
    BY <1>1, <1>3 DEF ExportInit
  <2>2. results \in 0..Limit
    BY <1>2, <1>3 DEF ExportInit
  <2>3. QED BY <1>3, <2>1, <2>2 DEF ExportInit, ExportTypeOK
<1>4. QED BY <1>2, <1>3 DEF ExportInit, WithinBudget

LEMMA StepExport ==
    ASSUME WithinBudget, [ExportNext]_exportVars
    PROVE  WithinBudget'
<1> USE LimitsAreNat DEF WithinBudget
<1>0. NoMedium \in [cap : Caps \cup {0}, stated : Sizes, size : Sizes]
  BY DEF NoMedium, Sizes
<1>1. CASE UNCHANGED exportVars
  BY <1>1 DEF exportVars, counts, ExportTypeOK
<1>2. CASE Connect \/ NoMore \/ DiskIsLow \/ Save \/ Note
  <2>1. CASE Connect \/ NoMore
    BY <2>1 DEF Connect, NoMore, Fails, GoesTo, counts, ExportTypeOK
  <2>2. CASE DiskIsLow \/ Save
    BY <2>2 DEF DiskIsLow, Save, Fails, GoesTo, counts, ExportTypeOK
  <2>3. CASE Note
    BY <2>3 DEF Note, GoesTo, counts, ExportTypeOK
  <2>4. QED BY <1>2, <2>1, <2>2, <2>3
<1>3. CASE ReadMessage
  <2>1. CASE GoesTo("notes") /\ UNCHANGED medium
    BY <1>3, <2>1 DEF ReadMessage, GoesTo, counts, ExportTypeOK
  <2>2. CASE GoesTo("fetches") /\ \E cap \in Caps, stated \in Sizes :
                medium' = [cap |-> cap, stated |-> stated, size |-> 0]
    <3>1. PICK cap \in Caps, stated \in Sizes :
              medium' = [cap |-> cap, stated |-> stated, size |-> 0]
      BY <2>2
    <3>2. medium'.cap = cap /\ medium' \in [cap : Caps \cup {0}, stated : Sizes, size : Sizes]
      BY <3>1, MediumFields DEF Sizes
    <3>3. QED BY <1>3, <2>2, <3>2 DEF ReadMessage, GoesTo, counts, ExportTypeOK
  <2>3. QED BY <1>3, <2>1, <2>2 DEF ReadMessage
<1>4. CASE Skip
  BY <1>0, <1>4 DEF Skip, GoesTo, counts, ExportTypeOK
<1>5. CASE Fetch
  <2>1. medium.stated \in Nat /\ mediaBytes \in Nat
    BY DEF ExportTypeOK, Sizes
  <2>2. mediaBytes < MaxJob /\ mediaBytes + medium.stated <= MaxJob
    BY <1>5, <2>1 DEF Fetch, Full
  <2>3. QED BY <1>0, <1>5, <2>2 DEF Fetch, GoesTo, counts, ExportTypeOK
<1>6. CASE Download
  <2>1. PICK size \in Sizes :
            \/ GoesTo("weighs") /\ medium' = [medium EXCEPT !.size = size]
            \/ GoesTo("notes") /\ medium' = NoMedium
    BY <1>6 DEF Download, Sizes
  <2>2. CASE GoesTo("weighs") /\ medium' = [medium EXCEPT !.size = size]
    <3>1. /\ medium'.cap = medium.cap /\ medium'.stated = medium.stated
          /\ medium' \in [cap : Caps \cup {0}, stated : Sizes, size : Sizes]
      BY <2>2 DEF ExportTypeOK
    <3>2. QED BY <1>6, <2>2, <3>1 DEF Download, GoesTo, counts, ExportTypeOK
  <2>3. CASE GoesTo("notes") /\ medium' = NoMedium
    BY <1>0, <1>6, <2>3 DEF Download, GoesTo, counts, ExportTypeOK
  <2>4. QED BY <2>1, <2>2, <2>3
<1>7. CASE Remove
  BY <1>0, <1>7 DEF Remove, GoesTo, counts, ExportTypeOK
<1>8. CASE Keep
  <2>1. /\ medium.size \in Nat /\ medium.stated \in Nat /\ medium.size <= medium.cap
        /\ medium.cap \in Nat /\ mediaBytes \in Nat /\ understated \in Nat
    BY <1>8 DEF Keep, TooLarge, ExportTypeOK, Sizes
  <2>2. understated' \in Nat /\ understated' >= understated
        /\ understated' >= medium.size - medium.stated
    BY <1>8, <2>1 DEF Keep
  <2>3. mediaBytes' \in Nat /\ mediaBytes' <= MaxJob + understated'
        /\ mediaBytes' < MaxJob + LargestMedium
    BY <1>8, <2>1, <2>2 DEF Keep
  <2>4. QED BY <1>0, <1>8, <2>2, <2>3 DEF Keep, GoesTo, ExportTypeOK
<1>9. QED
  BY <1>1, <1>2, <1>3, <1>4, <1>5, <1>6, <1>7, <1>8 DEF ExportNext

\* Each of the variables of an export has its type.
THEOREM ExportTypeCorrect == ExportSpec => []ExportTypeOK
BY InitExport, StepExport, PTL DEF ExportSpec, WithinBudget

\* The media kept stay within the limit of the job but for what Telegram understated, and
\* go past it by less than one file, in whatever order sizes, failures and removals come.
THEOREM MediaStayWithinLimit == ExportSpec => []MediaWithinLimit
<1>1. WithinBudget => MediaWithinLimit
  BY DEF WithinBudget, MediaWithinLimit, LargestMedium
<1>2. QED BY <1>1, InitExport, StepExport, PTL DEF ExportSpec

=============================================================================
