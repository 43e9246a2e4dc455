--------------------------- MODULE ChannelMonitor ---------------------------
(***************************************************************************)
(* The Channel Monitor of the dashboard: one job at a time in memory, every *)
(* other job in its folder on disk, the ZIPs built for downloads, and the  *)
(* retention sweep.  _jobs_lock makes a step of what is done under it;      *)
(* _zip_lock is held from one step to another while a ZIP is built; the     *)
(* sweep holds neither.  Any write may fail, any thread may die with the    *)
(* process.                                                                *)
(***************************************************************************)
CONSTANTS
    Jobs,       \* bound: job ids ever drawn; an id is not drawn twice
    NoJob

ASSUME JobsAssumption == NoJob \notin Jobs

Finals == {"completed", "error", "interrupted"}

VARIABLES
    active,     \* _active: the job of this process, or NoJob
    worker,     \* worker[j]: the thread of j
    disk,       \* disk[j]: the folder of j
    aged,       \* the folders in which nothing changed for RETENTION_DAYS
    zip,        \* zip[j]: the download ZIP of j
    load,       \* load[j]: a download of j under way: what its ZIP will hold; swept
                \* when the sweep has deleted files that are being packed
    sweep,      \* the retention sweep
    told        \* history: how j ended, as a page that names it last told (the answer to
                \* a start that failed names none)

vars == <<active, worker, disk, aged, zip, load, sweep, told>>

\* dir: a folder is cut when some of it was deleted.  file: the status in job.json,
\* none without a usable job.json.
Folder == [dir : {"none", "whole", "cut"}, file : {"none", "running"} \cup Finals]

\* What a ZIP holds: the folder as it was before the job ended (early), all of it,
\* or what was left of it.
Contents == {"early", "whole", "cut"}
\* fresh: newer than everything in the folder.  stray: built while the sweep worked
\* with an older list, or left behind by an unlink that failed (history).
Zip == [holds : Contents \cup {"none"}, fresh : BOOLEAN, stray : BOOLEAN]

TypeOK ==
    /\ active \in Jobs \cup {NoJob}
    /\ worker \in [Jobs -> {"none", "starts", "works", "ended"}]
    /\ disk \in [Jobs -> Folder]
    /\ aged \subseteq Jobs
    /\ zip \in [Jobs -> Zip]
    /\ load \in [Jobs -> {"none", "asked", "swept"} \cup Contents]
    /\ sweep \in [at : {"rests", "settled", "noted", "folders", "zips"}, spared : Jobs \cup {NoJob},
                  folders : SUBSET Jobs, zips : SUBSET Jobs, cutting : Jobs \cup {NoJob}]
    /\ told \in [Jobs -> {"none"} \cup Finals]

NoFolder == [dir |-> "none", file |-> "none"]
NoZip == [holds |-> "none", fresh |-> FALSE, stray |-> FALSE]
Resting == [at |-> "rests", spared |-> NoJob, folders |-> {}, zips |-> {}, cutting |-> NoJob]

There(j) == disk[j].dir # "none"
\* _zip_lock is held by the download that builds.
Builds(j) == load[j] \in Contents \cup {"swept"}
ZipLockFree == \A j \in Jobs : ~Builds(j)

\* A change in the folder makes it new, and its ZIP old.
Touched(js) ==
    /\ aged' = aged \ js
    /\ zip' = [j \in Jobs |-> IF j \in js THEN [zip[j] EXCEPT !.fresh = FALSE] ELSE zip[j]]

-----------------------------------------------------------------------------
(* A job begins and ends. *)

\* _write_job or mkdir fails: the folder goes again, as far as it can.
StartFails(j) ==
    /\ active = NoJob /\ worker[j] = "none" /\ disk[j] = NoFolder
    /\ worker' = [worker EXCEPT ![j] = "ended"]
    /\ \/ UNCHANGED disk
       \/ disk' = [disk EXCEPT ![j].dir = "whole"]
    /\ UNCHANGED <<active, aged, zip, load, sweep, told>>

Start(j) ==
    /\ active = NoJob /\ worker[j] = "none" /\ disk[j] = NoFolder
    /\ active' = j
    /\ worker' = [worker EXCEPT ![j] = "starts"]
    /\ disk' = [disk EXCEPT ![j] = [dir |-> "whole", file |-> "running"]]
    /\ UNCHANGED <<aged, zip, load, sweep, told>>

ThreadStarts(j) ==
    /\ worker[j] = "starts"
    /\ worker' = [worker EXCEPT ![j] = "works"]
    /\ UNCHANGED <<active, disk, aged, zip, load, sweep, told>>

\* The export writes a line of its log, a message file, a medium.
Works(j) ==
    /\ worker[j] = "works"
    /\ Touched({j})
    /\ UNCHANGED <<active, worker, disk, load, sweep, told>>

BugFreed(j) == active
\* The slot is freed whether the final state could be stored or not.
Freed(j) == IF active = j THEN NoJob ELSE active

\* _finish_job
Finish(j, status) ==
    /\ worker' = [worker EXCEPT ![j] = "ended"]
    /\ active' = Freed(j)
    /\ \/ disk' = [disk EXCEPT ![j].file = status]
       \/ UNCHANGED disk
    /\ Touched({j})
    /\ UNCHANGED <<load, sweep, told>>

ThreadCannotStart(j) == worker[j] = "starts" /\ Finish(j, "error")

RunEnds(j) == worker[j] = "works" /\ \E status \in Finals : Finish(j, status)

-----------------------------------------------------------------------------
(* A job is looked at: the status of the active one comes from memory, that *)
(* of another one from its folder; one stored as running is settled.        *)

BugLeft(j) == There(j) /\ disk[j].file = "running"
\* Stored as running, and this process is not running it.
Left(j) == There(j) /\ disk[j].file = "running" /\ active # j

\* _settle_interrupted for the jobs js: of each, the new state may not be stored.
Settle(js) ==
    \E stored \in SUBSET js :
       /\ disk' = [j \in Jobs |-> IF j \in stored THEN [disk[j] EXCEPT !.file = "interrupted"]
                                                  ELSE disk[j]]
       /\ \E logged \in {stored, js} : Touched(logged)

Status(j) ==
    CASE Left(j) -> "interrupted"
      [] ~Left(j) /\ active = j -> "running"
      [] ~Left(j) /\ active # j -> IF disk[j].file = "none" THEN "archived" ELSE disk[j].file

\* The answer of the pages for one job: status, log.
Read(j) ==
    /\ There(j)
    /\ Settle(IF Left(j) THEN {j} ELSE {})
    /\ told' = [told EXCEPT ![j] = IF Status(j) \in Finals THEN Status(j) ELSE @]
    /\ UNCHANGED <<active, worker, load, sweep>>

-----------------------------------------------------------------------------
(* Download and delete. *)

Ended(j) == Status(j) # "running"

\* The job is read, and is not running.
AskZip(j) ==
    /\ load[j] = "none" /\ There(j) /\ Ended(j)
    /\ Settle(IF Left(j) THEN {j} ELSE {})
    /\ load' = [load EXCEPT ![j] = "asked"]
    /\ UNCHANGED <<active, worker, sweep, told>>

BugReusable(j) == zip[j].holds # "none"
Reusable(j) == zip[j].holds # "none" /\ zip[j].fresh

\* The download has the lock, and the folder is there.
Ready(j) == load[j] = "asked" /\ ZipLockFree /\ There(j)

SendKept(j) ==
    /\ Ready(j) /\ Reusable(j)
    /\ load' = [load EXCEPT ![j] = "none"]
    /\ UNCHANGED <<active, worker, disk, aged, zip, sweep, told>>

\* The list of files to pack is made.
Pack(j) ==
    /\ Ready(j) /\ ~Reusable(j)
    /\ load' = [load EXCEPT ![j] = IF active = j THEN "early" ELSE disk[j].dir]
    /\ UNCHANGED <<active, worker, disk, aged, zip, sweep, told>>

\* _build_zip has renamed the whole ZIP, and send_file opens it.  It may be older than what
\* was written to the folder after the last byte of it.
SendBuilt(j) ==
    /\ Builds(j)
    /\ \E holds \in IF load[j] = "swept" THEN {"whole", "cut"} ELSE {load[j]}, fresh \in BOOLEAN :
         zip' = [zip EXCEPT ![j] = [holds |-> holds, fresh |-> fresh,
                                    stray |-> sweep.at # "rests" \/ load[j] = "swept"]]
    /\ load' = [load EXCEPT ![j] = "none"]
    /\ UNCHANGED <<active, worker, disk, aged, sweep, told>>

\* The folder is gone, the ZIP would be too large, a file vanished, the disk is full.
LoadFails(j) ==
    /\ load[j] # "none"
    /\ load' = [load EXCEPT ![j] = "none"]
    /\ UNCHANGED <<active, worker, disk, aged, zip, sweep, told>>

MayDelete(j) == There(j) /\ active # j /\ ZipLockFree

\* The ZIP goes, unless the system refuses or the process ends before.
UnlinkZip(j) ==
    \/ zip' = [zip EXCEPT ![j] = NoZip]
    \/ zip[j] # NoZip /\ zip' = [zip EXCEPT ![j].stray = TRUE]

\* rmtree fails half way: what it did is done, the ZIP stays.
DeleteFails(j) ==
    /\ MayDelete(j)
    /\ \E file \in {disk[j].file, "none"} :
          disk' = [disk EXCEPT ![j] = [dir |-> "cut", file |-> file]]
    /\ Touched({j})
    /\ UNCHANGED <<active, worker, load, sweep, told>>

Delete(j) ==
    /\ MayDelete(j)
    /\ disk' = [disk EXCEPT ![j] = NoFolder]
    /\ aged' = aged \ {j}
    /\ UnlinkZip(j)
    /\ UNCHANGED <<active, worker, load, sweep, told>>

-----------------------------------------------------------------------------
(* The retention sweep, at the start of the application and once an hour.  *)

\* Nothing under the folder changed for a long time.  A sweep is shorter than that.
Ages(j) ==
    /\ There(j) /\ j \notin aged /\ sweep.at = "rests"
    /\ aged' = aged \cup {j}
    /\ UNCHANGED <<active, worker, disk, zip, load, sweep, told>>

\* load_jobs
SweepSettles ==
    /\ sweep.at = "rests"
    /\ Settle({j \in Jobs : Left(j)})
    /\ sweep' = [sweep EXCEPT !.at = "settled"]
    /\ UNCHANGED <<active, worker, load, told>>

\* The active job is noted ...
SweepNotes ==
    /\ sweep.at = "settled"
    /\ sweep' = [sweep EXCEPT !.at = "noted", !.spared = active]
    /\ UNCHANGED <<active, worker, disk, aged, zip, load, told>>

\* ... and then, without the lock, the directory is listed: a job that was started
\* meanwhile is in the list, and is not the one noted.
SweepLists ==
    /\ sweep.at = "noted"
    /\ sweep' = [sweep EXCEPT !.at = "folders", !.folders = {j \in Jobs : There(j)},
                    !.zips = {j \in Jobs : zip[j] # NoZip}]
    /\ UNCHANGED <<active, worker, disk, aged, zip, load, told>>

\* No lock keeps the sweep from files that are being packed.
SweptAway(j) == load' = IF Builds(j) THEN [load EXCEPT ![j] = "swept"] ELSE load

BugExpired(j) == There(j) /\ j # sweep.spared
\* expired_folder: not the job noted, and nothing under it changed for a long time.
Expired(j) == There(j) /\ j # sweep.spared /\ j \in aged

\* A folder that is not expired is passed over ...
SweepPasses(j) ==
    /\ sweep.at = "folders" /\ sweep.cutting = NoJob /\ j \in sweep.folders
    /\ ~Expired(j)
    /\ sweep' = [sweep EXCEPT !.folders = @ \ {j}]
    /\ UNCHANGED <<active, worker, disk, aged, zip, load, told>>

\* ... one that is, is deleted, file by file, and job.json with the first or later ...
SweepCuts(j) ==
    /\ sweep.at = "folders" /\ sweep.cutting = NoJob /\ j \in sweep.folders
    /\ Expired(j)
    /\ \E file \in {disk[j].file, "none"} :
          disk' = [disk EXCEPT ![j] = [dir |-> "cut", file |-> file]]
    /\ Touched({j})
    /\ sweep' = [sweep EXCEPT !.folders = @ \ {j}, !.cutting = j]
    /\ SweptAway(j)
    /\ UNCHANGED <<active, worker, told>>

\* ... to the end, unless the system refuses.
SweepCut(j) ==
    /\ sweep.cutting = j
    /\ \/ disk' = [disk EXCEPT ![j] = NoFolder] /\ aged' = aged \ {j}
       \/ UNCHANGED <<disk, aged>>
    /\ sweep' = [sweep EXCEPT !.cutting = NoJob]
    /\ SweptAway(j)
    /\ UNCHANGED <<active, worker, zip, told>>

SweepTurnsToZips ==
    /\ sweep.at = "folders" /\ sweep.folders = {} /\ sweep.cutting = NoJob
    /\ sweep' = [sweep EXCEPT !.at = "zips", !.spared = NoJob]
    /\ UNCHANGED <<active, worker, disk, aged, zip, load, told>>

Orphaned(j) == ~There(j)

\* A listed ZIP goes when its folder is gone, or when it is old itself.
SweepZip(j) ==
    /\ sweep.at = "zips" /\ j \in sweep.zips
    /\ UnlinkZip(j) \/ (~Orphaned(j) /\ UNCHANGED zip)
    /\ sweep' = [sweep EXCEPT !.zips = @ \ {j}]
    /\ UNCHANGED <<active, worker, disk, aged, load, told>>

SweepEnds ==
    /\ sweep.at = "zips" /\ sweep.zips = {}
    /\ sweep' = Resting
    /\ UNCHANGED <<active, worker, disk, aged, zip, load, told>>

\* The process ends and another one starts: what was in memory is lost.
Restart ==
    /\ active' = NoJob
    /\ worker' = [j \in Jobs |-> IF worker[j] = "none" THEN "none" ELSE "ended"]
    /\ load' = [j \in Jobs |-> "none"]
    /\ sweep' = Resting
    /\ zip' = [j \in Jobs |-> IF There(j) \/ zip[j] = NoZip THEN zip[j]
                             ELSE [zip[j] EXCEPT !.stray = TRUE]]
    /\ UNCHANGED <<disk, aged, told>>

Init ==
    /\ active = NoJob
    /\ worker = [j \in Jobs |-> "none"]
    /\ disk = [j \in Jobs |-> NoFolder]
    /\ aged = {}
    /\ zip = [j \in Jobs |-> NoZip]
    /\ load = [j \in Jobs |-> "none"]
    /\ sweep = Resting
    /\ told = [j \in Jobs |-> "none"]

Job(j) ==
    \/ StartFails(j) \/ Start(j) \/ ThreadStarts(j) \/ ThreadCannotStart(j)
    \/ Works(j) \/ RunEnds(j)
Request(j) ==
    \/ Read(j) \/ AskZip(j) \/ SendKept(j) \/ Pack(j) \/ SendBuilt(j) \/ LoadFails(j)
    \/ DeleteFails(j) \/ Delete(j)
Sweep ==
    \/ SweepSettles \/ SweepNotes \/ SweepLists \/ SweepTurnsToZips \/ SweepEnds
    \/ \E j \in Jobs : SweepPasses(j) \/ SweepCuts(j) \/ SweepCut(j) \/ SweepZip(j)

Next == (\E j \in Jobs : Job(j) \/ Request(j) \/ Ages(j)) \/ Sweep \/ Restart

Spec == Init /\ [][Next]_vars

-----------------------------------------------------------------------------
(* What the code promises. *)

\* "A running job is never removed": as long as a thread works for a job, the job is
\* the active one, its folder is whole and its file says running, whatever is deleted,
\* swept or settled meanwhile.  And the one slot is never held for a job whose thread is
\* gone: not when the thread cannot be started, and not when the final state cannot be
\* stored.
SlotAndFolder ==
    /\ \A j \in Jobs : worker[j] \in {"starts", "works"} =>
          active = j /\ disk[j] = [dir |-> "whole", file |-> "running"]
    /\ active # NoJob => worker[active] \in {"starts", "works"}

\* Who was told how a job ended is never told anything else, except that its state is
\* no longer known.
ToldIsKept ==
    \A j \in Jobs : told[j] # "none" /\ There(j) => Status(j) \in {told[j], "archived"}

\* A download sends what the folder holds: never what a job had before it ended, and
\* never a ZIP kept from before files of the folder were lost ("reused by later
\* downloads until the job folder changes").  "The ZIP of a job goes with its folder",
\* also when a download asks for one while the folder is about to be deleted.  Excepted
\* are a ZIP built while the sweep was under way, and one whose unlink failed.
ZipIsTheFolders ==
    /\ \A j \in Jobs :
          /\ load[j] \in Contents => load[j] = disk[j].dir
          /\ Ready(j) /\ Reusable(j) => zip[j].holds = disk[j].dir \/ zip[j].stray
    /\ sweep.at = "rests" => \A j \in Jobs : zip[j] # NoZip => There(j) \/ zip[j].stray
=============================================================================
