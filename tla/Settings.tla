------------------------------ MODULE Settings ------------------------------
(***************************************************************************)
(* A file of settings the dashboard rewrites: the keywords with their       *)
(* categories, or the seed list.  Requests of its threads change it under   *)
(* the lock of the file, over a temporary file; others, the crawl and the   *)
(* command line read it at any time.  Reading and writing may fail and the  *)
(* dashboard may die at any step.  What is not an entry (the settings block,*)
(* comments, the order) is left out.                                        *)
(***************************************************************************)
CONSTANTS
    Entries,        \* keywords in their categories, or URLs
    Valid,          \* those that validation accepts
    Bundled,        \* entries of the file that comes with the release
    Ransomware,     \* entries one button adds
    SettingReqs     \* requests at a time

ASSUME SettingsAssumption ==
    /\ Valid \subseteq Entries /\ Bundled \subseteq Entries /\ Ransomware \subseteq Valid
    /\ "absent" \notin Entries /\ "nobody" \notin SettingReqs

VARIABLES
    file,       \* entries of the file in the data directory, or Absent
    fileLock,   \* the request that holds its lock
    edit,       \* edit[w]: how far a request is, what it adds, removes and writes
    shown       \* what the last reader was given

settingVars == <<file, fileLock, edit, shown>>

Absent == {"absent"}
NoHolder == "nobody"
NoEdit == [at |-> "none", add |-> {}, remove |-> {}, text |-> {}]

EditSteps == {"none", "locks", "reads", "writes", "renames", "done"}

SettingsTypeOK ==
    /\ file = Absent \/ file \subseteq Entries
    /\ fileLock \in SettingReqs \cup {NoHolder}
    /\ edit \in [SettingReqs -> [at : EditSteps, add : SUBSET Valid,
                                 remove : SUBSET Entries, text : SUBSET Entries]]
    /\ shown \subseteq Entries

SettingsInit ==
    /\ file = Absent /\ fileLock = NoHolder /\ shown = Bundled
    /\ edit = [w \in SettingReqs |-> NoEdit]

EditGoes(w, to) == edit' = [edit EXCEPT ![w].at = to]

\* The file of the data directory, and until there is one the bundled file.
OnDisk == IF file = Absent THEN Bundled ELSE file

Wants(w, add, remove) ==
    /\ edit[w] = NoEdit
    /\ edit' = [edit EXCEPT ![w] = [at |-> "locks", add |-> add, remove |-> remove,
                                    text |-> {}]]
    /\ UNCHANGED <<file, fileLock, shown>>

\* One keyword, many of them, or seeds: one that is not valid refuses the request.
AddAll(w) == \E asked \in SUBSET Valid \ {{}} : Wants(w, asked, {})

\* A CSV file: what is not valid is skipped.
Import(w) == \E asked \in SUBSET Entries \ {{}} : Wants(w, asked \cap Valid, {})

AddRansomware(w) == Wants(w, Ransomware, {})

\* Removal goes by what is stored, valid or not.
RemoveEntry(w) == \E e \in Entries : Wants(w, {}, {e})

BugFree == TRUE
Free == fileLock = NoHolder

TakeLock(w) ==
    /\ edit[w].at = "locks" /\ Free
    /\ fileLock' = w /\ EditGoes(w, "reads")
    /\ UNCHANGED <<file, shown>>

ReadFile(w) ==
    /\ edit[w].at = "reads"
    /\ edit' = [edit EXCEPT ![w].at = "writes", ![w].text = OnDisk]
    /\ UNCHANGED <<file, fileLock, shown>>

Changed(w) == (edit[w].text \ edit[w].remove) \cup edit[w].add

ReleaseFile(w) == fileLock' = IF fileLock = w THEN NoHolder ELSE fileLock

\* Nothing to change: nothing is written.
KeepFile(w) ==
    /\ edit[w].at = "writes" /\ Changed(w) = edit[w].text
    /\ EditGoes(w, "done") /\ ReleaseFile(w)
    /\ UNCHANGED <<file, shown>>

\* A temporary file is written and synced, the file stays as it is ...
WriteTemp(w) ==
    /\ edit[w].at = "writes" /\ Changed(w) # edit[w].text
    /\ EditGoes(w, "renames")
    /\ UNCHANGED <<file, fileLock, shown>>

\* ... and is replaced in one step.
Rename(w) ==
    /\ edit[w].at = "renames"
    /\ file' = Changed(w) /\ EditGoes(w, "done") /\ ReleaseFile(w)
    /\ UNCHANGED shown

\* The temporary file is removed, the lock released and the request told.
EditFails(w) ==
    /\ edit[w].at \in {"locks", "reads", "writes", "renames"}
    /\ edit' = [edit EXCEPT ![w] = NoEdit] /\ ReleaseFile(w)
    /\ UNCHANGED <<file, shown>>

TellDone(w) ==
    /\ edit[w].at = "done"
    /\ edit' = [edit EXCEPT ![w] = NoEdit]
    /\ UNCHANGED <<file, fileLock, shown>>

\* _load_keywords, _load_seeds, the crawl and the command line.
ReadSettings ==
    /\ shown' = OnDisk
    /\ UNCHANGED <<file, fileLock, edit>>

\* The dashboard dies, between any two steps, and is started again.
DashboardDies ==
    /\ edit' = [w \in SettingReqs |-> NoEdit] /\ fileLock' = NoHolder
    /\ UNCHANGED <<file, shown>>

SettingsNext ==
    \/ \E w \in SettingReqs :
          \/ AddAll(w) \/ Import(w) \/ AddRansomware(w) \/ RemoveEntry(w)
          \/ TakeLock(w) \/ ReadFile(w) \/ KeepFile(w) \/ WriteTemp(w)
          \/ Rename(w) \/ EditFails(w) \/ TellDone(w)
    \/ ReadSettings \/ DashboardDies

SettingsSpec == SettingsInit /\ [][SettingsNext]_settingVars

-----------------------------------------------------------------------------
WishOf(w) ==
    [at |-> CASE edit[w].at = "none" -> "none"
              [] edit[w].at = "done" -> "done"
              [] OTHER -> "asked",
     add |-> edit[w].add, remove |-> edit[w].remove]

Wish == [w \in SettingReqs |-> WishOf(w)]

Abstract == INSTANCE SettingsFile
    WITH Writers <- SettingReqs, Acceptable <- Valid, content <- OnDisk, wish <- Wish

\* Every change of a request that was answered is in the file, made to what was there at
\* that moment, none is lost to another request, and a reader is never shown half of a
\* file: though the file is read, changed and written in steps, several requests run at a
\* time and the dashboard may die between any two steps.
ChangesAreAtomic == Abstract!FileSpec
=============================================================================
