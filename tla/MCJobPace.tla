------------------------------ MODULE MCJobPace ------------------------------
(***************************************************************************)
(* HeavyJobs, IPLookup, DnsRecon, Settings and Projects, that TLC checks in *)
(* one run.  They share no state: the slot that DnsRecon needs is in        *)
(* HeavyJobs.  A behaviour is one of the five, chosen at its start, and the *)
(* others do not move.                                                      *)
(***************************************************************************)
EXTENDS MCHeavyJobs, IPLookup, DnsRecon, Settings, Projects

CONSTANTS l1, l2, l3

\* Two lookups of one address, and one of another.
ThreeLookups == {l1, l2, l3}
TwoAddresses == l1 :> "x" @@ l2 :> "x" @@ l3 :> "y"

\* What project rows may say: a word, a pattern that is refused today, and a domain.  The
\* hit meets all of them.
SomeValues ==
    "word" :> [kind |-> "keyword", refused |-> FALSE]
    @@ "old" :> [kind |-> "pattern", refused |-> TRUE]
    @@ "site" :> [kind |-> "domain", refused |-> FALSE]
AllMeet == [h \in NewHits |-> DOMAIN SomeValues]

VARIABLE part   \* the model whose behaviour this is

\* A part that does not run begins in one state; which project and which row are there at
\* first is the same under their names.
PartsInit ==
    /\ Init /\ LookupInit /\ ReconInit /\ SettingsInit /\ ProjectsInit
    /\ part \in {"jobs", "lookups", "recon", "settings", "projects"}
    /\ part # "recon" => located = {}
    /\ configRow["x1"].project = "p1"
    /\ part # "projects" => configRow["x1"].value = "word"

\* A recon ends, and so does what is asked of projects when there are no ids left.
PartEnded ==
    \/ part = "recon" /\ reconAt \in {"complete", "over"}
    \/ part = "projects" /\ \A p \in ProjectIds : project[p] # NoProject

PartsNext ==
    \/ part = "jobs" /\ Next /\ UNCHANGED <<lookupVars, reconVars, settingVars, projectVars, part>>
    \/ part = "lookups" /\ LookupNext /\ UNCHANGED <<vars, reconVars, settingVars, projectVars, part>>
    \/ part = "recon" /\ ReconNext /\ UNCHANGED <<vars, lookupVars, settingVars, projectVars, part>>
    \/ part = "settings" /\ SettingsNext /\ UNCHANGED <<vars, lookupVars, reconVars, projectVars, part>>
    \/ part = "projects" /\ ProjectsNext
       /\ UNCHANGED <<vars, lookupVars, reconVars, settingVars, part>>
    \/ PartEnded /\ UNCHANGED <<vars, lookupVars, reconVars, settingVars, projectVars, part>>

PartsSpec ==
    PartsInit /\ [][PartsNext]_<<vars, lookupVars, reconVars, settingVars, projectVars, part>>
=============================================================================
