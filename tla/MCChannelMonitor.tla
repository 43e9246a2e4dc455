-------------------------- MODULE MCChannelMonitor --------------------------
(***************************************************************************)
(* The instances of ChannelMonitor and of ChannelExport that TLC checks.    *)
(* They share no state: the job table knows of an export only that it ends. *)
(* A behaviour is one of the two, chosen at its start.  Nothing in the job  *)
(* table tells a job that was completed from one that ended in an error:    *)
(* here jobs end in an error, or are interrupted.  A download may wait      *)
(* while another one builds; no two of them wait.                           *)
(***************************************************************************)
EXTENDS ChannelMonitor, ChannelExport, TLC

VARIABLE part   \* the model whose behaviour this is

Symmetry == Permutations(Jobs)

PartsInit == Init /\ ExportInit /\ part \in {"jobs", "export"}

\* An export that has ended stays so; jobs never come to an end.
PartsNext ==
    \/ /\ part = "jobs" /\ Next /\ UNCHANGED <<exportVars, part>>
       /\ \A j \in Jobs : disk'[j].file # "completed"
       /\ \E j \in Jobs : load'[j] # "asked"
    \/ part = "export" /\ ExportNext /\ UNCHANGED <<vars, part>>
    \/ part = "export" /\ exportAt = "ended" /\ UNCHANGED <<vars, exportVars, part>>

PartsSpec == PartsInit /\ [][PartsNext]_<<vars, exportVars, part>>
=============================================================================
