---------------------------- MODULE SettingsFile ----------------------------
(***************************************************************************)
(* What a file of settings promises: it is a set of entries, a change is    *)
(* made to all of what is there at that moment, in one step, and a request  *)
(* is told that it went well when its change is made.  See file_store.py,   *)
(* lines 1-20.                                                              *)
(***************************************************************************)
CONSTANTS Writers, Entries, Acceptable  \* requests; entries, and those that may be added

VARIABLES
    content,    \* the entries of the file
    wish,       \* wish[w]: what w wants, and whether it is done
    shown       \* what the last reader was shown

NoWish == [at |-> "none", add |-> {}, remove |-> {}]

FileInit == wish = [w \in Writers |-> NoWish] /\ shown = content

\* w wants some change of acceptable entries.
Ask(w) ==
    /\ wish[w] = NoWish /\ wish'[w].at = "asked"
    /\ wish'[w].add \subseteq Acceptable /\ wish'[w].remove \subseteq Entries
    /\ wish' = [wish EXCEPT ![w] = wish'[w]]
    /\ UNCHANGED <<content, shown>>

Do(w) ==
    /\ wish[w].at = "asked"
    /\ content' = (content \ wish[w].remove) \cup wish[w].add
    /\ wish' = [wish EXCEPT ![w].at = "done"]
    /\ UNCHANGED shown

\* The request is told that it went well, or that it failed and has changed nothing.
Tell(w) ==
    /\ wish[w].at \in {"done", "asked"}
    /\ wish' = [wish EXCEPT ![w] = NoWish]
    /\ UNCHANGED <<content, shown>>

Show == shown' = content /\ UNCHANGED <<content, wish>>

\* The dashboard stops; nobody is told anything.
Stop == wish' = [w \in Writers |-> NoWish] /\ UNCHANGED <<content, shown>>

FileNext ==
    \/ \E w \in Writers : Ask(w) \/ Do(w) \/ Tell(w)
    \/ Show \/ Stop

FileSpec == FileInit /\ [][FileNext]_<<content, wish, shown>>
=============================================================================
