------------------------------ MODULE MCSignIn ------------------------------
(***************************************************************************)
(* SignIn and Migrations, that TLC checks in one run: the users, and the    *)
(* schema they are stored in.  A behaviour is of one part, chosen at its    *)
(* start, and the others do not move:                                       *)
(*   codes     one browser at a time spends codes and replaces the factor;  *)
(*             no failure is noted, so that no lock stands in the way;      *)
(*   sessions  both browsers, two codes, two versions, and a factor that    *)
(*             is not replaced;                                             *)
(*   locks     failures of one browser at a time are noted;                 *)
(*   schema    migrations.                                                  *)
(***************************************************************************)
EXTENDS SignIn, Migrations, TLC

Symmetry == Permutations(Browsers) \cup Permutations(Requests) \cup Permutations(Secrets)

VARIABLE part   \* the model whose behaviour this is

\* A part that does not run begins in one state.
PartsInit ==
    /\ Init /\ part \in {"codes", "sessions", "locks", "schema"}
    /\ IF part = "schema" THEN MigrationsInit
       ELSE /\ db = [mark |-> 0, schema |-> NoSchema]
            /\ start = {} /\ inTxn = {} /\ ran = {} /\ applied = <<1, 1>>
            /\ lockedBy = NoStarter /\ guardedBy = NoStarter /\ hasStorage = TRUE /\ downgrades = 0

\* A request will be at one of these, and one browser at most will be in use.
Will(ats) == \E r \in Requests : req'[r].at \in ats
OneBrowser ==
    \A b, c \in {x \in Browsers : \/ cookie'[x] # NoCookie
                                  \/ \E r \in Requests : req'[r].from = x} : b = c

PartsNext ==
    \/ /\ part = "codes" /\ Next /\ OneBrowser /\ ~Will({"wrong"})
       /\ UNCHANGED <<schemaVars, part>>
    \/ /\ part = "sessions" /\ Next /\ ~Will({"wrong"})
       /\ Cardinality(spent') <= 2 /\ again' = {} /\ account'.version <= 2
       /\ Enrolled => ~Will({"offer", "confirm"})
       /\ UNCHANGED <<schemaVars, part>>
    \/ /\ part = "locks" /\ Next /\ OneBrowser /\ ~Will({"change"})
       /\ Enrolled => ~Will({"offer", "confirm"})
       /\ UNCHANGED <<schemaVars, part>>
    \/ part = "schema" /\ MigrationsNext /\ UNCHANGED <<vars, part>>

PartsSpec == PartsInit /\ [][PartsNext]_<<vars, schemaVars, part>>
=============================================================================
