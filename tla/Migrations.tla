----------------------------- MODULE Migrations -----------------------------
(***************************************************************************)
(* The database schema and its revisions.  Whoever makes a Storage brings   *)
(* the schema to the newest revision: threads of the dashboard, that share   *)
(* one Storage, and commands, that have their own.  The command              *)
(* db-downgrade takes the schema back.  On PostgreSQL a run is one           *)
(* transaction under an advisory lock; it may fail at any step, or its       *)
(* process die.  Rows, indexes (but one) and the types of columns are left   *)
(* out.                                                                      *)
(***************************************************************************)
EXTENDS Naturals, FiniteSets

CONSTANTS
    Starters,       \* threads of the dashboard and commands that want a Storage
    DashThreads,    \* those of the dashboard
    MaxDowngrades   \* bound: downgrades in a behaviour

NoStarter == "nobody"

ASSUME MigrationAssumption ==
    DashThreads \subseteq Starters /\ NoStarter \notin Starters /\ MaxDowngrades \in Nat

VARIABLES
    db,         \* the database, as committed
    start,      \* start[a]: how far a is
    inTxn,      \* inTxn[a]: the database as the transaction of a sees it
    ran,        \* ran[a]: the revisions that transaction has applied, or undone
    lockedBy,   \* who holds the advisory lock
    guardedBy,  \* the thread that holds _storage_lock
    hasStorage, \* the dashboard has its Storage
    applied,    \* history: applied[r], how often revision r is applied to db
    downgrades  \* downgrades so far

schemaVars ==
    <<db, start, inTxn, ran, lockedBy, guardedBy, hasStorage, applied, downgrades>>

Revisions == {1, 2}
Later == 3          \* a revision of a newer release
NewestRevision == 2 \* head()

\* The tables of the models.
AccountTables == {"users", "user_security", "auth_events", "auth_throttle"}
CrawlTables == {"crawl_sessions", "crawled_pages", "keyword_hits"}
InvestigationTables ==
    {"investigations", "investigation_targets", "ip_investigations", "dns_investigations"}
ProjectTables ==
    {"projects", "project_keywords", "project_domains", "project_entities", "project_hits"}
IntelTables == {"custom_intel", "quick_scan_sessions", "quick_scan_findings"}
ModelTables ==
    AccountTables \cup CrawlTables \cup InvestigationTables \cup ProjectTables \cup IntelTables

\* Two of them have columns that a revision has changed.
Heartbeat == {"heartbeat_at", "owner", "error"}
ModelSchema == [tables |-> ModelTables, crawlColumns |-> Heartbeat, oauth |-> {}]

\* Revision 0001 in full: those and two more.
Pastes == {"paste_hits", "seen_pastes"}
BaselineTables == ModelTables \cup Pastes

OAuth == {"oauth_provider", "oauth_id", "ix_users_oauth"}
BaselineSchema == [tables |-> BaselineTables, crawlColumns |-> {}, oauth |-> OAuth]

NoSchema == [tables |-> {}, crawlColumns |-> {}, oauth |-> {}]

\* 0001 creates the tables that are missing, in full, and leaves the others as they are.
Baseline(s) ==
    [tables |-> s.tables \cup BaselineTables,
     crawlColumns |-> s.crawlColumns,
     oauth |-> IF "users" \in s.tables THEN s.oauth ELSE OAuth]

\* 0002.
Release130(s) ==
    [tables |-> s.tables \ Pastes,
     crawlColumns |-> s.crawlColumns \cup Heartbeat,
     oauth |-> s.oauth \ OAuth]

\* The downgrade of 0002 restores the structure.
Release130Back(s) ==
    [tables |-> s.tables \cup Pastes,
     crawlColumns |-> s.crawlColumns \ Heartbeat,
     oauth |-> s.oauth \cup OAuth]

SchemaOf(revision) ==
    IF revision = 1 THEN BaselineSchema ELSE ModelSchema

\* What a release up to 1.2.0 may have left: some of the tables, with no mark; the users
\* table with or without the index, or without what OAuth needed.
OldSchemas ==
    {s \in [tables : {BaselineTables \ missing :
                         missing \in SUBSET {"users", "crawl_sessions", "paste_hits"}},
            crawlColumns : {{}}, oauth : {{}, OAuth \ {"ix_users_oauth"}, OAuth}] :
        "users" \notin s.tables => s.oauth = {}}

Databases ==
    {[mark |-> 0, schema |-> s] : s \in OldSchemas \cup {NoSchema}}
    \cup {[mark |-> r, schema |-> SchemaOf(r)] : r \in Revisions \cup {Later}}

MigrationsInit ==
    /\ db \in Databases
    /\ start = [a \in Starters |-> "out"]
    /\ inTxn = [a \in Starters |-> db] /\ ran = [a \in Starters |-> {}]
    /\ lockedBy = NoStarter /\ guardedBy = NoStarter /\ hasStorage = FALSE
    /\ applied = [r \in Revisions |-> IF r <= db.mark THEN 1 ELSE 0]
    /\ downgrades = 0

StartGoes(a, to) == start' = [start EXCEPT ![a] = to]

\* get_storage: with a Storage there is nothing to do; without, the lock is taken and
\* the question asked again.  A command makes its own.
AskStorage(a) ==
    /\ start[a] = "out"
    /\ StartGoes(a, CASE a \notin DashThreads -> "peeks"
                      [] hasStorage -> "ready"
                      [] OTHER -> "guards")
    /\ UNCHANGED <<db, inTxn, ran, lockedBy, guardedBy, hasStorage, applied, downgrades>>

Guard(a) ==
    /\ start[a] = "guards" /\ guardedBy = NoStarter
    /\ IF hasStorage
       THEN StartGoes(a, "ready") /\ UNCHANGED guardedBy
       ELSE StartGoes(a, "peeks") /\ guardedBy' = a
    /\ UNCHANGED <<db, inTxn, ran, lockedBy, hasStorage, applied, downgrades>>

\* The Storage is made; the dashboard keeps it.
Made(a) ==
    /\ StartGoes(a, "ready")
    /\ hasStorage' = (hasStorage \/ a \in DashThreads)
    /\ guardedBy' = IF guardedBy = a THEN NoStarter ELSE guardedBy

\* migrate: nothing is locked when the database is at the newest revision.
Peek(a) ==
    /\ start[a] = "peeks"
    /\ IF db.mark = NewestRevision
       THEN Made(a)
       ELSE StartGoes(a, "locks") /\ UNCHANGED <<hasStorage, guardedBy>>
    /\ UNCHANGED <<db, inTxn, ran, lockedBy, applied, downgrades>>

BugMayLock == TRUE
MayLock == lockedBy = NoStarter

Lock(a) ==
    /\ start[a] \in {"locks", "locks to go back"} /\ MayLock
    /\ lockedBy' = a
    /\ StartGoes(a, IF start[a] = "locks" THEN "reads" ELSE "goes back")
    /\ inTxn' = [inTxn EXCEPT ![a] = db] /\ ran' = [ran EXCEPT ![a] = {}]
    /\ UNCHANGED <<db, guardedBy, hasStorage, applied, downgrades>>

Unlock(a) == lockedBy' = IF lockedBy = a THEN NoStarter ELSE lockedBy

\* The revision is read again under the lock.
Reread(a) ==
    /\ start[a] = "reads"
    /\ LET seen == inTxn[a] IN
       \/ seen.mark = NewestRevision /\ Made(a) /\ Unlock(a)
       \/ /\ seen.mark # NewestRevision
          /\ StartGoes(a, IF seen.mark = 0 /\ seen.schema.tables = {}
                          THEN "creates" ELSE "upgrades")
          /\ UNCHANGED <<hasStorage, guardedBy, lockedBy>>
    /\ UNCHANGED <<db, inTxn, ran, applied, downgrades>>

InTxn(a, mark, schema, revisions) ==
    /\ inTxn' = [inTxn EXCEPT ![a] = [mark |-> mark, schema |-> schema]]
    /\ ran' = [ran EXCEPT ![a] = @ \cup revisions]

\* An empty database gets the tables of the models and the mark of the newest revision.
CreateAll(a) ==
    /\ start[a] = "creates"
    /\ InTxn(a, NewestRevision, ModelSchema, Revisions) /\ StartGoes(a, "commits")
    /\ UNCHANGED <<db, lockedBy, guardedBy, hasStorage, applied, downgrades>>

\* Any other is taken from its revision to the next, up to the newest.
Upgrade(a) ==
    /\ start[a] = "upgrades"
    /\ LET schema == inTxn[a].schema IN
       \/ inTxn[a].mark = 0 /\ InTxn(a, 1, Baseline(schema), {1}) /\ UNCHANGED start
       \/ inTxn[a].mark = 1 /\ InTxn(a, 2, Release130(schema), {2}) /\ StartGoes(a, "commits")
    /\ UNCHANGED <<db, lockedBy, guardedBy, hasStorage, applied, downgrades>>

Commit(a) ==
    /\ start[a] = "commits"
    /\ db' = inTxn[a] /\ Unlock(a) /\ Made(a)
    /\ applied' = [r \in Revisions |-> applied[r] + IF r \in ran[a] THEN 1 ELSE 0]
    /\ UNCHANGED <<inTxn, ran, downgrades>>

\* The transaction is rolled back.  A newer revision than the code knows is an error.
Fail(a) ==
    /\ start[a] \in {"peeks", "locks", "reads", "creates", "upgrades", "commits",
                     "locks to go back", "goes back", "commits back"}
    /\ StartGoes(a, "out") /\ Unlock(a)
    /\ guardedBy' = IF guardedBy = a THEN NoStarter ELSE guardedBy
    /\ UNCHANGED <<db, inTxn, ran, hasStorage, applied, downgrades>>

\* db-downgrade, with the Storage of the command.
AskDowngrade(a) ==
    /\ start[a] = "ready" /\ a \notin DashThreads /\ downgrades < MaxDowngrades
    /\ StartGoes(a, "locks to go back") /\ downgrades' = downgrades + 1
    /\ UNCHANGED <<db, inTxn, ran, lockedBy, guardedBy, hasStorage, applied>>

\* To 0001, or to the revision that is there.  Before 0001 there is nothing: that fails,
\* and what it has undone by then is rolled back.
GoBack(a) ==
    /\ start[a] = "goes back" /\ inTxn[a].mark \in Revisions
    /\ \/ /\ inTxn[a].mark = 2
          /\ InTxn(a, 1, Release130Back(inTxn[a].schema), {2})
       \/ UNCHANGED <<inTxn, ran>>
    /\ StartGoes(a, "commits back")
    /\ UNCHANGED <<db, lockedBy, guardedBy, hasStorage, applied, downgrades>>

CommitBack(a) ==
    /\ start[a] = "commits back"
    /\ db' = inTxn[a] /\ Unlock(a) /\ StartGoes(a, "over")
    /\ applied' = [r \in Revisions |-> applied[r] - IF r \in ran[a] THEN 1 ELSE 0]
    /\ UNCHANGED <<inTxn, ran, guardedBy, hasStorage, downgrades>>

\* A command ends; another begins.
CommandEnds(a) ==
    /\ start[a] \in {"ready", "over"} /\ a \notin DashThreads
    /\ StartGoes(a, "out")
    /\ UNCHANGED <<db, inTxn, ran, lockedBy, guardedBy, hasStorage, applied, downgrades>>

\* The dashboard dies, with what its threads were at, and is started again.
DashDies ==
    /\ start' = [a \in Starters |-> IF a \in DashThreads THEN "out" ELSE start[a]]
    /\ lockedBy' = (IF lockedBy \in DashThreads THEN NoStarter ELSE lockedBy)
    /\ guardedBy' = NoStarter /\ hasStorage' = FALSE
    /\ UNCHANGED <<db, inTxn, ran, applied, downgrades>>

MigrationsNext ==
    \/ \E a \in Starters :
          \/ AskStorage(a) \/ Guard(a) \/ Peek(a) \/ Lock(a) \/ Reread(a)
          \/ CreateAll(a) \/ Upgrade(a) \/ Commit(a) \/ Fail(a)
          \/ AskDowngrade(a) \/ GoBack(a) \/ CommitBack(a) \/ CommandEnds(a)
    \/ DashDies

MigrationsSpec == MigrationsInit /\ [][MigrationsNext]_schemaVars
-----------------------------------------------------------------------------
\* The mark of the database says which revisions have been applied to it, each of them
\* once, and the schema is the one of that revision: that of the models at the newest.
\* So it is wherever the database began, whoever starts at the same time as another,
\* fails or dies half way, and after the schema was taken back.
MarkIsTrue ==
    db.mark # 0 =>
        /\ db.schema = SchemaOf(db.mark)
        /\ \A r \in Revisions : applied[r] = IF r <= db.mark THEN 1 ELSE 0
=============================================================================
