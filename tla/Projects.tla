------------------------------ MODULE Projects ------------------------------
(***************************************************************************)
(* Projects, their keywords, domains and entities, the requests that change *)
(* them, and the crawl that matches every new hit against the active ones.  *)
(* A request looks at the project first and changes the database later;     *)
(* between the two, and between two projects of a match, others may act.    *)
(* Every call of the database may fail.  Names, colours, tags, thresholds   *)
(* and the order of lists are left out; ids are not used twice.             *)
(***************************************************************************)
EXTENDS FiniteSets, Sequences, SequencesExt

CONSTANTS
    ProjectIds,     \* projects there may be
    RowIds,         \* rows of project_keywords, _domains and _entities
    People,         \* users, of whom
    Administrators, \*   these are administrators
    ProjectReqs,    \* requests at a time
    Values,         \* [name -> [kind, refused]]: what a row may say
    NewHits,        \* hits the crawl saves
    Meets           \* [NewHits -> names of Values the hit meets]

ASSUME ProjectAssumption ==
    /\ Administrators \subseteq People
    /\ \A n \in DOMAIN Values : Values[n].kind \in {"keyword", "pattern", "domain", "entity"}
    /\ \A h \in NewHits : Meets[h] \subseteq DOMAIN Values

VARIABLES
    project,    \* project[p]: its status and owner
    configRow,  \* configRow[r]: the project and the value of a row
    projectHits,\* rows of project_hits: project, hit and what it was matched on
    ask,        \* ask[q]: a request, and what it is about to do
    match,      \* the crawl's match of a hit: the projects as loaded, the tables still
                \*   to read, and the projects still to match
    matched     \* history: matched[h], whether and against what h was matched

projectVars == <<project, configRow, projectHits, ask, match, matched>>

NoProject == [status |-> "none"]
NoConfigRow == [project |-> "none"]
\* An archived project is like a paused one.
ProjectStatuses == {"active", "paused"}
NoAsk == [does |-> "nothing"]
NoMatch == [hit |-> "none"]
Nothing == [p \in {} |-> {}]

\* A project of an older release has a pattern that is refused today.
ProjectsInit ==
    /\ \E p \in ProjectIds, u \in People, r \in RowIds, n \in DOMAIN Values :
          /\ project = [q \in ProjectIds |->
                           IF q = p THEN [status |-> "active", owner |-> u] ELSE NoProject]
          /\ configRow = [s \in RowIds |->
                             IF s = r THEN [project |-> p, value |-> n] ELSE NoConfigRow]
    /\ projectHits = {} /\ ask = [q \in ProjectReqs |-> NoAsk]
    /\ match = NoMatch /\ matched = [h \in NewHits |-> [is |-> "new", by |-> Nothing]]

Exists(p) == project[p] \notin {NoProject, [status |-> "deleted"]}

\* _check_project_access: the project is there, and its owner or an administrator asks.
Access(user, p) ==
    Exists(p) /\ (user \in Administrators \/ project[p].owner = user)

Asks(q, to) == ask' = [ask EXCEPT ![q] = to]
Answered(q) == Asks(q, NoAsk)

\* A request that passes the check; any other changes nothing.
AskProject(q) ==
    /\ ask[q] = NoAsk
    /\ \E user \in People, p \in ProjectIds : Access(user, p) /\
          \/ Asks(q, [does |-> "delete", project |-> p])
          \/ \E s \in ProjectStatuses : Asks(q, [does |-> "status", project |-> p, status |-> s])
          \/ \E n \in DOMAIN Values : Asks(q, [does |-> "add", project |-> p, value |-> n])
          \/ \E r \in RowIds : Asks(q, [does |-> "remove", project |-> p, row |-> r])
    /\ UNCHANGED <<project, configRow, projectHits, match, matched>>

CreateProject(user) ==
    /\ \E p \in ProjectIds : /\ project[p] = NoProject
                             /\ project' = [project EXCEPT ![p] =
                                               [status |-> "active", owner |-> user]]
    /\ UNCHANGED <<configRow, projectHits, ask, match, matched>>

\* update_project: nothing for a project that is gone.
SetStatus(q) ==
    /\ ask[q].does = "status" /\ Answered(q)
    /\ project' = IF Exists(ask[q].project)
                  THEN [project EXCEPT ![ask[q].project].status = ask[q].status]
                  ELSE project
    /\ UNCHANGED <<configRow, projectHits, match, matched>>

\* add_project_keyword, _domain, _entity: also when the project is gone by now.  The
\* route refuses a pattern that the check of today does not accept.
AddRow(q) ==
    /\ ask[q].does = "add" /\ Answered(q)
    /\ IF Values[ask[q].value].refused
       THEN UNCHANGED configRow
       ELSE \E r \in RowIds :
               /\ configRow[r] = NoConfigRow
               /\ configRow' = [configRow EXCEPT ![r] = [project |-> ask[q].project,
                                                         value |-> ask[q].value]]
    /\ UNCHANGED <<project, projectHits, match, matched>>

\* delete_project_keyword, _domain, _entity: a row of this project, or none.
RemoveRow(q) ==
    /\ ask[q].does = "remove" /\ Answered(q)
    /\ configRow' = IF configRow[ask[q].row].project = ask[q].project
                    THEN [configRow EXCEPT ![ask[q].row] = NoConfigRow] ELSE configRow
    /\ UNCHANGED <<project, projectHits, match, matched>>

\* delete_project: in one transaction, with everything that is the project's.
DeleteProject(q) ==
    /\ ask[q].does = "delete" /\ Answered(q)
    /\ LET p == ask[q].project IN
       /\ project' = [project EXCEPT ![p] = [status |-> "deleted"]]
       /\ configRow' = [r \in RowIds |->
                           IF configRow[r].project = p THEN NoConfigRow ELSE configRow[r]]
       /\ projectHits' = {x \in projectHits : x.project # p}
    /\ UNCHANGED <<match, matched>>

RequestFails(q) ==
    /\ ask[q] # NoAsk /\ Answered(q)
    /\ UNCHANGED <<project, configRow, projectHits, match, matched>>

\* get_active_projects_with_config: what the match of one hit goes by.
RowsOf(p) == {configRow[r].value : r \in {s \in RowIds : configRow[s].project = p}}
ActiveProjects == {p \in ProjectIds : Exists(p) /\ project[p].status = "active"}

\* The kinds of what the rows of a project_ table say, in the order the tables are read.
Tables == <<{"keyword", "pattern"}, {"domain"}, {"entity"}>>

\* The active projects are read first, and then each table of each, with a query of its own.
LoadProjects(h) ==
    /\ match = NoMatch /\ matched[h].is = "new"
    /\ matched' = [matched EXCEPT ![h].is = "begun"]
    /\ \E order \in SetToSeqs(ActiveProjects) :
          match' = [hit |-> h, todo |-> order, loaded |-> [p \in ActiveProjects |-> {}],
                    unread |-> FlattenSeq([i \in DOMAIN order |->
                                  [t \in DOMAIN Tables |-> <<order[i], Tables[t]>>]])]
    /\ UNCHANGED <<project, configRow, projectHits, ask>>

LoadRows ==
    /\ match # NoMatch /\ match.unread # <<>>
    /\ LET p == Head(match.unread)[1]
           kinds == Head(match.unread)[2] IN
       match' = [match EXCEPT !.unread = Tail(@),
                              !.loaded[p] = @ \cup {n \in RowsOf(p) : Values[n].kind \in kinds}]
    /\ UNCHANGED <<project, configRow, projectHits, ask, matched>>

\* The values of a kind that the hit meets; a pattern is checked again, and skipped when
\* it is refused.
Met(h, names, kinds) ==
    {n \in names : Values[n].kind \in kinds /\ n \in Meets[h] /\ ~Values[n].refused}

\* A keyword goes before a domain, a domain before an entity.
MatchedOn(h, names) ==
    IF Met(h, names, {"keyword", "pattern"}) # {} THEN "keyword"
    ELSE IF Met(h, names, {"domain"}) # {} THEN "domain"
    ELSE IF Met(h, names, {"entity"}) # {} THEN "entity"
    ELSE "nothing"

BugRestOf(todo, done) == IF done THEN <<>> ELSE Tail(todo)
RestOf(todo, done) == Tail(todo)

\* create_project_hit, unless the project has the hit; also for a project that is gone.
MatchNext ==
    /\ match # NoMatch /\ match.unread = <<>> /\ match.todo # <<>>
    /\ LET p == Head(match.todo)
           on == MatchedOn(match.hit, match.loaded[p])
           has == \E x \in projectHits : x.project = p /\ x.hit = match.hit IN
       /\ match' = [match EXCEPT !.todo = RestOf(match.todo, on # "nothing")]
       /\ projectHits' = IF on = "nothing" \/ has THEN projectHits
                         ELSE projectHits \cup {[project |-> p, hit |-> match.hit, on |-> on]}
    /\ UNCHANGED <<project, configRow, ask, matched>>

MatchEnds ==
    /\ match # NoMatch /\ match.unread = <<>> /\ match.todo = <<>>
    /\ matched' = [matched EXCEPT ![match.hit] = [is |-> "done", by |-> match.loaded]]
    /\ match' = NoMatch
    /\ UNCHANGED <<project, configRow, projectHits, ask>>

\* Any error ends the match of this hit, for the projects still to do as well.
MatchFails ==
    /\ match # NoMatch /\ match' = NoMatch
    /\ UNCHANGED <<project, configRow, projectHits, ask, matched>>

ProjectsNext ==
    \/ \E user \in People : CreateProject(user)
    \/ \E q \in ProjectReqs :
          \/ AskProject(q) \/ SetStatus(q) \/ AddRow(q) \/ RemoveRow(q)
          \/ DeleteProject(q) \/ RequestFails(q)
    \/ \E h \in NewHits : LoadProjects(h)
    \/ LoadRows \/ MatchNext \/ MatchEnds \/ MatchFails

ProjectsSpec == ProjectsInit /\ [][ProjectsNext]_projectVars

-----------------------------------------------------------------------------
\* When a hit has been matched, it is recorded once in every project that was active when
\* the match began and whose settings, as they were when their table was read, it meets, on
\* the first ground of keyword, domain and entity, and in no other; whatever is changed,
\* paused or deleted while the match goes on.  What a deleted project is left with is out of reach.
MatchedIsRecorded ==
    \A h \in NewHits : matched[h].is = "done" =>
        {x \in projectHits : x.hit = h /\ Exists(x.project)} =
            {[project |-> p, hit |-> h, on |-> MatchedOn(h, matched[h].by[p])] :
                p \in {q \in DOMAIN matched[h].by :
                          Exists(q) /\ MatchedOn(h, matched[h].by[q]) # "nothing"}}
=============================================================================
