------------------------------- MODULE Projects -------------------------------
(***************************************************************************)
(* Projects, the issues they hold, and the saved views that are the tabs   *)
(* of a project's board: dp-rest projects.rs, project_issues.rs,           *)
(* project_views.rs and the attach step of issues_write.rs, over the       *)
(* statements of store/projects.rs.                                        *)
(*                                                                         *)
(* A request is made once.  What a transaction has written is seen by the  *)
(* others at its commit, and only its row locks and its entries in unique  *)
(* indexes until then; so a transaction here is the steps that take its    *)
(* locks and the step that commits.  A project has two fields, a name and  *)
(* a status; a view has its name and its place.                            *)
(***************************************************************************)
EXTENDS Integers, Sequences, FiniteSets, TLC

CONSTANTS
    Ids,            \* projects
    Issues,         \* issues of the projects' org
    Foreign,        \* those of them that belong to another org
    Fresh,          \* those that do not exist yet
    Views,          \* saved views
    Names,          \* names of projects and of views
    Requests,
    Verbs           \* what requests ask for

ASSUME ProjectsAssumption ==
    /\ Foreign \subseteq Issues /\ Fresh \subseteq Issues
    /\ Verbs \subseteq {"create", "patch", "archive", "add", "remove",
                        "place", "lift", "add view", "edit view", "drop view",
                        "reorder", "new issue"}

VARIABLES
    project,    \* dp_projects
    issue,      \* state of each issue; "remote" is on GitHub only
    member,     \* dp_project_issues: issue -> project, for UNIQUE (issue_id)
    tab,        \* dp_project_views
    placed,     \* dp_project_view_issues
    pc,         \* where a request is
    form        \* what it asks and has read

rows == <<project, issue, member, tab, placed>>
vars == <<rows, pc, form>>

NoForm == [verb |-> "none"]
Statuses == {"active", "archived"}
Fields == [name : Names, status : Statuses]
ProjectRows == [name : Names, status : Statuses, version : Nat \ {0},
                issues : Nat, closed : Nat]
ViewRows == [project : Ids, name : Names, position : Nat]
\* What a request is answered.
Ended == {"done", "stale", "taken", "missing", "refused", "failed"}

Members(p) == {i \in DOMAIN member : member[i] = p}
Closed(S)  == {i \in S : issue[i] = "closed"}
ViewsOf(p) == {v \in DOMAIN tab : tab[v].project = p}
Locals     == {i \in Issues : issue[i] \in {"open", "closed"}}

\* What a page of a project shows and its version stands for.
Content(p) == [name |-> project[p].name, status |-> project[p].status,
               members |-> Members(p)]

TypeOK ==
    /\ DOMAIN project \subseteq Ids
    /\ \A p \in DOMAIN project : project[p] \in ProjectRows
    /\ issue \in [Issues -> {"absent", "remote", "open", "closed"}]
    /\ DOMAIN member \subseteq Locals \ Foreign
    /\ \A i \in DOMAIN member : member[i] \in DOMAIN project
    /\ DOMAIN tab \subseteq Views
    /\ \A v \in DOMAIN tab : tab[v] \in ViewRows /\ tab[v].project \in DOMAIN project
    /\ placed \subseteq (DOMAIN tab) \X Locals
    /\ pc \in [Requests -> Ended \cup
                  {"idle", "asked", "read", "locked", "inserting", "created",
                   "answered"}]

-----------------------------------------------------------------------------
(* Locks, and the steps of a request *)

Is(q, verb, at) == pc[q] = at /\ form[q].verb = verb
P(q) == form[q].project
Named(q) == {form[q].order[i] : i \in DOMAIN form[q].order}

\* SELECT ... FOR UPDATE, and the rows a transaction has inserted.
ProjectLocked(p) == \E q \in Requests :
    pc[q] \in {"locked", "inserting"} /\ form[q].verb # "reorder" /\ P(q) = p
ViewLocked(v) == \E q \in Requests : Is(q, "reorder", "locked") /\ v \in Named(q)
Inserted(q) == IF pc[q] \in {"locked", "inserting"} /\ form[q].verb = "add"
               THEN form[q].added ELSE {}

Goto(q, at)  == pc' = [pc EXCEPT ![q] = at] /\ UNCHANGED form
Go(q, at, f) == pc' = [pc EXCEPT ![q] = at] /\ form' = [form EXCEPT ![q] = f]
End(q, how)  == Go(q, how, NoForm)

\* A row that is new or replaced.
Put(table, k, row) == [x \in DOMAIN table \cup {k} |-> IF x = k THEN row ELSE table[x]]

Ask(q, f) == /\ pc[q] = "idle" /\ f.verb \in Verbs
             /\ Go(q, "asked", f) /\ UNCHANGED rows

\* The page of project p a form was loaded from: its version, and what it showed.
Loaded(p) == [version |-> project[p].version, saw |-> Content(p)]

-----------------------------------------------------------------------------
(* Projects *)

\* The unique index on the names of projects that are not archived.
NameIsFree(p, f) ==
    f.status = "active" =>
       \A o \in DOMAIN project \ {p} :
          project[o].status = "active" => project[o].name # f.name

NewProject(f) ==
    [name |-> f.name, status |-> f.status, version |-> 1, issues |-> 0, closed |-> 0]

\* POST /projects.
CreateProject(q, p) ==
    /\ pc[q] = "idle" /\ "create" \in Verbs /\ p \notin DOMAIN project
    /\ \E f \in Fields :
          IF NameIsFree(p, f)
            THEN /\ project' = Put(project, p, NewProject(f))
                 /\ Go(q, "done", NoForm)
            ELSE Go(q, "taken", NoForm) /\ UNCHANGED project
    /\ UNCHANGED <<issue, member, tab, placed>>

\* A body that names one field.
AskPatch(q) ==
    \E p \in DOMAIN project, body \in [name : Names] \cup [status : Statuses] :
       Ask(q, [verb |-> "patch", project |-> p, page |-> Loaded(p), body |-> body])
AskArchive(q) ==
    \E p \in DOMAIN project :
       Ask(q, [verb |-> "archive", project |-> p, page |-> Loaded(p)])

\* PATCH /projects/{id} lays the body over the row it reads ...
Overlay(body, row) ==
    [x \in {"name", "status"} |-> IF x \in DOMAIN body THEN body[x] ELSE row[x]]
ReadProject(q) ==
    /\ Is(q, "patch", "asked")
    /\ Go(q, "read", [form[q] EXCEPT !.body = Overlay(@, project[P(q)])])
    /\ UNCHANGED rows

\* ... and stores all of it: UPDATE ... WHERE version = $2.  A name that is
\* taken is a conflict as well, and answered as a stale version.
UpdateProject(q) ==
    LET p == P(q) IN
    /\ Is(q, "patch", "read") /\ ~ProjectLocked(p)
    /\ IF project[p].version = form[q].page.version /\ NameIsFree(p, form[q].body)
         THEN /\ project' = [project EXCEPT ![p].name = form[q].body.name,
                                            ![p].status = form[q].body.status,
                                            ![p].version = @ + 1]
              /\ End(q, "done")
         ELSE End(q, "stale") /\ UNCHANGED project
    /\ UNCHANGED <<issue, member, tab, placed>>

\* POST /projects/{id}/archive: a row that is archived is returned as it is.
ReadForArchive(q) ==
    /\ Is(q, "archive", "asked")
    /\ IF project[P(q)].status = "archived" THEN End(q, "done") ELSE Goto(q, "read")
    /\ UNCHANGED rows

\* Mutated: the version stays.
ArchiveSilently(q) ==
    /\ Is(q, "archive", "read") /\ ~ProjectLocked(P(q))
    /\ IF project[P(q)].version = form[q].page.version
         THEN /\ project' = [project EXCEPT ![P(q)].status = "archived"]
              /\ End(q, "done")
         ELSE End(q, "stale") /\ UNCHANGED project
    /\ UNCHANGED <<issue, member, tab, placed>>

Archive(q) ==
    /\ Is(q, "archive", "read") /\ ~ProjectLocked(P(q))
    /\ IF project[P(q)].version = form[q].page.version
         THEN /\ project' = [project EXCEPT ![P(q)].status = "archived",
                                            ![P(q)].version = @ + 1]
              /\ End(q, "done")
         ELSE End(q, "stale") /\ UNCHANGED project
    /\ UNCHANGED <<issue, member, tab, placed>>

-----------------------------------------------------------------------------
(* Membership *)

\* One or two issues, in either order.
Lists == {<<i>> : i \in Issues} \cup {<<i, j>> : i, j \in Issues}
AskAdd(q) ==
    \E p \in DOMAIN project, ids \in Lists :
       Ask(q, [verb |-> "add", project |-> p, page |-> Loaded(p),
               asks |-> ids, todo |-> ids, added |-> {}])
AskRemove(q) ==
    \E p \in DOMAIN project, i \in Locals :
       Ask(q, [verb |-> "remove", project |-> p, page |-> Loaded(p), issue |-> i])

\* SELECT version ... FOR UPDATE of either transaction.
LockProject(q) ==
    /\ pc[q] = "asked" /\ form[q].verb \in {"add", "remove"}
    /\ ~ProjectLocked(P(q))
    /\ IF project[P(q)].version = form[q].page.version
         THEN Goto(q, "locked") ELSE End(q, "stale")
    /\ UNCHANGED rows

\* The next issue: unknown, of another org or with a project, it is skipped.
LookUp(q) ==
    /\ Is(q, "add", "locked") /\ form[q].todo # <<>>
    /\ LET i == Head(form[q].todo) IN
       IF i \in Locals \ (Foreign \cup DOMAIN member \cup form[q].added)
         THEN Goto(q, "inserting")
         ELSE Go(q, "locked", [form[q] EXCEPT !.todo = Tail(@)])
    /\ UNCHANGED rows

\* INSERT under UNIQUE (issue_id): it waits for another transaction that has
\* inserted the issue; when that one commits, all of this one fails.
InsertMember(q) ==
    LET i == Head(form[q].todo) IN
    /\ Is(q, "add", "inserting")
    /\ \A o \in Requests \ {q} : i \notin Inserted(o)
    /\ IF i \in DOMAIN member
         THEN End(q, "stale")
         ELSE Go(q, "locked", [form[q] EXCEPT !.todo = Tail(@), !.added = @ \cup {i}])
    /\ UNCHANGED rows

\* Mutated: the counts are taken before the statement that changes the members.
RecountFirst(q, m) ==
    [project EXCEPT ![P(q)].issues = Cardinality(Members(P(q))),
                    ![P(q)].closed = Cardinality(Closed(Members(P(q)))),
                    ![P(q)].version = @ + 1]

\* Both counts anew, and the version, for members m.
Recount(q, m) ==
    LET now == {i \in DOMAIN m : m[i] = P(q)} IN
    [project EXCEPT ![P(q)].issues = Cardinality(now),
                    ![P(q)].closed = Cardinality(Closed(now)),
                    ![P(q)].version = @ + 1]

CommitAdd(q) ==
    LET with == [i \in DOMAIN member \cup form[q].added |->
                    IF i \in DOMAIN member THEN member[i] ELSE P(q)] IN
    /\ Is(q, "add", "locked") /\ form[q].todo = <<>>
    /\ member' = with
    /\ project' = IF form[q].added = {} THEN project ELSE Recount(q, with)
    /\ End(q, "done")
    /\ UNCHANGED <<issue, tab, placed>>

\* DELETE, recount and commit.
CommitRemove(q) ==
    LET without == [i \in DOMAIN member \ {form[q].issue} |-> member[i]] IN
    /\ Is(q, "remove", "locked")
    /\ IF form[q].issue \in Members(P(q))
         THEN /\ member' = without /\ project' = Recount(q, without)
              /\ End(q, "done")
         ELSE End(q, "missing") /\ UNCHANGED <<member, project>>
    /\ UNCHANGED <<issue, tab, placed>>

-----------------------------------------------------------------------------
(* Issues *)

\* A webhook or a poll stores what became of an issue.  (Nothing here depends on
\* the state of another org's.)
SyncIssue(i) ==
    /\ issue[i] # "absent" /\ i \notin Foreign
    /\ \E s \in {"open", "closed"} \ {issue[i]} : issue' = [issue EXCEPT ![i] = s]
    /\ UNCHANGED <<project, member, tab, placed, pc, form>>

\* POST /issues.  The attach is a bulk add of one, or a placement on a view.
AskNewIssue(q) ==
    \E i \in Fresh, p \in DOMAIN project :
       \/ Ask(q, [verb |-> "new issue", target |-> "project", issue |-> i, project |-> p,
                  page |-> Loaded(p), asks |-> <<i>>, todo |-> <<i>>, added |-> {}])
       \/ \E v \in DOMAIN tab :
             Ask(q, [verb |-> "new issue", target |-> "view", issue |-> i, project |-> p,
                     view |-> v, ids |-> {i}])

\* On GitHub, or as a local issue.
CreateIssue(q) ==
    LET i == form[q].issue IN
    /\ Is(q, "new issue", "asked") /\ issue[i] = "absent"
    /\ \/ issue' = [issue EXCEPT ![i] = "remote"]
       \/ issue' = [issue EXCEPT ![i] = "open"]
    /\ Goto(q, "created")
    /\ UNCHANGED <<project, member, tab, placed>>

\* The upsert is best effort: without a row there is no attach, and the answer
\* is still a success.
UpsertNewIssue(q) ==
    LET i == form[q].issue IN
    /\ Is(q, "new issue", "created")
    /\ issue' = [issue EXCEPT ![i] = IF @ = "remote" THEN "open" ELSE @]
    /\ IF form[q].target = "view"
         THEN Go(q, "read", [form[q] EXCEPT !.verb = "place"])
         ELSE Go(q, "asked", [form[q] EXCEPT !.verb = "add"])
    /\ UNCHANGED <<project, member, tab, placed>>
SkipAttach(q) ==
    /\ Is(q, "new issue", "created") /\ issue[form[q].issue] = "remote"
    /\ End(q, "done") /\ UNCHANGED rows

-----------------------------------------------------------------------------
(* Views *)

NewTab(p, n, k) == [project |-> p, name |-> n, position |-> k]
Furthest(S) == CHOOSE n \in S : \A m \in S : m <= n
Positions(p) == {tab[v].position : v \in ViewsOf(p)}

\* The project and the view of a path need not belong together.
AskNewView(q) ==
    \E p \in DOMAIN project, n \in Names :
       Ask(q, [verb |-> "add view", project |-> p, name |-> n])
AskEditView(q) ==
    \E p \in DOMAIN project, v \in DOMAIN tab, n \in Names :
       Ask(q, [verb |-> "edit view", project |-> p, view |-> v, name |-> n])
AskDropView(q) ==
    \E p \in DOMAIN project, v \in DOMAIN tab :
       Ask(q, [verb |-> "drop view", project |-> p, view |-> v])
\* The strip of tabs sends each of them once (the code asks only that all are there).
AskReorder(q) ==
    \E p \in DOMAIN project : \E o \in [1..Cardinality(ViewsOf(p)) -> ViewsOf(p)] :
       /\ \A i, j \in DOMAIN o : i # j => o[i] # o[j]
       /\ Ask(q, [verb |-> "reorder", project |-> p, order |-> o])
AskPlace(q) ==
    \E p \in DOMAIN project, v \in DOMAIN tab, i \in Issues :
       Ask(q, [verb |-> "place", project |-> p, view |-> v, ids |-> {i}])
AskLift(q) ==
    \E p \in DOMAIN project, v \in DOMAIN tab, i \in Issues :
       Ask(q, [verb |-> "lift", project |-> p, view |-> v, issue |-> i])

\* Mutated: COUNT(*), which a deleted tab leaves too small.
PlaceByCount(p) == Cardinality(ViewsOf(p))

\* COALESCE(MAX(position), -1) + 1.
NextPlace(p) == Furthest({-1} \cup Positions(p)) + 1

\* POST .../views: the two statements of the transaction.
ReadPlace(q) ==
    /\ Is(q, "add view", "asked")
    /\ Go(q, "read", [verb |-> "add view", project |-> P(q), name |-> form[q].name,
                      place |-> NextPlace(P(q)), overtaken |-> FALSE])
    /\ UNCHANGED rows

\* History: a view that is created overtakes the others that have read a place.
Overtake(q, p) ==
    form' = [o \in Requests |->
       IF o = q THEN NoForm
       ELSE IF Is(o, "add view", "read") /\ P(o) = p
         THEN [form[o] EXCEPT !.overtaken = TRUE]
       ELSE form[o]]

\* Name and place are unique within the project; a conflict on either is
\* answered as a taken name.
InsertView(q) ==
    LET p == P(q) IN
    /\ Is(q, "add view", "read") /\ ~ProjectLocked(p)
    /\ IF \A v \in ViewsOf(p) : tab[v].name # form[q].name
                                /\ tab[v].position # form[q].place
         THEN /\ \E v \in Views \ DOMAIN tab :
                    tab' = Put(tab, v, NewTab(p, form[q].name, form[q].place))
              /\ pc' = [pc EXCEPT ![q] = "done"] /\ Overtake(q, p)
         ELSE End(q, "taken") /\ UNCHANGED tab
    /\ UNCHANGED <<project, issue, member, placed>>

\* The view of a PATCH or a DELETE must be one of the project of the path.
CheckView(q) ==
    /\ IF form[q].view \in ViewsOf(P(q)) THEN Goto(q, "read") ELSE End(q, "missing")
    /\ UNCHANGED rows
CheckEdited(q)  == Is(q, "edit view", "asked") /\ CheckView(q)
CheckDropped(q) == Is(q, "drop view", "asked") /\ CheckView(q)

\* UPDATE ... WHERE id = $1: no version, and the place stays.
UpdateView(q) ==
    LET v == form[q].view IN
    /\ Is(q, "edit view", "read") /\ ~ViewLocked(v)
    /\ IF v \notin DOMAIN tab THEN End(q, "missing") /\ UNCHANGED tab
       ELSE IF \E o \in ViewsOf(tab[v].project) \ {v} : tab[o].name = form[q].name
         THEN End(q, "taken") /\ UNCHANGED tab
         ELSE tab' = [tab EXCEPT ![v].name = form[q].name] /\ End(q, "done")
    /\ UNCHANGED <<project, issue, member, placed>>

DeleteView(q) ==
    LET v == form[q].view IN
    /\ Is(q, "drop view", "read") /\ ~ViewLocked(v)
    /\ IF v \in DOMAIN tab
         THEN /\ tab' = [o \in DOMAIN tab \ {v} |-> tab[o]]
              /\ placed' = {x \in placed : x[1] # v}
              /\ End(q, "done")
         ELSE End(q, "missing") /\ UNCHANGED <<tab, placed>>
    /\ UNCHANGED <<project, issue, member>>

\* SELECT id ... FOR UPDATE; the request must name exactly these views.
LockViews(q) ==
    LET found == ViewsOf(P(q)) IN
    /\ Is(q, "reorder", "asked") /\ \A v \in found : ~ViewLocked(v)
    /\ IF Named(q) = found THEN Goto(q, "locked") ELSE End(q, "refused")
    /\ UNCHANGED rows

Stamp(ts, o) ==
    [v \in DOMAIN ts |->
        IF \E i \in DOMAIN o : o[i] = v
        THEN [ts[v] EXCEPT !.position = (CHOOSE i \in DOMAIN o : o[i] = v) - 1]
        ELSE ts[v]]

\* All tabs are parked on negative places, then stamped 0, 1, ...  A tab that was
\* created since they were locked may have one of these places: the index on
\* (project_id, position) refuses it, and all of the transaction fails.
CommitReorder(q) ==
    /\ Is(q, "reorder", "locked")
    /\ IF \E v \in ViewsOf(P(q)) \ Named(q) :
             tab[v].position + 1 \in DOMAIN form[q].order
         THEN End(q, "failed") /\ UNCHANGED tab
         ELSE tab' = Stamp(tab, form[q].order) /\ End(q, "done")
    /\ UNCHANGED <<project, issue, member, placed>>

\* Bulk add with a view_id: the issues are looked up one by one, the others are
\* skipped; the project is neither locked nor changed, and nobody asks whether
\* the view is one of its.  A view that is gone fails the foreign key.
CheckIssues(q) ==
    /\ Is(q, "place", "asked")
    /\ Go(q, "read", [form[q] EXCEPT !.ids = @ \cap (Locals \ Foreign)])
    /\ UNCHANGED rows
PlaceOnView(q) ==
    LET v == form[q].view IN
    /\ Is(q, "place", "read") /\ ~ViewLocked(v)
    /\ IF form[q].ids # {} /\ v \notin DOMAIN tab
         THEN End(q, "failed") /\ UNCHANGED placed
         ELSE placed' = placed \cup ({v} \X form[q].ids) /\ End(q, "done")
    /\ UNCHANGED <<project, issue, member, tab>>

\* DELETE .../issues/{issue_id}?view=.
LiftFromView(q) ==
    /\ Is(q, "lift", "asked")
    /\ placed' = placed \ {<<form[q].view, form[q].issue>>}
    /\ End(q, "done")
    /\ UNCHANGED <<project, issue, member, tab>>

-----------------------------------------------------------------------------
\* A transaction is lost with its connection, or as the victim of a deadlock.
Abort(q) ==
    /\ pc[q] \in {"locked", "inserting"}
    /\ End(q, "failed") /\ UNCHANGED rows

\* Some projects of these names, with tabs ts, members ms and issues ps on the tabs.
InitRows(names, ts, ms, ps) ==
    /\ DOMAIN names \subseteq Ids /\ \A p \in DOMAIN names : names[p] \in Names
    /\ DOMAIN ts \subseteq Views /\ IsFiniteSet(DOMAIN ts)
    /\ \A v \in DOMAIN ts :
          /\ ts[v] \in ViewRows /\ ts[v].project \in DOMAIN names
          /\ \A o \in DOMAIN ts \ {v} : ts[o].project = ts[v].project =>
                                         ts[o].position # ts[v].position
    /\ DOMAIN ms \subseteq Issues \ (Fresh \cup Foreign) /\ IsFiniteSet(DOMAIN ms)
    /\ \A i \in DOMAIN ms : ms[i] \in DOMAIN names
    /\ ps \subseteq (DOMAIN ts) \X (Issues \ Fresh)
    /\ project = [p \in DOMAIN names |->
          [name |-> names[p], status |-> "active", version |-> 1,
           issues |-> Cardinality({i \in DOMAIN ms : ms[i] = p}), closed |-> 0]]
    /\ issue = [i \in Issues |-> IF i \in Fresh THEN "absent" ELSE "open"]
    /\ member = ms /\ tab = ts /\ placed = ps
    /\ pc = [q \in Requests |-> "idle"] /\ form = [q \in Requests |-> NoForm]

Asks(q) == \/ \E p \in Ids : CreateProject(q, p)
           \/ AskPatch(q) \/ AskArchive(q) \/ AskAdd(q) \/ AskRemove(q)
           \/ AskNewIssue(q) \/ AskNewView(q) \/ AskEditView(q) \/ AskDropView(q)
           \/ AskReorder(q) \/ AskPlace(q) \/ AskLift(q)

Serves(q) ==
    \/ ReadProject(q) \/ UpdateProject(q) \/ ReadForArchive(q) \/ Archive(q)
    \/ LockProject(q) \/ LookUp(q) \/ InsertMember(q) \/ CommitAdd(q)
    \/ CommitRemove(q) \/ CreateIssue(q) \/ UpsertNewIssue(q) \/ SkipAttach(q)
    \/ ReadPlace(q) \/ InsertView(q) \/ CheckEdited(q) \/ CheckDropped(q) \/ UpdateView(q)
    \/ DeleteView(q) \/ LockViews(q) \/ CommitReorder(q)
    \/ CheckIssues(q) \/ PlaceOnView(q) \/ LiftFromView(q)
    \/ Abort(q)

ProjectsNext == \/ \E q \in Requests : Asks(q) \/ Serves(q)
                \/ \E i \in Issues : SyncIssue(i)

-----------------------------------------------------------------------------
(* Properties *)

\* The counts on the row summarise the membership table, whichever requests meet;
\* the closed ones are those of the last recount.
CountsAddUp ==
    \A p \in DOMAIN project :
       /\ project[p].issues = Cardinality(Members(p))
       /\ project[p].closed <= project[p].issues

\* The version stands for what a page shows: a change of a project that was
\* asked for on a page goes through only if its fields and its issues are still
\* as that page showed them.  So a PATCH never carries old values of the fields it
\* does not name into the row, and nobody adds to or removes from a list that has
\* changed unseen.
VersionCoversProject ==
    [][\A q \in Requests :
          /\ form[q].verb \in {"patch", "archive", "add", "remove"}
          /\ pc[q] \in {"read", "locked"} /\ pc'[q] = "done"
          /\ project'[P(q)].version # project[P(q)].version
          => Content(P(q)) = form[q].page.saw]_vars

\* A view is refused although its name is free only if another view was created
\* since its place was read, whatever tabs were deleted or moved.
RefusedOnlyByRival ==
    [][\A q \in Requests :
          Is(q, "add view", "read") /\ pc'[q] = "taken" =>
             \/ \E v \in ViewsOf(P(q)) : tab[v].name = form[q].name
             \/ form[q].overtaken]_vars
=============================================================================
