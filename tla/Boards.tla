-------------------------------- MODULE Boards --------------------------------
(***************************************************************************)
(* The GitHub boards a project is linked to, the dates of an issue and     *)
(* their mirror on those boards: dp-rest board_links.rs and issue_dates.rs *)
(* over store/board_links.rs and store/issue_dates.rs.                     *)
(*                                                                         *)
(* PATCH /issues/{id}/dates stores the dates and answers; a task for each  *)
(* board the issue's project is linked to takes them to GitHub meanwhile.  *)
(* The rows it leaves in dp_projectv2_mirror_tasks are read by nothing.    *)
(* The two dates of a PATCH are one value, its request; None is no dates.  *)
(* A link's own copy of its last outcome is left out, and so are people:   *)
(* whoever asks may be allowed to or not.                                  *)
(***************************************************************************)
EXTENDS Milestones

CONSTANTS Links, Boards,
          ClosedBoards,     \* boards that are closed
          Edits             \* requests about links and about dates

ASSUME BoardsAssumption == ClosedBoards \subseteq Boards /\ None \notin {"", "card"}

Lanes == {"start", "due"}   \* the date fields of a board

VARIABLES
    boardLink,  \* dp_project_board_links
    field,      \* GitHub's: the date fields of each board
    dates,      \* dp_issue_dates
    nodeId,     \* issues whose github_node_id is set
    item,       \* dp_project_board_items: by link and issue
    card,       \* GitHub's: by board and issue, the dates of its fields
    edit,       \* where a request is
    task,       \* what it has spawned: by request and link
    doubtful  \* history: links and issues whose last mirror was lost,
                \* skipped, or met another

boardVars == <<boardLink, field, dates, nodeId, item, card, edit, task, doubtful>>

\* A link is never changed; a field that is not chosen is not mirrored.
LinkRows == [project : Ids, board : Boards, lanes : SUBSET Lanes]
\* "" stands in for the id of a card that a failed mirror has not made.
ItemRows == [id : {"", "card"}, synced : BOOLEAN, failed : BOOLEAN]
Dates    == Edits \cup {None}
\* What a mirror is told: the issue, with its node id or without, the card if there
\* is one, the board and the fields.
TaskRows == [at : {"mirror", "failed"}, issue : Locals, node : BOOLEAN,
             id : {None, "", "card"}, board : Boards, lanes : SUBSET Lanes]

BoardsTypeOK ==
    /\ MilestonesTypeOK
    /\ \A l \in DOMAIN boardLink : l \in Links /\ boardLink[l] \in LinkRows
    /\ field \in [Boards -> SUBSET Lanes] /\ nodeId \subseteq Locals
    /\ DOMAIN dates \subseteq Locals /\ \A i \in DOMAIN dates : dates[i] \in Dates
    /\ DOMAIN item \subseteq (DOMAIN boardLink) \X Locals
    /\ \A x \in DOMAIN item : item[x] \in ItemRows
    /\ DOMAIN card \subseteq Boards \X Locals
    /\ \A x \in DOMAIN card : card[x] \in [Lanes -> Dates]
    /\ \A x \in DOMAIN task : task[x] \in TaskRows

-----------------------------------------------------------------------------
(* The boards to choose from *)

EndEdit(e) == edit' = [edit EXCEPT ![e] = [at |-> "done", todo |-> <<>>]]

\* organization { projectsV2 { fields } }: fields of all types, boards of all states.
GitHubBoards ==
    {[id |-> b, closed |-> b \in ClosedBoards,
      fields |-> {[id |-> lane, type |-> "DATE"] : lane \in field[b]} \cup
                 {[id |-> "status", type |-> "SINGLE_SELECT"]}] : b \in Boards}

\* ClosedBoards boards are left out, and fields that hold no date.
Normalized(raw) ==
    {[board |-> b.id, lanes |-> {f.id : f \in {g \in b.fields : g.type = "DATE"}}] :
        b \in {r \in raw : ~r.closed}}

\* GET /orgs/{org}/projects-v2, where the link dialog takes a board from, and
\* fields of it.
OrgProjects == Normalized(GitHubBoards)
LinkBodies  == UNION {[board : {o.board}, lanes : SUBSET o.lanes] : o \in OrgProjects}

\* No picker is configured, GitHub refuses, or it cannot be reached.
PickerFails(e) == EndEdit(e) /\ UNCHANGED field

\* createProjectV2Field
AddField(b, lane) == field' = [field EXCEPT ![b] = @ \cup {lane}]

\* POST /orgs/{org}/projects-v2/date-fields
CreateDateField(e) ==
    /\ edit[e].at = "idle"
    /\ \/ PickerFails(e)
       \/ \E o \in OrgProjects, lane \in Lanes :
             /\ lane \notin o.lanes
             /\ AddField(o.board, lane) /\ EndEdit(e)
    /\ UNCHANGED <<boardLink, dates, nodeId, item, card, task, doubtful>>

-----------------------------------------------------------------------------
(* Links *)

ListBoardLinks(p) == {l \in DOMAIN boardLink : boardLink[l].project = p}

\* Requests and tasks that know of link l.
KnowLink(l) == {e \in Edits : \/ l \in DOMAIN edit[e].todo \/ <<e, l>> \in DOMAIN task
                              \/ edit[e].at = "unlinking" /\ edit[e].link = l}

\* POST /projects/{id}/board-links
CreateLink(e) ==
    /\ edit[e].at = "idle"
    /\ \E p \in DOMAIN project, f \in LinkBodies :
          edit' = [edit EXCEPT ![e] = [at |-> "linking", todo |-> <<>>,
                                       row |-> [project |-> p, board |-> f.board,
                                               lanes |-> f.lanes]]]
    /\ UNCHANGED <<boardLink, field, dates, nodeId, item, card, task, doubtful>>

\* UNIQUE (project_id, github_board_node_id)
InsertLink(e, l) ==
    LET new == edit[e].row IN
    /\ edit[e].at = "linking" /\ l \notin DOMAIN boardLink /\ KnowLink(l) = {}
    /\ boardLink' = IF \E o \in ListBoardLinks(new.project) : boardLink[o].board = new.board
                    THEN boardLink ELSE Put(boardLink, l, new)
    /\ EndEdit(e)
    /\ UNCHANGED <<field, dates, nodeId, item, card, task, doubtful>>

\* DELETE /projects/{id}/board-links/{link}: for the creator and the lead of the
\* project, and a link of the project.
CheckUnlink(e, l) ==
    /\ edit[e].at = "idle" /\ l \in DOMAIN boardLink
    /\ \/ EndEdit(e)
       \/ edit' = [edit EXCEPT ![e] = [at |-> "unlinking", todo |-> <<>>, link |-> l]]
    /\ UNCHANGED <<boardLink, field, dates, nodeId, item, card, task, doubtful>>

\* The items go with the link, the cards stay; a link that is gone is a 404.
DeleteLink(e) ==
    /\ edit[e].at = "unlinking"
    /\ boardLink' = [o \in DOMAIN boardLink \ {edit[e].link} |-> boardLink[o]]
    /\ item' = [x \in {y \in DOMAIN item : y[1] # edit[e].link} |-> item[x]]
    /\ EndEdit(e)
    /\ UNCHANGED <<field, dates, nodeId, card, task, doubtful>>

-----------------------------------------------------------------------------
(* PATCH /issues/{id}/dates *)

\* Requests about issue i that are under way, with their tasks.
Editing(i) == {e \in Edits : \/ edit[e].at = "saved" /\ edit[e].issue = i
                             \/ \E l \in Links : /\ <<e, l>> \in DOMAIN task
                                                 /\ task[<<e, l>>].issue = i}

Doubt(S, i) == doubtful' = doubtful \cup (S \X {i})

\* A window that ends before it begins, or an org without write access, is refused.
PatchDates(e, i) ==
    /\ edit[e].at = "idle" /\ i \in Locals
    /\ \/ EndEdit(e)
       \/ edit' = [edit EXCEPT ![e] = [at |-> "dated", issue |-> i, todo |-> <<>>]]
    /\ UNCHANGED <<boardLink, field, dates, nodeId, item, card, task, doubtful>>

\* The upsert replaces both dates, whatever they are: the last writer wins.
SaveDates(e) ==
    LET i == edit[e].issue IN
    /\ edit[e].at = "dated"
    /\ dates' = Put(dates, i, e)
    /\ edit' = [edit EXCEPT ![e] = [at |-> "saved", issue |-> i, todo |-> <<>>,
                                    looked |-> FALSE]]
    /\ Doubt(IF Editing(i) = {} THEN {} ELSE Links, i)
    /\ UNCHANGED <<boardLink, field, nodeId, item, card, task>>

\* GET /issues/{id}/dates: no dates where there is no row.
ShownDates(i) == IF i \in DOMAIN dates THEN dates[i] ELSE None

\* The boards of the issue's project; none where the audit row or one of the two
\* reads fails, and none for an issue that is not on GitHub.
FindLinks(e) ==
    LET i  == edit[e].issue
        ls == IF i \in DOMAIN member THEN ListBoardLinks(member[i]) ELSE {}
    IN
    /\ edit[e].at = "saved" /\ ~edit[e].looked
    /\ \E S \in {ls, {}} :
          /\ edit' = [edit EXCEPT ![e].todo = [l \in S |-> boardLink[l]],
                                  ![e].looked = TRUE]
          /\ Doubt(Links \ S, i)
    /\ UNCHANGED <<boardLink, field, dates, nodeId, item, card, task>>

\* The card of the item's row; None where the row is not there or not read.
CardIds(l, i) == {None} \cup (IF <<l, i>> \in DOMAIN item THEN {item[<<l, i>>].id} ELSE {})

\* Rows from before the column was there have no id.
HasNode(i) == i \in nodeId

\* One task for each.
SpawnMirror(e, l) ==
    LET i == edit[e].issue IN
    /\ edit[e].at = "saved" /\ l \in DOMAIN edit[e].todo
    /\ \E id \in CardIds(l, i) :
          task' = Put(task, <<e, l>>,
             [at |-> "mirror", issue |-> i, node |-> HasNode(i), id |-> id,
              board |-> edit[e].todo[l].board, lanes |-> edit[e].todo[l].lanes])
    /\ edit' = [edit EXCEPT ![e].todo = [o \in DOMAIN @ \ {l} |-> @[o]]]
    /\ UNCHANGED <<boardLink, field, dates, nodeId, item, card, doubtful>>

Answer(e) ==
    /\ edit[e].at = "saved" /\ edit[e].looked /\ DOMAIN edit[e].todo = {}
    /\ EndEdit(e)
    /\ UNCHANGED <<boardLink, field, dates, nodeId, item, card, task, doubtful>>

-----------------------------------------------------------------------------
(* A mirror *)

CardOf(t) == <<t.board, t.issue>>

\* GraphQL: what GitHub has done it may still answer with an error.
Continue(x, t) == \E at \in {"mirror", "failed"} :
                     task' = [task EXCEPT ![x] = [t EXCEPT !.at = at]]

\* The id is kept unless the row cannot be written.
KeepNode(i) == nodeId' \in {nodeId, nodeId \cup {i}}

\* An issue the request had no node id of is looked up.
ResolveNode(x) ==
    LET t == task[x] IN
    /\ t.at = "mirror" /\ ~t.node
    /\ KeepNode(t.issue)
    /\ Continue(x, [t EXCEPT !.node = TRUE])
    /\ UNCHANGED <<boardLink, field, dates, item, card, edit, doubtful>>

\* addProjectV2ItemById: GitHub finds the card of an issue it has added before.
AddItem(t) == card' = IF CardOf(t) \in DOMAIN card THEN card
                      ELSE Put(card, CardOf(t), [lane \in Lanes |-> None])

\* Where the request was told no card.
AddCard(x) ==
    LET t == task[x] IN
    /\ t.at = "mirror" /\ t.node /\ t.id = None
    /\ AddItem(t)
    /\ Continue(x, [t EXCEPT !.id = "card"])
    /\ UNCHANGED <<boardLink, field, dates, nodeId, item, edit, doubtful>>

\* updateProjectV2ItemFieldValue
SetDate(t, lane, day) == card' = [card EXCEPT ![CardOf(t)][lane] = day]

\* Mutated: one date does for both.
PushFirst(x) ==
    LET t == task[x] IN
    /\ t.at = "mirror" /\ t.node /\ t.id = "card" /\ t.lanes # {}
    /\ SetDate(t, CHOOSE lane \in t.lanes : TRUE, x[1])
    /\ Continue(x, [t EXCEPT !.lanes = {}])
    /\ UNCHANGED <<boardLink, field, dates, nodeId, item, edit, doubtful>>

\* First the start, then the due date; GitHub knows no card "".
PushLane(x) ==
    LET t    == task[x]
        lane == IF "start" \in t.lanes THEN "start" ELSE "due"
    IN
    /\ t.at = "mirror" /\ t.node /\ t.id = "card" /\ t.lanes # {}
    /\ SetDate(t, lane, x[1])
    /\ Continue(x, [t EXCEPT !.lanes = @ \ {lane}])
    /\ UNCHANGED <<boardLink, field, dates, nodeId, item, edit, doubtful>>

\* GitHub refuses or cannot be reached, or the id of the issue is not found.
MirrorFails(x) ==
    /\ task[x].at = "mirror" /\ (~task[x].node \/ task[x].id = None \/ task[x].lanes # {})
    /\ task' = [task EXCEPT ![x].at = "failed"]
    /\ UNCHANGED <<boardLink, field, dates, nodeId, item, card, edit, doubtful>>

EndTask(x) == task' = [y \in DOMAIN task \ {x} |-> task[y]]

\* The item's row after an outcome; a first failure makes one without a card.
RowAfter(x, t) ==
    LET y == <<x[2], t.issue>> IN
    IF t.at = "mirror" THEN [id |-> t.id, synced |-> TRUE, failed |-> FALSE]
    ELSE IF y \in DOMAIN item THEN [item[y] EXCEPT !.failed = TRUE]
    ELSE [id |-> "", synced |-> FALSE, failed |-> TRUE]

\* record_board_item_result; that the link is gone is only logged.
RecordResult(x) ==
    LET t == task[x] IN
    /\ t.at = "failed" \/ (t.node /\ t.id # None /\ t.lanes = {})
    /\ item' = IF x[2] \in DOMAIN boardLink
                 THEN Put(item, <<x[2], t.issue>>, RowAfter(x, t)) ELSE item
    /\ EndTask(x)
    /\ UNCHANGED <<boardLink, field, dates, nodeId, card, edit, doubtful>>

\* The transaction fails; the outcome is lost.
RecordFails(x) ==
    LET t == task[x] IN
    /\ t.at = "failed" \/ (t.node /\ t.id # None /\ t.lanes = {})
    /\ EndTask(x) /\ Doubt({x[2]}, t.issue)
    /\ UNCHANGED <<boardLink, field, dates, nodeId, item, card, edit>>

\* The server stops, and its requests and tasks with it.
Stop ==
    LET lost == {i \in Issues : Editing(i) # {}} IN
    /\ lost # {}
    /\ edit' = [e \in Edits |-> IF edit[e].at \notin {"idle", "done"}
                                  THEN [at |-> "done", todo |-> <<>>] ELSE edit[e]]
    /\ task' = <<>>
    /\ doubtful' = doubtful \cup (Links \X lost)
    /\ UNCHANGED <<boardLink, field, dates, nodeId, item, card>>

-----------------------------------------------------------------------------
InitBoards(ls, fs) ==
    /\ \A l \in DOMAIN ls :
          /\ l \in Links /\ ls[l] \in LinkRows
          /\ \A o \in DOMAIN ls \ {l} : ls[o].project = ls[l].project =>
                                         ls[o].board # ls[l].board
    /\ fs \in [Boards -> SUBSET Lanes]
    /\ boardLink = ls /\ field = fs /\ dates = <<>> /\ nodeId = {}
    /\ item = <<>> /\ card = <<>> /\ task = <<>> /\ doubtful = {}
    /\ edit = [e \in Edits |-> [at |-> "idle", todo |-> <<>>]]

LinkSteps(e) ==
    \/ CreateDateField(e) \/ CreateLink(e) \/ DeleteLink(e)
    \/ \E l \in Links : InsertLink(e, l) \/ CheckUnlink(e, l)

DateSteps(e) ==
    \/ \E i \in Issues : PatchDates(e, i)
    \/ SaveDates(e) \/ FindLinks(e) \/ Answer(e)
    \/ \E l \in Links : SpawnMirror(e, l)

MirrorSteps(x) ==
    \/ ResolveNode(x) \/ AddCard(x) \/ PushLane(x) \/ MirrorFails(x)
    \/ RecordResult(x) \/ RecordFails(x)

BoardsNext ==
    \/ \E e \in Edits : LinkSteps(e) \/ DateSteps(e)
    \/ \E x \in DOMAIN task : MirrorSteps(x)
    \/ Stop

AllNext == \/ Next /\ UNCHANGED boardVars
           \/ BoardsNext /\ UNCHANGED allVars

everything == <<allVars, boardVars>>

-----------------------------------------------------------------------------
(* Properties *)

\* A board whose item tells of a mirror and of no failure shows the dates we show
\* in the fields that are chosen, once the mirrors of the issue are over, unless
\* the last one was skipped, lost or met another.
BoardsShowDates ==
    \A x \in DOMAIN item \ doubtful :
       LET l == x[1]  i == x[2] IN
       (item[x].synced /\ ~item[x].failed /\ Editing(i) = {}) =>
          \A lane \in boardLink[l].lanes : card[<<boardLink[l].board, i>>][lane] = ShownDates(i)
=============================================================================
