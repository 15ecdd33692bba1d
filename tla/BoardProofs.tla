----------------------------- MODULE BoardProofs -----------------------------
(***************************************************************************)
(* Projects, their tabs, milestones and boards, for any number of projects,*)
(* issues, views, milestones, links, boards and requests.  Invariants are   *)
(* proved each over the one before: the rows of projects and tabs and what *)
(* requests hold of them; the milestones and their mirror; the links to    *)
(* boards and the dates on their cards.  What pages compute of the rows    *)
(* follows from their types.                                               *)
(***************************************************************************)
EXTENDS Pages, FiniteLemmas, SequenceTheorems

\* Any rows that requests may find, and all they may do.
BoardSpec ==
    /\ \E names, ts, ms, ps, ls, gs, bs, fs :
          InitRows(names, ts, ms, ps) /\ InitMilestones(ls, gs) /\ InitBoards(bs, fs)
    /\ [][AllNext]_everything

-----------------------------------------------------------------------------
(* What is true of a request that is under way *)

Live(q)  == pc[q] \notin Ended \cup {"idle"}
Holds(q) == pc[q] \in {"locked", "inserting"} /\ form[q].verb # "reorder"

\* Requests that were made on a page of their project ...
OnPage(q) ==
    /\ Live(q)
    /\ \/ form[q].verb \in {"patch", "archive", "add", "remove"}
       \/ form[q].verb = "new issue" /\ form[q].target = "project"

\* ... have seen what its version stands for.
SawPage(q) ==
    /\ P(q) \in DOMAIN project /\ form[q].page.version \in Nat
    /\ form[q].page.version <= project[P(q)].version
    /\ form[q].page.version = project[P(q)].version => form[q].page.saw = Content(P(q))

PageFits(q) == OnPage(q) => SawPage(q)

PatchFits(q) ==
    Live(q) /\ form[q].verb = "patch" =>
       IF pc[q] = "read" THEN form[q].body \in Fields
       ELSE form[q].body \in [name : Names] \cup [status : Statuses]

AddForm(f) == /\ f.todo \in Seq(Issues)
              /\ f.added \subseteq Locals \ Foreign /\ IsFiniteSet(f.added)

AddFits(q) ==
    Live(q) =>
       /\ form[q].verb = "add" =>
            /\ AddForm(form[q])
            /\ pc[q] = "inserting" =>
                  form[q].todo # <<>> /\ Head(form[q].todo) \in Locals \ Foreign
       /\ form[q].verb = "new issue" =>
            /\ form[q].issue \in Issues
            /\ form[q].target = "project" => AddForm(form[q])
            /\ form[q].target # "project" =>
                  form[q].target = "view" /\ form[q].ids = {form[q].issue}
            /\ pc[q] = "created" => issue[form[q].issue] # "absent"
       /\ form[q].verb = "place" /\ pc[q] = "read" => form[q].ids \subseteq Locals

\* A place that was read, and that nobody has overtaken, is beyond all tabs.
Beyond(p, n) == \A v \in ViewsOf(p) : tab[v].position < n

OrderFits(q) ==
    /\ form[q].order \in Seq(Views)
    /\ \A i, j \in DOMAIN form[q].order :
          i # j => form[q].order[i] # form[q].order[j]
    /\ pc[q] = "locked" => Named(q) \subseteq ViewsOf(P(q))

ViewFits(q) ==
    Live(q) =>
       /\ form[q].verb = "add view" =>
            /\ P(q) \in DOMAIN project /\ form[q].name \in Names
            /\ pc[q] = "read" =>
                 /\ {"verb", "project", "name", "place", "overtaken"} \subseteq DOMAIN form[q]
                 /\ form[q].place \in Nat
                 /\ ~form[q].overtaken => Beyond(P(q), form[q].place)
       /\ form[q].verb = "edit view" => form[q].name \in Names
       /\ form[q].verb = "adopt" => P(q) \in DOMAIN project
       /\ form[q].verb = "reorder" => OrderFits(q)

\* Who holds a project has seen its version.
LockFits(q) ==
    /\ pc[q] = "inserting" => form[q].verb = "add"
    /\ pc[q] = "locked" => form[q].verb \in {"add", "remove", "reorder"}
    /\ Holds(q) => form[q].page.version = project[P(q)].version

\* The fields that forms have.
Shaped(f) ==
    /\ f.verb = "patch" => {"verb", "project", "page", "body"} \subseteq DOMAIN f
    /\ f.verb = "add" => {"verb", "project", "page", "todo", "added"} \subseteq DOMAIN f
    /\ f.verb = "new issue" =>
         /\ {"verb", "target", "issue", "project"} \subseteq DOMAIN f
         /\ f.target = "project" => {"page", "todo", "added"} \subseteq DOMAIN f
         /\ f.target = "view" => {"view", "ids"} \subseteq DOMAIN f
    /\ f.verb = "place" => {"verb", "project", "view", "ids"} \subseteq DOMAIN f
    /\ f.verb \in {"new milestone", "edit milestone", "drop milestone"} =>
         {"verb", "project", "milestone", "payload"} \subseteq DOMAIN f

Fits(q) == /\ Shaped(form[q]) /\ PageFits(q) /\ PatchFits(q) /\ AddFits(q)
           /\ ViewFits(q) /\ LockFits(q)

Exclusive == \A q, o \in Requests : Holds(q) /\ Holds(o) /\ P(q) = P(o) => q = o

\* No two tabs of a project share a place.
PlacesDiffer ==
    /\ IsFiniteSet(DOMAIN tab)
    /\ \A v, o \in DOMAIN tab : v # o /\ tab[v].project = tab[o].project =>
                                   tab[v].position # tab[o].position

RowsInv == /\ TypeOK /\ DOMAIN form = Requests
           /\ \A q \in Requests : Fits(q)
           /\ Exclusive /\ PlacesDiffer
           /\ CountsAddUp /\ IsFiniteSet(DOMAIN member)

-----------------------------------------------------------------------------
(* Steps that leave the rows alone *)

\* Only request q moves.
Alone(q) == /\ pc' \in [Requests -> Ended \cup {"idle", "asked", "read", "locked",
                                       "inserting", "created", "answered"}]
            /\ DOMAIN form' = Requests
            /\ \A o \in Requests \ {q} : pc'[o] = pc[o] /\ form'[o] = form[o]

LEMMA GoMovesOne ==
    ASSUME RowsInv, NEW q \in Requests, NEW f,
           NEW at \in Ended \cup {"idle", "asked", "read", "locked",
                                  "inserting", "created", "answered"},
           Go(q, at, f)
    PROVE  Alone(q) /\ pc'[q] = at /\ form'[q] = f
BY DEF RowsInv, TypeOK, Go, Alone

LEMMA GotoMovesOne ==
    ASSUME RowsInv, NEW q \in Requests,
           NEW at \in Ended \cup {"idle", "asked", "read", "locked",
                                  "inserting", "created", "answered"},
           Goto(q, at)
    PROVE  Alone(q) /\ pc'[q] = at /\ form'[q] = form[q]
BY DEF RowsInv, TypeOK, Goto, Alone

\* An ended request is fit.
LEMMA EndedFit ==
    ASSUME NEW q \in Requests, pc'[q] \in Ended, Shaped(form'[q])
    PROVE  Fits(q)' /\ ~Holds(q)' /\ ~Live(q)'
BY DEF Fits, PageFits, PatchFits, AddFits, ViewFits, LockFits, OnPage, Live, Holds, Ended

LEMMA NoFormIsShaped == Shaped(NoForm)
BY DEF Shaped, NoForm

\* The parts of being fit, of a request that stays where it is.
LEMMA StayFit ==
    ASSUME RowsInv, NEW o \in Requests, pc'[o] = pc[o], form'[o] = form[o], UNCHANGED rows
    PROVE  Fits(o)'
<1> USE DEF rows
<1>0. Fits(o)
  BY DEF RowsInv
<1>1. PageFits(o)'
  BY <1>0 DEF Fits, PageFits, OnPage, SawPage, Live, P, Content, Members
<1>2. PatchFits(o)'
  BY <1>0 DEF Fits, PatchFits, Live
<1>3. AddFits(o)'
  BY <1>0 DEF Fits, AddFits, AddForm, Live, Locals
<1>4. ViewFits(o)'
  BY <1>0 DEF Fits, ViewFits, OrderFits, Beyond, Live, P, ViewsOf, Named
<1>5. LockFits(o)'
  BY <1>0 DEF Fits, LockFits, Holds, P
<1> QED
  BY <1>0, <1>1, <1>2, <1>3, <1>4, <1>5 DEF Fits

LEMMA QuietStep ==
    ASSUME RowsInv, NEW q \in Requests, Alone(q), UNCHANGED rows, Fits(q)',
           Holds(q)' => \/ Holds(q) /\ P(q)' = P(q)
                        \/ ~ProjectLocked(P(q)')
    PROVE  RowsInv'
<1> USE DEF rows
<1>1. \A o \in Requests \ {q} : Fits(o)'
  BY StayFit DEF Alone
<1>2. Exclusive'
  BY DEF RowsInv, Exclusive, Alone, Holds, P, ProjectLocked
<1>3. TypeOK'
  BY DEF RowsInv, TypeOK, Alone, Locals
<1>4. PlacesDiffer' /\ CountsAddUp' /\ IsFiniteSet(DOMAIN member)'
  BY DEF RowsInv, PlacesDiffer, CountsAddUp, Members
<1> QED
  BY <1>1, <1>2, <1>3, <1>4 DEF RowsInv, Alone

\* A request that is new, with a form of what the program shows now.
NewForm(f) ==
    /\ Shaped(f)
    /\ (f.verb \in {"patch", "archive", "add", "remove"}
        \/ (f.verb = "new issue" /\ f.target = "project")) =>
          f.project \in DOMAIN project /\ f.page = Loaded(f.project)
    /\ f.verb = "patch" => f.body \in [name : Names] \cup [status : Statuses]
    /\ f.verb = "add" \/ (f.verb = "new issue" /\ f.target = "project") => AddForm(f)
    /\ f.verb = "new issue" =>
          /\ f.issue \in Issues
          /\ f.target # "project" => f.target = "view" /\ f.ids = {f.issue}
    /\ f.verb = "add view" => f.project \in DOMAIN project /\ f.name \in Names
    /\ f.verb = "edit view" => f.name \in Names
    /\ f.verb = "adopt" => f.project \in DOMAIN project
    /\ f.verb = "reorder" =>
          /\ f.order \in Seq(Views)
          /\ \A i, j \in DOMAIN f.order : i # j => f.order[i] # f.order[j]

LEMMA ListsAreSequences ==
    ASSUME NEW ids \in Lists
    PROVE  ids \in Seq(Issues)
<1>1. CASE ids \in {<<i>> : i \in Issues}
  <2> PICK i \in Issues : ids = <<i>>
    BY <1>1
  <2> QED
    OBVIOUS
<1>2. CASE ids \in {<<i, j>> : i, j \in Issues}
  <2> PICK i \in Issues, j \in Issues : ids = <<i, j>>
    BY <1>2
  <2> QED
    OBVIOUS
<1> QED
  BY <1>1, <1>2 DEF Lists

LEMMA AskedFits ==
    ASSUME RowsInv, NEW q \in Requests, NEW f, Go(q, "asked", f), UNCHANGED rows, NewForm(f)
    PROVE  RowsInv'
<1>1. Alone(q) /\ pc'[q] = "asked" /\ form'[q] = f
  BY GoMovesOne
<1>2. PageFits(q)'
  <2>1. \A p \in DOMAIN project : project[p].version \in Nat
    BY DEF RowsInv, TypeOK, ProjectRows
  <2>2. Content(f.project)' = Content(f.project) /\ project' = project
    BY DEF rows, Content, Members
  <2>3. /\ Loaded(f.project).version = project[f.project].version
        /\ Loaded(f.project).saw = Content(f.project)
    BY DEF Loaded
  <2>4. SUFFICES ASSUME OnPage(q)' PROVE SawPage(q)'
    BY DEF PageFits
  <2>5. f.project \in DOMAIN project /\ f.page = Loaded(f.project)
    BY <1>1, <2>4 DEF NewForm, OnPage
  <2>6. /\ P(q)' = f.project /\ form'[q].page.version = project[f.project].version
        /\ form'[q].page.saw = Content(f.project)
    BY <1>1, <2>3, <2>5 DEF P
  <2> QED
    BY <2>1, <2>2, <2>5, <2>6 DEF SawPage
<1>3. PatchFits(q)'
  BY <1>1 DEF NewForm, PatchFits
<1>4. AddFits(q)'
  <2>1. AddForm(f)' <=> AddForm(f)
    BY DEF AddForm, Locals, rows
  <2> QED
    BY <1>1, <2>1 DEF NewForm, AddFits
<1>5. ViewFits(q)'
  BY <1>1 DEF NewForm, ViewFits, OrderFits, P, rows
<1>6. LockFits(q)' /\ ~Holds(q)'
  BY <1>1 DEF LockFits, Holds
<1> QED
  BY <1>1, <1>2, <1>3, <1>4, <1>5, <1>6, QuietStep DEF Fits, NewForm

LEMMA AskPageStep ==
    ASSUME RowsInv, NEW q \in Requests,
           AskPatch(q) \/ AskArchive(q) \/ AskAdd(q) \/ AskRemove(q)
    PROVE  RowsInv'
<1>1. ASSUME NEW p \in DOMAIN project, NEW b \in [name : Names] \cup [status : Statuses],
             Ask(q, [verb |-> "patch", project |-> p, page |-> Loaded(p), body |-> b])
      PROVE  RowsInv'
  BY <1>1, AskedFits DEF Ask, NewForm, Shaped
<1>2. ASSUME NEW p \in DOMAIN project,
             Ask(q, [verb |-> "archive", project |-> p, page |-> Loaded(p)])
      PROVE  RowsInv'
  BY <1>2, AskedFits DEF Ask, NewForm, Shaped
<1>3. ASSUME NEW p \in DOMAIN project, NEW ids \in Lists,
             Ask(q, [verb |-> "add", project |-> p, page |-> Loaded(p),
                     asks |-> ids, todo |-> ids, added |-> {}])
      PROVE  RowsInv'
  <2>1. ids \in Seq(Issues) /\ IsFiniteSet({})
    BY ListsAreSequences, FS_EmptySet
  <2> QED
    BY <1>3, <2>1, AskedFits DEF Ask, NewForm, Shaped, AddForm
<1>4. ASSUME NEW p \in DOMAIN project, NEW i,
             Ask(q, [verb |-> "remove", project |-> p, page |-> Loaded(p), issue |-> i])
      PROVE  RowsInv'
  BY <1>4, AskedFits DEF Ask, NewForm, Shaped
<1> QED
  BY <1>1, <1>2, <1>3, <1>4 DEF AskPatch, AskArchive, AskAdd, AskRemove

LEMMA AskNewIssueStep ==
    ASSUME RowsInv, NEW q \in Requests, AskNewIssue(q)
    PROVE  RowsInv'
<1>1. ASSUME NEW i \in Fresh, NEW p \in DOMAIN project,
             Ask(q, [verb |-> "new issue", target |-> "project", issue |-> i, project |-> p,
                     page |-> Loaded(p), asks |-> <<i>>, todo |-> <<i>>, added |-> {}])
      PROVE  RowsInv'
  <2>0. i \in Issues
    BY ProjectsAssumption
  <2>1. <<i>> \in Seq(Issues) /\ IsFiniteSet({})
    BY <2>0, FS_EmptySet
  <2> QED
    BY <1>1, <2>0, <2>1, AskedFits DEF Ask, NewForm, Shaped, AddForm
<1>2. ASSUME NEW i \in Fresh, NEW p \in DOMAIN project, NEW v \in DOMAIN tab,
             Ask(q, [verb |-> "new issue", target |-> "view", issue |-> i, project |-> p,
                     view |-> v, ids |-> {i}])
      PROVE  RowsInv'
  BY <1>2, ProjectsAssumption, AskedFits DEF Ask, NewForm, Shaped
<1> QED
  BY <1>1, <1>2 DEF AskNewIssue

LEMMA AskOnTabs ==
    ASSUME RowsInv, NEW q \in Requests,
           AskNewView(q) \/ AskEditView(q) \/ AskDropView(q) \/ AskPlace(q) \/ AskLift(q)
    PROVE  RowsInv'
<1>1. ASSUME NEW p \in DOMAIN project, NEW n \in Names,
             Ask(q, [verb |-> "add view", project |-> p, name |-> n])
      PROVE  RowsInv'
  BY <1>1, AskedFits DEF Ask, NewForm, Shaped
<1>2. ASSUME NEW p \in DOMAIN project, NEW v, NEW n \in Names,
             Ask(q, [verb |-> "edit view", project |-> p, view |-> v, name |-> n])
      PROVE  RowsInv'
  BY <1>2, AskedFits DEF Ask, NewForm, Shaped
<1>3. ASSUME NEW p \in DOMAIN project, NEW v,
             Ask(q, [verb |-> "drop view", project |-> p, view |-> v])
      PROVE  RowsInv'
  BY <1>3, AskedFits DEF Ask, NewForm, Shaped
<1>4. ASSUME NEW p \in DOMAIN project, NEW v, NEW i \in Issues,
             Ask(q, [verb |-> "place", project |-> p, view |-> v, ids |-> {i}])
      PROVE  RowsInv'
  BY <1>4, AskedFits DEF Ask, NewForm, Shaped
<1>5. ASSUME NEW p \in DOMAIN project, NEW v, NEW i \in Issues,
             Ask(q, [verb |-> "lift", project |-> p, view |-> v, issue |-> i])
      PROVE  RowsInv'
  BY <1>5, AskedFits DEF Ask, NewForm, Shaped
<1> QED
  BY <1>1, <1>2, <1>3, <1>4, <1>5 DEF AskNewView, AskEditView, AskDropView, AskPlace, AskLift

LEMMA AskReorderStep ==
    ASSUME RowsInv, NEW q \in Requests, AskReorder(q)
    PROVE  RowsInv'
<1> PICK p \in DOMAIN project : \E o \in [1..Cardinality(ViewsOf(p)) -> ViewsOf(p)] :
       /\ \A i, j \in DOMAIN o : i # j => o[i] # o[j]
       /\ Ask(q, [verb |-> "reorder", project |-> p, order |-> o])
  BY DEF AskReorder
<1> PICK o \in [1..Cardinality(ViewsOf(p)) -> ViewsOf(p)] :
       /\ \A i, j \in DOMAIN o : i # j => o[i] # o[j]
       /\ Ask(q, [verb |-> "reorder", project |-> p, order |-> o])
  OBVIOUS
<1>1. ViewsOf(p) \subseteq Views /\ IsFiniteSet(ViewsOf(p))
  BY FS_Subset DEF RowsInv, TypeOK, PlacesDiffer, ViewsOf
<1>2. Cardinality(ViewsOf(p)) \in Nat
  BY <1>1, FS_CardinalityType
<1>3. o \in Seq(Views)
  BY <1>1, <1>2
<1>4. NewForm([verb |-> "reorder", project |-> p, order |-> o])
  BY <1>3 DEF NewForm, Shaped
<1> QED
  BY <1>4, AskedFits DEF Ask

-----------------------------------------------------------------------------
(* Steps that read, lock or give up *)

LEMMA EndStep ==
    ASSUME RowsInv, NEW q \in Requests, NEW how \in Ended, End(q, how), UNCHANGED rows
    PROVE  RowsInv'
<1>1. Alone(q) /\ pc'[q] = how /\ form'[q] = NoForm
  BY GoMovesOne DEF End
<1>2. Fits(q)' /\ ~Holds(q)'
  BY <1>1, EndedFit, NoFormIsShaped
<1> QED
  BY <1>1, <1>2, QuietStep

LEMMA ReadProjectStep ==
    ASSUME RowsInv, NEW q \in Requests, ReadProject(q)
    PROVE  RowsInv'
<1> DEFINE f == [form[q] EXCEPT !.body = Overlay(@, project[P(q)])]
<1>0. pc[q] = "asked" /\ form[q].verb = "patch" /\ Go(q, "read", f) /\ UNCHANGED rows
  BY DEF ReadProject, Is
<1>1. Alone(q) /\ pc'[q] = "read" /\ form'[q] = f
  BY <1>0, GoMovesOne
<1>2. Fits(q) /\ OnPage(q) /\ Live(q)
  BY <1>0 DEF RowsInv, OnPage, Live, Ended
<1>3. /\ f.verb = "patch" /\ f.project = form[q].project /\ f.page = form[q].page
      /\ f.body = Overlay(form[q].body, project[P(q)]) /\ Shaped(f)
  <2>1. {"verb", "project", "page", "body"} \subseteq DOMAIN form[q]
    BY <1>0, <1>2 DEF Fits, Shaped
  <2> QED
    BY <1>0, <2>1 DEF Shaped
<1> HIDE DEF f
<1>4. SawPage(q)
  BY <1>2 DEF Fits, PageFits
<1>5. PageFits(q)'
  BY <1>0, <1>1, <1>3, <1>4 DEF PageFits, SawPage, P, Content, Members, rows
<1>6. PatchFits(q)'
  <2>1. project[P(q)] \in ProjectRows
    BY <1>4 DEF SawPage, RowsInv, TypeOK
  <2>2. form[q].body \in [name : Names] \cup [status : Statuses]
    BY <1>0, <1>2 DEF Fits, PatchFits
  <2>3. Overlay(form[q].body, project[P(q)]) \in Fields
    BY <2>1, <2>2 DEF Overlay, Fields, ProjectRows
  <2> QED
    BY <1>1, <1>3, <2>3 DEF PatchFits
<1>7. AddFits(q)' /\ ViewFits(q)' /\ LockFits(q)' /\ ~Holds(q)'
  BY <1>1, <1>3 DEF AddFits, ViewFits, LockFits, Holds
<1> QED
  BY <1>0, <1>1, <1>3, <1>5, <1>6, <1>7, QuietStep DEF Fits

LEMMA ReadForArchiveStep ==
    ASSUME RowsInv, NEW q \in Requests, ReadForArchive(q)
    PROVE  RowsInv'
<1>1. CASE project[P(q)].status = "archived"
  BY <1>1, EndStep DEF ReadForArchive, Ended
<1>2. CASE project[P(q)].status # "archived"
  <2>1. pc[q] = "asked" /\ form[q].verb = "archive" /\ Goto(q, "read") /\ UNCHANGED rows
    BY <1>2 DEF ReadForArchive, Is
  <2>2. Alone(q) /\ pc'[q] = "read" /\ form'[q] = form[q]
    BY <2>1, GotoMovesOne
  <2>3. Fits(q)
    BY DEF RowsInv
  <2>4. PageFits(q)'
    BY <2>1, <2>2, <2>3 DEF Fits, PageFits, OnPage, Live, Ended, SawPage, P, Content, Members, rows
  <2>5. Shaped(form[q])' /\ PatchFits(q)' /\ AddFits(q)' /\ ViewFits(q)' /\ LockFits(q)' /\ ~Holds(q)'
    BY <2>1, <2>2 DEF Shaped, PatchFits, AddFits, ViewFits, LockFits, Holds
  <2> QED
    BY <2>1, <2>2, <2>4, <2>5, QuietStep DEF Fits
<1> QED
  BY <1>1, <1>2

LEMMA LockProjectStep ==
    ASSUME RowsInv, NEW q \in Requests, LockProject(q)
    PROVE  RowsInv'
<1>1. CASE project[P(q)].version # form[q].page.version
  BY <1>1, EndStep DEF LockProject, Ended
<1>2. CASE project[P(q)].version = form[q].page.version
  <2>1. /\ pc[q] = "asked" /\ form[q].verb \in {"add", "remove"} /\ ~ProjectLocked(P(q))
        /\ Goto(q, "locked") /\ UNCHANGED rows
    BY <1>2 DEF LockProject
  <2>2. Alone(q) /\ pc'[q] = "locked" /\ form'[q] = form[q]
    BY <2>1, GotoMovesOne
  <2>3. Fits(q) /\ Live(q)
    BY <2>1 DEF RowsInv, Live, Ended
  <2>4. PageFits(q)'
    BY <2>1, <2>2, <2>3 DEF Fits, PageFits, OnPage, SawPage, P, Content, Members, rows
  <2>5. Shaped(form[q])' /\ PatchFits(q)' /\ ViewFits(q)'
    BY <2>1, <2>2, <2>3 DEF Fits, PatchFits, ViewFits
  <2>6. AddFits(q)'
    BY <2>1, <2>2, <2>3 DEF Fits, AddFits, AddForm, Locals, rows
  <2>7. LockFits(q)' /\ P(q)' = P(q)
    BY <1>2, <2>1, <2>2 DEF LockFits, P, rows
  <2> QED
    BY <2>1, <2>2, <2>3, <2>4, <2>5, <2>6, <2>7, QuietStep DEF Fits
<1> QED
  BY <1>1, <1>2

\* An "add" request that goes on with a form g, in the rows it found.
LEMMA AddGoesOn ==
    ASSUME RowsInv, NEW q \in Requests, NEW g, NEW at \in {"locked", "inserting"},
           pc[q] \in {"locked", "inserting"}, form[q].verb = "add",
           Alone(q), pc'[q] = at, form'[q] = g, UNCHANGED rows, Shaped(g),
           g.verb = "add", g.project = form[q].project, g.page = form[q].page, AddForm(g),
           at = "inserting" => g.todo # <<>> /\ Head(g.todo) \in Locals \ Foreign
    PROVE  RowsInv'
<1>1. pc'[q] = at /\ form'[q] = g
  OBVIOUS
<1>2. Fits(q) /\ Live(q) /\ OnPage(q) /\ Holds(q)
  BY DEF RowsInv, Live, Ended, OnPage, Holds
<1>3. PageFits(q)'
  BY <1>1, <1>2 DEF Fits, PageFits, SawPage, P, Content, Members, rows
<1>4. PatchFits(q)' /\ ViewFits(q)'
  BY <1>1 DEF PatchFits, ViewFits
<1>5. AddFits(q)'
  BY <1>1 DEF AddFits, AddForm, Locals, rows
<1>6. LockFits(q)' /\ P(q)' = P(q)
  BY <1>1, <1>2 DEF Fits, LockFits, P, Holds, rows
<1> QED
  BY <1>1, <1>2, <1>3, <1>4, <1>5, <1>6, QuietStep DEF Fits

LEMMA LookUpStep ==
    ASSUME RowsInv, NEW q \in Requests, LookUp(q)
    PROVE  RowsInv'
<1> DEFINE i == Head(form[q].todo)
           g == [form[q] EXCEPT !.todo = Tail(@)]
<1>1. /\ pc[q] = "locked" /\ form[q].verb = "add" /\ form[q].todo # <<>> /\ UNCHANGED rows
      /\ IF i \in Locals \ (Foreign \cup DOMAIN member \cup form[q].added)
           THEN Goto(q, "inserting") ELSE Go(q, "locked", g)
  BY DEF LookUp, Is
<1>2. Fits(q) /\ Live(q)
  BY <1>1 DEF RowsInv, Live, Ended
<1>3. Shaped(form[q]) /\ AddForm(form[q])
  BY <1>1, <1>2 DEF Fits, AddFits
<1>4. CASE i \in Locals \ (Foreign \cup DOMAIN member \cup form[q].added)
  <2>1. Alone(q) /\ pc'[q] = "inserting" /\ form'[q] = form[q]
    BY <1>1, <1>4, GotoMovesOne
  <2> QED
    BY <1>1, <1>3, <1>4, <2>1, AddGoesOn
<1>5. CASE i \notin Locals \ (Foreign \cup DOMAIN member \cup form[q].added)
  <2>1. Tail(form[q].todo) \in Seq(Issues)
    BY <1>1, <1>3, HeadTailProperties DEF AddForm
  <2>2. {"verb", "project", "page", "todo", "added"} \subseteq DOMAIN form[q]
    BY <1>1, <1>3 DEF Shaped
  <2>3. /\ g.verb = "add" /\ g.project = form[q].project /\ g.page = form[q].page
        /\ g.todo = Tail(form[q].todo) /\ g.added = form[q].added
        /\ DOMAIN g = DOMAIN form[q]
    BY <1>1, <2>2
  <2>4. AddForm(g) /\ Shaped(g)
    BY <1>3, <2>1, <2>2, <2>3 DEF AddForm, Shaped
  <2> HIDE DEF g
  <2>5. Alone(q) /\ pc'[q] = "locked" /\ form'[q] = g
    BY <1>1, <1>5, GoMovesOne
  <2> QED
    BY <1>1, <2>3, <2>4, <2>5, AddGoesOn
<1> QED
  BY <1>4, <1>5

LEMMA InsertMemberStep ==
    ASSUME RowsInv, NEW q \in Requests, InsertMember(q)
    PROVE  RowsInv'
<1> DEFINE i == Head(form[q].todo)
           g == [form[q] EXCEPT !.todo = Tail(@), !.added = @ \cup {i}]
<1>1. /\ pc[q] = "inserting" /\ form[q].verb = "add" /\ UNCHANGED rows
      /\ IF i \in DOMAIN member THEN End(q, "stale") ELSE Go(q, "locked", g)
  BY DEF InsertMember, Is
<1>2. Fits(q) /\ Live(q)
  BY <1>1 DEF RowsInv, Live, Ended
<1>3. /\ Shaped(form[q]) /\ AddForm(form[q])
      /\ form[q].todo # <<>> /\ i \in Locals \ Foreign
  BY <1>1, <1>2 DEF Fits, AddFits
<1>4. CASE i \in DOMAIN member
  BY <1>1, <1>4, EndStep DEF Ended
<1>5. CASE i \notin DOMAIN member
  <2>1. Tail(form[q].todo) \in Seq(Issues)
    BY <1>3, HeadTailProperties DEF AddForm
  <2>2. {"verb", "project", "page", "todo", "added"} \subseteq DOMAIN form[q]
    BY <1>1, <1>3 DEF Shaped
  <2>3. /\ g.verb = "add" /\ g.project = form[q].project /\ g.page = form[q].page
        /\ g.todo = Tail(form[q].todo) /\ g.added = form[q].added \cup {i}
        /\ DOMAIN g = DOMAIN form[q]
    BY <1>1, <2>2
  <2>4. IsFiniteSet(form[q].added \cup {i})
    BY <1>3, FS_AddElement DEF AddForm
  <2>5. AddForm(g) /\ Shaped(g)
    BY <1>3, <2>1, <2>2, <2>3, <2>4 DEF AddForm, Shaped
  <2> HIDE DEF g
  <2>6. Alone(q) /\ pc'[q] = "locked" /\ form'[q] = g
    BY <1>1, <1>5, GoMovesOne
  <2> QED
    BY <1>1, <2>3, <2>5, <2>6, AddGoesOn
<1> QED
  BY <1>4, <1>5

\* The places of a project's tabs.
LEMMA PlacesAreFinite ==
    ASSUME RowsInv, NEW p
    PROVE  /\ IsFiniteSet(ViewsOf(p)) /\ IsFiniteSet(Positions(p))
           /\ Positions(p) \subseteq Nat
<1>1. ViewsOf(p) \subseteq DOMAIN tab /\ IsFiniteSet(ViewsOf(p))
  BY FS_Subset DEF RowsInv, PlacesDiffer, ViewsOf
<1>2. \A v \in ViewsOf(p) : tab[v].position \in Nat
  BY <1>1 DEF RowsInv, TypeOK, ViewRows
<1> DEFINE f == [v \in ViewsOf(p) |-> tab[v].position]
<1>3. f \in Surjection(ViewsOf(p), Positions(p))
  BY DEF Surjection, Positions
<1> HIDE DEF f
<1>4. IsFiniteSet(Positions(p))
  BY <1>1, <1>3, FS_Surjection
<1> QED
  BY <1>1, <1>2, <1>4 DEF Positions

\* Tabs below place n are no more than n.
LEMMA PlacesBound ==
    ASSUME RowsInv, NEW p, NEW n \in Nat, Beyond(p, n)
    PROVE  Cardinality(ViewsOf(p)) <= n
<1> DEFINE f == [v \in ViewsOf(p) |-> tab[v].position]
<1>1. \A v \in ViewsOf(p) : tab[v].position \in 0..n-1
  BY DEF RowsInv, TypeOK, ViewRows, ViewsOf, Beyond
<1>2. \A v, o \in ViewsOf(p) : v # o => tab[v].position # tab[o].position
  BY DEF RowsInv, PlacesDiffer, ViewsOf
<1>3. f \in Injection(ViewsOf(p), 0..n-1)
  BY <1>1, <1>2 DEF Injection, IsInjective
<1>4. IsFiniteSet(0..n-1) /\ Cardinality(0..n-1) = n
  BY FS_Interval
<1> HIDE DEF f
<1> QED
  BY <1>3, <1>4, FS_Injection

\* The next place is beyond all tabs.
LEMMA NextPlaceIsBeyond ==
    ASSUME RowsInv, NEW p
    PROVE  NextPlace(p) \in Nat /\ Beyond(p, NextPlace(p))
<1> DEFINE S == {-1} \cup Positions(p)
<1>1. IsFiniteSet(Positions(p)) /\ Positions(p) \subseteq Nat
  BY PlacesAreFinite
<1>2. \E n \in S : \A m \in S : m <= n
  <2>1. CASE Positions(p) = {}
    BY <2>1
  <2>2. CASE Positions(p) # {}
    <3>1. PICK a \in Positions(p) : \A b \in Positions(p) : b <= a
      BY <1>1, <2>2, GreatestExists
    <3> QED
      BY <1>1, <3>1
  <2> QED
    BY <2>1, <2>2
<1>3. Furthest(S) \in S /\ \A m \in S : m <= Furthest(S)
  BY <1>2 DEF Furthest
<1>4. NextPlace(p) = Furthest(S) + 1
  BY DEF NextPlace
<1>5. \A v \in ViewsOf(p) : tab[v].position \in Positions(p)
  BY DEF Positions
<1>6. Furthest(S) \in Int /\ -1 <= Furthest(S)
  BY <1>1, <1>3
<1>7. \A v \in ViewsOf(p) : tab[v].position \in Nat /\ tab[v].position <= Furthest(S)
  BY <1>1, <1>3, <1>5
<1> HIDE DEF S
<1> QED
  BY <1>4, <1>6, <1>7 DEF Beyond

LEMMA ReadPlaceStep ==
    ASSUME RowsInv, NEW q \in Requests, ReadPlace(q)
    PROVE  RowsInv'
<1> PICK f : f = [verb |-> "add view", project |-> P(q), name |-> form[q].name,
                 place |-> NextPlace(P(q)), overtaken |-> FALSE]
  OBVIOUS
<1>1. pc[q] = "asked" /\ form[q].verb = "add view" /\ Go(q, "read", f) /\ UNCHANGED rows
  BY DEF ReadPlace, Is
<1>2. Alone(q) /\ pc'[q] = "read" /\ form'[q] = f
  BY <1>1, GoMovesOne
<1>3. P(q) \in DOMAIN project /\ form[q].name \in Names
  BY <1>1 DEF RowsInv, Fits, ViewFits, Live, Ended
<1>4. f.place \in Nat /\ Beyond(P(q), f.place)
  BY NextPlaceIsBeyond
<1>5. /\ f.verb = "add view" /\ f.project = P(q) /\ f.name = form[q].name
      /\ {"verb", "project", "name", "place", "overtaken"} \subseteq DOMAIN f
  OBVIOUS
<1>8. P(q)' = P(q)
  BY <1>2, <1>5 DEF P
<1>6. ViewFits(q)'
  <2>1. Beyond(P(q), f.place)'
    BY <1>1, <1>4, <1>8 DEF Beyond, ViewsOf, rows
  <2> QED
    BY <1>1, <1>2, <1>3, <1>4, <1>5, <1>8, <2>1 DEF ViewFits, rows
<1>7. Shaped(form[q])' /\ PageFits(q)' /\ PatchFits(q)' /\ AddFits(q)' /\ LockFits(q)' /\ ~Holds(q)'
  BY <1>2, <1>5 DEF Shaped, PageFits, OnPage, PatchFits, AddFits, LockFits, Holds
<1> QED
  BY <1>1, <1>2, <1>6, <1>7, QuietStep DEF Fits

LEMMA SkipAttachStep ==
    ASSUME RowsInv, NEW q \in Requests, SkipAttach(q)
    PROVE  RowsInv'
BY EndStep DEF SkipAttach, Ended

\* A request that has no page and no place goes on with its form.
LEMMA GotoFits ==
    ASSUME RowsInv, NEW q \in Requests, NEW at \in {"read", "locked"}, Goto(q, at),
           UNCHANGED rows, Live(q),
           \/ at = "read" /\ form[q].verb \in {"edit view", "drop view", "adopt"}
           \/ at = "locked" /\ form[q].verb = "reorder" /\ Named(q) \subseteq ViewsOf(P(q))
    PROVE  RowsInv'
<1>1. Alone(q) /\ pc'[q] = at /\ form'[q] = form[q]
  BY GotoMovesOne
<1>2. Fits(q)
  BY DEF RowsInv
<1>3. Shaped(form[q])' /\ PageFits(q)' /\ PatchFits(q)' /\ AddFits(q)' /\ LockFits(q)' /\ ~Holds(q)'
  BY <1>1, <1>2 DEF Fits, Shaped, PageFits, OnPage, PatchFits, AddFits, LockFits, Holds
<1>4. ViewFits(q)'
  <2>1. ViewFits(q) /\ Named(q)' = Named(q) /\ ViewsOf(P(q))' = ViewsOf(P(q)) /\ P(q)' = P(q)
    BY <1>1, <1>2 DEF Fits, Named, P, ViewsOf, rows
  <2>2. form[q].verb # "add view" /\ project' = project /\ Live(q)
    BY DEF rows
  <2>3. form[q].verb = "reorder" => OrderFits(q) /\ Named(q) \subseteq ViewsOf(P(q))
    BY <2>1 DEF ViewFits
  <2>4. form[q].verb = "reorder" => OrderFits(q)'
    BY <1>1, <2>1, <2>3 DEF OrderFits
  <2> QED
    BY <1>1, <2>1, <2>2, <2>4 DEF ViewFits
<1> QED
  BY <1>1, <1>3, <1>4, QuietStep DEF Fits

LEMMA CheckViewStep ==
    ASSUME RowsInv, NEW q \in Requests, CheckEdited(q) \/ CheckDropped(q)
    PROVE  RowsInv'
<1>1. /\ UNCHANGED rows /\ Live(q) /\ form[q].verb \in {"edit view", "drop view"}
      /\ Goto(q, "read") \/ End(q, "missing")
  BY DEF CheckEdited, CheckDropped, CheckView, Is, Live, Ended
<1> QED
  BY <1>1, GotoFits, EndStep DEF Ended

LEMMA LockViewsStep ==
    ASSUME RowsInv, NEW q \in Requests, LockViews(q)
    PROVE  RowsInv'
<1>1. /\ UNCHANGED rows /\ Live(q) /\ form[q].verb = "reorder"
      /\ (Goto(q, "locked") /\ Named(q) = ViewsOf(P(q))) \/ End(q, "refused")
  BY DEF LockViews, Is, Live, Ended
<1> QED
  BY <1>1, GotoFits, EndStep DEF Ended

LEMMA CheckIssuesStep ==
    ASSUME RowsInv, NEW q \in Requests, CheckIssues(q)
    PROVE  RowsInv'
<1> DEFINE f == [form[q] EXCEPT !.ids = @ \cap (Locals \ Foreign)]
<1>1. pc[q] = "asked" /\ form[q].verb = "place" /\ Go(q, "read", f) /\ UNCHANGED rows
  BY DEF CheckIssues, Is
<1>2. Alone(q) /\ pc'[q] = "read" /\ form'[q] = f
  BY <1>1, GoMovesOne
<1>3. {"verb", "project", "view", "ids"} \subseteq DOMAIN form[q]
  BY <1>1 DEF RowsInv, Fits, Shaped
<1>4. f.verb = "place" /\ f.ids = form[q].ids \cap (Locals \ Foreign) /\ DOMAIN f = DOMAIN form[q]
  BY <1>1, <1>3
<1> HIDE DEF f
<1>5. AddFits(q)'
  BY <1>1, <1>2, <1>4 DEF AddFits, Locals, rows
<1>6. /\ Shaped(form[q])' /\ PageFits(q)' /\ PatchFits(q)' /\ ViewFits(q)' /\ LockFits(q)'
      /\ ~Holds(q)'
  BY <1>2, <1>3, <1>4 DEF Shaped, PageFits, OnPage, PatchFits, ViewFits, LockFits, Holds
<1> QED
  BY <1>1, <1>2, <1>5, <1>6, QuietStep DEF Fits

LEMMA AbortStep ==
    ASSUME RowsInv, NEW q \in Requests, Abort(q)
    PROVE  RowsInv'
BY EndStep DEF Abort, Ended

-----------------------------------------------------------------------------
(* Steps that change projects *)

\* No project goes, and no issue.
Grows == /\ DOMAIN project \subseteq DOMAIN project'
         /\ Locals \subseteq Locals'
         /\ \A i \in Issues : issue[i] # "absent" => issue'[i] # "absent"

\* What a step may make of a project.
Kept(p)  == project'[p].version = project[p].version /\ Content(p)' = Content(p)
Rises(p) == project'[p].version \in Nat /\ project'[p].version > project[p].version

\* The tabs are as they were.
LEMMA SameTabsFit ==
    ASSUME RowsInv, NEW o \in Requests, pc'[o] = pc[o], form'[o] = form[o],
           tab' = tab, DOMAIN project \subseteq DOMAIN project'
    PROVE  ViewFits(o)'
<1>1. ViewFits(o)
  BY DEF RowsInv, Fits
<1>2. P(o)' = P(o) /\ Named(o)' = Named(o) /\ (Live(o)' <=> Live(o))
  BY DEF P, Named, Live
<1>3. ViewsOf(P(o))' = ViewsOf(P(o))
  BY <1>2 DEF ViewsOf
<1>4. \A n : Beyond(P(o), n)' <=> Beyond(P(o), n)
  BY <1>3 DEF Beyond
<1>5. form[o].verb = "reorder" /\ Live(o) => OrderFits(o)'
  BY <1>1, <1>2, <1>3 DEF ViewFits, OrderFits
<1> QED
  BY <1>1, <1>2, <1>4, <1>5 DEF ViewFits

\* A request that does not move stays fit, if no project that it holds changes.
LEMMA OthersFit ==
    ASSUME RowsInv, NEW o \in Requests, pc'[o] = pc[o], form'[o] = form[o], Grows,
           \A p \in DOMAIN project : Kept(p) \/ (Rises(p) /\ ~(Holds(o) /\ P(o) = p)),
           ViewFits(o)'
    PROVE  Fits(o)'
<1>0. Fits(o)
  BY DEF RowsInv
<1>1. /\ P(o)' = P(o) /\ (Live(o)' <=> Live(o)) /\ (Holds(o)' <=> Holds(o))
      /\ (OnPage(o)' <=> OnPage(o)) /\ (PatchFits(o)' <=> PatchFits(o))
      /\ (Shaped(form[o])' <=> Shaped(form[o]))
  BY DEF P, Live, Holds, OnPage, PatchFits, Shaped
<1>2. PageFits(o)'
  <2>1. SUFFICES ASSUME OnPage(o) PROVE SawPage(o)'
    BY <1>1 DEF PageFits
  <2>2. SawPage(o)
    BY <1>0, <2>1 DEF Fits, PageFits
  <2>3. project[P(o)].version \in Nat
    BY <2>2 DEF SawPage, RowsInv, TypeOK, ProjectRows
  <2>4. Kept(P(o)) \/ Rises(P(o))
    BY <2>2 DEF SawPage
  <2>5. /\ form[o].page.version \in Nat /\ form[o].page.version <= project[P(o)].version
        /\ form[o].page.version = project[P(o)].version => form[o].page.saw = Content(P(o))
        /\ P(o) \in DOMAIN project'
    BY <2>2 DEF SawPage, Grows
  <2>6. CASE Kept(P(o))
    BY <1>1, <2>3, <2>5, <2>6 DEF Kept, SawPage
  <2>7. CASE Rises(P(o))
    BY <1>1, <2>3, <2>5, <2>7 DEF Rises, SawPage
  <2> QED
    BY <2>4, <2>6, <2>7
<1>3. AddFits(o)'
  BY <1>0, <1>1 DEF Fits, AddFits, AddForm, Grows
<1>4. LockFits(o)'
  <2>1. LockFits(o)
    BY <1>0 DEF Fits
  <2>2. Holds(o) => P(o) \in DOMAIN project
    <3>1. Holds(o) => OnPage(o)
      BY <2>1 DEF LockFits, Holds, OnPage, Live, Ended
    <3> QED
      BY <1>0, <3>1 DEF Fits, PageFits, SawPage
  <2>3. Holds(o) => Kept(P(o))
    BY <2>2
  <2> QED
    BY <1>1, <2>1, <2>3 DEF LockFits, Kept
<1> QED
  BY <1>0, <1>1, <1>2, <1>3, <1>4 DEF Fits

LEMMA EndMovesOne ==
    ASSUME RowsInv, NEW q \in Requests, NEW how \in Ended, End(q, how)
    PROVE  /\ Alone(q) /\ pc'[q] = how /\ form'[q] = NoForm
           /\ Fits(q)' /\ ~Holds(q)'
<1>1. Alone(q) /\ pc'[q] = how /\ form'[q] = NoForm
  BY GoMovesOne DEF End
<1> QED
  BY <1>1, EndedFit, NoFormIsShaped

LEMMA ProjectStep ==
    ASSUME RowsInv, NEW q \in Requests, NEW how \in Ended, End(q, how),
           UNCHANGED <<issue, tab, placed>>,
           DOMAIN project \subseteq DOMAIN project', DOMAIN project' \subseteq Ids,
           \A p \in DOMAIN project' : project'[p] \in ProjectRows,
           DOMAIN member' \subseteq Locals \ Foreign, IsFiniteSet(DOMAIN member'),
           \A i \in DOMAIN member' : member'[i] \in DOMAIN project',
           \A p \in DOMAIN project :
              Kept(p) \/ (Rises(p) /\ \A o \in Requests \ {q} : ~(Holds(o) /\ P(o) = p)),
           CountsAddUp'
    PROVE  RowsInv'
<1>1. Alone(q) /\ Fits(q)' /\ ~Holds(q)' /\ pc'[q] = how /\ form'[q] = NoForm
  BY EndMovesOne
<1>2. Grows
  BY DEF Grows, Locals
<1>3. \A o \in Requests \ {q} : Fits(o)'
  BY <1>1, <1>2, SameTabsFit, OthersFit DEF Alone
<1>4. Exclusive'
  BY <1>1 DEF RowsInv, Exclusive, Alone, Holds, P
<1>5. TypeOK'
  BY <1>1 DEF RowsInv, TypeOK, Alone, Locals
<1>6. PlacesDiffer'
  BY DEF RowsInv, PlacesDiffer
<1> QED
  BY <1>1, <1>3, <1>4, <1>5, <1>6 DEF RowsInv, Alone

LEMMA CreateProjectStep ==
    ASSUME RowsInv, NEW q \in Requests, NEW p \in Ids, CreateProject(q, p)
    PROVE  RowsInv'
<1>0. p \notin DOMAIN project /\ UNCHANGED <<issue, member, tab, placed>>
  BY DEF CreateProject
<1> PICK f \in Fields :
       IF NameIsFree(p, f)
         THEN project' = Put(project, p, NewProject(f)) /\ Go(q, "done", NoForm)
         ELSE Go(q, "taken", NoForm) /\ UNCHANGED project
  BY DEF CreateProject
<1>1. CASE ~NameIsFree(p, f)
  BY <1>0, <1>1, EndStep DEF End, Ended, rows
<1>2. CASE NameIsFree(p, f)
  <2>1. project' = Put(project, p, NewProject(f)) /\ End(q, "done")
    BY <1>2 DEF End
  <2>2. NewProject(f) \in ProjectRows /\ NewProject(f).issues = 0 /\ NewProject(f).closed = 0
    BY DEF NewProject, ProjectRows, Fields
  <2>3. /\ DOMAIN project' = DOMAIN project \cup {p} /\ project'[p] = NewProject(f)
        /\ \A o \in DOMAIN project : project'[o] = project[o]
    BY <1>0, <2>1 DEF Put
  <2>4. DOMAIN project' \subseteq Ids /\ \A o \in DOMAIN project' : project'[o] \in ProjectRows
    BY <2>2, <2>3 DEF RowsInv, TypeOK
  <2>5. \A o : Members(o)' = Members(o)
    BY <1>0 DEF Members
  <2>6. \A o \in DOMAIN project : Kept(o)
    BY <2>3, <2>5 DEF Kept, Content
  <2>7. CountsAddUp'
    <3>1. Members(p) = {}
      BY <1>0 DEF Members, RowsInv, TypeOK
    <3>2. Cardinality(Members(p)) = 0
      BY <3>1, FS_EmptySet
    <3> QED
      BY <2>2, <2>3, <2>5, <3>2 DEF CountsAddUp, RowsInv
  <2> QED
    BY <1>0, <2>1, <2>3, <2>4, <2>6, <2>7, ProjectStep DEF RowsInv, TypeOK, Ended
<1> QED
  BY <1>1, <1>2

\* A statement that writes the row of a project nobody holds, and raises its version.
LEMMA RowStep ==
    ASSUME RowsInv, NEW q \in Requests, NEW how \in Ended, End(q, how),
           UNCHANGED <<issue, member, tab, placed>>,
           NEW p \in DOMAIN project, NEW row \in ProjectRows,
           project' = [project EXCEPT ![p] = row],
           row.version = project[p].version + 1,
           row.issues = project[p].issues, row.closed = project[p].closed,
           \A o \in Requests \ {q} : ~(Holds(o) /\ P(o) = p)
    PROVE  RowsInv'
<1>1. /\ DOMAIN project' = DOMAIN project /\ project'[p] = row
      /\ \A o \in DOMAIN project \ {p} : project'[o] = project[o]
  OBVIOUS
<1>2. \A o \in DOMAIN project : project[o] \in ProjectRows
  BY DEF RowsInv, TypeOK
<1>3. \A o : Members(o)' = Members(o)
  BY DEF Members
<1>4. Rises(p) /\ \A o \in DOMAIN project \ {p} : Kept(o)
  BY <1>1, <1>2, <1>3 DEF Rises, Kept, Content, ProjectRows
<1>5. CountsAddUp'
  BY <1>1, <1>3 DEF CountsAddUp, RowsInv
<1> QED
  BY <1>1, <1>2, <1>4, <1>5, ProjectStep DEF RowsInv, TypeOK

LEMMA UpdateProjectStep ==
    ASSUME RowsInv, NEW q \in Requests, UpdateProject(q)
    PROVE  RowsInv'
<1>1. /\ pc[q] = "read" /\ form[q].verb = "patch" /\ ~ProjectLocked(P(q))
      /\ UNCHANGED <<issue, member, tab, placed>>
  BY DEF UpdateProject, Is
<1>2. OnPage(q) /\ P(q) \in DOMAIN project /\ form[q].body \in Fields
  BY <1>1 DEF RowsInv, Fits, PageFits, SawPage, PatchFits, OnPage, Live, Ended
<1>3. CASE project[P(q)].version = form[q].page.version /\ NameIsFree(P(q), form[q].body)
  <2> DEFINE row == [project[P(q)] EXCEPT !.name = form[q].body.name,
                        !.status = form[q].body.status, !.version = @ + 1]
  <2>1. project' = [project EXCEPT ![P(q)] = row] /\ End(q, "done")
    BY <1>3 DEF UpdateProject
  <2>2. project[P(q)] \in ProjectRows
    BY <1>2 DEF RowsInv, TypeOK
  <2>5. project[P(q)].version + 1 \in Nat \ {0}
    BY <2>2 DEF ProjectRows
  <2>6. form[q].body.name \in Names /\ form[q].body.status \in Statuses
    BY <1>2 DEF Fields
  <2>7. row \in ProjectRows
    BY <2>2, <2>5, <2>6 DEF ProjectRows
  <2>3. /\ row \in ProjectRows /\ row.version = project[P(q)].version + 1
        /\ row.issues = project[P(q)].issues /\ row.closed = project[P(q)].closed
    BY <2>2, <2>7 DEF ProjectRows
  <2>4. \A o \in Requests \ {q} : ~(Holds(o) /\ P(o) = P(q))
    BY <1>1 DEF ProjectLocked, Holds
  <2> HIDE DEF row
  <2> QED
    BY <1>1, <1>2, <2>1, <2>3, <2>4, RowStep DEF Ended
<1>4. CASE ~(project[P(q)].version = form[q].page.version /\ NameIsFree(P(q), form[q].body))
  BY <1>1, <1>4, EndStep DEF UpdateProject, Ended, rows
<1> QED
  BY <1>3, <1>4

LEMMA ArchiveStep ==
    ASSUME RowsInv, NEW q \in Requests, Archive(q)
    PROVE  RowsInv'
<1>1. /\ pc[q] = "read" /\ form[q].verb = "archive" /\ ~ProjectLocked(P(q))
      /\ UNCHANGED <<issue, member, tab, placed>>
  BY DEF Archive, Is
<1>2. OnPage(q) /\ P(q) \in DOMAIN project
  BY <1>1 DEF RowsInv, Fits, PageFits, SawPage, OnPage, Live, Ended
<1>3. CASE project[P(q)].version = form[q].page.version
  <2> DEFINE row == [project[P(q)] EXCEPT !.status = "archived", !.version = @ + 1]
  <2>1. project' = [project EXCEPT ![P(q)] = row] /\ End(q, "done")
    BY <1>3 DEF Archive
  <2>2. project[P(q)] \in ProjectRows
    BY <1>2 DEF RowsInv, TypeOK
  <2>5. project[P(q)].version + 1 \in Nat \ {0} /\ "archived" \in Statuses
    BY <2>2 DEF ProjectRows, Statuses
  <2>6. row \in ProjectRows
    BY <2>2, <2>5 DEF ProjectRows
  <2>3. /\ row \in ProjectRows /\ row.version = project[P(q)].version + 1
        /\ row.issues = project[P(q)].issues /\ row.closed = project[P(q)].closed
    BY <2>2, <2>6 DEF ProjectRows
  <2>4. \A o \in Requests \ {q} : ~(Holds(o) /\ P(o) = P(q))
    BY <1>1 DEF ProjectLocked, Holds
  <2> HIDE DEF row
  <2> QED
    BY <1>1, <1>2, <2>1, <2>3, <2>4, RowStep DEF Ended
<1>4. CASE project[P(q)].version # form[q].page.version
  BY <1>1, <1>4, EndStep DEF Archive, Ended, rows
<1> QED
  BY <1>3, <1>4

-----------------------------------------------------------------------------
(* Steps that change the members of a project *)

\* Who holds a project alone changes its members, and counts them.
LEMMA RecountStep ==
    ASSUME RowsInv, NEW q \in Requests, Holds(q), P(q) \in DOMAIN project,
           End(q, "done"), UNCHANGED <<issue, tab, placed>>,
           NEW m, DOMAIN m \subseteq Locals \ Foreign, IsFiniteSet(DOMAIN m),
           \A i \in DOMAIN m : m[i] \in DOMAIN project,
           \A p : p # P(q) => {i \in DOMAIN m : m[i] = p} = Members(p),
           member' = m, project' = Recount(q, m)
    PROVE  RowsInv'
<1> DEFINE now == {i \in DOMAIN m : m[i] = P(q)}
<1>1. /\ IsFiniteSet(now) /\ IsFiniteSet(Closed(now))
      /\ Cardinality(now) \in Nat /\ Cardinality(Closed(now)) \in Nat
      /\ Cardinality(Closed(now)) <= Cardinality(now)
  <2>1. IsFiniteSet(now) /\ Closed(now) \subseteq now
    BY FS_Subset DEF Closed
  <2> QED
    BY <2>1, FS_Subset, FS_CardinalityType
<1>2. \A p \in DOMAIN project : project[p] \in ProjectRows
  BY DEF RowsInv, TypeOK
<1> DEFINE row == [project[P(q)] EXCEPT !.issues = Cardinality(now),
                      !.closed = Cardinality(Closed(now)), !.version = @ + 1]
<1>3. project' = [project EXCEPT ![P(q)] = row]
  BY DEF Recount
<1>4. /\ row \in ProjectRows /\ row.version = project[P(q)].version + 1
      /\ row.issues = Cardinality(now) /\ row.closed = Cardinality(Closed(now))
  <2>1. project[P(q)] \in ProjectRows
    BY <1>2
  <2>2. project[P(q)].version + 1 \in Nat \ {0}
    BY <2>1 DEF ProjectRows
  <2>3. row \in ProjectRows
    BY <1>1, <2>1, <2>2 DEF ProjectRows
  <2> HIDE DEF now
  <2> QED
    BY <2>1, <2>3 DEF ProjectRows
<1> HIDE DEF row
<1>5. /\ DOMAIN project' = DOMAIN project /\ project'[P(q)] = row
      /\ \A p \in DOMAIN project \ {P(q)} : project'[p] = project[p]
  BY <1>3
<1>6. /\ \A p : p = P(q) => Members(p)' = now
      /\ \A p : p # P(q) => Members(p)' = Members(p)
  BY DEF Members
<1>7. Rises(P(q)) /\ \A p \in DOMAIN project \ {P(q)} : Kept(p)
  <2>1. Rises(P(q))
    BY <1>2, <1>4, <1>5 DEF Rises, ProjectRows
  <2>2. \A p \in DOMAIN project \ {P(q)} : Kept(p)
    BY <1>5, <1>6 DEF Kept, Content
  <2> QED
    BY <2>1, <2>2
<1>8. CountsAddUp'
  BY <1>1, <1>4, <1>5, <1>6 DEF CountsAddUp, RowsInv
<1>9. \A o \in Requests \ {q} : ~(Holds(o) /\ P(o) = P(q))
  BY DEF RowsInv, Exclusive
<1> QED
  BY <1>2, <1>4, <1>5, <1>7, <1>8, <1>9, ProjectStep DEF RowsInv, TypeOK, Ended

LEMMA CommitAddStep ==
    ASSUME RowsInv, NEW q \in Requests, CommitAdd(q)
    PROVE  RowsInv'
<1> DEFINE with == [i \in DOMAIN member \cup form[q].added |->
                       IF i \in DOMAIN member THEN member[i] ELSE P(q)]
<1>1. /\ pc[q] = "locked" /\ form[q].verb = "add" /\ End(q, "done")
      /\ UNCHANGED <<issue, tab, placed>> /\ member' = with
      /\ project' = IF form[q].added = {} THEN project ELSE Recount(q, with)
  BY DEF CommitAdd, Is
<1>2. Holds(q) /\ P(q) \in DOMAIN project
  BY <1>1 DEF RowsInv, Fits, PageFits, SawPage, OnPage, Live, Ended, Holds
<1>3. form[q].added \subseteq Locals \ Foreign /\ IsFiniteSet(form[q].added)
  BY <1>1 DEF RowsInv, Fits, AddFits, AddForm, Live, Ended
<1>4. /\ DOMAIN member \subseteq Locals \ Foreign /\ IsFiniteSet(DOMAIN member)
      /\ \A i \in DOMAIN member : member[i] \in DOMAIN project
  BY DEF RowsInv, TypeOK
<1>5. /\ DOMAIN with \subseteq Locals \ Foreign /\ IsFiniteSet(DOMAIN with)
      /\ \A i \in DOMAIN with : with[i] \in DOMAIN project
  BY <1>2, <1>3, <1>4, FS_Union
<1>6. \A p : p # P(q) => {i \in DOMAIN with : with[i] = p} = Members(p)
  BY DEF Members
<1>7. CASE form[q].added = {}
  <2>1. \A p : Members(p)' = Members(p)
    BY <1>1, <1>7 DEF Members
  <2>2. \A p \in DOMAIN project : Kept(p)
    BY <1>1, <1>7, <2>1 DEF Kept, Content
  <2>3. CountsAddUp'
    BY <1>1, <1>7, <2>1 DEF CountsAddUp, RowsInv
  <2> HIDE DEF with
  <2> QED
    BY <1>1, <1>5, <1>7, <2>2, <2>3, ProjectStep DEF RowsInv, TypeOK, Ended
<1>8. CASE form[q].added # {}
  <2> HIDE DEF with
  <2> QED
    BY <1>1, <1>2, <1>5, <1>6, <1>8, RecountStep
<1> QED
  BY <1>7, <1>8

LEMMA CommitRemoveStep ==
    ASSUME RowsInv, NEW q \in Requests, CommitRemove(q)
    PROVE  RowsInv'
<1> DEFINE without == [i \in DOMAIN member \ {form[q].issue} |-> member[i]]
<1>1. pc[q] = "locked" /\ form[q].verb = "remove" /\ UNCHANGED <<issue, tab, placed>>
  BY DEF CommitRemove, Is
<1>2. CASE form[q].issue \notin Members(P(q))
  BY <1>2, EndStep DEF CommitRemove, Ended, rows
<1>3. CASE form[q].issue \in Members(P(q))
  <2>1. End(q, "done") /\ member' = without /\ project' = Recount(q, without)
    BY <1>3 DEF CommitRemove
  <2>2. Holds(q) /\ P(q) \in DOMAIN project
    BY <1>1 DEF RowsInv, Fits, PageFits, SawPage, OnPage, Live, Ended, Holds
  <2>3. /\ DOMAIN without \subseteq Locals \ Foreign /\ IsFiniteSet(DOMAIN without)
        /\ \A i \in DOMAIN without : without[i] \in DOMAIN project
    BY FS_Subset DEF RowsInv, TypeOK
  <2>4. \A p : p # P(q) => {i \in DOMAIN without : without[i] = p} = Members(p)
    BY <1>3 DEF Members
  <2> HIDE DEF without
  <2> QED
    BY <1>1, <2>1, <2>2, <2>3, <2>4, RecountStep
<1> QED
  BY <1>2, <1>3

-----------------------------------------------------------------------------
(* Steps that change issues, or what stands on a tab *)

Places == Ended \cup {"idle", "asked", "read", "locked", "inserting", "created", "answered"}

\* Whoever moves is fit, and does not come to hold a project.
LEMMA IssueStep ==
    ASSUME RowsInv, pc' \in [Requests -> Places], DOMAIN form' = Requests,
           \A o \in Requests : (pc'[o] = pc[o] /\ form'[o] = form[o]) \/ (Fits(o)' /\ ~Holds(o)'),
           UNCHANGED <<project, member, tab>>,
           issue' \in [Issues -> {"absent", "remote", "open", "closed"}],
           Locals \subseteq Locals', \A i \in Issues : issue[i] # "absent" => issue'[i] # "absent",
           placed' \subseteq (DOMAIN tab) \X Locals'
    PROVE  RowsInv'
<1>1. \A p : Members(p)' = Members(p)
  BY DEF Members
<1>2. \A p \in DOMAIN project : Kept(p)
  BY <1>1 DEF Kept, Content
<1>3. Grows
  BY DEF Grows
<1>5. \A o \in Requests : Fits(o)'
  BY <1>2, <1>3, SameTabsFit, OthersFit
<1>6. Exclusive'
  BY DEF RowsInv, Exclusive, Holds, P
<1>7. TypeOK'
  BY DEF RowsInv, TypeOK, Places
<1>8. PlacesDiffer' /\ CountsAddUp'
  BY <1>1 DEF RowsInv, PlacesDiffer, CountsAddUp
<1> QED
  BY <1>5, <1>6, <1>7, <1>8 DEF RowsInv

LEMMA SyncIssueStep ==
    ASSUME RowsInv, NEW i \in Issues, SyncIssue(i)
    PROVE  RowsInv'
<1> PICK s \in {"open", "closed"} : issue' = [issue EXCEPT ![i] = s]
  BY DEF SyncIssue
<1>1. /\ UNCHANGED <<project, member, tab, placed, pc, form>>
      /\ issue \in [Issues -> {"absent", "remote", "open", "closed"}]
      /\ pc \in [Requests -> Places] /\ DOMAIN form = Requests
      /\ placed \subseteq (DOMAIN tab) \X Locals
  BY DEF SyncIssue, RowsInv, TypeOK, Places
<1>2. /\ Locals \subseteq Locals' /\ \A j \in Issues : issue[j] # "absent" => issue'[j] # "absent"
      /\ issue' \in [Issues -> {"absent", "remote", "open", "closed"}]
  BY <1>1 DEF Locals
<1>3. placed' \subseteq (DOMAIN tab) \X Locals'
  BY <1>1, <1>2
<1> QED
  BY <1>1, <1>2, <1>3, IssueStep

LEMMA AloneMoves ==
    ASSUME NEW q \in Requests, Alone(q), Fits(q)', ~Holds(q)'
    PROVE  /\ pc' \in [Requests -> Places] /\ DOMAIN form' = Requests
           /\ \A o \in Requests : (pc'[o] = pc[o] /\ form'[o] = form[o]) \/ (Fits(o)' /\ ~Holds(o)')
<1>1. pc' \in [Requests -> Places] /\ DOMAIN form' = Requests
  BY DEF Alone, Places
<1>2. \A o \in Requests \ {q} : pc'[o] = pc[o] /\ form'[o] = form[o]
  BY DEF Alone
<1>3. ASSUME NEW o \in Requests
      PROVE  (pc'[o] = pc[o] /\ form'[o] = form[o]) \/ (Fits(o)' /\ ~Holds(o)')
  <2>1. CASE o = q
    BY <2>1
  <2>2. CASE o # q
    BY <1>2, <2>2
  <2> QED
    BY <2>1, <2>2
<1> QED
  BY <1>1, <1>3

LEMMA CreateIssueStep ==
    ASSUME RowsInv, NEW q \in Requests, CreateIssue(q)
    PROVE  RowsInv'
<1>1. /\ pc[q] = "asked" /\ form[q].verb = "new issue" /\ Goto(q, "created")
      /\ UNCHANGED <<project, member, tab, placed>>
  BY DEF CreateIssue, Is
<1> PICK s \in {"remote", "open"} : issue' = [issue EXCEPT ![form[q].issue] = s]
  BY DEF CreateIssue
<1>2. Alone(q) /\ pc'[q] = "created" /\ form'[q] = form[q]
  BY <1>1, GotoMovesOne
<1>3. Fits(q) /\ Live(q) /\ form[q].issue \in Issues /\ issue[form[q].issue] = "absent"
  BY <1>1 DEF RowsInv, Fits, AddFits, Live, Ended, CreateIssue
<1>4. /\ issue \in [Issues -> {"absent", "remote", "open", "closed"}]
      /\ placed \subseteq (DOMAIN tab) \X Locals
  BY DEF RowsInv, TypeOK
<1>5. /\ Locals \subseteq Locals' /\ \A j \in Issues : issue[j] # "absent" => issue'[j] # "absent"
      /\ issue'[form[q].issue] # "absent"
  BY <1>3, <1>4 DEF Locals
<1>6. placed' \subseteq (DOMAIN tab) \X Locals'
  BY <1>1, <1>4, <1>5
<1>7. PageFits(q)'
  BY <1>1, <1>2, <1>3 DEF Fits, PageFits, OnPage, SawPage, P, Content, Members
<1>8. AddFits(q)'
  BY <1>1, <1>2, <1>3, <1>5 DEF Fits, AddFits, AddForm
<1>9. Shaped(form[q])' /\ PatchFits(q)' /\ ViewFits(q)' /\ LockFits(q)' /\ ~Holds(q)'
  BY <1>1, <1>2, <1>3 DEF Fits, Shaped, PatchFits, ViewFits, LockFits, Holds
<1>10. Fits(q)'
  BY <1>7, <1>8, <1>9 DEF Fits
<1> QED
  BY <1>1, <1>2, <1>4, <1>5, <1>6, <1>9, <1>10, AloneMoves, IssueStep

LEMMA UpsertNewIssueStep ==
    ASSUME RowsInv, NEW q \in Requests, UpsertNewIssue(q)
    PROVE  RowsInv'
<1> PICK i : i = form[q].issue
  OBVIOUS
<1>1. /\ pc[q] = "created" /\ form[q].verb = "new issue"
      /\ issue' = [issue EXCEPT ![i] = IF @ = "remote" THEN "open" ELSE @]
      /\ UNCHANGED <<project, member, tab, placed>>
  BY DEF UpsertNewIssue, Is
<1>2. Fits(q) /\ Live(q) /\ i \in Issues /\ issue[i] # "absent"
  BY <1>1 DEF RowsInv, Fits, AddFits, Live, Ended
<1>3. /\ issue \in [Issues -> {"absent", "remote", "open", "closed"}]
      /\ placed \subseteq (DOMAIN tab) \X Locals
  BY DEF RowsInv, TypeOK
<1>4. /\ issue' \in [Issues -> {"absent", "remote", "open", "closed"}]
      /\ Locals \subseteq Locals' /\ \A j \in Issues : issue[j] # "absent" => issue'[j] # "absent"
      /\ i \in Locals'
  BY <1>1, <1>2, <1>3 DEF Locals
<1>5. placed' \subseteq (DOMAIN tab) \X Locals'
  BY <1>1, <1>3, <1>4
<1>6. Shaped(form[q]) /\ AddFits(q)
  BY <1>2 DEF Fits
<1>7. CASE form[q].target = "view"
  <2> PICK f : f = [form[q] EXCEPT !.verb = "place"]
    OBVIOUS
  <2>1. Alone(q) /\ pc'[q] = "read" /\ form'[q] = f
    BY <1>7, GoMovesOne DEF UpsertNewIssue
  <2>2. {"verb", "target", "issue", "project", "view", "ids"} \subseteq DOMAIN form[q]
    BY <1>1, <1>6, <1>7 DEF Shaped
  <2>3. /\ f.verb = "place" /\ f.ids = form[q].ids
        /\ {"verb", "project", "view", "ids"} \subseteq DOMAIN f
    BY <2>2
  <2>4. f.ids \subseteq Locals'
    BY <1>1, <1>2, <1>4, <1>6, <1>7, <2>3 DEF AddFits
  <2>5. Shaped(form[q])' /\ PageFits(q)' /\ PatchFits(q)' /\ ViewFits(q)' /\ LockFits(q)' /\ ~Holds(q)'
    BY <2>1, <2>3 DEF Shaped, PageFits, OnPage, PatchFits, ViewFits, LockFits, Holds
  <2>6. AddFits(q)'
    BY <2>1, <2>3, <2>4 DEF AddFits
  <2>7. Fits(q)'
    BY <2>5, <2>6 DEF Fits
  <2> QED
    BY <1>1, <1>4, <1>5, <2>1, <2>5, <2>7, AloneMoves, IssueStep
<1>8. CASE form[q].target # "view"
  <2> PICK f : f = [form[q] EXCEPT !.verb = "add"]
    OBVIOUS
  <2>1. Alone(q) /\ pc'[q] = "asked" /\ form'[q] = f
    BY <1>8, GoMovesOne DEF UpsertNewIssue
  <2>2. form[q].target = "project" /\ AddForm(form[q]) /\ OnPage(q)
    BY <1>1, <1>2, <1>6, <1>8 DEF AddFits, OnPage
  <2>3. {"verb", "target", "issue", "project", "page", "todo", "added"} \subseteq DOMAIN form[q]
    BY <1>1, <1>6, <2>2 DEF Shaped
  <2>4. /\ f.verb = "add" /\ f.project = form[q].project /\ f.page = form[q].page
        /\ f.todo = form[q].todo /\ f.added = form[q].added
        /\ {"verb", "project", "page", "todo", "added"} \subseteq DOMAIN f
    BY <2>3
  <2>9. SawPage(q)
    BY <1>2, <2>2 DEF Fits, PageFits
  <2>10. P(q)' = P(q) /\ form'[q].page = form[q].page
    BY <2>1, <2>4 DEF P
  <2>11. Content(P(q))' = Content(P(q))
    BY <1>1, <2>10 DEF Content, Members
  <2>5. PageFits(q)'
    BY <1>1, <2>9, <2>10, <2>11 DEF PageFits, SawPage
  <2>6. Shaped(form[q])' /\ PatchFits(q)' /\ ViewFits(q)' /\ LockFits(q)' /\ ~Holds(q)'
    BY <2>1, <2>4 DEF Shaped, PatchFits, ViewFits, LockFits, Holds
  <2>7. AddFits(q)'
    BY <1>4, <2>1, <2>2, <2>4 DEF AddFits, AddForm
  <2>8. Fits(q)'
    BY <2>5, <2>6, <2>7 DEF Fits
  <2> QED
    BY <1>1, <1>4, <1>5, <2>1, <2>6, <2>8, AloneMoves, IssueStep
<1> QED
  BY <1>7, <1>8

LEMMA PlaceOnViewStep ==
    ASSUME RowsInv, NEW q \in Requests, PlaceOnView(q)
    PROVE  RowsInv'
<1>1. pc[q] = "read" /\ form[q].verb = "place" /\ UNCHANGED <<project, issue, member, tab>>
  BY DEF PlaceOnView, Is
<1>2. form[q].ids \subseteq Locals
  BY <1>1 DEF RowsInv, Fits, AddFits, Live, Ended
<1>3. /\ issue \in [Issues -> {"absent", "remote", "open", "closed"}]
      /\ placed \subseteq (DOMAIN tab) \X Locals /\ Locals' = Locals
  BY <1>1 DEF RowsInv, TypeOK, Locals
<1>4. PICK how \in Ended : End(q, how)
  BY DEF PlaceOnView, Ended
<1>5. placed' \subseteq (DOMAIN tab) \X Locals'
  BY <1>2, <1>3 DEF PlaceOnView
<1>6. Alone(q) /\ Fits(q)' /\ ~Holds(q)'
  BY <1>4, EndMovesOne
<1> QED
  BY <1>1, <1>3, <1>5, <1>6, AloneMoves, IssueStep

LEMMA LiftFromViewStep ==
    ASSUME RowsInv, NEW q \in Requests, LiftFromView(q)
    PROVE  RowsInv'
<1>1. End(q, "done") /\ UNCHANGED <<project, issue, member, tab>> /\ placed' \subseteq placed
  BY DEF LiftFromView
<1>2. /\ issue \in [Issues -> {"absent", "remote", "open", "closed"}]
      /\ placed \subseteq (DOMAIN tab) \X Locals /\ Locals' = Locals
  BY <1>1 DEF RowsInv, TypeOK, Locals
<1>3. placed' \subseteq (DOMAIN tab) \X Locals'
  BY <1>1, <1>2
<1>4. Alone(q) /\ Fits(q)' /\ ~Holds(q)'
  BY <1>1, EndMovesOne DEF Ended
<1> QED
  BY <1>1, <1>2, <1>3, <1>4, AloneMoves, IssueStep

-----------------------------------------------------------------------------
(* Steps that change tabs *)

\* A request that does not move stays fit for the tabs if its place stays beyond them,
\* and those that it has locked are there.
LEMMA TabsFit ==
    ASSUME RowsInv, NEW o \in Requests, pc'[o] = pc[o], form'[o] = form[o],
           project' = project,
           (Is(o, "add view", "read") /\ ~form[o].overtaken /\ Beyond(P(o), form[o].place)) =>
              \A v \in DOMAIN tab' :
                 tab'[v].project = P(o) => tab'[v].position < form[o].place,
           Is(o, "reorder", "locked") =>
              \A v \in Named(o) \cap ViewsOf(P(o)) :
                 v \in DOMAIN tab' /\ tab'[v].project = P(o)
    PROVE  ViewFits(o)'
<1>1. ViewFits(o)
  BY DEF RowsInv, Fits
<1>2. P(o)' = P(o) /\ Named(o)' = Named(o) /\ (Live(o)' <=> Live(o))
  BY DEF P, Named, Live
<1>3. ViewsOf(P(o))' = {v \in DOMAIN tab' : tab'[v].project = P(o)}
  BY <1>2 DEF ViewsOf
<1>4. (Is(o, "add view", "read") /\ ~form[o].overtaken /\ Beyond(P(o), form[o].place)) =>
        Beyond(P(o), form[o].place)'
  BY <1>2, <1>3 DEF Beyond
<1>5. form[o].verb = "add view" /\ pc[o] = "read" /\ ~form[o].overtaken =>
        Beyond(P(o), form[o].place)'
  BY <1>1, <1>4 DEF ViewFits, Is, Live, Ended
<1>6. Is(o, "reorder", "locked") /\ Named(o) \subseteq ViewsOf(P(o)) =>
        Named(o)' \subseteq ViewsOf(P(o))'
  BY <1>2, <1>3
<1>7. form[o].verb = "reorder" /\ Live(o) => OrderFits(o)'
  BY <1>1, <1>2, <1>6 DEF ViewFits, OrderFits, Is
<1> QED
  BY <1>1, <1>2, <1>5, <1>7 DEF ViewFits

LEMMA TabStep ==
    ASSUME RowsInv, pc' \in [Requests -> Places], DOMAIN form' = Requests,
           UNCHANGED <<project, issue, member>>,
           DOMAIN tab' \subseteq Views,
           \A v \in DOMAIN tab' : tab'[v] \in ViewRows /\ tab'[v].project \in DOMAIN project,
           placed' \subseteq (DOMAIN tab') \X Locals, PlacesDiffer',
           \A o \in Requests : (pc'[o] = pc[o] /\ form'[o] = form[o] /\ ViewFits(o)')
                               \/ (Fits(o)' /\ ~Holds(o)')
    PROVE  RowsInv'
<1>1. \A p : Members(p)' = Members(p)
  BY DEF Members
<1>2. \A p \in DOMAIN project : Kept(p)
  BY <1>1 DEF Kept, Content
<1>3. Grows /\ Locals' = Locals
  BY DEF Grows, Locals
<1>4. \A o \in Requests : Fits(o)'
  BY <1>2, <1>3, OthersFit
<1>5. Exclusive'
  BY DEF RowsInv, Exclusive, Holds, P
<1>6. TypeOK'
  BY <1>3 DEF RowsInv, TypeOK, Places
<1>7. CountsAddUp'
  BY <1>1 DEF RowsInv, CountsAddUp
<1> QED
  BY <1>4, <1>5, <1>6, <1>7 DEF RowsInv

\* The same, of a request that ends.
LEMMA TabEndStep ==
    ASSUME RowsInv, NEW q \in Requests, NEW how \in Ended, End(q, how),
           UNCHANGED <<project, issue, member>>,
           DOMAIN tab' \subseteq Views,
           \A v \in DOMAIN tab' : tab'[v] \in ViewRows /\ tab'[v].project \in DOMAIN project,
           placed' \subseteq (DOMAIN tab') \X Locals, PlacesDiffer',
           \A o \in Requests \ {q} : ViewFits(o)'
    PROVE  RowsInv'
<1>1. Alone(q) /\ Fits(q)' /\ ~Holds(q)'
  BY EndMovesOne
<1>2. pc' \in [Requests -> Places] /\ DOMAIN form' = Requests
  BY <1>1 DEF Alone, Places
<1>3. ASSUME NEW o \in Requests
      PROVE  (pc'[o] = pc[o] /\ form'[o] = form[o] /\ ViewFits(o)') \/ (Fits(o)' /\ ~Holds(o)')
  <2>1. CASE o = q
    BY <1>1, <2>1
  <2>2. CASE o # q
    BY <1>1, <2>2 DEF Alone
  <2> QED
    BY <2>1, <2>2
<1> QED
  BY <1>2, <1>3, TabStep

\* What is known of the tabs.
LEMMA TabsAreTyped ==
    ASSUME RowsInv
    PROVE  /\ DOMAIN tab \subseteq Views /\ IsFiniteSet(DOMAIN tab)
           /\ \A v \in DOMAIN tab : tab[v] \in ViewRows /\ tab[v].project \in DOMAIN project
           /\ placed \subseteq (DOMAIN tab) \X Locals
           /\ \A v, o \in DOMAIN tab : v # o /\ tab[v].project = tab[o].project =>
                                          tab[v].position # tab[o].position
BY DEF RowsInv, TypeOK, PlacesDiffer

LEMMA UpdateViewStep ==
    ASSUME RowsInv, NEW q \in Requests, UpdateView(q)
    PROVE  RowsInv'
<1> PICK v : v = form[q].view
  OBVIOUS
<1>1. /\ pc[q] = "read" /\ form[q].verb = "edit view"
      /\ UNCHANGED <<project, issue, member, placed>>
  BY DEF UpdateView, Is
<1>2. CASE UNCHANGED tab
  <2>1. PICK how \in Ended : End(q, how)
    BY DEF UpdateView, Ended
  <2> QED
    BY <1>1, <1>2, <2>1, EndStep DEF rows
<1>3. CASE v \in DOMAIN tab /\ tab' = [tab EXCEPT ![v].name = form[q].name] /\ End(q, "done")
  <2>1. form[q].name \in Names
    BY <1>1 DEF RowsInv, Fits, ViewFits, Live, Ended
  <2>2. /\ DOMAIN tab' = DOMAIN tab
        /\ \A o \in DOMAIN tab : /\ tab'[o] \in ViewRows /\ tab'[o].project = tab[o].project
                                 /\ tab'[o].position = tab[o].position
    <3>1. tab[v] \in ViewRows
      BY <1>3, TabsAreTyped
    <3>2. /\ tab'[v] = [tab[v] EXCEPT !.name = form[q].name]
          /\ \A o \in DOMAIN tab \ {v} : tab'[o] = tab[o]
      BY <1>3
    <3>3. /\ tab'[v] \in ViewRows /\ tab'[v].project = tab[v].project
          /\ tab'[v].position = tab[v].position
      BY <2>1, <3>1, <3>2 DEF ViewRows
    <3> QED
      BY <1>3, <3>2, <3>3, TabsAreTyped
  <2>3. PlacesDiffer'
    BY <2>2, TabsAreTyped DEF PlacesDiffer
  <2>4. Alone(q)
    BY <1>3, EndMovesOne DEF Ended
  <2>5. \A o \in Requests \ {q} : ViewFits(o)'
    BY <1>1, <2>2, <2>4, TabsFit DEF Alone, Beyond, ViewsOf
  <2> QED
    BY <1>1, <1>3, <2>2, <2>3, <2>5, TabsAreTyped, TabEndStep DEF Ended
<1> QED
  BY <1>2, <1>3 DEF UpdateView

LEMMA DeleteViewStep ==
    ASSUME RowsInv, NEW q \in Requests, DeleteView(q)
    PROVE  RowsInv'
<1> PICK v : v = form[q].view
  OBVIOUS
<1>1. /\ pc[q] = "read" /\ form[q].verb = "drop view" /\ ~ViewLocked(v)
      /\ UNCHANGED <<project, issue, member>>
  BY DEF DeleteView, Is
<1>2. CASE v \notin DOMAIN tab
  BY <1>1, <1>2, EndStep DEF DeleteView, Ended, rows
<1>3. CASE v \in DOMAIN tab
  <2>1. /\ tab' = [o \in DOMAIN tab \ {v} |-> tab[o]]
        /\ placed' = {x \in placed : x[1] # v} /\ End(q, "done")
    BY <1>3 DEF DeleteView
  <2>2. DOMAIN tab' = DOMAIN tab \ {v} /\ \A o \in DOMAIN tab' : tab'[o] = tab[o]
    BY <2>1
  <2>3. placed' \subseteq (DOMAIN tab') \X Locals
    BY <2>1, <2>2, TabsAreTyped
  <2>4. PlacesDiffer'
    BY <2>2, TabsAreTyped, FS_Subset DEF PlacesDiffer
  <2>5. Alone(q)
    BY <2>1, EndMovesOne DEF Ended
  <2>6. ASSUME NEW o \in Requests \ {q} PROVE ViewFits(o)'
    <3>1. Is(o, "reorder", "locked") => v \notin Named(o)
      BY <1>1 DEF ViewLocked
    <3>2. pc'[o] = pc[o] /\ form'[o] = form[o] /\ project' = project
      BY <1>1, <2>5 DEF Alone
    <3> QED
      BY <2>2, <3>1, <3>2, TabsFit DEF Beyond, ViewsOf
  <2> QED
    BY <1>1, <2>1, <2>2, <2>3, <2>4, <2>6, TabsAreTyped, TabEndStep DEF Ended
<1> QED
  BY <1>2, <1>3

LEMMA CommitReorderStep ==
    ASSUME RowsInv, NEW q \in Requests, CommitReorder(q)
    PROVE  RowsInv'
<1> PICK p, order : p = P(q) /\ order = form[q].order
  OBVIOUS
<1>1. pc[q] = "locked" /\ form[q].verb = "reorder" /\ UNCHANGED <<project, issue, member, placed>>
  BY DEF CommitReorder, Is
<1>2. /\ order \in Seq(Views) /\ \A i, j \in DOMAIN order : i # j => order[i] # order[j]
      /\ Named(q) \subseteq ViewsOf(p)
  BY <1>1 DEF RowsInv, Fits, ViewFits, OrderFits, Live, Ended
<1>3. CASE \E v \in ViewsOf(p) \ Named(q) : tab[v].position + 1 \in DOMAIN order
  BY <1>1, <1>3, EndStep DEF CommitReorder, Ended, rows
<1>4. CASE ~\E v \in ViewsOf(p) \ Named(q) : tab[v].position + 1 \in DOMAIN order
  <2>1. tab' = Stamp(tab, order) /\ End(q, "done")
    BY <1>4 DEF CommitReorder
  <2>2. DOMAIN order = 1..Len(order) /\ Len(order) \in Nat
    BY <1>2
  <2>3. \A i \in DOMAIN order : order[i] \in Named(q) /\ order[i] \in ViewsOf(p)
    BY <1>2 DEF Named
  <2>4. DOMAIN tab' = DOMAIN tab
    BY <2>1 DEF Stamp
  <2>5. ASSUME NEW i \in DOMAIN order
        PROVE  /\ order[i] \in DOMAIN tab /\ tab'[order[i]].position = i - 1
               /\ tab'[order[i]] \in ViewRows /\ tab'[order[i]].project = p
    <3>1. order[i] \in DOMAIN tab /\ tab[order[i]].project = p /\ tab[order[i]] \in ViewRows
      BY <2>3, TabsAreTyped DEF ViewsOf
    <3>2. (CHOOSE j \in DOMAIN order : order[j] = order[i]) = i
      BY <1>2
    <3>3. tab'[order[i]] = [tab[order[i]] EXCEPT !.position = i - 1]
      BY <2>1, <3>1, <3>2 DEF Stamp
    <3>4. i - 1 \in Nat
      BY <2>2
    <3> QED
      BY <3>1, <3>3, <3>4 DEF ViewRows
  <2>6. \A v \in DOMAIN tab : v \in Named(q) \/ tab'[v] = tab[v]
    BY <2>1 DEF Stamp, Named
  <2>7. \A v \in Named(q) : \E i \in DOMAIN order : v = order[i]
    BY DEF Named
  <2>8. \A v \in DOMAIN tab : tab'[v] \in ViewRows /\ tab'[v].project = tab[v].project
    BY <2>3, <2>5, <2>6, <2>7, TabsAreTyped DEF ViewsOf
  <2>9. PlacesDiffer'
    <3>1. SUFFICES ASSUME NEW v \in DOMAIN tab, NEW o \in DOMAIN tab, v # o,
                          tab[v].project = tab[o].project
                   PROVE  tab'[v].position # tab'[o].position
      BY <2>4, <2>8, TabsAreTyped DEF PlacesDiffer
    <3>2. CASE v \in Named(q) /\ o \in Named(q)
      <4>1. PICK i \in DOMAIN order : v = order[i]
        BY <2>7, <3>2
      <4>2. PICK j \in DOMAIN order : o = order[j]
        BY <2>7, <3>2
      <4> QED
        BY <2>2, <2>5, <3>1, <4>1, <4>2
    <3>3. ASSUME NEW a \in DOMAIN tab, NEW b \in DOMAIN tab, tab[a].project = tab[b].project,
                 a \in Named(q), b \notin Named(q)
          PROVE  tab'[a].position # tab'[b].position
      <4>1. PICK i \in DOMAIN order : a = order[i]
        BY <2>7, <3>3
      <4>2. b \in ViewsOf(p) \ Named(q)
        BY <1>2, <3>3 DEF ViewsOf
      <4>3. tab'[b].position \in Nat /\ tab'[b].position + 1 \notin DOMAIN order
        BY <1>4, <2>6, <2>8, <3>3, <4>2 DEF ViewRows
      <4> QED
        BY <2>2, <2>5, <4>1, <4>3
    <3>4. CASE v \notin Named(q) /\ o \notin Named(q)
      BY <2>6, <3>1, <3>4, TabsAreTyped
    <3> QED
      BY <3>1, <3>2, <3>3, <3>4
  <2>10. Alone(q)
    BY <2>1, EndMovesOne DEF Ended
  <2>11. ASSUME NEW n \in Nat, Beyond(p, n) PROVE Len(order) <= n
    <3>1. order \in Injection(1..Len(order), ViewsOf(p))
      BY <1>2, <2>2, <2>3 DEF Injection, IsInjective
    <3>2. Len(order) <= Cardinality(ViewsOf(p))
      <4>1. Cardinality(1..Len(order)) = Len(order)
        BY <2>2, FS_Interval
      <4>2. Cardinality(1..Len(order)) <= Cardinality(ViewsOf(p))
        BY <3>1, PlacesAreFinite, FS_Injection
      <4> QED
        BY <4>1, <4>2
    <3>3. Cardinality(ViewsOf(p)) \in Nat /\ Cardinality(ViewsOf(p)) <= n
      BY <2>11, PlacesAreFinite, PlacesBound, FS_CardinalityType
    <3> QED
      BY <2>2, <3>2, <3>3
  <2>12. ASSUME NEW o \in Requests \ {q} PROVE ViewFits(o)'
    <3>1. pc'[o] = pc[o] /\ form'[o] = form[o] /\ project' = project
      BY <1>1, <2>10 DEF Alone
    <3>2. ASSUME Is(o, "add view", "read"), Beyond(P(o), form[o].place),
                 NEW v \in DOMAIN tab', tab'[v].project = P(o)
          PROVE  tab'[v].position < form[o].place
      <4>1. form[o].place \in Nat /\ v \in ViewsOf(P(o)) /\ tab[v].position < form[o].place
        BY <2>4, <2>8, <3>2 DEF RowsInv, Fits, ViewFits, Is, Live, Ended, Beyond, ViewsOf
      <4>2. CASE v \in Named(q)
        <5>1. PICK i \in DOMAIN order : v = order[i]
          BY <2>7, <4>2
        <5>2. P(o) = p
          BY <2>5, <3>2, <5>1
        <5>5. Beyond(p, form[o].place)
          BY <3>2, <5>2
        <5>3. i \in Nat /\ i <= Len(order) /\ Len(order) <= form[o].place
          BY <2>2, <2>11, <4>1, <5>5
        <5>4. tab'[v].position = i - 1
          BY <2>5, <5>1
        <5> QED
          BY <2>2, <4>1, <5>3, <5>4
      <4>3. CASE v \notin Named(q)
        BY <2>4, <2>6, <4>1, <4>3
      <4> QED
        BY <4>2, <4>3
    <3>3. \A v \in Named(o) \cap ViewsOf(P(o)) : v \in DOMAIN tab' /\ tab'[v].project = P(o)
      BY <2>4, <2>8 DEF ViewsOf
    <3> QED
      BY <3>1, <3>2, <3>3, TabsFit
  <2> QED
    BY <1>1, <2>1, <2>4, <2>8, <2>9, <2>12, TabsAreTyped, TabEndStep DEF Ended
<1> QED
  BY <1>3, <1>4

LEMMA InsertViewStep ==
    ASSUME RowsInv, NEW q \in Requests, InsertView(q)
    PROVE  RowsInv'
<1> PICK p, n, k : p = P(q) /\ n = form[q].name /\ k = form[q].place
  OBVIOUS
<1>1. /\ pc[q] = "read" /\ form[q].verb = "add view" /\ UNCHANGED <<project, issue, member, placed>>
  BY DEF InsertView, Is
<1>2. p \in DOMAIN project /\ n \in Names /\ k \in Nat
  BY <1>1 DEF RowsInv, Fits, ViewFits, Live, Ended
<1>3. CASE ~\A v \in ViewsOf(p) : tab[v].name # n /\ tab[v].position # k
  BY <1>1, <1>3, EndStep DEF InsertView, Ended, rows
<1>4. CASE \A v \in ViewsOf(p) : tab[v].name # n /\ tab[v].position # k
  <2>1. pc' = [pc EXCEPT ![q] = "done"] /\ Overtake(q, p)
    BY <1>4 DEF InsertView
  <2> PICK w \in Views \ DOMAIN tab : tab' = Put(tab, w, NewTab(p, n, k))
    BY <1>4 DEF InsertView
  <2>2. NewTab(p, n, k) \in ViewRows /\ NewTab(p, n, k).project = p /\ NewTab(p, n, k).position = k
    <3>1. p \in Ids
      BY <1>2 DEF RowsInv, TypeOK
    <3> QED
      BY <1>2, <3>1 DEF NewTab, ViewRows
  <2>3. /\ DOMAIN tab' = DOMAIN tab \cup {w} /\ tab'[w] = NewTab(p, n, k)
        /\ \A v \in DOMAIN tab : tab'[v] = tab[v]
    BY DEF Put
  <2>4. \A v \in DOMAIN tab' : tab'[v] \in ViewRows /\ tab'[v].project \in DOMAIN project
    BY <1>2, <2>2, <2>3, TabsAreTyped
  <2>5. PlacesDiffer'
    <3>1. IsFiniteSet(DOMAIN tab')
      BY <2>3, TabsAreTyped, FS_AddElement
    <3>2. \A v \in DOMAIN tab : tab[v].project = p => tab[v].position # k
      BY <1>4 DEF ViewsOf
    <3> QED
      BY <2>2, <2>3, <3>1, <3>2, TabsAreTyped DEF PlacesDiffer
  <2>6. placed' \subseteq (DOMAIN tab') \X Locals
    BY <1>1, <2>3, TabsAreTyped
  <2>7. pc' \in [Requests -> Places] /\ pc'[q] = "done" /\ \A o \in Requests \ {q} : pc'[o] = pc[o]
    BY <2>1 DEF RowsInv, TypeOK, Places, Ended
  <2>8. DOMAIN form' = Requests /\ form'[q] = NoForm
    BY <2>1 DEF Overtake
  <2>9. ASSUME NEW o \in Requests
        PROVE  (pc'[o] = pc[o] /\ form'[o] = form[o] /\ ViewFits(o)') \/ (Fits(o)' /\ ~Holds(o)')
    <3>1. CASE o = q
      BY <2>7, <2>8, <3>1, EndedFit, NoFormIsShaped DEF Ended
    <3>2. CASE o # q /\ Is(o, "add view", "read") /\ P(o) = p
      <4> PICK f : f = [form[o] EXCEPT !.overtaken = TRUE]
        OBVIOUS
      <4>1. pc'[o] = "read" /\ form'[o] = f
        BY <2>1, <2>7, <3>2 DEF Overtake, Is
      <4>2. /\ {"verb", "project", "name", "place", "overtaken"} \subseteq DOMAIN form[o]
            /\ form[o].name \in Names /\ form[o].place \in Nat /\ form[o].verb = "add view"
        BY <3>2 DEF RowsInv, Fits, ViewFits, Is, Live, Ended
      <4>3. /\ {"verb", "project", "name", "place", "overtaken"} \subseteq DOMAIN f
            /\ f.name \in Names /\ f.place \in Nat /\ f.verb = "add view"
            /\ f.overtaken = TRUE /\ f.project = form[o].project
        BY <4>2
      <4>4. P(o)' \in DOMAIN project'
        BY <1>1, <1>2, <3>2, <4>1, <4>3 DEF P
      <4>5. ViewFits(o)'
        BY <4>1, <4>3, <4>4 DEF ViewFits
      <4>6. /\ Shaped(form[o])' /\ PageFits(o)' /\ PatchFits(o)' /\ AddFits(o)' /\ LockFits(o)'
            /\ ~Holds(o)'
        BY <4>1, <4>3 DEF Shaped, PageFits, OnPage, PatchFits, AddFits, LockFits, Holds
      <4> QED
        BY <4>5, <4>6 DEF Fits
    <3>3. CASE o # q /\ ~(Is(o, "add view", "read") /\ P(o) = p)
      <4>1. pc'[o] = pc[o] /\ form'[o] = form[o] /\ project' = project
        BY <1>1, <2>1, <2>7, <3>3 DEF Overtake
      <4>2. Is(o, "add view", "read") /\ Beyond(P(o), form[o].place) =>
              \A v \in DOMAIN tab' :
                 tab'[v].project = P(o) => tab'[v].position < form[o].place
        <5>1. SUFFICES ASSUME Is(o, "add view", "read"), Beyond(P(o), form[o].place),
                              NEW v \in DOMAIN tab', tab'[v].project = P(o)
                       PROVE  tab'[v].position < form[o].place
          OBVIOUS
        <5>2. P(o) # p
          BY <3>3, <5>1
        <5>3. v # w
          BY <2>2, <2>3, <5>1, <5>2
        <5>4. v \in ViewsOf(P(o)) /\ tab'[v] = tab[v]
          BY <2>3, <5>1, <5>3 DEF ViewsOf
        <5> QED
          BY <5>1, <5>4 DEF Beyond
      <4>3. \A v \in Named(o) \cap ViewsOf(P(o)) : v \in DOMAIN tab' /\ tab'[v].project = P(o)
        BY <2>3 DEF ViewsOf
      <4> QED
        BY <4>1, <4>2, <4>3, TabsFit
    <3> QED
      BY <3>1, <3>2, <3>3
  <2> QED
    BY <1>1, <2>3, <2>4, <2>5, <2>6, <2>7, <2>8, <2>9, TabsAreTyped, TabStep
<1> QED
  BY <1>3, <1>4

-----------------------------------------------------------------------------
(* Steps on repos and milestones *)

LEMMA LinkStep ==
    ASSUME RowsInv, NEW q \in Requests, LinkRepo(q) \/ UnlinkRepo(q)
    PROVE  RowsInv'
<1>1. Goto(q, "done") /\ UNCHANGED rows
  BY DEF LinkRepo, UnlinkRepo
<1>2. Alone(q) /\ pc'[q] = "done" /\ form'[q] = form[q]
  BY <1>1, GotoMovesOne DEF Ended
<1>3. Shaped(form[q])
  BY DEF RowsInv, Fits
<1>4. Fits(q)' /\ ~Holds(q)'
  BY <1>2, <1>3, EndedFit DEF Ended
<1> QED
  BY <1>1, <1>2, <1>4, QuietStep

LEMMA AskAdoptStep ==
    ASSUME RowsInv, NEW q \in Requests, AskAdopt(q)
    PROVE  RowsInv'
<1>1. ASSUME NEW p, NEW m,
             p \in DOMAIN project,
             Go(q, "asked", [verb |-> "adopt", project |-> p, milestone |-> m]), UNCHANGED rows
      PROVE  RowsInv'
  BY <1>1, AskedFits DEF NewForm, Shaped
<1> QED
  BY <1>1 DEF AskAdopt

LEMMA CheckLinkStep ==
    ASSUME RowsInv, NEW q \in Requests, CheckLink(q)
    PROVE  RowsInv'
<1>1. /\ UNCHANGED rows /\ Live(q) /\ form[q].verb = "adopt"
      /\ Goto(q, "read") \/ End(q, "refused")
  BY DEF CheckLink, Is, Live, Ended
<1> QED
  BY <1>1, GotoFits, EndStep DEF Ended

LEMMA AdoptStep ==
    ASSUME RowsInv, NEW q \in Requests, AdoptMilestone(q)
    PROVE  RowsInv'
<1> PICK p : p = P(q)
  OBVIOUS
<1>1. UNCHANGED <<issue, member, tab, placed>> /\ ~ProjectLocked(p)
  BY DEF AdoptMilestone
<1>2. CASE UNCHANGED project
  <2>1. PICK how \in Ended : End(q, how)
    BY DEF AdoptMilestone, Ended
  <2> QED
    BY <1>1, <1>2, <2>1, EndStep DEF rows
<1>3. CASE project' = [project EXCEPT ![p].version = @ + 1] /\ End(q, "done") /\ p \in DOMAIN project
  <2> DEFINE row == [project[p] EXCEPT !.version = @ + 1]
  <2>1. project[p] \in ProjectRows
    BY <1>3 DEF RowsInv, TypeOK
  <2>2. project[p].version + 1 \in Nat \ {0}
    BY <2>1 DEF ProjectRows
  <2>3. row \in ProjectRows
    BY <2>1, <2>2 DEF ProjectRows
  <2>4. /\ row.version = project[p].version + 1
        /\ row.issues = project[p].issues /\ row.closed = project[p].closed
    BY <2>1 DEF ProjectRows
  <2>5. project' = [project EXCEPT ![p] = row]
    BY <1>3
  <2>6. \A o \in Requests \ {q} : ~(Holds(o) /\ P(o) = p)
    BY <1>1 DEF ProjectLocked, Holds
  <2> HIDE DEF row
  <2> QED
    BY <1>1, <1>3, <2>3, <2>4, <2>5, <2>6, RowStep DEF Ended
<1>4. p \in DOMAIN project
  BY DEF AdoptMilestone, Is, RowsInv, Fits, ViewFits, Live, Ended
<1> QED
  BY <1>2, <1>3, <1>4 DEF AdoptMilestone

\* A request about a milestone touches no row of a project.
LEMMA WriteStep ==
    ASSUME RowsInv, NEW q \in Requests, Alone(q), UNCHANGED rows, Shaped(form'[q]),
           pc'[q] \in {"read", "answered"}, form'[q].verb \in Writes
    PROVE  RowsInv'
<1>1. /\ PageFits(q)' /\ PatchFits(q)' /\ AddFits(q)' /\ ViewFits(q)' /\ LockFits(q)'
      /\ ~Holds(q)'
  BY DEF PageFits, OnPage, PatchFits, AddFits, ViewFits, LockFits, Holds, Writes
<1> QED
  BY <1>1, QuietStep DEF Fits

LEMMA ResolveStep ==
    ASSUME RowsInv, NEW q \in Requests,
           AskNewMilestone(q) \/ AskEditMilestone(q) \/ AskDropMilestone(q)
    PROVE  RowsInv'
<1>1. ASSUME NEW f, f.verb \in Writes, Shaped(f), Go(q, "read", f), UNCHANGED rows
      PROVE  RowsInv'
  <2>1. Alone(q) /\ pc'[q] = "read" /\ form'[q] = f
    BY <1>1, GoMovesOne
  <2> QED
    BY <1>1, <2>1, WriteStep
<1>2. ASSUME NEW verb \in Writes, NEW p, NEW m,
             Go(q, "read", [verb |-> verb, project |-> p, milestone |-> m, payload |-> 0]),
             UNCHANGED rows
      PROVE  RowsInv'
  <2> PICK f : f = [verb |-> verb, project |-> p, milestone |-> m, payload |-> 0]
    OBVIOUS
  <2>1. f.verb \in Writes /\ {"verb", "project", "milestone", "payload"} \subseteq DOMAIN f
    OBVIOUS
  <2>2. Shaped(f)
    BY <2>1 DEF Shaped, Writes
  <2> QED
    BY <1>1, <1>2, <2>1, <2>2
<1>3. "new milestone" \in Writes /\ "edit milestone" \in Writes /\ "drop milestone" \in Writes
  BY DEF Writes
<1>4. CASE AskNewMilestone(q)
  BY <1>2, <1>3, <1>4 DEF AskNewMilestone
<1>5. CASE AskEditMilestone(q)
  BY <1>2, <1>3, <1>5 DEF AskEditMilestone, ResolveMilestone
<1>6. CASE AskDropMilestone(q)
  BY <1>2, <1>3, <1>6 DEF AskDropMilestone, ResolveMilestone
<1> QED
  BY <1>4, <1>5, <1>6

LEMMA GitHubStep ==
    ASSUME RowsInv, NEW q \in Requests,
           GitHubCreates(q) \/ GitHubEdits(q) \/ GitHubDeletes(q)
    PROVE  RowsInv'
<1>1. UNCHANGED rows /\ form[q].verb \in Writes /\ Shaped(form[q])
  BY DEF GitHubCreates, GitHubEdits, GitHubDeletes, GitHubWrites, Is, Writes, RowsInv, Fits
<1>2. CASE GitHubDeletes(q)
  <2>1. Alone(q) /\ pc'[q] = "answered" /\ form'[q] = form[q]
    BY <1>2, GotoMovesOne DEF GitHubDeletes
  <2> QED
    BY <1>1, <2>1, WriteStep
<1>3. CASE GitHubCreates(q) \/ GitHubEdits(q)
  <2> PICK f : f = [form[q] EXCEPT !.payload = edits']
    OBVIOUS
  <2>1. Alone(q) /\ pc'[q] = "answered" /\ form'[q] = f
    BY <1>3, GoMovesOne DEF GitHubCreates, GitHubEdits, GitHubWrites
  <2>2. {"verb", "project", "milestone", "payload"} \subseteq DOMAIN form[q]
    BY <1>1 DEF Shaped, Writes
  <2>3. f.verb = form[q].verb /\ {"verb", "project", "milestone", "payload"} \subseteq DOMAIN f
    BY <2>2
  <2>4. Shaped(f)
    BY <1>1, <2>3 DEF Shaped, Writes
  <2> QED
    BY <1>1, <2>1, <2>3, <2>4, WriteStep
<1> QED
  BY <1>2, <1>3

LEMMA SettleStep ==
    ASSUME RowsInv, NEW q \in Requests,
           GitHubRefuses(q) \/ StoreMilestone(q) \/ DeleteMilestone(q) \/ StoreFails(q)
    PROVE  RowsInv'
<1>1. UNCHANGED rows /\ \E how \in Ended : End(q, how)
  BY DEF GitHubRefuses, StoreMilestone, DeleteMilestone, StoreFails, Ended
<1> QED
  BY <1>1, EndStep

-----------------------------------------------------------------------------
(* The invariant of the rows *)

LEMMA AsksStep ==
    ASSUME RowsInv, NEW q \in Requests, Asks(q)
    PROVE  RowsInv'
BY CreateProjectStep, AskPageStep, AskNewIssueStep, AskOnTabs, AskReorderStep DEF Asks

LEMMA ServesStep ==
    ASSUME RowsInv, NEW q \in Requests, Serves(q)
    PROVE  RowsInv'
BY ReadProjectStep, UpdateProjectStep, ReadForArchiveStep, ArchiveStep, LockProjectStep,
   LookUpStep, InsertMemberStep, CommitAddStep, CommitRemoveStep, CreateIssueStep,
   UpsertNewIssueStep, SkipAttachStep, ReadPlaceStep, InsertViewStep, CheckViewStep,
   UpdateViewStep, DeleteViewStep, LockViewsStep, CommitReorderStep, CheckIssuesStep,
   PlaceOnViewStep, LiftFromViewStep, AbortStep DEF Serves

LEMMA MilestonesKeepRows ==
    ASSUME RowsInv, MilestonesNext
    PROVE  RowsInv'
BY LinkStep, AskAdoptStep, CheckLinkStep, AdoptStep, ResolveStep, GitHubStep, SettleStep
   DEF MilestonesNext

LEMMA StutterKeepsRows ==
    ASSUME RowsInv, UNCHANGED vars
    PROVE  RowsInv'
<1> USE DEF vars, rows
<1>1. \A q \in Requests : Fits(q)'
  BY StayFit
<1>2. TypeOK' /\ Exclusive' /\ PlacesDiffer' /\ CountsAddUp' /\ IsFiniteSet(DOMAIN member)'
  BY DEF RowsInv, TypeOK, Locals, Exclusive, Holds, P, PlacesDiffer, CountsAddUp, Members
<1> QED
  BY <1>1, <1>2 DEF RowsInv

LEMMA RowsInvStep ==
    ASSUME RowsInv, [AllNext]_everything
    PROVE  RowsInv'
<1>1. CASE ProjectsNext
  BY <1>1, AsksStep, ServesStep, SyncIssueStep DEF ProjectsNext
<1>2. CASE MilestonesNext
  BY <1>2, MilestonesKeepRows
<1>3. CASE UNCHANGED vars
  BY <1>3, StutterKeepsRows
<1> QED
  BY <1>1, <1>2, <1>3 DEF AllNext, Next, ProjectsStep, everything, allVars

LEMMA RowsInvInit ==
    ASSUME NEW names, NEW ts, NEW ms, NEW ps, InitRows(names, ts, ms, ps)
    PROVE  RowsInv
<1>1. /\ DOMAIN names \subseteq Ids /\ \A p \in DOMAIN names : names[p] \in Names
      /\ project = [p \in DOMAIN names |->
            [name |-> names[p], status |-> "active", version |-> 1,
             issues |-> Cardinality({i \in DOMAIN ms : ms[i] = p}), closed |-> 0]]
      /\ issue = [i \in Issues |-> IF i \in Fresh THEN "absent" ELSE "open"]
      /\ member = ms /\ tab = ts /\ placed = ps
      /\ pc = [q \in Requests |-> "idle"] /\ form = [q \in Requests |-> NoForm]
  BY DEF InitRows
<1>2. /\ DOMAIN ms \subseteq Issues \ (Fresh \cup Foreign) /\ IsFiniteSet(DOMAIN ms)
      /\ \A i \in DOMAIN ms : ms[i] \in DOMAIN names
      /\ ps \subseteq (DOMAIN ts) \X (Issues \ Fresh)
  BY DEF InitRows
<1>3. /\ DOMAIN ts \subseteq Views /\ IsFiniteSet(DOMAIN ts)
      /\ \A v \in DOMAIN ts : ts[v] \in ViewRows /\ ts[v].project \in DOMAIN names
  BY DEF InitRows
<1>4. \A v \in DOMAIN ts : \A o \in DOMAIN ts \ {v} :
         ts[o].project = ts[v].project => ts[o].position # ts[v].position
  BY DEF InitRows
<1>5. \A p : IsFiniteSet(Members(p)) /\ Cardinality(Members(p)) \in Nat
  BY <1>1, <1>2, FS_Subset, FS_CardinalityType DEF Members
<1>11. ASSUME NEW p \in DOMAIN project
       PROVE  project[p] = [name |-> names[p], status |-> "active", version |-> 1,
                            issues |-> Cardinality(Members(p)), closed |-> 0]
  <2>1. Members(p) = {i \in DOMAIN ms : ms[i] = p}
    BY <1>1 DEF Members
  <2> QED
    BY <1>1, <2>1
<1>6. CountsAddUp
  <2> SUFFICES ASSUME NEW p \in DOMAIN project
               PROVE  /\ project[p].issues = Cardinality(Members(p))
                      /\ project[p].closed <= project[p].issues
    BY DEF CountsAddUp
  <2>1. project[p].issues = Cardinality(Members(p)) /\ project[p].closed = 0
    BY <1>11
  <2> QED
    BY <2>1, <1>5
<1>7. Locals = Issues \ Fresh
  BY <1>1 DEF Locals
<1>8. TypeOK
  <2>1. ASSUME NEW p \in DOMAIN project PROVE project[p] \in ProjectRows
    <3>1. names[p] \in Names /\ Cardinality(Members(p)) \in Nat
      BY <1>1, <1>5
    <3> QED
      BY <1>11, <3>1 DEF ProjectRows, Statuses
  <2> QED
    BY <1>1, <1>2, <1>3, <1>7, <2>1 DEF TypeOK
<1>9. PlacesDiffer
  BY <1>1, <1>3, <1>4 DEF PlacesDiffer
<1>10. ASSUME NEW q \in Requests PROVE Fits(q) /\ ~Holds(q)
  <2>1. pc[q] = "idle" /\ form[q] = NoForm
    BY <1>1
  <2> QED
    BY <2>1, NoFormIsShaped
       DEF Fits, PageFits, OnPage, PatchFits, AddFits, ViewFits, LockFits, Live, Holds
<1> QED
  BY <1>1, <1>2, <1>6, <1>8, <1>9, <1>10 DEF RowsInv, Exclusive

-----------------------------------------------------------------------------
(* What the rows promise *)

\* Every request of a project or a milestone moves alone.
LEMMA OneMoves ==
    ASSUME RowsInv, [AllNext]_everything, NEW q \in Requests, pc'[q] # pc[q],
           pc[q] # "idle"
    PROVE  Serves(q) \/ form[q].verb \in Writes \cup {"adopt"}
<1>1. ASSUME NEW o \in Requests, NEW at, pc' = [pc EXCEPT ![o] = at] PROVE o = q
  BY <1>1 DEF RowsInv, TypeOK
<1>2. pc' # pc
  OBVIOUS
<1>3. Next
  BY <1>2 DEF AllNext, everything, allVars, vars
<1>4. ASSUME NEW o \in Requests, Serves(o) PROVE Serves(q)
  <2>1. (\E at : pc' = [pc EXCEPT ![o] = at]) \/ pc' = pc
    BY <1>4 DEF Serves, ReadProject, UpdateProject, ReadForArchive, Archive, LockProject,
       LookUp, InsertMember, CommitAdd, CommitRemove, CreateIssue, UpsertNewIssue,
       SkipAttach, ReadPlace, InsertView, CheckEdited, CheckDropped, CheckView, UpdateView,
       DeleteView, LockViews, CommitReorder, CheckIssues, PlaceOnView, LiftFromView, Abort,
       Go, Goto, End
  <2> QED
    BY <1>1, <1>2, <1>4, <2>1
<1>5. ASSUME NEW o \in Requests, Asks(o) PROVE FALSE
  <2>1. pc[o] = "idle" /\ \E at : pc' = [pc EXCEPT ![o] = at]
    BY <1>5 DEF Asks, CreateProject, AskPatch, AskArchive, AskAdd, AskRemove, AskNewIssue,
       AskNewView, AskEditView, AskDropView, AskReorder, AskPlace, AskLift, Ask, Go
  <2> QED
    BY <1>1, <2>1
<1>6. ASSUME MilestonesNext PROVE form[q].verb \in Writes \cup {"adopt"}
  <2>1. PICK o \in Requests :
           \/ LinkRepo(o) \/ UnlinkRepo(o)
           \/ AskAdopt(o) \/ CheckLink(o) \/ AdoptMilestone(o)
           \/ AskNewMilestone(o) \/ AskEditMilestone(o) \/ AskDropMilestone(o)
           \/ GitHubCreates(o) \/ GitHubEdits(o) \/ GitHubDeletes(o) \/ GitHubRefuses(o)
           \/ StoreMilestone(o) \/ DeleteMilestone(o) \/ StoreFails(o)
    BY <1>6 DEF MilestonesNext
  <2>2. /\ \E at : pc' = [pc EXCEPT ![o] = at]
        /\ pc[o] = "idle" \/ form[o].verb \in Writes \cup {"adopt"}
    BY <2>1 DEF LinkRepo, UnlinkRepo, AskAdopt, CheckLink, AdoptMilestone, AskNewMilestone,
       AskEditMilestone, AskDropMilestone, ResolveMilestone, GitHubCreates, GitHubEdits,
       GitHubDeletes, GitHubWrites, GitHubRefuses, StoreMilestone, DeleteMilestone,
       StoreFails, Go, Goto, End, Is, Writes
  <2> QED
    BY <1>1, <2>2
<1>7. ASSUME NEW i \in Issues, SyncIssue(i) PROVE FALSE
  BY <1>2, <1>7 DEF SyncIssue
<1> QED
  BY <1>3, <1>4, <1>5, <1>6, <1>7 DEF Next, ProjectsStep, ProjectsNext

LEMMA VersionStep ==
    ASSUME RowsInv, [AllNext]_everything, NEW q \in Requests,
           form[q].verb \in {"patch", "archive", "add", "remove"},
           pc[q] \in {"read", "locked"}, pc'[q] = "done"
    PROVE  Content(P(q)) = form[q].page.saw
<1>1. SawPage(q) /\ LockFits(q)
  BY DEF RowsInv, Fits, PageFits, OnPage, Live, Ended
<1>2. Serves(q)
  <2>1. Serves(q) \/ form[q].verb \in Writes \cup {"adopt"}
    BY OneMoves
  <2> QED
    BY <2>1 DEF Writes
<1>3. UpdateProject(q) \/ Archive(q) \/ LookUp(q) \/ CommitAdd(q) \/ CommitRemove(q) \/ Abort(q)
  BY <1>2 DEF Serves, ReadProject, ReadForArchive, LockProject, InsertMember, CreateIssue,
     UpsertNewIssue, SkipAttach, ReadPlace, InsertView, CheckEdited, CheckDropped,
     UpdateView, DeleteView, LockViews, CommitReorder, CheckIssues, PlaceOnView,
     LiftFromView, Is
<1>4. ASSUME NEW at, Go(q, at, NoForm) \/ Goto(q, at) PROVE at = "done"
  BY <1>4 DEF Go, Goto, RowsInv, TypeOK
<1>5. pc[q] = "locked" => form[q].page.version = project[P(q)].version
  BY <1>1 DEF LockFits, Holds
<1>6. form[q].page.version = project[P(q)].version
  <2>1. CASE UpdateProject(q) \/ Archive(q)
    BY <1>4, <2>1 DEF UpdateProject, Archive, End
  <2>2. CASE LookUp(q) \/ CommitAdd(q) \/ CommitRemove(q)
    BY <1>5, <2>2 DEF LookUp, CommitAdd, CommitRemove, Is
  <2>3. CASE Abort(q)
    BY <1>4, <2>3 DEF Abort, End
  <2> QED
    BY <1>3, <2>1, <2>2, <2>3
<1> QED
  BY <1>1, <1>6 DEF SawPage

LEMMA BeyondDiffers ==
    ASSUME RowsInv, NEW p, NEW n \in Nat, Beyond(p, n), NEW v \in ViewsOf(p)
    PROVE  tab[v].position # n
<1>1. tab[v].position \in Nat
  BY DEF RowsInv, TypeOK, ViewsOf, ViewRows
<1> QED
  BY <1>1 DEF Beyond

LEMMA RivalStep ==
    ASSUME RowsInv, [AllNext]_everything, NEW q \in Requests,
           pc[q] = "read", form[q].verb = "add view", pc'[q] = "taken"
    PROVE  (\E v \in ViewsOf(P(q)) : tab[v].name = form[q].name) \/ form[q].overtaken
<1>1. /\ form[q].place \in Nat
      /\ ~form[q].overtaken => Beyond(P(q), form[q].place)
  BY DEF RowsInv, Fits, ViewFits, Live, Ended, Is
<1>2. Serves(q)
  <2>1. Serves(q) \/ form[q].verb \in Writes \cup {"adopt"}
    BY OneMoves
  <2> QED
    BY <2>1 DEF Writes
<1>3. InsertView(q)
  BY <1>2 DEF Serves, ReadProject, ReadForArchive, LockProject, InsertMember, CreateIssue,
     UpsertNewIssue, SkipAttach, ReadPlace, CheckEdited, CheckDropped, LookUp, CommitAdd,
     CommitRemove, UpdateProject, Archive, Abort,
     UpdateView, DeleteView, LockViews, CommitReorder, CheckIssues, PlaceOnView,
     LiftFromView, Is
<1>4. ~(\A v \in ViewsOf(P(q)) : tab[v].name # form[q].name
                                 /\ tab[v].position # form[q].place)
  BY <1>3 DEF InsertView, RowsInv, TypeOK
<1>5. \A v \in ViewsOf(P(q)) : ~form[q].overtaken => tab[v].position # form[q].place
  BY <1>1, BeyondDiffers
<1> QED
  BY <1>4, <1>5

\* Whatever requests interleave, a count is that of its members, no two tabs share a
\* place, a form that holds its project's lock has its version, and a form with the
\* version of its project saw its content (projects.rs, project_views.rs).
THEOREM RowsHold == BoardSpec => []RowsInv
<1>1. ASSUME \E names, ts, ms, ps, ls, gs, bs, fs :
                InitRows(names, ts, ms, ps) /\ InitMilestones(ls, gs) /\ InitBoards(bs, fs)
      PROVE  RowsInv
  BY <1>1, RowsInvInit
<1>2. RowsInv /\ [AllNext]_everything => RowsInv'
  BY RowsInvStep
<1> QED
  BY <1>1, <1>2, PTL DEF BoardSpec

\* The counts on a project's row are those of its members (projects.rs recounts them in
\* the transaction that changes the members).
THEOREM CountsHold == BoardSpec => []CountsAddUp
<1>1. RowsInv => CountsAddUp
  BY DEF RowsInv
<1> QED
  BY <1>1, RowsHold, PTL

\* A change asked for on a page goes through only if the page still shows the project.
THEOREM VersionCovers == BoardSpec => VersionCoversProject
<1>1. RowsInv /\ [AllNext]_everything =>
         [\A q \in Requests :
             /\ form[q].verb \in {"patch", "archive", "add", "remove"}
             /\ pc[q] \in {"read", "locked"} /\ pc'[q] = "done"
             /\ project'[P(q)].version # project[P(q)].version
             => Content(P(q)) = form[q].page.saw]_vars
  BY VersionStep
<1> QED
  BY <1>1, RowsHold, PTL DEF BoardSpec, VersionCoversProject

\* A view whose name is free is refused only because another was created since its place
\* was read.
THEOREM OnlyARivalRefuses == BoardSpec => RefusedOnlyByRival
<1>1. RowsInv /\ [AllNext]_everything =>
         [\A q \in Requests :
             Is(q, "add view", "read") /\ pc'[q] = "taken" =>
                \/ \E v \in ViewsOf(P(q)) : tab[v].name = form[q].name
                \/ form[q].overtaken]_vars
  BY RivalStep DEF Is
<1> QED
  BY <1>1, RowsHold, PTL DEF BoardSpec, RefusedOnlyByRival

-----------------------------------------------------------------------------
(* What is true of milestones *)

AnsweredOn(m) == {q \in Requests : /\ pc[q] = "answered" /\ form[q].verb \in Writes
                                   /\ form[q].milestone = m}

MilestoneFits(q) ==
    /\ form[q].verb = "adopt" => form[q].milestone \in Milestones \cup {None}
    /\ form[q].verb \in Writes => form[q].milestone \in Milestones
    /\ pc[q] = "answered" /\ form[q].verb \in Writes \ {"drop milestone"} =>
          form[q].payload \in Contents

Agree(m) == /\ m \in DOMAIN mirror <=> m \in DOMAIN remote
            /\ m \in DOMAIN mirror => mirror[m] = remote[m]

\* GitHub has what the answer says that is on its way.
Bears(q, m) == IF form[q].verb = "drop milestone" THEN m \notin DOMAIN remote
               ELSE m \in DOMAIN remote /\ remote[m] = form[q].payload

Mirrored(m) == /\ AnsweredOn(m) = {} => Agree(m)
               /\ \A q \in AnsweredOn(m) : AnsweredOn(m) = {q} /\ Bears(q, m)

MilestonesInv == /\ RowsInv /\ MilestonesTypeOK
                 /\ \A q \in Requests : MilestoneFits(q)
                 /\ \A m \in Milestones \ uncertain : Mirrored(m)

Spared(q) == /\ pc'[q] = "answered" <=> pc[q] = "answered"
             /\ \/ form'[q] = form[q]
                \/ form'[q].verb \notin Writes \cup {"adopt"} /\ pc[q] # "answered"

\* Steps on rows neither answer a request about a milestone nor make one.
LEMMA RowsKeepMilestones ==
    ASSUME RowsInv, ProjectsNext, NEW q \in Requests
    PROVE  Spared(q)
<1>1. ASSUME NEW o \in Requests, NEW at, pc' = [pc EXCEPT ![o] = at], q # o
      PROVE  pc'[q] = pc[q]
  BY <1>1 DEF RowsInv, TypeOK
<1>2. ASSUME NEW o \in Requests, NEW f, form' = [form EXCEPT ![o] = f]
      PROVE  IF q = o THEN form'[q] = f ELSE form'[q] = form[q]
  BY <1>2 DEF RowsInv
<1>3. ASSUME NEW o \in Requests, NEW at, pc' = [pc EXCEPT ![o] = at]
      PROVE  pc'[o] = at
  BY <1>3 DEF RowsInv, TypeOK
<1>4. NoForm.verb \notin Writes \cup {"adopt"}
  BY DEF NoForm, Writes
<1>5. ASSUME NEW o \in Requests, NEW at, NEW f, pc[o] # "answered", at # "answered",
             Go(o, at, f) \/ Goto(o, at),
             Go(o, at, f) => f.verb \notin Writes \cup {"adopt"}
      PROVE  Spared(q)
  BY <1>1, <1>2, <1>3, <1>5 DEF Go, Goto, Spared
<1>6. CASE \E o \in Requests : Asks(o)
  <2> PICK o \in Requests : Asks(o)
    BY <1>6
  <2>1. ASSUME NEW f, Ask(o, f)
        PROVE  Spared(q)
    <3>1. f.verb \notin Writes \cup {"adopt"} /\ pc[o] = "idle" /\ Go(o, "asked", f)
      BY <2>1, ProjectsAssumption DEF Ask, Writes
    <3> QED
      BY <1>5, <3>1
  <2>2. (\E f : Ask(o, f)) \/ \E p \in Ids : CreateProject(o, p)
    BY DEF Asks, AskPatch, AskArchive, AskAdd, AskRemove, AskNewIssue,
       AskNewView, AskEditView, AskDropView, AskReorder, AskPlace, AskLift
  <2>3. ASSUME NEW p \in Ids, CreateProject(o, p)
        PROVE  pc[o] = "idle" /\ (Go(o, "done", NoForm) \/ Go(o, "taken", NoForm))
    BY <2>3 DEF CreateProject
  <2> QED
    BY <1>4, <1>5, <2>1, <2>2, <2>3
<1>7. CASE \E o \in Requests : Serves(o)
  <2> PICK o \in Requests : Serves(o)
    BY <1>7
  <2>0. Shaped(form[o])
    BY DEF RowsInv, Fits
  <2>1. ASSUME NEW at \in Ended, pc[o] # "answered", End(o, at)
        PROVE  Spared(q)
    BY <1>4, <1>5, <2>1 DEF End, Ended
  <2>2. ASSUME pc[o] # "answered", UpdateProject(o) \/ Archive(o) \/ CommitAdd(o) \/ CommitRemove(o)
                 \/ SkipAttach(o) \/ UpdateView(o) \/ DeleteView(o) \/ CommitReorder(o)
                 \/ PlaceOnView(o) \/ LiftFromView(o) \/ Abort(o)
        PROVE  \E at \in Ended : End(o, at)
    BY <2>2 DEF UpdateProject, Archive, CommitAdd, CommitRemove, SkipAttach, UpdateView,
       DeleteView, CommitReorder, PlaceOnView, LiftFromView, Abort, Ended
  <2>3. ASSUME ReadForArchive(o) \/ LockProject(o) \/ CreateIssue(o) \/ CheckEdited(o)
               \/ CheckDropped(o) \/ LockViews(o)
        PROVE  \/ \E at \in Ended : End(o, at)
               \/ Goto(o, "read") \/ Goto(o, "locked") \/ Goto(o, "created")
    BY <2>3 DEF ReadForArchive, LockProject, CreateIssue, CheckEdited, CheckDropped, CheckView,
       LockViews, Ended
  <2>4. ASSUME ReadProject(o) \/ LookUp(o) \/ InsertMember(o) \/ UpsertNewIssue(o)
               \/ ReadPlace(o) \/ CheckIssues(o)
        PROVE  \/ \E at \in Ended : End(o, at)
               \/ Goto(o, "inserting")
               \/ \E f, at : /\ at \in {"read", "locked", "asked"} /\ Go(o, at, f)
                             /\ f.verb \notin Writes \cup {"adopt"}
    <3>1. CASE ReadProject(o)
      <4> PICK f : f = [form[o] EXCEPT !.body = Overlay(@, project[P(o)])]
        OBVIOUS
      <4>1. f.verb = "patch" /\ Go(o, "read", f)
        BY <2>0, <3>1 DEF ReadProject, Is, Shaped
      <4> QED
        BY <4>1 DEF Writes
    <3>2. CASE LookUp(o) \/ InsertMember(o)
      <4>1. form[o].verb = "add" /\ {"verb", "todo", "added"} \subseteq DOMAIN form[o]
        BY <2>0, <3>2 DEF LookUp, InsertMember, Is, Shaped
      <4> PICK f : f = [form[o] EXCEPT !.todo = Tail(@)]
        OBVIOUS
      <4> PICK g : g = [form[o] EXCEPT !.todo = Tail(@),
                                       !.added = @ \cup {Head(form[o].todo)}]
        OBVIOUS
      <4>2. f.verb = "add" /\ g.verb = "add"
        BY <4>1
      <4>3. End(o, "stale") \/ Goto(o, "inserting") \/ Go(o, "locked", f) \/ Go(o, "locked", g)
        BY <3>2 DEF LookUp, InsertMember
      <4> QED
        BY <4>2, <4>3 DEF Writes, Ended
    <3>3. CASE UpsertNewIssue(o)
      <4>1. form[o].verb = "new issue" /\ "verb" \in DOMAIN form[o]
        BY <2>0, <3>3 DEF UpsertNewIssue, Is, Shaped
      <4> PICK f : f = [form[o] EXCEPT !.verb = "place"]
        OBVIOUS
      <4> PICK g : g = [form[o] EXCEPT !.verb = "add"]
        OBVIOUS
      <4>2. f.verb = "place" /\ g.verb = "add"
        BY <4>1
      <4>3. Go(o, "read", f) \/ Go(o, "asked", g)
        BY <3>3 DEF UpsertNewIssue
      <4> QED
        BY <4>2, <4>3 DEF Writes
    <3>4. CASE ReadPlace(o)
      <4> PICK f : f = [verb |-> "add view", project |-> P(o), name |-> form[o].name,
                        place |-> NextPlace(P(o)), overtaken |-> FALSE]
        OBVIOUS
      <4>1. f.verb = "add view" /\ Go(o, "read", f)
        BY <3>4 DEF ReadPlace
      <4> QED
        BY <4>1 DEF Writes
    <3>5. CASE CheckIssues(o)
      <4>1. form[o].verb = "place" /\ {"verb", "ids"} \subseteq DOMAIN form[o]
        BY <2>0, <3>5 DEF CheckIssues, Is, Shaped
      <4> PICK f : f = [form[o] EXCEPT !.ids = @ \cap (Locals \ Foreign)]
        OBVIOUS
      <4>2. f.verb = "place" /\ Go(o, "read", f)
        BY <3>5, <4>1 DEF CheckIssues
      <4> QED
        BY <4>2 DEF Writes
    <3> QED
      BY <2>4, <3>1, <3>2, <3>3, <3>4, <3>5
  <2>5. pc[o] # "answered"
    BY DEF Serves, UpdateProject, Archive, CommitAdd, CommitRemove, SkipAttach, UpdateView,
       DeleteView, CommitReorder, PlaceOnView, LiftFromView, Abort, ReadForArchive,
       LockProject, CreateIssue, CheckEdited, CheckDropped, LockViews, ReadProject, LookUp,
       InsertMember, UpsertNewIssue, ReadPlace, CheckIssues, InsertView, Is
  <2>6. CASE InsertView(o)
    <3>1. CASE End(o, "taken")
      BY <2>1, <2>5, <3>1 DEF Ended
    <3>2. CASE pc' = [pc EXCEPT ![o] = "done"] /\ Overtake(o, P(o))
      <4>1. pc'[q] = "answered" <=> pc[q] = "answered"
        BY <1>1, <1>3, <2>5, <3>2
      <4>2. CASE q = o
        BY <1>4, <2>5, <3>2, <4>1, <4>2 DEF Overtake, Spared
      <4>3. CASE q # o /\ Is(q, "add view", "read") /\ P(q) = P(o)
        <5>1. "verb" \in DOMAIN form[q] /\ form[q].verb = "add view"
          BY <4>3 DEF RowsInv, Fits, ViewFits, Live, Ended, Is
        <5> PICK f : f = [form[q] EXCEPT !.overtaken = TRUE]
          OBVIOUS
        <5>2. form'[q] = f /\ f.verb = "add view"
          BY <3>2, <4>3, <5>1 DEF Overtake
        <5> QED
          BY <4>1, <4>3, <5>2 DEF Writes, Spared, Is
      <4>4. CASE q # o /\ ~(Is(q, "add view", "read") /\ P(q) = P(o))
        BY <3>2, <4>1, <4>4 DEF Overtake, Spared
      <4> QED
        BY <4>2, <4>3, <4>4
    <3> QED
      BY <2>6, <3>1, <3>2 DEF InsertView
  <2>7. ASSUME NEW at \in {"read", "locked", "created", "inserting"}, Goto(o, at)
        PROVE  Spared(q)
    BY <1>1, <1>3, <2>5, <2>7 DEF Goto, Spared
  <2>8. ASSUME NEW f, NEW at \in {"read", "locked", "asked"}, Go(o, at, f),
               f.verb \notin Writes \cup {"adopt"}
        PROVE  Spared(q)
    BY <1>5, <2>5, <2>8
  <2> QED
    BY <2>1, <2>2, <2>3, <2>4, <2>5, <2>6, <2>7, <2>8 DEF Serves
<1>8. CASE \E i \in Issues : SyncIssue(i)
  BY <1>8 DEF SyncIssue, Spared
<1> QED
  BY <1>6, <1>7, <1>8 DEF ProjectsNext

\* No project and no issue is ever removed.
LEMMA RowsGrow ==
    ASSUME RowsInv, ProjectsNext
    PROVE  DOMAIN project \subseteq DOMAIN project' /\ Locals \subseteq Locals'
<1>1. CASE \E o \in Requests : Asks(o)
  <2> PICK o \in Requests : Asks(o)
    BY <1>1
  <2>1. UNCHANGED issue
    BY DEF Asks, AskPatch, AskArchive, AskAdd, AskRemove, AskNewIssue,
       AskNewView, AskEditView, AskDropView, AskReorder, AskPlace, AskLift, Ask, rows,
       CreateProject
  <2>2. DOMAIN project \subseteq DOMAIN project'
    BY DEF Asks, AskPatch, AskArchive, AskAdd, AskRemove, AskNewIssue,
       AskNewView, AskEditView, AskDropView, AskReorder, AskPlace, AskLift, Ask, rows,
       CreateProject, Put
  <2> QED
    BY <2>1, <2>2 DEF Locals
<1>2. CASE \E o \in Requests : Serves(o)
  <2> PICK o \in Requests : Serves(o)
    BY <1>2
  <2>1. DOMAIN project \subseteq DOMAIN project'
    BY DEF Serves, UpdateProject, Archive, CommitAdd, CommitRemove, SkipAttach, UpdateView,
       DeleteView, CommitReorder, PlaceOnView, LiftFromView, Abort, ReadForArchive,
       LockProject, CreateIssue, CheckEdited, CheckDropped, CheckView, LockViews,
       ReadProject, LookUp, InsertMember, UpsertNewIssue, ReadPlace, CheckIssues,
       InsertView, rows, Recount
  <2>2. CASE CreateIssue(o)
    BY <2>1, <2>2 DEF CreateIssue, Locals, RowsInv, TypeOK
  <2>3. CASE UpsertNewIssue(o)
    BY <2>1, <2>3 DEF UpsertNewIssue, Locals, RowsInv, TypeOK
  <2>4. CASE UNCHANGED issue
    BY <2>1, <2>4 DEF Locals
  <2>5. CreateIssue(o) \/ UpsertNewIssue(o) \/ UNCHANGED issue
    BY DEF Serves, UpdateProject, Archive, CommitAdd, CommitRemove, SkipAttach, UpdateView,
       DeleteView, CommitReorder, PlaceOnView, LiftFromView, Abort, ReadForArchive,
       LockProject, CheckEdited, CheckDropped, CheckView, LockViews,
       ReadProject, LookUp, InsertMember, ReadPlace, CheckIssues, InsertView, rows
  <2> QED
    BY <2>1, <2>2, <2>3, <2>4, <2>5
<1>3. CASE \E i \in Issues : SyncIssue(i)
  BY <1>3 DEF SyncIssue, Locals, RowsInv, TypeOK
<1> QED
  BY <1>1, <1>2, <1>3 DEF ProjectsNext

SameRows(m) ==
    /\ m \in DOMAIN mirror' <=> m \in DOMAIN mirror
    /\ m \in DOMAIN mirror => mirror'[m] = mirror[m]
    /\ m \in DOMAIN remote' <=> m \in DOMAIN remote
    /\ m \in DOMAIN remote => remote'[m] = remote[m]

\* What a milestone is answered, where nothing of it changes.
LEMMA SameMirrored ==
    ASSUME NEW m, Mirrored(m), AnsweredOn(m)' = AnsweredOn(m),
           \A q \in AnsweredOn(m) : form'[q] = form[q],
           SameRows(m)
    PROVE  Mirrored(m)'
<1>1. Agree(m) => Agree(m)'
  BY DEF Agree, SameRows
<1>2. ASSUME NEW q \in AnsweredOn(m), Bears(q, m) PROVE Bears(q, m)'
  BY <1>2 DEF Bears, SameRows
<1> QED
  BY <1>1, <1>2 DEF Mirrored

LEMMA ProjectsKeepMilestones ==
    ASSUME MilestonesInv, ProjectsStep
    PROVE  MilestonesInv'
<1>1. RowsInv /\ ProjectsNext /\ UNCHANGED <<link, mirror, remote, edits, uncertain>>
  BY DEF MilestonesInv, ProjectsStep
<1>2. RowsInv'
  BY <1>1, AsksStep, ServesStep, SyncIssueStep DEF ProjectsNext
<1>3. MilestonesTypeOK'
  <2>1. DOMAIN project \subseteq DOMAIN project'
    BY <1>1, RowsGrow
  <2>2. /\ DOMAIN primary' = DOMAIN project'
        /\ \A p \in DOMAIN primary' : primary'[p] = (IF p \in DOMAIN primary THEN primary[p] ELSE None)
    BY DEF ProjectsStep
  <2>3. \A p \in DOMAIN primary' : primary'[p] \in DOMAIN mirror \cup {None}
    BY <2>2 DEF MilestonesInv, MilestonesTypeOK
  <2> QED
    BY <1>1, <1>2, <2>1, <2>2, <2>3 DEF MilestonesInv, MilestonesTypeOK, Contents, RowsInv
<1>4. \A q \in Requests : Spared(q)
  BY <1>1, RowsKeepMilestones
<1>5. ASSUME NEW q \in Requests PROVE MilestoneFits(q)'
  BY <1>4 DEF Spared, MilestonesInv, MilestoneFits, Contents
<1>6. ASSUME NEW m \in Milestones \ uncertain PROVE Mirrored(m)'
  <2>1. AnsweredOn(m)' = AnsweredOn(m)
    BY <1>4 DEF Spared, AnsweredOn
  <2>2. \A q \in AnsweredOn(m) : form'[q] = form[q]
    BY <1>4 DEF Spared, AnsweredOn
  <2> QED
    BY <1>1, <1>6, <2>1, <2>2, SameMirrored DEF MilestonesInv, SameRows
<1> QED
  BY <1>1, <1>2, <1>3, <1>5, <1>6 DEF MilestonesInv

\* A step that answers nothing and is about no answer.
LEMMA QuietOnMilestones ==
    ASSUME MilestonesInv, NEW q \in Requests, Alone(q), RowsInv', MilestonesTypeOK',
           pc[q] # "answered", pc'[q] # "answered", MilestoneFits(q)',
           UNCHANGED <<mirror, remote, uncertain>>
    PROVE  MilestonesInv'
<1>1. ASSUME NEW o \in Requests \ {q} PROVE MilestoneFits(o)'
  BY DEF Alone, MilestonesInv, MilestoneFits, Contents
<1>2. ASSUME NEW m \in Milestones \ uncertain PROVE Mirrored(m)'
  <2>1. AnsweredOn(m)' = AnsweredOn(m) /\ q \notin AnsweredOn(m)
    BY DEF Alone, AnsweredOn
  <2>2. \A o \in AnsweredOn(m) : form'[o] = form[o]
    BY <2>1 DEF Alone, AnsweredOn
  <2> QED
    BY <1>2, <2>1, <2>2, SameMirrored DEF MilestonesInv, SameRows
<1> QED
  BY <1>1, <1>2 DEF MilestonesInv

\* A step of a request on milestone k, that others then may doubt.
LEMMA OthersMirrored ==
    ASSUME MilestonesInv, NEW q \in Requests, Alone(q), NEW k, NEW m \in Milestones \ uncertain,
           m # k, form[q].milestone = k, form'[q] = NoForm \/ form'[q].milestone = k,
           SameRows(m)
    PROVE  Mirrored(m)'
<1>1. q \notin AnsweredOn(m) /\ q \notin AnsweredOn(m)'
  <2>1. NoForm.verb \notin Writes
    BY DEF NoForm, Writes
  <2> QED
    BY <2>1 DEF AnsweredOn
<1>3. \A o \in Requests \ {q} : o \in AnsweredOn(m) <=> o \in AnsweredOn(m)'
  BY DEF Alone, AnsweredOn
<1>4. AnsweredOn(m)' = AnsweredOn(m)
  BY <1>1, <1>3 DEF AnsweredOn
<1>2. \A o \in AnsweredOn(m) : form'[o] = form[o]
  BY <1>1 DEF Alone, AnsweredOn
<1> QED
  BY <1>4, <1>2, SameMirrored DEF MilestonesInv

LEMMA OtherWritesFit ==
    ASSUME MilestonesInv, NEW q \in Requests, Alone(q), MilestoneFits(q)', NEW o \in Requests
    PROVE  MilestoneFits(o)'
<1>1. CASE o = q
  BY <1>1 DEF MilestoneFits, Contents
<1>2. CASE o # q
  BY <1>2 DEF Alone, MilestonesInv, MilestoneFits, Contents
<1> QED
  BY <1>1, <1>2

LEMMA NoFormFits ==
    ASSUME NEW q \in Requests, form'[q] = NoForm
    PROVE  MilestoneFits(q)'
BY DEF MilestoneFits, NoForm, Writes

LEMMA Disturbs ==
    ASSUME NEW q \in Requests, NEW m, Disturb(q, m)
    PROVE  /\ uncertain \subseteq uncertain' /\ uncertain' \subseteq uncertain \cup {m}
           /\ m \notin uncertain' => \A o \in AnsweredOn(m) : o = q
BY DEF Disturb, OnMilestone, AnsweredOn

LEMMA GitHubKeepsMilestones ==
    ASSUME MilestonesInv, NEW q \in Requests,
           GitHubCreates(q) \/ GitHubEdits(q) \/ GitHubDeletes(q)
    PROVE  MilestonesInv'
<1> PICK k : k = form[q].milestone
  OBVIOUS
<1>1. RowsInv /\ RowsInv'
  BY GitHubStep DEF MilestonesInv
<1>2. /\ UNCHANGED <<rows, link, primary, mirror>> /\ Disturb(q, k)
      /\ form[q].verb \in Writes
  BY DEF GitHubCreates, GitHubEdits, GitHubDeletes, GitHubWrites, Is, Writes
<1>3. k \in Milestones
  BY <1>2 DEF MilestonesInv, MilestoneFits
<1>4. {"verb", "milestone", "payload"} \subseteq DOMAIN form[q]
  BY <1>1, <1>2 DEF RowsInv, Fits, Shaped, Writes
<1>5. ASSUME Alone(q), pc'[q] = "answered", form'[q].verb = form[q].verb,
             form'[q].milestone = k, Bears(q, k)', MilestoneFits(q)', MilestonesTypeOK',
             \A m \in Milestones \ {k} : SameRows(m)
      PROVE  MilestonesInv'
  <2>1. \A o \in Requests : MilestoneFits(o)'
    BY <1>5, OtherWritesFit
  <2>2. ASSUME NEW m \in Milestones \ uncertain' PROVE Mirrored(m)'
    <3>1. m \notin uncertain
      BY <1>2, <2>2, Disturbs
    <3>2. CASE m # k
      BY <1>2, <1>5, <3>1, <3>2, OthersMirrored
    <3>3. CASE m = k
      <4>1. \A o \in AnsweredOn(k) : o = q
        BY <1>2, <2>2, <3>3, Disturbs
      <4>2. AnsweredOn(k)' = {q}
        BY <1>2, <1>5, <4>1 DEF AnsweredOn, Alone
      <4> QED
        BY <1>5, <3>3, <4>2 DEF Mirrored
    <3> QED
      BY <3>2, <3>3
  <2> QED
    BY <1>1, <1>5, <2>1, <2>2 DEF MilestonesInv
<1>6. uncertain' \subseteq Milestones
  BY <1>2, <1>3, Disturbs DEF MilestonesInv, MilestonesTypeOK
<1>7. CASE GitHubCreates(q) \/ GitHubEdits(q)
  <2> PICK n : n = edits'
    OBVIOUS
  <2> PICK f : f = [form[q] EXCEPT !.payload = n]
    OBVIOUS
  <2>1. GitHubWrites(q) /\ form[q].verb # "drop milestone"
    BY <1>7 DEF GitHubCreates, GitHubEdits, Is
  <2>2. n \in Contents /\ edits' \in 0..MaxEdits
    <3>1. edits < MaxEdits /\ n = edits + 1
      BY <2>1 DEF GitHubWrites
    <3>2. edits \in 0..MaxEdits /\ MaxEdits \in Nat
      BY MilestonesAssumption DEF MilestonesInv, MilestonesTypeOK
    <3> QED
      BY <3>1, <3>2 DEF Contents
  <2>3. /\ f.verb = form[q].verb /\ f.milestone = k /\ f.payload = n
    BY <1>4
  <2>4. Alone(q) /\ pc'[q] = "answered" /\ form'[q] = f
    BY <1>1, <2>1, GoMovesOne DEF GitHubWrites
  <2>5. remote' = Put(remote, k, n)
    BY <2>1 DEF GitHubWrites
  <2>6. /\ k \in DOMAIN remote' /\ remote'[k] = n
        /\ DOMAIN remote' = DOMAIN remote \cup {k}
        /\ \A m \in DOMAIN remote \ {k} : remote'[m] = remote[m]
    BY <2>5 DEF Put
  <2>7. MilestonesTypeOK'
    BY <1>1, <1>2, <1>3, <1>6, <2>2, <2>6
       DEF MilestonesInv, MilestonesTypeOK, Contents, RowsInv, rows
  <2>8. Bears(q, k)'
    BY <2>1, <2>3, <2>4, <2>6 DEF Bears
  <2>9. MilestoneFits(q)'
    BY <1>2, <1>3, <2>2, <2>3, <2>4 DEF MilestoneFits, Contents, Writes
  <2>10. ASSUME NEW m \in Milestones \ {k}
         PROVE  SameRows(m)
    BY <1>2, <2>5 DEF Put, SameRows
  <2> QED
    BY <1>5, <2>3, <2>4, <2>7, <2>8, <2>9, <2>10
<1>8. CASE GitHubDeletes(q)
  <2>1. form[q].verb = "drop milestone" /\ Goto(q, "answered") /\ edits' = edits
    BY <1>8 DEF GitHubDeletes, Is
  <2>2. Alone(q) /\ pc'[q] = "answered" /\ form'[q] = form[q]
    BY <1>1, <2>1, GotoMovesOne
  <2>3. remote' = [o \in DOMAIN remote \ {k} |-> remote[o]]
    BY <1>8 DEF GitHubDeletes
  <2>4. MilestonesTypeOK'
    BY <1>1, <1>2, <1>6, <2>1, <2>3
       DEF MilestonesInv, MilestonesTypeOK, Contents, RowsInv, rows
  <2>5. Bears(q, k)'
    BY <2>1, <2>2, <2>3 DEF Bears
  <2>6. MilestoneFits(q)'
    BY <1>3, <2>1, <2>2 DEF MilestoneFits, Contents, Writes
  <2>7. ASSUME NEW m \in Milestones \ {k}
        PROVE  SameRows(m)
    BY <1>2, <2>3 DEF SameRows
  <2> QED
    BY <1>5, <2>2, <2>4, <2>5, <2>6, <2>7
<1> QED
  BY <1>7, <1>8

LEMMA StoreKeepsMilestones ==
    ASSUME MilestonesInv, NEW q \in Requests,
           StoreMilestone(q) \/ DeleteMilestone(q) \/ StoreFails(q)
    PROVE  MilestonesInv'
<1> PICK k : k = form[q].milestone
  OBVIOUS
<1>1. RowsInv /\ RowsInv'
  BY SettleStep DEF MilestonesInv
<1>2. /\ UNCHANGED <<rows, link, remote, edits>>
      /\ form[q].verb \in Writes /\ pc[q] = "answered"
      /\ Disturb(q, k) \/ uncertain' = uncertain \cup {k}
  BY DEF StoreMilestone, DeleteMilestone, StoreFails, Is, Writes
<1>3. k \in Milestones /\ q \in AnsweredOn(k)
  BY <1>2 DEF MilestonesInv, MilestoneFits, AnsweredOn
<1>4. PICK at \in Ended : Go(q, at, NoForm)
  BY DEF StoreMilestone, DeleteMilestone, StoreFails, End, Ended
<1>5. Alone(q) /\ pc'[q] = at /\ form'[q] = NoForm
  BY <1>1, <1>4, GoMovesOne
<1>6. ASSUME NEW o \in Requests PROVE MilestoneFits(o)'
  BY <1>5, NoFormFits, OtherWritesFit
<1>7. uncertain' \subseteq Milestones
  BY <1>2, <1>3, Disturbs DEF MilestonesInv, MilestonesTypeOK
<1>8. uncertain \subseteq uncertain'
  BY <1>2, Disturbs
<1>9. ASSUME MilestonesTypeOK', \A m \in Milestones \ {k} : SameRows(m),
             k \notin uncertain' => (k \in DOMAIN remote =>
                                        k \in DOMAIN mirror' /\ mirror'[k] = remote[k])
                                    /\ (k \notin DOMAIN remote => k \notin DOMAIN mirror')
      PROVE  MilestonesInv'
  <2>1. ASSUME NEW m \in Milestones \ uncertain' PROVE Mirrored(m)'
    <3>1. m \notin uncertain
      BY <1>8, <2>1
    <3>2. CASE m # k
      BY <1>5, <1>9, <3>1, <3>2, OthersMirrored
    <3>3. CASE m = k
      <4>1. Mirrored(k)
        BY <1>3, <3>1, <3>3 DEF MilestonesInv
      <4>2. AnsweredOn(k) = {q}
        BY <1>3, <4>1 DEF Mirrored
      <4>3. at # "answered"
        BY <1>4 DEF Ended
      <4>4. AnsweredOn(k)' = {}
        BY <1>5, <4>2, <4>3 DEF AnsweredOn, Alone
      <4>5. Agree(k)'
        BY <1>2, <1>9, <2>1, <3>3 DEF Agree
      <4> QED
        BY <3>3, <4>4, <4>5 DEF Mirrored
    <3> QED
      BY <3>2, <3>3
  <2> QED
    BY <1>1, <1>6, <1>9, <2>1 DEF MilestonesInv
<1>10. k \notin uncertain' => Bears(q, k)
  BY <1>3, <1>8 DEF MilestonesInv, Mirrored
<1>11. CASE StoreMilestone(q)
  <2> PICK n : n = form[q].payload
    OBVIOUS
  <2>1. form[q].verb \in Writes \ {"drop milestone"} /\ primary' = primary
    BY <1>11 DEF StoreMilestone, Is, Writes
  <2>2. n \in Contents
    BY <1>2, <2>1 DEF MilestonesInv, MilestoneFits
  <2>3. mirror' = Put(mirror, k, n)
    BY <1>11 DEF StoreMilestone, UpsertMilestone
  <2>4. /\ DOMAIN mirror' = DOMAIN mirror \cup {k} /\ mirror'[k] = n
        /\ \A m \in DOMAIN mirror \ {k} : mirror'[m] = mirror[m]
    BY <2>3 DEF Put
  <2>5. MilestonesTypeOK'
    BY <1>1, <1>2, <1>3, <1>7, <2>1, <2>2, <2>4
       DEF MilestonesInv, MilestonesTypeOK, Contents, RowsInv, rows
  <2>6. ASSUME NEW m \in Milestones \ {k} PROVE SameRows(m)
    BY <1>2, <2>4 DEF SameRows
  <2>7. k \notin uncertain' => k \in DOMAIN remote /\ remote[k] = n
    BY <1>10, <2>1 DEF Bears
  <2> QED
    BY <1>9, <2>4, <2>5, <2>6, <2>7
<1>12. CASE DeleteMilestone(q)
  <2>1. /\ mirror' = [o \in DOMAIN mirror \ {k} |-> mirror[o]]
        /\ primary' = [p \in DOMAIN primary |-> IF primary[p] = k THEN None ELSE primary[p]]
        /\ form[q].verb = "drop milestone"
    BY <1>12 DEF DeleteMilestone, Is
  <2>2. \A p \in DOMAIN primary' : primary'[p] \in DOMAIN mirror' \cup {None}
    BY <2>1 DEF MilestonesInv, MilestonesTypeOK
  <2>3. MilestonesTypeOK'
    BY <1>1, <1>2, <1>7, <2>1, <2>2
       DEF MilestonesInv, MilestonesTypeOK, Contents, RowsInv, rows
  <2>4. ASSUME NEW m \in Milestones \ {k} PROVE SameRows(m)
    BY <1>2, <2>1 DEF SameRows
  <2>5. k \notin DOMAIN mirror' /\ (k \notin uncertain' => k \notin DOMAIN remote)
    BY <1>10, <2>1 DEF Bears
  <2> QED
    BY <1>9, <2>3, <2>4, <2>5
<1>13. CASE StoreFails(q)
  <2>1. UNCHANGED <<mirror, primary>> /\ k \in uncertain'
    BY <1>13 DEF StoreFails
  <2>2. MilestonesTypeOK'
    BY <1>1, <1>2, <1>7, <2>1 DEF MilestonesInv, MilestonesTypeOK, Contents, RowsInv, rows
  <2>3. ASSUME NEW m \in Milestones \ {k} PROVE SameRows(m)
    BY <1>2, <2>1 DEF SameRows
  <2> QED
    BY <1>9, <2>1, <2>2, <2>3
<1> QED
  BY <1>11, <1>12, <1>13

LEMMA AdoptKeepsMilestones ==
    ASSUME MilestonesInv, NEW q \in Requests, AdoptMilestone(q)
    PROVE  MilestonesInv'
<1> PICK p, m : p = P(q) /\ m = form[q].milestone
  OBVIOUS
<1>1. RowsInv /\ RowsInv'
  BY AdoptStep DEF MilestonesInv
<1>2. pc[q] = "read" /\ UNCHANGED <<link, mirror, remote, edits, uncertain>>
  BY DEF AdoptMilestone, Is
<1>3. PICK at \in Ended : Go(q, at, NoForm)
  BY DEF AdoptMilestone, End, Ended
<1>4. Alone(q) /\ pc'[q] = at /\ form'[q] = NoForm
  BY <1>1, <1>3, GoMovesOne
<1>5. DOMAIN project' = DOMAIN project
  BY DEF AdoptMilestone
<1>6. \/ primary' = primary
      \/ primary' = [primary EXCEPT ![p] = m] /\ m \in DOMAIN mirror \cup {None}
  BY DEF AdoptMilestone
<1>7. /\ DOMAIN primary' = DOMAIN primary
      /\ \A o \in DOMAIN primary : primary'[o] \in DOMAIN mirror \cup {None}
  BY <1>6 DEF MilestonesInv, MilestonesTypeOK
<1>8. MilestonesTypeOK'
  BY <1>1, <1>2, <1>5, <1>7 DEF MilestonesInv, MilestonesTypeOK, Contents, RowsInv
<1> QED
  BY <1>1, <1>2, <1>3, <1>4, <1>8, NoFormFits, QuietOnMilestones DEF Ended

LEMMA AsksKeepMilestones ==
    ASSUME MilestonesInv, NEW q \in Requests,
           \/ LinkRepo(q) \/ UnlinkRepo(q) \/ AskAdopt(q) \/ CheckLink(q)
           \/ AskNewMilestone(q) \/ AskEditMilestone(q) \/ AskDropMilestone(q)
           \/ GitHubRefuses(q)
    PROVE  MilestonesInv'
<1>1. RowsInv /\ RowsInv'
  BY LinkStep, AskAdoptStep, CheckLinkStep, ResolveStep, SettleStep DEF MilestonesInv
<1>2. UNCHANGED <<rows, primary, mirror, remote, edits, uncertain>>
  BY DEF LinkRepo, UnlinkRepo, AskAdopt, CheckLink, AskNewMilestone, AskEditMilestone,
     AskDropMilestone, ResolveMilestone, GitHubRefuses, msVars
<1>3. link' \subseteq (DOMAIN project) \X Repos
  <2>1. CASE LinkRepo(q)
    BY <2>1 DEF LinkRepo, With, MilestonesInv, MilestonesTypeOK
  <2>2. CASE UnlinkRepo(q)
    <3>1. link' \subseteq link
      BY <2>2 DEF UnlinkRepo, Without
    <3> QED
      BY <3>1 DEF MilestonesInv, MilestonesTypeOK
  <2>3. CASE UNCHANGED link
    BY <2>3 DEF MilestonesInv, MilestonesTypeOK
  <2> QED
    BY <2>1, <2>2, <2>3 DEF AskAdopt, CheckLink, AskNewMilestone, AskEditMilestone,
       AskDropMilestone, ResolveMilestone, GitHubRefuses, msVars
<1>4. MilestonesTypeOK'
  BY <1>1, <1>2, <1>3 DEF MilestonesInv, MilestonesTypeOK, Contents, RowsInv, rows
<1>5. pc[q] # "answered"
  BY DEF LinkRepo, UnlinkRepo, AskAdopt, CheckLink, AskNewMilestone, AskEditMilestone,
     AskDropMilestone, ResolveMilestone, GitHubRefuses, Is
<1>6. ASSUME NEW at \in Ended \cup {"asked", "read"},
             Go(q, at, NoForm) \/ Goto(q, at)
      PROVE  MilestonesInv'
  <2>1. Alone(q) /\ pc'[q] = at /\ form'[q] \in {NoForm, form[q]}
    BY <1>1, <1>6, GoMovesOne, GotoMovesOne
  <2>2. at # "answered"
    BY DEF Ended
  <2>3. ASSUME form'[q] = NoForm PROVE MilestoneFits(q)'
    BY <2>3, NoFormFits
  <2>4. ASSUME form'[q] = form[q] PROVE MilestoneFits(q)'
    BY <2>1, <2>2, <2>4 DEF MilestonesInv, MilestoneFits, Contents
  <2>5. MilestoneFits(q)'
    BY <2>1, <2>3, <2>4
  <2> QED
    BY <1>1, <1>2, <1>4, <1>5, <2>1, <2>2, <2>5, QuietOnMilestones
<1>7. ASSUME NEW f, NEW at \in {"asked", "read"}, Go(q, at, f), f.verb \in Writes \cup {"adopt"},
             f.milestone \in IF f.verb = "adopt" THEN Milestones \cup {None} ELSE Milestones
      PROVE  MilestonesInv'
  <2>1. Alone(q) /\ pc'[q] = at /\ form'[q] = f
    BY <1>1, <1>7, GoMovesOne
  <2>2. MilestoneFits(q)'
    BY <1>7, <2>1 DEF MilestoneFits, Writes
  <2> QED
    BY <1>1, <1>2, <1>4, <1>5, <2>1, <2>2, QuietOnMilestones
<1>8. CASE LinkRepo(q) \/ UnlinkRepo(q) \/ CheckLink(q) \/ GitHubRefuses(q)
  BY <1>6, <1>8 DEF LinkRepo, UnlinkRepo, CheckLink, GitHubRefuses, End, Ended
<1>9. CASE AskAdopt(q)
  <2> PICK p \in DOMAIN project, m \in Milestones \cup {None} :
             Go(q, "asked", [verb |-> "adopt", project |-> p, milestone |-> m])
    BY <1>9 DEF AskAdopt
  <2> PICK f : f = [verb |-> "adopt", project |-> p, milestone |-> m]
    OBVIOUS
  <2>1. f.verb = "adopt" /\ f.milestone = m
    OBVIOUS
  <2> QED
    BY <1>7, <2>1
<1>10. ASSUME NEW verb \in Writes, NEW p, NEW m \in Milestones,
              Go(q, "read", [verb |-> verb, project |-> p, milestone |-> m, payload |-> 0])
       PROVE  MilestonesInv'
  <2> PICK f : f = [verb |-> verb, project |-> p, milestone |-> m, payload |-> 0]
    OBVIOUS
  <2>1. f.verb = verb /\ f.milestone = m /\ verb # "adopt"
    BY DEF Writes
  <2> QED
    BY <1>7, <1>10, <2>1
<1>11. "new milestone" \in Writes /\ "edit milestone" \in Writes /\ "drop milestone" \in Writes
  BY DEF Writes
<1>12. CASE AskNewMilestone(q)
  BY <1>10, <1>11, <1>12 DEF AskNewMilestone
<1>13. CASE AskEditMilestone(q)
  BY <1>10, <1>11, <1>13 DEF AskEditMilestone, ResolveMilestone
<1>14. CASE AskDropMilestone(q)
  BY <1>10, <1>11, <1>14 DEF AskDropMilestone, ResolveMilestone
<1> QED
  BY <1>8, <1>9, <1>12, <1>13, <1>14

LEMMA NextKeepsMilestones ==
    ASSUME MilestonesInv, Next
    PROVE  MilestonesInv'
BY ProjectsKeepMilestones, GitHubKeepsMilestones, StoreKeepsMilestones, AdoptKeepsMilestones,
   AsksKeepMilestones DEF Next, MilestonesNext

LEMMA StutterKeepsMilestones ==
    ASSUME MilestonesInv, UNCHANGED allVars
    PROVE  MilestonesInv'
<1> USE DEF allVars, msVars, vars, rows
<1>1. RowsInv'
  BY StutterKeepsRows DEF MilestonesInv
<1>2. MilestonesTypeOK'
  BY <1>1 DEF RowsInv, MilestonesInv, MilestonesTypeOK, Contents
<1>3. \A q \in Requests : MilestoneFits(q)'
  BY DEF MilestonesInv, MilestoneFits, Contents
<1>4. ASSUME NEW m \in Milestones \ uncertain PROVE Mirrored(m)'
  BY <1>4, SameMirrored DEF AnsweredOn, SameRows, MilestonesInv
<1> QED
  BY <1>1, <1>2, <1>3, <1>4 DEF MilestonesInv

LEMMA MilestonesInvStep ==
    ASSUME MilestonesInv, [AllNext]_everything
    PROVE  MilestonesInv'
BY NextKeepsMilestones, StutterKeepsMilestones DEF AllNext, everything

LEMMA MilestonesInvInit ==
    ASSUME RowsInv, \A q \in Requests : pc[q] = "idle" /\ form[q] = NoForm,
           NEW ls, NEW ms, InitMilestones(ls, ms)
    PROVE  MilestonesInv
<1>1. 1 \in Contents
  BY MilestonesAssumption DEF Contents
<1>2. /\ link \subseteq (DOMAIN project) \X Repos /\ DOMAIN primary = DOMAIN project
      /\ \A p \in DOMAIN primary : primary[p] = None
      /\ DOMAIN mirror = ms /\ remote = mirror /\ ms \subseteq Milestones
      /\ \A m \in DOMAIN mirror : mirror[m] = 1
      /\ edits = 1 /\ uncertain = {}
  BY DEF InitMilestones
<1>3. edits \in 0..MaxEdits
  BY <1>2, MilestonesAssumption
<1>4. MilestonesTypeOK
  BY <1>1, <1>2, <1>3 DEF MilestonesTypeOK, RowsInv
<1>5. ASSUME NEW q \in Requests PROVE MilestoneFits(q)
  <2>1. NoForm.verb \notin Writes \cup {"adopt"}
    BY DEF NoForm, Writes
  <2>2. form[q] = NoForm
    OBVIOUS
  <2> QED
    BY <2>1, <2>2 DEF MilestoneFits
<1>6. ASSUME NEW m \in Milestones PROVE Mirrored(m)
  <2>1. AnsweredOn(m) = {}
    BY DEF AnsweredOn
  <2> QED
    BY <1>2, <2>1 DEF Mirrored, Agree
<1> QED
  BY <1>4, <1>5, <1>6 DEF MilestonesInv

\* A milestone is what GitHub has, or a request about it is on its way or in doubt
\* (project_milestones.rs: GitHub first, the store after).
THEOREM MilestonesHold == BoardSpec => []MilestonesInv
<1>1. ASSUME \E names, ts, ms, ps, ls, gs, bs, fs :
                InitRows(names, ts, ms, ps) /\ InitMilestones(ls, gs) /\ InitBoards(bs, fs)
      PROVE  MilestonesInv
  <2> PICK names, ts, ms, ps, ls, gs :
             InitRows(names, ts, ms, ps) /\ InitMilestones(ls, gs)
    BY <1>1
  <2>1. RowsInv
    BY RowsInvInit
  <2>2. \A q \in Requests : pc[q] = "idle" /\ form[q] = NoForm
    BY DEF InitRows
  <2> QED
    BY <2>1, <2>2, MilestonesInvInit
<1>2. MilestonesInv /\ [AllNext]_everything => MilestonesInv'
  BY MilestonesInvStep
<1> QED
  BY <1>1, <1>2, PTL DEF BoardSpec

\* The mirror of a milestone is what GitHub has, unless a request about it is under way,
\* two have met or one has broken off (a write goes to GitHub first and is stored after).
THEOREM MirrorHolds == BoardSpec => []MirrorFollows
<1>1. ASSUME MilestonesInv PROVE MirrorFollows
  <2>1. ASSUME NEW m \in Milestones \ uncertain, OnMilestone(m) = {} PROVE Agree(m)
    <3>1. AnsweredOn(m) = {}
      BY <2>1 DEF AnsweredOn, OnMilestone
    <3> QED
      BY <1>1, <2>1, <3>1 DEF MilestonesInv, Mirrored
  <2> QED
    BY <2>1 DEF MirrorFollows, Agree
<1> QED
  BY <1>1, MilestonesHold, PTL

-----------------------------------------------------------------------------
(* What is true of boards *)

EditFits(e) ==
    /\ edit[e].at \in {"idle", "linking", "unlinking", "dated", "saved", "done"}
    /\ edit[e].at = "linking" => edit[e].row \in LinkRows
    /\ edit[e].at \in {"dated", "saved"} => edit[e].issue \in Locals
    /\ edit[e].at = "saved" =>
         /\ {"at", "issue", "todo", "looked"} \subseteq DOMAIN edit[e]
         /\ ~edit[e].looked => DOMAIN edit[e].todo = {}
         /\ \A l \in DOMAIN edit[e].todo :
               /\ l \in Links /\ edit[e].todo[l] \in LinkRows
               /\ l \in DOMAIN boardLink => boardLink[l] = edit[e].todo[l]

TaskFits(e, l) ==
    <<e, l>> \in DOMAIN task =>
       /\ task[<<e, l>>] \in TaskRows /\ edit[e].at \in {"saved", "done"}
       /\ edit[e].at = "saved" =>
            /\ edit[e].looked /\ edit[e].issue = task[<<e, l>>].issue
            /\ l \notin DOMAIN edit[e].todo
       /\ l \in DOMAIN boardLink => boardLink[l].board = task[<<e, l>>].board
       /\ task[<<e, l>>].id = "card" => CardOf(task[<<e, l>>]) \in DOMAIN card

\* The unique index on the project and the board.
BoardsDiffer ==
    \A l, k \in DOMAIN boardLink : l # k /\ boardLink[l].project = boardLink[k].project =>
                                      boardLink[l].board # boardLink[k].board

CardsThere == \A l \in DOMAIN boardLink, i \in Locals :
    <<l, i>> \in DOMAIN item /\ item[<<l, i>>].id = "card" =>
       <<boardLink[l].board, i>> \in DOMAIN card

\* What is left to do for issue i on board b by way of link l.
ToDo(e, l, i, b) == /\ edit[e].at = "saved" /\ edit[e].issue = i
                    /\ l \in DOMAIN edit[e].todo /\ edit[e].todo[l].board = b
Doing(e, l, i, b) == /\ <<e, l>> \in DOMAIN task
                     /\ task[<<e, l>>].issue = i /\ task[<<e, l>>].board = b
Work(e, l, i, b) == ToDo(e, l, i, b) \/ Doing(e, l, i, b)

\* A request saves one at a time, unless there is doubt.
OneEdits(i) == \A e, f \in Editing(i) : e = f
LastSaved(i) == \A e \in Editing(i) : i \in DOMAIN dates /\ dates[i] = e

\* Other links take the issue to other boards.
OwnCard(l, i) == \A e \in Edits, k \in Links \ {l}, b \in Boards :
    Work(e, k, i, b) =>
       /\ \A f \in Edits : ~Work(f, l, i, b)
       /\ <<l, i>> \in DOMAIN item => boardLink[l].board # b

\* The lanes a mirror is through with show the dates.
Shows(l, i) == \A e \in Edits :
    LET t == task[<<e, l>>] IN
    <<e, l>> \in DOMAIN task /\ t.issue = i /\ t.at = "mirror" /\ l \in DOMAIN boardLink =>
       \A lane \in boardLink[l].lanes \ t.lanes :
          CardOf(t) \in DOMAIN card /\ card[CardOf(t)][lane] = e

Pending(e, l, i) ==
    \/ edit[e].at = "saved" /\ edit[e].issue = i /\ (~edit[e].looked \/ l \in DOMAIN edit[e].todo)
    \/ <<e, l>> \in DOMAIN task /\ task[<<e, l>>].issue = i

Settled(l, i) ==
    (\A e \in Edits : ~Pending(e, l, i)) =>
       (<<l, i>> \in DOMAIN item /\ item[<<l, i>>].synced /\ ~item[<<l, i>>].failed =>
          \A lane \in boardLink[l].lanes :
             /\ <<boardLink[l].board, i>> \in DOMAIN card
             /\ card[<<boardLink[l].board, i>>][lane] = ShownDates(i))

Mirrors(l, i) == /\ OneEdits(i) /\ LastSaved(i) /\ OwnCard(l, i)
                 /\ Shows(l, i) /\ Settled(l, i)

LinksInv == /\ MilestonesInv /\ BoardsTypeOK
            /\ DOMAIN edit = Edits /\ DOMAIN task \subseteq Edits \X Links
            /\ \A e \in Edits : EditFits(e)
            /\ \A e \in Edits, l \in Links : TaskFits(e, l)
            /\ BoardsDiffer /\ CardsThere

DatesInv == /\ LinksInv
            /\ \A l \in Links, i \in Issues : <<l, i>> \notin doubtful => Mirrors(l, i)

\* Steps that leave alone what link l and issue i are about.
WorkStays(l, i) ==
    /\ \A f \in Edits, k \in Links, b \in Boards : Work(f, k, i, b)' => Work(f, k, i, b)
    /\ \A f \in Edits : Pending(f, l, i) => Pending(f, l, i)'
    /\ \A f \in Edits : f \in Editing(i)' => f \in Editing(i)
DateStays(i) ==
    /\ i \in DOMAIN dates' <=> i \in DOMAIN dates
    /\ i \in DOMAIN dates => dates'[i] = dates[i]
ItemStays(l, i) ==
    <<l, i>> \in DOMAIN item' => /\ <<l, i>> \in DOMAIN item
                                 /\ item'[<<l, i>>] = item[<<l, i>>]
                                 /\ boardLink'[l] = boardLink[l]
\* A mirror is as it was, or has all its lanes before it.
TaskStays(f, l, i) ==
    /\ <<f, l>> \in DOMAIN task' /\ task'[<<f, l>>].issue = i
    /\ task'[<<f, l>>].at = "mirror" /\ l \in DOMAIN boardLink'
    => \/ boardLink'[l].lanes \subseteq task'[<<f, l>>].lanes
       \/ /\ <<f, l>> \in DOMAIN task /\ task[<<f, l>>].issue = i
          /\ task[<<f, l>>].at = "mirror"
          /\ task'[<<f, l>>].board = task[<<f, l>>].board
          /\ task'[<<f, l>>].lanes = task[<<f, l>>].lanes
          /\ l \in DOMAIN boardLink /\ boardLink'[l] = boardLink[l]
CardStays(l, i) ==
    \A b \in Boards :
       /\ <<b, i>> \in DOMAIN card
       /\ \/ <<l, i>> \in DOMAIN item /\ boardLink[l].board = b
          \/ \E f \in Edits : Doing(f, l, i, b)
       => <<b, i>> \in DOMAIN card' /\ card'[<<b, i>>] = card[<<b, i>>]

-----------------------------------------------------------------------------
(* Boards and their types *)

LEMMA MilestonesKeepIssues ==
    ASSUME MilestonesNext
    PROVE  UNCHANGED issue /\ DOMAIN project' = DOMAIN project
BY DEF MilestonesNext, LinkRepo, UnlinkRepo, AskAdopt, CheckLink, AdoptMilestone,
   AskNewMilestone, AskEditMilestone, AskDropMilestone, ResolveMilestone, GitHubCreates,
   GitHubEdits, GitHubDeletes, GitHubWrites, GitHubRefuses, StoreMilestone,
   DeleteMilestone, StoreFails, rows

LEMMA NextKeepsLinks ==
    ASSUME LinksInv, Next, UNCHANGED boardVars
    PROVE  LinksInv'
<1> USE DEF boardVars
<1>1. MilestonesInv'
  BY NextKeepsMilestones DEF LinksInv
<1>2. Locals \subseteq Locals'
  <2>1. CASE MilestonesNext
    BY <2>1, MilestonesKeepIssues DEF Locals
  <2>2. CASE ProjectsStep
    BY <2>2, RowsGrow DEF ProjectsStep, LinksInv, MilestonesInv
  <2> QED
    BY <2>1, <2>2 DEF Next
<1>3. TaskRows \subseteq TaskRows'
  BY <1>2 DEF TaskRows
<1>4. BoardsTypeOK'
  BY <1>1, <1>2, <1>3 DEF LinksInv, BoardsTypeOK, MilestonesInv, LinkRows, Lanes, ItemRows, Dates
<1>5. ASSUME NEW e \in Edits PROVE EditFits(e)'
  BY <1>2 DEF LinksInv, EditFits, LinkRows, Lanes
<1>6. ASSUME NEW e \in Edits, NEW l \in Links PROVE TaskFits(e, l)'
  BY <1>3 DEF LinksInv, TaskFits, CardOf
<1>7. BoardsDiffer' /\ CardsThere'
  BY DEF LinksInv, BoardsDiffer, CardsThere, BoardsTypeOK
<1> QED
  BY <1>1, <1>4, <1>5, <1>6, <1>7 DEF LinksInv

LEMMA RowsStand ==
    ASSUME LinksInv, UNCHANGED allVars
    PROVE  /\ MilestonesInv' /\ MilestonesTypeOK' /\ Locals' = Locals
           /\ TaskRows' = TaskRows /\ project' = project /\ issue' = issue
<1>1. MilestonesInv'
  BY StutterKeepsMilestones DEF LinksInv
<1>2. Locals' = Locals
  BY DEF Locals, allVars, vars, rows
<1>3. TaskRows' = TaskRows
  BY <1>2 DEF TaskRows
<1> QED
  BY <1>1, <1>2, <1>3 DEF MilestonesInv, allVars, vars, rows

LEMMA NoTasks ==
    ASSUME LinksInv, NEW e \in Edits, NEW l \in Links,
           \/ edit[e].at \notin {"saved", "done"}
           \/ edit[e].at = "saved" /\ ~edit[e].looked
    PROVE  <<e, l>> \notin DOMAIN task
BY DEF LinksInv, TaskFits

\* What a request is about, and nothing else.
LEMMA EditStep ==
    ASSUME LinksInv, UNCHANGED <<allVars, boardLink, nodeId, item, card, task>>,
           NEW e \in Edits, NEW r, edit' = [edit EXCEPT ![e] = r],
           field' \in [Boards -> SUBSET Lanes],
           DOMAIN dates' \subseteq Locals, \A i \in DOMAIN dates' : dates'[i] \in Dates,
           EditFits(e)', \A l \in Links : TaskFits(e, l)'
    PROVE  LinksInv'
<1>1. /\ MilestonesInv' /\ MilestonesTypeOK' /\ Locals' = Locals
      /\ TaskRows' = TaskRows
  BY RowsStand
<1>2. DOMAIN edit' = Edits /\ \A o \in Edits \ {e} : edit'[o] = edit[o]
  BY DEF LinksInv
<1>3. BoardsTypeOK'
  BY <1>1 DEF LinksInv, BoardsTypeOK, LinkRows, Lanes, ItemRows, Dates
<1>4. ASSUME NEW o \in Edits PROVE EditFits(o)'
  <2>1. CASE o = e
    BY <2>1 DEF EditFits
  <2>2. CASE o # e
    BY <1>1, <1>2, <2>2 DEF LinksInv, EditFits, LinkRows, Lanes
  <2> QED
    BY <2>1, <2>2
<1>5. ASSUME NEW o \in Edits, NEW l \in Links PROVE TaskFits(o, l)'
  <2>1. CASE o = e
    BY <2>1 DEF TaskFits
  <2>2. CASE o # e
    BY <1>1, <1>2, <2>2 DEF LinksInv, TaskFits, CardOf
  <2> QED
    BY <2>1, <2>2
<1>6. BoardsDiffer' /\ CardsThere'
  BY <1>1 DEF LinksInv, BoardsDiffer, CardsThere
<1> QED
  BY <1>1, <1>2, <1>3, <1>4, <1>5, <1>6 DEF LinksInv

LEMMA EndEditFits ==
    ASSUME LinksInv, UNCHANGED <<allVars, boardLink, card, task>>, NEW e \in Edits, EndEdit(e)
    PROVE  EditFits(e)' /\ \A l \in Links : TaskFits(e, l)'
<1>1. edit'[e] = [at |-> "done", todo |-> <<>>]
  BY DEF LinksInv, EndEdit
<1>2. edit'[e].at = "done"
  BY <1>1
<1>3. TaskRows' = TaskRows
  BY RowsStand
<1> QED
  BY <1>2, <1>3 DEF EditFits, TaskFits, LinksInv, CardOf

LEMMA BoardsHaveLanes ==
    ASSUME LinksInv, NEW o \in OrgProjects
    PROVE  o.board \in Boards /\ o.lanes \subseteq Lanes
<1>1. PICK b \in {r \in GitHubBoards : ~r.closed} :
         o = [board |-> b.id, lanes |-> {f.id : f \in {g \in b.fields : g.type = "DATE"}}]
  BY DEF OrgProjects, Normalized
<1>2. PICK k \in Boards :
         b = [id |-> k, closed |-> k \in ClosedBoards,
              fields |-> {[id |-> lane, type |-> "DATE"] : lane \in field[k]} \cup
                         {[id |-> "status", type |-> "SINGLE_SELECT"]}]
  BY <1>1 DEF GitHubBoards
<1>3. o.board = k /\ o.lanes = {f.id : f \in {g \in b.fields : g.type = "DATE"}}
  BY <1>1, <1>2
<1>4. ASSUME NEW x \in o.lanes PROVE x \in Lanes
  <2>1. PICK f \in b.fields : f.type = "DATE" /\ x = f.id
    BY <1>3, <1>4
  <2>2. b.fields = {[id |-> lane, type |-> "DATE"] : lane \in field[k]} \cup
                   {[id |-> "status", type |-> "SINGLE_SELECT"]}
    BY <1>2
  <2>3. [id |-> "status", type |-> "SINGLE_SELECT"].type # "DATE"
    OBVIOUS
  <2>4. PICK lane \in field[k] : f = [id |-> lane, type |-> "DATE"]
    BY <2>1, <2>2, <2>3
  <2>5. x = lane
    BY <2>1, <2>4
  <2>6. field[k] \subseteq Lanes
    BY DEF LinksInv, BoardsTypeOK
  <2> QED
    BY <2>5, <2>6
<1> QED
  BY <1>3, <1>4

LEMMA DateFieldKeepsLinks ==
    ASSUME LinksInv, UNCHANGED allVars, NEW e \in Edits, CreateDateField(e)
    PROVE  LinksInv'
<1>1. /\ EndEdit(e) /\ edit[e].at = "idle"
      /\ UNCHANGED <<boardLink, dates, nodeId, item, card, task>>
  BY DEF CreateDateField, PickerFails
<1>2. field' \in [Boards -> SUBSET Lanes]
  <2>1. CASE UNCHANGED field
    BY <2>1 DEF LinksInv, BoardsTypeOK
  <2>2. CASE \E o \in OrgProjects, lane \in Lanes : AddField(o.board, lane)
    <3> PICK o \in OrgProjects, lane \in Lanes : AddField(o.board, lane)
      BY <2>2
    <3> PICK b : b = o.board
      OBVIOUS
    <3> field' = [field EXCEPT ![b] = @ \cup {lane}]
      BY DEF AddField
    <3> QED
      BY DEF LinksInv, BoardsTypeOK
  <2> QED
    BY <2>1, <2>2 DEF CreateDateField, PickerFails
<1>3. EditFits(e)' /\ \A l \in Links : TaskFits(e, l)'
  BY <1>1, EndEditFits
<1> QED
  BY <1>1, <1>2, <1>3, EditStep DEF EndEdit, LinksInv, BoardsTypeOK

LEMMA CreateLinkKeepsLinks ==
    ASSUME LinksInv, UNCHANGED allVars, NEW e \in Edits, CreateLink(e)
    PROVE  LinksInv'
<1> PICK p \in DOMAIN project, f \in LinkBodies :
          edit' = [edit EXCEPT ![e] = [at |-> "linking", todo |-> <<>>,
                                       row |-> [project |-> p, board |-> f.board,
                                               lanes |-> f.lanes]]]
  BY DEF CreateLink
<1>1. edit[e].at = "idle" /\ UNCHANGED <<boardLink, field, dates, nodeId, item, card, task>>
  BY DEF CreateLink
<1> PICK row : row = [project |-> p, board |-> f.board, lanes |-> f.lanes]
  OBVIOUS
<1> PICK r : r = [at |-> "linking", todo |-> <<>>, row |-> row]
  OBVIOUS
<1>2. PICK o \in OrgProjects : f \in [board : {o.board}, lanes : SUBSET o.lanes]
  BY DEF LinkBodies
<1>3. f.board \in Boards /\ f.lanes \subseteq Lanes
  BY <1>2, BoardsHaveLanes
<1>4. p \in Ids
  BY DEF LinksInv, MilestonesInv, RowsInv, TypeOK
<1>5. row \in LinkRows
  BY <1>3, <1>4 DEF LinkRows
<1>6. edit'[e] = r /\ edit' = [edit EXCEPT ![e] = r]
  BY DEF LinksInv
<1>7. r.at = "linking" /\ r.row = row
  OBVIOUS
<1>8. EditFits(e)'
  BY <1>5, <1>6, <1>7 DEF EditFits, LinkRows, Lanes
<1>9. \A l \in Links : TaskFits(e, l)'
  BY <1>1, NoTasks DEF TaskFits
<1> QED
  BY <1>1, <1>6, <1>8, <1>9, EditStep DEF LinksInv, BoardsTypeOK

LEMMA CheckUnlinkKeepsLinks ==
    ASSUME LinksInv, UNCHANGED allVars, NEW e \in Edits, NEW l \in Links, CheckUnlink(e, l)
    PROVE  LinksInv'
<1>1. edit[e].at = "idle" /\ UNCHANGED <<boardLink, field, dates, nodeId, item, card, task>>
  BY DEF CheckUnlink
<1>2. CASE EndEdit(e)
  BY <1>1, <1>2, EndEditFits, EditStep DEF EndEdit, LinksInv, BoardsTypeOK
<1>3. CASE edit' = [edit EXCEPT ![e] = [at |-> "unlinking", todo |-> <<>>, link |-> l]]
  <2>1. edit'[e].at = "unlinking"
    BY <1>3 DEF LinksInv
  <2>2. EditFits(e)'
    BY <2>1 DEF EditFits
  <2>3. \A k \in Links : TaskFits(e, k)'
    BY <1>1, NoTasks DEF TaskFits
  <2> QED
    BY <1>1, <1>3, <2>2, <2>3, EditStep DEF LinksInv, BoardsTypeOK
<1> QED
  BY <1>2, <1>3 DEF CheckUnlink

LEMMA PatchDatesKeepsLinks ==
    ASSUME LinksInv, UNCHANGED allVars, NEW e \in Edits, NEW i \in Issues, PatchDates(e, i)
    PROVE  LinksInv'
<1>1. /\ edit[e].at = "idle" /\ i \in Locals
      /\ UNCHANGED <<boardLink, field, dates, nodeId, item, card, task>>
  BY DEF PatchDates
<1>2. CASE EndEdit(e)
  BY <1>1, <1>2, EndEditFits, EditStep DEF EndEdit, LinksInv, BoardsTypeOK
<1>3. CASE edit' = [edit EXCEPT ![e] = [at |-> "dated", issue |-> i, todo |-> <<>>]]
  <2>1. edit'[e].at = "dated" /\ edit'[e].issue = i
    BY <1>3 DEF LinksInv
  <2>2. EditFits(e)'
    BY <1>1, <2>1, RowsStand DEF EditFits
  <2>3. \A k \in Links : TaskFits(e, k)'
    BY <1>1, NoTasks DEF TaskFits
  <2> QED
    BY <1>1, <1>3, <2>2, <2>3, EditStep DEF LinksInv, BoardsTypeOK
<1> QED
  BY <1>2, <1>3 DEF PatchDates

LEMMA SaveDatesKeepsLinks ==
    ASSUME LinksInv, UNCHANGED allVars, NEW e \in Edits, SaveDates(e)
    PROVE  LinksInv'
<1> PICK i : i = edit[e].issue
  OBVIOUS
<1> PICK r : r = [at |-> "saved", issue |-> i, todo |-> <<>>, looked |-> FALSE]
  OBVIOUS
<1>1. /\ edit[e].at = "dated" /\ dates' = Put(dates, i, e)
      /\ edit' = [edit EXCEPT ![e] = r]
      /\ UNCHANGED <<boardLink, field, nodeId, item, card, task>>
  BY DEF SaveDates
<1>2. i \in Locals
  BY <1>1 DEF LinksInv, EditFits
<1>3. DOMAIN dates' \subseteq Locals /\ \A j \in DOMAIN dates' : dates'[j] \in Dates
  BY <1>1, <1>2 DEF Put, LinksInv, BoardsTypeOK, Dates
<1>4. edit'[e] = r
  BY <1>1 DEF LinksInv
<1>5. /\ r.at = "saved" /\ r.issue = i /\ r.todo = <<>> /\ r.looked = FALSE
      /\ {"at", "issue", "todo", "looked"} \subseteq DOMAIN r /\ DOMAIN r.todo = {}
  OBVIOUS
<1>6. EditFits(e)'
  BY <1>2, <1>4, <1>5, RowsStand DEF EditFits
<1>7. \A k \in Links : TaskFits(e, k)'
  BY <1>1, NoTasks DEF TaskFits
<1> QED
  BY <1>1, <1>3, <1>6, <1>7, EditStep DEF LinksInv, BoardsTypeOK

LEMMA FindLinksKeepsLinks ==
    ASSUME LinksInv, UNCHANGED allVars, NEW e \in Edits, FindLinks(e)
    PROVE  LinksInv'
<1>1. PICK S \in SUBSET DOMAIN boardLink :
         edit' = [edit EXCEPT ![e].todo = [l \in S |-> boardLink[l]], ![e].looked = TRUE]
  BY DEF FindLinks, ListBoardLinks
<1>2. /\ edit[e].at = "saved" /\ ~edit[e].looked
      /\ UNCHANGED <<boardLink, field, dates, nodeId, item, card, task>>
  BY DEF FindLinks
<1> PICK t : t = [l \in S |-> boardLink[l]]
  OBVIOUS
<1> PICK r : r = [edit[e] EXCEPT !.todo = t, !.looked = TRUE]
  OBVIOUS
<1>3. /\ {"at", "issue", "todo", "looked"} \subseteq DOMAIN edit[e] /\ edit[e].issue \in Locals
  BY <1>2 DEF LinksInv, EditFits
<1>4. /\ r.at = "saved" /\ r.issue = edit[e].issue /\ r.todo = t /\ r.looked = TRUE
      /\ {"at", "issue", "todo", "looked"} \subseteq DOMAIN r
  BY <1>2, <1>3
<1>5. edit' = [edit EXCEPT ![e] = r]
  BY <1>1
<1>6. edit'[e] = r
  BY <1>5 DEF LinksInv
<1>7. \A l \in DOMAIN t : l \in Links /\ t[l] \in LinkRows /\ t[l] = boardLink[l]
  BY DEF LinksInv, BoardsTypeOK
<1>8. EditFits(e)'
  BY <1>2, <1>3, <1>4, <1>6, <1>7, RowsStand DEF EditFits, LinkRows, Lanes
<1>9. \A k \in Links : TaskFits(e, k)'
  BY <1>2, NoTasks DEF TaskFits
<1> QED
  BY <1>2, <1>5, <1>8, <1>9, EditStep DEF LinksInv, BoardsTypeOK

LEMMA AnswerKeepsLinks ==
    ASSUME LinksInv, UNCHANGED allVars, NEW e \in Edits, Answer(e)
    PROVE  LinksInv'
<1>1. /\ edit[e].at = "saved" /\ DOMAIN edit[e].todo = {} /\ EndEdit(e)
      /\ UNCHANGED <<boardLink, field, dates, nodeId, item, card, task>>
  BY DEF Answer
<1> QED
  BY <1>1, EndEditFits, EditStep DEF EndEdit, LinksInv, BoardsTypeOK

LEMMA InsertLinkKeepsLinks ==
    ASSUME LinksInv, UNCHANGED allVars, NEW e \in Edits, NEW l \in Links, InsertLink(e, l)
    PROVE  LinksInv'
<1> PICK new : new = edit[e].row
  OBVIOUS
<1>1. /\ edit[e].at = "linking" /\ l \notin DOMAIN boardLink /\ KnowLink(l) = {}
      /\ boardLink' = IF \E o \in ListBoardLinks(new.project) : boardLink[o].board = new.board
                      THEN boardLink ELSE Put(boardLink, l, new)
      /\ EndEdit(e) /\ UNCHANGED <<field, dates, nodeId, item, card, task>>
  BY DEF InsertLink
<1>2. CASE boardLink' = boardLink
  BY <1>1, <1>2, EndEditFits, EditStep DEF EndEdit, LinksInv, BoardsTypeOK
<1>3. CASE /\ boardLink' = Put(boardLink, l, new)
           /\ \A o \in ListBoardLinks(new.project) : boardLink[o].board # new.board
  <2>1. new \in LinkRows
    BY <1>1 DEF LinksInv, EditFits
  <2>2. /\ DOMAIN boardLink' = DOMAIN boardLink \cup {l} /\ boardLink'[l] = new
        /\ \A k \in DOMAIN boardLink : boardLink'[k] = boardLink[k]
    BY <1>1, <1>3 DEF Put
  <2>3. \A o \in Edits : l \notin DOMAIN edit[o].todo /\ <<o, l>> \notin DOMAIN task
    BY <1>1 DEF KnowLink
  <2>4. /\ MilestonesInv' /\ MilestonesTypeOK' /\ Locals' = Locals
        /\ TaskRows' = TaskRows
    BY RowsStand
  <2>5. /\ DOMAIN edit' = Edits /\ \A o \in Edits \ {e} : edit'[o] = edit[o]
        /\ edit'[e] = [at |-> "done", todo |-> <<>>]
    BY <1>1 DEF LinksInv, EndEdit
  <2>6. edit'[e].at = "done"
    BY <2>5
  <2>7. BoardsTypeOK'
    BY <1>1, <2>1, <2>2, <2>4 DEF LinksInv, BoardsTypeOK, LinkRows, Lanes, ItemRows, Dates
  <2>8. ASSUME NEW o \in Edits PROVE EditFits(o)'
    <3>1. CASE o = e
      BY <2>6, <3>1 DEF EditFits
    <3>2. CASE o # e
      <4>1. EditFits(o) /\ edit'[o] = edit[o] /\ l \notin DOMAIN edit[o].todo
        BY <2>3, <2>5, <3>2 DEF LinksInv
      <4>2. ASSUME edit[o].at = "saved", NEW k \in DOMAIN edit[o].todo
            PROVE  /\ k \in Links /\ edit[o].todo[k] \in LinkRows
                   /\ k \in DOMAIN boardLink' => boardLink'[k] = edit[o].todo[k]
        <5>1. k # l
          BY <4>1
        <5> QED
          BY <2>2, <4>1, <4>2, <5>1 DEF EditFits
      <4> QED
        BY <2>4, <4>1, <4>2 DEF EditFits, LinkRows, Lanes
    <3> QED
      BY <3>1, <3>2
  <2>9. ASSUME NEW o \in Edits, NEW k \in Links PROVE TaskFits(o, k)'
    <3>1. CASE o = e
      BY <1>1, <2>2, <2>3, <2>4, <2>6, <3>1 DEF LinksInv, TaskFits, CardOf
    <3>2. CASE o # e
      BY <1>1, <2>2, <2>3, <2>4, <2>5, <3>2 DEF LinksInv, TaskFits, CardOf
    <3> QED
      BY <3>1, <3>2
  <2>10. BoardsDiffer'
    BY <1>3, <2>2 DEF LinksInv, BoardsDiffer, ListBoardLinks
  <2>11. CardsThere'
    <3>1. \A i : <<l, i>> \notin DOMAIN item
      BY <1>1 DEF LinksInv, BoardsTypeOK
    <3> QED
      BY <1>1, <2>2, <2>4, <3>1 DEF LinksInv, CardsThere
  <2> QED
    BY <1>1, <2>4, <2>5, <2>7, <2>8, <2>9, <2>10, <2>11 DEF LinksInv
<1> QED
  BY <1>1, <1>2, <1>3

LEMMA DeleteLinkKeepsLinks ==
    ASSUME LinksInv, UNCHANGED allVars, NEW e \in Edits, DeleteLink(e)
    PROVE  LinksInv'
<1> PICK l : l = edit[e].link
  OBVIOUS
<1>1. /\ edit[e].at = "unlinking" /\ EndEdit(e)
      /\ boardLink' = [o \in DOMAIN boardLink \ {l} |-> boardLink[o]]
      /\ item' = [x \in {y \in DOMAIN item : y[1] # l} |-> item[x]]
      /\ UNCHANGED <<field, dates, nodeId, card, task>>
  BY DEF DeleteLink
<1>2. /\ MilestonesInv' /\ MilestonesTypeOK' /\ Locals' = Locals
      /\ TaskRows' = TaskRows
  BY RowsStand
<1>3. /\ DOMAIN edit' = Edits /\ \A o \in Edits \ {e} : edit'[o] = edit[o]
      /\ edit'[e] = [at |-> "done", todo |-> <<>>]
  BY <1>1 DEF LinksInv, EndEdit
<1>4. edit'[e].at = "done"
  BY <1>3
<1>5. DOMAIN item' \subseteq (DOMAIN boardLink') \X Locals
  BY <1>1 DEF LinksInv, BoardsTypeOK
<1>6. BoardsTypeOK'
  BY <1>1, <1>2, <1>5 DEF LinksInv, BoardsTypeOK, LinkRows, Lanes, ItemRows, Dates
<1>7. ASSUME NEW o \in Edits PROVE EditFits(o)'
  <2>1. CASE o = e
    BY <1>4, <2>1 DEF EditFits
  <2>2. CASE o # e
    BY <1>1, <1>2, <1>3, <2>2 DEF LinksInv, EditFits, LinkRows, Lanes
  <2> QED
    BY <2>1, <2>2
<1>8. ASSUME NEW o \in Edits, NEW k \in Links PROVE TaskFits(o, k)'
  <2>1. CASE o = e
    BY <1>1, <1>2, <1>4, <2>1 DEF LinksInv, TaskFits, CardOf
  <2>2. CASE o # e
    BY <1>1, <1>2, <1>3, <2>2 DEF LinksInv, TaskFits, CardOf
  <2> QED
    BY <2>1, <2>2
<1>9. BoardsDiffer'
  BY <1>1 DEF LinksInv, BoardsDiffer
<1>10. CardsThere'
  BY <1>1, <1>2 DEF LinksInv, CardsThere
<1> QED
  BY <1>1, <1>2, <1>3, <1>6, <1>7, <1>8, <1>9, <1>10 DEF LinksInv

\* A task that is new or goes on.
LEMMA TaskStep ==
    ASSUME LinksInv, UNCHANGED <<allVars, boardLink, field, dates, item>>,
           NEW e \in Edits, NEW l \in Links, NEW t \in TaskRows,
           task' = Put(task, <<e, l>>, t),
           nodeId' \subseteq Locals,
           DOMAIN edit' = Edits, \A o \in Edits \ {e} : edit'[o] = edit[o], EditFits(e)',
           \A k \in Links \ {l} : TaskFits(e, k) => TaskFits(e, k)', TaskFits(e, l)',
           DOMAIN card \subseteq DOMAIN card', DOMAIN card' \subseteq Boards \X Locals,
           \A x \in DOMAIN card' : card'[x] \in [Lanes -> Dates]
    PROVE  LinksInv'
<1>1. /\ MilestonesInv' /\ MilestonesTypeOK' /\ Locals' = Locals
      /\ TaskRows' = TaskRows
  BY RowsStand
<1>2. DOMAIN task' = DOMAIN task \cup {<<e, l>>} /\ task'[<<e, l>>] = t
  BY DEF Put
<1>3. \A x \in DOMAIN task : x # <<e, l>> => task'[x] = task[x]
  BY DEF Put
<1>4. BoardsTypeOK'
  BY <1>1, <1>2, <1>3 DEF LinksInv, BoardsTypeOK, LinkRows, Lanes, ItemRows, Dates
<1>5. ASSUME NEW o \in Edits PROVE EditFits(o)'
  <2>1. CASE o = e
    BY <2>1 DEF EditFits
  <2>2. CASE o # e
    BY <1>1, <2>2 DEF LinksInv, EditFits, LinkRows, Lanes
  <2> QED
    BY <2>1, <2>2
<1>6. ASSUME NEW o \in Edits, NEW k \in Links PROVE TaskFits(o, k)'
  <2>1. CASE o = e /\ k = l
    BY <2>1 DEF TaskFits
  <2>2. CASE o = e /\ k # l
    <3>1. TaskFits(e, k)'
      BY <2>2 DEF LinksInv
    <3> QED
      BY <2>2, <3>1 DEF TaskFits
  <2>3. CASE o # e
    <3>1. <<o, k>> # <<e, l>> /\ edit'[o] = edit[o]
      BY <2>3
    <3>2. TaskFits(o, k)
      BY DEF LinksInv
    <3>3. <<o, k>> \in DOMAIN task' => <<o, k>> \in DOMAIN task /\ task'[<<o, k>>] = task[<<o, k>>]
      BY <1>2, <1>3, <3>1
    <3> QED
      BY <1>1, <3>1, <3>2, <3>3 DEF TaskFits, CardOf
  <2> QED
    BY <2>1, <2>2, <2>3
<1>7. BoardsDiffer' /\ CardsThere'
  BY <1>1 DEF LinksInv, BoardsDiffer, CardsThere
<1> QED
  BY <1>1, <1>2, <1>4, <1>5, <1>6, <1>7 DEF LinksInv

LEMMA SpawnKeepsLinks ==
    ASSUME LinksInv, UNCHANGED allVars, NEW e \in Edits, NEW l \in Links, SpawnMirror(e, l)
    PROVE  LinksInv'
<1> PICK i : i = edit[e].issue
  OBVIOUS
<1> PICK row : row = edit[e].todo[l]
  OBVIOUS
<1> PICK td : td = [o \in DOMAIN edit[e].todo \ {l} |-> edit[e].todo[o]]
  OBVIOUS
<1> PICK r : r = [edit[e] EXCEPT !.todo = td]
  OBVIOUS
<1>1. /\ edit[e].at = "saved" /\ l \in DOMAIN edit[e].todo
      /\ edit' = [edit EXCEPT ![e] = r]
      /\ UNCHANGED <<boardLink, field, dates, nodeId, item, card, doubtful>>
  BY DEF SpawnMirror
<1>2. PICK id \in CardIds(l, i) :
         task' = Put(task, <<e, l>>, [at |-> "mirror", issue |-> i, node |-> HasNode(i),
                                      id |-> id, board |-> row.board, lanes |-> row.lanes])
  BY DEF SpawnMirror
<1> PICK t : t = [at |-> "mirror", issue |-> i, node |-> HasNode(i), id |-> id,
                  board |-> row.board, lanes |-> row.lanes]
  OBVIOUS
<1>3. EditFits(e) /\ \A k \in Links : TaskFits(e, k)
  BY DEF LinksInv
<1>4. /\ i \in Locals /\ row \in LinkRows /\ edit[e].looked
      /\ {"at", "issue", "todo", "looked"} \subseteq DOMAIN edit[e]
      /\ l \in DOMAIN boardLink => boardLink[l] = row
  BY <1>1, <1>3 DEF EditFits
<1>5. /\ id \in {None, "", "card"}
      /\ id = "card" => <<l, i>> \in DOMAIN item /\ item[<<l, i>>].id = "card"
  <2>1. CASE id = None
    BY <2>1, BoardsAssumption
  <2>2. CASE <<l, i>> \in DOMAIN item /\ id = item[<<l, i>>].id
    BY <2>2 DEF LinksInv, BoardsTypeOK, ItemRows
  <2> QED
    BY <1>2, <2>1, <2>2 DEF CardIds
<1>6. row.board \in Boards /\ row.lanes \in SUBSET Lanes /\ HasNode(i) \in BOOLEAN
  BY <1>4 DEF LinkRows, HasNode
<1>7. t \in TaskRows
  BY <1>4, <1>5, <1>6 DEF TaskRows
<1>8. /\ r.at = "saved" /\ r.issue = i /\ r.todo = td /\ r.looked = edit[e].looked
      /\ {"at", "issue", "todo", "looked"} \subseteq DOMAIN r
  BY <1>1, <1>4
<1>9. edit'[e] = r /\ DOMAIN edit' = Edits /\ \A o \in Edits \ {e} : edit'[o] = edit[o]
  BY <1>1 DEF LinksInv
<1>10. /\ MilestonesInv' /\ MilestonesTypeOK' /\ Locals' = Locals
       /\ TaskRows' = TaskRows
  BY RowsStand
<1>11. /\ DOMAIN td = DOMAIN edit[e].todo \ {l}
       /\ \A k \in DOMAIN td : td[k] = edit[e].todo[k]
  OBVIOUS
<1>12. EditFits(e)'
  BY <1>1, <1>3, <1>4, <1>8, <1>9, <1>10, <1>11 DEF EditFits, LinkRows, Lanes
<1>13. DOMAIN task' = DOMAIN task \cup {<<e, l>>} /\ task'[<<e, l>>] = t
  BY <1>2 DEF Put
<1>14. \A x \in DOMAIN task : x # <<e, l>> => task'[x] = task[x]
  BY <1>2 DEF Put
<1>15. ASSUME NEW k \in Links \ {l}, TaskFits(e, k) PROVE TaskFits(e, k)'
  <2>1. <<e, k>> # <<e, l>>
    OBVIOUS
  <2> QED
    BY <1>1, <1>8, <1>9, <1>10, <1>11, <1>13, <1>14, <1>15, <2>1 DEF TaskFits, CardOf
<1>16. t.issue = i /\ t.board = row.board /\ t.id = id
  OBVIOUS
<1>17. CardOf(t) = <<row.board, i>>
  BY <1>16 DEF CardOf
<1>18. t.id = "card" => CardOf(t) \in DOMAIN card
  <2> SUFFICES ASSUME t.id = "card" PROVE CardOf(t) \in DOMAIN card
    OBVIOUS
  <2>1. <<l, i>> \in DOMAIN item /\ item[<<l, i>>].id = "card"
    BY <1>5, <1>16
  <2>2. l \in DOMAIN boardLink
    BY <2>1 DEF LinksInv, BoardsTypeOK
  <2> QED
    BY <1>4, <1>17, <2>1, <2>2 DEF LinksInv, CardsThere
<1>19. TaskFits(e, l)'
  BY <1>1, <1>4, <1>7, <1>8, <1>9, <1>10, <1>11, <1>13, <1>16, <1>18 DEF TaskFits, CardOf
<1>20. task' = Put(task, <<e, l>>, t)
  BY <1>2
<1> QED
  BY <1>1, <1>7, <1>9, <1>12, <1>15, <1>19, <1>20, TaskStep DEF LinksInv, BoardsTypeOK

\* A mirror that goes on, with what it has made of its card.
LEMMA MirrorStep ==
    ASSUME LinksInv, UNCHANGED <<allVars, boardLink, field, dates, item, edit>>,
           NEW e \in Edits, NEW l \in Links, <<e, l>> \in DOMAIN task, NEW t \in TaskRows,
           task' = [task EXCEPT ![<<e, l>>] = t],
           t.issue = task[<<e, l>>].issue, t.board = task[<<e, l>>].board,
           t.id = "card" => CardOf(t) \in DOMAIN card',
           nodeId' \subseteq Locals,
           DOMAIN card \subseteq DOMAIN card', DOMAIN card' \subseteq Boards \X Locals,
           \A x \in DOMAIN card' : card'[x] \in [Lanes -> Dates]
    PROVE  LinksInv'
<1>1. task' = Put(task, <<e, l>>, t)
  BY DEF Put
<1>2. DOMAIN task' = DOMAIN task /\ task'[<<e, l>>] = t
  OBVIOUS
<1>3. \A x \in DOMAIN task : x # <<e, l>> => task'[x] = task[x]
  OBVIOUS
<1>4. Locals' = Locals /\ TaskRows' = TaskRows
  BY RowsStand
<1>5. EditFits(e)'
  BY <1>4 DEF LinksInv, EditFits, LinkRows, Lanes
<1>6. ASSUME NEW k \in Links \ {l}, TaskFits(e, k) PROVE TaskFits(e, k)'
  <2>1. <<e, k>> # <<e, l>>
    OBVIOUS
  <2> QED
    BY <1>2, <1>3, <1>4, <1>6, <2>1 DEF TaskFits, CardOf
<1>7. TaskFits(e, l)'
  BY <1>2, <1>4 DEF LinksInv, TaskFits, CardOf
<1> QED
  BY <1>1, <1>5, <1>6, <1>7, TaskStep DEF LinksInv

LEMMA MirrorsKeepLinks ==
    ASSUME LinksInv, UNCHANGED allVars, NEW x \in DOMAIN task,
           ResolveNode(x) \/ AddCard(x) \/ PushLane(x) \/ MirrorFails(x)
    PROVE  LinksInv'
<1> PICK e \in Edits, l \in Links : x = <<e, l>>
  BY DEF LinksInv
<1> PICK t : t = task[x]
  OBVIOUS
<1>1. t \in TaskRows /\ (t.id = "card" => CardOf(t) \in DOMAIN card)
  BY DEF LinksInv, TaskFits
<1>2. /\ t.at \in {"mirror", "failed"} /\ t.issue \in Locals /\ t.node \in BOOLEAN
      /\ t.id \in {None, "", "card"} /\ t.board \in Boards /\ t.lanes \in SUBSET Lanes
  BY <1>1 DEF TaskRows
<1>3. UNCHANGED <<boardLink, field, dates, item, edit>>
  BY DEF ResolveNode, AddCard, PushLane, MirrorFails
<1>4. /\ nodeId \subseteq Locals /\ DOMAIN card \subseteq Boards \X Locals
      /\ \A y \in DOMAIN card : card[y] \in [Lanes -> Dates]
  BY DEF LinksInv, BoardsTypeOK
<1>5. ASSUME NEW u \in TaskRows, task' = [task EXCEPT ![x] = u],
             u.issue = t.issue, u.board = t.board, u.id = "card" => CardOf(u) \in DOMAIN card',
             nodeId' \subseteq Locals,
             DOMAIN card \subseteq DOMAIN card', DOMAIN card' \subseteq Boards \X Locals,
             \A y \in DOMAIN card' : card'[y] \in [Lanes -> Dates]
      PROVE  LinksInv'
  BY <1>3, <1>5, MirrorStep
<1>6. CASE ResolveNode(x)
  <2> PICK u : u = [t EXCEPT !.node = TRUE]
    OBVIOUS
  <2>1. PICK at \in {"mirror", "failed"} : task' = [task EXCEPT ![x] = [u EXCEPT !.at = at]]
    BY <1>6 DEF ResolveNode, Continue
  <2> PICK w : w = [u EXCEPT !.at = at]
    OBVIOUS
  <2>2. w \in TaskRows /\ w.issue = t.issue /\ w.board = t.board /\ w.id = t.id
    BY <1>1, <1>2 DEF TaskRows
  <2>3. nodeId' \subseteq Locals /\ card' = card
    BY <1>2, <1>4, <1>6 DEF ResolveNode, KeepNode
  <2>4. CardOf(w) = CardOf(t)
    BY <2>2 DEF CardOf
  <2> QED
    BY <1>1, <1>4, <1>5, <2>1, <2>2, <2>3, <2>4
<1>7. CASE AddCard(x)
  <2> PICK u : u = [t EXCEPT !.id = "card"]
    OBVIOUS
  <2>1. PICK at \in {"mirror", "failed"} : task' = [task EXCEPT ![x] = [u EXCEPT !.at = at]]
    BY <1>7 DEF AddCard, Continue
  <2> PICK w : w = [u EXCEPT !.at = at]
    OBVIOUS
  <2>2. w \in TaskRows /\ w.issue = t.issue /\ w.board = t.board
    BY <1>1, <1>2 DEF TaskRows
  <2> PICK c : c = CardOf(t)
    OBVIOUS
  <2>3. card' = IF c \in DOMAIN card THEN card ELSE Put(card, c, [lane \in Lanes |-> None])
    BY <1>7 DEF AddCard, AddItem
  <2>4. c \in Boards \X Locals /\ [lane \in Lanes |-> None] \in [Lanes -> Dates]
    BY <1>2 DEF CardOf, Dates
  <2>5. c \in DOMAIN card' /\ DOMAIN card \subseteq DOMAIN card'
        /\ DOMAIN card' \subseteq Boards \X Locals
    BY <1>4, <2>3, <2>4 DEF Put
  <2>6. \A y \in DOMAIN card' : card'[y] \in [Lanes -> Dates]
    BY <1>4, <2>3, <2>4 DEF Put
  <2>7. nodeId' = nodeId /\ CardOf(w) = c
    BY <1>7, <2>2 DEF AddCard, CardOf
  <2> QED
    BY <1>4, <1>5, <2>1, <2>2, <2>5, <2>6, <2>7
<1>8. CASE PushLane(x)
  <2> PICK lane : lane = IF "start" \in t.lanes THEN "start" ELSE "due"
    OBVIOUS
  <2> PICK u : u = [t EXCEPT !.lanes = @ \ {lane}]
    OBVIOUS
  <2>1. PICK at \in {"mirror", "failed"} : task' = [task EXCEPT ![x] = [u EXCEPT !.at = at]]
    BY <1>8 DEF PushLane, Continue
  <2> PICK w : w = [u EXCEPT !.at = at]
    OBVIOUS
  <2>2. w \in TaskRows /\ w.issue = t.issue /\ w.board = t.board /\ w.id = t.id
    BY <1>1, <1>2 DEF TaskRows
  <2> PICK c : c = CardOf(t)
    OBVIOUS
  <2>3. card' = [card EXCEPT ![c][lane] = e]
    BY <1>8 DEF PushLane, SetDate
  <2>4. e \in Dates
    BY DEF Dates
  <2>5. DOMAIN card' = DOMAIN card /\ \A y \in DOMAIN card' : card'[y] \in [Lanes -> Dates]
    BY <1>4, <2>3, <2>4
  <2>6. nodeId' = nodeId /\ CardOf(w) = c
    BY <1>8, <2>2 DEF PushLane, CardOf
  <2> QED
    BY <1>1, <1>4, <1>5, <2>1, <2>2, <2>5, <2>6
<1>9. CASE MirrorFails(x)
  <2> PICK w : w = [t EXCEPT !.at = "failed"]
    OBVIOUS
  <2>1. task' = [task EXCEPT ![x] = w] /\ UNCHANGED <<nodeId, card>>
    BY <1>9 DEF MirrorFails
  <2>2. w \in TaskRows /\ w.issue = t.issue /\ w.board = t.board /\ w.id = t.id
    BY <1>1, <1>2 DEF TaskRows
  <2>3. CardOf(w) = CardOf(t)
    BY <2>2 DEF CardOf
  <2> QED
    BY <1>1, <1>4, <1>5, <2>1, <2>2, <2>3
<1> QED
  BY <1>6, <1>7, <1>8, <1>9

\* A mirror that is over.
LEMMA OverStep ==
    ASSUME LinksInv, UNCHANGED <<allVars, boardLink, field, dates, nodeId, card, edit>>,
           NEW x \in DOMAIN task, EndTask(x),
           DOMAIN item' \subseteq (DOMAIN boardLink) \X Locals,
           \A y \in DOMAIN item' : item'[y] \in ItemRows, CardsThere'
    PROVE  LinksInv'
<1>1. /\ MilestonesInv' /\ MilestonesTypeOK' /\ Locals' = Locals
      /\ TaskRows' = TaskRows
  BY RowsStand
<1>2. DOMAIN task' = DOMAIN task \ {x} /\ \A y \in DOMAIN task' : task'[y] = task[y]
  BY DEF EndTask
<1>3. BoardsTypeOK'
  BY <1>1, <1>2 DEF LinksInv, BoardsTypeOK, LinkRows, Lanes, ItemRows, Dates
<1>4. ASSUME NEW o \in Edits PROVE EditFits(o)'
  BY <1>1 DEF LinksInv, EditFits, LinkRows, Lanes
<1>5. ASSUME NEW o \in Edits, NEW k \in Links PROVE TaskFits(o, k)'
  <2>1. TaskFits(o, k)
    BY DEF LinksInv
  <2> QED
    BY <1>1, <1>2, <2>1 DEF TaskFits, CardOf
<1>6. BoardsDiffer'
  BY DEF LinksInv, BoardsDiffer
<1> QED
  BY <1>1, <1>2, <1>3, <1>4, <1>5, <1>6 DEF LinksInv

\* What is written about a mirror that is over.
LEMMA RowAfterFits ==
    ASSUME LinksInv, NEW e \in Edits, NEW l \in Links, <<e, l>> \in DOMAIN task,
           NEW t, t = task[<<e, l>>],
           t.at = "failed" \/ (t.node /\ t.id # None /\ t.lanes = {})
    PROVE  /\ RowAfter(<<e, l>>, t) \in ItemRows
           /\ RowAfter(<<e, l>>, t).id = "card" =>
                \/ CardOf(t) \in DOMAIN card
                \/ <<l, t.issue>> \in DOMAIN item /\ item[<<l, t.issue>>].id = "card"
           /\ RowAfter(<<e, l>>, t).failed <=> t.at = "failed"
<1> PICK y : y = <<l, t.issue>>
  OBVIOUS
<1> PICK x : x = <<e, l>>
  OBVIOUS
<1>1. /\ t.at \in {"mirror", "failed"} /\ t.id \in {None, "", "card"}
      /\ t.id = "card" => CardOf(t) \in DOMAIN card
  BY DEF LinksInv, TaskFits, TaskRows
<1>2. CASE t.at = "mirror"
  <2> PICK row : row = [id |-> t.id, synced |-> TRUE, failed |-> FALSE]
    OBVIOUS
  <2>1. RowAfter(x, t) = row
    BY <1>2 DEF RowAfter
  <2>2. row.id = t.id /\ row.failed = FALSE /\ row \in ItemRows
    BY <1>1, <1>2 DEF ItemRows
  <2> QED
    BY <1>1, <1>2, <2>1, <2>2
<1>3. CASE t.at = "failed" /\ y \in DOMAIN item
  <2> PICK row : row = [item[y] EXCEPT !.failed = TRUE]
    OBVIOUS
  <2>1. RowAfter(x, t) = row
    BY <1>3 DEF RowAfter
  <2>2. item[y] \in ItemRows
    BY <1>3 DEF LinksInv, BoardsTypeOK
  <2>3. row.id = item[y].id /\ row.failed = TRUE /\ row \in ItemRows
    BY <2>2 DEF ItemRows
  <2> QED
    BY <1>3, <2>1, <2>3
<1>4. CASE t.at = "failed" /\ y \notin DOMAIN item
  <2> PICK row : row = [id |-> "", synced |-> FALSE, failed |-> TRUE]
    OBVIOUS
  <2>1. RowAfter(x, t) = row
    BY <1>4 DEF RowAfter
  <2>2. row.id = "" /\ row.failed = TRUE /\ row \in ItemRows
    BY DEF ItemRows
  <2> QED
    BY <1>4, <2>1, <2>2
<1> QED
  BY <1>1, <1>2, <1>3, <1>4

LEMMA RecordsKeepLinks ==
    ASSUME LinksInv, UNCHANGED allVars, NEW x \in DOMAIN task,
           RecordResult(x) \/ RecordFails(x)
    PROVE  LinksInv'
<1> PICK e \in Edits, l \in Links : x = <<e, l>>
  BY DEF LinksInv
<1> PICK t : t = task[x]
  OBVIOUS
<1> PICK row : row = RowAfter(x, t)
  OBVIOUS
<1>1. /\ t.at = "failed" \/ (t.node /\ t.id # None /\ t.lanes = {})
      /\ EndTask(x) /\ UNCHANGED <<boardLink, field, dates, nodeId, card, edit>>
  BY DEF RecordResult, RecordFails
<1>2. CASE item' = item
  <2>1. CardsThere'
    BY <1>1, <1>2, RowsStand DEF LinksInv, CardsThere
  <2> QED
    BY <1>1, <1>2, <2>1, OverStep DEF LinksInv, BoardsTypeOK
<1>3. CASE l \in DOMAIN boardLink /\ item' = Put(item, <<l, t.issue>>, row)
  <2>1. /\ row \in ItemRows
        /\ row.id = "card" =>
                \/ CardOf(t) \in DOMAIN card
                \/ <<l, t.issue>> \in DOMAIN item /\ item[<<l, t.issue>>].id = "card"
    BY <1>1, RowAfterFits
  <2>2. t.issue \in Locals /\ boardLink[l].board = t.board
    BY <1>3 DEF LinksInv, TaskFits, TaskRows
  <2>3. /\ DOMAIN item' = DOMAIN item \cup {<<l, t.issue>>} /\ item'[<<l, t.issue>>] = row
        /\ \A y \in DOMAIN item : y # <<l, t.issue>> => item'[y] = item[y]
    BY <1>3 DEF Put
  <2>4. ASSUME NEW k \in DOMAIN boardLink, NEW i \in Locals,
               <<k, i>> \in DOMAIN item', item'[<<k, i>>].id = "card"
        PROVE  <<boardLink[k].board, i>> \in DOMAIN card
    <3>1. CASE <<k, i>> = <<l, t.issue>>
      <4>1. k = l /\ i = t.issue /\ row.id = "card"
        BY <2>3, <2>4, <3>1
      <4> QED
        BY <2>1, <2>2, <4>1 DEF LinksInv, CardsThere, CardOf
    <3>2. CASE <<k, i>> # <<l, t.issue>>
      BY <2>3, <2>4, <3>2 DEF LinksInv, CardsThere
    <3> QED
      BY <3>1, <3>2
  <2>5. CardsThere'
    BY <1>1, <2>4, RowsStand DEF CardsThere
  <2>6. DOMAIN item' \subseteq (DOMAIN boardLink) \X Locals
    BY <1>3, <2>2, <2>3 DEF LinksInv, BoardsTypeOK
  <2>7. \A y \in DOMAIN item' : item'[y] \in ItemRows
    BY <2>1, <2>3 DEF LinksInv, BoardsTypeOK
  <2> QED
    BY <1>1, <2>5, <2>6, <2>7, OverStep
<1> QED
  BY <1>2, <1>3 DEF RecordResult, RecordFails

LEMMA StopKeepsLinks ==
    ASSUME LinksInv, UNCHANGED allVars, Stop
    PROVE  LinksInv'
<1>1. /\ edit' = [e \in Edits |-> IF edit[e].at \notin {"idle", "done"}
                                    THEN [at |-> "done", todo |-> <<>>] ELSE edit[e]]
      /\ task' = <<>> /\ UNCHANGED <<boardLink, field, dates, nodeId, item, card>>
  BY DEF Stop
<1>2. /\ MilestonesInv' /\ MilestonesTypeOK' /\ Locals' = Locals
      /\ TaskRows' = TaskRows
  BY RowsStand
<1>3. DOMAIN task' = {}
  BY <1>1
<1>4. BoardsTypeOK'
  BY <1>1, <1>2, <1>3 DEF LinksInv, BoardsTypeOK, LinkRows, Lanes, ItemRows, Dates
<1>5. ASSUME NEW o \in Edits PROVE EditFits(o)'
  <2>1. edit'[o].at \in {"idle", "done"}
    BY <1>1
  <2> QED
    BY <2>1 DEF EditFits
<1>6. ASSUME NEW o \in Edits, NEW k \in Links PROVE TaskFits(o, k)'
  BY <1>3 DEF TaskFits
<1>7. BoardsDiffer' /\ CardsThere'
  BY <1>1, <1>2 DEF LinksInv, BoardsDiffer, CardsThere
<1> QED
  BY <1>1, <1>2, <1>3, <1>4, <1>5, <1>6, <1>7 DEF LinksInv

LEMMA LinksInvStep ==
    ASSUME LinksInv, [AllNext]_everything
    PROVE  LinksInv'
<1>1. CASE Next /\ UNCHANGED boardVars
  BY <1>1, NextKeepsLinks
<1>2. CASE BoardsNext /\ UNCHANGED allVars
  BY <1>2, DateFieldKeepsLinks, CreateLinkKeepsLinks, DeleteLinkKeepsLinks,
     InsertLinkKeepsLinks, CheckUnlinkKeepsLinks, PatchDatesKeepsLinks, SaveDatesKeepsLinks,
     FindLinksKeepsLinks, AnswerKeepsLinks, SpawnKeepsLinks, MirrorsKeepLinks,
     RecordsKeepLinks, StopKeepsLinks DEF BoardsNext, LinkSteps, DateSteps, MirrorSteps
<1>3. CASE UNCHANGED everything
  <2>1. UNCHANGED boardVars /\ UNCHANGED allVars
    BY <1>3 DEF everything
  <2>2. /\ MilestonesInv' /\ MilestonesTypeOK' /\ Locals' = Locals
        /\ TaskRows' = TaskRows
    BY <2>1, RowsStand
  <2>3. BoardsTypeOK'
    BY <2>1, <2>2 DEF boardVars, LinksInv, BoardsTypeOK, LinkRows, Lanes, ItemRows, Dates
  <2>4. ASSUME NEW o \in Edits PROVE EditFits(o)'
    BY <2>1, <2>2 DEF boardVars, LinksInv, EditFits, LinkRows, Lanes
  <2>5. ASSUME NEW o \in Edits, NEW k \in Links PROVE TaskFits(o, k)'
    BY <2>1, <2>2 DEF boardVars, LinksInv, TaskFits, CardOf
  <2>6. BoardsDiffer' /\ CardsThere'
    BY <2>1, <2>2 DEF boardVars, LinksInv, BoardsDiffer, CardsThere
  <2> QED
    BY <2>1, <2>2, <2>3, <2>4, <2>5, <2>6 DEF boardVars, LinksInv
<1> QED
  BY <1>1, <1>2, <1>3 DEF AllNext

LEMMA LinksInvInit ==
    ASSUME MilestonesInv, NEW bs, NEW fs, InitBoards(bs, fs)
    PROVE  LinksInv
<1>1. /\ \A l \in DOMAIN boardLink : l \in Links /\ boardLink[l] \in LinkRows
      /\ BoardsDiffer
  BY DEF InitBoards, BoardsDiffer
<1>2. /\ field \in [Boards -> SUBSET Lanes] /\ nodeId = {} /\ DOMAIN dates = {}
      /\ DOMAIN item = {} /\ DOMAIN card = {} /\ DOMAIN task = {}
      /\ edit = [e \in Edits |-> [at |-> "idle", todo |-> <<>>]]
  BY DEF InitBoards
<1>3. BoardsTypeOK
  BY <1>1, <1>2 DEF BoardsTypeOK, MilestonesInv
<1>4. ASSUME NEW e \in Edits PROVE EditFits(e)
  <2>1. edit[e].at = "idle"
    BY <1>2
  <2> QED
    BY <2>1 DEF EditFits
<1> QED
  BY <1>1, <1>2, <1>3, <1>4 DEF LinksInv, TaskFits, CardsThere

LEMMA InitInv ==
    ASSUME \E names, ts, ms, ps, ls, gs, bs, fs :
              InitRows(names, ts, ms, ps) /\ InitMilestones(ls, gs) /\ InitBoards(bs, fs)
    PROVE  MilestonesInv /\ \E bs, fs : InitBoards(bs, fs)
<1> PICK names, ts, ms, ps, ls, gs, bs, fs :
         InitRows(names, ts, ms, ps) /\ InitMilestones(ls, gs) /\ InitBoards(bs, fs)
  OBVIOUS
<1>1. RowsInv
  BY RowsInvInit
<1>2. \A q \in Requests : pc[q] = "idle" /\ form[q] = NoForm
  BY DEF InitRows
<1> QED
  BY <1>1, <1>2, MilestonesInvInit

\* A project is linked to a board once, an item with a card has it on its link's board,
\* and a mirror works on the board of its link, if that is still there.
THEOREM LinksHold == BoardSpec => []LinksInv
<1>1. ASSUME \E names, ts, ms, ps, ls, gs, bs, fs :
                InitRows(names, ts, ms, ps) /\ InitMilestones(ls, gs) /\ InitBoards(bs, fs)
      PROVE  LinksInv
  BY <1>1, InitInv, LinksInvInit
<1>2. LinksInv /\ [AllNext]_everything => LinksInv'
  BY LinksInvStep
<1> QED
  BY <1>1, <1>2, PTL DEF BoardSpec

\* The rows of all four modules keep their types, and an item belongs to a link that is
\* there (ON DELETE CASCADE of dp_project_board_items).
THEOREM BoardsAreTyped == BoardSpec => []BoardsTypeOK
<1>1. LinksInv => BoardsTypeOK
  BY DEF LinksInv
<1> QED
  BY <1>1, LinksHold, PTL

-----------------------------------------------------------------------------
(* Boards and their dates *)

\* A step that leaves alone what link l and issue i are about.
LEMMA Frame ==
    ASSUME LinksInv, NEW l \in Links, NEW i \in Issues, Mirrors(l, i), WorkStays(l, i),
           DateStays(i), ItemStays(l, i), CardStays(l, i), \A f \in Edits : TaskStays(f, l, i)
    PROVE  Mirrors(l, i)'
<1>1. OneEdits(i)'
  BY DEF Mirrors, OneEdits, WorkStays, Editing
<1>2. LastSaved(i)'
  BY DEF Mirrors, LastSaved, WorkStays, DateStays, Editing
<1>3. OwnCard(l, i)'
  BY DEF Mirrors, OwnCard, WorkStays, ItemStays
<1>4. Shows(l, i)'
  <2> SUFFICES ASSUME NEW f \in Edits, <<f, l>> \in DOMAIN task', task'[<<f, l>>].issue = i,
                      task'[<<f, l>>].at = "mirror", l \in DOMAIN boardLink',
                      NEW lane \in boardLink'[l].lanes \ task'[<<f, l>>].lanes
               PROVE  /\ CardOf(task'[<<f, l>>]) \in DOMAIN card'
                      /\ card'[CardOf(task'[<<f, l>>])][lane] = f
    BY DEF Shows, CardOf
  <2> PICK t : t = task[<<f, l>>]
    OBVIOUS
  <2> PICK b : b = t.board
    OBVIOUS
  <2>1. /\ <<f, l>> \in DOMAIN task /\ t.issue = i /\ t.at = "mirror"
        /\ task'[<<f, l>>].board = b /\ task'[<<f, l>>].lanes = t.lanes
        /\ l \in DOMAIN boardLink /\ boardLink'[l] = boardLink[l]
    BY DEF TaskStays
  <2>2. CardOf(t) = <<b, i>> /\ CardOf(task'[<<f, l>>]) = <<b, i>>
    BY <2>1 DEF CardOf
  <2>3. <<b, i>> \in DOMAIN card /\ card[<<b, i>>][lane] = f
    <3>1. Shows(l, i)
      BY DEF Mirrors
    <3> QED
      BY <2>1, <2>2, <3>1 DEF Shows
  <2>4. b \in Boards
    <3>1. f \in Edits /\ l \in Links
      BY <2>1 DEF LinksInv
    <3>2. TaskFits(f, l)
      BY <3>1 DEF LinksInv
    <3> QED
      BY <2>1, <3>2 DEF TaskFits, TaskRows
  <2>5. Doing(f, l, i, b)
    BY <2>1 DEF Doing
  <2> QED
    BY <2>2, <2>3, <2>4, <2>5 DEF CardStays
<1>5. Settled(l, i)'
  <2> SUFFICES ASSUME \A f \in Edits : ~Pending(f, l, i)',
                      <<l, i>> \in DOMAIN item', item'[<<l, i>>].synced, ~item'[<<l, i>>].failed,
                      NEW lane \in boardLink'[l].lanes
               PROVE  /\ <<boardLink'[l].board, i>> \in DOMAIN card'
                      /\ card'[<<boardLink'[l].board, i>>][lane] = ShownDates(i)'
    BY DEF Settled
  <2>1. \A f \in Edits : ~Pending(f, l, i)
    BY DEF WorkStays
  <2>2. /\ <<l, i>> \in DOMAIN item /\ item[<<l, i>>].synced /\ ~item[<<l, i>>].failed
        /\ boardLink'[l] = boardLink[l]
    BY DEF ItemStays
  <2>3. /\ <<boardLink[l].board, i>> \in DOMAIN card
        /\ card[<<boardLink[l].board, i>>][lane] = ShownDates(i)
    BY <2>1, <2>2 DEF Mirrors, Settled
  <2>4. boardLink[l].board \in Boards
    BY <2>2 DEF LinksInv, BoardsTypeOK, LinkRows
  <2>5. ShownDates(i)' = ShownDates(i)
    BY DEF ShownDates, DateStays
  <2> QED
    BY <2>2, <2>3, <2>4, <2>5 DEF CardStays
<1> QED
  BY <1>1, <1>2, <1>3, <1>4, <1>5 DEF Mirrors

\* Requests that are about no dates yet, or no longer.
LEMMA IdleFrame ==
    ASSUME LinksInv, NEW l \in Links, NEW i \in Issues, Mirrors(l, i), NEW e \in Edits,
           \A o \in Edits \ {e} : edit'[o] = edit[o],
           edit[e].at # "saved", edit'[e].at # "saved",
           UNCHANGED <<dates, card, task>>, ItemStays(l, i),
           \A f \in Edits : <<f, l>> \in DOMAIN task /\ l \in DOMAIN boardLink' =>
              l \in DOMAIN boardLink /\ boardLink'[l] = boardLink[l]
    PROVE  Mirrors(l, i)'
<1>1. \A f \in Edits, k \in Links, b \in Boards : Work(f, k, i, b)' => Work(f, k, i, b)
  BY DEF Work, ToDo, Doing
<1>2. \A f \in Edits : Pending(f, l, i) => Pending(f, l, i)'
  BY DEF Pending
<1>3. \A f \in Edits : f \in Editing(i)' => f \in Editing(i)
  BY DEF Editing
<1>4. WorkStays(l, i) /\ DateStays(i) /\ CardStays(l, i) /\ \A f \in Edits : TaskStays(f, l, i)
  BY <1>1, <1>2, <1>3 DEF WorkStays, DateStays, CardStays, TaskStays
<1> QED
  BY <1>4, Frame

LEMMA QuietSteps ==
    ASSUME LinksInv, NEW l \in Links, NEW i \in Issues, Mirrors(l, i), NEW e \in Edits,
           \/ CreateDateField(e) \/ CreateLink(e) \/ DeleteLink(e)
           \/ \E k \in Links : InsertLink(e, k) \/ CheckUnlink(e, k)
           \/ \E j \in Issues : PatchDates(e, j)
    PROVE  Mirrors(l, i)'
<1>1. /\ edit[e].at # "saved" /\ UNCHANGED <<dates, card, task>>
      /\ \E r : edit' = [edit EXCEPT ![e] = r] /\ r.at # "saved"
  BY DEF CreateDateField, PickerFails, CreateLink, DeleteLink, InsertLink, CheckUnlink,
     PatchDates, EndEdit
<1>2. \A o \in Edits \ {e} : edit'[o] = edit[o]
  BY <1>1 DEF LinksInv
<1>3. edit'[e].at # "saved"
  BY <1>1 DEF LinksInv
<1>4. CASE UNCHANGED <<boardLink, item>>
  BY <1>1, <1>2, <1>3, <1>4, IdleFrame DEF ItemStays
<1>5. CASE DeleteLink(e)
  <2>1. /\ boardLink' = [o \in DOMAIN boardLink \ {edit[e].link} |-> boardLink[o]]
        /\ item' = [x \in {y \in DOMAIN item : y[1] # edit[e].link} |-> item[x]]
    BY <1>5 DEF DeleteLink
  <2>2. ItemStays(l, i)
    BY <2>1 DEF ItemStays, LinksInv, BoardsTypeOK
  <2>3. l \in DOMAIN boardLink' => l \in DOMAIN boardLink /\ boardLink'[l] = boardLink[l]
    BY <2>1
  <2> QED
    BY <1>1, <1>2, <1>3, <2>2, <2>3, IdleFrame
<1>6. ASSUME NEW k \in Links, InsertLink(e, k) PROVE Mirrors(l, i)'
  <2>1. /\ k \notin DOMAIN boardLink /\ KnowLink(k) = {} /\ UNCHANGED item
        /\ boardLink' = boardLink \/ boardLink' = Put(boardLink, k, edit[e].row)
    BY <1>6 DEF InsertLink
  <2>2. \A m \in DOMAIN boardLink : boardLink'[m] = boardLink[m]
    BY <2>1 DEF Put
  <2>3. ItemStays(l, i)
    BY <2>1, <2>2 DEF ItemStays, LinksInv, BoardsTypeOK
  <2>4. \A f \in Edits : <<f, k>> \notin DOMAIN task
    BY <2>1 DEF KnowLink
  <2>5. l \in DOMAIN boardLink' => l \in DOMAIN boardLink \/ l = k
    BY <2>1 DEF Put
  <2> QED
    BY <1>1, <1>2, <1>3, <2>2, <2>3, <2>4, <2>5, IdleFrame
<1>7. UNCHANGED <<boardLink, item>> \/ DeleteLink(e) \/ \E k \in Links : InsertLink(e, k)
  BY DEF CreateDateField, CreateLink, CheckUnlink, PatchDates
<1> QED
  BY <1>4, <1>5, <1>6, <1>7

\* Who is at work for an issue is about it.
LEMMA WorkersEdit ==
    ASSUME NEW e \in Edits, NEW l \in Links, NEW i \in Issues, NEW b,
           Work(e, l, i, b) \/ Pending(e, l, i)
    PROVE  e \in Editing(i)
BY DEF Work, ToDo, Doing, Pending, Editing

\* What nobody is about any more is as it was.
LEMMA NobodyEdits ==
    ASSUME NEW l \in Links, NEW i \in Issues, Mirrors(l, i), Editing(i) = {}, Editing(i)' = {},
           UNCHANGED <<boardLink, dates, item, card>>
    PROVE  Mirrors(l, i)'
<1>1. \A b : \A e \in Edits, k \in Links : ~Work(e, k, i, b)' /\ ~Pending(e, k, i)'
  BY DEF Work, ToDo, Doing, Pending, Editing
<1>2. \A e \in Edits : ~Pending(e, l, i)
  BY DEF Pending, Editing
<1>3. Settled(l, i)'
  BY <1>1, <1>2 DEF Mirrors, Settled, ShownDates
<1>4. \A e \in Edits : ~(<<e, l>> \in DOMAIN task' /\ task'[<<e, l>>].issue = i)
  BY DEF Editing
<1> QED
  BY <1>1, <1>3, <1>4 DEF Mirrors, OneEdits, LastSaved, OwnCard, Shows

LEMMA SaveDatesMirrors ==
    ASSUME LinksInv, NEW l \in Links, NEW i \in Issues, Mirrors(l, i), NEW e \in Edits,
           SaveDates(e), <<l, i>> \notin doubtful'
    PROVE  Mirrors(l, i)'
<1> PICK j : j = edit[e].issue
  OBVIOUS
<1> PICK r : r = [at |-> "saved", issue |-> j, todo |-> <<>>, looked |-> FALSE]
  OBVIOUS
<1>1. /\ edit[e].at = "dated" /\ dates' = Put(dates, j, e) /\ edit' = [edit EXCEPT ![e] = r]
      /\ doubtful' = doubtful \cup ((IF Editing(j) = {} THEN {} ELSE Links) \X {j})
      /\ UNCHANGED <<boardLink, field, nodeId, item, card, task>>
  BY DEF SaveDates, Doubt
<1>2. edit'[e] = r /\ \A o \in Edits \ {e} : edit'[o] = edit[o]
  BY <1>1 DEF LinksInv
<1>3. r.at = "saved" /\ r.issue = j /\ DOMAIN r.todo = {} /\ r.looked = FALSE
  OBVIOUS
<1>4. dates'[j] = e /\ j \in DOMAIN dates'
      /\ \A k : k # j => (k \in DOMAIN dates' <=> k \in DOMAIN dates)
                         /\ (k \in DOMAIN dates => dates'[k] = dates[k])
  BY <1>1 DEF Put
<1>5. CASE i # j
  <2>1. \A f \in Edits, k \in Links, b \in Boards : Work(f, k, i, b)' => Work(f, k, i, b)
    BY <1>1, <1>2, <1>3, <1>5 DEF Work, ToDo, Doing
  <2>2. \A f \in Edits : Pending(f, l, i) => Pending(f, l, i)'
    BY <1>1, <1>2, <1>3, <1>5 DEF Pending
  <2>3. \A f \in Edits : f \in Editing(i)' => f \in Editing(i)
    BY <1>1, <1>2, <1>3, <1>5 DEF Editing
  <2>4. WorkStays(l, i) /\ DateStays(i) /\ ItemStays(l, i) /\ CardStays(l, i)
        /\ \A f \in Edits : TaskStays(f, l, i)
    BY <1>1, <1>4, <1>5, <2>1, <2>2, <2>3
    DEF WorkStays, DateStays, ItemStays, CardStays, TaskStays
  <2> QED
    BY <2>4, Frame
<1>6. CASE i = j
  <2>1. Editing(i) = {}
    BY <1>1, <1>6
  <2>2. /\ \A f \in Edits : ~(edit[f].at = "saved" /\ edit[f].issue = i)
        /\ \A f \in Edits, k \in Links : <<f, k>> \in DOMAIN task => task[<<f, k>>].issue # i
    BY <2>1 DEF Editing
  <2>3. Editing(i)' \subseteq {e}
    BY <1>1, <1>2, <2>2 DEF Editing
  <2>4. \A f \in Edits, k \in Links, b \in Boards : ~Work(f, k, i, b)'
    BY <1>1, <1>2, <1>3, <2>2 DEF Work, ToDo, Doing
  <2>5. Pending(e, l, i)'
    BY <1>2, <1>3, <1>6 DEF Pending
  <2>6. OneEdits(i)' /\ LastSaved(i)'
    BY <1>4, <1>6, <2>3 DEF OneEdits, LastSaved
  <2>7. OwnCard(l, i)' /\ Settled(l, i)'
    BY <2>4, <2>5 DEF OwnCard, Settled
  <2>8. Shows(l, i)'
    BY <1>1, <2>2 DEF Shows
  <2> QED
    BY <2>6, <2>7, <2>8 DEF Mirrors
<1> QED
  BY <1>5, <1>6

LEMMA FindLinksMirrors ==
    ASSUME LinksInv, NEW l \in Links, NEW i \in Issues, Mirrors(l, i), NEW e \in Edits,
           FindLinks(e), <<l, i>> \notin doubtful'
    PROVE  Mirrors(l, i)'
<1> PICK j : j = edit[e].issue
  OBVIOUS
<1> PICK ls : ls = IF j \in DOMAIN member THEN ListBoardLinks(member[j]) ELSE {}
  OBVIOUS
<1>1. /\ edit[e].at = "saved" /\ ~edit[e].looked
      /\ UNCHANGED <<boardLink, field, dates, nodeId, item, card, task>>
  BY DEF FindLinks
<1>2. PICK S \in {ls, {}} :
         /\ edit' = [edit EXCEPT ![e].todo = [k \in S |-> boardLink[k]], ![e].looked = TRUE]
         /\ doubtful' = doubtful \cup ((Links \ S) \X {j})
  BY DEF FindLinks, Doubt
<1> PICK t : t = [k \in S |-> boardLink[k]]
  OBVIOUS
<1> PICK r : r = [edit[e] EXCEPT !.todo = t, !.looked = TRUE]
  OBVIOUS
<1>3. /\ {"at", "issue", "todo", "looked"} \subseteq DOMAIN edit[e]
      /\ DOMAIN edit[e].todo = {}
  BY <1>1 DEF LinksInv, EditFits
<1>4. r.at = "saved" /\ r.issue = j /\ r.todo = t /\ r.looked = TRUE
  BY <1>1, <1>3
<1>5. edit' = [edit EXCEPT ![e] = r]
  BY <1>2
<1>6. edit'[e] = r /\ \A o \in Edits \ {e} : edit'[o] = edit[o]
  BY <1>5 DEF LinksInv
<1>7. /\ S \subseteq DOMAIN boardLink /\ DOMAIN t = S /\ \A k \in S : t[k] = boardLink[k]
      /\ \A k, m \in S : boardLink[k].project = boardLink[m].project
  BY <1>2 DEF ListBoardLinks
<1>8. \A f \in Edits : f \in Editing(i)' => f \in Editing(i)
  <2>1. edit'[e].at = edit[e].at /\ edit'[e].issue = edit[e].issue
    BY <1>1, <1>4, <1>6
  <2>2. \A f \in Edits : edit'[f].at = edit[f].at /\ edit'[f].issue = edit[f].issue
    BY <1>6, <2>1
  <2>3. task' = task
    BY <1>1
  <2> QED
    BY <2>2, <2>3 DEF Editing
<1>9. CASE i # j
  <2>1. \A f \in Edits, k \in Links, b \in Boards : Work(f, k, i, b)' => Work(f, k, i, b)
    BY <1>1, <1>4, <1>6, <1>9 DEF Work, ToDo, Doing
  <2>2. \A f \in Edits : Pending(f, l, i) => Pending(f, l, i)'
    BY <1>1, <1>4, <1>6, <1>9 DEF Pending
  <2>3. WorkStays(l, i) /\ DateStays(i) /\ ItemStays(l, i) /\ CardStays(l, i)
        /\ \A f \in Edits : TaskStays(f, l, i)
    BY <1>1, <1>8, <2>1, <2>2 DEF WorkStays, DateStays, ItemStays, CardStays, TaskStays
  <2> QED
    BY <2>3, Frame
<1>10. CASE i = j
  <2>1. l \in S
    BY <1>2, <1>10
  <2>2. e \in Editing(i)
    BY <1>1, <1>10 DEF Editing
  <2>3. \A k \in Links : <<e, k>> \notin DOMAIN task
    BY <1>1, NoTasks
  <2>4. \A f \in Edits, k \in Links, b \in Boards : ~Work(f, k, i, b)
    <3> SUFFICES ASSUME NEW f \in Edits, NEW k \in Links, NEW b \in Boards, Work(f, k, i, b)
                 PROVE  FALSE
      OBVIOUS
    <3>1. f = e
      BY <2>2, WorkersEdit DEF Mirrors, OneEdits
    <3> QED
      BY <1>3, <2>3, <3>1 DEF Work, ToDo, Doing
  <2>5. ASSUME NEW f \in Edits, NEW k \in Links, NEW b \in Boards, Work(f, k, i, b)'
        PROVE  f = e /\ k \in S /\ boardLink[k].board = b
    <3>1. ~ToDo(f, k, i, b) /\ ~Doing(f, k, i, b)
      BY <2>4 DEF Work
    <3>2. ToDo(f, k, i, b)'
      BY <1>1, <2>5, <3>1 DEF Work, Doing
    <3>3. f = e
      BY <1>6, <3>1, <3>2 DEF ToDo
    <3>4. k \in DOMAIN t /\ t[k].board = b
      BY <1>4, <1>6, <3>2, <3>3 DEF ToDo
    <3> QED
      BY <1>7, <3>3, <3>4
  <2>6. OwnCard(l, i)'
    <3> SUFFICES ASSUME NEW f \in Edits, NEW k \in Links \ {l}, NEW b \in Boards,
                        Work(f, k, i, b)'
                 PROVE  (\A g \in Edits : ~Work(g, l, i, b)') /\ boardLink'[l].board # b
      BY DEF OwnCard
    <3>1. k \in S /\ boardLink[k].board = b
      BY <2>5
    <3>2. boardLink[l].board # b
      BY <1>7, <2>1, <3>1 DEF LinksInv, BoardsDiffer
    <3> QED
      BY <1>1, <2>5, <3>2
  <2>7. OneEdits(i)' /\ LastSaved(i)'
    BY <1>1, <1>8 DEF Mirrors, OneEdits, LastSaved, Editing
  <2>8. Shows(l, i)'
    BY <1>1 DEF Mirrors, Shows, CardOf
  <2>9. Pending(e, l, i)'
    BY <1>4, <1>6, <1>7, <1>10, <2>1 DEF Pending
  <2>10. Settled(l, i)'
    BY <2>9 DEF Settled
  <2> QED
    BY <2>6, <2>7, <2>8, <2>10 DEF Mirrors
<1> QED
  BY <1>9, <1>10

LEMMA AnswerMirrors ==
    ASSUME LinksInv, NEW l \in Links, NEW i \in Issues, Mirrors(l, i), NEW e \in Edits,
           Answer(e)
    PROVE  Mirrors(l, i)'
<1>1. /\ edit[e].at = "saved" /\ edit[e].looked /\ DOMAIN edit[e].todo = {}
      /\ edit' = [edit EXCEPT ![e] = [at |-> "done", todo |-> <<>>]]
      /\ UNCHANGED <<boardLink, field, dates, nodeId, item, card, task>>
  BY DEF Answer, EndEdit
<1>2. edit'[e].at = "done" /\ \A o \in Edits \ {e} : edit'[o] = edit[o]
  BY <1>1 DEF LinksInv
<1>3. \A f \in Edits, k \in Links, b \in Boards : Work(f, k, i, b)' => Work(f, k, i, b)
  BY <1>1, <1>2 DEF Work, ToDo, Doing
<1>4. \A f \in Edits : Pending(f, l, i) => Pending(f, l, i)'
  BY <1>1, <1>2 DEF Pending
<1>5. \A f \in Edits : f \in Editing(i)' => f \in Editing(i)
  BY <1>1, <1>2 DEF Editing
<1>6. WorkStays(l, i) /\ DateStays(i) /\ ItemStays(l, i) /\ CardStays(l, i)
      /\ \A f \in Edits : TaskStays(f, l, i)
  BY <1>1, <1>3, <1>4, <1>5 DEF WorkStays, DateStays, ItemStays, CardStays, TaskStays
<1> QED
  BY <1>6, Frame

LEMMA StopMirrors ==
    ASSUME LinksInv, NEW l \in Links, NEW i \in Issues, Mirrors(l, i), Stop,
           <<l, i>> \notin doubtful'
    PROVE  Mirrors(l, i)'
<1>1. /\ edit' = [e \in Edits |-> IF edit[e].at \notin {"idle", "done"}
                                    THEN [at |-> "done", todo |-> <<>>] ELSE edit[e]]
      /\ task' = <<>>
      /\ doubtful' = doubtful \cup (Links \X {k \in Issues : Editing(k) # {}})
      /\ UNCHANGED <<boardLink, field, nodeId, dates, item, card>>
  BY DEF Stop
<1>2. Editing(i) = {}
  BY <1>1
<1>3. \A e \in Edits : edit'[e].at # "saved"
  BY <1>1
<1>4. DOMAIN task' = {}
  BY <1>1
<1>5. Editing(i)' = {}
  BY <1>3, <1>4 DEF Editing
<1> QED
  BY <1>1, <1>2, <1>5, NobodyEdits

LEMMA SpawnMirrors ==
    ASSUME LinksInv, NEW l \in Links, NEW i \in Issues, Mirrors(l, i), NEW e \in Edits,
           NEW m \in Links, SpawnMirror(e, m)
    PROVE  Mirrors(l, i)'
<1> PICK j : j = edit[e].issue
  OBVIOUS
<1> PICK row : row = edit[e].todo[m]
  OBVIOUS
<1> PICK td : td = [o \in DOMAIN edit[e].todo \ {m} |-> edit[e].todo[o]]
  OBVIOUS
<1> PICK r : r = [edit[e] EXCEPT !.todo = td]
  OBVIOUS
<1>1. /\ edit[e].at = "saved" /\ m \in DOMAIN edit[e].todo
      /\ edit' = [edit EXCEPT ![e] = r]
      /\ UNCHANGED <<boardLink, field, dates, nodeId, item, card, doubtful>>
  BY DEF SpawnMirror
<1>2. PICK t : /\ task' = Put(task, <<e, m>>, t)
               /\ t.at = "mirror" /\ t.issue = j /\ t.board = row.board /\ t.lanes = row.lanes
  <2>1. PICK id \in CardIds(m, j) :
           task' = Put(task, <<e, m>>, [at |-> "mirror", issue |-> j, node |-> HasNode(j),
                                        id |-> id, board |-> row.board, lanes |-> row.lanes])
    BY DEF SpawnMirror
  <2> QED
    BY <2>1
<1>3. /\ {"at", "issue", "todo", "looked"} \subseteq DOMAIN edit[e] /\ edit[e].looked
      /\ m \in DOMAIN boardLink => boardLink[m] = row
  BY <1>1 DEF LinksInv, EditFits
<1>4. r.at = "saved" /\ r.issue = j /\ r.todo = td /\ r.looked = edit[e].looked
  BY <1>1, <1>3
<1>5. edit'[e] = r /\ \A o \in Edits \ {e} : edit'[o] = edit[o]
  BY <1>1 DEF LinksInv
<1>6. /\ DOMAIN td = DOMAIN edit[e].todo \ {m}
      /\ \A k \in DOMAIN td : td[k] = edit[e].todo[k]
  OBVIOUS
<1>7. /\ DOMAIN task' = DOMAIN task \cup {<<e, m>>} /\ task'[<<e, m>>] = t
      /\ \A y \in DOMAIN task : y # <<e, m>> => task'[y] = task[y]
  BY <1>2 DEF Put
<1>8. \A f \in Edits, k \in Links, b \in Boards : Work(f, k, i, b)' => Work(f, k, i, b)
  <2> SUFFICES ASSUME NEW f \in Edits, NEW k \in Links, NEW b \in Boards, Work(f, k, i, b)'
               PROVE  Work(f, k, i, b)
    OBVIOUS
  <2>1. CASE f = e /\ k = m
    <3>1. ~ToDo(f, k, i, b)'
      BY <1>4, <1>5, <1>6, <2>1 DEF ToDo
    <3>2. j = i /\ row.board = b
      BY <1>2, <1>7, <2>1, <3>1 DEF Work, Doing
    <3> QED
      BY <1>1, <2>1, <3>2 DEF Work, ToDo
  <2>2. CASE f # e \/ k # m
    <3>1. Doing(f, k, i, b)' => Doing(f, k, i, b)
      BY <1>7, <2>2 DEF Doing
    <3>2. ToDo(f, k, i, b)' => ToDo(f, k, i, b)
      <4>1. CASE f = e
        BY <1>1, <1>4, <1>5, <1>6, <4>1 DEF ToDo
      <4>2. CASE f # e
        BY <1>5, <4>2 DEF ToDo
      <4> QED
        BY <4>1, <4>2
    <3> QED
      BY <3>1, <3>2 DEF Work
  <2> QED
    BY <2>1, <2>2
<1>9. \A f \in Edits : Pending(f, l, i) => Pending(f, l, i)'
  <2> SUFFICES ASSUME NEW f \in Edits, Pending(f, l, i) PROVE Pending(f, l, i)'
    OBVIOUS
  <2>1. CASE f = e /\ l = m
    <3>1. j = i
      BY <1>1, <2>1, NoTasks DEF Pending, LinksInv, TaskFits
    <3> QED
      BY <1>2, <1>7, <2>1, <3>1 DEF Pending
  <2>2. CASE f = e /\ l # m
    BY <1>1, <1>4, <1>5, <1>6, <1>7, <2>2 DEF Pending
  <2>3. CASE f # e
    BY <1>5, <1>7, <2>3 DEF Pending
  <2> QED
    BY <2>1, <2>2, <2>3
<1>10. \A f \in Edits : f \in Editing(i)' => f \in Editing(i)
  <2> SUFFICES ASSUME NEW f \in Edits, f \in Editing(i)' PROVE f \in Editing(i)
    OBVIOUS
  <2>1. CASE f = e
    <3>1. CASE j = i
      BY <1>1, <2>1, <3>1 DEF Editing
    <3>2. CASE j # i
      <4>1. PICK k \in Links : <<e, k>> \in DOMAIN task' /\ task'[<<e, k>>].issue = i
        BY <1>4, <1>5, <2>1, <3>2 DEF Editing
      <4>2. k # m
        BY <1>2, <1>7, <3>2, <4>1
      <4> QED
        BY <1>7, <2>1, <4>1, <4>2 DEF Editing
    <3> QED
      BY <3>1, <3>2
  <2>2. CASE f # e
    BY <1>5, <1>7, <2>2 DEF Editing
  <2> QED
    BY <2>1, <2>2
<1>11. ASSUME NEW f \in Edits PROVE TaskStays(f, l, i)
  <2>1. CASE f = e /\ l = m
    BY <1>1, <1>2, <1>3, <1>7, <2>1 DEF TaskStays
  <2>2. CASE f # e \/ l # m
    BY <1>1, <1>7, <2>2 DEF TaskStays
  <2> QED
    BY <2>1, <2>2
<1>12. WorkStays(l, i) /\ DateStays(i) /\ ItemStays(l, i) /\ CardStays(l, i)
  BY <1>1, <1>8, <1>9, <1>10 DEF WorkStays, DateStays, ItemStays, CardStays
<1> QED
  BY <1>11, <1>12, Frame

\* A task that goes on is still about its issue and its board.
LEMMA TaskGoesOn ==
    ASSUME LinksInv, NEW l \in Links, NEW i \in Issues, NEW x \in DOMAIN task, NEW w,
           task' = [task EXCEPT ![x] = w], w.issue = task[x].issue, w.board = task[x].board,
           UNCHANGED <<boardLink, dates, item, edit>>
    PROVE  WorkStays(l, i) /\ DateStays(i) /\ ItemStays(l, i)
<1>1. /\ DOMAIN task' = DOMAIN task
      /\ \A y \in DOMAIN task : task'[y].issue = task[y].issue /\ task'[y].board = task[y].board
  OBVIOUS
<1>2. \A f \in Edits, k \in Links, b \in Boards : Work(f, k, i, b)' => Work(f, k, i, b)
  BY <1>1 DEF Work, ToDo, Doing
<1>3. \A f \in Edits : Pending(f, l, i) => Pending(f, l, i)'
  BY <1>1 DEF Pending
<1>4. \A f \in Edits : f \in Editing(i)' => f \in Editing(i)
  BY <1>1 DEF Editing
<1> QED
  BY <1>2, <1>3, <1>4 DEF WorkStays, DateStays, ItemStays

\* A mirror that has not reached a field, or fails, changes no card that is there.
LEMMA ApproachMirrors ==
    ASSUME LinksInv, NEW l \in Links, NEW i \in Issues, Mirrors(l, i), NEW x \in DOMAIN task,
           ResolveNode(x) \/ AddCard(x) \/ MirrorFails(x)
    PROVE  Mirrors(l, i)'
<1> PICK t : t = task[x]
  OBVIOUS
<1>1. t \in TaskRows
  BY DEF LinksInv, BoardsTypeOK
<1>2. t.at = "mirror" /\ UNCHANGED <<boardLink, field, dates, item, edit>>
  BY DEF ResolveNode, AddCard, MirrorFails
<1>3. PICK w : task' = [task EXCEPT ![x] = w] /\ w.issue = t.issue /\ w.board = t.board
                                            /\ w.lanes = t.lanes
  <2>1. CASE ResolveNode(x)
    <3> PICK u : u = [t EXCEPT !.node = TRUE]
      OBVIOUS
    <3>1. PICK at \in {"mirror", "failed"} : task' = [task EXCEPT ![x] = [u EXCEPT !.at = at]]
      BY <2>1 DEF ResolveNode, Continue
    <3> PICK w : w = [u EXCEPT !.at = at]
      OBVIOUS
    <3>2. w.issue = t.issue /\ w.board = t.board /\ w.lanes = t.lanes
      BY <1>1 DEF TaskRows
    <3>3. task' = [task EXCEPT ![x] = w]
      BY <3>1
    <3> QED
      BY <3>2, <3>3
  <2>2. CASE AddCard(x)
    <3> PICK u : u = [t EXCEPT !.id = "card"]
      OBVIOUS
    <3>1. PICK at \in {"mirror", "failed"} : task' = [task EXCEPT ![x] = [u EXCEPT !.at = at]]
      BY <2>2 DEF AddCard, Continue
    <3> PICK w : w = [u EXCEPT !.at = at]
      OBVIOUS
    <3>2. w.issue = t.issue /\ w.board = t.board /\ w.lanes = t.lanes
      BY <1>1 DEF TaskRows
    <3>3. task' = [task EXCEPT ![x] = w]
      BY <3>1
    <3> QED
      BY <3>2, <3>3
  <2>3. CASE MirrorFails(x)
    <3> PICK w : w = [t EXCEPT !.at = "failed"]
      OBVIOUS
    <3>1. w.issue = t.issue /\ w.board = t.board /\ w.lanes = t.lanes
      BY <1>1 DEF TaskRows
    <3>2. task' = [task EXCEPT ![x] = w]
      BY <2>3 DEF MirrorFails
    <3> QED
      BY <3>1, <3>2
  <2> QED
    BY <2>1, <2>2, <2>3
<1>4. WorkStays(l, i) /\ DateStays(i) /\ ItemStays(l, i)
  BY <1>2, <1>3, TaskGoesOn
<1>5. ASSUME NEW f \in Edits PROVE TaskStays(f, l, i)
  <2>1. CASE <<f, l>> = x
    BY <1>2, <1>3, <2>1 DEF TaskStays
  <2>2. CASE <<f, l>> # x
    BY <1>2, <1>3, <2>2 DEF TaskStays
  <2> QED
    BY <2>1, <2>2
<1>6. \A y \in DOMAIN card : y \in DOMAIN card' /\ card'[y] = card[y]
  BY DEF ResolveNode, AddCard, AddItem, MirrorFails, Put
<1>7. CardStays(l, i)
  BY <1>6 DEF CardStays
<1> QED
  BY <1>4, <1>5, <1>7, Frame

LEMMA PushMirrors ==
    ASSUME LinksInv, NEW l \in Links, NEW i \in Issues, Mirrors(l, i), NEW x \in DOMAIN task,
           PushLane(x)
    PROVE  Mirrors(l, i)'
<1> PICK e \in Edits, m \in Links : x = <<e, m>>
  BY DEF LinksInv
<1> PICK t : t = task[x]
  OBVIOUS
<1> PICK lane : lane = IF "start" \in t.lanes THEN "start" ELSE "due"
  OBVIOUS
<1> PICK u : u = [t EXCEPT !.lanes = @ \ {lane}]
  OBVIOUS
<1> PICK c : c = CardOf(t)
  OBVIOUS
<1>1. t \in TaskRows /\ TaskFits(e, m)
  BY DEF LinksInv, BoardsTypeOK
<1>2. /\ t.at = "mirror" /\ t.id = "card" /\ t.lanes # {}
      /\ card' = [card EXCEPT ![c][lane] = e]
      /\ UNCHANGED <<boardLink, field, dates, item, edit>>
  BY DEF PushLane, SetDate
<1>3. PICK at \in {"mirror", "failed"} : task' = [task EXCEPT ![x] = [u EXCEPT !.at = at]]
  BY DEF PushLane, Continue
<1> PICK w : w = [u EXCEPT !.at = at]
  OBVIOUS
<1>4. w.issue = t.issue /\ w.board = t.board /\ w.lanes = t.lanes \ {lane}
  BY <1>1 DEF TaskRows
<1>5. task' = [task EXCEPT ![x] = w]
  BY <1>3
<1>6. c \in DOMAIN card /\ c = <<t.board, t.issue>> /\ t.board \in Boards
  BY <1>1, <1>2 DEF TaskFits, TaskRows, CardOf
<1>7. /\ DOMAIN card' = DOMAIN card /\ \A y \in DOMAIN card : y # c => card'[y] = card[y]
      /\ card'[c] = [card[c] EXCEPT ![lane] = e]
  BY <1>2, <1>6
<1>8. card[c] \in [Lanes -> Dates] /\ lane \in Lanes
  BY <1>6 DEF LinksInv, BoardsTypeOK, Lanes
<1>9. card'[c][lane] = e /\ \A o \in Lanes : o # lane => card'[c][o] = card[c][o]
  BY <1>7, <1>8
<1>10. WorkStays(l, i) /\ DateStays(i) /\ ItemStays(l, i)
  BY <1>2, <1>4, <1>5, TaskGoesOn
<1>11. DOMAIN task' = DOMAIN task /\ task'[x] = w /\ \A y \in DOMAIN task : y # x => task'[y] = task[y]
  BY <1>5
<1>12. CASE l # m \/ i # t.issue
  <2>1. ASSUME NEW f \in Edits PROVE TaskStays(f, l, i)
    <3>1. CASE <<f, l>> = x
      <4>1. l = m
        BY <3>1
      <4>2. task'[<<f, l>>].issue # i
        BY <1>4, <1>11, <1>12, <3>1, <4>1
      <4> QED
        BY <4>2 DEF TaskStays
    <3>2. CASE <<f, l>> # x
      BY <1>2, <1>11, <3>2 DEF TaskStays
    <3> QED
      BY <3>1, <3>2
  <2>2. CardStays(l, i)
    <3>1. CASE i # t.issue
      BY <1>6, <1>7, <3>1 DEF CardStays
    <3>2. CASE i = t.issue
      <4>1. Work(e, m, i, t.board)
        BY <3>2 DEF Work, Doing
      <4>2. /\ \A f \in Edits : ~Work(f, l, i, t.board)
            /\ <<l, i>> \in DOMAIN item => boardLink[l].board # t.board
        BY <1>6, <1>12, <3>2, <4>1 DEF Mirrors, OwnCard
      <4>3. \A f \in Edits, b \in Boards : Doing(f, l, i, b) => b # t.board
        BY <4>2 DEF Work
      <4> QED
        BY <1>6, <1>7, <4>2, <4>3 DEF CardStays
    <3> QED
      BY <3>1, <3>2
  <2> QED
    BY <1>10, <2>1, <2>2, Frame
<1>13. CASE l = m /\ i = t.issue
  <2>1. e \in Editing(i)
    BY <1>13 DEF Editing
  <2>2. OneEdits(i)' /\ LastSaved(i)'
    BY <1>2, <1>10 DEF Mirrors, OneEdits, LastSaved, WorkStays, Editing
  <2>3. OwnCard(l, i)'
    BY <1>2, <1>10 DEF Mirrors, OwnCard, WorkStays
  <2>4. Pending(e, l, i)'
    BY <1>4, <1>11, <1>13 DEF Pending
  <2>5. Settled(l, i)'
    BY <2>4 DEF Settled
  <2>6. Shows(l, i)'
    <3> SUFFICES ASSUME NEW f \in Edits, <<f, l>> \in DOMAIN task', task'[<<f, l>>].issue = i,
                        l \in DOMAIN boardLink',
                        NEW o \in boardLink'[l].lanes \ task'[<<f, l>>].lanes
                 PROVE  /\ CardOf(task'[<<f, l>>]) \in DOMAIN card'
                        /\ card'[CardOf(task'[<<f, l>>])][o] = f
      BY DEF Shows, CardOf
    <3>1. f \in Editing(i)
      BY <1>10 DEF WorkStays, Editing
    <3>2. f = e
      BY <2>1, <3>1 DEF Mirrors, OneEdits
    <3>3. task'[<<f, l>>] = w /\ CardOf(w) = c
      BY <1>4, <1>6, <1>11, <1>13, <3>2 DEF CardOf
    <3>4. o \in boardLink[l].lanes /\ (o \in t.lanes => o = lane)
      BY <1>2, <1>4, <3>3
    <3>5. o \in Lanes
      BY <1>2, <3>4 DEF LinksInv, BoardsTypeOK, LinkRows
    <3>6. CardOf(task'[<<f, l>>]) = c /\ c \in DOMAIN card'
      BY <1>6, <1>7, <3>3
    <3>8. CASE o = lane
      BY <1>9, <3>2, <3>6, <3>8
    <3>7. CASE o # lane
      <4>1. o \in boardLink[l].lanes \ t.lanes
        BY <3>4, <3>7
      <4>2. Shows(l, i)
        BY DEF Mirrors
      <4>3. card[c][o] = e
        BY <1>2, <1>13, <4>1, <4>2 DEF Shows
      <4>4. card'[c][o] = e
        BY <1>9, <3>5, <3>7, <4>3
      <4> QED
        BY <3>2, <3>6, <4>4
    <3> QED
      BY <3>7, <3>8
  <2> QED
    BY <2>2, <2>3, <2>5, <2>6 DEF Mirrors
<1> QED
  BY <1>12, <1>13

\* A mirror that is over leaves its request, its cards and all other mirrors alone.
LEMMA TaskIsOver ==
    ASSUME LinksInv, NEW l \in Links, NEW i \in Issues, Mirrors(l, i), NEW x \in DOMAIN task,
           EndTask(x), UNCHANGED <<boardLink, dates, card, edit>>
    PROVE  /\ \A f \in Edits, k \in Links, b \in Boards : Work(f, k, i, b)' => Work(f, k, i, b)
           /\ \A f \in Edits : f \in Editing(i)' => f \in Editing(i)
           /\ \A f \in Edits : TaskStays(f, l, i)
           /\ DateStays(i) /\ CardStays(l, i)
           /\ (\A e \in Edits : x = <<e, l>> => task[x].issue # i) =>
                 \A f \in Edits : Pending(f, l, i) => Pending(f, l, i)'
<1>1. DOMAIN task' = DOMAIN task \ {x} /\ \A y \in DOMAIN task' : task'[y] = task[y]
  BY DEF EndTask
<1>2. \A f \in Edits, k \in Links, b \in Boards : Work(f, k, i, b)' => Work(f, k, i, b)
  BY <1>1 DEF Work, ToDo, Doing
<1>3. \A f \in Edits : f \in Editing(i)' => f \in Editing(i)
  BY <1>1 DEF Editing
<1>4. \A f \in Edits : TaskStays(f, l, i)
  BY <1>1 DEF TaskStays
<1>5. DateStays(i) /\ CardStays(l, i)
  BY DEF DateStays, CardStays
<1>6. ASSUME \A e \in Edits : x = <<e, l>> => task[x].issue # i
      PROVE  \A f \in Edits : Pending(f, l, i) => Pending(f, l, i)'
  BY <1>1, <1>6 DEF Pending
<1> QED
  BY <1>2, <1>3, <1>4, <1>5, <1>6

LEMMA RecordFailsMirrors ==
    ASSUME LinksInv, NEW l \in Links, NEW i \in Issues, Mirrors(l, i), NEW x \in DOMAIN task,
           RecordFails(x), <<l, i>> \notin doubtful'
    PROVE  Mirrors(l, i)'
<1>1. /\ EndTask(x) /\ doubtful' = doubtful \cup ({x[2]} \X {task[x].issue})
      /\ UNCHANGED <<boardLink, field, dates, item, card, edit>>
  BY DEF RecordFails, Doubt
<1>2. ASSUME NEW e \in Edits, x = <<e, l>> PROVE task[x].issue # i
  <2>1. x[2] = l
    BY <1>2
  <2> QED
    BY <1>1, <2>1
<1>3. WorkStays(l, i)
  BY <1>1, <1>2, TaskIsOver DEF WorkStays
<1>4. ItemStays(l, i)
  BY <1>1 DEF ItemStays
<1> QED
  BY <1>1, <1>3, <1>4, TaskIsOver, Frame

LEMMA RecordResultMirrors ==
    ASSUME LinksInv, NEW l \in Links, NEW i \in Issues, Mirrors(l, i), NEW x \in DOMAIN task,
           RecordResult(x)
    PROVE  Mirrors(l, i)'
<1> PICK e \in Edits, m \in Links : x = <<e, m>>
  BY DEF LinksInv
<1> PICK t : t = task[x]
  OBVIOUS
<1> PICK row : row = RowAfter(x, t)
  OBVIOUS
<1>1. t \in TaskRows /\ TaskFits(e, m)
  BY DEF LinksInv, BoardsTypeOK
<1>2. /\ t.at = "failed" \/ (t.node /\ t.id # None /\ t.lanes = {})
      /\ item' = IF m \in DOMAIN boardLink THEN Put(item, <<m, t.issue>>, row) ELSE item
      /\ EndTask(x) /\ UNCHANGED <<boardLink, field, dates, card, edit>>
  BY DEF RecordResult
<1>3. CASE l # m \/ i # t.issue
  <2>1. \A f \in Edits : x = <<f, l>> => t.issue # i
    BY <1>3
  <2>2. WorkStays(l, i)
    BY <1>2, <2>1, TaskIsOver DEF WorkStays
  <2>3. <<l, i>> # <<m, t.issue>>
    BY <1>3
  <2>4. ItemStays(l, i)
    BY <1>2, <2>3 DEF ItemStays, Put
  <2> QED
    BY <1>2, <2>2, <2>4, TaskIsOver, Frame
<1>4. CASE l = m /\ i = t.issue
  <2>1. e \in Editing(i)
    BY <1>4 DEF Editing
  <2>2. /\ \A f \in Edits, k \in Links, b \in Boards : Work(f, k, i, b)' => Work(f, k, i, b)
        /\ \A f \in Edits : f \in Editing(i)' => f \in Editing(i)
    BY <1>2, TaskIsOver
  <2>3. OneEdits(i)' /\ LastSaved(i)'
    BY <1>2, <2>2 DEF Mirrors, OneEdits, LastSaved, Editing
  <2>4. DOMAIN task' = DOMAIN task \ {x} /\ \A y \in DOMAIN task' : task'[y] = task[y]
    BY <1>2 DEF EndTask
  <2>5. Shows(l, i)'
    <3>1. ASSUME NEW f \in Edits, <<f, l>> \in DOMAIN task', task'[<<f, l>>].issue = i
          PROVE  FALSE
      <4>1. f \in Editing(i)
        BY <2>4, <3>1 DEF Editing
      <4>2. f = e
        BY <2>1, <4>1 DEF Mirrors, OneEdits
      <4> QED
        BY <1>4, <2>4, <3>1, <4>2
    <3> QED
      BY <3>1 DEF Shows
  <2>6. <<l, i>> \in DOMAIN item' => l \in DOMAIN boardLink
    BY <1>2, <1>4 DEF LinksInv, BoardsTypeOK
  <2>7. l \in DOMAIN boardLink => boardLink[l].board = t.board
    BY <1>1, <1>4 DEF TaskFits
  <2>8. OwnCard(l, i)'
    <3> SUFFICES ASSUME NEW f \in Edits, NEW k \in Links \ {l}, NEW b \in Boards,
                        Work(f, k, i, b)'
                 PROVE  /\ \A g \in Edits : ~Work(g, l, i, b)'
                        /\ <<l, i>> \in DOMAIN item' => boardLink'[l].board # b
      BY DEF OwnCard
    <3>1. \A g \in Edits : ~Work(g, l, i, b)
      BY <2>2 DEF Mirrors, OwnCard
    <3>2. Work(e, l, i, t.board)
      BY <1>4 DEF Work, Doing
    <3>3. b # t.board
      BY <3>1, <3>2
    <3> QED
      BY <1>2, <2>2, <2>6, <2>7, <3>1, <3>3
  <2>9. Settled(l, i)'
    <3> SUFFICES ASSUME <<l, i>> \in DOMAIN item', ~item'[<<l, i>>].failed,
                        NEW lane \in boardLink'[l].lanes
                 PROVE  /\ <<boardLink'[l].board, i>> \in DOMAIN card'
                        /\ card'[<<boardLink'[l].board, i>>][lane] = ShownDates(i)'
      BY DEF Settled
    <3>1. l \in DOMAIN boardLink /\ item'[<<l, i>>] = row
      BY <1>2, <1>4, <2>6 DEF Put
    <3>2. row.failed <=> t.at = "failed"
      BY <1>2, RowAfterFits
    <3>3. t.at = "mirror" /\ t.lanes = {}
      BY <1>1, <1>2, <3>1, <3>2 DEF TaskRows
    <3>4. lane \in boardLink[l].lanes \ t.lanes
      BY <1>2, <3>3
    <3>5. Shows(l, i)
      BY DEF Mirrors
    <3>6. CardOf(t) \in DOMAIN card /\ card[CardOf(t)][lane] = e
      BY <1>4, <3>1, <3>3, <3>4, <3>5 DEF Shows
    <3>7. CardOf(t) = <<boardLink[l].board, i>>
      BY <1>4, <2>7, <3>1 DEF CardOf
    <3>8. ShownDates(i)' = e
      BY <1>2, <2>1 DEF Mirrors, LastSaved, ShownDates
    <3> QED
      BY <1>2, <3>6, <3>7, <3>8
  <2> QED
    BY <2>3, <2>5, <2>8, <2>9 DEF Mirrors
<1> QED
  BY <1>3, <1>4

LEMMA StillMirrors ==
    ASSUME NEW l \in Links, NEW i \in Issues, Mirrors(l, i), UNCHANGED boardVars
    PROVE  Mirrors(l, i)'
<1> USE DEF boardVars
<1>1. OneEdits(i)' /\ LastSaved(i)' /\ Shows(l, i)'
  BY DEF Mirrors, OneEdits, LastSaved, Shows, Editing, CardOf
<1>2. OwnCard(l, i)'
  BY DEF Mirrors, OwnCard, Work, ToDo, Doing
<1>3. Settled(l, i)'
  BY DEF Mirrors, Settled, Pending, ShownDates
<1> QED
  BY <1>1, <1>2, <1>3 DEF Mirrors

LEMMA DatesInvStep ==
    ASSUME DatesInv, [AllNext]_everything
    PROVE  DatesInv'
<1>1. LinksInv /\ LinksInv'
  BY LinksInvStep DEF DatesInv
<1>2. doubtful \subseteq doubtful'
  BY DEF AllNext, BoardsNext, LinkSteps, DateSteps, MirrorSteps, everything, boardVars,
     CreateDateField, CreateLink, DeleteLink, InsertLink, CheckUnlink, PatchDates, SaveDates,
     FindLinks, Answer, SpawnMirror, ResolveNode, AddCard, PushLane, MirrorFails,
     RecordResult, RecordFails, Stop, Doubt
<1>3. SUFFICES ASSUME NEW l \in Links, NEW i \in Issues, <<l, i>> \notin doubtful'
               PROVE  Mirrors(l, i)'
  BY <1>1 DEF DatesInv
<1>4. Mirrors(l, i)
  BY <1>2, <1>3 DEF DatesInv
<1>5. CASE UNCHANGED boardVars
  BY <1>4, <1>5, StillMirrors
<1>6. ASSUME NEW e \in Edits, LinkSteps(e) \/ DateSteps(e) PROVE Mirrors(l, i)'
  BY <1>1, <1>3, <1>4, <1>6, QuietSteps, SaveDatesMirrors, FindLinksMirrors, AnswerMirrors,
     SpawnMirrors DEF LinkSteps, DateSteps
<1>7. ASSUME NEW x \in DOMAIN task, MirrorSteps(x) PROVE Mirrors(l, i)'
  BY <1>1, <1>3, <1>4, <1>7, ApproachMirrors, PushMirrors, RecordResultMirrors,
     RecordFailsMirrors DEF MirrorSteps
<1>8. CASE Stop
  BY <1>1, <1>3, <1>4, <1>8, StopMirrors
<1> QED
  BY <1>5, <1>6, <1>7, <1>8 DEF AllNext, BoardsNext, everything

LEMMA DatesInvInit ==
    ASSUME LinksInv, NEW bs, NEW fs, InitBoards(bs, fs)
    PROVE  DatesInv
<1>1. /\ DOMAIN item = {} /\ DOMAIN task = {}
      /\ edit = [e \in Edits |-> [at |-> "idle", todo |-> <<>>]]
  BY DEF InitBoards
<1>2. \A e \in Edits : edit[e].at = "idle"
  BY <1>1
<1>3. ASSUME NEW l \in Links, NEW i \in Issues PROVE Mirrors(l, i)
  <2>1. Editing(i) = {}
    BY <1>1, <1>2 DEF Editing
  <2>2. \A b : \A e \in Edits, k \in Links : ~Work(e, k, i, b)
    BY <1>1, <1>2 DEF Work, ToDo, Doing
  <2> QED
    BY <1>1, <2>1, <2>2 DEF Mirrors, OneEdits, LastSaved, OwnCard, Shows, Settled
<1> QED
  BY <1>3 DEF DatesInv

\* As long as nothing about an issue and a link is in doubt, at most one request is about
\* the issue's dates, the last that stored them, no other link takes it to the same board,
\* and a mirror has left its dates in the fields it is through with: issue_dates.rs and
\* store/board_links.rs.
THEOREM DatesHold == BoardSpec => []DatesInv
<1>1. ASSUME \E names, ts, ms, ps, ls, gs, bs, fs :
                InitRows(names, ts, ms, ps) /\ InitMilestones(ls, gs) /\ InitBoards(bs, fs)
      PROVE  DatesInv
  BY <1>1, InitInv, LinksInvInit, DatesInvInit
<1>2. DatesInv /\ [AllNext]_everything => DatesInv'
  BY DatesInvStep
<1> QED
  BY <1>1, <1>2, PTL DEF BoardSpec

\* A board whose item tells of a mirror and of no failure shows, in the fields that are
\* chosen, the dates the issue has: record_board_item_result tells the truth about
\* updateProjectV2ItemFieldValue.
THEOREM DatesAreShown == BoardSpec => []BoardsShowDates
<1>1. DatesInv => BoardsShowDates
  <2> SUFFICES ASSUME DatesInv, NEW x \in DOMAIN item \ doubtful,
                      item[x].synced, ~item[x].failed, Editing(x[2]) = {},
                      NEW lane \in boardLink[x[1]].lanes
               PROVE  card[<<boardLink[x[1]].board, x[2]>>][lane] = ShownDates(x[2])
    BY DEF BoardsShowDates
  <2>1. PICK l \in Links, i \in Issues : x = <<l, i>>
    BY DEF DatesInv, LinksInv, BoardsTypeOK, Locals
  <2>2. Mirrors(l, i)
    BY <2>1 DEF DatesInv
  <2>3. \A e \in Edits : ~Pending(e, l, i)
    BY <2>1, WorkersEdit
  <2> QED
    BY <2>1, <2>2, <2>3 DEF Mirrors, Settled
<1> QED
  BY <1>1, DatesHold, PTL

-----------------------------------------------------------------------------
(* Lists that are shown *)

\* By k first, by a of those with the same, and by b of those with the same a.
Less(k, a, b, x, y) ==
    k[x] < k[y] \/ (k[x] = k[y] /\ (a[x] < a[y] \/ (a[x] = a[y] /\ b[x] < b[y])))

LEMMA ListingExists ==
    ASSUME NEW S, IsFiniteSet(S), NEW k \in [S -> Int], NEW a \in [S -> Int], NEW b \in [S -> Int]
    PROVE  \E s \in SetToSeqs(S) :
              \A i, j \in DOMAIN s : Less(k, a, b, s[i], s[j]) => i < j
<1> DEFINE W == {x \in S \X S : Less(k, a, b, x[1], x[2])}
<1>1. \A x, y \in S : <<x, y>> \in W <=> Less(k, a, b, x, y)
  OBVIOUS
<1>2. IsWeakOrder(W, S)
  <2> HIDE DEF W
  <2>1. \A x \in S : k[x] \in Int /\ a[x] \in Int /\ b[x] \in Int
    OBVIOUS
  <2>2. \A x \in S : ~Less(k, a, b, x, x)
    BY <2>1 DEF Less
  <2>3. \A x, y, z \in S : Less(k, a, b, x, y) /\ Less(k, a, b, y, z) => Less(k, a, b, x, z)
    BY <2>1 DEF Less
  <2>4. \A x, y, z \in S : Less(k, a, b, x, z) => Less(k, a, b, x, y) \/ Less(k, a, b, y, z)
    BY <2>1 DEF Less
  <2> QED
    BY <1>1, <2>2, <2>3, <2>4 DEF IsWeakOrder
<1> HIDE DEF W
<1>3. PICK s : ListsAll(S, s) /\ \A i, j \in 1..Cardinality(S) : <<s[i], s[j]>> \in W => i < j
  BY <1>2, WeakListExists
<1>4. s \in SetToSeqs(S) /\ DOMAIN s = 1..Cardinality(S) /\ \A i \in DOMAIN s : s[i] \in S
  BY <1>3 DEF ListsAll, SetToSeqs
<1> QED
  BY <1>1, <1>3, <1>4

\* A list of a set: every element once.
IsListing(S, s) ==
    /\ s \in Seq(S) /\ Len(s) = Cardinality(S) /\ Cardinality(S) \in Nat
    /\ \A i, j \in 1..Len(s) : i # j => s[i] # s[j]
    /\ \A x \in S : \E i \in 1..Len(s) : s[i] = x

LEMMA ListingHasAll ==
    ASSUME NEW S, IsFiniteSet(S), NEW s \in SetToSeqs(S)
    PROVE  IsListing(S, s)
<1>1. ListsAll(S, s)
  BY DEF ListsAll, SetToSeqs
<1>2. Cardinality(S) \in Nat
  BY FS_CardinalityType
<1>3. s \in Seq(S) /\ Len(s) = Cardinality(S)
  BY <1>1, <1>2 DEF ListsAll
<1> QED
  BY <1>1, <1>2, <1>3, ListHasAll DEF ListsAll, IsListing

\* Issues in the order of a page.
LEMMA IssuesAreListed ==
    ASSUME NEW S \in SUBSET Issues, NEW sort
    PROVE  IsListing(S, SortIssues(S, sort)) /\ IsFiniteSet(S)
<1> DEFINE k == [i \in S |-> CASE sort = "updated_asc" -> Facts[i].updated
                              [] sort = "title_asc"   -> Facts[i].title
                              [] OTHER                -> -Facts[i].updated]
           a == [i \in S |-> Facts[i].added]
           b == [i \in S |-> 0]
<1>1. IsFiniteSet(S)
  BY PagesAssumption, FS_Subset
<1>2. k \in [S -> Int] /\ a \in [S -> Int] /\ b \in [S -> Int]
  <2>1. \A i \in S : Facts[i].updated \in Int /\ Facts[i].title \in Int /\ Facts[i].added \in Int
    BY PagesAssumption
  <2>2. \A i \in S : k[i] \in Int
    BY <2>1
  <2> QED
    BY <2>1, <2>2
<1>3. PICK s \in SetToSeqs(S) : \A i, j \in DOMAIN s : Less(k, a, b, s[i], s[j]) => i < j
  <2> HIDE DEF k, a, b
  <2> QED
    BY <1>1, <1>2, ListingExists
<1>4. \A i \in DOMAIN s : s[i] \in S
  BY <1>3 DEF SetToSeqs
<1> DEFINE Before(i, j) == \/ k[i] < k[j]
                           \/ k[i] = k[j] /\ Facts[i].added < Facts[j].added
<1>5. \A i, j \in DOMAIN s : Before(s[i], s[j]) => i < j
  BY <1>3, <1>4 DEF Less
<1>6. SortIssues(S, sort) \in SetToSeqs(S)
  BY <1>4, <1>5 DEF SortIssues, Sorted
<1> QED
  BY <1>1, <1>6, ListingHasAll

-----------------------------------------------------------------------------
(* What is found, and the counts on tabs *)

LEMMA FoundAreLocal ==
    ASSUME BoardsTypeOK, NEW p, NEW qr
    PROVE  /\ Found(p, qr) \subseteq Locals /\ Found(p, qr) \in SUBSET Issues
           /\ IsFiniteSet(Found(p, qr))
<1>1. Members(p) \subseteq Locals
  BY DEF BoardsTypeOK, MilestonesTypeOK, TypeOK, Members
<1>2. {x[2] : x \in {y \in placed : y[1] = qr.view}} \subseteq Locals
  BY DEF BoardsTypeOK, MilestonesTypeOK, TypeOK
<1>3. Found(p, qr) \subseteq Locals
  BY <1>1, <1>2 DEF Found, ApplyFilter, Listed
<1>4. Locals \subseteq Issues
  BY DEF Locals
<1> QED
  BY <1>3, <1>4, PagesAssumption, FS_Subset

\* A clause without blanks around its value matches the same in a URL and in a view.
LEMMA SameMatches ==
    ASSUME NEW p, NEW i, NEW c, {"dim", "value"} \subseteq DOMAIN c,
           c.dim = "tag" => "key" \in DOMAIN c, Trim(c.value) = c.value
    PROVE  Matches(p, i, [c EXCEPT !.value = Trim(@)]) <=> Matches(p, i, c)
<1>1. PICK d : d = [c EXCEPT !.value = Trim(@)]
  OBVIOUS
<1>2. d.dim = c.dim /\ d.value = c.value /\ (c.dim = "tag" => d.key = c.key)
  BY <1>1
<1>3. Matches(p, i, d) <=> Matches(p, i, c)
  BY <1>2 DEF Matches
<1> QED
  BY <1>1, <1>3

OnTheTab(v) == {x[2] : x \in {y \in placed : y[1] = v}}

LEMMA BadgeIsOfPage ==
    ASSUME NEW p, NEW v \in Views, Tidy(v)
    PROVE  Found(p, OnTab(v)) = ApplyFilter(p, Bodies[v].filter, OnTheTab(v))
<1>1. PICK raw : raw = Bodies[v].filter
  OBVIOUS
<1>2. PICK parsed : parsed = ParseFilter(raw)
  OBVIOUS
<1>3. OnTab(v).view = v /\ OnTab(v).state = None /\ OnTab(v).needle = None /\ OnTab(v).filter = raw
  BY <1>1 DEF OnTab
<1>4. v # None
  BY PagesAssumption
<1>5. Found(p, OnTab(v)) = ApplyFilter(p, parsed, OnTheTab(v))
  BY <1>2, <1>3, <1>4 DEF Found, Listed, ApplyFilter, OnTheTab
<1>6. DOMAIN parsed = DOMAIN raw
  BY <1>2 DEF ParseFilter
<1>7. ASSUME NEW k \in DOMAIN raw, NEW i
      PROVE  Matches(p, i, parsed[k]) <=> Matches(p, i, raw[k])
  <2>1. parsed[k] = [raw[k] EXCEPT !.value = Trim(@)]
    BY <1>2 DEF ParseFilter
  <2>2. /\ {"dim", "value"} \subseteq DOMAIN raw[k]
        /\ raw[k].dim = "tag" => "key" \in DOMAIN raw[k]
    BY <1>1, PagesAssumption
  <2>3. Trim(raw[k].value) = raw[k].value
    BY <1>1 DEF Tidy
  <2> QED
    BY <2>1, <2>2, <2>3, SameMatches
<1> QED
  BY <1>1, <1>5, <1>6, <1>7 DEF ApplyFilter

LEMMA ViewsAreListed ==
    ASSUME BoardsTypeOK, IsFiniteSet(DOMAIN tab), NEW p
    PROVE  IsListing({[view |-> v, counts |-> Badge(p, v)] : v \in ViewsOf(p)}, ListViews(p))
<1>1. PICK badge : badge = [v \in ViewsOf(p) |-> [view |-> v, counts |-> Badge(p, v)]]
  OBVIOUS
<1> DEFINE S == {[view |-> v, counts |-> Badge(p, v)] : v \in ViewsOf(p)}
           k == [x \in S |-> tab[x.view].position]
           z == [x \in S |-> 0]
<1>2. IsFiniteSet(S)
  <2>1. IsFiniteSet(ViewsOf(p))
    BY FS_Subset DEF ViewsOf
  <2>2. S = {badge[v] : v \in ViewsOf(p)}
    BY <1>1
  <2> HIDE DEF S
  <2>3. IsFiniteSet({badge[v] : v \in ViewsOf(p)})
    <3>1. PICK T : T = ViewsOf(p)
      OBVIOUS
    <3>2. IsFiniteSet({badge[v] : v \in T})
      BY <2>1, <3>1, ImageIsFinite
    <3> QED
      BY <3>1, <3>2
  <2> QED
    BY <2>2, <2>3
<1>3. k \in [S -> Int] /\ z \in [S -> Int]
  <2>1. \A v \in ViewsOf(p) : tab[v].position \in Nat
    BY DEF BoardsTypeOK, MilestonesTypeOK, TypeOK, ViewsOf, ViewRows
  <2>2. \A x \in S : x.view \in ViewsOf(p)
    OBVIOUS
  <2>3. \A x \in S : tab[x.view].position \in Int
    BY <2>1, <2>2
  <2> HIDE DEF S
  <2> QED
    BY <2>3
<1>4. PICK s \in SetToSeqs(S) : \A i, j \in DOMAIN s : Less(k, z, z, s[i], s[j]) => i < j
  <2> HIDE DEF S, k, z
  <2> QED
    BY <1>2, <1>3, ListingExists
<1>5. ListViews(p) = Sorted(S, LAMBDA a, b : tab[a.view].position < tab[b.view].position)
  BY DEF ListViews
<1>6. \A i \in DOMAIN s : s[i] \in S
  BY <1>4 DEF SetToSeqs
<1>7. \A i, j \in DOMAIN s : tab[s[i].view].position < tab[s[j].view].position => i < j
  <2> HIDE DEF S
  <2> QED
    BY <1>4, <1>6 DEF Less
<1>8. ListViews(p) \in SetToSeqs(S)
  <2> HIDE DEF S
  <2> QED
    BY <1>4, <1>5, <1>7 DEF Sorted
<1> HIDE DEF S
<1>9. IsListing(S, ListViews(p))
  BY <1>2, <1>8, ListingHasAll
<1> QED
  BY <1>9 DEF S

LEMMA BadgesDoAgree ==
    ASSUME BoardsTypeOK, IsFiniteSet(DOMAIN tab)
    PROVE  BadgesAgree
<1> SUFFICES ASSUME NEW p \in DOMAIN project, NEW k \in DOMAIN ListViews(p),
                    Tidy(ListViews(p)[k].view)
             PROVE  /\ ListViews(p)[k].counts.total =
                          ListIssues(p, OnTab(ListViews(p)[k].view)).total
                    /\ ListViews(p)[k].counts.open =
                          Cardinality({i \in Found(p, OnTab(ListViews(p)[k].view)) : issue[i] = "open"})
  BY DEF BadgesAgree
<1> DEFINE S == {[view |-> v, counts |-> Badge(p, v)] : v \in ViewsOf(p)}
<1>1. ListViews(p)[k] \in S
  <2>1. PICK s : s = ListViews(p) /\ IsListing(S, s)
    BY ViewsAreListed
  <2> HIDE DEF S
  <2>2. s \in Seq(S) /\ k \in DOMAIN s
    BY <2>1 DEF IsListing
  <2>3. s[k] \in S
    BY <2>2
  <2> QED
    BY <2>1, <2>3
<1>2. PICK v \in ViewsOf(p) : ListViews(p)[k] = [view |-> v, counts |-> Badge(p, v)]
  BY <1>1
<1>3. v \in Views /\ Tidy(v)
  BY <1>2 DEF BoardsTypeOK, MilestonesTypeOK, TypeOK, ViewsOf
<1>4. Found(p, OnTab(v)) = ApplyFilter(p, Bodies[v].filter, OnTheTab(v))
  BY <1>3, BadgeIsOfPage
<1>5. /\ Badge(p, v).total = Cardinality(Found(p, OnTab(v)))
      /\ Badge(p, v).open = Cardinality({i \in Found(p, OnTab(v)) : issue[i] = "open"})
  BY <1>4 DEF Badge, OnTheTab
<1>6. ListIssues(p, OnTab(v)).total = Cardinality(Found(p, OnTab(v)))
  BY DEF ListIssues
<1> QED
  BY <1>2, <1>5, <1>6

-----------------------------------------------------------------------------
(* Buckets *)

Groups(g) == g.dim \in {"status", "tag"}
Known(S) == S \in SUBSET Issues /\ \A i \in S : issue[i] \in {"open", "closed"}
KeysOf(S, g) == UNION {BucketKeys(i, g) : i \in S}
AllBuckets(S, g) == {Bucket(S, g, k) : k \in KeysOf(S, g)}

LEMMA KeysAre ==
    ASSUME NEW S, Known(S), NEW g, Groups(g)
    PROVE  /\ IsFiniteSet(KeysOf(S, g))
           /\ g.dim = "status" => KeysOf(S, g) \subseteq {"open", "closed"}
           /\ g.dim = "tag" => KeysOf(S, g) \subseteq Int \cup {None}
           /\ \A i \in S : BucketKeys(i, g) \subseteq KeysOf(S, g) /\ BucketKeys(i, g) # {}
<1>1. PICK value : value = [l \in TagLinks |-> l.value]
  OBVIOUS
<1> DEFINE V == {value[l] : l \in TagLinks}
<1>2. IsFiniteSet(V)
  <2>1. IsFiniteSet(TagLinks)
    BY PagesAssumption
  <2> QED
    BY <2>1, ImageIsFinite
<1>3. V \subseteq Int
  BY <1>1, PagesAssumption
<1>4. g.dim = "status" => KeysOf(S, g) \subseteq {"open", "closed"}
  BY DEF Known, KeysOf, BucketKeys
<1>5. g.dim = "tag" => KeysOf(S, g) \subseteq V \cup {None}
  BY <1>1 DEF KeysOf, BucketKeys
<1>6. IsFiniteSet({"open", "closed"} \cup V \cup {None})
  <2> HIDE DEF V
  <2>1. IsFiniteSet({"open"}) /\ IsFiniteSet({"closed"}) /\ IsFiniteSet({None})
    BY FS_Singleton
  <2>2. {"open", "closed"} = {"open"} \cup {"closed"}
    OBVIOUS
  <2>3. IsFiniteSet({"open", "closed"})
    BY <2>1, <2>2, FS_Union
  <2> QED
    BY <1>2, <2>1, <2>3, FS_Union
<1>7. IsFiniteSet(KeysOf(S, g))
  <2>1. KeysOf(S, g) \subseteq {"open", "closed"} \cup V \cup {None}
    BY <1>4, <1>5 DEF Groups
  <2> HIDE DEF V
  <2> QED
    BY <1>6, <2>1, FS_Subset
<1>8. \A i \in S : BucketKeys(i, g) \subseteq KeysOf(S, g) /\ BucketKeys(i, g) # {}
  BY DEF KeysOf, BucketKeys
<1> QED
  BY <1>3, <1>4, <1>5, <1>7, <1>8

AllIn(S) == TagLinks \cup {[issue |-> i] : i \in S}

LEMMA InBucketIs ==
    ASSUME NEW S, Known(S), NEW g, NEW k
    PROVE  /\ IsFiniteSet(AllIn(S)) /\ InBucket(S, g, k) \subseteq AllIn(S)
           /\ IsFiniteSet(InBucket(S, g, k))
           /\ \A x \in InBucket(S, g, k) : x.issue \in S
<1>1. PICK f : f = [i \in S |-> [issue |-> i]]
  OBVIOUS
<1>2. IsFiniteSet({f[i] : i \in S})
  <2>1. IsFiniteSet(S)
    BY PagesAssumption, FS_Subset DEF Known
  <2> QED
    BY <2>1, ImageIsFinite
<1>3. {f[i] : i \in S} = {[issue |-> i] : i \in S}
  BY <1>1
<1>4. IsFiniteSet(AllIn(S))
  <2>1. PICK E : E = {[issue |-> i] : i \in S} /\ IsFiniteSet(E)
    BY <1>2, <1>3
  <2>2. IsFiniteSet(TagLinks \cup E)
    BY <2>1, PagesAssumption, FS_Union
  <2> QED
    BY <2>1, <2>2 DEF AllIn
<1>5. InBucket(S, g, k) \subseteq AllIn(S)
  BY DEF InBucket, AllIn
<1>6. \A x \in InBucket(S, g, k) : x.issue \in S
  BY DEF InBucket
<1> QED
  BY <1>4, <1>5, <1>6, FS_Subset

LEMMA BucketSize ==
    ASSUME NEW S, Known(S), NEW g, NEW k
    PROVE  /\ Size(Bucket(S, g, k)) = Cardinality(InBucket(S, g, k))
           /\ Size(Bucket(S, g, k)) \in Nat /\ Bucket(S, g, k).key = k
<1>1. PICK I : I = InBucket(S, g, k)
  OBVIOUS
<1>2. IsFiniteSet(I) /\ \A x \in I : issue[x.issue] \in {"open", "closed"}
  BY <1>1, InBucketIs DEF Known
<1>3. PICK o : o = {x \in I : issue[x.issue] = "open"}
  OBVIOUS
<1>4. PICK c : c = {x \in I : issue[x.issue] = "closed"}
  OBVIOUS
<1>5. IsFiniteSet(o) /\ IsFiniteSet(c) /\ o \cup c = I /\ o \cap c = {}
  BY <1>2, <1>3, <1>4, FS_Subset
<1>6. Cardinality(I) = Cardinality(o) + Cardinality(c)
  <2>1. Cardinality(o \cup c) = Cardinality(o) + Cardinality(c) - Cardinality(o \cap c)
    BY <1>5, FS_Union
  <2>2. Cardinality(o \cap c) = 0 /\ Cardinality(o) \in Nat /\ Cardinality(c) \in Nat
    BY <1>5, FS_EmptySet, FS_CardinalityType
  <2> QED
    BY <1>5, <2>1, <2>2
<1>7. Bucket(S, g, k) = [key |-> k, open |-> Cardinality(o), closed |-> Cardinality(c)]
  BY <1>1, <1>3, <1>4 DEF Bucket
<1>8. Cardinality(o) \in Nat /\ Cardinality(c) \in Nat
  BY <1>5, FS_CardinalityType
<1> QED
  BY <1>1, <1>6, <1>7, <1>8 DEF Size

LEMMA BucketsAreListed ==
    ASSUME NEW S, Known(S), NEW g, Groups(g)
    PROVE  IsListing(AllBuckets(S, g), BuildBuckets(S, g))
<1> DEFINE B == AllBuckets(S, g)
           first == [b \in B |-> IF g.dim = "status" THEN IF b.key = "open" THEN 0 ELSE 1
                                 ELSE IF b.key = None THEN 1 ELSE 0]
           fill  == [b \in B |-> IF g.dim = "status" \/ b.key = None THEN 0 ELSE -Size(b)]
           by    == [b \in B |-> IF g.dim = "status" \/ b.key = None THEN 0 ELSE b.key]
<1>1. IsFiniteSet(B)
  <2>1. PICK bucket : bucket = [k \in KeysOf(S, g) |-> Bucket(S, g, k)]
    OBVIOUS
  <2>2. PICK K : K = KeysOf(S, g)
    OBVIOUS
  <2>3. IsFiniteSet({bucket[k] : k \in K})
    BY <2>2, KeysAre, ImageIsFinite
  <2>4. B = {bucket[k] : k \in K}
    BY <2>1, <2>2 DEF AllBuckets
  <2> QED
    BY <2>3, <2>4
<1>2. \A b \in B : /\ Size(b) \in Nat
                   /\ g.dim = "status" => b.key \in {"open", "closed"}
                   /\ g.dim = "tag" => b.key \in Int \cup {None}
  <2>1. \A k \in KeysOf(S, g) : Size(Bucket(S, g, k)) \in Nat /\ Bucket(S, g, k).key = k
    BY BucketSize
  <2>2. /\ g.dim = "status" => KeysOf(S, g) \subseteq {"open", "closed"}
        /\ g.dim = "tag" => KeysOf(S, g) \subseteq Int \cup {None}
    BY KeysAre
  <2> QED
    BY <2>1, <2>2 DEF AllBuckets
<1> HIDE DEF B
<1>3. first \in [B -> Int] /\ fill \in [B -> Int] /\ by \in [B -> Int]
  <2>1. g.dim # "status" => g.dim = "tag"
    BY DEF Groups
  <2>2. \A b \in B : first[b] \in Int /\ fill[b] \in Int
    BY <1>2
  <2>3. \A b \in B : by[b] \in Int
    BY <1>2, <2>1
  <2> QED
    BY <2>2, <2>3
<1>4. \A x, y \in B : BucketBefore(g, x, y) => Less(first, fill, by, x, y)
  <2> SUFFICES ASSUME NEW x \in B, NEW y \in B, BucketBefore(g, x, y)
               PROVE  Less(first, fill, by, x, y)
    OBVIOUS
  <2>1. CASE g.dim = "status"
    BY <2>1 DEF BucketBefore, Less
  <2>2. CASE g.dim = "tag" /\ y.key = None
    BY <2>2 DEF BucketBefore, Less
  <2>3. CASE g.dim = "tag" /\ y.key # None
    <3>1. Size(x) \in Nat /\ Size(y) \in Nat
      BY <1>2
    <3>2. x.key # None /\ (Size(x) > Size(y) \/ (Size(x) = Size(y) /\ x.key < y.key))
      BY <2>3 DEF BucketBefore
    <3>3. /\ first[x] = 0 /\ first[y] = 0 /\ fill[x] = -Size(x) /\ fill[y] = -Size(y)
          /\ by[x] = x.key /\ by[y] = y.key
      BY <2>3, <3>2
    <3> HIDE DEF first, fill, by
    <3> QED
      BY <3>1, <3>2, <3>3 DEF Less
  <2> QED
    BY <2>1, <2>2, <2>3 DEF BucketBefore
<1>5. PICK s \in SetToSeqs(B) : \A i, j \in DOMAIN s : Less(first, fill, by, s[i], s[j]) => i < j
  <2> HIDE DEF first, fill, by
  <2> QED
    BY <1>1, <1>3, ListingExists
<1>6. \A i \in DOMAIN s : s[i] \in B
  BY <1>5 DEF SetToSeqs
<1>7. \A i, j \in DOMAIN s : BucketBefore(g, s[i], s[j]) => i < j
  <2> HIDE DEF first, fill, by
  <2> QED
    BY <1>4, <1>5, <1>6
<1>8. BuildBuckets(S, g) = Sorted(B, LAMBDA a, b : BucketBefore(g, a, b))
  BY DEF BuildBuckets, B, AllBuckets, KeysOf
<1>9. BuildBuckets(S, g) \in SetToSeqs(B)
  BY <1>5, <1>7, <1>8 DEF Sorted
<1>10. IsListing(B, BuildBuckets(S, g))
  BY <1>1, <1>9, ListingHasAll
<1> QED
  BY <1>10 DEF B

LEMMA AddUpIs == ASSUME NEW f PROVE AddUp(f) = Total(f, DOMAIN f)
BY DEF AddUp, Total

\* What buckets of different keys count is different.
LEMMA OneBucketEach ==
    ASSUME NEW S, Known(S), NEW g, Groups(g), NEW k \in KeysOf(S, g), NEW n \in KeysOf(S, g),
           NEW x \in InBucket(S, g, k), x \in InBucket(S, g, n)
    PROVE  k = n
<1>1. CASE g.dim = "status"
  <2>1. k \in {issue[x.issue]} /\ n \in {issue[x.issue]}
    BY <1>1 DEF InBucket, BucketKeys
  <2> QED
    BY <2>1
<1>2. CASE g.dim = "tag"
  <2>1. \A i \in S : None \in BucketKeys(i, g) => ~\E t \in TagLinks : t.issue = i /\ t.key = g.key
    <3>1. SUFFICES ASSUME NEW i \in S, None \in BucketKeys(i, g),
                          NEW t \in TagLinks, t.issue = i, t.key = g.key
                   PROVE  FALSE
      OBVIOUS
    <3>2. PICK values : values = {l.value : l \in {u \in TagLinks : u.issue = i /\ u.key = g.key}}
      OBVIOUS
    <3>3. t.value \in values /\ values \subseteq Int
      BY <3>1, <3>2, PagesAssumption
    <3>4. BucketKeys(i, g) = values
      BY <1>2, <3>2, <3>3 DEF BucketKeys
    <3> QED
      BY <3>1, <3>3, <3>4, PagesAssumption
  <2>2. ASSUME NEW a \in KeysOf(S, g), NEW b \in KeysOf(S, g),
               x \in InBucket(S, g, a), x \in InBucket(S, g, b), a = None, b # None
        PROVE  FALSE
    <3>1. x.issue \in S /\ None \in BucketKeys(x.issue, g)
      BY <1>2, <2>2 DEF InBucket
    <3>2. x \in TagLinks /\ x.key = g.key
      BY <1>2, <2>2 DEF InBucket
    <3> QED
      BY <2>1, <3>1, <3>2
  <2>3. CASE k # None /\ n # None
    BY <1>2, <2>3 DEF InBucket
  <2> QED
    BY <2>2, <2>3
<1> QED
  BY <1>1, <1>2 DEF Groups

\* Every issue counts: once by status, and at least once by a tag's key.
LEMMA BucketsCount ==
    ASSUME NEW S, Known(S), NEW g, Groups(g),
           NEW A, A = UNION {InBucket(S, g, k) : k \in KeysOf(S, g)}
    PROVE  /\ IsFiniteSet(A) /\ Cardinality(A) \in Nat
           /\ Cardinality(A) >= Cardinality(S)
           /\ g.dim = "status" => Cardinality(A) = Cardinality(S)
<1>1. IsFiniteSet(A)
  <2>1. IsFiniteSet(AllIn(S)) /\ A \subseteq AllIn(S)
    <3>1. \A k : IsFiniteSet(AllIn(S)) /\ InBucket(S, g, k) \subseteq AllIn(S)
      BY InBucketIs
    <3> QED
      BY <3>1
  <2> QED
    BY <2>1, FS_Subset
<1>2. PICK f : f = [x \in A |-> x.issue]
  OBVIOUS
<1>3. ASSUME NEW i \in S PROVE \E x \in A : f[x] = i
  <2>1. PICK k \in KeysOf(S, g) : k \in BucketKeys(i, g)
    BY KeysAre
  <2>2. \E x \in InBucket(S, g, k) : x.issue = i
    <3>1. CASE g.dim = "status" \/ k = None
      <4>1. [issue |-> i] \in InBucket(S, g, k)
        BY <2>1, <3>1 DEF InBucket
      <4> QED
        BY <4>1
    <3>2. CASE g.dim # "status" /\ k # None
      <4>1. \E l \in TagLinks : l.issue = i /\ l.key = g.key /\ l.value = k
        BY <2>1, <3>2 DEF BucketKeys
      <4> QED
        BY <3>2, <4>1 DEF InBucket
    <3> QED
      BY <3>1, <3>2
  <2> QED
    BY <1>2, <2>2
<1>4. \A x \in A : f[x] \in S
  <2>1. \A k : \A x \in InBucket(S, g, k) : x.issue \in S
    BY InBucketIs
  <2> QED
    BY <1>2, <2>1
<1>5. f \in Surjection(A, S)
  BY <1>2, <1>3, <1>4 DEF Surjection
<1>6. g.dim = "status" => f \in Injection(A, S)
  <2> SUFFICES ASSUME g.dim = "status" PROVE f \in Injection(A, S)
    OBVIOUS
  <2>1. \A k : \A x \in InBucket(S, g, k) : x = [issue |-> x.issue]
    BY DEF InBucket
  <2>2. \A x \in A : x = [issue |-> f[x]]
    BY <1>2, <2>1
  <2>3. \A x, y \in A : f[x] = f[y] => x = y
    BY <2>2
  <2> QED
    BY <1>2, <1>4, <2>3 DEF Injection, IsInjective
<1>7. /\ Cardinality(S) <= Cardinality(A)
      /\ Cardinality(S) = Cardinality(A) <=> f \in Injection(A, S)
  BY <1>1, <1>5, FS_Surjection
<1>8. Cardinality(A) \in Nat /\ Cardinality(S) \in Nat
  <2>1. IsFiniteSet(S)
    BY PagesAssumption, FS_Subset DEF Known
  <2> QED
    BY <1>1, <2>1, FS_CardinalityType
<1> QED
  BY <1>1, <1>6, <1>7, <1>8

Sizes(l) == [k \in DOMAIN l |-> Size(l[k])]

LEMMA BucketsAddUp ==
    ASSUME NEW S, Known(S), NEW g, Groups(g), NEW l, l = BuildBuckets(S, g)
    PROVE  /\ AddUp(Sizes(l)) >= Cardinality(S)
           /\ g.dim = "status" => AddUp(Sizes(l)) = Cardinality(S)
<1>1. PICK A : A = UNION {InBucket(S, g, k) : k \in KeysOf(S, g)}
  OBVIOUS
<1>2. IsListing(AllBuckets(S, g), l)
  BY BucketsAreListed
<1>3. PICK D : D = 1..Len(l)
  OBVIOUS
<1>4. DOMAIN l = D /\ IsFiniteSet(D)
  BY <1>2, <1>3, FS_Interval DEF IsListing
<1>5. ASSUME NEW j \in D
      PROVE  /\ l[j] = Bucket(S, g, l[j].key) /\ l[j].key \in KeysOf(S, g)
             /\ Size(l[j]) = Cardinality(InBucket(S, g, l[j].key)) /\ Size(l[j]) \in Nat
  <2>1. l[j] \in AllBuckets(S, g)
    BY <1>2, <1>4 DEF IsListing
  <2>2. PICK k \in KeysOf(S, g) : l[j] = Bucket(S, g, k)
    BY <2>1 DEF AllBuckets
  <2>3. l[j].key = k
    BY <2>2, BucketSize
  <2> QED
    BY <2>2, <2>3, BucketSize
<1>6. ASSUME NEW x \in A PROVE \E j \in D : x \in InBucket(S, g, l[j].key)
  <2>1. PICK k \in KeysOf(S, g) : x \in InBucket(S, g, k)
    BY <1>1
  <2>2. Bucket(S, g, k) \in AllBuckets(S, g) /\ Bucket(S, g, k).key = k
    BY BucketSize DEF AllBuckets
  <2>3. PICK j \in D : l[j] = Bucket(S, g, k)
    BY <1>2, <1>3, <2>2 DEF IsListing
  <2> QED
    BY <2>1, <2>2, <2>3
<1>7. ASSUME NEW x, NEW i \in D, NEW j \in D,
             x \in InBucket(S, g, l[i].key), x \in InBucket(S, g, l[j].key)
      PROVE  i = j
  <2>1. l[i].key = l[j].key
    BY <1>5, <1>7, OneBucketEach
  <2>2. l[i] = l[j]
    BY <1>5, <2>1
  <2> QED
    BY <1>2, <1>3, <2>2 DEF IsListing
<1>8. PICK at : at = [x \in A |-> CHOOSE j \in D : x \in InBucket(S, g, l[j].key)]
  OBVIOUS
<1>9. \A x \in A : at[x] \in D /\ x \in InBucket(S, g, l[at[x]].key)
  BY <1>6, <1>8
<1>10. PICK c : c = Sizes(l)
  OBVIOUS
<1>11. c \in [D -> Int] /\ DOMAIN c = D /\ \A j \in D : c[j] = Size(l[j])
  <2>1. \A j \in D : Size(l[j]) \in Int
    BY <1>5
  <2> QED
    BY <1>4, <1>10, <2>1 DEF Sizes
<1>12. CountsBy(c, D, A, at)
  <2>1. ASSUME NEW j \in D PROVE c[j] = Cardinality({x \in A : at[x] = j})
    <3>1. {x \in A : at[x] = j} = InBucket(S, g, l[j].key)
      <4>1. InBucket(S, g, l[j].key) \subseteq A
        BY <1>1, <1>5
      <4>2. \A x \in A : x \in InBucket(S, g, l[j].key) => at[x] = j
        BY <1>7, <1>9
      <4> QED
        BY <1>9, <4>1, <4>2
    <3> QED
      BY <1>5, <1>11, <3>1
  <2> QED
    BY <2>1 DEF CountsBy
<1>13. Total(c, D) = Cardinality({x \in A : at[x] \in D})
  <2>1. IsFiniteSet(A)
    BY <1>1, BucketsCount
  <2> QED
    BY <1>4, <1>11, <1>12, <2>1, TotalOfFibres
<1>14. {x \in A : at[x] \in D} = A
  BY <1>9
<1>15. AddUp(c) = Cardinality(A)
  BY <1>11, <1>13, <1>14, AddUpIs
<1> QED
  BY <1>1, <1>10, <1>15, BucketsCount

LEMMA BucketsDoHold ==
    ASSUME BoardsTypeOK
    PROVE  BucketsHold
<1> SUFFICES ASSUME NEW p \in DOMAIN project, NEW qr \in Queries,
                    Accepted(qr), qr.group # None,
                    NEW l, l = ListIssues(p, qr)
             PROVE  LET keys == {l.buckets[k].key : k \in DOMAIN l.buckets}
                        sum  == AddUp([k \in DOMAIN l.buckets |-> Size(l.buckets[k])])
                    IN  /\ \A i \in Found(p, qr) : BucketKeys(i, qr.group) \subseteq keys
                        /\ \A k \in DOMAIN l.buckets : Size(l.buckets[k]) > 0
                        /\ sum >= l.total
                        /\ qr.group.dim = "status" => sum = l.total
  BY DEF BucketsHold
<1>1. PICK S : S = Found(p, qr)
  OBVIOUS
<1>2. PICK g : g = qr.group
  OBVIOUS
<1>3. Known(S)
  BY <1>1, FoundAreLocal DEF Known, Locals
<1>4. Groups(g)
  BY <1>2 DEF Accepted, ValidateGroupBy, Groups
<1>5. PICK b : b = BuildBuckets(S, g)
  OBVIOUS
<1>6. l.total = Cardinality(S) /\ l.buckets = b
  BY <1>1, <1>2, <1>5 DEF ListIssues
<1>7. AddUp(Sizes(b)) >= Cardinality(S) /\ (g.dim = "status" => AddUp(Sizes(b)) = Cardinality(S))
  BY <1>3, <1>4, <1>5, BucketsAddUp
<1>8. IsListing(AllBuckets(S, g), b)
  BY <1>3, <1>4, <1>5, BucketsAreListed
<1>9. \A i \in S : BucketKeys(i, g) \subseteq {b[k].key : k \in DOMAIN b}
  <2> SUFFICES ASSUME NEW i \in S, NEW k \in BucketKeys(i, g)
               PROVE  \E j \in DOMAIN b : b[j].key = k
    OBVIOUS
  <2>1. k \in KeysOf(S, g)
    BY DEF KeysOf
  <2>2. Bucket(S, g, k) \in AllBuckets(S, g) /\ Bucket(S, g, k).key = k
    BY <1>3, <2>1, BucketSize DEF AllBuckets
  <2>3. PICK j \in 1..Len(b) : b[j] = Bucket(S, g, k)
    BY <1>8, <2>2 DEF IsListing
  <2> QED
    BY <1>8, <2>2, <2>3 DEF IsListing
<1>10. ASSUME NEW j \in DOMAIN b PROVE Size(b[j]) > 0
  <2>1. b[j] \in AllBuckets(S, g)
    BY <1>8 DEF IsListing
  <2>2. PICK k \in KeysOf(S, g) : b[j] = Bucket(S, g, k)
    BY <2>1 DEF AllBuckets
  <2>3. PICK i \in S : k \in BucketKeys(i, g)
    BY DEF KeysOf
  <2>4. InBucket(S, g, k) # {}
    <3>1. CASE g.dim = "status" \/ k = None
      BY <2>3, <3>1 DEF InBucket
    <3>2. CASE g.dim # "status" /\ k # None
      <4>1. \E t \in TagLinks : t.issue = i /\ t.key = g.key /\ t.value = k
        BY <2>3, <3>2 DEF BucketKeys
      <4> QED
        BY <3>2, <4>1 DEF InBucket
    <3> QED
      BY <3>1, <3>2
  <2>5. /\ Size(b[j]) = Cardinality(InBucket(S, g, k)) /\ Size(b[j]) \in Nat
        /\ IsFiniteSet(InBucket(S, g, k))
    BY <1>3, <2>2, BucketSize, InBucketIs
  <2>6. Cardinality(InBucket(S, g, k)) # 0
    BY <2>4, <2>5, FS_EmptySet
  <2> QED
    BY <2>5, <2>6
<1> QED
  BY <1>1, <1>2, <1>6, <1>7, <1>9, <1>10 DEF Sizes

-----------------------------------------------------------------------------
(* Pages *)

LEMMA LimitIsPositive ==
    ASSUME NEW qr \in Queries
    PROVE  Limit(qr.limit) \in Nat \ {0}
BY PagesAssumption DEF Limit

\* A part of a sequence, which may be empty.
PartOf(S, s, i, e, part) ==
    /\ part \in Seq(S)
    /\ Len(part) = IF i <= e THEN e - i + 1 ELSE 0
    /\ \A k \in 1..Len(part) : part[k] = s[i + k - 1]

LEMMA PartIs ==
    ASSUME NEW S, NEW s \in Seq(S), NEW i \in Nat \ {0}, NEW e \in Nat, e <= Len(s)
    PROVE  PartOf(S, s, i, e, SubSeq(s, i, e))
<1> DEFINE part == SubSeq(s, i, e)
<1>1. /\ part \in Seq(S)
      /\ Len(part) = IF i <= e THEN e - i + 1 ELSE 0
      /\ \A k \in 1..Len(part) : part[k] = s[i + k - 1]
  OBVIOUS
<1> QED
  BY <1>1 DEF PartOf

\* Rows lo + 1 to e.
ShowsUpTo(shown, s, lo, e) ==
    /\ Len(shown) = IF lo < e THEN e - lo ELSE 0
    /\ DOMAIN shown = 1..Len(shown)
    /\ \A k \in DOMAIN shown : shown[k] = s[lo + k]

\* The page of L rows after the first lo, which may be none.
LEMMA PageIs ==
    ASSUME NEW S, NEW s \in Seq(S), NEW lo \in Nat, NEW L \in Nat \ {0}, NEW shown,
           shown = Page(s, lo, L), NEW e, e = IF lo + L < Len(s) THEN lo + L ELSE Len(s)
    PROVE  ShowsUpTo(shown, s, lo, e)
<1>1. e \in Nat /\ e <= Len(s) /\ shown = SubSeq(s, lo + 1, e)
  BY DEF Page
<1>2. PICK i : i = lo + 1 /\ i \in Nat \ {0}
  OBVIOUS
<1>3. PartOf(S, s, i, e, shown)
  <2>1. PartOf(S, s, i, e, SubSeq(s, i, e))
    BY <1>1, <1>2, PartIs
  <2> QED
    BY <1>1, <1>2, <2>1
<1>4. shown \in Seq(S) /\ Len(shown) = IF i <= e THEN e - i + 1 ELSE 0
  BY <1>3 DEF PartOf
<1>5. DOMAIN shown = 1..Len(shown) /\ Len(shown) \in Nat
  BY <1>4
<1>6. ASSUME NEW k \in DOMAIN shown PROVE shown[k] = s[lo + k]
  <2>1. i + k - 1 = lo + k
    BY <1>2, <1>5
  <2>2. shown[k] = s[i + k - 1]
    BY <1>3, <1>5 DEF PartOf
  <2> QED
    BY <2>1, <2>2
<1> QED
  BY <1>1, <1>2, <1>4, <1>5, <1>6 DEF ShowsUpTo

\* What an offset changes of a list.
LEMMA OffsetMoves ==
    ASSUME NEW p, NEW qr \in Queries, NEW o, NEW l,
           l = ListIssues(p, [qr EXCEPT !.offset = o])
    PROVE  /\ l.total = Cardinality(Found(p, qr))
           /\ l.rows = Page(SortIssues(Found(p, qr), qr.sort), o, Limit(qr.limit))
<1>1. PICK at : at = [qr EXCEPT !.offset = o]
  OBVIOUS
<1>2. {"view", "state", "needle", "filter", "group", "sort", "limit", "offset"} \subseteq DOMAIN qr
  BY PagesAssumption
<1>3. /\ at.view = qr.view /\ at.state = qr.state /\ at.needle = qr.needle
      /\ at.filter = qr.filter /\ at.group = qr.group /\ at.sort = qr.sort
      /\ at.limit = qr.limit /\ at.offset = o
  BY <1>1, <1>2
<1>4. Found(p, at) = Found(p, qr)
  BY <1>3 DEF Found, Listed
<1> QED
  BY <1>1, <1>3, <1>4 DEF ListIssues

\* Row r is on page n.
On(r, n, L) == n * L < r /\ r <= n * L + L

LEMMA OnOnePage ==
    ASSUME NEW L \in Nat \ {0}, NEW M \in Nat, NEW r \in 1..M
    PROVE  /\ \E n \in 0..M : On(r, n, L)
           /\ \A n, m \in Nat : On(r, n, L) /\ On(r, m, L) => n = m
<1>1. \E n \in 0..M : On(r, n, L)
  <2>1. PICK q \in Int : q = (r - 1) \div L
    OBVIOUS
  <2>2. q * L <= r - 1 /\ r - 1 < q * L + L
    BY <2>1
  <2>3. q >= 0
    BY <2>2
  <2>4. q <= q * L
    BY <2>3
  <2>5. q * L \in Int
    OBVIOUS
  <2>6. q \in 0..M
    BY <2>2, <2>3, <2>4, <2>5
  <2> QED
    BY <2>2, <2>5, <2>6 DEF On
<1>2. ASSUME NEW n \in Nat, NEW m \in Nat, On(r, n, L), On(r, m, L), n < m PROVE FALSE
  <2>1. n * L + L <= m * L
    BY <1>2
  <2>2. n * L \in Int /\ m * L \in Int
    OBVIOUS
  <2> QED
    BY <1>2, <2>1, <2>2 DEF On
<1> QED
  BY <1>1, <1>2

\* The pages of a list: rows n*L + 1 to n*L + L.
ArePages(pages, s, L, M) ==
    /\ DOMAIN pages = 0..M
    /\ \A n \in 0..M : pages[n] = Page(s, n * L, L)

\* The rows that are on page n, and no other.
ShowsPage(shown, s, n, L) ==
    /\ Len(shown) = Cardinality({r \in 1..Len(s) : On(r, n, L)}) /\ Len(shown) \in Nat
    /\ \A k \in DOMAIN shown : \E r \in 1..Len(s) : shown[k] = s[r]
    /\ \A r \in 1..Len(s) : On(r, n, L) => \E k \in DOMAIN shown : shown[k] = s[r]

LEMMA PageHasOn ==
    ASSUME NEW S, NEW s \in Seq(S), NEW L \in Nat \ {0}, NEW n \in Nat, NEW shown,
           shown = Page(s, n * L, L)
    PROVE  ShowsPage(shown, s, n, L)
<1>1. PICK lo \in Nat : lo = n * L
  OBVIOUS
<1>2. PICK e : e = IF lo + L < Len(s) THEN lo + L ELSE Len(s)
  OBVIOUS
<1>3. /\ Len(shown) = IF lo < e THEN e - lo ELSE 0
      /\ DOMAIN shown = 1..Len(shown)
      /\ \A k \in DOMAIN shown : shown[k] = s[lo + k]
  <2>1. shown = Page(s, lo, L)
    BY <1>1
  <2>2. ShowsUpTo(shown, s, lo, e)
    BY <1>2, <2>1, PageIs
  <2> QED
    BY <2>2 DEF ShowsUpTo
<1>4. e \in Nat /\ e <= Len(s) /\ Len(s) \in Nat
  BY <1>2
<1>5. {r \in 1..Len(s) : On(r, n, L)} = (lo + 1)..e
  BY <1>1, <1>2, <1>4 DEF On
<1>6. Len(shown) \in Nat /\ Cardinality((lo + 1)..e) = Len(shown)
  <2>1. PICK i \in Int : i = lo + 1
    OBVIOUS
  <2>2. Cardinality(i..e) = IF i > e THEN 0 ELSE e - i + 1
    BY <1>4, FS_Interval
  <2> QED
    BY <1>3, <1>4, <2>1, <2>2
<1>7. \A k \in DOMAIN shown : lo + k \in 1..Len(s) /\ shown[k] = s[lo + k]
  BY <1>3, <1>4, <1>6
<1>8. ASSUME NEW r \in 1..Len(s), On(r, n, L)
      PROVE  r - lo \in DOMAIN shown /\ shown[r - lo] = s[r]
  <2>1. lo < r /\ r <= e
    BY <1>1, <1>2, <1>4, <1>8 DEF On
  <2>2. PICK k \in Int : k = r - lo
    BY <1>4
  <2>3. k \in DOMAIN shown /\ lo + k = r
    BY <1>3, <1>4, <2>1, <2>2
  <2> QED
    BY <1>3, <2>2, <2>3
<1> QED
  BY <1>5, <1>6, <1>7, <1>8 DEF ShowsPage

LEMMA PagesMakeTheList ==
    ASSUME NEW S, NEW s, IsListing(S, s), NEW L \in Nat \ {0}, NEW M \in Nat, Len(s) <= M,
           NEW pages, ArePages(pages, s, L, M), NEW c, c = [n \in DOMAIN pages |-> Len(pages[n])]
    PROVE  /\ AddUp(c) = Cardinality(S)
           /\ UNION {{pages[n][k] : k \in DOMAIN pages[n]} : n \in DOMAIN pages} = S
<1>1. s \in Seq(S) /\ Len(s) = Cardinality(S) /\ Len(s) \in Nat
  BY DEF IsListing
<1>2. PICK A : A = 1..Len(s)
  OBVIOUS
<1>3. PICK D : D = 0..M
  OBVIOUS
<1>4. IsFiniteSet(A) /\ IsFiniteSet(D) /\ Cardinality(A) = Len(s)
  <2>1. IsFiniteSet(1..Len(s)) /\ Cardinality(1..Len(s)) = Len(s)
    BY <1>1, FS_Interval
  <2>2. IsFiniteSet(0..M)
    BY FS_Interval
  <2> QED
    BY <1>2, <1>3, <2>1, <2>2
<1>5. DOMAIN pages = D /\ \A n \in D : n \in Nat /\ pages[n] = Page(s, n * L, L)
  BY <1>3 DEF ArePages
<1>6. ASSUME NEW n \in D PROVE ShowsPage(pages[n], s, n, L)
  BY <1>1, <1>5, PageHasOn
<1>7. \A r \in A : /\ \E n \in D : On(r, n, L)
                   /\ \A n, m \in D : On(r, n, L) /\ On(r, m, L) => n = m
  <2> SUFFICES ASSUME NEW r \in A
               PROVE  /\ \E n \in D : On(r, n, L)
                      /\ \A n, m \in D : On(r, n, L) /\ On(r, m, L) => n = m
    OBVIOUS
  <2>1. r \in 1..M
    BY <1>1, <1>2
  <2> QED
    BY <1>3, <1>5, <2>1, OnOnePage
<1>8. PICK at : at = [r \in A |-> CHOOSE n \in D : On(r, n, L)]
  OBVIOUS
<1>9. \A r \in A : at[r] \in D /\ On(r, at[r], L)
  BY <1>7, <1>8
<1>10. CountsBy(c, D, A, at)
  <2>1. ASSUME NEW n \in D PROVE c[n] = Cardinality({r \in A : at[r] = n})
    <3>1. {r \in A : at[r] = n} = {r \in A : On(r, n, L)}
      BY <1>7, <1>9
    <3>2. c[n] = Len(pages[n])
      BY <1>5
    <3> QED
      BY <1>2, <1>6, <3>1, <3>2 DEF ShowsPage
  <2> QED
    BY <2>1 DEF CountsBy
<1>11. c \in [D -> Int] /\ DOMAIN c = D
  <2>1. \A n \in D : Len(pages[n]) \in Int
    BY <1>6 DEF ShowsPage
  <2> QED
    BY <1>5, <2>1
<1>12. AddUp(c) = Cardinality(S)
  <2>1. Total(c, D) = Cardinality({r \in A : at[r] \in D})
    BY <1>4, <1>10, <1>11, TotalOfFibres
  <2>2. {r \in A : at[r] \in D} = A
    BY <1>9
  <2>3. AddUp(c) = Total(c, D)
    BY <1>11, AddUpIs
  <2> QED
    BY <1>1, <1>4, <2>1, <2>2, <2>3
<1>13. ASSUME NEW n \in D, NEW k \in DOMAIN pages[n] PROVE pages[n][k] \in S
  <2>1. PICK r \in 1..Len(s) : pages[n][k] = s[r]
    BY <1>6 DEF ShowsPage
  <2> QED
    BY <1>1, <2>1
<1>14. ASSUME NEW x \in S PROVE \E n \in D : \E k \in DOMAIN pages[n] : pages[n][k] = x
  <2>1. PICK r \in A : s[r] = x
    BY <1>2 DEF IsListing
  <2>2. PICK n \in D : On(r, n, L)
    BY <1>7
  <2> QED
    BY <1>2, <1>6, <2>1, <2>2 DEF ShowsPage
<1> QED
  BY <1>5, <1>12, <1>13, <1>14

LEMMA PagesDoTile ==
    ASSUME BoardsTypeOK
    PROVE  PagesTile
<1> SUFFICES ASSUME NEW p \in DOMAIN project, NEW qr \in Queries
             PROVE  LET At(n) == ListIssues(p, [qr EXCEPT !.offset = n * Limit(qr.limit)])
                        pages == [n \in 0..Cardinality(Issues) |-> At(n).rows]
                    IN  /\ AddUp([n \in DOMAIN pages |-> Len(pages[n])]) = At(0).total
                        /\ UNION {{pages[n][k] : k \in DOMAIN pages[n]} : n \in DOMAIN pages}
                              = Found(p, qr)
                        /\ qr.view = None => \A i \in Found(p, qr) : ProjectOf(i) = p
  BY DEF PagesTile
<1> DEFINE At(n) == ListIssues(p, [qr EXCEPT !.offset = n * Limit(qr.limit)])
<1>1. PICK L : L = Limit(qr.limit) /\ L \in Nat \ {0}
  BY LimitIsPositive
<1>2. PICK S : S = Found(p, qr)
  OBVIOUS
<1>3. PICK s : s = SortIssues(S, qr.sort)
  OBVIOUS
<1>4. S \in SUBSET Issues
  BY <1>2, FoundAreLocal
<1>5. IsListing(S, s) /\ IsFiniteSet(S)
  BY <1>3, <1>4, IssuesAreListed
<1>6. PICK M : M = Cardinality(Issues)
  OBVIOUS
<1>7. M \in Nat /\ Len(s) <= M
  <2>1. Cardinality(S) <= M /\ M \in Nat
    BY <1>4, <1>6, PagesAssumption, FS_Subset, FS_CardinalityType
  <2> QED
    BY <1>5, <2>1 DEF IsListing
<1>8. \A n : At(n).total = Cardinality(S) /\ At(n).rows = Page(s, n * L, L)
  BY <1>1, <1>2, <1>3, OffsetMoves
<1> DEFINE pages == [n \in 0..Cardinality(Issues) |-> At(n).rows]
<1>10. ArePages(pages, s, L, M)
  BY <1>6, <1>8 DEF ArePages
<1> HIDE DEF pages
<1>11. PICK c : c = [n \in DOMAIN pages |-> Len(pages[n])]
  OBVIOUS
<1>12. /\ AddUp(c) = Cardinality(S)
       /\ UNION {{pages[n][k] : k \in DOMAIN pages[n]} : n \in DOMAIN pages} = S
  BY <1>1, <1>5, <1>7, <1>10, <1>11, PagesMakeTheList
<1>13. qr.view = None => \A i \in S : ProjectOf(i) = p
  BY <1>2 DEF Found, ApplyFilter, Listed, Members, ProjectOf
<1>14. At(0).total = Cardinality(S)
  BY <1>8
<1> HIDE DEF At
<1>15. AddUp([n \in DOMAIN pages |-> Len(pages[n])]) = At(0).total
  BY <1>11, <1>12, <1>14
<1> QED
  BY <1>2, <1>12, <1>13, <1>15 DEF At, pages

-----------------------------------------------------------------------------
(* Projects and milestones *)

LEMMA ProjectsAreListed ==
    ASSUME BoardsTypeOK, NEW f
    PROVE  IsListing(Filtered(f), ListProjects(f))
<1> DEFINE S == Filtered(f)
           k == [p \in S |-> Rank(project[p].status)]
           a == [p \in S |-> Due[p]]
           z == [p \in S |-> 0]
<1>1. S \subseteq DOMAIN project /\ DOMAIN project \subseteq Ids
  BY DEF Filtered, BoardsTypeOK, MilestonesTypeOK, TypeOK
<1>2. IsFiniteSet(S)
  BY <1>1, PagesAssumption, FS_Subset
<1>3. k \in [S -> Int] /\ a \in [S -> Int] /\ z \in [S -> Int]
  <2>1. \A p \in S : Rank(project[p].status) \in Int
    BY DEF Rank
  <2>2. \A p \in S : Due[p] \in Int
    BY <1>1, PagesAssumption
  <2> HIDE DEF S
  <2> QED
    BY <2>1, <2>2
<1>4. PICK s \in SetToSeqs(S) : \A i, j \in DOMAIN s : Less(k, a, z, s[i], s[j]) => i < j
  <2> HIDE DEF S, k, a, z
  <2> QED
    BY <1>2, <1>3, ListingExists
<1>5. \A i \in DOMAIN s : s[i] \in S
  BY <1>4 DEF SetToSeqs
<1> HIDE DEF S
<1> DEFINE Before(p, q) == \/ Rank(project[p].status) < Rank(project[q].status)
                           \/ project[p].status = project[q].status /\ Due[p] < Due[q]
<1>6. \A i, j \in DOMAIN s : Before(s[i], s[j]) => i < j
  BY <1>4, <1>5 DEF Less
<1>7. ListProjects(f) = Sorted(S, LAMBDA p, q : Before(p, q))
  BY DEF ListProjects, S
<1>8. ListProjects(f) \in SetToSeqs(S)
  <2> HIDE DEF Before
  <2> QED
    BY <1>4, <1>6, <1>7 DEF Sorted
<1>9. IsListing(S, ListProjects(f))
  BY <1>2, <1>8, ListingHasAll
<1> QED
  BY <1>9 DEF S

OnList(p) == {m \in DOMAIN mirror : Eligible(p, m)}

LEMMA MilestonesAreListed ==
    ASSUME BoardsTypeOK, NEW p
    PROVE  IsListing(OnList(p), ListMilestones(p, TRUE))
<1> DEFINE S == OnList(p)
           k == [m \in S |-> IF StateOf[mirror[m]] = "closed" THEN 0 ELSE 1]
           a == [m \in S |-> DueOn[m]]
           z == [m \in S |-> 0]
<1>1. S \subseteq Milestones /\ \A m \in S : mirror[m] \in Contents
  BY DEF OnList, BoardsTypeOK, MilestonesTypeOK
<1>2. IsFiniteSet(S)
  BY <1>1, PagesAssumption, FS_Subset
<1>3. k \in [S -> Int] /\ a \in [S -> Int] /\ z \in [S -> Int]
  <2>1. \A m \in S : DueOn[m] \in Int
    BY <1>1, PagesAssumption
  <2> HIDE DEF S
  <2> QED
    BY <2>1
<1>4. PICK s \in SetToSeqs(S) : \A i, j \in DOMAIN s : Less(k, a, z, s[i], s[j]) => i < j
  <2> HIDE DEF S, k, a, z
  <2> QED
    BY <1>2, <1>3, ListingExists
<1>5. \A i \in DOMAIN s : s[i] \in S
  BY <1>4 DEF SetToSeqs
<1> DEFINE Before(m, n) ==
              \/ StateOf[mirror[m]] = "closed" /\ StateOf[mirror[n]] = "open"
              \/ StateOf[mirror[m]] = StateOf[mirror[n]] /\ DueOn[m] < DueOn[n]
<1>6. ListMilestones(p, TRUE) = Sorted(S, LAMBDA m, n : Before(m, n))
  BY DEF ListMilestones, OnList, Eligible
<1> HIDE DEF S
<1>7. \A i, j \in DOMAIN s : Before(s[i], s[j]) => i < j
  <2> SUFFICES ASSUME NEW i \in DOMAIN s, NEW j \in DOMAIN s, Before(s[i], s[j])
               PROVE  i < j
    OBVIOUS
  <2>1. PICK m \in S : m = s[i]
    BY <1>5
  <2>2. PICK n \in S : n = s[j]
    BY <1>5
  <2>3. Before(m, n)
    BY <2>1, <2>2
  <2>4. k[m] < k[n] \/ (k[m] = k[n] /\ a[m] < a[n])
    <3>1. CASE StateOf[mirror[m]] = "closed" /\ StateOf[mirror[n]] = "open"
      <4>1. k[m] = 0 /\ k[n] = 1
        BY <3>1
      <4> QED
        BY <4>1
    <3>2. CASE StateOf[mirror[m]] = StateOf[mirror[n]] /\ DueOn[m] < DueOn[n]
      <4>1. k[m] = k[n] /\ a[m] < a[n]
        BY <3>2
      <4> QED
        BY <4>1
    <3> QED
      BY <2>3, <3>1, <3>2
  <2>5. Less(k, a, z, m, n)
    BY <2>4 DEF Less
  <2> HIDE DEF Before, k, a, z
  <2> QED
    BY <1>4, <2>1, <2>2, <2>5
<1>8. ListMilestones(p, TRUE) \in SetToSeqs(S)
  <2> HIDE DEF Before
  <2> QED
    BY <1>4, <1>6, <1>7 DEF Sorted
<1>9. IsListing(S, ListMilestones(p, TRUE))
  BY <1>2, <1>8, ListingHasAll
<1> QED
  BY <1>9 DEF S

LEMMA ListsDoAgree ==
    ASSUME BoardsTypeOK
    PROVE  ListsAgree
<1>1. Len(ListProjects([status |-> None])) =
         CountProjects([status |-> "active"]) + CountProjects([status |-> "archived"])
  <2>1. PICK all : all = Filtered([status |-> None])
    OBVIOUS
  <2>2. PICK a : a = Filtered([status |-> "active"])
    OBVIOUS
  <2>3. PICK b : b = Filtered([status |-> "archived"])
    OBVIOUS
  <2>4. \A p \in DOMAIN project : project[p].status \in {"active", "archived"}
    BY DEF BoardsTypeOK, MilestonesTypeOK, TypeOK, ProjectRows, Statuses
  <2>5. None \notin {"active", "archived"}
    BY PagesAssumption DEF Statuses
  <2>6. a \cup b = all /\ a \cap b = {}
    BY <2>1, <2>2, <2>3, <2>4, <2>5 DEF Filtered
  <2>7. IsFiniteSet(a) /\ IsFiniteSet(b)
    <3>1. a \subseteq Ids /\ b \subseteq Ids
      BY <2>2, <2>3 DEF Filtered, BoardsTypeOK, MilestonesTypeOK, TypeOK
    <3> QED
      BY <3>1, PagesAssumption, FS_Subset
  <2>8. Cardinality(all) = Cardinality(a) + Cardinality(b)
    <3>1. Cardinality(a \cup b) = Cardinality(a) + Cardinality(b) - Cardinality(a \cap b)
      BY <2>7, FS_Union
    <3>2. Cardinality(a \cap b) = 0 /\ Cardinality(a) \in Nat /\ Cardinality(b) \in Nat
      BY <2>6, <2>7, FS_EmptySet, FS_CardinalityType
    <3>3. Cardinality(a \cup b) = Cardinality(all)
      BY <2>6
    <3> HIDE <2>1, <2>2, <2>3
    <3> QED
      BY <3>1, <3>2, <3>3
  <2>9. Len(ListProjects([status |-> None])) = Cardinality(all)
    BY <2>1, ProjectsAreListed DEF IsListing
  <2> QED
    BY <2>2, <2>3, <2>8, <2>9 DEF CountProjects
<1>2. ASSUME NEW p, NEW m
      PROVE  Eligible(p, m) <=> \E k \in DOMAIN ListMilestones(p, TRUE) :
                                   ListMilestones(p, TRUE)[k] = m
  <2>0. PICK S : S = OnList(p)
    OBVIOUS
  <2>1. PICK l : l = ListMilestones(p, TRUE) /\ IsListing(S, l)
    BY <2>0, MilestonesAreListed
  <2>2. DOMAIN l = 1..Len(l) /\ \A k \in DOMAIN l : l[k] \in S
    <3>1. l \in Seq(S)
      BY <2>1 DEF IsListing
    <3> QED
      BY <3>1
  <2>3. Eligible(p, m) <=> m \in S
    BY <2>0 DEF Eligible, OnList
  <2>4. m \in S <=> \E k \in DOMAIN l : l[k] = m
    BY <2>1, <2>2 DEF IsListing
  <2> QED
    BY <2>1, <2>3, <2>4
<1> QED
  BY <1>1, <1>2 DEF ListsAgree

LEMMA PagesDoAgree ==
    ASSUME BoardsTypeOK, IsFiniteSet(DOMAIN tab)
    PROVE  PagesAgree
BY BadgesDoAgree, BucketsDoHold, PagesDoTile, ListsDoAgree DEF PagesAgree

\* Whatever has been placed, closed, moved or unlinked: what is computed of the rows agrees
\* with itself (project_issues.rs, project_views.rs, projects.rs and project_milestones.rs
\* compute badges, buckets, pages and totals apart from each other).
THEOREM PagesAlwaysAgree == BoardSpec => []PagesAgree
<1>1. LinksInv => PagesAgree
  <2>1. LinksInv => BoardsTypeOK /\ IsFiniteSet(DOMAIN tab)
    BY DEF LinksInv, MilestonesInv, RowsInv, PlacesDiffer
  <2> QED
    BY <2>1, PagesDoAgree
<1> QED
  BY <1>1, LinksHold, PTL
=============================================================================
