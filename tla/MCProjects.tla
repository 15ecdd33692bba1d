------------------------------ MODULE MCProjects ------------------------------
(***************************************************************************)
(* Model-checking instance: two projects, the first with two tabs and the  *)
(* gap a third has left between them.                                      *)
(***************************************************************************)
EXTENDS Pages

CONSTANTS p1, p2, p3, i1, i2, i3, i4, v1, v2, v3, v4, n1, n2, r1, g1, g2, q1, q2, l1, l2, b1, b2, b3, d1, d2, ann, bug, bugs, t1, t2, t3, t4

Symmetry == Permutations(Requests) \cup Permutations(Edits)

Tabs  == (v1 :> NewTab(p1, n1, 0)) @@ (v2 :> NewTab(p1, n2, 2))
Home  == [m \in {g1, g2} |-> r1]
Init  == /\ InitRows((p1 :> n1) @@ (p2 :> n2), Tabs, i1 :> p1, {<<v2, i1>>})
         /\ InitMilestones({<<p1, r1>>}, {g1})
         /\ InitBoards(l1 :> [project |-> p1, board |-> b1, lanes |-> Lanes],
                       (b1 :> Lanes) @@ (b2 :> {}) @@ (b3 :> {"due"}))

\* A member of the first project is tagged twice with the same text, in two scopes.
Fact(n, us, ls) == [assignees |-> us, labels |-> ls, title |-> 4 - n, updated |-> n \div 2,
                    added |-> n, repo |-> r1, milestone |-> 1]
IssueFacts == (i1 :> Fact(1, {ann}, {bug})) @@ (i2 :> Fact(2, {}, {})) @@
              (i3 :> Fact(3, {}, {bug})) @@ (i4 :> Fact(4, {ann}, {}))
Link(i, v, t) == [issue |-> i, key |-> "gate", value |-> v, tag |-> t]
Tagged     == {Link(i1, 1, t1), Link(i1, 1, t2), Link(i1, 2, t3), Link(i2, 2, t4)}
NoBlanks   == bugs :> bug
Dues       == (p1 :> 2) @@ (p2 :> 1) @@ (p3 :> 3)
States     == <<"open", "closed", "open">>
DueDates   == (g1 :> 2) @@ (g2 :> 1)

Clause(d, x) == [dim |-> d, value |-> x]
Gate(x)      == [dim |-> "tag", key |-> "gate", value |-> x]
Body(cs, g) == [filter |-> cs, group |-> g, sort |-> "updated_desc", categories |-> <<"gate">>]
Saved == (v1 :> Body(<<>>, None)) @@
         (v2 :> Body(<<Clause("status", "open"), Gate(2)>>, [dim |-> "status"])) @@
         (v3 :> Body(<<Clause("label", bugs)>>, [dim |-> "tag", key |-> "gate"])) @@
         (v4 :> Body(<<Clause("milestone", g1)>>, None))

Plain == [view |-> None, state |-> None, needle |-> None, filter |-> <<>>,
          group |-> None, sort |-> None, limit |-> 1, offset |-> 0]
Asked == {[Plain EXCEPT !.group = [dim |-> "status"], !.filter = <<Clause("milestone", g1)>>],
          [Plain EXCEPT !.group = [dim |-> "tag", key |-> "gate"], !.sort = "title_asc"],
          [Plain EXCEPT !.view = v1, !.group = [dim |-> "tag", key |-> "gate"],
                        !.needle = {i2, i4}, !.limit = None],
          [Plain EXCEPT !.view = v2, !.filter = <<Clause("assignee", ann)>>,
                        !.state = "open", !.sort = "updated_asc"],
          [Plain EXCEPT !.filter = <<Clause("owner", ann)>>]}

\* Bounds: a behaviour is about a project's rows, or about its boards and the
\* dates of one issue, while other requests take it from one project to the next.
Quiet == \A e \in Edits : edit[e].at = "idle"

AboutDated(f) ==
    f.verb # "none" => \/ f.verb = "remove" /\ f.issue = i1
                       \/ f.verb = "add" /\ f.asks = <<i1>> /\ f.project = p2

Apart ==
    /\ Quiet => \A q \in Requests, i \in Issues \ Fresh : pc[q] = "idle" /\ issue[i] = "open"
    /\ \A e \in Edits : edit'[e].at \in {"dated", "saved"} => edit'[e].issue = i1
    /\ \A q \in Requests : AboutDated(form'[q])
    /\ Cardinality({e \in Edits : edit'[e].at # "idle"}) +
       Cardinality({q \in Requests : pc'[q] # "idle"}) <= 3

Move(q) == \/ AskAdd(q) \/ AskRemove(q) \/ LockProject(q) \/ LookUp(q)
           \/ InsertMember(q) \/ CommitAdd(q) \/ CommitRemove(q)

\* The steps of AllNext that are within the bounds; one issue at most is closed.
Steps == \/ /\ Quiet /\ Next /\ UNCHANGED boardVars
            /\ Cardinality({i \in Issues : issue'[i] = "closed"}) <= 1
         \/ BoardsNext /\ UNCHANGED allVars /\ Apart
         \/ ~Quiet /\ (\E q \in Requests : Move(q)) /\ UNCHANGED <<msVars, boardVars>> /\ Apart

Spec == Init /\ [][Steps]_everything
=============================================================================
