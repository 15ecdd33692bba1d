------------------------------ MODULE MCPersonal ------------------------------
(***************************************************************************)
(* Model-checking instance.  Either the requests on accounts come, beside  *)
(* deliveries, or those on pins, tags and settings: two administrators who *)
(* are members of two orgs, one of them with pins up to the cap or one     *)
(* short of it.  Or those on issues and the inbox: a reader beside         *)
(* somebody who sorts and edits, or two who edit, on a local issue, one of *)
(* GitHub's of the same time and others that arrive or are created.        *)
(***************************************************************************)
EXTENDS Inbox

CONSTANTS u1, u2, o1, o2, n1, n2, x1, x2, x3, t1, t2, q1, q2, p1, p2, d1, d2,
          l1, l2, AccountVerbs, KeepVerbs, ReadVerbs, DeskVerbs, LocalVerbs

Office   == {q1, q2}
Keepers  == {p1, p2}
Local    == {l1, l2}
Symmetry == {(q1 :> q2) @@ (q2 :> q1) @@ (p1 :> p2) @@ (p2 :> p1) @@ (l1 :> l2) @@ (l2 :> l1)}
Asked    == [q \in Requests |-> CASE q \in Office -> AccountVerbs [] q \in Keepers -> KeepVerbs
                                 [] q \in Local -> LocalVerbs
                                 [] q = d1 -> ReadVerbs [] q = d2 -> DeskVerbs]

Played == (1 :> {"author", "reviewer"}) @@ (2 :> {"author"}) @@ (3 :> {"author"})
Pinned == (<<u1, x1>> :> 0)

Shown  == {[state |-> "open", untriaged |-> FALSE, noProject |-> FALSE],
           [state |-> "all", untriaged |-> TRUE, noProject |-> TRUE]}
States == {[status |-> None, until |-> None], [status |-> None, until |-> 2],
           [status |-> "done", until |-> None]}
Batch(op, S, t) == [op |-> op, on |-> S, until |-> t]
Bulks  == {Batch("mark_all_seen", {2, 3}, None), Batch("mark_all_seen", Issues, None),
           Batch("snooze_all", {2, 3}, 1), Batch("snooze_all", {2}, None),
           Batch("done_all", {1, 3}, None), Batch("inbox_all", {2, 3}, None)}

Issue(n, l, p) == [number |-> n, local |-> l, state |-> "open", plain |-> p,
                   version |-> 1, updated |-> 1]
Chosen ==
        /\ InitAccounts({u1})
        /\ stamp = (1 :> 1) @@ (2 :> 2)
        /\ tag = (t1 :> [scope |-> o1, name |-> n1, archived |-> FALSE])
        /\ link = {[tag |-> t1, target |-> x1, by |-> None]}
        /\ setting = <<>>
        /\ counter = -1 /\ log = {[id |-> 2, number |-> 2, kind |-> "issue_opened", ts |-> 1,
                                   moves |-> 0]}
        /\ project = [version |-> 1, has |-> {}]
        /\ form = [q \in Requests |-> NoForm]
        /\ \E of \in {Office, Keepers, Local, {d1, d2}} :
              /\ pc = [q \in Requests |-> IF q \in of THEN "idle" ELSE "done"]
              /\ issue = (3 :> Issue(-1, TRUE, FALSE))
                         @@ (IF of = Local THEN <<>> ELSE 2 :> Issue(2, FALSE, TRUE))
              /\ IF of \in {Office, Keepers}
                   THEN /\ webhooks = IF of = Office THEN 0 ELSE MaxWebhooks
                        /\ changes = MaxChanges /\ now = MaxTime /\ inbox = <<>>
                        /\ \/ pin = Pinned
                           \/ of = Keepers /\ pin = Pinned @@ (<<u1, x2>> :> 1)
                   ELSE /\ webhooks = MaxWebhooks /\ changes = 0 /\ now = 1 /\ pin = Pinned
                        /\ inbox = IF of = Local THEN <<>>
                                   ELSE <<u1, 2>> :> [seen |-> 1, status |-> "snoozed",
                                                     until |-> 1, writes |-> 1]
MCInit == Chosen /\ Init
MCSpec == MCInit /\ [][DeskNext]_every
=============================================================================
