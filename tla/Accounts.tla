------------------------------- MODULE Accounts -------------------------------
(***************************************************************************)
(* People: the rows webhooks mint for them, the role and the home org that *)
(* operators give them, their anonymisation and their export.  dp-rest     *)
(* admin.rs and directory.rs, the role middleware of dp-server, and the    *)
(* statements of store/users.rs, store/orgs.rs and store/events.rs.        *)
(*                                                                         *)
(* A request is made once and each of its steps is a statement; the        *)
(* webhook worker runs beside the requests.  Of a person's login, e-mail   *)
(* and name the model keeps who gave them: GitHub, an operator, or nobody. *)
(***************************************************************************)
EXTENDS Integers, Sequences, SequencesExt, FiniteSets, TLC

CONSTANTS
    People,
    Orgs,
    None,           \* no home org, no carried event
    Events,         \* activity of the person who may be exported
    Subject,        \* that person
    Roles,          \* event -> the roles Subject plays in it
    PageSize,       \* EXPORT_PAGE_SIZE
    MaxWebhooks,    \* deliveries the worker handles
    Requests,
    Verbs           \* request -> what it may ask for

AdminVerbs == {"role", "profile", "anonymise", "home", "export"}

ASSUME AccountsAssumption ==
    /\ PageSize \in Nat \ {0} /\ MaxWebhooks \in Nat
    /\ Subject \in People /\ None \notin Orgs \cup Events
    /\ Events \subseteq Nat /\ IsFiniteSet(Events)
    /\ \A e \in Events : IsFiniteSet(Roles[e]) /\ Roles[e] # {}

VARIABLES
    user,       \* dp_users
    home,       \* dp_memberships: <<user, org>> -> home_org
    stamp,      \* dp_activity_events of Subject: event -> ts
    restamped,  \* some event has been given a new ts
    webhooks,   \* deliveries handled
    pc,         \* where a request is
    form        \* what it asks and has read

accounts == <<user, home, stamp, restamped, webhooks>>

Tiers  == {"reader", "admin"}
Names  == {"github", "operator", "nobody"}
Ended  == {"done", "denied", "refused", "missing", "failed"}
NoForm == [verb |-> "none"]
Times  == 1..Cardinality(Events)

Idle == {q \in Requests : pc[q] = "idle"}
Busy == {q \in Requests : pc[q] \notin Ended \cup {"idle"}}

Memberships(u) == {m \in DOMAIN home : m[1] = u}
Is(q, verb, at) == pc[q] = at /\ form[q].verb = verb

Goto(q, at)  == pc' = [pc EXCEPT ![q] = at] /\ UNCHANGED form
Go(q, at, f) == pc' = [pc EXCEPT ![q] = at] /\ form' = [form EXCEPT ![q] = f]
End(q, how)  == Go(q, how, NoForm)

\* A request comes.  The middleware takes the actor's role from its row, and the
\* policy lets only administrators through to the operators' routes.
Ask(q, f) ==
    /\ q \in Idle /\ f.verb \in Verbs[q]
    /\ IF f.verb \in AdminVerbs /\ user[f.actor].role # "admin"
         THEN End(q, "denied") ELSE Go(q, "admitted", f)

\* A row that is new, or replaces the one of its key.
With(rows, k, row) == [j \in DOMAIN rows \cup {k} |-> IF j = k THEN row ELSE rows[j]]

-----------------------------------------------------------------------------
(* Webhooks *)

\* INSERT ... ON CONFLICT (github_id) DO UPDATE, from the `user` object of a
\* payload: everything but the role is the payload's, deleted_at with it.
UpsertUser(u) ==
    user' = With(user, u, [name |-> "github", deleted |-> FALSE,
                           role |-> IF u \in DOMAIN user THEN user[u].role ELSE "reader"])

\* home_org = COALESCE(EXCLUDED.home_org, dp_memberships.home_org)
UpsertMembership(u, o) ==
    LET m == <<u, o>> IN home' = With(home, m, IF m \in DOMAIN home THEN home[m] ELSE None)

\* `member` and `membership`; the removal of a member only upserts the user.
DeliverMember(u, o) ==
    /\ UpsertUser(u)
    /\ \/ UpsertMembership(u, o)
       \/ UNCHANGED home
    /\ UNCHANGED <<stamp, restamped>>

\* An event of Subject's; one that is delivered again is given its new ts.
DeliverEvent(e, t) ==
    /\ UpsertUser(Subject)
    /\ stamp' = With(stamp, e, t)
    /\ restamped' = (restamped \/ (e \in DOMAIN stamp /\ stamp[e] # t))
    /\ UNCHANGED home

Deliver ==
    /\ webhooks < MaxWebhooks
    /\ webhooks' = webhooks + 1
    /\ \/ \E u \in People, o \in Orgs : DeliverMember(u, o)
       \/ \E e \in Events, t \in Times : DeliverEvent(e, t)
    /\ UNCHANGED <<pc, form>>

-----------------------------------------------------------------------------
(* Requests of operators *)

AskOperator(q) ==
    \E a \in DOMAIN user, u \in People :
       \/ \E r \in Tiers : Ask(q, [verb |-> "role", actor |-> a, who |-> u, role |-> r])
       \/ Ask(q, [verb |-> "profile", actor |-> a, who |-> u])
       \/ Ask(q, [verb |-> "anonymise", actor |-> a, who |-> u])
       \/ \E o \in Orgs : Ask(q, [verb |-> "home", actor |-> a, who |-> u, org |-> o])
       \/ u = Subject /\ Ask(q, [verb |-> "export", actor |-> a, who |-> u])

\* PUT /admin/users/{id}/role: nobody takes the role from themselves ...
CheckRole(q) ==
    LET f == form[q] IN
    /\ Is(q, "role", "admitted")
    /\ IF f.who \notin DOMAIN user THEN End(q, "missing")
         ELSE IF f.who = f.actor /\ user[f.who].role = "admin" /\ f.role # "admin"
         THEN End(q, "refused")
         ELSE Goto(q, "checked")
    /\ UNCHANGED accounts

\* ... and the statement leaves the rows of deleted people alone.
SetRole(q) ==
    LET f == form[q] IN
    /\ Is(q, "role", "checked")
    /\ IF user[f.who].deleted
         THEN End(q, "missing") /\ UNCHANGED user
         ELSE user' = [user EXCEPT ![f.who].role = f.role] /\ End(q, "done")
    /\ UNCHANGED <<home, stamp, restamped, webhooks>>

\* Mutated: the row is updated whoever it is.
UpdateAnyone(q) ==
    /\ Is(q, "profile", "admitted")
    /\ IF form[q].who \notin DOMAIN user
         THEN End(q, "missing") /\ UNCHANGED user
         ELSE /\ user' = [user EXCEPT ![form[q].who].name = "operator"]
              /\ End(q, "done")
    /\ UNCHANGED <<home, stamp, restamped, webhooks>>

\* PUT /admin/users/{id}
UpdateUser(q) ==
    LET u == form[q].who IN
    /\ Is(q, "profile", "admitted")
    /\ IF u \notin DOMAIN user \/ (u \in DOMAIN user /\ user[u].deleted)
         THEN End(q, "missing") /\ UNCHANGED user
         ELSE user' = [user EXCEPT ![u].name = "operator"] /\ End(q, "done")
    /\ UNCHANGED <<home, stamp, restamped, webhooks>>

\* POST /admin/users/{id}/anonymise
Pseudonymise(q) ==
    LET u == form[q].who IN
    /\ Is(q, "anonymise", "admitted")
    /\ IF u \notin DOMAIN user
         THEN End(q, "missing") /\ UNCHANGED user
         ELSE user' = [user EXCEPT ![u].name = "nobody", ![u].deleted = TRUE] /\ End(q, "done")
    /\ UNCHANGED <<home, stamp, restamped, webhooks>>

\* Mutated: every membership is given the org.
SetEveryHome(u, o) ==
    home' = [m \in DOMAIN home |-> IF m[1] = u THEN m[2] ELSE home[m]]

\* UPDATE ... SET home_org = CASE WHEN org_id = $2 THEN $2 ELSE NULL END
SetOnlyHome(u, o) ==
    home' = [m \in DOMAIN home |-> CASE m[1] # u    -> home[m]
                                     [] m = <<u, o>> -> o
                                     [] OTHER        -> None]

\* POST /home-org
SetHomeOrg(q) ==
    LET f == form[q] IN
    /\ Is(q, "home", "admitted")
    /\ IF <<f.who, f.org>> \in DOMAIN home
         THEN SetOnlyHome(f.who, f.org) /\ End(q, "done")
         ELSE End(q, "missing") /\ UNCHANGED home
    /\ UNCHANGED <<user, stamp, restamped, webhooks>>

-----------------------------------------------------------------------------
(* GET /admin/users/{id}/export, a page of rows at a time *)

\* ORDER BY ts, event_id: the roles of one event come in any order.
Rows == UNION {{<<e, r>> : r \in Roles[e]} : e \in DOMAIN stamp}
Before(e, f) == stamp[e] < stamp[f] \/ (stamp[e] = stamp[f] /\ e < f)
Listings ==
    {s \in SetToSeqs(Rows) : \A i, j \in DOMAIN s : i < j => ~Before(s[j][1], s[i][1])}

ReadUser(q) ==
    /\ Is(q, "export", "admitted")
    /\ IF form[q].who \notin DOMAIN user THEN End(q, "missing")
         ELSE Go(q, "streaming", [verb |-> "export", offset |-> 0, out |-> {},
                     carry |-> None, owed |-> DOMAIN stamp])
    /\ UNCHANGED accounts

\* The events of a page are sent but for the last, which may go on.
Fold(f, page) ==
    LET last == page[Len(page)][1]
        seen == {page[i][1] : i \in DOMAIN page} \cup ({f.carry} \ {None})
    IN  [f EXCEPT !.out = @ \cup (seen \ {last}), !.carry = last,
                  !.offset = @ + Len(page)]

\* The carried event is sent when the pages end.
Flush(f) == f.out \cup ({f.carry} \ {None})

ReadPage(q) ==
    LET f == form[q] IN
    /\ Is(q, "export", "streaming")
    /\ \E s \in Listings :
          LET page == SubSeq(s, f.offset + 1,
                             IF f.offset + PageSize < Len(s) THEN f.offset + PageSize
                                                             ELSE Len(s))
              new  == IF page = <<>> THEN f ELSE Fold(f, page)
          IN  IF Len(page) < PageSize
                THEN Go(q, "exported", [new EXCEPT !.out = Flush(new)])
                ELSE Go(q, "streaming", new)
    /\ UNCHANGED accounts

\* The client goes away, or the store fails.
BreakOff(q) == Is(q, "export", "streaming") /\ End(q, "failed") /\ UNCHANGED accounts

-----------------------------------------------------------------------------
InitAccounts(admins) ==
    /\ user = [u \in admins |-> [name |-> "github", role |-> "admin",
                                 deleted |-> FALSE]]
    /\ home = [m \in admins \X Orgs |-> IF m[2] = (CHOOSE o \in Orgs : TRUE)
                                          THEN m[2] ELSE None]
    /\ restamped = FALSE

Operates(q) ==
    \/ CheckRole(q) \/ SetRole(q) \/ UpdateUser(q) \/ Pseudonymise(q)
    \/ SetHomeOrg(q) \/ ReadUser(q) \/ ReadPage(q) \/ BreakOff(q)

AccountsNext ==
    \/ Deliver
    \/ \E q \in Idle : AskOperator(q) /\ UNCHANGED accounts
    \/ \E q \in Busy : Operates(q)

-----------------------------------------------------------------------------
\* The types of the rows; one membership of a person at most carries a home org,
\* whatever memberships webhooks add and whoever sets it.
AccountsTypeOK ==
    /\ DOMAIN user \subseteq People
    /\ \A u \in DOMAIN user :
          user[u] \in [name : Names, role : Tiers, deleted : BOOLEAN]
    /\ \A m \in DOMAIN home : m \in People \X Orgs /\ home[m] \in {m[2], None}
    /\ DOMAIN stamp \subseteq Events /\ \A e \in DOMAIN stamp : stamp[e] \in Times
    /\ webhooks \in 0..MaxWebhooks /\ restamped \in BOOLEAN
    /\ \A m, n \in DOMAIN home : m[1] = n[1] /\ home[m] # None /\ home[n] # None => m = n

\* A row that says its person is deleted names nobody: an operator's update that
\* races the anonymisation never brings a name back (store/users.rs).
DeletedAreNameless == \A u \in DOMAIN user : user[u].deleted => user[u].name = "nobody"

\* A finished export has every event the person had when it began, whatever events
\* arrive between its pages, as long as none is given a new time (admin.rs
\* export_user, the paging by offset and the carried event).
ExportIsComplete ==
    \A q \in Requests :
       pc[q] = "exported" /\ ~restamped => form[q].owed \subseteq form[q].out

\* What operators decide survives the worker: no delivery changes a role or a home
\* org that is set (upsert_user, upsert_membership).
WorkerKeepsChoices ==
    [][webhooks' # webhooks =>
          /\ \A u \in DOMAIN user : user'[u].role = user[u].role
          /\ \A m \in DOMAIN home : home'[m] = home[m]]_<<accounts, pc, form>>
=============================================================================
