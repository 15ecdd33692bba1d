---------------------------- MODULE PersonalProofs ----------------------------
(***************************************************************************)
(* What holds of people, of what they keep and of their inboxes for any    *)
(* number of people, issues and requests, whatever the requests and the    *)
(* deliveries of the worker do between each other's statements.            *)
(***************************************************************************)
EXTENDS Inbox, FiniteLemmas, SequenceTheorems

-----------------------------------------------------------------------------
(* The invariant: what each table holds ... *)

UserOK ==
    /\ DOMAIN user \subseteq People
    /\ \A u \in DOMAIN user :
          user[u] \in [name : Names, role : Tiers, deleted : BOOLEAN]
    /\ DeletedAreNameless

HomeOK ==
    /\ \A m \in DOMAIN home : m \in People \X Orgs /\ home[m] \in {m[2], None}
    /\ \A m, n \in DOMAIN home : m[1] = n[1] /\ home[m] # None /\ home[n] # None => m = n

StampOK ==
    /\ DOMAIN stamp \subseteq Events /\ \A e \in DOMAIN stamp : stamp[e] \in Times
    /\ webhooks \in 0..MaxWebhooks /\ restamped \in BOOLEAN

PinOK == \A k \in DOMAIN pin : k \in People \X Targets /\ pin[k] \in Nat

TagOK ==
    /\ DOMAIN tag \subseteq Tags
    /\ \A t \in DOMAIN tag :
          tag[t] \in [scope : Orgs \cup People, name : TagNames, archived : BOOLEAN]
    /\ \A t \in DOMAIN tag : NameIsFree(t, tag[t].scope, tag[t].name)

LinkOK ==
    /\ \A l \in link : l.tag \in DOMAIN tag /\ l.target \in Targets
    /\ \A l, m \in link : l.tag = m.tag /\ l.target = m.target => l = m

IssueOK ==
    /\ DOMAIN issue \subseteq Issues /\ \A i \in DOMAIN issue : issue[i] \in IssueRows
    /\ IsFiniteSet(DOMAIN issue)
    /\ \A i \in DOMAIN issue : issue[i].local => issue[i].updated <= now
    /\ counter \in Int /\ counter <= 0 /\ now \in 0..MaxTime
    /\ NumbersDiffer

LogOK ==
    /\ IsFiniteSet(log) /\ \A l \in log : l \in LogRows
    /\ \A l, m \in log : l.id = m.id => l = m

InboxOK ==
    \A k \in DOMAIN inbox :
       /\ k \in People \X DOMAIN issue /\ inbox[k] \in InboxRows
       /\ inbox[k].seen <= issue[k[2]].version

TablesOK ==
    /\ UserOK /\ HomeOK /\ StampOK
    /\ PinOK /\ TagOK /\ LinkOK /\ DOMAIN setting \subseteq People
    /\ IssueOK /\ LogOK /\ InboxOK

\* ... and what each request carries, by what it asks for.
PinForms   == [verb : {"pin"}, actor : People, target : Targets, position : Nat]
RetagForms == [verb : {"retag"}, actor : People, tag : Tags,
               body : [name : TagNames \cup {None}, archived : BOOLEAN \cup {None}]]
LookForms  == [verb : {"look"}, actor : People, on : Issues, chips : SUBSET Tags]
EditForms  == [verb : {"edit"}, actor : People, on : Issues, state : {"open", "closed", None},
               expected : Nat, current : Nat]

AccountForm(f, at) ==
    f.verb = "role" => f.role \in Tiers /\ (at = "checked" => f.who \in DOMAIN user)

KeptForm(f) ==
    /\ f.verb = "pin" => f \in PinForms
    /\ f.verb = "reorder" => DOMAIN f.order \subseteq Nat \ {0}
    /\ f.verb = "tag" => f.scope \in Orgs \cup People /\ f.name \in TagNames
    /\ f.verb = "retag" => f \in RetagForms /\ f.tag \in DOMAIN tag
    /\ f.verb = "link" => f.tag \in DOMAIN tag /\ f.items \subseteq Targets
    /\ f.verb = "setting" => f.actor \in People

\* An edit whose version has been met has moved the issue on.
DeskForm(f, at) ==
    /\ f.verb = "status" => f.actor \in People /\ f.body \in StateBodies
    /\ f.verb = "bulk" => f.actor \in People /\ f.body \in BulkBodies
    /\ f.verb = "look" => f \in LookForms
    /\ f.verb \in {"comment", "refresh"} => f.on \in DOMAIN issue
    /\ f.verb = "edit" => /\ f \in EditForms /\ f.on \in DOMAIN issue
                          /\ f.expected <= issue[f.on].version
                          /\ at = "found" => issue[f.on].local
                          /\ at \in {"found", "stale"} => f.expected <= f.current
                          /\ at \in {"edited", "stale"} => f.expected < issue[f.on].version
    /\ at \in {"edited", "stale"} => f.verb = "edit"
    /\ at = "looked" => /\ f.verb = "look"
                        /\ \A t \in f.chips : /\ t \in DOMAIN tag
                                              /\ CanSee(f.actor, tag[t].scope)

FormOK(f, at) == AccountForm(f, at) /\ KeptForm(f) /\ DeskForm(f, at)

FormsOK ==
    /\ DOMAIN pc = Requests /\ DOMAIN form = Requests
    /\ \A q \in Requests : FormOK(form[q], pc[q])

\* Two edits that were both accepted did not start from one version.
EditsDiffer ==
    \A p, q \in Requests :
       pc[p] = "edited" /\ pc[q] = "edited" /\ form[p].on = form[q].on
          /\ form[p].expected = form[q].expected => p = q

Inv == TablesOK /\ FormsOK /\ EditsDiffer

\* An issue stays what it is, and every change of it is a version, of no earlier date.
IssuesGrow ==
    /\ DOMAIN issue \subseteq DOMAIN issue'
    /\ \A i \in DOMAIN issue :
          /\ issue'[i].number = issue[i].number /\ issue'[i].local = issue[i].local
          /\ issue'[i].version \in Nat /\ issue[i].version <= issue'[i].version
          /\ issue'[i].updated \in Nat /\ issue[i].updated <= issue'[i].updated
          /\ issue'[i] = issue[i] \/ issue[i].version < issue'[i].version

\* What no step takes away: people, memberships, tags with their scopes, issues with
\* the versions they have reached.
Grows ==
    /\ DOMAIN user \subseteq DOMAIN user' /\ DOMAIN home \subseteq DOMAIN home'
    /\ DOMAIN tag \subseteq DOMAIN tag'
    /\ \A t \in DOMAIN tag : tag'[t].scope = tag[t].scope
    /\ IssuesGrow

\* The invariant is what the runs check, and holds where the server starts.
LEMMA InvSays == Inv => DeskTypeOK /\ DeletedAreNameless
  <1> SUFFICES ASSUME Inv PROVE DeskTypeOK /\ DeletedAreNameless
    OBVIOUS
  <1>1. DeletedAreNameless
    BY DEF Inv, TablesOK, UserOK
  <1>2. AccountsTypeOK
    BY DEF Inv, TablesOK, UserOK, HomeOK, StampOK, AccountsTypeOK
  <1>3. TypeOK
    BY <1>2 DEF Inv, TablesOK, PinOK, TagOK, LinkOK, TypeOK
  <1>4. ASSUME NEW q \in Requests, pc[q] = "stale"
        PROVE  form[q].current >= form[q].expected
               /\ issue[form[q].on].version > form[q].expected
    <2>1. FormOK(form[q], "stale")
      BY <1>4 DEF Inv, FormsOK
    <2>2. form[q] \in EditForms /\ form[q].on \in DOMAIN issue
      BY <2>1 DEF FormOK, DeskForm
    <2>3. issue[form[q].on].version \in Nat
      BY <2>2 DEF Inv, TablesOK, IssueOK, IssueRows
    <2>4. form[q].expected <= form[q].current /\ form[q].expected < issue[form[q].on].version
      BY <2>1 DEF FormOK, DeskForm
    <2> QED
      BY <2>2, <2>3, <2>4 DEF EditForms
  <1>5. ASSUME NEW q \in Requests, pc[q] = "looked"
        PROVE  \A t \in form[q].chips : CanSee(form[q].actor, tag[t].scope)
    BY <1>5 DEF Inv, FormsOK, FormOK, DeskForm
  <1> QED
    BY <1>1, <1>3, <1>4, <1>5
    DEF Inv, TablesOK, IssueOK, LogOK, InboxOK, EditsDiffer, DeskTypeOK

LEMMA InvStarts == Init => Inv
  <1> SUFFICES ASSUME Init PROVE Inv
    OBVIOUS
  <1>1. TablesOK
    BY DEF Init, DeskTypeOK, TypeOK, AccountsTypeOK, TablesOK, UserOK, HomeOK, StampOK, PinOK,
           TagOK, LinkOK, IssueOK, LogOK, InboxOK
  <1>2. ASSUME NEW q \in Requests
        PROVE  FormOK(form[q], pc[q]) /\ pc[q] # "edited"
    <2>1. form[q].verb = "none" /\ pc[q] \in {"idle", "done"}
      BY DEF Init, NoForm
    <2> QED
      BY <2>1 DEF FormOK, AccountForm, KeptForm, DeskForm
  <1> QED
    BY <1>1, <1>2 DEF Inv, FormsOK, EditsDiffer, Init

-----------------------------------------------------------------------------
(* The steps of requests *)

\* What a request carries stays true of tables that grow.
LEMMA FormsLast ==
    ASSUME Inv, Grows, NEW f, NEW at, FormOK(f, at)
    PROVE  FormOK(f, at)'
  <1>1. AccountForm(f, at)'
    BY DEF FormOK, AccountForm, Grows
  <1>2. KeptForm(f)'
    BY DEF FormOK, KeptForm, Grows
  <1>5. f.verb = "edit" =>
           /\ f \in EditForms /\ f.on \in DOMAIN issue'
           /\ f.expected <= issue'[f.on].version
           /\ at = "found" => issue'[f.on].local
           /\ at \in {"found", "stale"} => f.expected <= f.current
           /\ at \in {"edited", "stale"} => f.expected < issue'[f.on].version
    <2> SUFFICES ASSUME f.verb = "edit"
                 PROVE  /\ f \in EditForms /\ f.on \in DOMAIN issue'
                        /\ f.expected <= issue'[f.on].version
                        /\ at = "found" => issue'[f.on].local
                        /\ at \in {"found", "stale"} => f.expected <= f.current
                        /\ at \in {"edited", "stale"} => f.expected < issue'[f.on].version
      OBVIOUS
    <2>1. f \in EditForms /\ f.on \in DOMAIN issue
      BY DEF FormOK, DeskForm
    <2>2. f.expected \in Nat /\ issue[f.on].version \in Nat /\ f.on \in DOMAIN issue'
          /\ issue[f.on].version <= issue'[f.on].version
          /\ issue'[f.on].local = issue[f.on].local
      BY <2>1 DEF EditForms, Inv, TablesOK, IssueOK, IssueRows, Grows, IssuesGrow
    <2>3. issue'[f.on].version \in Int
      BY <2>1 DEF Grows, IssuesGrow
    <2>4. /\ f.expected <= issue[f.on].version
          /\ at = "found" => issue[f.on].local
          /\ at \in {"found", "stale"} => f.expected <= f.current
          /\ at \in {"edited", "stale"} => f.expected < issue[f.on].version
      BY DEF FormOK, DeskForm
    <2> QED
      BY <2>1, <2>2, <2>3, <2>4
  <1>6. at = "looked" => /\ f.verb = "look"
                         /\ \A t \in f.chips : t \in DOMAIN tag' /\ CanSee(f.actor, tag[t].scope)'
    <2> SUFFICES ASSUME at = "looked", NEW t \in f.chips
                 PROVE  t \in DOMAIN tag' /\ CanSee(f.actor, tag[t].scope)'
      BY DEF FormOK, DeskForm
    <2>1. t \in DOMAIN tag /\ CanSee(f.actor, tag[t].scope)
      BY DEF FormOK, DeskForm
    <2> QED
      BY <2>1 DEF CanSee, Grows
  <1>7. DeskForm(f, at)'
    BY <1>5, <1>6 DEF FormOK, DeskForm, Grows, IssuesGrow
  <1> QED
    BY <1>1, <1>2, <1>7 DEF FormOK

\* One request has moved, and left the accepted edits as they were.
Moved(q) ==
    /\ DOMAIN pc' = Requests /\ DOMAIN form' = Requests
    /\ \A p \in Requests \ {q} : form'[p] = form[p] /\ pc'[p] = pc[p]

LEMMA GoMoves ==
    ASSUME Inv, NEW q \in Requests, NEW at, NEW f, Go(q, at, f)
    PROVE  Moved(q) /\ pc'[q] = at /\ form'[q] = f
  BY DEF Go, Moved, Inv, FormsOK

LEMMA EndMoves ==
    ASSUME Inv, NEW q \in Requests, NEW at, End(q, at), at \notin {"edited", "stale", "looked"}
    PROVE  Moved(q) /\ pc'[q] # "edited" /\ FormOK(form[q], pc[q])'
  <1>1. Moved(q) /\ pc'[q] = at /\ form'[q] = NoForm
    BY DEF Go, End, Moved, Inv, FormsOK
  <1> QED
    BY <1>1 DEF NoForm, FormOK, AccountForm, KeptForm, DeskForm

\* Then every request carries what it should, and no two edits agree.
LEMMA OthersStay ==
    ASSUME Inv, Grows, NEW q \in Requests, Moved(q), pc'[q] # "edited", FormOK(form[q], pc[q])'
    PROVE  FormsOK' /\ EditsDiffer'
  <1>1. ASSUME NEW p \in Requests
        PROVE  FormOK(form[p], pc[p])'
    <2>1. CASE p = q
      BY <2>1
    <2>2. CASE p # q
      <3>1. PICK f, at : f = form[p] /\ at = pc[p]
        OBVIOUS
      <3>2. f = form'[p] /\ at = pc'[p]
        BY <2>2, <3>1 DEF Moved
      <3>3. FormOK(f, at)
        BY <3>1 DEF Inv, FormsOK
      <3>4. FormOK(f, at)'
        BY <3>3, FormsLast
      <3> QED
        BY <3>2, <3>4
    <2> QED
      BY <2>1, <2>2
  <1>2. EditsDiffer'
    BY DEF Inv, EditsDiffer, Moved
  <1> QED
    BY <1>1, <1>2 DEF FormsOK, Moved

LEMMA NobodyMoves ==
    ASSUME Inv, Grows, UNCHANGED <<pc, form>>
    PROVE  FormsOK' /\ EditsDiffer'
  <1>1. ASSUME NEW p \in Requests
        PROVE  FormOK(form[p], pc[p])'
    <2>1. PICK f, at : f = form[p] /\ at = pc[p]
      OBVIOUS
    <2>2. FormOK(f, at)
      BY <2>1 DEF Inv, FormsOK
    <2>3. FormOK(f, at)'
      BY <2>2, FormsLast
    <2> QED
      BY <2>1, <2>3
  <1> QED
    BY <1>1 DEF Inv, FormsOK, EditsDiffer

\* What a step leaves alone stays as it should be.
LEMMA Frames ==
    ASSUME Inv
    PROVE  /\ UNCHANGED user => UserOK' /\ DOMAIN user \subseteq DOMAIN user'
           /\ UNCHANGED home => HomeOK' /\ DOMAIN home \subseteq DOMAIN home'
           /\ UNCHANGED <<stamp, webhooks, restamped>> => StampOK'
           /\ UNCHANGED pin => PinOK'
           /\ UNCHANGED tag => /\ TagOK' /\ DOMAIN tag \subseteq DOMAIN tag'
                               /\ \A t \in DOMAIN tag : tag'[t].scope = tag[t].scope
           /\ UNCHANGED <<link, tag>> => LinkOK'
           /\ UNCHANGED setting => (DOMAIN setting \subseteq People)'
           /\ UNCHANGED <<issue, counter, now>> =>
                 IssueOK' /\ IssuesGrow
           /\ UNCHANGED <<inbox, issue>> => InboxOK'
           /\ UNCHANGED log => LogOK'
           /\ UNCHANGED issue => IssuesGrow
  <1>1. \A i \in DOMAIN issue : issue[i].version \in Nat /\ issue[i].updated \in Nat
    BY DEF Inv, TablesOK, IssueOK, IssueRows
  <1>11. UNCHANGED issue => IssuesGrow
    BY <1>1 DEF IssuesGrow
  <1>2. UNCHANGED user => UserOK'
    BY DEF Inv, TablesOK, UserOK, DeletedAreNameless
  <1>3. UNCHANGED home => HomeOK'
    BY DEF Inv, TablesOK, HomeOK
  <1>4. UNCHANGED <<stamp, webhooks, restamped>> => StampOK'
    BY DEF Inv, TablesOK, StampOK
  <1>5. UNCHANGED tag => TagOK'
    BY DEF Inv, TablesOK, TagOK, NameIsFree
  <1>6. UNCHANGED <<link, tag>> => LinkOK'
    BY DEF Inv, TablesOK, LinkOK
  <1>7. UNCHANGED <<issue, counter, now>> => IssueOK'
    BY DEF Inv, TablesOK, IssueOK, NumbersDiffer
  <1>8. UNCHANGED <<inbox, issue>> => InboxOK'
    BY DEF Inv, TablesOK, InboxOK
  <1>10. UNCHANGED log => LogOK'
    BY DEF Inv, TablesOK, LogOK
  <1>9. (UNCHANGED pin => PinOK') /\ (UNCHANGED setting => (DOMAIN setting \subseteq People)')
    BY DEF Inv, TablesOK, PinOK
  <1> QED
    BY <1>11, <1>2, <1>3, <1>4, <1>5, <1>6, <1>7, <1>8, <1>9, <1>10

LEMMA StillKeeps ==
    ASSUME Inv, UNCHANGED <<still, desk>>
    PROVE  TablesOK' /\ Grows
  BY Frames DEF still, desk, accounts, personal, TablesOK, Grows

\* The ways a request moves.
LEMMA Ends ==
    ASSUME Inv, NEW q \in Requests, NEW at, End(q, at), at \notin {"edited", "stale", "looked"},
           TablesOK', Grows
    PROVE  Inv'
  BY EndMoves, OthersStay DEF Inv

LEMMA Goes ==
    ASSUME Inv, NEW q \in Requests, NEW at, NEW f, Go(q, at, f), at # "edited",
           FormOK(f, at), TablesOK', Grows
    PROVE  Inv'
  <1>1. Moved(q) /\ pc'[q] = at /\ form'[q] = f
    BY GoMoves
  <1>2. FormOK(f, at)'
    BY FormsLast
  <1> QED
    BY <1>1, <1>2, OthersStay DEF Inv

LEMMA Gotos ==
    ASSUME Inv, NEW q \in Requests, NEW at, Goto(q, at), at # "edited",
           FormOK(form[q], at), TablesOK', Grows
    PROVE  Inv'
  <1>1. PICK f : f = form[q]
    OBVIOUS
  <1>2. Moved(q) /\ pc'[q] = at /\ form'[q] = f
    BY <1>1 DEF Goto, Moved, Inv, FormsOK
  <1>3. FormOK(f, at)'
    BY <1>1, FormsLast
  <1> QED
    BY <1>2, <1>3, OthersStay DEF Inv

\* Requests that carry nothing the tables have to bear out.
FreeVerbs == {"none", "profile", "anonymise", "home", "export", "unpin", "unlink", "create",
              "queue", "list", "timeline"}

LEMMA FreeForms ==
    ASSUME NEW f, NEW at, f.verb \in FreeVerbs, at \notin {"edited", "stale", "looked"}
    PROVE  FormOK(f, at)
  BY DEF FreeVerbs, FormOK, AccountForm, KeptForm, DeskForm

LEMMA AskKeeps ==
    ASSUME Inv, NEW q \in Requests, NEW f, Ask(q, f), FormOK(f, "admitted"),
           UNCHANGED <<still, desk>>
    PROVE  Inv'
  <1>1. TablesOK' /\ Grows
    BY StillKeeps
  <1>2. CASE End(q, "denied")
    BY <1>1, <1>2, Ends
  <1>3. CASE Go(q, "admitted", f)
    BY <1>1, <1>3, Goes
  <1> QED
    BY <1>2, <1>3 DEF Ask

-----------------------------------------------------------------------------
(* Accounts *)

LEMMA AskOperatorKeeps ==
    ASSUME Inv, NEW q \in Requests, AskOperator(q), UNCHANGED <<still, desk>>
    PROVE  Inv'
  <1>1. PICK a \in DOMAIN user, u \in People :
           \/ \E r \in Tiers : Ask(q, [verb |-> "role", actor |-> a, who |-> u, role |-> r])
           \/ Ask(q, [verb |-> "profile", actor |-> a, who |-> u])
           \/ Ask(q, [verb |-> "anonymise", actor |-> a, who |-> u])
           \/ \E o \in Orgs : Ask(q, [verb |-> "home", actor |-> a, who |-> u, org |-> o])
           \/ u = Subject /\ Ask(q, [verb |-> "export", actor |-> a, who |-> u])
    BY DEF AskOperator
  <1>2. ASSUME NEW r \in Tiers, Ask(q, [verb |-> "role", actor |-> a, who |-> u, role |-> r])
        PROVE  Inv'
    <2>1. PICK f : f = [verb |-> "role", actor |-> a, who |-> u, role |-> r]
      OBVIOUS
    <2>2. FormOK(f, "admitted")
      BY <2>1 DEF FormOK, AccountForm, KeptForm, DeskForm
    <2> QED
      BY <1>2, <2>1, <2>2, AskKeeps
  <1>3. ASSUME NEW f, f.verb \in FreeVerbs, Ask(q, f)
        PROVE  Inv'
    BY <1>3, FreeForms, AskKeeps
  <1>4. CASE \E r \in Tiers : Ask(q, [verb |-> "role", actor |-> a, who |-> u, role |-> r])
    BY <1>2, <1>4
  <1>5. CASE Ask(q, [verb |-> "profile", actor |-> a, who |-> u])
    BY <1>3, <1>5 DEF FreeVerbs
  <1>6. CASE Ask(q, [verb |-> "anonymise", actor |-> a, who |-> u])
    BY <1>3, <1>6 DEF FreeVerbs
  <1>7. CASE \E o \in Orgs : Ask(q, [verb |-> "home", actor |-> a, who |-> u, org |-> o])
    BY <1>3, <1>7 DEF FreeVerbs
  <1>8. CASE u = Subject /\ Ask(q, [verb |-> "export", actor |-> a, who |-> u])
    BY <1>3, <1>8 DEF FreeVerbs
  <1> QED
    BY <1>1, <1>4, <1>5, <1>6, <1>7, <1>8

LEMMA CheckRoleKeeps ==
    ASSUME Inv, NEW q \in Requests, CheckRole(q), UNCHANGED <<personal, desk>>
    PROVE  Inv'
  <1>1. TablesOK' /\ Grows
    BY StillKeeps DEF CheckRole, still
  <1>2. CASE \E at \in {"missing", "refused"} : End(q, at)
    BY <1>1, <1>2, Ends
  <1>3. CASE Goto(q, "checked") /\ form[q].who \in DOMAIN user
    <2>1. FormOK(form[q], pc[q]) /\ form[q].verb = "role"
      BY DEF Inv, FormsOK, CheckRole, Is
    <2>2. FormOK(form[q], "checked")
      BY <1>3, <2>1 DEF FormOK, AccountForm, KeptForm, DeskForm
    <2> QED
      BY <1>1, <1>3, <2>2, Gotos
  <1> QED
    BY <1>2, <1>3 DEF CheckRole

\* A row that is changed keeps its person; those that say deleted name nobody.
LEMMA UsersKeep ==
    ASSUME Inv, UserOK', DOMAIN user \subseteq DOMAIN user',
           UNCHANGED <<home, stamp, webhooks, restamped, personal, desk>>
    PROVE  TablesOK' /\ Grows
  BY Frames DEF personal, desk, TablesOK, Grows

LEMMA SetRoleKeeps ==
    ASSUME Inv, NEW q \in Requests, SetRole(q), UNCHANGED <<personal, desk>>
    PROVE  Inv'
  <1>1. FormOK(form[q], "checked") /\ form[q].verb = "role"
    BY DEF Inv, FormsOK, SetRole, Is
  <1>2. form[q].role \in Tiers /\ form[q].who \in DOMAIN user
    BY <1>1 DEF FormOK, AccountForm
  <1>3. UserOK
    BY DEF Inv, TablesOK
  <1>4. PICK u, r : u = form[q].who /\ r = form[q].role
    OBVIOUS
  <1>5. CASE End(q, "missing") /\ UNCHANGED user
    <2>1. TablesOK' /\ Grows
      BY <1>5, UsersKeep, Frames DEF SetRole
    <2> QED
      BY <1>5, <2>1, Ends
  <1>6. CASE user' = [user EXCEPT ![u].role = r] /\ End(q, "done")
    <2>1. UserOK' /\ DOMAIN user \subseteq DOMAIN user'
      BY <1>2, <1>3, <1>4, <1>6 DEF UserOK, DeletedAreNameless
    <2>2. TablesOK' /\ Grows
      BY <2>1, UsersKeep DEF SetRole
    <2> QED
      BY <1>6, <2>2, Ends
  <1> QED
    BY <1>4, <1>5, <1>6 DEF SetRole

LEMMA UpdateUserKeeps ==
    ASSUME Inv, NEW q \in Requests, UpdateUser(q), UNCHANGED <<personal, desk>>
    PROVE  Inv'
  <1>1. PICK u : u = form[q].who
    OBVIOUS
  <1>2. UserOK
    BY DEF Inv, TablesOK
  <1>3. CASE End(q, "missing") /\ UNCHANGED user
    <2>1. TablesOK' /\ Grows
      BY <1>3, UsersKeep, Frames DEF UpdateUser
    <2> QED
      BY <1>3, <2>1, Ends
  <1>4. CASE /\ u \in DOMAIN user /\ ~user[u].deleted
             /\ user' = [user EXCEPT ![u].name = "operator"] /\ End(q, "done")
    <2>1. UserOK' /\ DOMAIN user \subseteq DOMAIN user'
      BY <1>2, <1>4 DEF UserOK, DeletedAreNameless, Names
    <2>2. TablesOK' /\ Grows
      BY <2>1, UsersKeep DEF UpdateUser
    <2> QED
      BY <1>4, <2>2, Ends
  <1> QED
    BY <1>1, <1>3, <1>4 DEF UpdateUser

LEMMA PseudonymiseKeeps ==
    ASSUME Inv, NEW q \in Requests, Pseudonymise(q), UNCHANGED <<personal, desk>>
    PROVE  Inv'
  <1>1. PICK u : u = form[q].who
    OBVIOUS
  <1>2. UserOK
    BY DEF Inv, TablesOK
  <1>3. CASE End(q, "missing") /\ UNCHANGED user
    <2>1. TablesOK' /\ Grows
      BY <1>3, UsersKeep, Frames DEF Pseudonymise
    <2> QED
      BY <1>3, <2>1, Ends
  <1>4. CASE /\ u \in DOMAIN user /\ End(q, "done")
             /\ user' = [user EXCEPT ![u].name = "nobody", ![u].deleted = TRUE]
    <2>1. UserOK' /\ DOMAIN user \subseteq DOMAIN user'
      BY <1>2, <1>4 DEF UserOK, DeletedAreNameless, Names
    <2>2. TablesOK' /\ Grows
      BY <2>1, UsersKeep DEF Pseudonymise
    <2> QED
      BY <1>4, <2>2, Ends
  <1> QED
    BY <1>1, <1>3, <1>4 DEF Pseudonymise

\* Whichever membership is given the home org, the others of its person lose theirs.
LEMMA SetHomeOrgKeeps ==
    ASSUME Inv, NEW q \in Requests, SetHomeOrg(q), UNCHANGED <<personal, desk>>
    PROVE  Inv'
  <1>1. PICK u, o : u = form[q].who /\ o = form[q].org
    OBVIOUS
  <1>2. HomeOK
    BY DEF Inv, TablesOK
  <1>3. ASSUME HomeOK', DOMAIN home \subseteq DOMAIN home'
        PROVE  TablesOK' /\ Grows
    BY <1>3, Frames DEF SetHomeOrg, personal, desk, TablesOK, Grows
  <1>4. CASE End(q, "missing") /\ UNCHANGED home
    BY <1>3, <1>4, Frames, Ends
  <1>5. CASE SetOnlyHome(u, o) /\ End(q, "done")
    <2>1. DOMAIN home' = DOMAIN home
          /\ \A m \in DOMAIN home : home'[m] = (CASE m[1] # u    -> home[m]
                                                  [] m = <<u, o>> -> o
                                                  [] OTHER        -> None)
      BY <1>5 DEF SetOnlyHome
    <2>2. \A m \in DOMAIN home : /\ m[1] # u => home'[m] = home[m]
                                 /\ m[1] = u /\ m = <<u, o>> => home'[m] = o /\ m[2] = o
                                 /\ m[1] = u /\ m # <<u, o>> => home'[m] = None
      BY <2>1
    <2>3. HomeOK'
      BY <1>2, <2>1, <2>2 DEF HomeOK
    <2> QED
      BY <1>3, <1>5, <2>1, <2>3, Ends
  <1> QED
    BY <1>1, <1>4, <1>5 DEF SetHomeOrg

LEMMA ExportKeeps ==
    ASSUME Inv, NEW q \in Requests, ReadUser(q) \/ ReadPage(q) \/ BreakOff(q),
           UNCHANGED <<personal, desk>>
    PROVE  Inv'
  <1>1. TablesOK' /\ Grows
    BY StillKeeps DEF ReadUser, ReadPage, BreakOff, still
  <1>2. ASSUME NEW at \in {"missing", "failed"}, End(q, at)
        PROVE  Inv'
    BY <1>1, <1>2, Ends
  <1>3. ASSUME NEW f, NEW at \in {"streaming", "exported"}, Go(q, at, f), f.verb = "export"
        PROVE  Inv'
    BY <1>1, <1>3, FreeForms, Goes DEF FreeVerbs
  <1>4. CASE ReadUser(q)
    BY <1>2, <1>3, <1>4 DEF ReadUser
  <1>5. CASE BreakOff(q)
    BY <1>2, <1>5 DEF BreakOff
  <1>6. CASE ReadPage(q)
    <2>1. PICK s \in Listings :
             LET f    == form[q]
                 page == SubSeq(s, f.offset + 1,
                                IF f.offset + PageSize < Len(s) THEN f.offset + PageSize
                                                                ELSE Len(s))
                 new  == IF page = <<>> THEN f ELSE Fold(f, page)
             IN  IF Len(page) < PageSize
                   THEN Go(q, "exported", [new EXCEPT !.out = Flush(new)])
                   ELSE Go(q, "streaming", new)
      BY <1>6 DEF ReadPage
    <2>2. PICK page : page = SubSeq(s, form[q].offset + 1,
                                IF form[q].offset + PageSize < Len(s) THEN form[q].offset + PageSize
                                                                      ELSE Len(s))
      OBVIOUS
    <2>3. PICK new : new = IF page = <<>> THEN form[q] ELSE Fold(form[q], page)
      OBVIOUS
    <2>4. form[q].verb = "export"
      BY <1>6 DEF ReadPage, Is
    <2>5. new.verb = "export" /\ [new EXCEPT !.out = Flush(new)].verb = "export"
      BY <2>3, <2>4 DEF Fold
    <2>6. \/ Go(q, "exported", [new EXCEPT !.out = Flush(new)])
          \/ Go(q, "streaming", new)
      BY <2>1, <2>2, <2>3
    <2> QED
      BY <1>3, <2>5, <2>6
  <1> QED
    BY <1>4, <1>5, <1>6

LEMMA DeliverKeeps ==
    ASSUME Inv, Deliver, UNCHANGED <<personal, desk>>
    PROVE  Inv'
  <1>1. UserOK /\ HomeOK /\ StampOK
    BY DEF Inv, TablesOK
  <1>2. ASSUME NEW u \in People, UpsertUser(u)
        PROVE  UserOK' /\ DOMAIN user \subseteq DOMAIN user'
    BY <1>1, <1>2 DEF UserOK, UpsertUser, With, DeletedAreNameless, Names, Tiers
  <1>3. ASSUME NEW u \in People, NEW o \in Orgs, UpsertMembership(u, o)
        PROVE  HomeOK' /\ DOMAIN home \subseteq DOMAIN home'
    <2>1. PICK m : m = <<u, o>>
      OBVIOUS
    <2>2. /\ DOMAIN home' = DOMAIN home \cup {m}
          /\ \A n \in DOMAIN home : home'[n] = home[n]
          /\ m \notin DOMAIN home => home'[m] = None
      BY <1>3, <2>1 DEF UpsertMembership, With
    <2> QED
      BY <1>1, <2>1, <2>2 DEF HomeOK
  <1>4. (webhooks \in 0..MaxWebhooks)'
    BY <1>1, AccountsAssumption DEF Deliver, StampOK
  <1>5. CASE \E u \in People, o \in Orgs : DeliverMember(u, o)
    <2>1. UserOK' /\ DOMAIN user \subseteq DOMAIN user' /\ HomeOK' /\ DOMAIN home \subseteq DOMAIN home'
      BY <1>2, <1>3, <1>5, Frames DEF DeliverMember
    <2>2. StampOK'
      BY <1>1, <1>4, <1>5 DEF StampOK, DeliverMember
    <2> QED
      BY <2>1, <2>2, Frames, NobodyMoves DEF Deliver, personal, desk, Inv, TablesOK, Grows
  <1>6. CASE \E e \in Events, t \in Times : DeliverEvent(e, t)
    <2>1. UserOK' /\ DOMAIN user \subseteq DOMAIN user' /\ HomeOK' /\ DOMAIN home \subseteq DOMAIN home'
      BY <1>2, <1>6, Frames, AccountsAssumption DEF DeliverEvent
    <2>2. StampOK'
      BY <1>1, <1>4, <1>6 DEF StampOK, DeliverEvent, With
    <2> QED
      BY <2>1, <2>2, Frames, NobodyMoves DEF Deliver, personal, desk, Inv, TablesOK, Grows
  <1> QED
    BY <1>5, <1>6 DEF Deliver

-----------------------------------------------------------------------------
(* Pins, tags and settings *)

\* A request that is one of these carries what it should when it is let through.
LEMMA FormsStart ==
    ASSUME Inv, NEW f, NEW a \in DOMAIN user
    PROVE  /\ f \in PinForms => FormOK(f, "admitted")
           /\ f \in RetagForms /\ f.tag \in DOMAIN tag => FormOK(f, "admitted")
           /\ f \in LookForms => FormOK(f, "admitted")
           /\ a \in People
  <1>1. a \in People
    BY DEF Inv, TablesOK, UserOK
  <1>2. f \in PinForms => FormOK(f, "admitted")
    BY DEF PinForms, FormOK, AccountForm, KeptForm, DeskForm
  <1>3. f \in RetagForms /\ f.tag \in DOMAIN tag => FormOK(f, "admitted")
    BY DEF RetagForms, FormOK, AccountForm, KeptForm, DeskForm
  <1>4. f \in LookForms => FormOK(f, "admitted")
    BY DEF LookForms, FormOK, AccountForm, KeptForm, DeskForm
  <1> QED
    BY <1>1, <1>2, <1>3, <1>4

LEMMA AskPinKeeps ==
    ASSUME Inv, NEW q \in Requests, AskPin(q), UNCHANGED <<still, desk>>
    PROVE  Inv'
  <1>1. PICK a \in DOMAIN user :
           \/ \E x \in Targets :
                 \/ Ask(q, [verb |-> "pin", actor |-> a, target |-> x, position |-> 0])
                 \/ Ask(q, [verb |-> "unpin", actor |-> a, target |-> x])
           \/ \E s \in SetToSeqs(PinsOf(a)) :
                 Ask(q, [verb |-> "reorder", actor |-> a, order |-> s])
    BY DEF AskPin
  <1>2. CASE \E x \in Targets :
                \/ Ask(q, [verb |-> "pin", actor |-> a, target |-> x, position |-> 0])
                \/ Ask(q, [verb |-> "unpin", actor |-> a, target |-> x])
    <2>1. PICK x \in Targets :
             \/ Ask(q, [verb |-> "pin", actor |-> a, target |-> x, position |-> 0])
             \/ Ask(q, [verb |-> "unpin", actor |-> a, target |-> x])
      BY <1>2
    <2>2. CASE Ask(q, [verb |-> "pin", actor |-> a, target |-> x, position |-> 0])
      <3>1. PICK f : f = [verb |-> "pin", actor |-> a, target |-> x, position |-> 0]
        OBVIOUS
      <3>2. f \in PinForms
        BY <3>1, FormsStart DEF PinForms
      <3> QED
        BY <2>2, <3>1, <3>2, FormsStart, AskKeeps
    <2>3. CASE Ask(q, [verb |-> "unpin", actor |-> a, target |-> x])
      <3>1. PICK f : f = [verb |-> "unpin", actor |-> a, target |-> x]
        OBVIOUS
      <3>2. FormOK(f, "admitted")
        BY <3>1, FreeForms DEF FreeVerbs
      <3> QED
        BY <2>3, <3>1, <3>2, AskKeeps
    <2> QED
      BY <2>1, <2>2, <2>3
  <1>3. CASE \E s \in SetToSeqs(PinsOf(a)) :
                Ask(q, [verb |-> "reorder", actor |-> a, order |-> s])
    <2>1. PICK s \in SetToSeqs(PinsOf(a)) :
             Ask(q, [verb |-> "reorder", actor |-> a, order |-> s])
      BY <1>3
    <2>2. PICK f : f = [verb |-> "reorder", actor |-> a, order |-> s]
      OBVIOUS
    <2>3. DOMAIN s \subseteq Nat \ {0}
      BY DEF SetToSeqs
    <2>4. FormOK(f, "admitted")
      BY <2>2, <2>3 DEF FormOK, AccountForm, KeptForm, DeskForm
    <2> QED
      BY <2>1, <2>2, <2>4, AskKeeps
  <1> QED
    BY <1>1, <1>2, <1>3

LEMMA PinsAreFinite == ASSUME NEW a PROVE Cardinality(PinsOf(a)) \in Nat
  <1>1. PinsOf(a) \subseteq Targets
    BY DEF PinsOf
  <1> QED
    BY <1>1, PersonalAssumption, FS_Subset, FS_CardinalityType

LEMMA ReadPinsKeeps ==
    ASSUME Inv, NEW q \in Requests, ReadPins(q), UNCHANGED desk
    PROVE  Inv'
  <1>1. TablesOK' /\ Grows
    BY StillKeeps DEF ReadPins, still
  <1>2. FormOK(form[q], "admitted") /\ form[q].verb = "pin"
    BY DEF Inv, FormsOK, ReadPins, Is
  <1>3. form[q] \in PinForms
    BY <1>2 DEF FormOK, KeptForm
  <1>4. PICK n : n = Cardinality(PinsOf(form[q].actor)) /\ n \in Nat
    BY PinsAreFinite
  <1>5. CASE End(q, "refused")
    BY <1>1, <1>5, Ends
  <1>6. CASE Go(q, "placed", [form[q] EXCEPT !.position = n])
    <2>1. PICK f : f = [form[q] EXCEPT !.position = n]
      OBVIOUS
    <2>2. f \in PinForms
      BY <1>3, <1>4, <2>1 DEF PinForms
    <2>3. FormOK(f, "placed")
      BY <2>2 DEF PinForms, FormOK, AccountForm, KeptForm, DeskForm
    <2> QED
      BY <1>1, <1>6, <2>1, <2>3, Goes
  <1> QED
    BY <1>4, <1>5, <1>6 DEF ReadPins

LEMMA CountPinsKeeps ==
    ASSUME Inv, NEW q \in Requests, CountPins(q), UNCHANGED desk
    PROVE  Inv'
  <1>1. TablesOK' /\ Grows
    BY StillKeeps DEF CountPins, still
  <1>2. FormOK(form[q], pc[q]) /\ form[q].verb = "pin"
    BY DEF Inv, FormsOK, CountPins, Is
  <1>3. FormOK(form[q], "counted")
    BY <1>2 DEF FormOK, AccountForm, KeptForm, DeskForm
  <1>4. CASE End(q, "refused")
    BY <1>1, <1>4, Ends
  <1>5. CASE Goto(q, "counted")
    BY <1>1, <1>3, <1>5, Gotos
  <1> QED
    BY <1>4, <1>5 DEF CountPins

\* Steps that change the pins, the links or the settings alone.
LEMMA KeptKeep ==
    ASSUME Inv, PinOK', LinkOK', (DOMAIN setting \subseteq People)',
           UNCHANGED <<accounts, tag, desk>>
    PROVE  TablesOK' /\ Grows
  BY Frames DEF accounts, desk, TablesOK, Grows

LEMMA InsertPinKeeps ==
    ASSUME Inv, NEW q \in Requests, InsertPin(q), UNCHANGED desk
    PROVE  Inv'
  <1>1. FormOK(form[q], pc[q]) /\ form[q].verb = "pin"
    BY DEF Inv, FormsOK, InsertPin, Is
  <1>2. form[q] \in PinForms
    BY <1>1 DEF FormOK, KeptForm
  <1>3. PinOK
    BY DEF Inv, TablesOK
  <1>4. PICK k, n : k = <<form[q].actor, form[q].target>> /\ n = form[q].position
    OBVIOUS
  <1>5. CASE UNCHANGED pin /\ End(q, "refused")
    BY <1>5, Frames, KeptKeep, Ends DEF InsertPin
  <1>6. CASE pin' = With(pin, k, n) /\ End(q, "done")
    <2>1. k \in People \X Targets /\ n \in Nat
      BY <1>2, <1>4 DEF PinForms
    <2>2. PinOK'
      BY <1>3, <1>6, <2>1 DEF PinOK, With
    <2> QED
      BY <1>6, <2>2, Frames, KeptKeep, Ends DEF InsertPin
  <1> QED
    BY <1>4, <1>5, <1>6 DEF InsertPin

LEMMA RemovePinKeeps ==
    ASSUME Inv, NEW q \in Requests, RemovePin(q), UNCHANGED desk
    PROVE  Inv'
  <1>1. PinOK'
    BY DEF Inv, TablesOK, PinOK, RemovePin
  <1>2. TablesOK' /\ Grows
    BY <1>1, Frames, KeptKeep DEF RemovePin
  <1> QED
    BY <1>2, Ends DEF RemovePin

LEMMA CheckOrderKeeps ==
    ASSUME Inv, NEW q \in Requests, CheckOrder(q), UNCHANGED desk
    PROVE  Inv'
  <1>1. TablesOK' /\ Grows
    BY StillKeeps DEF CheckOrder, still
  <1>2. FormOK(form[q], pc[q]) /\ form[q].verb = "reorder"
    BY DEF Inv, FormsOK, CheckOrder
  <1>3. FormOK(form[q], "matched") /\ FormOK(form[q], "checked")
    BY <1>2 DEF FormOK, AccountForm, KeptForm, DeskForm
  <1>4. CASE End(q, "refused")
    BY <1>1, <1>4, Ends
  <1>5. CASE Goto(q, "matched")
    BY <1>1, <1>3, <1>5, Gotos
  <1>6. CASE Goto(q, "checked")
    BY <1>1, <1>3, <1>6, Gotos
  <1> QED
    BY <1>4, <1>5, <1>6 DEF CheckOrder

LEMMA RewriteOrderKeeps ==
    ASSUME Inv, NEW q \in Requests, RewriteOrder(q), UNCHANGED desk
    PROVE  Inv'
  <1>1. FormOK(form[q], pc[q]) /\ form[q].verb = "reorder"
    BY DEF Inv, FormsOK, RewriteOrder, Is
  <1>2. PICK s : s = form[q].order /\ DOMAIN s \subseteq Nat \ {0}
    BY <1>1 DEF FormOK, KeptForm
  <1> DEFINE place(x) == (CHOOSE i \in DOMAIN s : s[i] = x) - 1
  <1>3. \A x \in ToSet(s) : place(x) \in Nat
    BY <1>2 DEF ToSet
  <1>4. pin' = [k \in DOMAIN pin |->
                   IF k[1] = form[q].actor /\ k[2] \in ToSet(s) THEN place(k[2]) ELSE pin[k]]
    BY <1>2 DEF RewriteOrder
  <1> HIDE DEF place
  <1>5. PinOK'
    BY <1>3, <1>4 DEF Inv, TablesOK, PinOK
  <1>6. TablesOK' /\ Grows
    BY <1>5, Frames, KeptKeep DEF RewriteOrder
  <1> QED
    BY <1>6, Ends DEF RewriteOrder

LEMMA AskTagKeeps ==
    ASSUME Inv, NEW q \in Requests, AskTag(q), UNCHANGED <<still, desk>>
    PROVE  Inv'
  <1>1. PICK a \in DOMAIN user :
           \/ \E s \in Orgs \cup {a}, n \in TagNames :
                 Ask(q, [verb |-> "tag", actor |-> a, scope |-> s, name |-> n])
           \/ \E t \in DOMAIN tag :
                 \/ \E b \in TagBodies :
                       Ask(q, [verb |-> "retag", actor |-> a, tag |-> t, body |-> b])
                 \/ \E S \in SUBSET Targets \ {{}}, v \in {"link", "unlink"} :
                       Ask(q, [verb |-> v, actor |-> a, tag |-> t, items |-> S, rows |-> {}])
    BY DEF AskTag
  <1>2. CASE \E s \in Orgs \cup {a}, n \in TagNames :
                Ask(q, [verb |-> "tag", actor |-> a, scope |-> s, name |-> n])
    <2>1. PICK s \in Orgs \cup {a}, n \in TagNames :
             Ask(q, [verb |-> "tag", actor |-> a, scope |-> s, name |-> n])
      BY <1>2
    <2>2. PICK f : f = [verb |-> "tag", actor |-> a, scope |-> s, name |-> n]
      OBVIOUS
    <2>3. FormOK(f, "admitted")
      BY <2>2, FormsStart DEF FormOK, AccountForm, KeptForm, DeskForm
    <2> QED
      BY <2>1, <2>2, <2>3, AskKeeps
  <1>3. CASE \E t \in DOMAIN tag, b \in TagBodies :
                Ask(q, [verb |-> "retag", actor |-> a, tag |-> t, body |-> b])
    <2>1. PICK t \in DOMAIN tag, b \in TagBodies :
             Ask(q, [verb |-> "retag", actor |-> a, tag |-> t, body |-> b])
      BY <1>3
    <2>2. PICK f : f = [verb |-> "retag", actor |-> a, tag |-> t, body |-> b]
      OBVIOUS
    <2>3. b \in [name : TagNames \cup {None}, archived : BOOLEAN \cup {None}]
      BY DEF TagBodies
    <2>4. f \in RetagForms /\ f.tag \in DOMAIN tag
      BY <2>2, <2>3, FormsStart DEF RetagForms, Inv, TablesOK, TagOK
    <2> QED
      BY <2>1, <2>2, <2>4, FormsStart, AskKeeps
  <1>4. CASE \E t \in DOMAIN tag, S \in SUBSET Targets \ {{}}, v \in {"link", "unlink"} :
                Ask(q, [verb |-> v, actor |-> a, tag |-> t, items |-> S, rows |-> {}])
    <2>1. PICK t \in DOMAIN tag, S \in SUBSET Targets \ {{}}, v \in {"link", "unlink"} :
             Ask(q, [verb |-> v, actor |-> a, tag |-> t, items |-> S, rows |-> {}])
      BY <1>4
    <2>2. PICK f : f = [verb |-> v, actor |-> a, tag |-> t, items |-> S, rows |-> {}]
      OBVIOUS
    <2>3. FormOK(f, "admitted")
      BY <2>2 DEF FormOK, AccountForm, KeptForm, DeskForm
    <2> QED
      BY <2>1, <2>2, <2>3, AskKeeps
  <1> QED
    BY <1>1, <1>2, <1>3, <1>4

LEMMA CheckScopeKeeps ==
    ASSUME Inv, NEW q \in Requests, CheckScope(q), UNCHANGED desk
    PROVE  Inv'
  <1>1. TablesOK' /\ Grows
    BY StillKeeps DEF CheckScope, still
  <1>2. FormOK(form[q], pc[q]) /\ form[q].verb = "tag"
    BY DEF Inv, FormsOK, CheckScope, Is
  <1>3. FormOK(form[q], "checked")
    BY <1>2 DEF FormOK, AccountForm, KeptForm, DeskForm
  <1>4. CASE End(q, "denied")
    BY <1>1, <1>4, Ends
  <1>5. CASE Goto(q, "checked")
    BY <1>1, <1>3, <1>5, Gotos
  <1> QED
    BY <1>4, <1>5 DEF CheckScope

\* Steps that change the tags alone: no tag goes, nor leaves its scope.
LEMMA TagsKeep ==
    ASSUME Inv, TagOK', DOMAIN tag \subseteq DOMAIN tag',
           \A t \in DOMAIN tag : tag'[t].scope = tag[t].scope,
           UNCHANGED <<accounts, pin, link, setting, desk>>
    PROVE  TablesOK' /\ Grows
  <1>1. LinkOK'
    BY DEF Inv, TablesOK, LinkOK
  <1> QED
    BY <1>1, Frames DEF accounts, desk, TablesOK, Grows

LEMMA CreateTagKeeps ==
    ASSUME Inv, NEW q \in Requests, NEW t \in Tags, CreateTag(q, t), UNCHANGED desk
    PROVE  Inv'
  <1>1. FormOK(form[q], pc[q]) /\ form[q].verb = "tag"
    BY DEF Inv, FormsOK, CreateTag, Is
  <1>2. PICK s, n : s = form[q].scope /\ n = form[q].name
    OBVIOUS
  <1>3. s \in Orgs \cup People /\ n \in TagNames
    BY <1>1, <1>2 DEF FormOK, KeptForm
  <1>4. TagOK /\ t \notin DOMAIN tag
    BY DEF Inv, TablesOK, CreateTag
  <1>5. CASE End(q, "refused") /\ UNCHANGED tag
    BY <1>5, Frames, TagsKeep, Ends DEF CreateTag
  <1>6. CASE /\ NameIsFree(t, s, n) /\ End(q, "done")
             /\ tag' = With(tag, t, [scope |-> s, name |-> n, archived |-> FALSE])
    <2>1. /\ DOMAIN tag' = DOMAIN tag \cup {t}
          /\ \A o \in DOMAIN tag : tag'[o] = tag[o]
          /\ tag'[t] = [scope |-> s, name |-> n, archived |-> FALSE]
      BY <1>4, <1>6 DEF With
    <2>2. \A o \in DOMAIN tag' :
             tag'[o] \in [scope : Orgs \cup People, name : TagNames, archived : BOOLEAN]
      <3>1. tag'[t] \in [scope : Orgs \cup People, name : TagNames, archived : BOOLEAN]
        BY <1>3, <2>1
      <3> QED
        BY <1>4, <2>1, <3>1 DEF TagOK
    <2>3. ASSUME NEW o \in DOMAIN tag', NEW p \in DOMAIN tag' \ {o},
                 tag'[p].scope = tag'[o].scope, tag'[p].name = tag'[o].name
          PROVE  FALSE
      <3>1. tag'[t].scope = s /\ tag'[t].name = n
        BY <2>1
      <3>2. \A r \in DOMAIN tag : ~(tag[r].scope = s /\ tag[r].name = n)
        BY <1>4, <1>6 DEF NameIsFree
      <3>3. CASE o = t \/ p = t
        BY <2>1, <2>3, <3>1, <3>2, <3>3
      <3>4. CASE o # t /\ p # t
        BY <1>4, <2>1, <2>3, <3>4 DEF TagOK, NameIsFree
      <3> QED
        BY <3>3, <3>4
    <2>4. TagOK'
      BY <1>4, <2>1, <2>2, <2>3 DEF TagOK, NameIsFree
    <2> QED
      BY <1>6, <2>1, <2>4, TagsKeep, Ends DEF CreateTag
  <1> QED
    BY <1>2, <1>5, <1>6 DEF CreateTag

LEMMA ReadTagKeeps ==
    ASSUME Inv, NEW q \in Requests, ReadTag(q), UNCHANGED desk
    PROVE  Inv'
  <1>1. TablesOK' /\ Grows
    BY StillKeeps DEF ReadTag, still
  <1>2. FormOK(form[q], pc[q])
    BY DEF Inv, FormsOK
  <1>3. ASSUME NEW at \in {"missing", "refused"}, End(q, at)
        PROVE  Inv'
    BY <1>1, <1>3, Ends
  <1>4. CASE form[q].verb \in {"retag", "link"} /\ Goto(q, "read")
    <2>1. FormOK(form[q], "read")
      BY <1>2, <1>4 DEF FormOK, AccountForm, KeptForm, DeskForm
    <2> QED
      BY <1>1, <1>4, <2>1, Gotos
  <1>5. CASE form[q].verb = "retag"
             /\ \/ Go(q, "read", [form[q] EXCEPT !.body.archived = None])
                \/ Go(q, "read", form[q])
    <2>1. form[q] \in RetagForms /\ form[q].tag \in DOMAIN tag
      BY <1>2, <1>5 DEF FormOK, KeptForm
    <2>2. [form[q] EXCEPT !.body.archived = None] \in RetagForms
          /\ [form[q] EXCEPT !.body.archived = None].tag = form[q].tag
      BY <2>1 DEF RetagForms
    <2>3. PICK f : Go(q, "read", f) /\ f \in RetagForms /\ f.tag \in DOMAIN tag
      BY <1>5, <2>1, <2>2
    <2>4. FormOK(f, "read")
      BY <2>3 DEF RetagForms, FormOK, AccountForm, KeptForm, DeskForm
    <2> QED
      BY <1>1, <2>3, <2>4, Goes
  <1>6. CASE \E rows : form[q].verb = "unlink" /\ Go(q, "read", [form[q] EXCEPT !.rows = rows])
    <2>1. PICK rows : form[q].verb = "unlink" /\ Go(q, "read", [form[q] EXCEPT !.rows = rows])
      BY <1>6
    <2>2. PICK f : f = [form[q] EXCEPT !.rows = rows]
      OBVIOUS
    <2>3. f.verb = "unlink"
      BY <2>1, <2>2
    <2>4. f.verb \in FreeVerbs
      BY <2>3 DEF FreeVerbs
    <2>5. FormOK(f, "read")
      BY <2>4, FreeForms
    <2> QED
      BY <1>1, <2>1, <2>2, <2>5, Goes
  <1> QED
    <2> DEFINE f    == form[q]
               has  == {l.target : l \in LinksOf(f.tag)}
               rows == {l \in LinksOf(f.tag) : l.target \in f.items}
               noop == f.body.archived = TRUE /\ tag[f.tag].archived
    <2>1. IF ~CanSee(f.actor, tag[f.tag].scope) THEN End(q, "missing")
          ELSE \/ f.verb = "retag" /\ Go(q, "read",
                     IF noop THEN [f EXCEPT !.body.archived = None] ELSE f)
               \/ f.verb = "link" /\ IF f.items \cap has = {} THEN Goto(q, "read")
                                                              ELSE End(q, "refused")
               \/ f.verb = "unlink" /\ IF f.items \subseteq has
                                         THEN Go(q, "read", [f EXCEPT !.rows = rows])
                                         ELSE End(q, "refused")
      BY DEF ReadTag
    <2> HIDE DEF has, rows, noop
    <2>2. CASE f.verb = "retag" /\ Go(q, "read",
                     IF noop THEN [f EXCEPT !.body.archived = None] ELSE f)
      BY <1>5, <2>2
    <2>3. CASE f.verb = "link" /\ IF f.items \cap has = {} THEN Goto(q, "read")
                                                            ELSE End(q, "refused")
      BY <1>3, <1>4, <2>3
    <2>4. CASE f.verb = "unlink" /\ IF f.items \subseteq has
                                      THEN Go(q, "read", [f EXCEPT !.rows = rows])
                                      ELSE End(q, "refused")
      BY <1>3, <1>6, <2>4
    <2>5. CASE End(q, "missing")
      BY <1>3, <2>5
    <2> QED
      BY <2>1, <2>2, <2>3, <2>4, <2>5

LEMMA UpdateTagKeeps ==
    ASSUME Inv, NEW q \in Requests, UpdateTag(q), UNCHANGED desk
    PROVE  Inv'
  <1>1. FormOK(form[q], pc[q]) /\ form[q].verb = "retag"
    BY DEF Inv, FormsOK, UpdateTag, Is
  <1>2. form[q] \in RetagForms /\ form[q].tag \in DOMAIN tag
    BY <1>1 DEF FormOK, KeptForm
  <1>3. PICK t, b : t = form[q].tag /\ b = form[q].body
    OBVIOUS
  <1>4. TagOK
    BY DEF Inv, TablesOK
  <1>5. PICK new : new = [tag[t] EXCEPT !.name     = IF b.name = None THEN @ ELSE b.name,
                                        !.archived = IF b.archived = None THEN @ ELSE b.archived]
    OBVIOUS
  <1>6. new \in [scope : Orgs \cup People, name : TagNames, archived : BOOLEAN]
        /\ new.scope = tag[t].scope
    <2>1. tag[t] \in [scope : Orgs \cup People, name : TagNames, archived : BOOLEAN]
      BY <1>2, <1>3, <1>4 DEF TagOK
    <2>2. b.name \in TagNames \cup {None} /\ b.archived \in BOOLEAN \cup {None}
      BY <1>2, <1>3 DEF RetagForms
    <2> QED
      BY <1>5, <2>1, <2>2
  <1>7. CASE End(q, "refused") /\ UNCHANGED tag
    BY <1>7, Frames, TagsKeep, Ends DEF UpdateTag
  <1>8. CASE NameIsFree(t, new.scope, new.name) /\ tag' = [tag EXCEPT ![t] = new] /\ End(q, "done")
    <2>1. /\ DOMAIN tag' = DOMAIN tag /\ tag'[t] = new /\ t \in DOMAIN tag
          /\ \A o \in DOMAIN tag \ {t} : tag'[o] = tag[o]
      BY <1>2, <1>3, <1>8
    <2>2. \A o \in DOMAIN tag' :
             tag'[o] \in [scope : Orgs \cup People, name : TagNames, archived : BOOLEAN]
      BY <1>4, <1>6, <2>1 DEF TagOK
    <2>3. ASSUME NEW o \in DOMAIN tag', NEW p \in DOMAIN tag' \ {o},
                 tag'[p].scope = tag'[o].scope, tag'[p].name = tag'[o].name
          PROVE  FALSE
      <3>1. \A r \in DOMAIN tag \ {t} : ~(tag[r].scope = new.scope /\ tag[r].name = new.name)
        BY <1>8 DEF NameIsFree
      <3>2. CASE o = t \/ p = t
        BY <2>1, <2>3, <3>1, <3>2
      <3>3. CASE o # t /\ p # t
        BY <1>4, <2>1, <2>3, <3>3 DEF TagOK, NameIsFree
      <3> QED
        BY <3>2, <3>3
    <2>4. TagOK'
      BY <1>4, <2>1, <2>2, <2>3 DEF TagOK, NameIsFree
    <2>5. \A o \in DOMAIN tag : tag'[o].scope = tag[o].scope
      BY <1>6, <2>1
    <2> QED
      BY <1>8, <2>1, <2>4, <2>5, TagsKeep, Ends DEF UpdateTag
  <1>9. IF NameIsFree(t, new.scope, new.name)
          THEN tag' = [tag EXCEPT ![t] = new] /\ End(q, "done")
          ELSE End(q, "refused") /\ UNCHANGED tag
    BY <1>3, <1>5 DEF UpdateTag
  <1> QED
    BY <1>7, <1>8, <1>9

LEMMA AddLinksKeeps ==
    ASSUME Inv, NEW q \in Requests, AddLinks(q), UNCHANGED desk
    PROVE  Inv'
  <1>1. FormOK(form[q], pc[q]) /\ form[q].verb = "link"
    BY DEF Inv, FormsOK, AddLinks, Is
  <1>2. PICK t, S : t = form[q].tag /\ S = form[q].items
    OBVIOUS
  <1>3. t \in DOMAIN tag /\ S \subseteq Targets
    BY <1>1, <1>2 DEF FormOK, KeptForm
  <1>4. LinkOK
    BY DEF Inv, TablesOK
  <1>5. CASE End(q, "refused") /\ UNCHANGED link
    BY <1>5, Frames, KeptKeep, Ends DEF AddLinks
  <1>6. CASE /\ \A l \in LinksOf(t) : l.target \notin S
             /\ link' = link \cup {[tag |-> t, target |-> x, by |-> q] : x \in S}
             /\ End(q, "done")
    <2>1. \A l \in link' : \/ l \in link
                           \/ l.tag = t /\ l.target \in S
                              /\ l = [tag |-> t, target |-> l.target, by |-> q]
      BY <1>6
    <2>2. \A l \in link : ~(l.tag = t /\ l.target \in S)
      BY <1>6 DEF LinksOf
    <2>3. \A l, m \in link' : l.tag = m.tag /\ l.target = m.target => l = m
      BY <1>4, <2>1, <2>2 DEF LinkOK
    <2>4. UNCHANGED tag
      BY DEF AddLinks
    <2>5. LinkOK'
      BY <1>3, <1>4, <2>1, <2>3, <2>4 DEF LinkOK
    <2> QED
      BY <1>6, <2>5, Frames, KeptKeep, Ends DEF AddLinks
  <1> QED
    BY <1>2, <1>5, <1>6 DEF AddLinks

LEMMA CountLinksKeeps ==
    ASSUME Inv, NEW q \in Requests, CountLinks(q), UNCHANGED desk
    PROVE  Inv'
  <1>1. TablesOK' /\ Grows
    BY StillKeeps DEF CountLinks, still
  <1>2. FormOK(form[q], "counted")
    BY FreeForms DEF CountLinks, Is, FreeVerbs
  <1>3. CASE End(q, "refused")
    BY <1>1, <1>3, Ends
  <1>4. CASE Goto(q, "counted")
    BY <1>1, <1>2, <1>4, Gotos
  <1> QED
    BY <1>3, <1>4 DEF CountLinks

LEMMA RemoveLinksKeeps ==
    ASSUME Inv, NEW q \in Requests, RemoveLinks(q), UNCHANGED desk
    PROVE  Inv'
  <1>1. LinkOK'
    BY DEF Inv, TablesOK, LinkOK, RemoveLinks
  <1>2. TablesOK' /\ Grows
    BY <1>1, Frames, KeptKeep DEF RemoveLinks
  <1> QED
    BY <1>2, Ends DEF RemoveLinks

LEMMA AskSettingKeeps ==
    ASSUME Inv, NEW q \in Requests, AskSetting(q), UNCHANGED <<still, desk>>
    PROVE  Inv'
  <1>1. PICK a \in DOMAIN user, x \in Values \cup {None} :
           Ask(q, [verb |-> "setting", actor |-> a, value |-> x])
    BY DEF AskSetting
  <1>2. PICK f : f = [verb |-> "setting", actor |-> a, value |-> x]
    OBVIOUS
  <1>3. FormOK(f, "admitted")
    BY <1>2, FormsStart DEF FormOK, AccountForm, KeptForm, DeskForm
  <1> QED
    BY <1>1, <1>2, <1>3, AskKeeps

LEMMA WriteSettingKeeps ==
    ASSUME Inv, NEW q \in Requests, WriteSetting(q), UNCHANGED desk
    PROVE  Inv'
  <1>1. FormOK(form[q], pc[q]) /\ form[q].verb = "setting"
    BY DEF Inv, FormsOK, WriteSetting, Is
  <1>2. form[q].actor \in People
    BY <1>1 DEF FormOK, KeptForm
  <1>3. (DOMAIN setting \subseteq People)'
    BY <1>2 DEF Inv, TablesOK, WriteSetting, With
  <1>4. TablesOK' /\ Grows
    BY <1>3, Frames, KeptKeep DEF WriteSetting
  <1>5. \E at \in {"done", "missing"} : End(q, at)
    BY DEF WriteSetting
  <1> QED
    BY <1>4, <1>5, Ends

-----------------------------------------------------------------------------
(* The desk *)

\* Marks only advance, and one that does leaves the status of its row alone.
MarksAdvance ==
    \A k \in DOMAIN inbox :
       /\ k \in DOMAIN inbox' /\ inbox'[k].seen >= inbox[k].seen
       /\ inbox'[k].seen > inbox[k].seen =>
             inbox'[k].status = inbox[k].status /\ inbox'[k].until = inbox[k].until

\* A row of somebody's inbox that changes has been written once more.
RowsAdvance ==
    \A u \in People, i \in Issues :
       RowOf(u, i)' = RowOf(u, i) \/ RowOf(u, i).writes < RowOf(u, i)'.writes

\* Steps that change issues alone: no marker comes to be ahead of its issue.
LEMMA IssuesKeep ==
    ASSUME Inv, IssueOK', LogOK', IssuesGrow, UNCHANGED <<inbox, still>>
    PROVE  TablesOK' /\ Grows
  <1>1. ASSUME NEW k \in DOMAIN inbox
        PROVE  /\ k \in People \X DOMAIN issue' /\ inbox[k] \in InboxRows
               /\ inbox[k].seen <= issue'[k[2]].version
    <2>1. /\ k \in People \X DOMAIN issue /\ inbox[k] \in InboxRows
          /\ inbox[k].seen <= issue[k[2]].version
      BY DEF Inv, TablesOK, InboxOK
    <2>2. k[2] \in DOMAIN issue /\ issue[k[2]].version \in Nat /\ inbox[k].seen \in Nat
      BY <2>1 DEF Inv, TablesOK, IssueOK, IssueRows, InboxRows
    <2> QED
      BY <2>1, <2>2 DEF IssuesGrow
  <1>2. InboxOK'
    BY <1>1 DEF InboxOK
  <1> QED
    BY <1>2, Frames DEF still, accounts, personal, TablesOK, Grows, IssuesGrow

\* What GitHub says of an issue never lowers its version nor changes its number.
LEMMA UpsertsKeep ==
    ASSUME Inv, NEW i \in Issues, i \in DOMAIN issue => ~issue[i].local,
           NEW t \in 1..now, NEW s \in {"open", "closed"}, UpsertIssue(i, t, s),
           UNCHANGED <<counter, now>>
    PROVE  IssueOK' /\ IssuesGrow
  <1>1. IssueOK /\ now \in Nat /\ t \in Nat
    BY InboxAssumption DEF Inv, TablesOK, IssueOK
  <1>2. \A j \in DOMAIN issue : /\ issue[j].version \in Nat /\ issue[j] \in IssueRows
                                /\ issue[j].updated \in Nat
    BY <1>1 DEF IssueOK, IssueRows
  <1>3. CASE UNCHANGED issue
    BY <1>3, Frames DEF IssuesGrow
  <1>4. CASE /\ i \in DOMAIN issue /\ issue[i].updated < t
             /\ issue' = [issue EXCEPT ![i].updated = t, ![i].state = s, ![i].version = @ + 1]
    <2>1. /\ DOMAIN issue' = DOMAIN issue
          /\ \A j \in DOMAIN issue : /\ issue'[j] \in IssueRows
                                     /\ issue'[j].number = issue[j].number
                                     /\ issue'[j].local = issue[j].local
                                     /\ issue[j].version <= issue'[j].version
                                     /\ issue[j].updated <= issue'[j].updated
                                     /\ issue'[j] = issue[j]
                                        \/ (~issue[j].local
                                            /\ issue[j].version < issue'[j].version)
      <3>1. ASSUME NEW j \in DOMAIN issue, j # i
            PROVE  issue'[j] = issue[j]
        BY <1>4, <3>1
      <3>2. PICK r : r = issue[i] /\ r \in IssueRows
        BY <1>2, <1>4
      <3>3. issue'[i] = [r EXCEPT !.updated = t, !.state = s, !.version = @ + 1]
        BY <1>4, <3>2
      <3>4. /\ issue'[i] \in IssueRows /\ issue'[i].number = r.number
            /\ issue'[i].local = r.local /\ r.version < issue'[i].version
            /\ r.updated <= issue'[i].updated /\ r.version <= issue'[i].version
        <4>1. r.version \in Nat /\ r.version + 1 \in Nat
          BY <3>2 DEF IssueRows
        <4>2. issue'[i] = [r EXCEPT !.updated = t, !.state = s, !.version = r.version + 1]
          BY <3>3
        <4>3. issue'[i] \in IssueRows
          BY <1>1, <3>2, <4>1, <4>2 DEF IssueRows
        <4>4. /\ issue'[i].number = r.number /\ issue'[i].local = r.local
              /\ issue'[i].version = r.version + 1 /\ issue'[i].updated = t
          BY <3>2, <4>2 DEF IssueRows
        <4>5. r.updated \in Nat /\ r.updated < t
          BY <1>2, <1>4, <3>2
        <4> QED
          BY <1>1, <4>1, <4>3, <4>4, <4>5
      <3> QED
        BY <1>2, <1>4, <3>1, <3>2, <3>4
    <2>2. IssuesGrow
      BY <2>1 DEF IssuesGrow, IssueRows
    <2>3. NumbersDiffer'
      BY <1>1, <2>1 DEF IssueOK, NumbersDiffer
    <2>4. \A j \in DOMAIN issue' : issue'[j].local => issue'[j].updated <= now
      BY <1>1, <2>1 DEF IssueOK
    <2>5. DOMAIN issue' \subseteq Issues /\ IsFiniteSet(DOMAIN issue')
      BY <1>1, <2>1 DEF IssueOK
    <2>6. counter' \in Int /\ counter' <= 0 /\ now' \in 0..MaxTime /\ now' = now
      BY <1>1 DEF IssueOK
    <2> QED
      BY <2>1, <2>2, <2>3, <2>4, <2>5, <2>6 DEF IssueOK
  <1>5. CASE /\ i \notin DOMAIN issue
             /\ issue' = With(issue, i, [number |-> i, local |-> FALSE, state |-> s,
                                         plain |-> TRUE, version |-> 1, updated |-> t])
    <2>1. PICK r : r = [number |-> i, local |-> FALSE, state |-> s,
                        plain |-> TRUE, version |-> 1, updated |-> t]
      OBVIOUS
    <2>2. /\ DOMAIN issue' = DOMAIN issue \cup {i} /\ issue'[i] = r
          /\ \A j \in DOMAIN issue : issue'[j] = issue[j]
      BY <1>5, <2>1 DEF With
    <2>3. r \in IssueRows /\ i \in Nat
      <3>1. i \in Nat /\ i \in Int
        BY InboxAssumption
      <3> QED
        BY <1>1, <2>1, <3>1 DEF IssueRows
    <2>4. IssuesGrow
      BY <1>2, <2>2 DEF IssuesGrow
    <2>5. \A j \in DOMAIN issue : issue[j].number # i
      BY <1>1, <1>5, <2>3 DEF IssueOK, NumbersDiffer
    <2>6. NumbersDiffer'
      BY <1>1, <2>1, <2>2, <2>5 DEF IssueOK, NumbersDiffer
    <2>7. \A j \in DOMAIN issue' : issue'[j] \in IssueRows
      BY <1>2, <2>2, <2>3
    <2>8. DOMAIN issue' \subseteq Issues /\ IsFiniteSet(DOMAIN issue')
      BY <1>1, <2>2, FS_AddElement DEF IssueOK
    <2>9. \A j \in DOMAIN issue' : issue'[j].local => issue'[j].updated <= now
      BY <1>1, <2>1, <2>2 DEF IssueOK
    <2>10. counter' \in Int /\ counter' <= 0 /\ now' \in 0..MaxTime /\ now' = now
      BY <1>1 DEF IssueOK
    <2> QED
      BY <2>4, <2>6, <2>7, <2>8, <2>9, <2>10 DEF IssueOK
  <1>6. i \in DOMAIN issue => t <= issue[i].updated \/ issue[i].updated < t
    BY <1>1, <1>2
  <1> QED
    BY <1>3, <1>4, <1>5, <1>6 DEF UpsertIssue

\* An event that moves on may have been given another time.
LogGrows ==
    \A l \in log : \E m \in log' :
       /\ m.id = l.id /\ m.number = l.number /\ m.kind = l.kind
       /\ m = l \/ m.moves > l.moves

LEMMA RecordsKeep ==
    ASSUME Inv, NEW n \in Int, NEW t \in Nat, NEW k \in {"issue_opened", "issue_closed"},
           RecordEvent(n, k, t)
    PROVE  LogOK' /\ LogGrows
  <1>1. CASE \E e \in Entries :
               /\ \A l \in log : l.id # e
               /\ log' = log \cup {[id |-> e, number |-> n, kind |-> k, ts |-> t, moves |-> 0]}
    <2>1. PICK e \in Entries :
               /\ \A l \in log : l.id # e
               /\ log' = log \cup {[id |-> e, number |-> n, kind |-> k, ts |-> t, moves |-> 0]}
      BY <1>1
    <2>2. PICK r : r = [id |-> e, number |-> n, kind |-> k, ts |-> t, moves |-> 0]
      OBVIOUS
    <2>3. r \in LogRows /\ r.id = e
      BY <2>2 DEF LogRows
    <2>4. log' = log \cup {r}
      BY <2>1, <2>2
    <2> QED
      BY <2>1, <2>3, <2>4, FS_AddElement DEF Inv, TablesOK, LogOK, LogGrows
  <1>2. CASE \E l \in log :
               /\ l.number = n /\ l.kind = k /\ (k = "issue_opened" => t = l.ts)
               /\ log' = (log \ {l})
                         \cup {[l EXCEPT !.ts = t, !.moves = IF t = l.ts THEN @ ELSE @ + 1]}
    <2>1. PICK l \in log :
               log' = (log \ {l})
                      \cup {[l EXCEPT !.ts = t, !.moves = IF t = l.ts THEN @ ELSE @ + 1]}
      BY <1>2
    <2>2. PICK r : r = [l EXCEPT !.ts = t, !.moves = IF t = l.ts THEN @ ELSE @ + 1]
      OBVIOUS
    <2>3. l \in LogRows
      BY DEF Inv, TablesOK, LogOK
    <2>11. /\ l = [id |-> l.id, number |-> l.number, ts |-> l.ts, kind |-> l.kind,
                   moves |-> l.moves]
           /\ l.id \in Entries /\ l.number \in Int /\ l.moves \in Nat
           /\ l.kind \in {"issue_opened", "issue_closed"}
      BY <2>3 DEF LogRows
    <2>12. r = [id |-> l.id, number |-> l.number, ts |-> t, kind |-> l.kind,
               moves |-> IF t = l.ts THEN l.moves ELSE l.moves + 1]
      BY <2>2, <2>11
    <2>4. r \in LogRows /\ r.id = l.id /\ r.number = l.number /\ r.kind = l.kind
      BY <2>11, <2>12 DEF LogRows
    <2>5. r = l \/ r.moves > l.moves
      <3>1. CASE t = l.ts
        BY <2>11, <2>12, <3>1
      <3>2. CASE t # l.ts
        BY <2>11, <2>12, <3>2
      <3> QED
        BY <3>1, <3>2
    <2>6. log' = (log \ {l}) \cup {r}
      BY <2>1, <2>2
    <2>7. LogGrows
      BY <2>4, <2>5, <2>6 DEF LogGrows
    <2>8. IsFiniteSet(log) /\ (\A m \in log : m \in LogRows) /\ \A m, o \in log : m.id = o.id => m = o
      BY DEF Inv, TablesOK, LogOK
    <2>9. IsFiniteSet(log') /\ \A m \in log' : m \in LogRows
      BY <2>4, <2>6, <2>8, FS_AddElement, FS_RemoveElement
    <2>10. \A m, o \in log' : m.id = o.id => m = o
      BY <2>4, <2>6, <2>8
    <2> QED
      BY <2>7, <2>9, <2>10 DEF LogOK
  <1> QED
    BY <1>1, <1>2 DEF RecordEvent

LEMMA ArriveKeeps == ASSUME Inv, Arrive PROVE Inv' /\ IssuesGrow
  <1>1. IssueOK' /\ IssuesGrow
    <2>1. CASE ChangeIssue
      <3>1. PICK i \in Remote, t \in 1..now, s \in {"open", "closed"} : UpsertIssue(i, t, s)
        BY <2>1 DEF ChangeIssue
      <3> QED
        BY <3>1, UpsertsKeep DEF Arrive, Remote
    <2>2. CASE LogEvent
      BY <2>2, Frames DEF LogEvent, Arrive, IssuesGrow
    <2> QED
      BY <2>1, <2>2 DEF Arrive
  <1>3. LogOK'
    <2>1. CASE ChangeIssue
      BY <2>1, Frames DEF ChangeIssue
    <2>2. CASE LogEvent
      <3>1. PICK i \in Remote \cap DOMAIN issue, t \in 1..now,
                 k \in {"issue_opened", "issue_closed"} : RecordEvent(issue[i].number, k, t)
        BY <2>2 DEF LogEvent
      <3>2. issue[i].number \in Int /\ t \in Nat
        BY InboxAssumption DEF Inv, TablesOK, IssueOK, IssueRows
      <3> QED
        BY <3>1, <3>2, RecordsKeep
    <2> QED
      BY <2>1, <2>2 DEF Arrive
  <1>2. TablesOK' /\ Grows
    BY <1>1, <1>3, IssuesKeep DEF Arrive
  <1> QED
    BY <1>1, <1>2, NobodyMoves DEF Arrive, Inv

LEMMA TickKeeps == ASSUME Inv, Tick PROVE Inv'
  <1>0. IssueOK /\ now \in Nat /\ MaxTime \in Nat
    BY InboxAssumption DEF Inv, TablesOK, IssueOK
  <1>4. \A i \in DOMAIN issue : issue[i].updated \in Nat
    BY <1>0 DEF IssueOK, IssueRows
  <1>5. now' \in 0..MaxTime /\ now <= now' /\ now' \in Nat
    BY <1>0 DEF IssueOK, Tick
  <1>6. \A i \in DOMAIN issue' : issue'[i].local => issue'[i].updated <= now'
    BY <1>0, <1>4, <1>5 DEF IssueOK, Tick
  <1>1. IssueOK'
    BY <1>0, <1>5, <1>6 DEF IssueOK, NumbersDiffer, Tick
  <1>2. IssuesGrow /\ LogOK'
    BY Frames DEF Tick
  <1>3. TablesOK' /\ Grows
    BY <1>1, <1>2, IssuesKeep DEF Tick
  <1> QED
    BY <1>3, NobodyMoves DEF Tick, Inv

LEMMA AskReadKeeps ==
    ASSUME Inv, NEW q \in Requests, AskRead(q), UNCHANGED <<still, desk>>
    PROVE  Inv'
  <1>1. PICK a \in DOMAIN user :
           \/ \E f \in Filters, v \in {"queue", "list"} :
                 Ask(q, [verb |-> v, actor |-> a, filter |-> f, after |-> None, shown |-> <<>>,
                         owed |-> <<>>])
           \/ \E i \in DOMAIN issue :
                 \/ Ask(q, [verb |-> "timeline", actor |-> a, on |-> i, shown |-> <<>>,
                            owed |-> {}])
                 \/ Ask(q, [verb |-> "look", actor |-> a, on |-> i, chips |-> {}])
    BY DEF AskRead
  <1>2. CASE \E f \in Filters, v \in {"queue", "list"} :
                Ask(q, [verb |-> v, actor |-> a, filter |-> f, after |-> None, shown |-> <<>>,
                        owed |-> <<>>])
    <2>1. PICK f \in Filters, v \in {"queue", "list"} :
             Ask(q, [verb |-> v, actor |-> a, filter |-> f, after |-> None, shown |-> <<>>,
                     owed |-> <<>>])
      BY <1>2
    <2>2. PICK g : g = [verb |-> v, actor |-> a, filter |-> f, after |-> None, shown |-> <<>>,
                        owed |-> <<>>]
      OBVIOUS
    <2>3. FormOK(g, "admitted")
      BY <2>2, FreeForms DEF FreeVerbs
    <2> QED
      BY <2>1, <2>2, <2>3, AskKeeps
  <1>3. CASE \E i \in DOMAIN issue :
                Ask(q, [verb |-> "timeline", actor |-> a, on |-> i, shown |-> <<>>, owed |-> {}])
    <2>1. PICK i \in DOMAIN issue :
             Ask(q, [verb |-> "timeline", actor |-> a, on |-> i, shown |-> <<>>, owed |-> {}])
      BY <1>3
    <2>2. PICK g : g = [verb |-> "timeline", actor |-> a, on |-> i, shown |-> <<>>, owed |-> {}]
      OBVIOUS
    <2>3. FormOK(g, "admitted")
      BY <2>2, FreeForms DEF FreeVerbs
    <2> QED
      BY <2>1, <2>2, <2>3, AskKeeps
  <1>4. CASE \E i \in DOMAIN issue :
                Ask(q, [verb |-> "look", actor |-> a, on |-> i, chips |-> {}])
    <2>1. PICK i \in DOMAIN issue : Ask(q, [verb |-> "look", actor |-> a, on |-> i, chips |-> {}])
      BY <1>4
    <2>2. PICK g : g = [verb |-> "look", actor |-> a, on |-> i, chips |-> {}]
      OBVIOUS
    <2>3. g \in LookForms
      BY <2>2, FormsStart DEF LookForms, Inv, TablesOK, IssueOK
    <2> QED
      BY <2>1, <2>2, <2>3, FormsStart, AskKeeps
  <1> QED
    BY <1>1, <1>2, <1>3, <1>4

\* The walks carry rows they have been shown, which nothing has to bear out.
LEMMA WalksKeep ==
    ASSUME Inv, NEW q \in Requests,
           BeginWalk(q) \/ ReadQueue(q) \/ ReadList(q) \/ ReadTimeline(q)
    PROVE  Inv'
  <1>1. TablesOK' /\ Grows
    BY StillKeeps DEF BeginWalk, ReadQueue, ReadList, ReadTimeline
  <1>2. form[q].verb \in {"queue", "list", "timeline"}
    BY DEF BeginWalk, ReadQueue, ReadList, ReadTimeline, Is
  <1>3. ASSUME NEW f, NEW at \in {"walking", "walked"}, Go(q, at, f), f.verb = form[q].verb
        PROVE  Inv'
    <2>1. f.verb \in FreeVerbs
      BY <1>2, <1>3 DEF FreeVerbs
    <2>2. FormOK(f, at)
      BY <2>1, FreeForms
    <2> QED
      BY <1>1, <1>3, <2>2, Goes
  <1>4. ASSUME NEW page, Turn(q, page)
        PROVE  Inv'
    <2>1. PICK out : out = [form[q] EXCEPT !.shown = @ \o page.rows]
      OBVIOUS
    <2>2. out.verb = form[q].verb
      BY <2>1
    <2>3. PICK next : next = [out EXCEPT !.after = Key(page.rows[Limit])]
      OBVIOUS
    <2>4. next.verb = form[q].verb
      BY <2>2, <2>3
    <2>5. Go(q, "walked", out) \/ Go(q, "walking", out) \/ Go(q, "walking", next)
      BY <1>4, <2>1, <2>3 DEF Turn
    <2> QED
      BY <1>3, <2>2, <2>4, <2>5
  <1>5. CASE BeginWalk(q)
    <2>1. PICK f : f = [form[q] EXCEPT !.owed = Begun(form[q])]
      OBVIOUS
    <2>2. f.verb = form[q].verb
      BY <2>1
    <2> QED
      BY <1>3, <1>5, <2>1, <2>2 DEF BeginWalk
  <1>6. CASE ReadQueue(q)
    BY <1>4, <1>6 DEF ReadQueue
  <1>7. CASE ReadList(q)
    BY <1>4, <1>7 DEF ReadList
  <1>8. CASE ReadTimeline(q)
    BY <1>4, <1>8 DEF ReadTimeline
  <1> QED
    BY <1>5, <1>6, <1>7, <1>8

\* The chips that are shown are of tags the viewer is in the scope of.
LEMMA GetIssueKeeps ==
    ASSUME Inv, NEW q \in Requests, GetIssue(q)
    PROVE  Inv'
  <1>1. TablesOK' /\ Grows
    BY StillKeeps DEF GetIssue
  <1>2. FormOK(form[q], pc[q]) /\ form[q].verb = "look"
    BY DEF Inv, FormsOK, GetIssue, Is
  <1>3. form[q] \in LookForms
    BY <1>2 DEF FormOK, DeskForm
  <1>4. PICK f : f = [form[q] EXCEPT !.chips = Chips(form[q].actor, form[q].on)]
    OBVIOUS
  <1>5. Chips(form[q].actor, form[q].on) \subseteq DOMAIN tag
        /\ \A t \in Chips(form[q].actor, form[q].on) : CanSee(form[q].actor, tag[t].scope)
    BY DEF Chips, TagsVisible
  <1>6. /\ f \in LookForms /\ f.chips \subseteq DOMAIN tag
        /\ \A t \in f.chips : CanSee(f.actor, tag[t].scope)
    BY <1>3, <1>4, <1>5 DEF LookForms, Inv, TablesOK, TagOK
  <1>7. FormOK(f, "looked")
    BY <1>6 DEF LookForms, FormOK, AccountForm, KeptForm, DeskForm
  <1> QED
    BY <1>1, <1>4, <1>7, Goes DEF GetIssue

LEMMA AskInboxKeeps ==
    ASSUME Inv, NEW q \in Requests, AskInbox(q), UNCHANGED <<still, desk>>
    PROVE  Inv'
  <1>1. PICK a \in DOMAIN user :
           \/ \E b \in BulkBodies : Ask(q, [verb |-> "bulk", actor |-> a, body |-> b])
           \/ \E i \in Issues, b \in StateBodies :
                 Ask(q, [verb |-> "status", actor |-> a, on |-> i, body |-> b])
    BY DEF AskInbox
  <1>2. CASE \E b \in BulkBodies : Ask(q, [verb |-> "bulk", actor |-> a, body |-> b])
    <2>1. PICK b \in BulkBodies : Ask(q, [verb |-> "bulk", actor |-> a, body |-> b])
      BY <1>2
    <2>2. PICK f : f = [verb |-> "bulk", actor |-> a, body |-> b]
      OBVIOUS
    <2>3. FormOK(f, "admitted")
      BY <2>2, FormsStart DEF FormOK, AccountForm, KeptForm, DeskForm
    <2> QED
      BY <2>1, <2>2, <2>3, AskKeeps
  <1>3. CASE \E i \in Issues, b \in StateBodies :
                Ask(q, [verb |-> "status", actor |-> a, on |-> i, body |-> b])
    <2>1. PICK i \in Issues, b \in StateBodies :
             Ask(q, [verb |-> "status", actor |-> a, on |-> i, body |-> b])
      BY <1>3
    <2>2. PICK f : f = [verb |-> "status", actor |-> a, on |-> i, body |-> b]
      OBVIOUS
    <2>3. FormOK(f, "admitted")
      BY <2>2, FormsStart DEF FormOK, AccountForm, KeptForm, DeskForm
    <2> QED
      BY <2>1, <2>2, <2>3, AskKeeps
  <1> QED
    BY <1>1, <1>2, <1>3

\* The row of an issue, absent or not, is one, and its marker is not ahead.
LEMMA RowsAre ==
    ASSUME Inv, NEW u, NEW i \in DOMAIN issue
    PROVE  RowOf(u, i) \in InboxRows /\ RowOf(u, i).seen <= issue[i].version
           /\ issue[i].version \in Nat
  <1>1. issue[i].version \in Nat
    BY DEF Inv, TablesOK, IssueOK, IssueRows
  <1>2. CASE <<u, i>> \in DOMAIN inbox
    <2>1. PICK k : k = <<u, i>>
      OBVIOUS
    <2>2. RowOf(u, i) = inbox[k] /\ k \in DOMAIN inbox /\ k[2] = i
      BY <1>2, <2>1 DEF RowOf
    <2> QED
      BY <1>1, <2>2 DEF Inv, TablesOK, InboxOK
  <1>3. CASE <<u, i>> \notin DOMAIN inbox
    <2>1. RowOf(u, i) = [seen |-> 0, status |-> "inbox", until |-> None, writes |-> 0]
      BY <1>3 DEF RowOf
    <2> QED
      BY <1>1, <2>1 DEF InboxRows, Statuses
  <1> QED
    BY <1>2, <1>3

\* Rows that are written over those of the table: each is one of an issue, none is
\* ahead of it, and none takes a mark back.
LEMMA WritesKeep ==
    ASSUME Inv, NEW rows, Write(rows), UNCHANGED <<issue, counter, log, now, still>>,
           \A k \in DOMAIN rows :
              /\ k \in People \X DOMAIN issue /\ rows[k] \in InboxRows
              /\ rows[k].seen <= issue[k[2]].version
              /\ rows[k].writes = RowOf(k[1], k[2]).writes + 1
              /\ rows[k].seen >= RowOf(k[1], k[2]).seen
              /\ rows[k].seen > RowOf(k[1], k[2]).seen =>
                    /\ rows[k].status = RowOf(k[1], k[2]).status
                    /\ rows[k].until = RowOf(k[1], k[2]).until
    PROVE  TablesOK' /\ Grows /\ MarksAdvance /\ RowsAdvance
  <1>1. InboxOK
    BY DEF Inv, TablesOK
  <1>2. /\ DOMAIN inbox' = DOMAIN inbox \cup DOMAIN rows
        /\ \A k \in DOMAIN rows : inbox'[k] = rows[k]
        /\ \A k \in DOMAIN inbox \ DOMAIN rows : inbox'[k] = inbox[k]
    BY DEF Write
  <1>3. InboxOK'
    BY <1>1, <1>2 DEF InboxOK
  <1>4. ASSUME NEW k \in DOMAIN inbox
        PROVE  /\ k \in DOMAIN inbox' /\ inbox'[k].seen >= inbox[k].seen
               /\ inbox'[k].seen > inbox[k].seen =>
                     inbox'[k].status = inbox[k].status /\ inbox'[k].until = inbox[k].until
    <2>1. inbox[k] \in InboxRows /\ k = <<k[1], k[2]>>
      BY <1>1 DEF InboxOK
    <2>2. RowOf(k[1], k[2]) = inbox[k]
      BY <2>1 DEF RowOf
    <2>3. CASE k \in DOMAIN rows
      BY <1>2, <2>2, <2>3
    <2>4. CASE k \notin DOMAIN rows
      BY <1>2, <2>1, <2>4 DEF InboxRows
    <2> QED
      BY <2>3, <2>4
  <1>5. MarksAdvance
    BY <1>4 DEF MarksAdvance
  <1>6. ASSUME NEW u \in People, NEW i \in Issues
        PROVE  RowOf(u, i)' = RowOf(u, i) \/ RowOf(u, i).writes < RowOf(u, i)'.writes
    <2>1. CASE <<u, i>> \in DOMAIN rows
      <3>1. RowOf(u, i)' = rows[<<u, i>>]
        BY <1>2, <2>1 DEF RowOf
      <3>2. rows[<<u, i>>].writes = RowOf(u, i).writes + 1 /\ i \in DOMAIN issue
        BY <2>1
      <3>3. RowOf(u, i).writes \in Nat
        BY <3>2, RowsAre DEF InboxRows
      <3> QED
        BY <3>1, <3>2, <3>3
    <2>2. CASE <<u, i>> \notin DOMAIN rows
      BY <1>2, <2>2 DEF RowOf
    <2> QED
      BY <2>1, <2>2
  <1> QED
    BY <1>3, <1>5, <1>6, Frames DEF still, accounts, personal, TablesOK, Grows, RowsAdvance

LEMMA MarkSeenKeeps ==
    ASSUME Inv, NEW a \in People, NEW S, MarkSeen(a, S), UNCHANGED <<issue, counter, log, now, still>>
    PROVE  TablesOK' /\ Grows /\ MarksAdvance /\ RowsAdvance
  <1>1. PICK rows : rows = [k \in {a} \X (S \cap DOMAIN issue) |->
             LET r == RowOf(a, k[2]) IN
             [r EXCEPT !.seen = IF @ < issue[k[2]].version THEN issue[k[2]].version ELSE @,
                       !.writes = @ + 1]]
    OBVIOUS
  <1>2. ASSUME NEW k \in DOMAIN rows
        PROVE  /\ k \in People \X DOMAIN issue /\ rows[k] \in InboxRows
               /\ rows[k].seen <= issue[k[2]].version
               /\ rows[k].writes = RowOf(k[1], k[2]).writes + 1
               /\ rows[k].seen >= RowOf(k[1], k[2]).seen
               /\ rows[k].status = RowOf(k[1], k[2]).status
               /\ rows[k].until = RowOf(k[1], k[2]).until
    <2>1. k \in {a} \X (S \cap DOMAIN issue)
      BY <1>1
    <2>2. k[1] = a /\ k[2] \in DOMAIN issue /\ k \in People \X DOMAIN issue
      BY <2>1
    <2>3. PICK r, v : r = RowOf(a, k[2]) /\ v = issue[k[2]].version
      OBVIOUS
    <2>4. r \in InboxRows /\ r.seen <= v /\ v \in Nat
      BY <2>2, <2>3, RowsAre
    <2>5. rows[k] = [r EXCEPT !.seen = IF r.seen < v THEN v ELSE r.seen, !.writes = r.writes + 1]
      BY <1>1, <2>3
    <2>6. r.seen \in Nat /\ r.writes + 1 \in Nat
      BY <2>4 DEF InboxRows
    <2>7. rows[k] \in InboxRows
      BY <2>4, <2>5, <2>6 DEF InboxRows
    <2>8. /\ rows[k].seen = IF r.seen < v THEN v ELSE r.seen
          /\ rows[k].status = r.status /\ rows[k].until = r.until
          /\ rows[k].writes = r.writes + 1
      BY <2>4, <2>5 DEF InboxRows
    <2> QED
      BY <2>2, <2>3, <2>4, <2>6, <2>7, <2>8
  <1>3. Write(rows)
    BY <1>1 DEF MarkSeen
  <1> QED
    BY <1>2, <1>3, WritesKeep

LEMMA SetStatesKeeps ==
    ASSUME Inv, NEW a \in People, NEW S, NEW s \in Statuses, NEW t \in Nat \cup {None},
           SetStates(a, S, s, t), UNCHANGED <<issue, counter, log, now, still>>
    PROVE  TablesOK' /\ Grows /\ MarksAdvance /\ RowsAdvance
  <1>1. PICK rows : rows = [k \in {a} \X (S \cap DOMAIN issue) |->
             [RowOf(a, k[2]) EXCEPT !.status = s, !.until = t, !.writes = @ + 1]]
    OBVIOUS
  <1>2. ASSUME NEW k \in DOMAIN rows
        PROVE  /\ k \in People \X DOMAIN issue /\ rows[k] \in InboxRows
               /\ rows[k].seen <= issue[k[2]].version
               /\ rows[k].writes = RowOf(k[1], k[2]).writes + 1
               /\ rows[k].seen = RowOf(k[1], k[2]).seen /\ rows[k].seen \in Nat
    <2>1. k \in {a} \X (S \cap DOMAIN issue)
      BY <1>1
    <2>2. k[1] = a /\ k[2] \in DOMAIN issue /\ k \in People \X DOMAIN issue
      BY <2>1
    <2>3. PICK r : r = RowOf(a, k[2])
      OBVIOUS
    <2>4. r \in InboxRows /\ r.seen <= issue[k[2]].version
      BY <2>2, <2>3, RowsAre
    <2>5. rows[k] = [r EXCEPT !.status = s, !.until = t, !.writes = r.writes + 1]
      BY <1>1, <2>3
    <2>6. r.seen \in Nat /\ r.writes + 1 \in Nat
      BY <2>4 DEF InboxRows
    <2>7. rows[k] \in InboxRows
      BY <2>4, <2>5, <2>6 DEF InboxRows
    <2>8. rows[k].seen = r.seen /\ rows[k].writes = r.writes + 1
      BY <2>4, <2>5 DEF InboxRows
    <2> QED
      BY <2>2, <2>3, <2>4, <2>6, <2>7, <2>8
  <1>3. Write(rows)
    BY <1>1 DEF SetStates
  <1>4. \A k \in DOMAIN rows :
              /\ k \in People \X DOMAIN issue /\ rows[k] \in InboxRows
              /\ rows[k].seen <= issue[k[2]].version
              /\ rows[k].writes = RowOf(k[1], k[2]).writes + 1
              /\ rows[k].seen >= RowOf(k[1], k[2]).seen
              /\ ~(rows[k].seen > RowOf(k[1], k[2]).seen)
    BY <1>2
  <1> QED
    BY <1>3, <1>4, WritesKeep

\* A step that leaves the inbox alone takes no mark back.
LEMMA MarksRest == ASSUME Inv, UNCHANGED inbox PROVE MarksAdvance /\ RowsAdvance
  BY DEF MarksAdvance, RowsAdvance, RowOf, Inv, TablesOK, InboxOK, InboxRows

LEMMA SetStatusKeeps ==
    ASSUME Inv, NEW q \in Requests, SetStatus(q)
    PROVE  Inv' /\ MarksAdvance /\ RowsAdvance
  <1>1. FormOK(form[q], pc[q]) /\ form[q].verb = "status"
    BY DEF Inv, FormsOK, SetStatus, Is
  <1>2. PICK a, b, i : a = form[q].actor /\ b = form[q].body /\ i = form[q].on
    OBVIOUS
  <1>3. a \in People /\ b \in StateBodies
    BY <1>1, <1>2 DEF FormOK, DeskForm
  <1>4. PICK s : s = IF b.status # None THEN b.status
                     ELSE IF b.until # None THEN "snoozed" ELSE "inbox"
    OBVIOUS
  <1>5. s \in Statuses /\ b.until \in Nat \cup {None}
    BY <1>3, <1>4, InboxAssumption DEF Statuses
  <1>6. CASE UNCHANGED inbox /\ End(q, "failed")
    <2>1. TablesOK' /\ Grows
      BY <1>6, Frames DEF SetStatus, still, accounts, personal, TablesOK, Grows
    <2> QED
      BY <1>6, <2>1, MarksRest, Ends
  <1>7. CASE SetStates(a, {i}, s, b.until) /\ End(q, "done")
    <2>1. TablesOK' /\ Grows /\ MarksAdvance /\ RowsAdvance
      BY <1>3, <1>5, <1>7, SetStatesKeeps DEF SetStatus
    <2> QED
      BY <1>7, <2>1, Ends
  <1> QED
    BY <1>2, <1>4, <1>6, <1>7 DEF SetStatus

LEMMA BulkInboxKeeps ==
    ASSUME Inv, NEW q \in Requests, BulkInbox(q)
    PROVE  Inv' /\ MarksAdvance /\ RowsAdvance
  <1>1. FormOK(form[q], pc[q]) /\ form[q].verb = "bulk"
    BY DEF Inv, FormsOK, BulkInbox, Is
  <1>2. PICK a, b : a = form[q].actor /\ b = form[q].body
    OBVIOUS
  <1>3. a \in People /\ b.until \in Nat \cup {None}
    BY <1>1, <1>2, InboxAssumption DEF FormOK, DeskForm
  <1>4. CASE UNCHANGED inbox /\ End(q, "refused")
    <2>1. TablesOK' /\ Grows
      BY <1>4, Frames DEF BulkInbox, still, accounts, personal, TablesOK, Grows
    <2> QED
      BY <1>4, <2>1, MarksRest, Ends
  <1>5. CASE Apply(a, b) /\ End(q, "done")
    <2>1. CASE MarkSeen(a, b.on)
      BY <1>3, <1>5, <2>1, MarkSeenKeeps, Ends DEF BulkInbox
    <2>2. ASSUME NEW s \in Statuses, NEW t \in {b.until, None}, SetStates(a, b.on, s, t)
          PROVE  TablesOK' /\ Grows /\ MarksAdvance /\ RowsAdvance
      BY <1>3, <2>2, SetStatesKeeps DEF BulkInbox
    <2>3. CASE SetStates(a, b.on, "snoozed", b.until)
      BY <1>5, <2>2, <2>3, Ends DEF Statuses
    <2>4. CASE SetStates(a, b.on, "done", None)
      BY <1>5, <2>2, <2>4, Ends DEF Statuses
    <2>5. CASE SetStates(a, b.on, "inbox", None)
      BY <1>5, <2>2, <2>5, Ends DEF Statuses
    <2> QED
      BY <1>5, <2>1, <2>3, <2>4, <2>5 DEF Apply
  <1> QED
    BY <1>2, <1>4, <1>5 DEF BulkInbox

LEMMA AskLocalKeeps ==
    ASSUME Inv, NEW q \in Requests, AskLocal(q), UNCHANGED <<still, desk>>
    PROVE  Inv'
  <1>1. PICK a \in DOMAIN user :
           \/ \E e \in {None, project.version}, p \in {"none", "project", "view only"} :
                 Ask(q, [verb |-> "create", actor |-> a, attach |-> p, expected |-> e,
                         on |-> None])
           \/ \E i \in DOMAIN issue :
                 \/ \E s \in {"open", "closed", None} :
                       Ask(q, [verb |-> "edit", actor |-> a, on |-> i, state |-> s,
                               expected |-> issue[i].version, current |-> 0])
                 \/ \E v \in {"comment", "refresh"} :
                       Ask(q, [verb |-> v, actor |-> a, on |-> i])
    BY DEF AskLocal
  <1>2. CASE \E e \in {None, project.version}, p \in {"none", "project", "view only"} :
                Ask(q, [verb |-> "create", actor |-> a, attach |-> p, expected |-> e,
                        on |-> None])
    <2>1. PICK e \in {None, project.version}, p \in {"none", "project", "view only"} :
             Ask(q, [verb |-> "create", actor |-> a, attach |-> p, expected |-> e, on |-> None])
      BY <1>2
    <2>2. PICK f : f = [verb |-> "create", actor |-> a, attach |-> p, expected |-> e,
                        on |-> None]
      OBVIOUS
    <2>3. FormOK(f, "admitted")
      BY <2>2 DEF FormOK, AccountForm, KeptForm, DeskForm
    <2> QED
      BY <2>1, <2>2, <2>3, AskKeeps
  <1>3. CASE \E i \in DOMAIN issue, s \in {"open", "closed", None} :
                Ask(q, [verb |-> "edit", actor |-> a, on |-> i, state |-> s,
                        expected |-> issue[i].version, current |-> 0])
    <2>1. PICK i \in DOMAIN issue, s \in {"open", "closed", None} :
             Ask(q, [verb |-> "edit", actor |-> a, on |-> i, state |-> s,
                     expected |-> issue[i].version, current |-> 0])
      BY <1>3
    <2>2. PICK f : f = [verb |-> "edit", actor |-> a, on |-> i, state |-> s,
                        expected |-> issue[i].version, current |-> 0]
      OBVIOUS
    <2>3. issue[i].version \in Nat /\ i \in Issues /\ a \in People
      BY FormsStart DEF Inv, TablesOK, IssueOK, IssueRows
    <2>4. f \in EditForms /\ f.on \in DOMAIN issue /\ f.expected <= issue[f.on].version
      BY <2>2, <2>3 DEF EditForms
    <2>5. FormOK(f, "admitted")
      BY <2>4 DEF EditForms, FormOK, AccountForm, KeptForm, DeskForm
    <2> QED
      BY <2>1, <2>2, <2>5, AskKeeps
  <1>4. CASE \E i \in DOMAIN issue, v \in {"comment", "refresh"} :
                Ask(q, [verb |-> v, actor |-> a, on |-> i])
    <2>1. PICK i \in DOMAIN issue, v \in {"comment", "refresh"} :
             Ask(q, [verb |-> v, actor |-> a, on |-> i])
      BY <1>4
    <2>2. PICK f : f = [verb |-> v, actor |-> a, on |-> i]
      OBVIOUS
    <2>3. FormOK(f, "admitted")
      BY <2>2 DEF FormOK, AccountForm, KeptForm, DeskForm
    <2> QED
      BY <2>1, <2>2, <2>3, AskKeeps
  <1> QED
    BY <1>1, <1>2, <1>3, <1>4

LEMMA CreatesKeep ==
    ASSUME Inv, NEW q \in Requests, CheckCreate(q) \/ AttachLocal(q)
    PROVE  Inv'
  <1>1. TablesOK' /\ Grows
    BY Frames DEF CheckCreate, AttachLocal, desk, still, accounts, personal, TablesOK, Grows
  <1>2. FormOK(form[q], "checked")
    <2>1. form[q].verb = "create"
      BY DEF CheckCreate, AttachLocal, Is
    <2> QED
      BY <2>1, FreeForms DEF FreeVerbs
  <1>3. ASSUME NEW at \in {"refused", "done"}, End(q, at)
        PROVE  Inv'
    BY <1>1, <1>3, Ends
  <1>4. CASE Goto(q, "checked")
    BY <1>1, <1>2, <1>4, Gotos
  <1> QED
    BY <1>3, <1>4 DEF CheckCreate, AttachLocal

\* The next number is below those of all the issues that exist only here.
LEMMA CreateLocalKeeps ==
    ASSUME Inv, NEW q \in Requests, NEW i \in Issues, CreateLocal(q, i)
    PROVE  Inv' /\ IssuesGrow
  <1>1. IssueOK /\ i \notin DOMAIN issue /\ now \in Nat /\ counter' = counter - 1
    BY InboxAssumption DEF Inv, TablesOK, IssueOK, CreateLocal
  <1>2. PICK n : n = counter'
    OBVIOUS
  <1>3. n \in Int /\ n < counter /\ n <= -1 /\ counter \in Int
    BY <1>1, <1>2 DEF IssueOK
  <1>4. PICK r : r = [number |-> n, local |-> TRUE, state |-> "open", plain |-> TRUE,
                      version |-> 1, updated |-> now]
    OBVIOUS
  <1>5. /\ DOMAIN issue' = DOMAIN issue \cup {i} /\ issue'[i] = r
        /\ \A j \in DOMAIN issue : issue'[j] = issue[j]
    BY <1>1, <1>2, <1>4 DEF CreateLocal, With
  <1>6. r \in IssueRows
    BY <1>1, <1>3, <1>4 DEF IssueRows
  <1>7. \A j \in DOMAIN issue : /\ issue[j].version \in Nat /\ issue[j] \in IssueRows
                                /\ issue[j].number \in Int /\ issue[j].number # n
                                /\ issue[j].local => issue[j].number \in n..-1
                                /\ ~issue[j].local => issue[j].number = j
                                /\ issue[j].updated \in Nat
    <2> SUFFICES ASSUME NEW j \in DOMAIN issue
                 PROVE  /\ issue[j].version \in Nat /\ issue[j] \in IssueRows
                        /\ issue[j].updated \in Nat
                        /\ issue[j].number \in Int /\ issue[j].number # n
                        /\ issue[j].local => issue[j].number \in n..-1
                        /\ ~issue[j].local => issue[j].number = j
      OBVIOUS
    <2>1. issue[j] \in IssueRows /\ j \in Nat
      BY <1>1, InboxAssumption DEF IssueOK
    <2>2. issue[j].version \in Nat /\ issue[j].number \in Int /\ issue[j].updated \in Nat
      BY <2>1 DEF IssueRows
    <2>3. IF issue[j].local THEN issue[j].number \in counter..-1 ELSE issue[j].number = j
      BY <1>1 DEF IssueOK, NumbersDiffer
    <2> QED
      BY <1>3, <2>1, <2>2, <2>3
  <1>8. IssuesGrow
    BY <1>5, <1>7 DEF IssuesGrow
  <1>9. NumbersDiffer'
    <2>1. \A j \in DOMAIN issue' : IF issue'[j].local THEN issue'[j].number \in n..-1
                                                      ELSE issue'[j].number = j
      BY <1>3, <1>4, <1>5, <1>7
    <2>2. \A j, k \in DOMAIN issue' : issue'[j].number = issue'[k].number => j = k
      <3>1. \A j, k \in DOMAIN issue : issue[j].number = issue[k].number => j = k
        BY <1>1 DEF IssueOK, NumbersDiffer
      <3>2. r.number = n
        BY <1>4
      <3> QED
        BY <1>5, <1>7, <3>1, <3>2
    <2> QED
      BY <1>2, <2>1, <2>2 DEF NumbersDiffer
  <1>10. IssueOK'
    <2>1. \A j \in DOMAIN issue' : issue'[j] \in IssueRows
      BY <1>5, <1>6, <1>7
    <2>2. DOMAIN issue' \subseteq Issues /\ IsFiniteSet(DOMAIN issue')
      BY <1>1, <1>5, FS_AddElement DEF IssueOK
    <2>3. counter' \in Int /\ counter' <= 0 /\ (now \in 0..MaxTime)' /\ now' = now
      BY <1>1, <1>2, <1>3 DEF IssueOK, CreateLocal
    <2>4. \A j \in DOMAIN issue' : issue'[j].local => issue'[j].updated <= now'
      BY <1>1, <1>4, <1>5, <2>3 DEF IssueOK
    <2> QED
      BY <1>9, <2>1, <2>2, <2>3, <2>4 DEF IssueOK
  <1>14. LogOK'
    BY Frames DEF CreateLocal
  <1>11. TablesOK' /\ Grows
    BY <1>8, <1>10, <1>14, IssuesKeep DEF CreateLocal
  <1>12. CASE End(q, "done")
    BY <1>8, <1>11, <1>12, Ends
  <1>13. CASE Go(q, "created", [form[q] EXCEPT !.on = i])
    <2>1. PICK f : f = [form[q] EXCEPT !.on = i]
      OBVIOUS
    <2>2. form[q].verb = "create"
      BY DEF CreateLocal, Is
    <2>3. f.verb = "create"
      BY <2>1, <2>2
    <2>4. FormOK(f, "created")
      BY <2>3, FreeForms DEF FreeVerbs
    <2> QED
      BY <1>8, <1>11, <1>13, <2>1, <2>4, Goes
  <1> QED
    BY <1>12, <1>13 DEF CreateLocal

LEMMA FindLocalKeeps ==
    ASSUME Inv, NEW q \in Requests, FindLocal(q)
    PROVE  Inv'
  <1>1. TablesOK' /\ Grows
    BY StillKeeps DEF FindLocal
  <1>2. FormOK(form[q], pc[q]) /\ form[q].verb = "edit"
    BY DEF Inv, FormsOK, FindLocal, Is
  <1>3. /\ form[q] \in EditForms /\ form[q].on \in DOMAIN issue
        /\ form[q].expected <= issue[form[q].on].version
    BY <1>2 DEF FormOK, DeskForm
  <1>4. PICK v : v = issue[form[q].on].version /\ v \in Nat
    BY <1>3 DEF Inv, TablesOK, IssueOK, IssueRows
  <1>5. CASE End(q, "done")
    BY <1>1, <1>5, Ends
  <1>6. CASE issue[form[q].on].local /\ Go(q, "found", [form[q] EXCEPT !.current = v])
    <2>1. PICK f : f = [form[q] EXCEPT !.current = v]
      OBVIOUS
    <2>2. /\ f \in EditForms /\ f.on \in DOMAIN issue /\ f.expected <= issue[f.on].version
          /\ f.expected <= f.current /\ issue[f.on].local
      BY <1>3, <1>4, <1>6, <2>1 DEF EditForms
    <2>3. FormOK(f, "found")
      BY <2>2 DEF EditForms, FormOK, AccountForm, KeptForm, DeskForm
    <2> QED
      BY <1>1, <1>6, <2>1, <2>3, Goes
  <1> QED
    BY <1>4, <1>5, <1>6 DEF FindLocal

\* The one statement that compares the versions raises the one it has compared: of
\* two edits from one version the second finds another.
LEMMA UpdateLocalKeeps ==
    ASSUME Inv, NEW q \in Requests, UpdateLocal(q)
    PROVE  Inv' /\ IssuesGrow
  <1>1. FormOK(form[q], pc[q]) /\ form[q].verb = "edit" /\ pc[q] = "found"
    BY DEF Inv, FormsOK, UpdateLocal, Is
  <1>2. PICK f : f = form[q]
    OBVIOUS
  <1>3. /\ f \in EditForms /\ f.on \in DOMAIN issue
        /\ f.expected <= issue[f.on].version /\ f.expected <= f.current /\ issue[f.on].local
    BY <1>1, <1>2 DEF FormOK, DeskForm
  <1>4. IssueOK /\ now \in Nat
    BY InboxAssumption DEF Inv, TablesOK, IssueOK
  <1>5. PICK i, r : i = f.on /\ r = issue[i]
    OBVIOUS
  <1>6. r \in IssueRows /\ r.version \in Nat /\ r.version + 1 \in Nat /\ f.expected \in Nat
    BY <1>3, <1>4, <1>5 DEF IssueOK, IssueRows, EditForms
  <1>7. CASE f.expected # r.version /\ Goto(q, "stale") /\ UNCHANGED issue
    <2>1. TablesOK' /\ Grows
      BY <1>7, Frames DEF UpdateLocal, still, accounts, personal, TablesOK, Grows
    <2>2. f.expected < issue[f.on].version
      BY <1>3, <1>5, <1>6, <1>7
    <2>3. FormOK(f, "stale")
      BY <1>3, <2>2 DEF EditForms, FormOK, AccountForm, KeptForm, DeskForm
    <2> QED
      BY <1>2, <1>7, <2>1, <2>3, Gotos DEF Grows
  <1>8. CASE /\ f.expected = r.version /\ Goto(q, "edited")
             /\ issue' = [issue EXCEPT ![i].state = IF f.state = None THEN @ ELSE f.state,
                                       ![i].version = @ + 1, ![i].updated = now]
    <2>1. issue'[i] = [r EXCEPT !.state = IF f.state = None THEN r.state ELSE f.state,
                                !.version = r.version + 1, !.updated = now]
      BY <1>3, <1>5, <1>8
    <2>2. f.state \in {"open", "closed", None} /\ r.state \in {"open", "closed"}
      BY <1>3, <1>6 DEF EditForms, IssueRows
    <2>3. issue'[i] \in IssueRows
      BY <1>4, <1>6, <2>1, <2>2 DEF IssueRows
    <2>4. /\ issue'[i].number = r.number /\ issue'[i].local = r.local
          /\ issue'[i].version = r.version + 1 /\ issue'[i].updated = now
      BY <1>6, <2>1 DEF IssueRows
    <2>17. r.updated \in Nat /\ r.updated <= now
      BY <1>3, <1>4, <1>5, <1>6 DEF IssueOK, IssueRows
    <2>5. /\ DOMAIN issue' = DOMAIN issue
          /\ \A j \in DOMAIN issue \ {i} : issue'[j] = issue[j]
      BY <1>8
    <2>6. \A j \in DOMAIN issue : /\ issue'[j] \in IssueRows
                                  /\ issue'[j].number = issue[j].number
                                  /\ issue'[j].local = issue[j].local
                                  /\ issue[j].version <= issue'[j].version
                                  /\ issue'[j].version \in Nat
                                  /\ issue[j].updated <= issue'[j].updated
                                  /\ issue'[j].updated \in Nat
                                  /\ issue'[j] = issue[j] \/ issue[j].version < issue'[j].version
                                  /\ issue'[j].local => issue'[j].updated <= now
      <3>1. \A j \in DOMAIN issue : /\ issue[j] \in IssueRows /\ issue[j].version \in Nat
                                    /\ issue[j].updated \in Nat
                                    /\ issue[j].local => issue[j].updated <= now
        BY <1>4 DEF IssueOK, IssueRows
      <3> QED
        BY <1>4, <1>5, <1>6, <2>3, <2>4, <2>5, <2>17, <3>1
    <2>7. UNCHANGED <<counter, now, inbox, still>>
      BY DEF UpdateLocal
    <2>8. NumbersDiffer'
      BY <1>4, <2>5, <2>6, <2>7 DEF IssueOK, NumbersDiffer
    <2>9. IssueOK' /\ IssuesGrow
      BY <1>4, <2>5, <2>6, <2>7, <2>8 DEF IssueOK, IssuesGrow
    <2>10. TablesOK' /\ Grows
      BY <2>7, <2>9, IssuesKeep, Frames DEF UpdateLocal
    <2>11. Moved(q) /\ form'[q] = f /\ pc'[q] = "edited"
      BY <1>2, <1>8 DEF Goto, Moved, Inv, FormsOK
    <2>12. f.expected < issue'[f.on].version
      BY <1>5, <1>6, <1>8, <2>4
    <2>13. FormOK(f, "edited")'
      BY <1>3, <1>6, <2>4, <2>5, <2>12, <1>5
      DEF EditForms, FormOK, AccountForm, KeptForm, DeskForm
    <2>14. FormsOK'
      <3>1. ASSUME NEW p \in Requests, p # q
            PROVE  FormOK(form[p], pc[p])'
        <4>1. PICK g, at : g = form[p] /\ at = pc[p]
          OBVIOUS
        <4>2. g = form'[p] /\ at = pc'[p]
          BY <2>11, <3>1, <4>1 DEF Moved
        <4>3. FormOK(g, at)
          BY <4>1 DEF Inv, FormsOK
        <4>4. FormOK(g, at)'
          BY <2>10, <4>3, FormsLast
        <4> QED
          BY <4>2, <4>4
      <3> QED
        BY <2>11, <2>13, <3>1 DEF FormsOK, Moved
    <2>15. ASSUME NEW p \in Requests, p # q, pc[p] = "edited", form[p].on = f.on
           PROVE  form[p].expected # f.expected
      <3>1. FormOK(form[p], "edited")
        BY <2>15 DEF Inv, FormsOK
      <3>2. form[p] \in EditForms /\ form[p].expected < issue[form[p].on].version
        BY <3>1 DEF FormOK, DeskForm
      <3> QED
        BY <1>5, <1>6, <1>8, <2>15, <3>2 DEF EditForms
    <2>16. EditsDiffer'
      BY <2>11, <2>15 DEF EditsDiffer, Moved, Inv
    <2> QED
      BY <2>9, <2>10, <2>14, <2>16 DEF Inv
  <1> QED
    BY <1>2, <1>5, <1>7, <1>8 DEF UpdateLocal

LEMMA CreateCommentKeeps ==
    ASSUME Inv, NEW q \in Requests, CreateComment(q)
    PROVE  Inv'
  <1>1. TablesOK' /\ Grows
    BY StillKeeps DEF CreateComment
  <1>2. \E at \in {"refused", "done"} : End(q, at)
    BY DEF CreateComment
  <1> QED
    BY <1>1, <1>2, Ends

LEMMA RefreshIssueKeeps ==
    ASSUME Inv, NEW q \in Requests, RefreshIssue(q)
    PROVE  Inv' /\ IssuesGrow
  <1>1. FormOK(form[q], pc[q]) /\ form[q].verb = "refresh"
    BY DEF Inv, FormsOK, RefreshIssue, Is
  <1>2. PICK i : i = form[q].on /\ i \in DOMAIN issue
    BY <1>1 DEF FormOK, DeskForm
  <1>3. i \in Issues
    BY <1>2 DEF Inv, TablesOK, IssueOK
  <1>4. IssueOK' /\ IssuesGrow
    <2>1. CASE UNCHANGED issue
      BY <2>1, Frames DEF RefreshIssue, IssuesGrow
    <2>2. CASE ~issue[i].local /\ \E t \in 1..now, s \in {"open", "closed"} : UpsertIssue(i, t, s)
      BY <1>2, <1>3, <2>2, UpsertsKeep DEF RefreshIssue
    <2> QED
      BY <1>2, <2>1, <2>2 DEF RefreshIssue
  <1>5. TablesOK' /\ Grows
    BY <1>4, IssuesKeep, Frames DEF RefreshIssue
  <1> QED
    BY <1>4, <1>5, Ends DEF RefreshIssue

-----------------------------------------------------------------------------
(* Every step *)

LEMMA StepKeeps == Inv /\ [DeskNext]_every => Inv'
  <1> SUFFICES ASSUME Inv, [DeskNext]_every PROVE Inv'
    OBVIOUS
  <1> USE DEF Idle, Busy
  <1>1. CASE UNCHANGED every
    <2>1. UNCHANGED <<still, desk>> /\ UNCHANGED <<pc, form>>
      BY <1>1 DEF every, allVars, still
    <2> QED
      BY <2>1, StillKeeps, NobodyMoves DEF Inv
  <1>2. CASE Arrive
    BY <1>2, ArriveKeeps
  <1>3. CASE Tick
    BY <1>3, TickKeeps
  <1>4. ASSUME NEW q \in Requests, AskRead(q) \/ AskInbox(q) \/ AskLocal(q),
               UNCHANGED <<still, desk>>
        PROVE  Inv'
    BY <1>4, AskReadKeeps, AskInboxKeeps, AskLocalKeeps
  <1>5. ASSUME NEW q \in Requests, Reads(q) \/ Sorts(q) \/ Locally(q)
        PROVE  Inv'
    <2>1. CASE Reads(q)
      BY <2>1, WalksKeep, GetIssueKeeps DEF Reads
    <2>2. CASE Sorts(q)
      BY <2>2, SetStatusKeeps, BulkInboxKeeps DEF Sorts
    <2>3. CASE Locally(q)
      BY <2>3, CreatesKeep, FindLocalKeeps, UpdateLocalKeeps, CreateCommentKeeps,
         RefreshIssueKeeps, CreateLocalKeeps DEF Locally
    <2> QED
      BY <1>5, <2>1, <2>2, <2>3
  <1>6. CASE Next /\ UNCHANGED desk
    <2>1. ASSUME NEW q \in Requests, Keeps(q)
          PROVE  Inv'
      BY <1>6, <2>1, ReadPinsKeeps, CountPinsKeeps, InsertPinKeeps, RemovePinKeeps,
         CheckOrderKeeps, RewriteOrderKeeps, CheckScopeKeeps, ReadTagKeeps, UpdateTagKeeps,
         AddLinksKeeps, CountLinksKeeps, RemoveLinksKeeps, CreateTagKeeps, WriteSettingKeeps
      DEF Keeps
    <2>2. ASSUME NEW q \in Requests, AskPin(q) \/ AskTag(q) \/ AskSetting(q),
                 UNCHANGED <<accounts, personal>>
          PROVE  Inv'
      BY <1>6, <2>2, AskPinKeeps, AskTagKeeps, AskSettingKeeps DEF still
    <2>3. CASE AccountsNext /\ UNCHANGED personal
      <3>1. CASE Deliver
        BY <1>6, <2>3, <3>1, DeliverKeeps
      <3>2. ASSUME NEW q \in Requests, AskOperator(q), UNCHANGED accounts
            PROVE  Inv'
        BY <1>6, <2>3, <3>2, AskOperatorKeeps DEF still
      <3>3. ASSUME NEW q \in Requests, Operates(q)
            PROVE  Inv'
        BY <1>6, <2>3, <3>3, CheckRoleKeeps, SetRoleKeeps, UpdateUserKeeps, PseudonymiseKeeps,
           SetHomeOrgKeeps, ExportKeeps DEF Operates
      <3> QED
        BY <2>3, <3>1, <3>2, <3>3 DEF AccountsNext
    <2> QED
      BY <1>6, <2>1, <2>2, <2>3 DEF Next
  <1> QED
    BY <1>1, <1>2, <1>3, <1>4, <1>5, <1>6 DEF DeskNext

LEMMA Invariance == Spec => []Inv
  BY InvStarts, StepKeeps, PTL DEF Spec

\* The rows are of their types, nobody has two home orgs, no scope two tags of one
\* name and no tag two links to one thing, no marker is ahead of its issue, numbers
\* differ, and of two edits from one version one is refused as stale.
THEOREM DeskIsSound == Spec => []DeskTypeOK
  BY Invariance, InvSays, PTL

\* Nobody who has been anonymised is named again while the row says they are deleted.
THEOREM DeletedStayNameless == Spec => []DeletedAreNameless
  BY Invariance, InvSays, PTL

-----------------------------------------------------------------------------
(* What is decided stays *)

\* Only a delivery counts one, and it leaves roles and home orgs as they are.
LEMMA DeliverySpares ==
    ASSUME Inv, [DeskNext]_every, webhooks' # webhooks
    PROVE  /\ \A u \in DOMAIN user : user'[u].role = user[u].role
           /\ \A m \in DOMAIN home : home'[m] = home[m]
  <1>1. Deliver
    <2>1. ASSUME NEW q \in Requests, Operates(q)
          PROVE  UNCHANGED webhooks
      BY <2>1 DEF Operates, CheckRole, SetRole, UpdateUser, Pseudonymise, SetHomeOrg, ReadUser,
                  ReadPage, BreakOff, accounts
    <2>2. ASSUME NEW q \in Requests, Keeps(q)
          PROVE  UNCHANGED webhooks
      BY <2>2 DEF Keeps, ReadPins, CountPins, InsertPin, RemovePin, CheckOrder, RewriteOrder,
                  CheckScope, ReadTag, UpdateTag, AddLinks, CountLinks, RemoveLinks, CreateTag,
                  WriteSetting, accounts
    <2>3. ASSUME NEW q \in Requests, Reads(q) \/ Sorts(q)
          PROVE  UNCHANGED webhooks
      BY <2>3 DEF Reads, BeginWalk, ReadQueue, ReadList, ReadTimeline, GetIssue, Sorts,
                  SetStatus, BulkInbox, still, accounts
    <2>4. ASSUME NEW q \in Requests, Locally(q)
          PROVE  UNCHANGED webhooks
      BY <2>4 DEF Locally, CheckCreate, CreateLocal, AttachLocal, FindLocal, UpdateLocal,
                  CreateComment, RefreshIssue, still, accounts
    <2>5. CASE AccountsNext
      BY <2>1, <2>5 DEF AccountsNext, accounts, Busy
    <2>6. CASE Next
      BY <2>2, <2>5, <2>6 DEF Next, accounts, Busy
    <2>7. CASE Arrive \/ Tick
      BY <2>7 DEF Arrive, Tick, still, accounts
    <2> QED
      BY <2>3, <2>4, <2>6, <2>7 DEF DeskNext, every, allVars, still, accounts, Busy
  <1>2. ASSUME NEW u \in People, UpsertUser(u)
        PROVE  \A v \in DOMAIN user : user'[v].role = user[v].role
    BY <1>2 DEF UpsertUser, With
  <1>3. ASSUME NEW u \in People, NEW o \in Orgs, UpsertMembership(u, o)
        PROVE  \A m \in DOMAIN home : home'[m] = home[m]
    BY <1>3 DEF UpsertMembership, With
  <1>4. CASE \E u \in People, o \in Orgs : DeliverMember(u, o)
    BY <1>2, <1>3, <1>4 DEF DeliverMember
  <1>5. CASE \E e \in Events, t \in Times : DeliverEvent(e, t)
    BY <1>2, <1>5, AccountsAssumption DEF DeliverEvent
  <1> QED
    BY <1>1, <1>4, <1>5 DEF Deliver

LEMMA StepAdvances ==
    ASSUME Inv, [DeskNext]_every
    PROVE  MarksAdvance /\ RowsAdvance
  <1>1. CASE \E q \in Requests : Sorts(q)
    BY <1>1, SetStatusKeeps, BulkInboxKeeps DEF Sorts
  <1>2. CASE ~ \E q \in Requests : Sorts(q)
    <2>1. ASSUME NEW q \in Requests, Reads(q) \/ Locally(q)
          PROVE  UNCHANGED inbox
      BY <2>1 DEF Reads, BeginWalk, ReadQueue, ReadList, ReadTimeline, GetIssue, Locally,
                  CheckCreate, CreateLocal, AttachLocal, FindLocal, UpdateLocal,
                  CreateComment, RefreshIssue, desk
    <2>2. UNCHANGED inbox
      BY <1>2, <2>1 DEF DeskNext, Arrive, Tick, every, desk, Busy
    <2> QED
      BY <2>2, MarksRest
  <1> QED
    BY <1>1, <1>2

\* No delivery changes a role or a home org that has been set, and no mark of having
\* seen goes back, wakes an issue or dismisses it.
THEOREM DecisionsStand == Spec => ChoicesAreKept
  <1>1. Inv /\ [DeskNext]_every
        => [webhooks' # webhooks =>
               /\ \A u \in DOMAIN user : user'[u].role = user[u].role
               /\ \A m \in DOMAIN home : home'[m] = home[m]]_<<accounts, pc, form>>
    BY DeliverySpares
  <1>2. Inv /\ [DeskNext]_every
        => [\A k \in DOMAIN inbox :
               /\ k \in DOMAIN inbox' /\ inbox'[k].seen >= inbox[k].seen
               /\ inbox'[k].seen > inbox[k].seen =>
                     inbox'[k].status = inbox[k].status /\ inbox'[k].until = inbox[k].until]_every
    BY StepAdvances DEF MarksAdvance
  <1> QED
    BY <1>1, <1>2, Invariance, PTL DEF Spec, ChoicesAreKept, WorkerKeepsChoices

-----------------------------------------------------------------------------
(* Walks of lists: what no step takes from under them *)

\* Rows are added and move on; an event keeps its time, or has been given another.
Advances ==
    /\ DOMAIN stamp \subseteq DOMAIN stamp'
    /\ restamped' \/ (~restamped /\ \A e \in DOMAIN stamp : stamp'[e] = stamp[e])
    /\ IssuesGrow /\ RowsAdvance
    /\ LogGrows /\ project.has \subseteq project'.has /\ now <= now'

\* The request that moves may move a walk in six ways; what every other step does with
\* a request leaves it outside a walk.
Outside(f, at) ==
    /\ at \notin {"walking", "walked", "streaming", "exported"}
    /\ at = "admitted" => f.verb \notin {"queue", "list", "timeline"}

Walks(q) ==
    \/ AskRead(q) \/ BeginWalk(q) \/ ReadQueue(q) \/ ReadList(q) \/ ReadTimeline(q)
    \/ ReadUser(q) \/ ReadPage(q)

Rests(q) == Outside(form'[q], pc'[q]) \/ (form'[q] = form[q] /\ pc'[q] = pc[q])

LEMMA StampsAdvance ==
    ASSUME Inv, Deliver
    PROVE  /\ DOMAIN stamp \subseteq DOMAIN stamp'
           /\ restamped' \/ (~restamped /\ \A e \in DOMAIN stamp : stamp'[e] = stamp[e])
  <1>1. restamped \in BOOLEAN
    BY DEF Inv, TablesOK, StampOK
  <1>2. CASE \E u \in People, o \in Orgs : DeliverMember(u, o)
    BY <1>1, <1>2 DEF DeliverMember
  <1>3. CASE \E e \in Events, t \in Times : DeliverEvent(e, t)
    <2>1. PICK e \in Events, t \in Times : DeliverEvent(e, t)
      BY <1>3
    <2>2. /\ DOMAIN stamp' = DOMAIN stamp \cup {e} /\ stamp'[e] = t
          /\ \A d \in DOMAIN stamp \ {e} : stamp'[d] = stamp[d]
      BY <2>1 DEF DeliverEvent, With
    <2>3. restamped' = (restamped \/ (e \in DOMAIN stamp /\ stamp[e] # t))
      BY <2>1 DEF DeliverEvent
    <2> QED
      BY <1>1, <2>2, <2>3
  <1> QED
    BY <1>2, <1>3 DEF Deliver

\* Steps of the office leave the desk alone, and only a delivery touches the times.
LEMMA LogRests == UNCHANGED log => LogGrows
  BY DEF LogGrows

LEMMA OfficeAdvances ==
    ASSUME Inv, Next, UNCHANGED desk
    PROVE  Advances
  <1>1. restamped \in BOOLEAN /\ now \in Nat
    BY InboxAssumption DEF Inv, TablesOK, StampOK, IssueOK
  <1>2. IssuesGrow /\ RowsAdvance
    BY Frames, MarksRest, LogRests DEF desk
  <1>3. CASE Deliver
    BY <1>1, <1>2, <1>3, StampsAdvance, LogRests DEF Advances, desk
  <1>4. CASE UNCHANGED <<stamp, restamped>>
    BY <1>1, <1>2, <1>4, LogRests DEF Advances, desk
  <1>5. ASSUME NEW q \in Requests, Operates(q)
        PROVE  UNCHANGED <<stamp, restamped>>
    BY <1>5 DEF Operates, CheckRole, SetRole, UpdateUser, Pseudonymise, SetHomeOrg, ReadUser,
                ReadPage, BreakOff, accounts
  <1>6. ASSUME NEW q \in Requests, Keeps(q)
        PROVE  UNCHANGED <<stamp, restamped>>
    BY <1>6 DEF Keeps, ReadPins, CountPins, InsertPin, RemovePin, CheckOrder, RewriteOrder,
                CheckScope, ReadTag, UpdateTag, AddLinks, CountLinks, RemoveLinks, CreateTag,
                WriteSetting, accounts
  <1> QED
    BY <1>3, <1>4, <1>5, <1>6 DEF Next, AccountsNext, accounts, Busy

LEMMA DeskAdvances ==
    ASSUME Inv, UNCHANGED accounts,
           \/ Arrive \/ Tick \/ UNCHANGED desk
           \/ \E q \in Requests : Reads(q) \/ Sorts(q) \/ Locally(q)
    PROVE  Advances
  <1>1. /\ DOMAIN stamp \subseteq DOMAIN stamp'
        /\ restamped' \/ (~restamped /\ \A e \in DOMAIN stamp : stamp'[e] = stamp[e])
    BY DEF accounts, Inv, TablesOK, StampOK
  <1>2. now \in Nat
    BY InboxAssumption DEF Inv, TablesOK, IssueOK
  <1>3. ASSUME NEW q \in Requests, Reads(q)
        PROVE  UNCHANGED desk
    BY <1>3 DEF Reads, BeginWalk, ReadQueue, ReadList, ReadTimeline, GetIssue, desk
  <1>4. CASE UNCHANGED desk
    BY <1>1, <1>2, <1>4, Frames, MarksRest, LogRests DEF Advances, desk
  <1>5. CASE Arrive
    <2>1. LogGrows
      <3>1. CASE ChangeIssue
        BY <3>1 DEF ChangeIssue, LogGrows
      <3>2. CASE LogEvent
        <4>1. PICK i \in Remote \cap DOMAIN issue, t \in 1..now,
                   k \in {"issue_opened", "issue_closed"} : RecordEvent(issue[i].number, k, t)
          BY <3>2 DEF LogEvent
        <4>2. issue[i].number \in Int /\ t \in Nat
          BY InboxAssumption DEF Inv, TablesOK, IssueOK, IssueRows
        <4> QED
          BY <4>1, <4>2, RecordsKeep
      <3> QED
        BY <1>5, <3>1, <3>2 DEF Arrive
    <2> QED
      BY <1>1, <1>2, <1>5, <2>1, ArriveKeeps, MarksRest DEF Arrive, Advances
  <1>6. CASE Tick
    BY <1>1, <1>2, <1>6, Frames, MarksRest, LogRests DEF Tick, Advances
  <1>7. ASSUME NEW q \in Requests, Sorts(q)
        PROVE  Advances
    BY <1>1, <1>2, <1>7, SetStatusKeeps, BulkInboxKeeps, Frames, LogRests
    DEF Sorts, SetStatus, BulkInbox, Advances
  <1>8. ASSUME NEW q \in Requests, Locally(q)
        PROVE  Advances
    <2>1. CASE CheckCreate(q) \/ FindLocal(q) \/ CreateComment(q)
      BY <1>4, <2>1 DEF CheckCreate, FindLocal, CreateComment
    <2>2. CASE AttachLocal(q)
      <3>1. project.has \subseteq project'.has
        BY <2>2 DEF AttachLocal
      <3> QED
        BY <1>1, <1>2, <2>2, <3>1, Frames, MarksRest, LogRests DEF AttachLocal, Advances
    <2>3. CASE UpdateLocal(q)
      <3>1. UNCHANGED <<log, project, now, inbox>>
        BY <2>3 DEF UpdateLocal
      <3> QED
        BY <1>1, <1>2, <2>3, <3>1, UpdateLocalKeeps, MarksRest, LogRests DEF Advances
    <2>4. CASE RefreshIssue(q)
      BY <1>1, <1>2, <2>4, RefreshIssueKeeps, MarksRest, LogRests DEF RefreshIssue, Advances
    <2>5. ASSUME NEW i \in Issues, CreateLocal(q, i)
          PROVE  Advances
      BY <1>1, <1>2, <2>5, CreateLocalKeeps, MarksRest, LogRests DEF CreateLocal, Advances
    <2> QED
      BY <1>8, <2>1, <2>2, <2>3, <2>4, <2>5 DEF Locally
  <1> QED
    BY <1>3, <1>4, <1>5, <1>6, <1>7, <1>8

LEMMA StepsAdvance ==
    ASSUME Inv, [DeskNext]_every
    PROVE  Advances
  <1>1. CASE Next /\ UNCHANGED desk
    BY <1>1, OfficeAdvances
  <1>2. CASE UNCHANGED every
    BY <1>2, DeskAdvances DEF every, allVars
  <1>3. CASE Arrive \/ Tick
    BY <1>3, DeskAdvances DEF Arrive, Tick, still
  <1>4. CASE \E q \in Idle : (AskRead(q) \/ AskInbox(q) \/ AskLocal(q)) /\ UNCHANGED <<still, desk>>
    BY <1>4, DeskAdvances DEF still
  <1>5. ASSUME NEW q \in Requests, Reads(q) \/ Sorts(q) \/ Locally(q)
        PROVE  Advances
    <2>1. UNCHANGED still
      BY <1>5 DEF Reads, BeginWalk, ReadQueue, ReadList, ReadTimeline, GetIssue, Sorts,
                  SetStatus, BulkInbox, Locally, CheckCreate, CreateLocal, AttachLocal,
                  FindLocal, UpdateLocal, CreateComment, RefreshIssue
    <2> QED
      BY <1>5, <2>1, DeskAdvances DEF still
  <1> QED
    BY <1>1, <1>2, <1>3, <1>4, <1>5 DEF DeskNext, Busy

-----------------------------------------------------------------------------
(* ... and who is walking *)

InAWalk == {"admitted", "walking", "walked", "streaming", "exported"}

\* A request that is not about to walk moves past no walk, and no other moves at all.
LEMMA GoRests ==
    ASSUME Inv, NEW q \in Requests, NEW at, NEW f, Go(q, at, f), at \notin InAWalk,
           NEW p \in Requests
    PROVE  Rests(p)
  BY DEF Go, Rests, Outside, InAWalk, Inv, FormsOK

LEMMA EndRests ==
    ASSUME Inv, NEW q \in Requests, NEW at, End(q, at), at \notin InAWalk, NEW p \in Requests
    PROVE  Rests(p)
  BY GoRests DEF End

LEMMA GotoRests ==
    ASSUME Inv, NEW q \in Requests, NEW at, Goto(q, at), at \notin InAWalk, NEW p \in Requests
    PROVE  Rests(p)
  BY DEF Goto, Rests, Outside, InAWalk, Inv, FormsOK

LEMMA AskRests ==
    ASSUME Inv, NEW q \in Requests, NEW f, Ask(q, f),
           f.verb \notin {"queue", "list", "timeline"}, NEW p \in Requests
    PROVE  Rests(p)
  <1>1. CASE Go(q, "admitted", f)
    BY <1>1 DEF Go, Rests, Outside, Inv, FormsOK
  <1>2. CASE End(q, "denied")
    BY <1>2, EndRests DEF InAWalk
  <1> QED
    BY <1>1, <1>2 DEF Ask

LEMMA OperatorsRest ==
    ASSUME Inv, NEW q \in Requests, Operates(q), NEW p \in Requests
    PROVE  Rests(p) \/ ReadUser(q) \/ ReadPage(q)
  <1> USE DEF InAWalk
  <1>1. CASE CheckRole(q)
    BY <1>1, EndRests, GotoRests DEF CheckRole
  <1>2. CASE SetRole(q) \/ UpdateUser(q) \/ Pseudonymise(q) \/ SetHomeOrg(q) \/ BreakOff(q)
    BY <1>2, EndRests DEF SetRole, UpdateUser, Pseudonymise, SetHomeOrg, BreakOff
  <1> QED
    BY <1>1, <1>2 DEF Operates

LEMMA KeepersRest ==
    ASSUME Inv, NEW q \in Requests, Keeps(q), NEW p \in Requests
    PROVE  Rests(p)
  <1> USE DEF InAWalk
  <1>1. CASE ReadPins(q)
    BY <1>1, EndRests, GoRests DEF ReadPins
  <1>2. CASE InsertPin(q) \/ RemovePin(q) \/ RewriteOrder(q) \/ UpdateTag(q)
             \/ AddLinks(q) \/ RemoveLinks(q) \/ WriteSetting(q)
    BY <1>2, EndRests DEF InsertPin, RemovePin, RewriteOrder, UpdateTag, AddLinks, RemoveLinks,
                          WriteSetting
  <1>3. CASE CountPins(q) \/ CheckOrder(q) \/ CheckScope(q) \/ CountLinks(q)
    BY <1>3, EndRests, GotoRests DEF CountPins, CheckOrder, CheckScope, CountLinks
  <1>4. CASE ReadTag(q)
    BY <1>4, EndRests, GotoRests, GoRests DEF ReadTag
  <1>5. CASE \E t \in Tags : CreateTag(q, t)
    BY <1>5, EndRests DEF CreateTag
  <1> QED
    BY <1>1, <1>2, <1>3, <1>4, <1>5 DEF Keeps

LEMMA DesksRest ==
    ASSUME Inv, NEW q \in Requests, GetIssue(q) \/ Sorts(q) \/ Locally(q), NEW p \in Requests
    PROVE  Rests(p)
  <1> USE DEF InAWalk
  <1>1. CASE GetIssue(q)
    BY <1>1, GoRests DEF GetIssue
  <1>2. CASE Sorts(q)
    BY <1>2, EndRests DEF Sorts, SetStatus, BulkInbox
  <1>3. CASE CheckCreate(q) \/ UpdateLocal(q)
    BY <1>3, EndRests, GotoRests DEF CheckCreate, UpdateLocal
  <1>4. CASE AttachLocal(q) \/ CreateComment(q) \/ RefreshIssue(q)
    BY <1>4, EndRests DEF AttachLocal, CreateComment, RefreshIssue
  <1>5. CASE FindLocal(q)
    BY <1>5, EndRests, GoRests DEF FindLocal
  <1>6. ASSUME NEW i \in Issues, CreateLocal(q, i)
        PROVE  Rests(p)
    <2>1. End(q, "done") \/ Go(q, "created", [form[q] EXCEPT !.on = i])
      BY <1>6 DEF CreateLocal
    <2> QED
      BY <2>1, EndRests, GoRests
  <1> QED
    BY <1>1, <1>2, <1>3, <1>4, <1>5, <1>6 DEF Locally

LEMMA AsksRest ==
    ASSUME Inv, NEW q \in Requests, NEW p \in Requests,
           AskOperator(q) \/ AskPin(q) \/ AskTag(q) \/ AskSetting(q) \/ AskInbox(q) \/ AskLocal(q)
    PROVE  Rests(p)
  <1>1. CASE AskOperator(q)
    BY <1>1, AskRests DEF AskOperator
  <1>2. CASE AskPin(q)
    BY <1>2, AskRests DEF AskPin
  <1>3. CASE AskTag(q)
    BY <1>3, AskRests DEF AskTag
  <1>4. CASE AskSetting(q) \/ AskInbox(q)
    BY <1>4, AskRests DEF AskSetting, AskInbox
  <1>5. CASE AskLocal(q)
    BY <1>5, AskRests DEF AskLocal
  <1> QED
    BY <1>1, <1>2, <1>3, <1>4, <1>5

LEMMA WhoWalks ==
    ASSUME Inv, [DeskNext]_every, NEW p \in Requests
    PROVE  Rests(p) \/ \E q \in Requests : Walks(q)
  <1> USE DEF Idle, Busy
  <1>1. CASE UNCHANGED every \/ Arrive \/ Tick \/ Deliver
    BY <1>1 DEF every, allVars, Arrive, Tick, Deliver, Rests
  <1>2. ASSUME NEW q \in Requests, AskRead(q) \/ AskInbox(q) \/ AskLocal(q)
        PROVE  Rests(p) \/ Walks(q)
    BY <1>2, AsksRest DEF Walks
  <1>3. ASSUME NEW q \in Requests, Reads(q) \/ Sorts(q) \/ Locally(q)
        PROVE  Rests(p) \/ Walks(q)
    BY <1>3, DesksRest DEF Walks, Reads
  <1>4. CASE Next
    <2>1. ASSUME NEW q \in Requests, AskPin(q) \/ AskTag(q) \/ AskSetting(q) \/ AskOperator(q)
          PROVE  Rests(p)
      BY <2>1, AsksRest
    <2>2. ASSUME NEW q \in Requests, Keeps(q)
          PROVE  Rests(p)
      BY <2>2, KeepersRest
    <2>3. ASSUME NEW q \in Requests, Operates(q)
          PROVE  Rests(p) \/ Walks(q)
      BY <2>3, OperatorsRest DEF Walks
    <2> QED
      BY <1>1, <1>4, <2>1, <2>2, <2>3 DEF Next, AccountsNext
  <1> QED
    BY <1>1, <1>2, <1>3, <1>4 DEF DeskNext

-----------------------------------------------------------------------------
(* Pages *)

\* Whatever takes ranks by an order takes each from 1 on, and once.
LEMMA Ranked ==
    ASSUME NEW S, IsFiniteSet(S), NEW R, IsStrictOrder(R, S),
           NEW rank, \A a \in S : rank[a] = 1 + Cardinality(Earlier(R, S, a))
    PROVE  /\ Cardinality(S) \in Nat
           /\ \A n \in 1..Cardinality(S) : \E a \in S : rank[a] = n
           /\ \A a \in S : rank[a] \in 1..Cardinality(S)
           /\ \A a, b \in S : <<a, b>> \in R => rank[a] < rank[b]
           /\ \A a, b \in S : rank[a] = rank[b] => a = b
  <1>1. Cardinality(S) \in Nat
    BY FS_CardinalityType
  <1>2. ASSUME NEW n \in 1..Cardinality(S)
        PROVE  \E a \in S : rank[a] = n
    <2>1. n - 1 \in 0..(Cardinality(S) - 1)
      BY <1>1
    <2>2. PICK a \in S : Cardinality(Earlier(R, S, a)) = n - 1
      BY <2>1, RankIsOnto
    <2>3. rank[a] = n
      BY <2>2
    <2> QED
      BY <2>3
  <1>3. ASSUME NEW a \in S
        PROVE  Cardinality(Earlier(R, S, a)) \in Nat /\ rank[a] \in 1..Cardinality(S)
    <2>1. Earlier(R, S, a) \subseteq S \ {a}
      BY DEF Earlier, IsStrictOrder
    <2>2. IsFiniteSet(S \ {a}) /\ Cardinality(S \ {a}) = Cardinality(S) - 1
      BY FS_RemoveElement
    <2>3. /\ IsFiniteSet(Earlier(R, S, a))
          /\ Cardinality(Earlier(R, S, a)) <= Cardinality(S) - 1
      BY <2>1, <2>2, FS_Subset
    <2>4. Cardinality(Earlier(R, S, a)) \in Nat
      BY <2>3, FS_CardinalityType
    <2> QED
      BY <1>1, <2>3, <2>4
  <1>4. ASSUME NEW a \in S, NEW b \in S, <<a, b>> \in R
        PROVE  rank[a] < rank[b]
    <2>1. Cardinality(Earlier(R, S, a)) < Cardinality(Earlier(R, S, b))
      BY <1>4, EarlierHasFewer
    <2> QED
      BY <1>3, <2>1
  <1>5. ASSUME NEW a \in S, NEW b \in S, rank[a] = rank[b], a # b
        PROVE  FALSE
    <2>1. <<a, b>> \in R \/ <<b, a>> \in R
      BY <1>5 DEF IsStrictOrder
    <2>2. rank[a] \in Int /\ rank[b] \in Int
      BY <1>3
    <2> QED
      BY <1>4, <1>5, <2>1, <2>2
  <1> QED
    BY <1>1, <1>2, <1>3, <1>4, <1>5

\* In a list of all there is, those that come before whatever they hold are a prefix.
LEMMA Prefix ==
    ASSUME NEW S, IsFiniteSet(S), NEW s \in SetToSeqs(S), NEW D \in SUBSET S,
           \A m, n \in DOMAIN s : m < n /\ s[n] \in D => s[m] \in D
    PROVE  /\ s \in [1..Cardinality(S) -> S] /\ Cardinality(S) \in Nat
           /\ \A a \in S : \E n \in DOMAIN s : s[n] = a
           /\ Cardinality(D) \in 0..Cardinality(S)
           /\ \A n \in DOMAIN s : s[n] \in D <=> n <= Cardinality(D)
  <1> DEFINE N == Cardinality(S)
             P == {n \in 1..N : s[n] \in D}
             g == [n \in P |-> s[n]]
  <1>1. N \in Nat /\ IsFiniteSet(1..N) /\ Cardinality(1..N) = N
    BY FS_CardinalityType, FS_Interval
  <1>2. s \in [1..N -> S] /\ \A m, n \in 1..N : s[m] = s[n] => m = n
    BY DEF SetToSeqs
  <1>3. s \in Injection(1..N, S)
    BY <1>2 DEF Injection, IsInjective
  <1>4. s \in Surjection(1..N, S)
    <2> HIDE DEF N
    <2> QED
      BY <1>1, <1>3, FS_Injection DEF N
  <1>5. \A a \in S : \E n \in 1..N : s[n] = a
    BY <1>4 DEF Surjection
  <1>6. IsFiniteSet(P) /\ IsFiniteSet(D) /\ Cardinality(D) \in Nat /\ Cardinality(D) <= N
    BY <1>1, FS_Subset, FS_CardinalityType
  <1>7. g \in Injection(P, D) /\ g \in Surjection(P, D)
    BY <1>2, <1>5 DEF Injection, IsInjective, Surjection
  <1>8. Cardinality(P) = Cardinality(D)
    <2> HIDE DEF P, g
    <2> QED
      BY <1>6, <1>7, FS_Injection
  <1>9. PICK m \in 0..N : P = 1..m
    <2>1. CASE P = {}
      <3>1. P = 1..0
        BY <2>1
      <3> QED
        BY <1>1, <3>1
    <2>2. CASE P # {}
      <3>1. PICK m \in P : \A n \in P : n <= m
        <4>1. P \subseteq Nat
          OBVIOUS
        <4> HIDE DEF P
        <4> QED
          BY <1>6, <2>2, <4>1, GreatestExists
      <3>2. ASSUME NEW n \in 1..m
            PROVE  n \in P
        <4>1. n \in 1..N /\ m \in 1..N /\ s[m] \in D
          BY <1>1, <3>1
        <4>2. n = m \/ n < m
          BY <4>1
        <4> QED
          BY <1>2, <4>1, <4>2
      <3>3. P = 1..m
        BY <1>1, <3>1, <3>2
      <3> QED
        BY <1>1, <3>3
    <2> QED
      BY <2>1, <2>2
  <1>10. Cardinality(D) = m
    <2> HIDE DEF P, N
    <2>1. m \in Nat /\ 1 \in Int /\ m \in Int
      BY <1>1
    <2>2. Cardinality(1..m) = IF 1 > m THEN 0 ELSE m - 1 + 1
      BY <2>1, FS_Interval
    <2> QED
      BY <1>8, <1>9, <2>1, <2>2
  <1> QED
    BY <1>1, <1>2, <1>5, <1>6, <1>9, <1>10

-----------------------------------------------------------------------------
(* What a walk has shown, and what it will *)

\* An export has sent the event, holds it, or has rows of it to come.
Upto(e) == {r \in Rows : ~Before(e, r[1])}

ExportFits(f, at) ==
    /\ f = [verb |-> "export", offset |-> f.offset, out |-> f.out, carry |-> f.carry,
            owed |-> f.owed]
    /\ f.offset \in Nat /\ f.owed \subseteq DOMAIN stamp
    /\ restamped \/ \A e \in f.owed :
          \/ e \in f.out
          \/ at = "streaming" /\ (e = f.carry \/ Cardinality(Upto(e)) > f.offset)

\* A row of the queue that has not changed has been shown, or is behind the cursor; what
\* has been shown is before it.
ShownOf(u, i) == <<issue[i], RowOf(u, i)>>

Owes(f, i) ==
    \/ f.owed[i] = ShownOf(f.actor, i)
    \/ f.owed[i][1].version < issue[i].version
    \/ f.owed[i][2].writes < RowOf(f.actor, i).writes

Comes(f, at, i) ==
    i \in ToSet(f.shown)
    \/ (at = "walking" /\ i \in Queue(f.actor, f.filter) /\ Past(i, f.after))

QueueFits(f, at) ==
    /\ f = [verb |-> "queue", actor |-> f.actor, filter |-> f.filter, after |-> f.after,
            shown |-> f.shown, owed |-> f.owed]
    /\ f.actor \in People /\ f.after \in (Nat \X Issues) \cup {None}
    /\ f.shown \in Seq(Issues) /\ IsInjective(f.shown) /\ ToSet(f.shown) \subseteq DOMAIN issue
    /\ at # "walked" /\ f.after = None => f.shown = <<>>
    /\ at = "admitted" => f.after = None
    /\ at # "walked" => \A i \in ToSet(f.shown) : ~Past(i, f.after)
    /\ at # "admitted" => \A i \in DOMAIN f.owed :
          /\ i \in DOMAIN issue /\ f.owed[i] \in IssueRows \X InboxRows /\ Owes(f, i)
          /\ f.owed[i] = ShownOf(f.actor, i) => Comes(f, at, i)

\* As long as nothing happens, a list has shown its first rows.
Calm(f) ==
    /\ DOMAIN f.owed = DOMAIN issue /\ \A i \in DOMAIN issue : f.owed[i] = issue[i]
    /\ f.filter.noProject => project.has = {}
    /\ \A i, j \in DOMAIN issue : issue[i].updated = issue[j].updated => i = j

Newer(f, i) == {j \in Listed(f) : issue[j].updated > issue[i].updated}

ListFits(f, at) ==
    /\ f = [verb |-> "list", actor |-> f.actor, filter |-> f.filter, after |-> f.after,
            shown |-> f.shown, owed |-> f.owed]
    /\ f.shown \in Seq(Issues)
    /\ at = "admitted" => f.shown = <<>>
    /\ at # "admitted" => \A i \in DOMAIN f.owed :
          /\ i \in DOMAIN issue /\ f.owed[i] \in IssueRows
          /\ f.owed[i] = issue[i] \/ f.owed[i].version < issue[i].version
    /\ at # "admitted" /\ Calm(f) =>
          /\ \A n \in DOMAIN f.shown : f.shown[n] \in Listed(f.filter)
                                       /\ Cardinality(Newer(f.filter, f.shown[n])) = n - 1
          /\ at = "walked" => Len(f.shown) = Cardinality(Listed(f.filter))

\* An event of a timeline has been shown, or is below what has been.
Above(i, l) == {m \in TimelineOf(i) : Over(<<m.ts, m.id>>, <<l.ts, l.id>>)}

\* What is owed has moved on at most.
OwedAged(f) ==
    \A o \in f.owed : /\ o \in LogRows
                      /\ \E r \in log : r.id = o.id /\ r.moves >= o.moves

TimelineFits(f, at) ==
    /\ f = [verb |-> "timeline", actor |-> f.actor, on |-> f.on, shown |-> f.shown,
            owed |-> f.owed]
    /\ f.on \in DOMAIN issue /\ f.shown \in Seq(LogRows)
    /\ at = "admitted" => f.shown = <<>>
    /\ at # "admitted" =>
          /\ OwedAged(f)
          /\ Unmoved(f) => \A l \in f.owed :
                \/ l \in ToSet(f.shown)
                \/ at = "walking" /\ Cardinality(Above(f.on, l)) >= Len(f.shown)

WalkFits(f, at) ==
    /\ at \in {"streaming", "exported"} => ExportFits(f, at)
    /\ at \in {"walking", "walked"} => f.verb \in {"queue", "list", "timeline"}
    /\ at \in {"walking", "walked", "admitted"} =>
          /\ f.verb = "queue" => QueueFits(f, at)
          /\ f.verb = "list" => ListFits(f, at)
          /\ f.verb = "timeline" => TimelineFits(f, at)

WalksFit == \A q \in Requests : WalkFits(form[q], pc[q])

-----------------------------------------------------------------------------
(* What has been said of a walk stays true when tables advance *)

LEMMA RowsAreFinite ==
    ASSUME NEW E \in SUBSET Events
    PROVE  IsFiniteSet(UNION {{<<e, r>> : r \in Roles[e]} : e \in E})
  <1> DEFINE block == [e \in E |-> {<<e, r>> : r \in Roles[e]}]
             blocks == {{<<e, r>> : r \in Roles[e]} : e \in E}
  <1>1. E \subseteq Events /\ IsFiniteSet(E)
    BY FS_Subset, AccountsAssumption
  <1>2. block \in Surjection(E, blocks)
    BY DEF Surjection
  <1>3. IsFiniteSet(blocks)
    <2> HIDE DEF block, blocks
    <2> QED
      BY <1>1, <1>2, FS_Surjection
  <1>4. ASSUME NEW e \in E
        PROVE  IsFiniteSet({<<e, r>> : r \in Roles[e]})
    <2> DEFINE row == [r \in Roles[e] |-> <<e, r>>]
               T == {<<e, r>> : r \in Roles[e]}
    <2>1. row \in Surjection(Roles[e], T)
      BY DEF Surjection
    <2>2. IsFiniteSet(Roles[e])
      BY <1>1, AccountsAssumption
    <2>3. IsFiniteSet(T)
      <3> HIDE DEF row, T
      <3> QED
        BY <2>1, <2>2, FS_Surjection
    <2> QED
      BY <2>3
  <1>5. \A T \in blocks : IsFiniteSet(T)
    BY <1>4
  <1>6. IsFiniteSet(UNION blocks)
    <2> HIDE DEF blocks
    <2> QED
      BY <1>3, <1>5, FS_UNION
  <1> QED
    BY <1>6

LEMMA ExportLasts ==
    ASSUME Inv, Inv', Advances, NEW f, NEW at, ExportFits(f, at)
    PROVE  ExportFits(f, at)'
  <1>1. f.owed \subseteq DOMAIN stamp'
    BY DEF ExportFits, Advances
  <1>2. ASSUME ~restamped', NEW e \in f.owed, Cardinality(Upto(e)) > f.offset
        PROVE  Cardinality(Upto(e)') > f.offset
    <2>1. ~restamped /\ \A d \in DOMAIN stamp : d \in DOMAIN stamp' /\ stamp'[d] = stamp[d]
      BY <1>2 DEF Advances
    <2>2. Rows \subseteq Rows' /\ \A r \in Rows : r[1] \in DOMAIN stamp
      BY <2>1 DEF Rows
    <2>3. e \in DOMAIN stamp
      BY DEF ExportFits
    <2>4. Upto(e) \subseteq Upto(e)'
      BY <2>1, <2>2, <2>3 DEF Upto, Before
    <2>5. IsFiniteSet(Rows')
      <3>1. DOMAIN stamp' \in SUBSET Events
        BY DEF Inv, TablesOK, StampOK
      <3> QED
        BY <3>1, RowsAreFinite DEF Rows
    <2>6. IsFiniteSet(Upto(e)')
      BY <2>5, FS_Subset DEF Upto
    <2>7. /\ Cardinality(Upto(e)) <= Cardinality(Upto(e)') /\ IsFiniteSet(Upto(e))
      BY <2>4, <2>6, FS_Subset
    <2>8. Cardinality(Upto(e)) \in Nat /\ Cardinality(Upto(e)') \in Nat
      BY <2>6, <2>7, FS_CardinalityType
    <2>9. f.offset \in Nat
      BY DEF ExportFits
    <2> QED
      BY <1>2, <2>7, <2>8, <2>9
  <1>3. ASSUME ~restamped', NEW e \in f.owed
        PROVE  \/ e \in f.out
               \/ at = "streaming" /\ (e = f.carry \/ Cardinality(Upto(e)') > f.offset)
    BY <1>2, <1>3 DEF ExportFits, Advances
  <1>4. restamped' \in BOOLEAN
    BY DEF Inv, TablesOK, StampOK
  <1>5. /\ f = [verb |-> "export", offset |-> f.offset, out |-> f.out, carry |-> f.carry,
            owed |-> f.owed]
        /\ f.offset \in Nat
    BY DEF ExportFits
  <1> QED
    BY <1>1, <1>3, <1>4, <1>5 DEF ExportFits

LEMMA TimelineLasts ==
    ASSUME Inv, Inv', Advances, NEW f, NEW at, TimelineFits(f, at)
    PROVE  TimelineFits(f, at)'
  <1>1. f.on \in DOMAIN issue' /\ issue'[f.on].number = issue[f.on].number
    BY DEF TimelineFits, Advances, IssuesGrow
  <1>0. /\ \A l \in log : l \in LogRows /\ \A m \in log : l.id = m.id => l = m
        /\ \A l \in log' : l \in LogRows /\ \A m \in log' : l.id = m.id => l = m
    BY DEF Inv, TablesOK, LogOK
  <1>6. ASSUME NEW l \in log
        PROVE  \E m \in log' : /\ m.id = l.id /\ m.number = l.number /\ m.kind = l.kind
                               /\ m = l \/ m.moves > l.moves
    BY DEF Advances, LogGrows
  <1>7. ASSUME at # "admitted"
        PROVE  OwedAged(f)'
    <2>1. ASSUME NEW o \in f.owed
          PROVE  o \in LogRows /\ \E r \in log' : r.id = o.id /\ r.moves >= o.moves
      <3>1. PICK r \in log : o \in LogRows /\ r.id = o.id /\ r.moves >= o.moves
        BY <1>7 DEF TimelineFits, OwedAged
      <3>2. PICK m \in log' : m.id = r.id /\ (m = r \/ m.moves > r.moves)
        BY <1>6
      <3>3. m.moves \in Nat /\ r.moves \in Nat /\ o.moves \in Nat
        BY <1>0, <3>1 DEF LogRows
      <3> QED
        BY <3>1, <3>2, <3>3
    <2> QED
      BY <2>1 DEF OwedAged
  <1>2. ASSUME at # "admitted", Unmoved(f)'
        PROVE  /\ TimelineOf(f.on) \subseteq TimelineOf(f.on)' /\ Unmoved(f)
    <2>1. ASSUME NEW l \in TimelineOf(f.on)
          PROVE  l \in TimelineOf(f.on)'
      <3>1. l \in log
        BY DEF TimelineOf
      <3>2. PICK m \in log' : /\ m.id = l.id /\ m.number = l.number /\ m.kind = l.kind
                              /\ m = l \/ m.moves > l.moves
        BY <1>6, <3>1
      <3>3. m \in TimelineOf(f.on)'
        BY <1>1, <3>2 DEF TimelineOf
      <3>4. ASSUME m.moves > l.moves
            PROVE  FALSE
        <4>1. l.moves \in Nat /\ m.moves \in Nat
          BY <1>0, <3>1, <3>2 DEF LogRows
        <4>2. m \in f.owed
          BY <1>2, <3>3, <3>4, <4>1 DEF Unmoved
        <4>3. PICK r \in log : r.id = m.id /\ r.moves >= m.moves
          BY <1>2, <4>2 DEF TimelineFits, OwedAged
        <4>4. r = l
          BY <1>0, <3>1, <3>2, <4>3
        <4> QED
          BY <3>4, <4>1, <4>3, <4>4
      <3> QED
        BY <3>2, <3>3, <3>4
    <2>2. ASSUME NEW o \in f.owed
          PROVE  o \in TimelineOf(f.on)
      <3>1. o \in log' /\ o.number = issue'[f.on].number
            /\ o.kind \in {"issue_opened", "issue_closed", "issue_comment"}
        BY <1>2 DEF Unmoved, TimelineOf
      <3>2. PICK r \in log : r.id = o.id /\ r.moves >= o.moves
        BY <1>2 DEF TimelineFits, OwedAged
      <3>3. PICK m \in log' : m.id = r.id /\ (m = r \/ m.moves > r.moves)
        BY <1>6
      <3>4. m = o
        BY <1>0, <3>1, <3>2, <3>3
      <3>5. r.moves \in Nat /\ o.moves \in Nat
        BY <1>0, <3>1 DEF LogRows
      <3>6. r = o
        BY <3>2, <3>3, <3>4, <3>5
      <3> QED
        BY <1>1, <3>1, <3>6 DEF TimelineOf
    <2> QED
      BY <1>2, <2>1, <2>2 DEF Unmoved
  <1>3. ASSUME at # "admitted", Unmoved(f)', NEW l \in TimelineOf(f.on), Cardinality(Above(f.on, l)) >= Len(f.shown)
        PROVE  Cardinality(Above(f.on, l)') >= Len(f.shown)
    <2>1. Above(f.on, l) \subseteq Above(f.on, l)'
      BY <1>2, <1>3 DEF Above, Over
    <2>2. IsFiniteSet(Above(f.on, l)')
      <3>1. Above(f.on, l)' \subseteq log' /\ IsFiniteSet(log')
        BY DEF Above, TimelineOf, Inv, TablesOK, LogOK
      <3> QED
        BY <3>1, FS_Subset
    <2>3. /\ Cardinality(Above(f.on, l)) <= Cardinality(Above(f.on, l)')
          /\ IsFiniteSet(Above(f.on, l))
      BY <2>1, <2>2, FS_Subset
    <2>4. Cardinality(Above(f.on, l)) \in Nat /\ Cardinality(Above(f.on, l)') \in Nat
      BY <2>2, <2>3, FS_CardinalityType
    <2>5. Len(f.shown) \in Nat
      BY DEF TimelineFits
    <2> QED
      BY <1>3, <2>3, <2>4, <2>5
  <1>4. ASSUME at # "admitted", Unmoved(f)', NEW l \in f.owed
        PROVE  \/ l \in ToSet(f.shown)
               \/ at = "walking" /\ Cardinality(Above(f.on, l)') >= Len(f.shown)
    <2>1. Unmoved(f) /\ l \in TimelineOf(f.on)
      BY <1>2, <1>4 DEF Unmoved
    <2> QED
      BY <1>3, <1>4, <2>1 DEF TimelineFits
  <1>5. /\ f = [verb |-> "timeline", actor |-> f.actor, on |-> f.on, shown |-> f.shown,
                owed |-> f.owed]
        /\ f.shown \in Seq(LogRows) /\ (at = "admitted" => f.shown = <<>>)
    BY DEF TimelineFits
  <1> QED
    BY <1>1, <1>4, <1>5, <1>7 DEF TimelineFits

\* A row that is as it was before a step was so all along.
LEMMA QueueLasts ==
    ASSUME Inv, Inv', Advances, NEW f, NEW at, QueueFits(f, at)
    PROVE  QueueFits(f, at)'
  <1>1. /\ f = [verb |-> "queue", actor |-> f.actor, filter |-> f.filter, after |-> f.after,
                shown |-> f.shown, owed |-> f.owed]
        /\ f.actor \in People /\ f.after \in (Nat \X Issues) \cup {None}
        /\ f.shown \in Seq(Issues) /\ IsInjective(f.shown) /\ ToSet(f.shown) \subseteq DOMAIN issue'
        /\ (at # "walked" /\ f.after = None => f.shown = <<>>)
        /\ (at = "admitted" => f.after = None)
    BY DEF QueueFits, Advances, IssuesGrow
  <1>2. \A i \in DOMAIN issue : /\ i \in Issues /\ i \in Nat
                                /\ issue[i].updated \in Nat /\ issue'[i].updated \in Nat
                                /\ issue[i].updated <= issue'[i].updated
                                /\ issue[i].version \in Nat /\ issue'[i].version \in Nat
    BY InboxAssumption DEF Advances, IssuesGrow, Inv, TablesOK, IssueOK, IssueRows
  <1>3. ASSUME at # "walked", NEW i \in ToSet(f.shown)
        PROVE  ~Past(i, f.after)'
    <2>1. ~Past(i, f.after) /\ i \in DOMAIN issue
      BY <1>3 DEF QueueFits
    <2>2. f.after # None /\ ~Over(f.after, Key(i))
      BY <2>1 DEF Past
    <2>3. PICK t \in Nat, j \in Issues : f.after = <<t, j>>
      BY <1>1, <2>2
    <2>4. j \in Nat
      BY InboxAssumption
    <2>5. ~(t > issue[i].updated \/ (t = issue[i].updated /\ j > i))
      BY <2>2, <2>3 DEF Over, Key
    <2>6. ~(t > issue'[i].updated \/ (t = issue'[i].updated /\ j > i))
      BY <1>2, <2>1, <2>4, <2>5
    <2>7. ~Over(f.after, Key(i)')
      BY <2>3, <2>6 DEF Over, Key
    <2> QED
      BY <2>2, <2>7 DEF Past
  <1>4. ASSUME NEW i \in DOMAIN issue
        PROVE  /\ i \in DOMAIN issue' /\ i \in Issues
               /\ issue'[i] = issue[i] \/ issue[i].version < issue'[i].version
               /\ \/ RowOf(f.actor, i)' = RowOf(f.actor, i)
                  \/ RowOf(f.actor, i).writes < RowOf(f.actor, i)'.writes
               /\ RowOf(f.actor, i).writes \in Nat
               /\ RowOf(f.actor, i)'.writes \in Nat
    <2>1. RowOf(f.actor, i).writes \in Nat
      BY <1>1, <1>4, RowsAre DEF InboxRows
    <2>2. RowOf(f.actor, i)'.writes \in Nat
      <3>1. <<f.actor, i>> \in DOMAIN inbox' => inbox'[<<f.actor, i>>] \in InboxRows
        BY DEF Inv, TablesOK, InboxOK
      <3> QED
        BY <3>1 DEF RowOf, InboxRows
    <2> QED
      BY <1>1, <1>2, <1>4, <2>1, <2>2 DEF Advances, IssuesGrow, RowsAdvance
  <1>5. ASSUME at # "admitted", NEW i \in DOMAIN f.owed
        PROVE  /\ i \in DOMAIN issue' /\ f.owed[i] \in IssueRows \X InboxRows /\ Owes(f, i)'
               /\ f.owed[i] = ShownOf(f.actor, i)' => Comes(f, at, i)'
    <2>1. /\ i \in DOMAIN issue /\ f.owed[i] \in IssueRows \X InboxRows /\ Owes(f, i)
          /\ f.owed[i] = ShownOf(f.actor, i) => Comes(f, at, i)
      BY <1>5 DEF QueueFits
    <2>2. PICK o, v, w : o = f.owed[i] /\ v = issue[i].version /\ w = RowOf(f.actor, i).writes
      OBVIOUS
    <2>3. PICK n, m : n = issue'[i].version /\ m = RowOf(f.actor, i)'.writes
      OBVIOUS
    <2>4. v \in Nat /\ w \in Nat /\ n \in Nat /\ m \in Nat /\ v <= n /\ w <= m
      BY <1>2, <1>4, <2>1, <2>2, <2>3 DEF Advances, IssuesGrow
    <2>5. CASE o[1].version < v \/ o[2].writes < w
      <3>3. o[1].version \in Nat /\ o[2].writes \in Nat
        BY <2>1, <2>2 DEF IssueRows, InboxRows
      <3>1. o[1].version < n \/ o[2].writes < m
        BY <2>4, <2>5, <3>3
      <3>2. o # ShownOf(f.actor, i)'
        BY <2>3, <2>4, <3>1 DEF ShownOf
      <3> QED
        BY <1>4, <2>1, <2>2, <2>3, <3>1, <3>2 DEF Owes
    <2>6. CASE o = ShownOf(f.actor, i) /\ ShownOf(f.actor, i)' # ShownOf(f.actor, i)
      <3>1. o[1].version = v /\ o[2].writes = w
        BY <2>2, <2>6 DEF ShownOf
      <3>2. v < n \/ w < m
        BY <1>4, <2>1, <2>2, <2>3, <2>6 DEF ShownOf
      <3> QED
        BY <1>4, <2>1, <2>2, <2>3, <2>6, <3>1, <3>2 DEF Owes
    <2>7. CASE o = ShownOf(f.actor, i) /\ ShownOf(f.actor, i)' = ShownOf(f.actor, i)
      <3>1. issue'[i] = issue[i] /\ RowOf(f.actor, i)' = RowOf(f.actor, i)
        BY <2>7 DEF ShownOf
      <3>2. now \in Nat /\ now' \in Nat /\ now <= now'
        BY InboxAssumption DEF Inv, TablesOK, IssueOK, Advances
      <3>3. RowOf(f.actor, i).until \in Nat \cup {None}
        BY <1>1, <1>2, <2>1, RowsAre DEF InboxRows
      <3>4. ~Asleep(RowOf(f.actor, i)) => ~Asleep(RowOf(f.actor, i))'
        BY <3>1, <3>2, <3>3 DEF Asleep
      <3>5. i \in Queue(f.actor, f.filter) => i \in Queue(f.actor, f.filter)'
        BY <1>4, <2>1, <3>1, <3>4 DEF Queue, Wanted
      <3>6. Past(i, f.after)' <=> Past(i, f.after)
        BY <3>1 DEF Past, Over, Key
      <3>7. Comes(f, at, i)'
        BY <2>1, <2>2, <2>7, <3>5, <3>6 DEF Comes
      <3> QED
        BY <1>4, <2>1, <2>2, <2>7, <3>7 DEF Owes
    <2> QED
      BY <2>1, <2>2, <2>5, <2>6, <2>7 DEF Owes
  <1> QED
    BY <1>1, <1>3, <1>5 DEF QueueFits

LEMMA ListLasts ==
    ASSUME Inv, Inv', Advances, NEW f, NEW at, ListFits(f, at)
    PROVE  ListFits(f, at)'
  <1>1. /\ f = [verb |-> "list", actor |-> f.actor, filter |-> f.filter, after |-> f.after,
                shown |-> f.shown, owed |-> f.owed]
        /\ f.shown \in Seq(Issues) /\ (at = "admitted" => f.shown = <<>>)
    BY DEF ListFits
  <1>2. \A i \in DOMAIN issue : /\ i \in DOMAIN issue'
                                /\ issue'[i] = issue[i] \/ issue[i].version < issue'[i].version
                                /\ issue[i].version \in Nat /\ issue'[i].version \in Nat
    BY DEF Advances, IssuesGrow, Inv, TablesOK, IssueOK, IssueRows
  <1>3. ASSUME at # "admitted", NEW i \in DOMAIN f.owed
        PROVE  /\ i \in DOMAIN issue /\ i \in DOMAIN issue' /\ f.owed[i] \in IssueRows
               /\ f.owed[i] = issue'[i] \/ f.owed[i].version < issue'[i].version
               /\ f.owed[i] = issue'[i] => issue'[i] = issue[i]
    <2>1. /\ i \in DOMAIN issue /\ f.owed[i] \in IssueRows
          /\ f.owed[i] = issue[i] \/ f.owed[i].version < issue[i].version
      BY <1>3 DEF ListFits
    <2>2. f.owed[i].version \in Nat
      BY <2>1 DEF IssueRows
    <2> QED
      BY <1>2, <2>1, <2>2
  <1>4. ASSUME at # "admitted", Calm(f)'
        PROVE  /\ \A n \in DOMAIN f.shown :
                     /\ f.shown[n] \in Listed(f.filter)'
                     /\ Cardinality(Newer(f.filter, f.shown[n])') = n - 1
               /\ at = "walked" => Len(f.shown) = Cardinality(Listed(f.filter)')
    <2>1. DOMAIN f.owed = DOMAIN issue' /\ \A i \in DOMAIN issue' : f.owed[i] = issue'[i]
      BY <1>4 DEF Calm
    <2>2. DOMAIN issue' = DOMAIN issue /\ \A i \in DOMAIN issue : issue'[i] = issue[i]
      BY <1>2, <1>3, <1>4, <2>1
    <2>3. f.filter.noProject => project.has = {} /\ project'.has = {}
      BY <1>4 DEF Calm, Advances
    <2>4. Calm(f)
      BY <1>4, <2>1, <2>2, <2>3 DEF Calm
    <2>5. Listed(f.filter)' = Listed(f.filter)
      BY <2>2, <2>3 DEF Listed, Wanted
    <2>6. \A n \in DOMAIN f.shown : /\ f.shown[n] \in Listed(f.filter)
                                    /\ Cardinality(Newer(f.filter, f.shown[n])) = n - 1
      BY <1>4, <2>4 DEF ListFits
    <2>7. ASSUME NEW i \in Listed(f.filter)
          PROVE  Newer(f.filter, i)' = Newer(f.filter, i)
      <3>1. \A j \in Listed(f.filter) : j \in DOMAIN issue
        BY DEF Listed
      <3> QED
        BY <2>2, <2>5, <3>1 DEF Newer
    <2>8. at = "walked" => Len(f.shown) = Cardinality(Listed(f.filter))
      BY <1>4, <2>4 DEF ListFits
    <2> QED
      BY <2>5, <2>6, <2>7, <2>8
  <1> QED
    BY <1>1, <1>3, <1>4 DEF ListFits

LEMMA WalkLasts ==
    ASSUME Inv, Inv', Advances, NEW f, NEW at, WalkFits(f, at)
    PROVE  WalkFits(f, at)'
  BY ExportLasts, TimelineLasts, QueueLasts, ListLasts DEF WalkFits

-----------------------------------------------------------------------------
(* The steps of a walk *)

IsPart(page, s, o, e) == page = SubSeq(s, o + 1, e)
IsAfter(out, s, page) == out = s \o page

PartIs(S, page, s, o, e, L) ==
    /\ page \in Seq(S) /\ Len(page) = IF o < e THEN e - o ELSE 0
    /\ Len(page) <= L /\ (Len(page) < L => e = Len(s)) /\ (Len(page) = L => L = 0 \/ e = o + L)
    /\ \A n \in DOMAIN page : n + o \in 1..Len(s) /\ page[n] = s[n + o]
    /\ \A k \in 1..Len(s) : o < k /\ k <= e => k - o \in DOMAIN page /\ page[k - o] = s[k]

AfterIs(S, out, s, page) ==
    /\ out \in Seq(S) /\ Len(out) = Len(s) + Len(page)
    /\ \A n \in DOMAIN s : n \in DOMAIN out /\ out[n] = s[n]
    /\ \A n \in DOMAIN page : n + Len(s) \in DOMAIN out /\ out[n + Len(s)] = page[n]
    /\ \A n \in DOMAIN out : \/ n \in DOMAIN s /\ out[n] = s[n]
                             \/ n - Len(s) \in DOMAIN page /\ out[n] = page[n - Len(s)]
    /\ ToSet(out) = ToSet(s) \cup ToSet(page)

\* A page is the part of a list from its offset on, and a short one is the last.
LEMMA Slices ==
    ASSUME NEW S, NEW s \in Seq(S), NEW o \in Nat, NEW L \in Nat, NEW e \in Nat,
           e <= Len(s), e <= o + L, e = Len(s) \/ e = o + L,
           NEW page, IsPart(page, s, o, e)
    PROVE  PartIs(S, page, s, o, e, L)
  <1>1. PICK N \in Nat : N = Len(s) /\ \A i \in 1..N : s[i] \in S
    OBVIOUS
  <1>2. \A i \in (o + 1)..e : s[i] \in S
    BY <1>1
  <1>3. /\ page \in Seq(S) /\ Len(page) = IF o + 1 <= e THEN e - (o + 1) + 1 ELSE 0
        /\ \A i \in 1..(e - (o + 1) + 1) : page[i] = s[o + 1 + i - 1]
    <2>1. o + 1 \in Int /\ e \in Int
      OBVIOUS
    <2> QED
      BY <1>2, <2>1, SubSeqProperties DEF IsPart
  <1>4. PICK n \in Nat : n = Len(page) /\ DOMAIN page = 1..n
    <2>1. Len(page) \in Nat /\ page \in [1..Len(page) -> S]
      BY <1>3, LenProperties
    <2> QED
      BY <2>1
  <1>5. n = IF o < e THEN e - o ELSE 0
    BY <1>3, <1>4
  <1>6. \A i \in 1..n : page[i] = s[i + o]
    BY <1>3, <1>5
  <1>7. /\ n <= L /\ (n < L => e = N) /\ (n = L => L = 0 \/ e = o + L)
        /\ \A i \in 1..n : i + o \in 1..N
        /\ \A k \in 1..N : o < k /\ k <= e => k - o \in 1..n /\ (k - o) + o = k
    BY <1>1, <1>5
  <1>8. \A k \in 1..N : o < k /\ k <= e => k - o \in 1..n /\ page[k - o] = s[k]
    BY <1>6, <1>7
  <1> QED
    BY <1>1, <1>3, <1>4, <1>5, <1>6, <1>7, <1>8 DEF PartIs

\* What has been shown and a page after it.
LEMMA Shown ==
    ASSUME NEW S, NEW s \in Seq(S), NEW page \in Seq(S), NEW out, IsAfter(out, s, page)
    PROVE  AfterIs(S, out, s, page)
  <1>1. /\ out \in Seq(S) /\ Len(out) = Len(s) + Len(page)
        /\ Len(s) \in Nat /\ Len(page) \in Nat /\ DOMAIN out = 1..Len(out)
        /\ DOMAIN s = 1..Len(s) /\ DOMAIN page = 1..Len(page)
    BY DEF IsAfter
  <1>2. \A n \in 1..Len(out) : out[n] = IF n <= Len(s) THEN s[n] ELSE page[n - Len(s)]
    BY DEF IsAfter
  <1>3. /\ \A n \in DOMAIN s : n \in DOMAIN out /\ out[n] = s[n]
        /\ \A n \in DOMAIN page : n + Len(s) \in DOMAIN out /\ out[n + Len(s)] = page[n]
    BY <1>1, <1>2
  <1>4. \A n \in DOMAIN out : \/ n \in DOMAIN s /\ out[n] = s[n]
                              \/ n - Len(s) \in DOMAIN page /\ out[n] = page[n - Len(s)]
    BY <1>1, <1>2
  <1>5. ASSUME NEW x \in ToSet(out)
        PROVE  x \in ToSet(s) \cup ToSet(page)
    <2>1. PICK n \in DOMAIN out : x = out[n]
      BY <1>5 DEF ToSet
    <2> QED
      BY <1>4, <2>1 DEF ToSet
  <1>6. ASSUME NEW x \in ToSet(s) \cup ToSet(page)
        PROVE  x \in ToSet(out)
    <2>1. \/ \E n \in DOMAIN s : x = s[n]
          \/ \E n \in DOMAIN page : x = page[n]
      BY <1>6 DEF ToSet
    <2>2. \E n \in DOMAIN out : x = out[n]
      BY <1>3, <2>1
    <2> QED
      BY <2>2 DEF ToSet
  <1>7. ToSet(out) = ToSet(s) \cup ToSet(page)
    BY <1>5, <1>6
  <1> QED
    BY <1>1, <1>3, <1>4, <1>7 DEF AfterIs

LEMMA WalkGoes ==
    ASSUME Inv, Inv', Advances, NEW q \in Requests, NEW at, NEW f, Go(q, at, f), WalkFits(f, at),
           WalksFit
    PROVE  WalksFit'
  <1>1. Moved(q) /\ pc'[q] = at /\ form'[q] = f
    BY GoMoves
  <1>2. WalkFits(f, at)'
    BY WalkLasts
  <1>3. ASSUME NEW p \in Requests, p # q
        PROVE  WalkFits(form[p], pc[p])'
    <2>1. PICK g, b : g = form[p] /\ b = pc[p]
      OBVIOUS
    <2>2. WalkFits(g, b)'
      BY <2>1, WalkLasts DEF WalksFit
    <2>3. form'[p] = g /\ pc'[p] = b
      BY <1>1, <1>3, <2>1 DEF Moved
    <2> QED
      BY <2>2, <2>3
  <1> QED
    BY <1>1, <1>2, <1>3 DEF WalksFit

LEMMA RestGoes ==
    ASSUME Inv, Inv', Advances, WalksFit, \A p \in Requests : Rests(p)
    PROVE  WalksFit'
  <1>1. ASSUME NEW p \in Requests
        PROVE  WalkFits(form[p], pc[p])'
    <2>1. CASE Outside(form'[p], pc'[p])
      BY <2>1 DEF Outside, WalkFits
    <2>2. CASE form'[p] = form[p] /\ pc'[p] = pc[p]
      <3>1. PICK g, b : g = form[p] /\ b = pc[p]
        OBVIOUS
      <3>2. WalkFits(g, b)'
        BY <3>1, WalkLasts DEF WalksFit
      <3> QED
        BY <2>2, <3>1, <3>2
    <2> QED
      BY <2>1, <2>2 DEF Rests
  <1> QED
    BY <1>1 DEF WalksFit

\* A walk that is asked for has shown nothing.
LEMMA AskReadWalks ==
    ASSUME Inv, Inv', Advances, WalksFit, NEW q \in Requests, AskRead(q)
    PROVE  WalksFit'
  <1>1. ASSUME NEW f, Ask(q, f), WalkFits(f, "admitted")
        PROVE  WalksFit'
    <2>1. CASE Go(q, "admitted", f)
      BY <1>1, <2>1, WalkGoes
    <2>2. CASE End(q, "denied")
      BY <2>2, EndRests, RestGoes DEF InAWalk
    <2> QED
      BY <1>1, <2>1, <2>2 DEF Ask
  <1>2. \A s : ToSet(<<>>) = {} /\ IsInjective(<<>>)
    BY DEF ToSet, IsInjective
  <1>3. ASSUME NEW a \in DOMAIN user, NEW g \in Filters, NEW v \in {"queue", "list"},
               NEW f, f = [verb |-> v, actor |-> a, filter |-> g, after |-> None, shown |-> <<>>,
                           owed |-> <<>>]
        PROVE  WalkFits(f, "admitted")
    <2>1. a \in People
      BY DEF Inv, TablesOK, UserOK
    <2>2. CASE v = "queue"
      <3>1. QueueFits(f, "admitted")
        BY <1>2, <1>3, <2>1, <2>2 DEF QueueFits
      <3> QED
        BY <1>3, <2>2, <3>1 DEF WalkFits
    <2>3. CASE v = "list"
      BY <1>3, <2>3 DEF ListFits, WalkFits
    <2> QED
      BY <2>2, <2>3
  <1>4. ASSUME NEW a \in DOMAIN user, NEW i \in DOMAIN issue,
               NEW f, f = [verb |-> "timeline", actor |-> a, on |-> i, shown |-> <<>>, owed |-> {}]
        PROVE  WalkFits(f, "admitted")
    BY <1>4 DEF TimelineFits, WalkFits
  <1>5. ASSUME NEW a \in DOMAIN user, NEW i \in DOMAIN issue,
               NEW f, f = [verb |-> "look", actor |-> a, on |-> i, chips |-> {}]
        PROVE  WalkFits(f, "admitted")
    BY <1>5 DEF WalkFits
  <1> QED
    BY <1>1, <1>3, <1>4, <1>5 DEF AskRead

\* It is owed what is there when it begins.
LEMMA BeginWalks ==
    ASSUME Inv, Inv', Advances, WalksFit, NEW q \in Requests, BeginWalk(q)
    PROVE  WalksFit'
  <1>1. PICK f : f = form[q]
    OBVIOUS
  <1>2. WalkFits(f, "admitted") /\ f.verb \in {"queue", "list", "timeline"}
    BY <1>1 DEF WalksFit, BeginWalk
  <1>3. PICK g : g = [f EXCEPT !.owed = Begun(f)]
    OBVIOUS
  <1>4. CASE f.verb = "queue"
    <2>1. QueueFits(f, "admitted")
      BY <1>2, <1>4 DEF WalkFits
    <2>2. Begun(f) = [i \in Queue(f.actor, f.filter) |-> <<issue[i], RowOf(f.actor, i)>>]
      BY <1>4 DEF Begun
    <2>3. PICK b : b = Begun(f)
      OBVIOUS
    <2>4. /\ g = [verb |-> "queue", actor |-> f.actor, filter |-> f.filter, after |-> f.after,
                  shown |-> f.shown, owed |-> b]
          /\ f.actor \in People /\ f.after = None /\ f.shown = <<>>
      BY <1>3, <2>1, <2>3 DEF QueueFits
    <2>5. ASSUME NEW i \in DOMAIN b
          PROVE  /\ i \in DOMAIN issue /\ b[i] \in IssueRows \X InboxRows /\ i \in Queue(f.actor, f.filter)
                 /\ b[i] = ShownOf(f.actor, i)
      <3>1. i \in Queue(f.actor, f.filter) /\ i \in DOMAIN issue /\ b[i] = ShownOf(f.actor, i)
        BY <2>2, <2>3 DEF Queue, ShownOf
      <3>2. issue[i] \in IssueRows /\ RowOf(f.actor, i) \in InboxRows
        BY <2>4, <3>1, RowsAre DEF Inv, TablesOK, IssueOK
      <3> QED
        BY <3>1, <3>2 DEF ShownOf
    <2>6. ToSet(<<>>) = {} /\ IsInjective(<<>>)
      BY DEF ToSet, IsInjective
    <2>7. QueueFits(g, "walking")
      BY <2>4, <2>5, <2>6 DEF QueueFits, Owes, Comes, Past
    <2>8. WalkFits(g, "walking")
      BY <2>4, <2>7 DEF WalkFits
    <2> QED
      BY <1>1, <1>3, <2>8, WalkGoes DEF BeginWalk
  <1>5. CASE f.verb = "list"
    <2>1. ListFits(f, "admitted")
      BY <1>2, <1>5 DEF WalkFits
    <2>2. /\ g = [verb |-> "list", actor |-> f.actor, filter |-> f.filter, after |-> f.after,
                  shown |-> f.shown, owed |-> issue]
          /\ f.shown = <<>>
      BY <1>3, <1>5, <2>1 DEF ListFits, Begun
    <2>3. \A i \in DOMAIN issue : issue[i] \in IssueRows
      BY DEF Inv, TablesOK, IssueOK
    <2>4. ListFits(g, "walking")
      BY <2>2, <2>3 DEF ListFits
    <2>5. WalkFits(g, "walking")
      BY <2>2, <2>4 DEF WalkFits
    <2> QED
      BY <1>1, <1>3, <2>5, WalkGoes DEF BeginWalk
  <1>6. CASE f.verb = "timeline"
    <2>1. TimelineFits(f, "admitted")
      BY <1>2, <1>6 DEF WalkFits
    <2>2. /\ g = [verb |-> "timeline", actor |-> f.actor, on |-> f.on, shown |-> f.shown,
                  owed |-> TimelineOf(f.on)]
          /\ f.shown = <<>> /\ f.on \in DOMAIN issue
      BY <1>3, <1>6, <2>1 DEF TimelineFits, Begun
    <2>3. ASSUME NEW l
          PROVE  Cardinality(Above(f.on, l)) >= 0
      <3>1. Above(f.on, l) \subseteq log /\ IsFiniteSet(log)
        BY DEF Above, TimelineOf, Inv, TablesOK, LogOK
      <3>2. Cardinality(Above(f.on, l)) \in Nat
        BY <3>1, FS_Subset, FS_CardinalityType
      <3> QED
        BY <3>2
    <2>6. OwedAged(g)
      <3>1. \A r \in log : r \in LogRows
        BY DEF Inv, TablesOK, LogOK
      <3>2. \A r \in TimelineOf(f.on) : r \in log /\ r \in LogRows /\ r.moves >= r.moves
        BY <3>1 DEF TimelineOf, LogRows
      <3> QED
        BY <2>2, <3>2 DEF OwedAged
    <2>4. TimelineFits(g, "walking")
      <3>1. g.shown = <<>> /\ g.on = f.on
        BY <2>2
      <3>2. Len(g.shown) = 0
        BY <3>1
      <3> QED
        BY <2>2, <2>3, <2>6, <3>1, <3>2 DEF TimelineFits
    <2>5. WalkFits(g, "walking")
      BY <2>2, <2>4 DEF WalkFits
    <2> QED
      BY <1>1, <1>3, <2>5, WalkGoes DEF BeginWalk
  <1> QED
    BY <1>2, <1>4, <1>5, <1>6

TurnIs(S, all, s, page, out, o, N, L) ==
    /\ page \in Seq(S) /\ out \in Seq(S) /\ Len(out) \in Nat /\ Len(page) <= L
    /\ \A x \in ToSet(s) : x \in ToSet(out)
    /\ \A k \in 1..N : k > o => all[k] \in ToSet(out) \/ (~(Len(page) < L) /\ k > Len(out))
    /\ \A n \in DOMAIN out : \/ n \in DOMAIN s /\ out[n] = s[n]
                             \/ n \in 1..N /\ out[n] = all[n]
    /\ Len(page) < L /\ o <= N => Len(out) = N

\* The rows after those that have been shown.
LEMMA Turns ==
    ASSUME NEW S, NEW all \in Seq(S), NEW s \in Seq(S), NEW L \in Nat \ {0},
           NEW o \in Nat, NEW N \in Nat, NEW e \in Nat, o = Len(s), N = Len(all),
           e <= N, e <= o + L, e = N \/ e = o + L,
           NEW page, IsPart(page, all, o, e), NEW out, IsAfter(out, s, page)
    PROVE  TurnIs(S, all, s, page, out, o, N, L)
  <1>1. /\ page \in Seq(S) /\ Len(page) = IF o < e THEN e - o ELSE 0
        /\ Len(page) <= L /\ (Len(page) < L => e = N) /\ (Len(page) = L => L = 0 \/ e = o + L)
        /\ \A n \in DOMAIN page : n + o \in 1..N /\ page[n] = all[n + o]
        /\ \A k \in 1..N : o < k /\ k <= e => k - o \in DOMAIN page /\ page[k - o] = all[k]
    <2>1. e <= Len(all) /\ (e = Len(all) \/ e = o + L)
      OBVIOUS
    <2>2. PartIs(S, page, all, o, e, L)
      BY <2>1, Slices
    <2> QED
      BY <2>2 DEF PartIs
  <1>2. /\ out \in Seq(S) /\ Len(out) = o + Len(page)
        /\ \A n \in DOMAIN s : n \in DOMAIN out /\ out[n] = s[n]
        /\ \A n \in DOMAIN out : \/ n \in DOMAIN s /\ out[n] = s[n]
                                 \/ n - o \in DOMAIN page /\ out[n] = page[n - o]
        /\ ToSet(out) = ToSet(s) \cup ToSet(page)
    <2>1. page \in Seq(S)
      BY <1>1
    <2>2. AfterIs(S, out, s, page)
      BY <2>1, Shown
    <2> QED
      BY <2>2 DEF AfterIs
  <1>3. PICK n \in Nat : n = Len(page)
    BY <1>1, LenProperties
  <1>4. ASSUME NEW k \in 1..N, k > o
        PROVE  all[k] \in ToSet(out) \/ (~(n < L) /\ k > o + n)
    <2>1. CASE k <= e
      <3>1. k - o \in DOMAIN page /\ page[k - o] = all[k]
        BY <1>1, <1>4, <2>1
      <3>2. all[k] \in ToSet(page)
        BY <3>1 DEF ToSet
      <3> QED
        BY <1>2, <3>2
    <2>2. CASE k > e
      BY <1>1, <1>3, <1>4, <2>2
    <2> QED
      BY <2>1, <2>2
  <1>5. ASSUME NEW m \in DOMAIN out
        PROVE  (m \in DOMAIN s /\ out[m] = s[m]) \/ (m \in 1..N /\ out[m] = all[m])
    <2>1. CASE m - o \in DOMAIN page /\ out[m] = page[m - o]
      <3>1. m \in Int
        BY <1>2, LenProperties
      <3> QED
        BY <1>1, <2>1, <3>1
    <2> QED
      BY <1>2, <2>1
  <1>6. n < L /\ o <= N => o + n = N
    BY <1>1, <1>3
  <1>7. \A x \in ToSet(s) : x \in ToSet(out)
    BY <1>2
  <1>8. Len(page) = n /\ Len(out) = o + n /\ Len(out) \in Nat
    BY <1>2, <1>3
  <1>9. \A k \in 1..N : k > o => all[k] \in ToSet(out) \/ (~(Len(page) < L) /\ k > Len(out))
    BY <1>4, <1>8
  <1>10. Len(page) < L /\ o <= N => Len(out) = N
    BY <1>6, <1>8
  <1>11. page \in Seq(S) /\ out \in Seq(S) /\ Len(page) <= L
    BY <1>1, <1>2
  <1> QED
    BY <1>5, <1>7, <1>8, <1>9, <1>10, <1>11 DEF TurnIs

\* The newest events that have not been shown come next.
LEMMA ReadTimelineWalks ==
    ASSUME Inv, Inv', Advances, WalksFit, NEW q \in Requests, ReadTimeline(q)
    PROVE  WalksFit'
  <1>1. PICK f : f = form[q]
    OBVIOUS
  <1>2. f.verb = "timeline" /\ TimelineFits(f, "walking")
    BY <1>1 DEF WalksFit, WalkFits, ReadTimeline, Is
  <1> DEFINE T == TimelineOf(f.on)
  <1>3. /\ IsFiniteSet(T) /\ T \subseteq LogRows
        /\ \A l, m \in T : l.id = m.id => l = m
        /\ \A l \in T : l.id \in Nat /\ l.ts \in Nat
    BY InboxAssumption, FS_Subset DEF Inv, TablesOK, LogOK, TimelineOf, LogRows
  <1> DEFINE R == {p \in T \X T : Over(<<p[1].ts, p[1].id>>, <<p[2].ts, p[2].id>>)}
             place(l) == 1 + Cardinality({m \in T : Over(<<m.ts, m.id>>, <<l.ts, l.id>>)})
             rank == [l \in T |-> place(l)]
             all == [n \in 1..Cardinality(T) |-> CHOOSE l \in T : place(l) = n]
  <1>4. IsStrictOrder(R, T)
    BY <1>3 DEF IsStrictOrder, Over
  <1>5. \A l \in T : Earlier(R, T, l) = {m \in T : Over(<<m.ts, m.id>>, <<l.ts, l.id>>)}
    BY DEF Earlier
  <1>6. \A l \in T : rank[l] = 1 + Cardinality(Earlier(R, T, l))
    BY <1>5
  <1>7. /\ Cardinality(T) \in Nat
        /\ \A n \in 1..Cardinality(T) : \E l \in T : rank[l] = n
        /\ \A l \in T : rank[l] \in 1..Cardinality(T)
        /\ \A l, m \in T : rank[l] = rank[m] => l = m
    <2> HIDE DEF R, rank
    <2> QED
      BY <1>3, <1>4, <1>6, Ranked
  <1>8. \A l \in T : rank[l] = 1 + Cardinality(Above(f.on, l))
    BY DEF Above
  <1>9. ASSUME NEW n \in 1..Cardinality(T)
         PROVE  all[n] \in T /\ rank[all[n]] = n
    <2> HIDE DEF place
    <2>1. \E l \in T : place(l) = n
      BY <1>7
    <2>2. all[n] = CHOOSE l \in T : place(l) = n
      OBVIOUS
    <2>3. all[n] \in T /\ place(all[n]) = n
      BY <2>1, <2>2
    <2> QED
      BY <2>3
  <1> HIDE DEF place
  <1>10. all \in Seq(T) /\ all \in Seq(LogRows) /\ Len(all) = Cardinality(T)
    <2>1. PICK N \in Nat : N = Cardinality(T)
      BY <1>7
    <2>2. all \in [1..N -> T]
      BY <1>9, <2>1
    <2> HIDE DEF all, R, rank
    <2> QED
      BY <1>3, <2>1, <2>2
  <1>11. \A l \in T : all[rank[l]] = l
    <2> HIDE DEF all, R, rank
    <2> QED
      BY <1>7, <1>9
  <1> USE DEF place
  <1>12. TimelinePage(f.on, Len(f.shown)).rows
           = SubSeq(all, Len(f.shown) + 1,
                    IF Len(all) < Len(f.shown) + Limit THEN Len(all) ELSE Len(f.shown) + Limit)
    BY DEF TimelinePage
  <1>13. PICK page : page = TimelinePage(f.on, Len(f.shown)).rows
    OBVIOUS
  <1>14. \A l : l \in T <=> l \in TimelineOf(f.on)
    OBVIOUS
  <1>15. \A l : Above(f.on, l) \subseteq T
    BY DEF Above
  <1> HIDE DEF all, rank, R, place, T
  <1>16. PICK out : IsAfter(out, f.shown, page)
    BY DEF IsAfter
  <1>17. Limit \in Nat \ {0} /\ f.shown \in Seq(LogRows)
    <2>1. \A n \in 1..200 : n \in Nat \ {0}
      OBVIOUS
    <2>2. Limit \in 1..200
      BY InboxAssumption
    <2>3. f.shown \in Seq(LogRows)
      BY <1>2 DEF TimelineFits
    <2> QED
      BY <2>1, <2>2, <2>3
  <1>18. PICK o \in Nat, N \in Nat : o = Len(f.shown) /\ N = Len(all)
    BY <1>10, <1>17, LenProperties
  <1>19. PICK e \in Nat : e = IF N < o + Limit THEN N ELSE o + Limit
    BY <1>17
  <1>20. IsPart(page, all, o, e)
    BY <1>12, <1>13, <1>18, <1>19 DEF IsPart
  <1>21. e <= N /\ e <= o + Limit /\ (e = N \/ e = o + Limit)
    BY <1>17, <1>19
  <1>22. /\ page \in Seq(LogRows) /\ out \in Seq(LogRows) /\ Len(out) \in Nat /\ Len(page) <= Limit
         /\ \A x \in ToSet(f.shown) : x \in ToSet(out)
         /\ \A k \in 1..N : k > o =>
               all[k] \in ToSet(out) \/ (~(Len(page) < Limit) /\ k > Len(out))
         /\ \A n \in DOMAIN out : \/ n \in DOMAIN f.shown /\ out[n] = f.shown[n]
                                  \/ n \in 1..N /\ out[n] = all[n]
         /\ Len(page) < Limit /\ o <= N => Len(out) = N
    <2>1. TurnIs(LogRows, all, f.shown, page, out, o, N, Limit)
      BY <1>10, <1>16, <1>17, <1>18, <1>20, <1>21, Turns
    <2> QED
      BY <2>1 DEF TurnIs
  <1>23. PICK g : g = [f EXCEPT !.shown = out]
    OBVIOUS
  <1>24. g = [verb |-> "timeline", actor |-> f.actor, on |-> f.on, shown |-> out,
              owed |-> f.owed] /\ f.on \in DOMAIN issue
    BY <1>2, <1>23 DEF TimelineFits
  <1>25. ASSUME Unmoved(f), NEW l \in f.owed
         PROVE  \/ l \in ToSet(out)
                \/ ~(Len(page) < Limit) /\ Cardinality(Above(f.on, l)) >= Len(out)
    <2>1. l \in T /\ (l \in ToSet(f.shown) \/ Cardinality(Above(f.on, l)) >= Len(f.shown))
      BY <1>2, <1>14, <1>25 DEF TimelineFits, Unmoved
    <2>2. PICK c, n : c = Cardinality(Above(f.on, l)) /\ n = Len(out)
      OBVIOUS
    <2>3. n \in Nat
      BY <1>22, <2>2
    <2>4. c \in Nat /\ rank[l] = 1 + c
      <3>2. rank[l] = 1 + c
        BY <1>8, <2>1, <2>2
      <3>1. Above(f.on, l) \subseteq T
        BY <1>15
      <3> QED
        BY <1>3, <2>1, <2>2, <3>1, <3>2, FS_Subset, FS_CardinalityType
    <2>5. CASE c >= o
      <3>1. rank[l] \in 1..N /\ rank[l] > o
        BY <1>7, <1>10, <1>18, <2>1, <2>3, <2>4, <2>5
      <3>2. all[rank[l]] = l
        BY <1>11, <2>1
      <3>3. l \in ToSet(out) \/ (~(Len(page) < Limit) /\ rank[l] > n)
        BY <1>22, <2>2, <3>1, <3>2
      <3> QED
        BY <1>14, <2>1, <2>2, <2>3, <2>4, <3>3
    <2> QED
      BY <1>14, <1>22, <1>18, <2>1, <2>2, <2>5
  <1>28. OwedAged(g) /\ (Unmoved(g) => Unmoved(f))
    BY <1>2, <1>24 DEF TimelineFits, OwedAged, Unmoved
  <1>26. CASE Len(page) < Limit
    <2>1. TimelineFits(g, "walked")
      BY <1>22, <1>24, <1>25, <1>26, <1>28 DEF TimelineFits
    <2>2. WalkFits(g, "walked")
      BY <1>24, <2>1 DEF WalkFits
    <2>3. Go(q, "walked", g)
      BY <1>1, <1>2, <1>13, <1>16, <1>23, <1>26 DEF ReadTimeline, Turn, IsAfter
    <2> QED
      BY <2>2, <2>3, WalkGoes
  <1>27. CASE ~(Len(page) < Limit)
    <2>1. TimelineFits(g, "walking")
      BY <1>22, <1>24, <1>25, <1>27, <1>28 DEF TimelineFits
    <2>2. WalkFits(g, "walking")
      BY <1>24, <2>1 DEF WalkFits
    <2>3. Go(q, "walking", g)
      BY <1>1, <1>2, <1>13, <1>16, <1>23, <1>27 DEF ReadTimeline, Turn, IsAfter
    <2> QED
      BY <2>2, <2>3, WalkGoes
  <1> QED
    BY <1>26, <1>27

\* As long as nothing happens, the order of the list is one, and what has been shown is
\* how it starts.
LEMMA OrdersAreOne ==
    ASSUME Inv, NEW f, Calm(f), NEW s \in SetToSeqs(Listed(f.filter)),
           \A m, n \in DOMAIN s : m < n => issue[s[m]].updated >= issue[s[n]].updated
    PROVE  \A n \in DOMAIN s : s[n] \in Listed(f.filter) /\ Cardinality(Newer(f.filter, s[n])) = n - 1
  <1> DEFINE S == Listed(f.filter)
  <1>1. \A i \in S : i \in DOMAIN issue /\ issue[i].updated \in Nat
    BY DEF Listed, Inv, TablesOK, IssueOK, IssueRows
  <1>2. IsFiniteSet(S)
    BY FS_Subset DEF Listed, Inv, TablesOK, IssueOK
  <1> HIDE DEF S
  <1>3. PICK N \in Nat : N = Cardinality(S)
    BY <1>2, FS_CardinalityType
  <1>4. s \in [1..N -> S] /\ \A m, n \in 1..N : s[m] = s[n] => m = n
    BY <1>3 DEF SetToSeqs, S
  <1>5. ASSUME NEW m \in 1..N, NEW n \in 1..N, m < n
        PROVE  issue[s[m]].updated > issue[s[n]].updated
    <2>1. issue[s[m]].updated >= issue[s[n]].updated /\ s[m] # s[n]
      BY <1>4, <1>5
    <2>2. issue[s[m]].updated # issue[s[n]].updated
      BY <1>1, <1>4, <2>1 DEF Calm
    <2>3. issue[s[m]].updated \in Nat /\ issue[s[n]].updated \in Nat
      BY <1>1, <1>4
    <2> QED
      BY <2>1, <2>2, <2>3
  <1>6. ASSUME NEW k \in 1..N
        PROVE  s[k] \in S /\ Cardinality(Newer(f.filter, s[k])) = k - 1
    <2> DEFINE D == Newer(f.filter, s[k])
    <2>1. D \in SUBSET S /\ \A j : j \in D <=> j \in S /\ issue[j].updated > issue[s[k]].updated
      BY DEF Newer, S
    <2> HIDE DEF D
    <2>2. ASSUME NEW m \in DOMAIN s, NEW n \in DOMAIN s, m < n, s[n] \in D
          PROVE  s[m] \in D
      <3>1. issue[s[m]].updated > issue[s[n]].updated /\ s[m] \in S /\ s[n] \in S /\ s[k] \in S
        BY <1>4, <1>5, <2>2
      <3>2. issue[s[n]].updated > issue[s[k]].updated
        BY <2>1, <2>2
      <3>3. issue[s[m]].updated \in Nat /\ issue[s[n]].updated \in Nat /\ issue[s[k]].updated \in Nat
        BY <1>1, <3>1
      <3> QED
        BY <2>1, <3>1, <3>2, <3>3
    <2>3. Cardinality(D) \in 0..N /\ \A n \in DOMAIN s : s[n] \in D <=> n <= Cardinality(D)
      <3>1. s \in SetToSeqs(S)
        BY DEF S
      <3> QED
        BY <1>2, <1>3, <2>1, <2>2, <3>1, Prefix
    <2>4. s[k] \notin D
      BY <1>1, <1>4, <2>1
    <2>5. ~(k <= Cardinality(D))
      BY <1>4, <2>3, <2>4
    <2>6. k = 1 \/ k - 1 <= Cardinality(D)
      <3>1. CASE k > 1
        <4>1. k - 1 \in 1..N /\ k - 1 < k
          BY <3>1
        <4>2. s[k - 1] \in D
          BY <1>4, <1>5, <2>1, <4>1
        <4> QED
          BY <1>4, <2>3, <4>1, <4>2
      <3> QED
        BY <3>1
    <2>7. Cardinality(D) = k - 1
      BY <2>3, <2>5, <2>6
    <2> QED
      BY <1>4, <2>7 DEF D
  <1> QED
    BY <1>4, <1>6 DEF S

LEMMA ReadListWalks ==
    ASSUME Inv, Inv', Advances, WalksFit, NEW q \in Requests, ReadList(q)
    PROVE  WalksFit'
  <1>1. PICK f : f = form[q]
    OBVIOUS
  <1>2. f.verb = "list" /\ ListFits(f, "walking")
    BY <1>1 DEF WalksFit, WalkFits, ReadList, Is
  <1>3. PICK S : S = Listed(f.filter)
    OBVIOUS
  <1>4. PICK s \in SetToSeqs(S) :
           /\ \A m, n \in DOMAIN s : m < n => issue[s[m]].updated >= issue[s[n]].updated
           /\ \E p : /\ p.rows = SubSeq(s, Len(f.shown) + 1,
                           IF Len(s) < Len(f.shown) + Limit THEN Len(s) ELSE Len(f.shown) + Limit)
                     /\ Turn(q, p)
    BY <1>1, <1>3 DEF ReadList, ListPages
  <1>5. PICK p : /\ p.rows = SubSeq(s, Len(f.shown) + 1,
                           IF Len(s) < Len(f.shown) + Limit THEN Len(s) ELSE Len(f.shown) + Limit)
                 /\ Turn(q, p)
    BY <1>4
  <1>6. PICK page : page = p.rows
    OBVIOUS
  <1>7. IsFiniteSet(S) /\ S \subseteq Issues /\ \A i \in S : i \in DOMAIN issue
    BY <1>3, FS_Subset DEF Listed, Inv, TablesOK, IssueOK
  <1>8. PICK N \in Nat : N = Cardinality(S)
    BY <1>7, FS_CardinalityType
  <1>9. s \in Seq(Issues) /\ Len(s) = N
    <2>1. s \in [1..N -> S]
      BY <1>8 DEF SetToSeqs
    <2> QED
      BY <1>7, <2>1
  <1>10. f.shown \in Seq(Issues) /\ Limit \in Nat \ {0}
    <2>1. \A n \in 1..200 : n \in Nat \ {0}
      OBVIOUS
    <2> QED
      BY <1>2, <2>1, InboxAssumption DEF ListFits
  <1>11. PICK o \in Nat : o = Len(f.shown) /\ DOMAIN f.shown = 1..o
    BY <1>10, LenProperties
  <1>12. PICK e \in Nat : e = IF N < o + Limit THEN N ELSE o + Limit
    BY <1>10
  <1>13. e <= N /\ e <= o + Limit /\ (e = N \/ e = o + Limit)
    BY <1>10, <1>12
  <1>14. IsPart(page, s, o, e)
    BY <1>5, <1>6, <1>9, <1>11, <1>12 DEF IsPart
  <1>15. PICK out : IsAfter(out, f.shown, page)
    BY DEF IsAfter
  <1>16. /\ out \in Seq(Issues) /\ Len(out) \in Nat
         /\ \A n \in DOMAIN out : \/ n \in DOMAIN f.shown /\ out[n] = f.shown[n]
                                  \/ n \in 1..N /\ out[n] = s[n]
         /\ Len(page) < Limit /\ o <= N => Len(out) = N
    <2>1. TurnIs(Issues, s, f.shown, page, out, o, N, Limit)
      BY <1>9, <1>10, <1>11, <1>13, <1>14, <1>15, Turns
    <2> QED
      BY <2>1 DEF TurnIs
  <1>17. PICK g : g = [f EXCEPT !.shown = out]
    OBVIOUS
  <1>18. g = [verb |-> "list", actor |-> f.actor, filter |-> f.filter, after |-> f.after,
              shown |-> out, owed |-> f.owed]
    BY <1>2, <1>17 DEF ListFits
  <1>19. \A i \in DOMAIN f.owed : /\ i \in DOMAIN issue /\ f.owed[i] \in IssueRows
                                  /\ f.owed[i] = issue[i] \/ f.owed[i].version < issue[i].version
    BY <1>2 DEF ListFits
  <1>20. ASSUME Calm(g)
         PROVE  /\ \A n \in DOMAIN out : out[n] \in S /\ Cardinality(Newer(f.filter, out[n])) = n - 1
                /\ Len(page) < Limit => Len(out) = N
    <2>1. Calm(f)
      BY <1>18, <1>20 DEF Calm
    <2>2. \A n \in DOMAIN f.shown : f.shown[n] \in S /\ Cardinality(Newer(f.filter, f.shown[n])) = n - 1
      BY <1>2, <1>3, <2>1 DEF ListFits
    <2>3. \A n \in DOMAIN s : s[n] \in S /\ Cardinality(Newer(f.filter, s[n])) = n - 1
      BY <1>3, <1>4, <2>1, OrdersAreOne
    <2>4. DOMAIN s = 1..N
      BY <1>9, LenProperties
    <2>5. o <= N
      <3>1. CASE o > 0
        <4>1. o \in DOMAIN f.shown
          BY <1>11, <3>1
        <4>2. f.shown[o] \in S /\ Cardinality(Newer(f.filter, f.shown[o])) = o - 1
          BY <2>2, <4>1
        <4>3. Newer(f.filter, f.shown[o]) \subseteq S \ {f.shown[o]}
          <5>1. issue[f.shown[o]].updated \in Nat
            BY <1>7, <4>2 DEF Inv, TablesOK, IssueOK, IssueRows
          <5> QED
            BY <1>3, <5>1 DEF Newer
        <4>4. IsFiniteSet(S \ {f.shown[o]}) /\ Cardinality(S \ {f.shown[o]}) = N - 1
          BY <1>7, <1>8, <4>2, FS_RemoveElement
        <4>5. o - 1 <= N - 1
          BY <4>2, <4>3, <4>4, FS_Subset
        <4> QED
          BY <4>5
      <3> QED
        BY <3>1
    <2> QED
      BY <1>16, <2>2, <2>3, <2>4, <2>5
  <1>21. CASE Len(page) < Limit
    <2>1. ListFits(g, "walked")
      BY <1>3, <1>8, <1>16, <1>18, <1>19, <1>20, <1>21 DEF ListFits
    <2>2. WalkFits(g, "walked")
      BY <1>18, <2>1 DEF WalkFits
    <2>3. Go(q, "walked", g)
      BY <1>1, <1>2, <1>5, <1>6, <1>15, <1>17, <1>21 DEF Turn, IsAfter
    <2> QED
      BY <2>2, <2>3, WalkGoes
  <1>22. CASE ~(Len(page) < Limit)
    <2>1. ListFits(g, "walking")
      BY <1>3, <1>16, <1>18, <1>19, <1>20 DEF ListFits
    <2>2. WalkFits(g, "walking")
      BY <1>18, <2>1 DEF WalkFits
    <2>3. Go(q, "walking", g)
      BY <1>1, <1>2, <1>5, <1>6, <1>15, <1>17, <1>22 DEF Turn, IsAfter
    <2> QED
      BY <2>2, <2>3, WalkGoes
  <1> QED
    BY <1>21, <1>22

\* An order of keys is strict, for ids differ.
LEMMA KeysAreOrdered ==
    ASSUME Inv, NEW S, S \subseteq DOMAIN issue
    PROVE  /\ IsStrictOrder({p \in S \X S : Over(Key(p[1]), Key(p[2]))}, S)
           /\ \A i \in S : i \in Nat /\ issue[i].updated \in Nat
  <1>1. \A i \in S : i \in Nat /\ issue[i].updated \in Nat
    BY InboxAssumption DEF Inv, TablesOK, IssueOK, IssueRows
  <1> QED
    BY <1>1 DEF IsStrictOrder, Over, Key

RankedQueue(S, N, rank, all, u, fl, after) ==
    /\ N \in Nat /\ rank \in [S -> 1..N] /\ all \in [1..N -> S]
    /\ \A n \in 1..N : rank[all[n]] = n
    /\ \A i \in S : all[rank[i]] = i
    /\ \A i, j \in S : Over(Key(i), Key(j)) => rank[i] < rank[j]
    /\ QueuePage(u, fl, after).rows = SubSeq(all, 1, IF N < Limit THEN N ELSE Limit)

\* A page of the queue is the newest of the rest.
LEMMA QueuePages ==
    ASSUME Inv, NEW u \in People, NEW fl, NEW after, NEW rest,
           rest = {i \in Queue(u, fl) : Past(i, after)}
    PROVE  \E N, rank, all : RankedQueue(rest, N, rank, all, u, fl, after)
  <1> DEFINE T == {i \in Queue(u, fl) : Past(i, after)}
             R == {p \in T \X T : Over(Key(p[1]), Key(p[2]))}
             place(i) == 1 + Cardinality({j \in T : Over(Key(j), Key(i))})
             rank == [i \in T |-> place(i)]
             all == [n \in 1..Cardinality(T) |-> CHOOSE i \in T : place(i) = n]
  <1>1. T \subseteq DOMAIN issue /\ IsFiniteSet(T)
    <2>1. T \subseteq DOMAIN issue /\ IsFiniteSet(DOMAIN issue)
      BY DEF Queue, Inv, TablesOK, IssueOK
    <2> HIDE DEF T
    <2> QED
      BY <2>1, FS_Subset
  <1>2. IsStrictOrder(R, T)
    <2> HIDE DEF T
    <2> QED
      BY <1>1, KeysAreOrdered
  <1>3. \A i \in T : Earlier(R, T, i) = {j \in T : Over(Key(j), Key(i))}
    <2> HIDE DEF T
    <2> QED
      BY DEF Earlier
  <1>4. \A i \in T : rank[i] = 1 + Cardinality(Earlier(R, T, i))
    <2> HIDE DEF T
    <2> QED
      BY <1>3
  <1>5. /\ Cardinality(T) \in Nat
        /\ \A n \in 1..Cardinality(T) : \E i \in T : rank[i] = n
        /\ \A i \in T : rank[i] \in 1..Cardinality(T)
        /\ \A i, j \in T : <<i, j>> \in R => rank[i] < rank[j]
        /\ \A i, j \in T : rank[i] = rank[j] => i = j
    <2> HIDE DEF R, rank, T
    <2> QED
      BY <1>1, <1>2, <1>4, Ranked
  <1>6. ASSUME NEW n \in 1..Cardinality(T)
        PROVE  all[n] \in T /\ rank[all[n]] = n
    <2> HIDE DEF place, T
    <2>1. \E i \in T : place(i) = n
      BY <1>5
    <2>2. all[n] = CHOOSE i \in T : place(i) = n
      OBVIOUS
    <2>3. all[n] \in T /\ place(all[n]) = n
      BY <2>1, <2>2
    <2> QED
      BY <2>3
  <1>7. PICK N \in Nat : N = Cardinality(T)
    BY <1>5
  <1>8. all \in [1..N -> T] /\ rank \in [T -> 1..N]
    <2> HIDE DEF place, T
    <2>1. all = [n \in 1..N |-> all[n]] /\ rank = [i \in T |-> rank[i]]
      BY <1>7
    <2> HIDE DEF all, rank
    <2> QED
      BY <1>5, <1>6, <1>7, <2>1
  <1>9. Len(all) = N
    <2> HIDE DEF all, T
    <2> QED
      BY <1>7, <1>8
  <1>10. QueuePage(u, fl, after).rows
            = SubSeq(all, 1, IF Len(all) < Limit THEN Len(all) ELSE Limit)
    BY DEF QueuePage
  <1>11. \A i, j \in T : Over(Key(i), Key(j)) => <<i, j>> \in R
    <2> HIDE DEF T
    <2> QED
      OBVIOUS
  <1>12. rest = T
    OBVIOUS
  <1> HIDE DEF all, rank, R, T, place
  <1>13. \A i \in T : all[rank[i]] = i
    BY <1>5, <1>6
  <1>14. \A i, j \in T : Over(Key(i), Key(j)) => rank[i] < rank[j]
    BY <1>5, <1>11
  <1>15. \A n \in 1..N : rank[all[n]] = n
    BY <1>6, <1>7
  <1>16. QueuePage(u, fl, after).rows = SubSeq(all, 1, IF N < Limit THEN N ELSE Limit)
    BY <1>9, <1>10
  <1>17. RankedQueue(rest, N, rank, all, u, fl, after)
    BY <1>7, <1>8, <1>12, <1>13, <1>14, <1>15, <1>16 DEF RankedQueue
  <1> QED
    BY <1>17

\* What is past a key is past every key that is past it.
LEMMA PastIsTransitive ==
    ASSUME Inv, NEW i \in DOMAIN issue, NEW j \in DOMAIN issue,
           NEW after \in (Nat \X Issues) \cup {None}, Past(i, after), ~Past(j, after)
    PROVE  ~Past(j, Key(i)) /\ Key(i) \in Nat \X Issues /\ Key(i) # None
  <1>1. /\ i \in Nat /\ issue[i].updated \in Nat /\ i \in Issues
        /\ j \in Nat /\ issue[j].updated \in Nat
    BY InboxAssumption DEF Inv, TablesOK, IssueOK, IssueRows
  <1>2. Key(i) \in Nat \X Issues /\ Key(i) # None
    BY <1>1, InboxAssumption DEF Key
  <1>3. after # None
    BY DEF Past
  <1>4. PICK t \in Nat, k \in Issues : after = <<t, k>>
    BY <1>3
  <1>5. k \in Nat
    BY InboxAssumption
  <1>6. t > issue[i].updated \/ (t = issue[i].updated /\ k > i)
    BY <1>3, <1>4 DEF Past, Over, Key
  <1>7. ~(t > issue[j].updated \/ (t = issue[j].updated /\ k > j))
    BY <1>3, <1>4 DEF Past, Over, Key
  <1>8. ~(issue[i].updated > issue[j].updated \/ (issue[i].updated = issue[j].updated /\ i > j))
    BY <1>1, <1>5, <1>6, <1>7
  <1>9. ~Over(Key(i), Key(j))
    BY <1>8 DEF Over, Key
  <1> QED
    BY <1>2, <1>9 DEF Past

LEMMA ReadQueueWalks ==
    ASSUME Inv, Inv', Advances, WalksFit, NEW q \in Requests, ReadQueue(q)
    PROVE  WalksFit'
  <1>1. PICK f : f = form[q]
    OBVIOUS
  <1>2. f.verb = "queue" /\ QueueFits(f, "walking")
    BY <1>1 DEF WalksFit, WalkFits, ReadQueue, Is
  <1>3. PICK T : T = {i \in Queue(f.actor, f.filter) : Past(i, f.after)}
    OBVIOUS
  <1>4. f.actor \in People
    BY <1>2 DEF QueueFits
  <1>5. PICK N, rank, all : RankedQueue(T, N, rank, all, f.actor, f.filter, f.after)
    BY <1>3, <1>4, QueuePages
  <1>6. /\ N \in Nat /\ rank \in [T -> 1..N] /\ all \in [1..N -> T]
        /\ \A n \in 1..N : rank[all[n]] = n
        /\ \A i \in T : all[rank[i]] = i
        /\ \A i, j \in T : Over(Key(i), Key(j)) => rank[i] < rank[j]
        /\ QueuePage(f.actor, f.filter, f.after).rows
             = SubSeq(all, 1, IF N < Limit THEN N ELSE Limit)
    BY <1>5 DEF RankedQueue
  <1>7. PICK page : page = QueuePage(f.actor, f.filter, f.after).rows
    OBVIOUS
  <1>8. /\ \A i : i \in T <=> i \in Queue(f.actor, f.filter) /\ Past(i, f.after)
        /\ \A i \in T : i \in DOMAIN issue /\ i \in Issues
    BY <1>3 DEF Queue, Inv, TablesOK, IssueOK
  <1>9. all \in Seq(Issues) /\ all \in Seq(T) /\ Len(all) = N
    <2>1. T \subseteq Issues
      BY <1>8
    <2> QED
      BY <1>6, <2>1
  <1>10. f.shown \in Seq(Issues) /\ Limit \in Nat \ {0}
    <2>1. \A n \in 1..200 : n \in Nat \ {0}
      OBVIOUS
    <2> QED
      BY <1>2, <2>1, InboxAssumption DEF QueueFits
  <1>11. PICK e \in Nat : e = IF N < Limit THEN N ELSE Limit
    BY <1>6, <1>10
  <1>12. e <= Len(all) /\ e <= 0 + Limit /\ (e = Len(all) \/ e = 0 + Limit)
    BY <1>9, <1>10, <1>11
  <1>13. IsPart(page, all, 0, e)
    BY <1>6, <1>7, <1>11 DEF IsPart
  <1>14. PICK m \in Nat : m = Len(page) /\ DOMAIN page = 1..m
    <2>1. PartIs(Issues, page, all, 0, e, Limit)
      BY <1>9, <1>10, <1>12, <1>13, Slices
    <2> QED
      BY <2>1, LenProperties DEF PartIs
  <1>15. /\ page \in Seq(Issues) /\ m = e
         /\ \A n \in 1..m : n \in 1..N /\ page[n] = all[n]
    <2>1. PartIs(Issues, page, all, 0, e, Limit)
      BY <1>9, <1>10, <1>12, <1>13, Slices
    <2>2. /\ page \in Seq(Issues) /\ m = (IF 0 < e THEN e - 0 ELSE 0)
          /\ \A n \in 1..m : n + 0 \in 1..N /\ page[n] = all[n + 0]
      BY <1>9, <1>14, <2>1 DEF PartIs
    <2> QED
      BY <2>2
  <1>16. PICK out : IsAfter(out, f.shown, page)
    BY DEF IsAfter
  <1>17. AfterIs(Issues, out, f.shown, page)
    BY <1>10, <1>15, <1>16, Shown
  <1>18. /\ \A i : i \in ToSet(page) <=> i \in T /\ rank[i] <= e
         /\ \A i \in T : rank[i] \in 1..N
    <2>1. ASSUME NEW i \in ToSet(page)
          PROVE  i \in T /\ rank[i] <= e
      <3>1. PICK n \in 1..m : i = page[n]
        BY <1>14, <2>1 DEF ToSet
      <3>2. n \in 1..N /\ i = all[n] /\ n <= e
        BY <1>15, <3>1
      <3> QED
        BY <1>6, <3>2
    <2>2. ASSUME NEW i \in T, rank[i] <= e
          PROVE  i \in ToSet(page)
      <3>1. rank[i] \in 1..m /\ all[rank[i]] = i
        BY <1>6, <1>15, <2>2
      <3>2. page[rank[i]] = i
        BY <1>15, <3>1
      <3> QED
        BY <1>14, <3>1, <3>2 DEF ToSet
    <2> QED
      BY <1>6, <2>1, <2>2
  <1>19. IsInjective(out)
    <2>1. ASSUME NEW a \in DOMAIN page, NEW b \in DOMAIN page, page[a] = page[b]
          PROVE  a = b
      <3>1. a \in 1..N /\ b \in 1..N /\ all[a] = all[b]
        BY <1>14, <1>15, <2>1
      <3>2. rank[all[a]] = a /\ rank[all[b]] = b
        BY <1>6, <3>1
      <3> QED
        BY <3>1, <3>2
    <2>2. ASSUME NEW a \in DOMAIN f.shown, NEW b \in DOMAIN page
          PROVE  f.shown[a] # page[b]
      <3>1. f.shown[a] \in ToSet(f.shown) /\ page[b] \in ToSet(page)
        BY DEF ToSet
      <3>2. ~Past(f.shown[a], f.after)
        BY <1>2, <3>1 DEF QueueFits
      <3>3. Past(page[b], f.after)
        BY <1>8, <1>18, <3>1
      <3> QED
        BY <3>2, <3>3
    <2>3. \A a, b \in DOMAIN f.shown : f.shown[a] = f.shown[b] => a = b
      BY <1>2 DEF QueueFits, IsInjective
    <2>4. PICK o \in Nat : o = Len(f.shown)
      BY <1>10, LenProperties
    <2>5. \A n \in DOMAIN out : /\ n \in Int
                                /\ \/ n \in DOMAIN f.shown /\ out[n] = f.shown[n]
                                   \/ n - o \in DOMAIN page /\ out[n] = page[n - o]
      BY <1>17, <2>4, LenProperties DEF AfterIs
    <2>6. ASSUME NEW a \in DOMAIN out, NEW b \in DOMAIN out, out[a] = out[b]
          PROVE  a = b
      <3>1. a \in Int /\ b \in Int
        BY <2>5
      <3>2. (a \in DOMAIN f.shown /\ out[a] = f.shown[a]) \/ (a - o \in DOMAIN page /\ out[a] = page[a - o])
        BY <2>5
      <3>3. (b \in DOMAIN f.shown /\ out[b] = f.shown[b]) \/ (b - o \in DOMAIN page /\ out[b] = page[b - o])
        BY <2>5
      <3>4. CASE a - o \in DOMAIN page /\ out[a] = page[a - o] /\ b - o \in DOMAIN page /\ out[b] = page[b - o]
        <4>1. a - o = b - o
          BY <2>1, <2>6, <3>4
        <4> QED
          BY <3>1, <4>1
      <3> QED
        BY <2>2, <2>3, <2>6, <3>2, <3>3, <3>4
    <2> QED
      BY <2>6 DEF IsInjective
  <1>20. /\ out \in Seq(Issues) /\ ToSet(out) = ToSet(f.shown) \cup ToSet(page)
         /\ ToSet(out) \subseteq DOMAIN issue
    <2>1. out \in Seq(Issues) /\ ToSet(out) = ToSet(f.shown) \cup ToSet(page)
      BY <1>17 DEF AfterIs
    <2>2. ToSet(f.shown) \subseteq DOMAIN issue
      BY <1>2 DEF QueueFits
    <2> QED
      BY <1>8, <1>18, <2>1, <2>2
  <1>21. /\ f = [verb |-> "queue", actor |-> f.actor, filter |-> f.filter, after |-> f.after,
                 shown |-> f.shown, owed |-> f.owed]
         /\ f.after \in (Nat \X Issues) \cup {None}
         /\ \A i \in DOMAIN f.owed :
               /\ i \in DOMAIN issue /\ f.owed[i] \in IssueRows \X InboxRows /\ Owes(f, i)
               /\ f.owed[i] = ShownOf(f.actor, i) => Comes(f, "walking", i)
         /\ \A i \in ToSet(f.shown) : ~Past(i, f.after)
    BY <1>2 DEF QueueFits
  <1>22. CASE m < Limit
    <2>1. PICK g : g = [f EXCEPT !.shown = out]
      OBVIOUS
    <2>2. g = [verb |-> "queue", actor |-> f.actor, filter |-> f.filter, after |-> f.after,
               shown |-> out, owed |-> f.owed]
      BY <1>21, <2>1
    <2>3. e = N
      BY <1>9, <1>10, <1>11, <1>15, <1>22
    <2>4. ASSUME NEW i \in DOMAIN f.owed, f.owed[i] = ShownOf(f.actor, i)
          PROVE  i \in ToSet(out)
      <3>1. i \in ToSet(f.shown) \/ i \in T
        BY <1>8, <1>21, <2>4 DEF Comes
      <3> QED
        BY <1>18, <1>20, <2>3, <3>1
    <2>5. \A i \in DOMAIN g.owed :
             /\ i \in DOMAIN issue /\ g.owed[i] \in IssueRows \X InboxRows /\ Owes(g, i)
             /\ g.owed[i] = ShownOf(g.actor, i) => Comes(g, "walked", i)
      BY <1>21, <2>2, <2>4 DEF Owes, Comes
    <2>6. QueueFits(g, "walked")
      BY <1>4, <1>19, <1>20, <1>21, <2>2, <2>5 DEF QueueFits
    <2>7. WalkFits(g, "walked")
      BY <2>2, <2>6 DEF WalkFits
    <2>8. Go(q, "walked", g)
      BY <1>1, <1>2, <1>7, <1>14, <1>16, <1>22, <2>1 DEF ReadQueue, Turn, IsAfter
    <2> QED
      BY <2>7, <2>8, WalkGoes
  <1>23. CASE ~(m < Limit)
    <2>1. m = Limit /\ Limit \in 1..N /\ e = Limit
      BY <1>10, <1>11, <1>15, <1>23
    <2>2. PICK last : last = page[Limit]
      OBVIOUS
    <2>3. last \in T /\ rank[last] = Limit /\ last \in DOMAIN issue
      BY <1>6, <1>8, <1>15, <2>1, <2>2
    <2>4. PICK h : h = [f EXCEPT !.shown = out]
      OBVIOUS
    <2>5. h = [verb |-> "queue", actor |-> f.actor, filter |-> f.filter, after |-> f.after,
                shown |-> out, owed |-> f.owed]
      BY <1>21, <2>4
    <2>6. PICK g : g = [h EXCEPT !.after = Key(last)]
      OBVIOUS
    <2>7. g = [verb |-> "queue", actor |-> f.actor, filter |-> f.filter, after |-> Key(last),
               shown |-> out, owed |-> f.owed]
      BY <2>5, <2>6
    <2>8. Key(last) \in Nat \X Issues /\ Key(last) # None
      <3>1. last \in Nat /\ last \in Issues /\ issue[last].updated \in Nat
        BY <2>3, InboxAssumption DEF Inv, TablesOK, IssueOK, IssueRows
      <3> QED
        BY <3>1, InboxAssumption DEF Key
    <2>9. ASSUME NEW i \in ToSet(out)
          PROVE  ~Past(i, Key(last))
      <3>1. CASE i \in ToSet(page)
        <4>1. i \in T /\ rank[i] <= Limit /\ rank[i] \in 1..N
          BY <1>18, <2>1, <3>1
        <4>2. ~(rank[last] < rank[i])
          BY <2>1, <2>3, <4>1
        <4>3. ~Over(Key(last), Key(i))
          BY <1>6, <2>3, <4>1, <4>2
        <4> QED
          BY <2>8, <4>3 DEF Past
      <3>2. CASE i \in ToSet(f.shown)
        <4>1. i \in DOMAIN issue /\ ~Past(i, f.after) /\ Past(last, f.after)
          BY <1>8, <1>20, <1>21, <2>3, <3>2
        <4> QED
          BY <1>21, <2>3, <4>1, PastIsTransitive
      <3> QED
        BY <1>20, <2>9, <3>1, <3>2
    <2>10. ASSUME NEW i \in T, i \notin ToSet(out)
          PROVE  Past(i, Key(last))
      <3>1. rank[i] > Limit /\ rank[i] \in Nat
        <4>1. rank[i] \in 1..N /\ ~(rank[i] <= e)
          BY <1>18, <1>20, <2>10
        <4> QED
          BY <2>1, <4>1
      <3>2. ~Over(Key(i), Key(last)) /\ i # last
        <4>1. ~(rank[i] < rank[last]) /\ rank[i] # rank[last]
          BY <2>1, <2>3, <3>1
        <4> QED
          BY <1>6, <2>3, <4>1
      <3>3. i \in DOMAIN issue /\ i \in Nat /\ last \in Nat /\ issue[i].updated \in Nat /\ issue[last].updated \in Nat
        BY <1>8, <2>3, InboxAssumption DEF Inv, TablesOK, IssueOK, IssueRows
      <3>4. Over(Key(last), Key(i))
        BY <3>2, <3>3 DEF Over, Key
      <3> QED
        BY <3>4 DEF Past
    <2>11. ASSUME NEW i \in DOMAIN f.owed, f.owed[i] = ShownOf(f.actor, i)
          PROVE  i \in ToSet(out) \/ (i \in Queue(f.actor, f.filter) /\ Past(i, Key(last)))
      <3>1. i \in ToSet(f.shown) \/ i \in T
        BY <1>8, <1>21, <2>11 DEF Comes
      <3> QED
        BY <1>8, <1>20, <2>10, <3>1
    <2>12. \A i \in DOMAIN g.owed :
             /\ i \in DOMAIN issue /\ g.owed[i] \in IssueRows \X InboxRows /\ Owes(g, i)
             /\ g.owed[i] = ShownOf(g.actor, i) => Comes(g, "walking", i)
      BY <1>21, <2>7, <2>11 DEF Owes, Comes
    <2>13. QueueFits(g, "walking")
      BY <1>4, <1>19, <1>20, <2>7, <2>8, <2>9, <2>12 DEF QueueFits
    <2>14. WalkFits(g, "walking")
      BY <2>7, <2>13 DEF WalkFits
    <2>15. Go(q, "walking", g)
      BY <1>1, <1>2, <1>7, <1>14, <1>16, <1>23, <2>2, <2>6, <2>4 DEF ReadQueue, Turn, IsAfter
    <2> QED
      BY <2>14, <2>15, WalkGoes
  <1> QED
    BY <1>22, <1>23

LEMMA StampsAreNumbers ==
    ASSUME Inv
    PROVE  \A d \in DOMAIN stamp : d \in Nat /\ d \in Events /\ stamp[d] \in Nat
  <1>1. Cardinality(Events) \in Nat
    BY AccountsAssumption, FS_CardinalityType
  <1>2. \A t \in Times : t \in Nat
    BY <1>1 DEF Times
  <1> QED
    BY <1>2, AccountsAssumption DEF Inv, TablesOK, StampOK

\* Every event that is there has a row to come.
LEMMA ReadUserWalks ==
    ASSUME Inv, Inv', Advances, WalksFit, NEW q \in Requests, ReadUser(q)
    PROVE  WalksFit'
  <1>1. CASE End(q, "missing")
    BY <1>1, EndRests, RestGoes DEF InAWalk
  <1>2. PICK f : f = [verb |-> "export", offset |-> 0, out |-> {}, carry |-> None,
                      owed |-> DOMAIN stamp]
    OBVIOUS
  <1>3. CASE Go(q, "streaming", f)
    <2>1. ASSUME NEW e \in DOMAIN stamp
          PROVE  Cardinality(Upto(e)) > 0
      <3>1. e \in Events /\ stamp[e] \in Nat /\ e \in Nat
        BY StampsAreNumbers
      <3>2. PICK r \in Roles[e] : TRUE
        BY <3>1, AccountsAssumption
      <3>3. <<e, r>> \in Upto(e)
        BY <3>1 DEF Upto, Rows, Before
      <3>4. IsFiniteSet(Upto(e))
        <4>1. DOMAIN stamp \in SUBSET Events
          BY DEF Inv, TablesOK, StampOK
        <4>2. IsFiniteSet(Rows)
          BY <4>1, RowsAreFinite DEF Rows
        <4> QED
          BY <4>2, FS_Subset DEF Upto
      <3>5. Cardinality(Upto(e)) \in Nat /\ Cardinality(Upto(e)) # 0
        BY <3>3, <3>4, FS_CardinalityType, FS_EmptySet
      <3> QED
        BY <3>5
    <2>2. ExportFits(f, "streaming")
      BY <1>2, <2>1 DEF ExportFits
    <2>3. WalkFits(f, "streaming")
      BY <2>2 DEF WalkFits
    <2> QED
      BY <1>3, <2>3, WalkGoes
  <1> QED
    BY <1>1, <1>2, <1>3 DEF ReadUser

\* Where the rows of an event end, one of its rows is.
LEMMA EndsWithItsRow ==
    ASSUME Inv, NEW s \in Listings, NEW e \in DOMAIN stamp
    PROVE  /\ s \in Seq(Rows) /\ Cardinality(Upto(e)) \in 1..Len(s)
           /\ s[Cardinality(Upto(e))][1] = e
  <1> DEFINE S == Rows
             D == Upto(e)
  <1>1. IsFiniteSet(S)
    <2>1. DOMAIN stamp \in SUBSET Events
      BY DEF Inv, TablesOK, StampOK
    <2> QED
      BY <2>1, RowsAreFinite DEF Rows
  <1>2. \A d \in DOMAIN stamp : d \in Nat /\ d \in Events /\ stamp[d] \in Nat
    BY StampsAreNumbers
  <1>3. \A r \in S : r[1] \in DOMAIN stamp
    BY DEF Rows
  <1>4. D \in SUBSET S /\ \A r : r \in D <=> r \in S /\ ~Before(e, r[1])
    BY DEF Upto
  <1>5. s \in SetToSeqs(S) /\ \A i, j \in DOMAIN s : i < j => ~Before(s[j][1], s[i][1])
    BY DEF Listings
  <1>6. PICK r \in Roles[e] : <<e, r>> \in S
    BY <1>2, AccountsAssumption DEF Rows
  <1> HIDE DEF S, D
  <1>7. PICK N \in Nat : N = Cardinality(S)
    BY <1>1, FS_CardinalityType
  <1>8. s \in [1..N -> S]
    BY <1>5, <1>7 DEF SetToSeqs
  <1>9. ASSUME NEW m \in DOMAIN s, NEW n \in DOMAIN s, m < n, s[n] \in D
        PROVE  s[m] \in D
    <2>1. s[m] \in S /\ s[n] \in S /\ ~Before(e, s[n][1]) /\ ~Before(s[n][1], s[m][1])
      BY <1>4, <1>5, <1>8, <1>9
    <2>2. PICK a, b : a = s[m][1] /\ b = s[n][1]
      OBVIOUS
    <2>3. a \in DOMAIN stamp /\ b \in DOMAIN stamp
      BY <1>3, <2>1, <2>2
    <2>4. ~Before(e, a)
      BY <1>2, <2>1, <2>2, <2>3 DEF Before
    <2> QED
      BY <1>4, <2>1, <2>2, <2>4
  <1>10. /\ \A x \in S : \E n \in DOMAIN s : s[n] = x
         /\ Cardinality(D) \in 0..N
         /\ \A n \in DOMAIN s : s[n] \in D <=> n <= Cardinality(D)
    BY <1>1, <1>4, <1>5, <1>7, <1>9, Prefix
  <1>11. PICK n \in 1..N : s[n] = <<e, r>>
    BY <1>6, <1>8, <1>10
  <1>12. ~Before(e, e)
    BY <1>2 DEF Before
  <1>13. n <= Cardinality(D)
    BY <1>4, <1>6, <1>8, <1>10, <1>11, <1>12
  <1>14. PICK k \in 1..N : k = Cardinality(D)
    BY <1>10, <1>13
  <1>15. s[k] \in D /\ s[k] \in S
    BY <1>8, <1>10, <1>14
  <1>16. PICK d : d = s[k][1]
    OBVIOUS
  <1>17. d \in DOMAIN stamp /\ ~Before(e, d)
    BY <1>3, <1>4, <1>15, <1>16
  <1>18. ~Before(d, e)
    <2>1. CASE n = k
      BY <1>11, <1>12, <1>16, <2>1
    <2>2. CASE n < k
      BY <1>5, <1>8, <1>11, <1>16, <2>2
    <2> QED
      BY <1>13, <1>14, <2>1, <2>2
  <1>19. d = e
    BY <1>2, <1>17, <1>18 DEF Before
  <1>20. s \in Seq(Rows) /\ Len(s) = N
    BY <1>8 DEF S
  <1> QED
    BY <1>14, <1>16, <1>19, <1>20 DEF D

LEMMA ReadPageWalks ==
    ASSUME Inv, Inv', Advances, WalksFit, NEW q \in Requests, ReadPage(q)
    PROVE  WalksFit'
  <1>1. PICK f : f = form[q]
    OBVIOUS
  <1>2. ExportFits(f, "streaming")
    BY <1>1 DEF WalksFit, WalkFits, ReadPage, Is
  <1>3. PICK s \in Listings :
           \E p : /\ p = SubSeq(s, f.offset + 1,
                                IF f.offset + PageSize < Len(s) THEN f.offset + PageSize
                                                                ELSE Len(s))
                  /\ IF Len(p) < PageSize
                       THEN Go(q, "exported", [(IF p = <<>> THEN f ELSE Fold(f, p)) EXCEPT
                                                  !.out = Flush(IF p = <<>> THEN f ELSE Fold(f, p))])
                       ELSE Go(q, "streaming", IF p = <<>> THEN f ELSE Fold(f, p))
    BY <1>1 DEF ReadPage
  <1>4. PICK page :
           /\ page = SubSeq(s, f.offset + 1,
                            IF f.offset + PageSize < Len(s) THEN f.offset + PageSize
                                                            ELSE Len(s))
           /\ IF Len(page) < PageSize
                THEN Go(q, "exported", [(IF page = <<>> THEN f ELSE Fold(f, page)) EXCEPT
                                           !.out = Flush(IF page = <<>> THEN f ELSE Fold(f, page))])
                ELSE Go(q, "streaming", IF page = <<>> THEN f ELSE Fold(f, page))
    BY <1>3
  <1>5. /\ f = [verb |-> "export", offset |-> f.offset, out |-> f.out, carry |-> f.carry,
                owed |-> f.owed]
        /\ f.offset \in Nat /\ f.owed \subseteq DOMAIN stamp
        /\ restamped \/ \A e \in f.owed :
              e \in f.out \/ e = f.carry \/ Cardinality(Upto(e)) > f.offset
    BY <1>2 DEF ExportFits
  <1>6. s \in Seq(Rows) /\ PageSize \in Nat \ {0}
    <2>1. DOMAIN stamp \in SUBSET Events
      BY DEF Inv, TablesOK, StampOK
    <2>2. IsFiniteSet(Rows)
      BY <2>1, RowsAreFinite DEF Rows
    <2>3. PICK S : S = Rows
      OBVIOUS
    <2>4. PICK N \in Nat : S = Rows /\ N = Cardinality(S)
      BY <2>2, <2>3, FS_CardinalityType
    <2>5. s \in SetToSeqs(S)
      BY <2>4 DEF Listings
    <2>6. s \in [1..N -> S]
      BY <2>4, <2>5 DEF SetToSeqs
    <2> QED
      BY <2>4, <2>6, AccountsAssumption
  <1>7. PICK o \in Nat, N \in Nat : o = f.offset /\ N = Len(s)
    BY <1>5, <1>6, LenProperties
  <1>8. PICK z \in Nat : z = IF o + PageSize < N THEN o + PageSize ELSE N
    BY <1>6
  <1>9. z <= Len(s) /\ z <= o + PageSize /\ (z = Len(s) \/ z = o + PageSize)
    BY <1>6, <1>7, <1>8
  <1>10. IsPart(page, s, o, z)
    BY <1>4, <1>7, <1>8 DEF IsPart
  <1>11. PICK S : S = Rows
    OBVIOUS
  <1>12. PICK n \in Nat : n = Len(page) /\ DOMAIN page = 1..n
    <2>1. PartIs(S, page, s, o, z, PageSize)
      BY <1>6, <1>7, <1>9, <1>10, <1>11, Slices
    <2> QED
      BY <2>1, LenProperties DEF PartIs
  <1>13. /\ page \in Seq(S) /\ n = (IF o < z THEN z - o ELSE 0)
         /\ (n < PageSize => z = N)
         /\ \A k \in 1..N : o < k /\ k <= z => k - o \in 1..n /\ page[k - o] = s[k]
    <2>1. PartIs(S, page, s, o, z, PageSize)
      BY <1>6, <1>7, <1>9, <1>10, <1>11, Slices
    <2> QED
      BY <1>7, <1>12, <2>1 DEF PartIs
  <1>14. \A e \in f.owed : /\ e # None
                           /\ Cardinality(Upto(e)) \in 1..N /\ s[Cardinality(Upto(e))][1] = e
    <2>1. None \notin DOMAIN stamp
      BY AccountsAssumption DEF Inv, TablesOK, StampOK
    <2> QED
      BY <1>5, <1>7, <2>1, EndsWithItsRow
  <1>15. CASE page = <<>>
    <2>1. n = 0
      BY <1>12, <1>15
    <2>2. PICK g : g = [f EXCEPT !.out = Flush(f)]
      OBVIOUS
    <2>3. g = [verb |-> "export", offset |-> o, out |-> Flush(f), carry |-> f.carry,
               owed |-> f.owed]
      BY <1>5, <1>7, <2>2
    <2>4. z = N /\ N <= o
      BY <1>6, <1>13, <2>1
    <2>5. ASSUME ~restamped, NEW e \in f.owed
          PROVE  e \in Flush(f)
      BY <1>5, <1>7, <1>14, <2>4, <2>5 DEF Flush
    <2>6. restamped \in BOOLEAN
      BY DEF Inv, TablesOK, StampOK
    <2>7. ExportFits(g, "exported")
      BY <1>5, <1>7, <2>3, <2>5, <2>6 DEF ExportFits
    <2>8. WalkFits(g, "exported")
      BY <2>7 DEF WalkFits
    <2>9. Go(q, "exported", g)
      <3>1. Len(page) < PageSize
        BY <1>6, <1>12, <2>1
      <3>2. (IF page = <<>> THEN f ELSE Fold(f, page)) = f
        BY <1>15
      <3> QED
        BY <1>4, <2>2, <3>1, <3>2
    <2> QED
      BY <2>8, <2>9, WalkGoes
  <1>16. CASE page # <<>>
    <2>1. n > 0
      BY <1>12, <1>13, <1>16
    <2>2. PICK last, seen : /\ last = page[Len(page)][1]
                            /\ seen = {page[i][1] : i \in DOMAIN page} \cup ({f.carry} \ {None})
      OBVIOUS
    <2>3. PICK g : g = Fold(f, page)
      OBVIOUS
    <2>4. g = [verb |-> "export", offset |-> o + n, out |-> f.out \cup (seen \ {last}),
               carry |-> last, owed |-> f.owed]
      <3>1. PICK out, m : out = f.out \cup (seen \ {last}) /\ m = f.offset + Len(page)
        OBVIOUS
      <3>2. g = [f EXCEPT !.out = out, !.carry = last, !.offset = m]
        BY <2>2, <2>3, <3>1 DEF Fold
      <3>3. [f EXCEPT !.out = out, !.carry = last, !.offset = m]
              = [verb |-> "export", offset |-> m, out |-> out, carry |-> last, owed |-> f.owed]
        <4>1. PICK b, c, d, w : b = f.offset /\ c = f.out /\ d = f.carry /\ w = f.owed
          OBVIOUS
        <4>2. f = [verb |-> "export", offset |-> b, out |-> c, carry |-> d, owed |-> w]
          BY <1>5, <4>1
        <4>3. PICK h : h = [f EXCEPT !.out = out]
          OBVIOUS
        <4>4. h = [verb |-> "export", offset |-> b, out |-> out, carry |-> d, owed |-> w]
          BY <4>2, <4>3
        <4>5. PICK k : k = [h EXCEPT !.carry = last]
          OBVIOUS
        <4>6. k = [verb |-> "export", offset |-> b, out |-> out, carry |-> last, owed |-> w]
          BY <4>4, <4>5
        <4>7. [k EXCEPT !.offset = m]
                = [verb |-> "export", offset |-> m, out |-> out, carry |-> last, owed |-> w]
          BY <4>6
        <4>8. [f EXCEPT !.out = out, !.carry = last, !.offset = m]
                = [[[f EXCEPT !.out = out] EXCEPT !.carry = last] EXCEPT !.offset = m]
          OBVIOUS
        <4>9. [f EXCEPT !.out = out, !.carry = last, !.offset = m] = [k EXCEPT !.offset = m]
          BY <4>3, <4>5, <4>8
        <4> QED
          BY <4>1, <4>7, <4>9
      <3> QED
        BY <1>7, <1>12, <3>1, <3>2, <3>3
    <2>5. z = o + n
      BY <1>13, <2>1
    <2>6. ASSUME ~restamped, NEW e \in f.owed
          PROVE  \/ e \in g.out
                 \/ e = g.carry
                 \/ ~(n < PageSize) /\ Cardinality(Upto(e)) > g.offset
      <3>1. PICK k \in 1..N : k = Cardinality(Upto(e))
        BY <1>14
      <3>2. e \in f.out \/ e = f.carry \/ k > o
        BY <1>5, <1>7, <2>6, <3>1
      <3>3. CASE e \in f.out
        BY <2>4, <3>3
      <3>4. CASE e \in seen
        BY <2>4, <3>4
      <3>5. CASE e = f.carry
        BY <1>14, <2>2, <3>4, <3>5
      <3>6. CASE k > o /\ k <= z
        <4>1. k - o \in DOMAIN page /\ page[k - o][1] = e
          BY <1>12, <1>13, <1>14, <3>1, <3>6
        <4>2. e \in seen
          BY <2>2, <4>1
        <4> QED
          BY <3>4, <4>2
      <3>7. CASE k > z
        BY <1>13, <2>4, <2>5, <3>1, <3>7
      <3> QED
        BY <3>2, <3>3, <3>5, <3>6, <3>7
    <2>7. restamped \in BOOLEAN
      BY DEF Inv, TablesOK, StampOK
    <2>8. CASE n < PageSize
      <3>1. PICK h : h = [g EXCEPT !.out = Flush(g)]
        OBVIOUS
      <3>2. h = [verb |-> "export", offset |-> o + n, out |-> Flush(g), carry |-> last,
                 owed |-> f.owed]
        BY <2>4, <3>1
      <3>3. ASSUME ~restamped, NEW e \in f.owed
            PROVE  e \in Flush(g)
        BY <1>14, <2>6, <2>8, <3>3 DEF Flush
      <3>4. ExportFits(h, "exported")
        BY <1>5, <2>7, <3>2, <3>3 DEF ExportFits
      <3>5. WalkFits(h, "exported")
        BY <3>4 DEF WalkFits
      <3>6. Go(q, "exported", h)
        BY <1>4, <1>12, <1>16, <2>3, <2>8, <3>1
      <3> QED
        BY <3>5, <3>6, WalkGoes
    <2>9. CASE ~(n < PageSize)
      <3>1. ExportFits(g, "streaming")
        BY <1>5, <2>4, <2>6, <2>7 DEF ExportFits
      <3>2. WalkFits(g, "streaming")
        BY <3>1 DEF WalkFits
      <3>3. Go(q, "streaming", g)
        BY <1>4, <1>12, <1>16, <2>3, <2>9
      <3> QED
        BY <3>2, <3>3, WalkGoes
    <2> QED
      BY <2>8, <2>9
  <1> QED
    BY <1>15, <1>16

-----------------------------------------------------------------------------
(* Walks miss nothing *)

LEMMA WalksStartFit == Init => WalksFit
  BY DEF Init, WalksFit, WalkFits, NoForm

LEMMA WalksStayFit ==
    ASSUME Inv, Inv', WalksFit, [DeskNext]_every
    PROVE  WalksFit'
  <1>1. Advances
    BY StepsAdvance
  <1>2. CASE \E q \in Requests : Walks(q)
    <2>1. PICK q \in Requests : Walks(q)
      BY <1>2
    <2> QED
      BY <1>1, <2>1, AskReadWalks, BeginWalks, ReadQueueWalks, ReadListWalks,
         ReadTimelineWalks, ReadUserWalks, ReadPageWalks DEF Walks
  <1>3. CASE \A p \in Requests : Rests(p)
    BY <1>1, <1>3, RestGoes
  <1> QED
    BY <1>2, <1>3, WhoWalks

LEMMA FitWalksAreComplete ==
    ASSUME Inv, WalksFit
    PROVE  WalksAreComplete
  <1>1. ExportIsComplete
    <2>1. ASSUME NEW q \in Requests, pc[q] = "exported", ~restamped
          PROVE  form[q].owed \subseteq form[q].out
      <3>1. PICK f : f = form[q]
        OBVIOUS
      <3>2. ExportFits(f, "exported")
        BY <2>1, <3>1 DEF WalksFit, WalkFits
      <3> QED
        BY <2>1, <3>1, <3>2 DEF ExportFits
    <2> QED
      BY <2>1 DEF ExportIsComplete
  <1>2. QueueIsComplete
    <2>1. ASSUME NEW q \in Requests, pc[q] = "walked", form[q].verb = "queue",
                 NEW f, f = form[q]
          PROVE  /\ IsInjective(f.shown)
                 /\ \A i \in DOMAIN f.owed :
                       f.owed[i] = <<issue[i], RowOf(f.actor, i)>> => i \in ToSet(f.shown)
      <3>1. QueueFits(f, "walked")
        BY <2>1 DEF WalksFit, WalkFits
      <3> QED
        BY <3>1 DEF QueueFits, Comes, ShownOf
    <2> QED
      BY <2>1 DEF QueueIsComplete
  <1>3. OffsetWalksAreComplete
    <2>1. ASSUME NEW q \in Requests, pc[q] = "walked", NEW f, f = form[q], f.verb = "timeline",
                 Unmoved(f)
          PROVE  f.owed \subseteq ToSet(f.shown)
      <3>1. TimelineFits(f, "walked")
        BY <2>1 DEF WalksFit, WalkFits
      <3> QED
        BY <2>1, <3>1 DEF TimelineFits
    <2>2. ASSUME NEW q \in Requests, pc[q] = "walked", NEW f, f = form[q], f.verb = "list",
                 f.owed = issue, f.filter.noProject => project.has = {},
                 \A i, j \in DOMAIN issue : issue[i].updated = issue[j].updated => i = j
          PROVE  Listed(f.filter) = ToSet(f.shown)
      <3>1. ListFits(f, "walked")
        BY <2>2 DEF WalksFit, WalkFits
      <3>2. Calm(f)
        BY <2>2 DEF Calm
      <3>3. PICK S, s : S = Listed(f.filter) /\ s = f.shown
        OBVIOUS
      <3>4. /\ s \in Seq(Issues) /\ Len(s) = Cardinality(S)
            /\ \A n \in DOMAIN s : s[n] \in S /\ Cardinality(Newer(f.filter, s[n])) = n - 1
        BY <3>1, <3>2, <3>3 DEF ListFits
      <3>5. PICK N \in Nat : N = Len(s) /\ DOMAIN s = 1..N /\ s \in [1..N -> S]
        BY <3>4
      <3>6. IsFiniteSet(S)
        BY <3>3, FS_Subset DEF Listed, Inv, TablesOK, IssueOK
      <3>7. \A m, n \in 1..N : s[m] = s[n] => m = n
        BY <3>4, <3>5
      <3>8. s \in Injection(1..N, S)
        BY <3>5, <3>7 DEF Injection, IsInjective
      <3>9. IsFiniteSet(1..N) /\ Cardinality(1..N) = N
        BY FS_Interval
      <3>10. s \in Surjection(1..N, S)
        BY <3>4, <3>5, <3>6, <3>8, <3>9, FS_Injection
      <3>11. ToSet(s) = S
        BY <3>5, <3>10 DEF ToSet, Surjection
      <3> QED
        BY <3>3, <3>11
    <2> QED
      BY <2>1, <2>2 DEF OffsetWalksAreComplete
  <1> QED
    BY <1>1, <1>2, <1>3 DEF WalksAreComplete

\* A walk that has come to its end has shown what it was owed: an export, every event
\* that was there when it began; the queue, every issue that has not changed since, and
\* none twice; a timeline, every event, unless one of its events was given another time
\* meanwhile (record_event); and the plain list, everything as long as nothing changes
\* and times differ.
THEOREM WalksMissNothing == Spec => []WalksAreComplete
  <1>1. Init => WalksFit
    BY WalksStartFit
  <1>2. Inv /\ Inv' /\ WalksFit /\ [DeskNext]_every => WalksFit'
    BY WalksStayFit
  <1>3. Inv /\ WalksFit => WalksAreComplete
    BY FitWalksAreComplete
  <1> QED
    BY <1>1, <1>2, <1>3, Invariance, PTL DEF Spec
=============================================================================
