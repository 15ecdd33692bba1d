--------------------------------- MODULE Inbox ---------------------------------
(***************************************************************************)
(* The issue lists people read and the inbox they keep over them: seen     *)
(* markers, snoozes and dismissals, the queue, the lists and the timeline, *)
(* and the issues that exist only here.  dp-rest inbox.rs, issues_read.rs  *)
(* and the local half of issues_write.rs over store/issues.rs.             *)
(*                                                                         *)
(* One repository; the ids of issues are ordered as their uuids are, and   *)
(* come in no particular order.  Edits that go to GitHub are IssueWrite's: *)
(* here they are changes that arrive.  A client walks a list to its end.   *)
(***************************************************************************)
EXTENDS Personal

CONSTANTS
    Issues,         \* ids, in their order
    Entries,        \* ids of activity events
    MaxTime, MaxChanges,
    BatchCap,       \* SEEN_BATCH_CAP
    Limit,          \* rows of a page
    Filters, StateBodies, BulkBodies

ASSUME InboxAssumption ==
    /\ Issues \subseteq Nat /\ Entries \subseteq Nat
    /\ MaxTime \in Nat \ {0} /\ MaxChanges \in Nat
    /\ BatchCap \in Nat /\ Limit \in 1..200
    /\ \A b \in StateBodies : /\ b.status \in {"inbox", "snoozed", "done", None}
                              /\ b.until \in Nat \cup {None}
    /\ \A b \in BulkBodies : b.until \in Nat \cup {None}
    /\ None \notin Nat \X Issues

VARIABLES
    issue,      \* dp_issues
    counter,    \* dp_repos.local_issue_counter
    inbox,      \* dp_user_issue_state: <<user, issue>> -> row
    log,        \* dp_activity_events that carry the number of an issue, which those of
                \* comments do not, and how often each has been given another time
    project,    \* [version, has]: a project and its issues
    now,        \* the clock
    changes     \* changes that have arrived from GitHub

desk  == <<issue, counter, inbox, log, project, now, changes>>
every == <<allVars, desk>>
still == <<accounts, personal>>

Statuses == {"inbox", "snoozed", "done"}
NoPage   == [rows |-> <<>>, total |-> 0]

\* No row is the default state: in the inbox, and nothing seen.
RowOf(u, i) ==
    IF <<u, i>> \in DOMAIN inbox THEN inbox[<<u, i>>]
    ELSE [seen |-> 0, status |-> "inbox", until |-> None, writes |-> 0]
Unread(u, i) == issue[i].version > RowOf(u, i).seen

-----------------------------------------------------------------------------
(* Changes that arrive from GitHub *)

\* The upsert takes strictly newer payloads only, and every one it takes is a
\* version; what is pending is IssueWrite's.
UpsertIssue(i, t, s) ==
    IF i \in DOMAIN issue /\ t <= issue[i].updated THEN UNCHANGED issue
    ELSE IF i \in DOMAIN issue
    THEN issue' = [issue EXCEPT ![i].updated = t, ![i].state = s, ![i].version = @ + 1]
    ELSE issue' = With(issue, i, [number |-> i, local |-> FALSE, state |-> s, plain |-> TRUE,
                                  version |-> 1, updated |-> t])

Remote == {i \in Issues : i \notin DOMAIN issue \/ ~issue[i].local}

ChangeIssue ==
    \E i \in Remote, t \in 1..now, s \in {"open", "closed"} :
       UpsertIssue(i, t, s) /\ UNCHANGED log

\* record_event over (kind, external_id): an issue is opened once, but one that is
\* closed again has its event given the new time.
RecordEvent(n, k, t) ==
    \/ /\ \A l \in log : l.number = n => l.kind # k
       /\ \E e \in Entries :
             /\ \A l \in log : l.id # e
             /\ log' = log \cup {[id |-> e, number |-> n, kind |-> k, ts |-> t, moves |-> 0]}
    \/ \E l \in log :
          /\ l.number = n /\ l.kind = k /\ (k = "issue_opened" => t = l.ts)
          /\ log' = (log \ {l})
                    \cup {[l EXCEPT !.ts = t, !.moves = IF t = l.ts THEN @ ELSE @ + 1]}

LogEvent ==
    \E i \in Remote \cap DOMAIN issue, t \in 1..now, k \in {"issue_opened", "issue_closed"} :
       RecordEvent(issue[i].number, k, t) /\ UNCHANGED issue

Arrive ==
    /\ changes < MaxChanges /\ changes' = changes + 1
    /\ ChangeIssue \/ LogEvent
    /\ UNCHANGED <<counter, inbox, project, now, still, pc, form>>

Tick ==
    /\ now < MaxTime /\ now' = now + 1
    /\ UNCHANGED <<issue, counter, inbox, log, project, changes, still, pc, form>>

-----------------------------------------------------------------------------
(* What the lists show *)

\* filter_from_query: an absent state asks for what is open.
Wanted(i, f) ==
    /\ f.state \in {"all", issue[i].state}
    /\ f.untriaged => issue[i].plain

\* list_issues also joins the project.
Listed(f) == {i \in DOMAIN issue : Wanted(i, f) /\ (f.noProject => i \notin project.has)}

\* list_inbox_issues does not, and leaves out what is dismissed or asleep.
Asleep(r) == r.status = "snoozed" /\ r.until # None /\ r.until >= now
Queue(u, f) ==
    {i \in DOMAIN issue :
       Wanted(i, f) /\ RowOf(u, i).status # "done" /\ ~Asleep(RowOf(u, i))}

Key(i) == <<issue[i].updated, i>>
Over(k, l) == k[1] > l[1] \/ (k[1] = l[1] /\ k[2] > l[2])

\* Mutated: the cursor compares the times alone.
PastTime(i, after) == after = None \/ issue[i].updated < after[1]

\* (updated_at, id) < cursor; a cursor that does not parse is none.
Past(i, after) == after = None \/ Over(after, Key(i))

\* The page of the queue after a cursor, newest first, and the total, which the
\* cursor does not narrow.
QueuePage(u, f, after) ==
    LET rest == {i \in Queue(u, f) : Past(i, after)}
        rank(i) == 1 + Cardinality({j \in rest : Over(Key(j), Key(i))})
        all  == [n \in 1..Cardinality(rest) |-> CHOOSE i \in rest : rank(i) = n]
    IN  [rows  |-> SubSeq(all, 1, IF Len(all) < Limit THEN Len(all) ELSE Limit),
         total |-> Cardinality(Queue(u, f))]

\* ORDER BY updated_at DESC: those of one time come in any order.
ListPages(f, offset) ==
    LET orders == {s \in SetToSeqs(Listed(f)) :
                      \A m, n \in DOMAIN s : m < n => issue[s[m]].updated >= issue[s[n]].updated}
    IN  {[rows  |-> SubSeq(s, offset + 1,
                           IF Len(s) < offset + Limit THEN Len(s) ELSE offset + Limit),
          total |-> Len(s)] : s \in orders}

\* A tag is seen in the scopes of its viewer, until it is archived ...
TagsVisible(u) ==
    {t \in DOMAIN tag : /\ tag[t].scope = u \/ \E o \in Orgs : <<u, o>> \in DOMAIN home
                                                               /\ tag[t].scope = o
                        /\ ~tag[t].archived}

\* ... and put on the issues it is linked to.
Chips(u, i) ==
    {t \in TagsVisible(u) : CanSee(u, tag[t].scope) /\ \E l \in LinksOf(t) : l.target = i}

\* GET /issues/{id}/timeline: the newest first; the number of a local issue is
\* negative, which no event carries.
TimelineOf(i) ==
    {l \in log : l.number = issue[i].number
                 /\ l.kind \in {"issue_opened", "issue_closed", "issue_comment"}}
TimelinePage(i, offset) ==
    LET rank(l) == 1 + Cardinality({m \in TimelineOf(i) : Over(<<m.ts, m.id>>, <<l.ts, l.id>>)})
        all == [n \in 1..Cardinality(TimelineOf(i)) |-> CHOOSE l \in TimelineOf(i) : rank(l) = n]
    IN  [rows  |-> SubSeq(all, offset + 1,
                          IF Len(all) < offset + Limit THEN Len(all) ELSE offset + Limit),
         total |-> Len(all)]

-----------------------------------------------------------------------------
(* Walks of lists *)

AskRead(q) ==
    \E a \in DOMAIN user :
       \/ \E f \in Filters, v \in {"queue", "list"} :
             Ask(q, [verb |-> v, actor |-> a, filter |-> f, after |-> None, shown |-> <<>>,
                     owed |-> <<>>])
       \/ \E i \in DOMAIN issue :
             \/ Ask(q, [verb |-> "timeline", actor |-> a, on |-> i, shown |-> <<>>, owed |-> {}])
             \/ Ask(q, [verb |-> "look", actor |-> a, on |-> i, chips |-> {}])

\* What the walk is owed: the rows as they are when it begins.
Begun(f) ==
    CASE f.verb = "queue"    -> [i \in Queue(f.actor, f.filter) |-> <<issue[i], RowOf(f.actor, i)>>]
      [] f.verb = "list"     -> issue
      [] f.verb = "timeline" -> TimelineOf(f.on)

BeginWalk(q) ==
    /\ pc[q] = "admitted" /\ form[q].verb \in {"queue", "list", "timeline"}
    /\ Go(q, "walking", [form[q] EXCEPT !.owed = Begun(form[q])])
    /\ UNCHANGED <<still, desk>>

\* The total is counted by a second statement; the walk is over with a short page.
Turn(q, page) ==
    LET f   == form[q]
        out == [f EXCEPT !.shown = @ \o page.rows]
    IN  IF Len(page.rows) < Limit THEN Go(q, "walked", out)
        ELSE Go(q, "walking",
                IF f.verb = "queue" THEN [out EXCEPT !.after = Key(page.rows[Limit])] ELSE out)

\* GET /me/queue, by its cursor
ReadQueue(q) ==
    /\ Is(q, "queue", "walking")
    /\ Turn(q, QueuePage(form[q].actor, form[q].filter, form[q].after))
    /\ UNCHANGED <<still, desk>>

\* GET /issues, by the offset
ReadList(q) ==
    /\ Is(q, "list", "walking")
    /\ \E page \in ListPages(form[q].filter, Len(form[q].shown)) : Turn(q, page)
    /\ UNCHANGED <<still, desk>>

ReadTimeline(q) ==
    /\ Is(q, "timeline", "walking")
    /\ Turn(q, TimelinePage(form[q].on, Len(form[q].shown)))
    /\ UNCHANGED <<still, desk>>

\* GET /issues/{id}: the version a client edits from, and the chips it may remove.
GetIssue(q) ==
    LET i == form[q].on IN
    /\ Is(q, "look", "admitted")
    /\ Go(q, "looked", [form[q] EXCEPT !.chips = Chips(form[q].actor, i)])
    /\ UNCHANGED <<still, desk>>

-----------------------------------------------------------------------------
(* The inbox *)

AskInbox(q) ==
    \E a \in DOMAIN user :
       \/ \E b \in BulkBodies : Ask(q, [verb |-> "bulk", actor |-> a, body |-> b])
       \/ \E i \in Issues, b \in StateBodies :
             Ask(q, [verb |-> "status", actor |-> a, on |-> i, body |-> b])

Write(rows) ==
    inbox' = [k \in DOMAIN inbox \cup DOMAIN rows |->
                 IF k \in DOMAIN rows THEN rows[k] ELSE inbox[k]]

\* INSERT ... SELECT i.version ... DO UPDATE SET last_seen_version = GREATEST(...):
\* the version is the one of the statement's time.
MarkSeen(a, S) ==
    Write([k \in {a} \X (S \cap DOMAIN issue) |->
             LET r == RowOf(a, k[2]) IN
             [r EXCEPT !.seen = IF @ < issue[k[2]].version THEN issue[k[2]].version ELSE @,
                       !.writes = @ + 1]])

\* Mutated: the row is written afresh.
SetAfresh(a, S, s, t) ==
    Write([k \in {a} \X (S \cap DOMAIN issue) |->
             [seen |-> 0, status |-> s, until |-> t, writes |-> RowOf(a, k[2]).writes + 1]])

\* A row keeps what it has seen; a new one has seen nothing.
SetStates(a, S, s, t) ==
    Write([k \in {a} \X (S \cap DOMAIN issue) |->
             [RowOf(a, k[2]) EXCEPT !.status = s, !.until = t, !.writes = @ + 1]])

\* PATCH /me/inbox/{issue_id}: a deadline alone snoozes, nothing at all restores,
\* and an issue that is not there breaks the foreign key.
SetStatus(q) ==
    LET f == form[q]
        s == IF f.body.status # None THEN f.body.status
             ELSE IF f.body.until # None THEN "snoozed" ELSE "inbox"
    IN  /\ Is(q, "status", "admitted")
        /\ IF f.on \notin DOMAIN issue
             THEN End(q, "failed") /\ UNCHANGED inbox
             ELSE SetStates(f.actor, {f.on}, s, f.body.until) /\ End(q, "done")
        /\ UNCHANGED <<issue, counter, log, project, now, changes, still>>

\* POST /me/inbox/bulk, and /me/inbox/seen, which is its first case.  Ids that are
\* no issue's are passed over; only a snooze keeps the deadline.
Apply(a, b) ==
    \/ b.op = "mark_all_seen" /\ MarkSeen(a, b.on)
    \/ b.op = "snooze_all"    /\ SetStates(a, b.on, "snoozed", b.until)
    \/ b.op = "done_all"      /\ SetStates(a, b.on, "done", None)
    \/ b.op = "inbox_all"     /\ SetStates(a, b.on, "inbox", None)

BulkInbox(q) ==
    LET b == form[q].body IN
    /\ Is(q, "bulk", "admitted")
    /\ IF Cardinality(b.on) > BatchCap \/ (b.op = "snooze_all" /\ b.until = None)
         THEN End(q, "refused") /\ UNCHANGED inbox
         ELSE Apply(form[q].actor, b) /\ End(q, "done")
    /\ UNCHANGED <<issue, counter, log, project, now, changes, still>>

-----------------------------------------------------------------------------
(* Issues that exist only here *)

\* expected: the project's version or the issue's, as the client has read it.
AskLocal(q) ==
    \E a \in DOMAIN user :
       \/ \E e \in {None, project.version}, p \in {"none", "project", "view only"} :
             Ask(q, [verb |-> "create", actor |-> a, attach |-> p, expected |-> e, on |-> None])
       \/ \E i \in DOMAIN issue :
             \/ \E s \in {"open", "closed", None} :
                   Ask(q, [verb |-> "edit", actor |-> a, on |-> i, state |-> s,
                           expected |-> issue[i].version, current |-> 0])
             \/ \E v \in {"comment", "refresh"} : Ask(q, [verb |-> v, actor |-> a, on |-> i])

\* POST /issues with local: what is to be attached is checked first ...
CheckCreate(q) ==
    LET f == form[q] IN
    /\ Is(q, "create", "admitted")
    /\ IF f.attach = "view only" \/ (f.attach = "project" /\ f.expected = None)
         THEN End(q, "refused") ELSE Goto(q, "checked")
    /\ UNCHANGED <<still, desk>>

\* ... the next negative number and the row are one transaction ...
CreateLocal(q, i) ==
    /\ Is(q, "create", "checked") /\ i \notin DOMAIN issue
    /\ counter' = counter - 1
    /\ issue' = With(issue, i, [number |-> counter', local |-> TRUE, state |-> "open",
                                plain |-> TRUE, version |-> 1, updated |-> now])
    /\ IF form[q].attach = "none" THEN End(q, "done")
                                  ELSE Go(q, "created", [form[q] EXCEPT !.on = i])
    /\ UNCHANGED <<inbox, log, project, now, changes, still>>

\* ... and the project is another: the issue stays when it refuses.
AttachLocal(q) ==
    LET f == form[q] IN
    /\ Is(q, "create", "created")
    /\ IF f.expected = project.version
         THEN /\ project' = [version |-> project.version + 1, has |-> project.has \cup {f.on}]
              /\ End(q, "done")
         ELSE End(q, "refused") /\ UNCHANGED project
    /\ UNCHANGED <<issue, counter, inbox, log, now, changes, still>>

\* PATCH /issues/{id}: the row says where the edit goes; the answer to a stale
\* edit carries the version that was read here.
FindLocal(q) ==
    LET i == form[q].on IN
    /\ Is(q, "edit", "admitted")
    /\ IF issue[i].local THEN Go(q, "found", [form[q] EXCEPT !.current = issue[i].version])
                         ELSE End(q, "done")
    /\ UNCHANGED <<still, desk>>

\* A local row is updated in one statement, which compares the versions.
UpdateLocal(q) ==
    LET f == form[q] IN
    /\ Is(q, "edit", "found")
    /\ IF f.expected # issue[f.on].version
         THEN Goto(q, "stale") /\ UNCHANGED issue
         ELSE /\ issue' = [issue EXCEPT ![f.on].state = IF f.state = None THEN @ ELSE f.state,
                                        ![f.on].version = @ + 1, ![f.on].updated = now]
              /\ Goto(q, "edited")
    /\ UNCHANGED <<counter, inbox, log, project, now, changes, still>>

\* POST /issues/{id}/comments: none on a local issue.
CreateComment(q) ==
    /\ Is(q, "comment", "admitted")
    /\ End(q, IF issue[form[q].on].local THEN "refused" ELSE "done")
    /\ UNCHANGED <<still, desk>>

\* POST /issues/{id}/refresh: what GitHub answers, if it answers, is upserted; it
\* knows no negative number.
RefreshIssue(q) ==
    LET i == form[q].on IN
    /\ Is(q, "refresh", "admitted")
    /\ \/ UNCHANGED issue
       \/ ~issue[i].local /\ \E t \in 1..now, s \in {"open", "closed"} : UpsertIssue(i, t, s)
    /\ End(q, "done")
    /\ UNCHANGED <<counter, inbox, log, project, now, changes, still>>

-----------------------------------------------------------------------------
Reads(q)   == BeginWalk(q) \/ ReadQueue(q) \/ ReadList(q) \/ ReadTimeline(q) \/ GetIssue(q)
Sorts(q)   == SetStatus(q) \/ BulkInbox(q)
Locally(q) ==
    \/ CheckCreate(q) \/ AttachLocal(q) \/ FindLocal(q) \/ UpdateLocal(q)
    \/ CreateComment(q) \/ RefreshIssue(q) \/ (\E i \in Issues : CreateLocal(q, i))

DeskNext ==
    \/ Next /\ UNCHANGED desk
    \/ Arrive \/ Tick
    \/ \E q \in Idle : (AskRead(q) \/ AskInbox(q) \/ AskLocal(q)) /\ UNCHANGED <<still, desk>>
    \/ \E q \in Busy : Reads(q) \/ Sorts(q) \/ Locally(q)

-----------------------------------------------------------------------------
IssueRows == [number : Int, local : BOOLEAN, state : {"open", "closed"}, plain : BOOLEAN,
              version : Nat, updated : Nat]
LogRows   == [id : Entries, number : Int, ts : Nat, kind : {"issue_opened", "issue_closed"},
              moves : Nat]
InboxRows == [seen : Nat, status : Statuses, until : Nat \cup {None}, writes : Nat]

\* The numbers of a repository's issues differ whichever creations race, and an issue
\* that exists only here is one GitHub has no number for.
NumbersDiffer ==
    /\ \A i, j \in DOMAIN issue : issue[i].number = issue[j].number => i = j
    /\ \A i \in DOMAIN issue : IF issue[i].local THEN issue[i].number \in counter..-1
                                                  ELSE issue[i].number = i

\* The types of the rows.  No marker is ahead of its issue; an issue that exists only
\* here is dated by the clock here; the numbers of issues, and the ids of events,
\* differ; two edits that were both accepted did not start from one version, and one
\* that was refused was stale; a chip can be removed by whoever is shown it.
DeskTypeOK ==
    /\ TypeOK
    /\ DOMAIN issue \subseteq Issues /\ \A i \in DOMAIN issue : issue[i] \in IssueRows
    /\ \A k \in DOMAIN inbox :
          /\ k \in People \X DOMAIN issue /\ inbox[k] \in InboxRows
          /\ inbox[k].seen <= issue[k[2]].version
    /\ IsFiniteSet(DOMAIN issue)
    /\ \A i \in DOMAIN issue : issue[i].local => issue[i].updated <= now
    /\ IsFiniteSet(log) /\ \A l \in log : l \in LogRows
    /\ \A l, m \in log : l.id = m.id => l = m
    /\ counter \in Int /\ counter <= 0 /\ now \in 0..MaxTime
    /\ NumbersDiffer
    /\ \A p, q \in Requests :
          pc[p] = "edited" /\ pc[q] = "edited" /\ form[p].on = form[q].on
             /\ form[p].expected = form[q].expected => p = q
    /\ \A q \in Requests : pc[q] = "stale" =>
          form[q].current >= form[q].expected /\ issue[form[q].on].version > form[q].expected
    /\ \A q \in Requests : pc[q] = "looked" =>
          \A t \in form[q].chips : CanSee(form[q].actor, tag[t].scope)

\* A walk of the queue shows no issue twice, and every issue that was in it when
\* the walk began and has not changed since, whatever else changes meanwhile
\* (me_queue and the keyset of list_inbox_issues).
QueueIsComplete ==
    \A q \in Requests : pc[q] = "walked" /\ form[q].verb = "queue" =>
       LET f == form[q] IN
       /\ IsInjective(f.shown)
       /\ \A i \in DOMAIN f.owed :
             f.owed[i] = <<issue[i], RowOf(f.actor, i)>> => i \in ToSet(f.shown)

\* No event of the timeline has been given another time since the walk began.
Unmoved(f) ==
    /\ f.owed \subseteq TimelineOf(f.on)
    /\ \A l \in TimelineOf(f.on) \ f.owed : l.moves = 0

\* A walk of a timeline misses no event that was there when it began, though late
\* ones push the pages on, unless one of them was given another time meanwhile; one of
\* the plain list misses nothing only while nothing changes and no two of its issues
\* were updated at one time (list_events_for_issue, list_issues, record_event).
OffsetWalksAreComplete ==
    \A q \in Requests : pc[q] = "walked" =>
       LET f == form[q] IN
       /\ f.verb = "timeline" /\ Unmoved(f) => f.owed \subseteq ToSet(f.shown)
       /\ f.verb = "list" /\ f.owed = issue /\ (f.filter.noProject => project.has = {})
             /\ (\A i, j \in DOMAIN issue : issue[i].updated = issue[j].updated => i = j)
          => Listed(f.filter) = ToSet(f.shown)

\* Whatever is read a page at a time is complete: exports, queues, timelines.
WalksAreComplete == ExportIsComplete /\ QueueIsComplete /\ OffsetWalksAreComplete

\* What people decide survives what others and they themselves write elsewhere: no
\* delivery changes a role or a home org, no mark of having seen wakes or dismisses
\* an issue, and none goes back (mark_issues_seen, set_inbox_state).
ChoicesAreKept ==
    /\ WorkerKeepsChoices
    /\ [][\A k \in DOMAIN inbox :
             /\ k \in DOMAIN inbox' /\ inbox'[k].seen >= inbox[k].seen
             /\ inbox'[k].seen > inbox[k].seen =>
                   inbox'[k].status = inbox[k].status /\ inbox'[k].until = inbox[k].until]_every

-----------------------------------------------------------------------------
\* The server starts over what earlier requests have left in the tables, and no
\* request is under way.
Init ==
    /\ DeskTypeOK /\ DeletedAreNameless
    /\ pc \in [Requests -> {"idle", "done"}] /\ form = [q \in Requests |-> NoForm]

Spec == Init /\ [][DeskNext]_every
=============================================================================
