------------------------------- MODULE Reports -------------------------------
(***************************************************************************)
(* The reports: the rows of activity the importers write, an event first,  *)
(* its actors next and the organisation's cursor last (dp-store-pg events, *)
(* fetch); the report requests, whose tags, rows and freshness are three   *)
(* reads (dp-rest reports.rs); the lenses and counts (dp-reports lenses.rs,*)
(* aggregate.rs, freshness.rs, tag_filter.rs) over a window of local days  *)
(* (envelope.rs); the leaderboard, its pages and a person's standing on it *)
(* (leaderboard.rs, my_standing.rs); the portfolio of projects             *)
(* (project_portfolio.rs).  Of a tag's links only the kind counts, a       *)
(* project's row does not change, and months are left out: they differ     *)
(* from weeks in length only.                                              *)
(***************************************************************************)
EXTENDS Integers, Sequences, FiniteSets, SequencesExt

CONSTANTS
    None,
    People, Orgs, Repos,
    Activities,     \* (kind, external_id) keys of events
    OrgOf,          \* the organisation of a repo
    RepoOf, KindOf, \* the repo of an event, and its kind
    Credits,        \* the actors of an event: <<person, role>>
    HomeOf,         \* the home organisation of a person, None without one
    Order,          \* the order of the subjects' ids
    Importers,      \* workers and reconcilers that record events
    DayLength, WeekLength, LastDays,    \* in ticks of the clock; in days
    Zones, Offset,  \* time zones, and the ticks each is ahead of UTC
    Start, MaxClock,
    MaxDeliveries,  \* how often an event is delivered at most, all together
    Requests, Boards, Portfolios,       \* what the reader may ask for
    PageSize,       \* of the leaderboard
    Radii,          \* how far a standing may reach
    Projects,
    ProjectRows     \* what the row of a project may be

Labels == {"today", "yesterday", "this_week", "last_week", "last_days"}
Scopes == {"single_org", "all_orgs_combined", "per_org_split"}

ReportAsks ==
    [path : {"user", "team", "org", "home_split", "freshness"}, of : People \cup Orgs \cup {None},
     users : SUBSET People, orgs : Seq(Orgs), repos : SUBSET Repos, roles : SUBSET STRING,
     kinds : SUBSET STRING, tags : SUBSET STRING, scope : Scopes, group : STRING,
     label : Labels, zone : Zones, anchor : {"utc", "viewer"}]
BoardAsks ==
    [subject : {"user", "org", "home"}, scope : Scopes, orgs : Seq(Orgs), kind : STRING,
     roles : SUBSET STRING, label : Labels, zone : Zones, anchor : {"utc", "viewer"}]
PortfolioAsks ==
    [orgs : SUBSET Orgs, statuses : SUBSET STRING, hide : BOOLEAN, tags : SUBSET STRING,
     all : BOOLEAN, from : Int \cup {None}, until : Int \cup {None}, limit : Nat, offset : Nat]

ASSUME TablesAssumption ==
    /\ OrgOf \in [Repos -> Orgs] /\ RepoOf \in [Activities -> Repos]
    /\ Credits \in [Activities -> SUBSET (People \X STRING)]
    /\ \A e \in Activities : IsFiniteSet(Credits[e])
    /\ HomeOf \in [People -> Orgs \cup {None}]
    /\ Order \in [People \cup Orgs \cup {None} -> Int] /\ IsInjective(Order)
    /\ None \notin Int \cup [id : Seq(People \cup Orgs \cup {None}), value : Nat, days : Nat]
    /\ IsFiniteSet(Projects)
    /\ ProjectRows \subseteq [org : Orgs, status : {"active", "backlog", "done"},
                             start : Int \cup {None}, due : Int \cup {None},
                             tags : SUBSET STRING, issues : Nat, closed : Nat]

ASSUME ClockAssumption ==
    /\ DayLength \in Nat \ {0} /\ WeekLength \in Nat \ {0} /\ LastDays \in Nat \ {0}
    /\ Start \in Nat /\ MaxClock \in Nat /\ DayLength <= Start /\ Start <= MaxClock
    /\ Offset \in [Zones -> Int] /\ \E z \in Zones : Offset[z] = 0

ASSUME RequestsAssumption ==
    /\ MaxDeliveries \in Nat /\ PageSize \in Nat \ {0} /\ Radii \subseteq Nat
    /\ Requests \subseteq ReportAsks
    /\ \A r \in Requests : /\ r.path = "user" => r.of \in People
                           /\ r.path = "org" => r.of \in Orgs
    /\ Boards \subseteq BoardAsks /\ Portfolios \subseteq PortfolioAsks

VARIABLES
    clock,
    event,      \* dp_activity_events: the time of an event, None before it is recorded
    actor,      \* dp_event_actors: <<event, person, role>>
    cursor,     \* dp_fetch_cursors: when the organisation's was last put
    deliveries, \* those made
    importer,   \* what each importer is about to do
    covered,    \* history: the events that were complete when a cursor was put
    project,    \* dp_projects: [Projects -> ProjectRows]
    reader      \* the one request there is, and what it has read so far

dataVars == <<clock, event, actor, cursor, deliveries, importer, covered>>
reportVars     == <<dataVars, project, reader>>

UTC  == CHOOSE z \in Zones : Offset[z] = 0
Free == [at |-> "idle"]

EventRoles == UNION {{c[2] : c \in Credits[e]} : e \in Activities}
IsIssueKind(k) == k = "issue"

ReportTypeOK ==
    /\ clock \in Start..MaxClock
    /\ event \in [Activities -> {None} \cup 0..MaxClock]
    /\ actor \subseteq Activities \X People \X EventRoles
    /\ \A x \in actor : event[x[1]] # None
    /\ deliveries \in 0..MaxDeliveries
    /\ cursor \in [Orgs -> {None} \cup Start..MaxClock]
    /\ \A e \in covered : \A c \in Credits[e] : <<e, c[1], c[2]>> \in actor
    /\ project \in [Projects -> ProjectRows]
    /\ reader.at \in {"idle", "tags", "rows", "freshness", "paging", "answered", "refused"}

-----------------------------------------------------------------------------
(* The importers: record_event, add_event_actors and put_cursor are three *)
(* statements, and a handler may end between two of them.                 *)

Tick ==
    /\ clock < MaxClock /\ clock' = clock + 1
    /\ UNCHANGED <<event, actor, cursor, deliveries, importer, covered, project, reader>>

\* A second delivery gives the event its own time.
RecordActivity(w) ==
    /\ importer[w].at = "idle" /\ deliveries < MaxDeliveries /\ deliveries' = deliveries + 1
    /\ \E e \in Activities, t \in {clock - DayLength, clock} :
          /\ event' = [event EXCEPT ![e] = t]
          /\ importer' = [importer EXCEPT ![w] = [at |-> "actors", of |-> e]]
          /\ covered' = covered \ {e}
    /\ UNCHANGED <<clock, actor, cursor, project, reader>>

AddActors(w) ==
    /\ importer[w].at = "actors"
    /\ actor' = actor \cup {<<importer[w].of, c[1], c[2]>> : c \in Credits[importer[w].of]}
    /\ importer' = [importer EXCEPT ![w].at = "cursor"]
    /\ UNCHANGED <<clock, deliveries, event, cursor, covered, project, reader>>

\* Mutated: the cursor is put when the event is recorded.
PutCursorFirst(w) ==
    /\ importer[w].at \in {"actors", "cursor"}
    /\ cursor' = [cursor EXCEPT ![OrgOf[RepoOf[importer[w].of]]] = clock]
    /\ covered' = covered \cup {importer[w].of}
    /\ importer' = [importer EXCEPT ![w] = Free]
    /\ UNCHANGED <<clock, deliveries, event, actor, project, reader>>

PutCursor(w) ==
    /\ importer[w].at = "cursor"
    /\ cursor' = [cursor EXCEPT ![OrgOf[RepoOf[importer[w].of]]] = clock]
    /\ covered' = covered \cup {importer[w].of}
    /\ importer' = [importer EXCEPT ![w] = Free]
    /\ UNCHANGED <<clock, deliveries, event, actor, project, reader>>

GiveUp(w) ==
    /\ importer[w].at \in {"actors", "cursor"}
    /\ importer' = [importer EXCEPT ![w] = Free]
    /\ UNCHANGED <<clock, deliveries, event, actor, cursor, covered, project, reader>>

Import == \E w \in Importers : RecordActivity(w) \/ AddActors(w) \/ PutCursor(w) \/ GiveUp(w)

-----------------------------------------------------------------------------
(* The window: local days, from midnight to midnight.                      *)

LocalDay(z, t) == (t + Offset[z]) \div DayLength
Midnight(z, d) == d * DayLength - Offset[z]
Monday(d)      == d - (d % WeekLength)

Days(label, today) ==
    CASE label = "today"     -> <<today, today + 1>>
      [] label = "yesterday" -> <<today - 1, today>>
      [] label = "this_week" -> <<Monday(today), Monday(today) + WeekLength>>
      [] label = "last_week" -> <<Monday(today) - WeekLength, Monday(today)>>
      [] label = "last_days" -> <<today + 1 - LastDays, today + 1>>

\* An anchor at UTC leaves the zone of the request to the trend's buckets.
Window(req, now) ==
    LET z == IF req.anchor = "utc" THEN UTC ELSE req.zone
        d == Days(req.label, LocalDay(z, now))
    IN  [start |-> Midnight(z, d[1]), end |-> Midnight(z, d[2])]

Bucket(z, unit, t) ==
    LET d == LocalDay(z, t) IN  Midnight(z, IF unit = "week" THEN Monday(d) ELSE d)

-----------------------------------------------------------------------------
(* The rows, the lenses and the counts.                                    *)

EventOrg(e) == OrgOf[RepoOf[e]]

\* An empty filter filters nothing.
Passes(x, filter) == filter = {} \/ x \in filter

RowsIn(w, orgs, repos, users, roles) ==
    {x \in actor : /\ event[x[1]] >= w.start /\ event[x[1]] < w.end
                   /\ Passes(EventOrg(x[1]), orgs) /\ Passes(RepoOf[x[1]], repos)
                   /\ Passes(x[2], users) /\ Passes(x[3], roles)}

SingleOrg(rows, o) == {x \in rows : EventOrg(x[1]) = o}

\* Mutated: one row for each event.
OncePerEvent(rows) == {CHOOSE x \in rows : x[1] = e : e \in {x[1] : x \in rows}}

\* The first row of each person and event; which one makes no difference.
AllOrgsCombined(rows) ==
    {CHOOSE x \in rows : <<x[1], x[2]>> = p : p \in {<<x[1], x[2]>> : x \in rows}}

PerOrgSplit(rows) ==
    [k \in {<<x[2], EventOrg(x[1])>> : x \in rows} |->
        {x \in rows : <<x[2], EventOrg(x[1])>> = k}]

\* home_org_split counts the events of a person's bucket once each.
HomeSplit(rows) == [k \in DOMAIN PerOrgSplit(rows) |->
                       Cardinality({x[1] : x \in PerOrgSplit(rows)[k]})]

ApplyLens(rows, scope, orgs) ==
    CASE scope = "single_org" /\ orgs # <<>> -> SingleOrg(rows, orgs[1])
      [] scope = "all_orgs_combined"         -> AllOrgsCombined(rows)
      [] OTHER                               -> rows

\* What a row counts for.
GroupKey(x, group, z) ==
    CASE group = "repo"             -> RepoOf[x[1]]
      [] group = "org"              -> EventOrg(x[1])
      [] group \in {"day", "week"} -> Bucket(z, group, event[x[1]])
      [] OTHER                      -> x[2]

CountRows(rows, group, z) ==
    LET Key(x) == GroupKey(x, group, z)
    IN  [k \in {Key(x) : x \in rows} |-> Cardinality({x \in rows : Key(x) = k})]

\* The allow-lists are empty, and so no link but an issue's is returned; a metric
\* that is not about issues needs a link that is not an issue's.
ResolveTagTargets(links) == links \cap {"issue"}
TagsMismatch(links, kinds) ==
    \/ links = {}
    \/ links \subseteq {"issue"} /\ \E k \in kinds : ~IsIssueKind(k)

-----------------------------------------------------------------------------
(* A report: user_report, team_report, org_report, home_org_split_report   *)
(* and freshness_report.                                                   *)

Narrow(req) ==
    CASE req.path = "user" -> [req EXCEPT !.users = @ \cup {req.of}]
      [] req.path = "org"  -> [req EXCEPT !.orgs = <<req.of>>]
      [] OTHER             -> req

AskReport ==
    /\ reader.at = "idle"
    /\ \E r \in Requests :
          LET req == Narrow(r) IN
          IF req.group = "tag" /\ req.tags = {}
          THEN reader' = [at |-> "refused", req |-> req]
          ELSE reader' = [at |-> IF req.path = "freshness" THEN "freshness" ELSE "tags",
                          req |-> req, window |-> Window(req, clock), rows |-> {},
                          counts |-> <<>>, times |-> <<>>, owed |-> covered,
                          empty |-> FALSE, asOf |-> <<>>, headline |-> None]
    /\ UNCHANGED <<dataVars, project>>

ReadTags ==
    /\ reader.at = "tags"
    /\ \E links \in IF reader.req.tags = {} THEN {{}} ELSE SUBSET {"repo", "project", "issue"} :
          LET miss == /\ reader.req.tags # {}
                      /\ TagsMismatch(ResolveTagTargets(links), reader.req.kinds)
          IN  reader' = [reader EXCEPT !.at = IF miss THEN "freshness" ELSE "rows", !.empty = miss]
    /\ UNCHANGED <<dataVars, project>>

\* Only home_org_split forgets the kinds asked for; no grouping by team or tag.
ReadRows ==
    LET req  == reader.req
        raw  == RowsIn(reader.window, Range(req.orgs), req.repos, req.users, req.roles)
        kept == ApplyLens({x \in raw : Passes(KindOf[x[1]], req.kinds)}, req.scope, req.orgs)
    IN
    /\ reader.at = "rows"
    /\ reader' =
          CASE req.path = "home_split" ->
                 [reader EXCEPT !.at = "freshness", !.rows = raw,
                                !.times = Restrict(event, reader.owed), !.counts = HomeSplit(raw)]
            [] req.path # "home_split" /\ req.group \in {"team", "tag"} ->
                 [reader EXCEPT !.at = "refused"]
            [] OTHER ->
                 [reader EXCEPT !.at = "freshness", !.rows = kept,
                                !.times = Restrict(event, reader.owed), !.counts = CountRows(kept, req.group, req.zone)]
    /\ UNCHANGED <<dataVars, project>>

Headline(scope, orgs) ==
    LET known == {cursor[o] : o \in Range(orgs)} \ {None} IN
    CASE scope = "single_org"        -> IF orgs = <<>> THEN None ELSE cursor[orgs[1]]
      [] scope = "all_orgs_combined" -> IF known = {} THEN None ELSE Min(known)
      [] scope = "per_org_split"     -> None

ReadFreshness ==
    /\ reader.at = "freshness"
    /\ reader' = [reader EXCEPT !.at = "answered", !.asOf = cursor,
                                !.headline = Headline(reader.req.scope, reader.req.orgs)]
    /\ UNCHANGED <<dataVars, project>>

-----------------------------------------------------------------------------
(* The leaderboard: one row per subject, by value, active days and id.     *)

\* A person, an organisation or a home label; one row for each of the organisations
\* it was active in, when those are split.
Subject(b, x) ==
    LET id == CASE b.subject = "user" -> x[2]
                [] b.subject = "org"  -> EventOrg(x[1])
                [] b.subject = "home" -> HomeOf[x[2]]
    IN  IF b.scope = "per_org_split" THEN <<id, EventOrg(x[1])>> ELSE <<id>>

\* Activity of one kind, in the roles that count for it; every role counts once.
Ranked(b, w) == {x \in RowsIn(w, Range(b.orgs), {}, {}, b.roles) : KindOf[x[1]] = b.kind}

BoardRows(b, w) ==
    {[id |-> s, value |-> Cardinality({x \in Ranked(b, w) : Subject(b, x) = s}),
      days |-> Cardinality({LocalDay(UTC, event[x[1]]) : x \in {y \in Ranked(b, w) :
                                                                 Subject(b, y) = s}})]
        : s \in {Subject(b, x) : x \in Ranked(b, w)}}

Before(p, q) ==
    \/ p.value > q.value
    \/ p.value = q.value /\ p.days > q.days
    \/ p.value = q.value /\ p.days = q.days /\ Order[p.id[1]] < Order[q.id[1]]

\* Of rows alike in all three the model takes one order.
InOrder(rows) ==
    CHOOSE s \in SetToSeqs(rows) :
        \A i, j \in DOMAIN s : Before(s[i], s[j]) => i < j

Board(b, w) == InOrder(BoardRows(b, w))

\* Mutated: the cursor's row is on the next page again.
FromCursor(row, c) ==
    row.value < c.value \/ (row.value = c.value /\ Order[row.id[1]] <= Order[c.id[1]])

\* Past the cursor: (primary_value, subject_id) < (cursor's value, cursor's id).
PastCursor(row, c) ==
    row.value < c.value \/ (row.value = c.value /\ Order[row.id[1]] < Order[c.id[1]])

Page(b, w, c) ==
    LET rest == InOrder({row \in BoardRows(b, w) : c = None \/ PastCursor(row, c)}) IN
    SubSeq(rest, 1, Min({PageSize, Len(rest)}))

\* A subject and scope that make no sense together are refused.
Refuses(b) ==
    \/ b.subject = "org" /\ b.scope = "single_org"
    \/ b.scope = "single_org" /\ Len(b.orgs) # 1
    \/ b.scope # "single_org" /\ b.orgs = <<>>

AskBoard ==
    /\ reader.at = "idle"
    /\ \E b \in Boards :
          reader' = IF Refuses(b) THEN [at |-> "refused", req |-> b]
                    ELSE [at |-> "paging", req |-> b, window |-> Window(b, clock),
                          shown |-> <<>>, cursor |-> None, first |-> <<>>, same |-> TRUE]
    /\ UNCHANGED <<dataVars, project>>

\* A cursor belongs to the window of its page; the empty page has none.
NextPage ==
    LET b == reader.req
        w == Window(b, clock)
        p == Page(b, w, reader.cursor)
        f == IF reader.cursor = None THEN Board(b, w) ELSE reader.first
        same == reader.same /\ Board(b, w) = f
    IN
    /\ reader.at = "paging"
    /\ reader' =
          IF reader.cursor # None /\ w.end # reader.window.end
          THEN [reader EXCEPT !.at = "refused"]
          ELSE IF p = <<>> THEN [reader EXCEPT !.at = "answered", !.same = same]
          ELSE [reader EXCEPT !.window = w, !.shown = @ \o p, !.cursor = p[Len(p)],
                              !.first = f, !.same = same]
    /\ UNCHANGED <<dataVars, project>>

\* The rows within radius of the viewer's rank, and none when the viewer has no row.
RankIn(rows, r) == 1 + Cardinality({q \in rows : Before(q, r)})

Standing(b, w, viewer, radius) ==
    LET rows == BoardRows(b, w) IN
    {r \in rows : \E me \in rows :
        me.id[1] = viewer /\ RankIn(rows, r) - RankIn(rows, me) \in -radius..radius}

\* Organisations and home labels have no standing; the default radius is not 0.
AskStanding ==
    /\ reader.at = "idle"
    /\ \E b \in Boards, viewer \in People, radius \in Radii :
          reader' = IF Refuses(b) \/ b.subject # "user" THEN [at |-> "refused", req |-> b]
                    ELSE [at |-> "answered", req |-> b, viewer |-> viewer, radius |-> radius,
                          near |-> Standing(b, Window(b, clock), viewer, radius),
                          first |-> Board(b, Window(b, clock))]
    /\ UNCHANGED <<dataVars, project>>

-----------------------------------------------------------------------------
(* The portfolio: one statement, and the figures of the page it returns.   *)

Open == {"active", "backlog"}

\* Mutated: a backlog is never overdue.
HideActive(p, hide) == ~hide \/ p.status # "active" \/ (p.due # None /\ p.due >= clock)

\* A comparison with NULL is neither true nor false, nor is its negation.
HideKeeps(p, hide) ==
    \/ ~hide
    \/ p.status \notin Open
    \/ p.due # None /\ p.due >= clock

\* No status asked for is active and backlog.
InPortfolio(p, f) ==
    /\ Passes(p.org, f.orgs)
    /\ p.status \in IF f.statuses = {} THEN Open ELSE f.statuses
    /\ \/ f.from = None
       \/ /\ p.start = None \/ p.start < f.until
          /\ p.due = None \/ p.due >= f.from
    /\ HideKeeps(p, f.hide)
    /\ \/ f.tags = {}
       \/ ~f.all /\ p.tags \cap f.tags # {}
       \/ f.all /\ f.tags \subseteq p.tags

\* The earliest due first and the undated last; projects due together in any order.
DueFirst(s) ==
    \A i, j \in DOMAIN s :
        LET a == project[s[i]].due  b == project[s[j]].due IN
        (a # None /\ (b = None \/ a < b)) => i < j

Percent(p) == IF p.issues = 0 THEN 0 ELSE (p.closed * 100) \div p.issues

Kpis(page) ==
    LET counted == {p \in page : project[p].issues > 0}
        late(p) == project[p].status \in Open /\ project[p].due # None /\ project[p].due < clock
    IN  [total     |-> Cardinality(page),
         completed |-> Cardinality({p \in page : project[p].status = "done"}),
         overdue   |-> Cardinality({p \in page : late(p)}),
         onTrack   |-> Cardinality({p \in page : project[p].status # "done" /\ ~late(p)}),
         open      |-> MapThenSumSet(LAMBDA p : project[p].issues - project[p].closed, page),
         average   |-> IF counted = {} THEN 0
                       ELSE MapThenSumSet(LAMBDA p : Percent(project[p]), counted)
                            \div Cardinality(counted)]

AskPortfolio ==
    /\ reader.at = "idle"
    /\ \E f \in Portfolios :
          LET found == {p \in Projects : InPortfolio(project[p], f)} IN
          \E s \in SetToSeqs(found) :
             LET page == SubSeq(s, f.offset + 1, Min({f.offset + f.limit, Len(s)})) IN
             /\ DueFirst(s)
             /\ reader' = IF f.limit = 0 THEN [at |-> "refused", req |-> f]
                          ELSE [at |-> "answered", req |-> f, page |-> Range(page),
                                total |-> IF page = <<>> THEN 0 ELSE Len(s),
                                kpis |-> Kpis(Range(page)), now |-> clock]
    /\ UNCHANGED <<dataVars, project>>

-----------------------------------------------------------------------------

ReportNext ==
    \/ Tick \/ Import
    \/ AskReport \/ ReadTags \/ ReadRows \/ ReadFreshness
    \/ AskBoard \/ NextPage \/ AskStanding \/ AskPortfolio

ReportInit ==
    /\ clock = Start /\ event = [e \in Activities |-> None] /\ actor = {}
    /\ cursor = [o \in Orgs |-> None] /\ importer = [w \in Importers |-> Free]
    /\ covered = {} /\ deliveries = 0 /\ reader = Free
    /\ project \in [Projects -> ProjectRows]

ReportSpec == ReportInit /\ [][ReportNext]_reportVars

-----------------------------------------------------------------------------
(* Properties.                                                             *)

Answered(paths) == reader.at = "answered" /\ "owed" \in DOMAIN reader /\ reader.req.path \in paths

\* What a request asks for: the activity of a person in its window and filters.
Wanted(req, w, e, t, c) ==
    /\ w.start <= t /\ t < w.end
    /\ \/ req.orgs = <<>>
       \/ EventOrg(e) = req.orgs[1]
       \/ req.scope # "single_org" /\ EventOrg(e) \in Range(req.orgs)
    /\ req.repos = {} \/ RepoOf[e] \in req.repos
    /\ req.users = {} \/ c[1] \in req.users
    /\ req.roles = {} \/ c[2] \in req.roles
    /\ req.kinds = {} \/ KindOf[e] \in req.kinds

\* A report contains all activity that was complete under a put cursor when it was
\* asked for, whatever the importers write between its reads; only a mismatch of the
\* tags leaves it empty.
ReportCoversCursor ==
    Answered({"user", "team", "org", "home_split"}) =>
        reader.empty \/ \A e \in reader.owed : \A c \in Credits[e] :
            Wanted(reader.req, reader.window, e, reader.times[e], c)
                => \E x \in reader.rows : x[1] = e /\ x[2] = c[1]

LensesAgree ==
    Answered({"home_split"}) /\ ~reader.empty =>
        \A u \in People :
            MapThenSumSet(LAMBDA k : reader.counts[k],
                          {k \in DOMAIN reader.counts : k[1] = u})
              = Cardinality({x \in AllOrgsCombined(reader.rows) : x[2] = u})

TrendFitsWindow ==
    Answered({"user", "team", "org"}) /\ ~reader.empty /\ reader.req.group = "day" =>
        /\ reader.req.anchor = "viewer" =>
              \A k \in DOMAIN reader.counts : reader.window.start <= k /\ k < reader.window.end
        /\ MapThenSumSet(LAMBDA k : reader.counts[k], DOMAIN reader.counts)
              = Cardinality(reader.rows)

PagesAreTheBoard ==
    LET first == reader.first
        shown == reader.shown
    IN
    "shown" \in DOMAIN reader /\ reader.same
        /\ (\A i, j \in DOMAIN first : i # j => first[i].value # first[j].value)
    => IsPrefix(shown, first) /\ (reader.at = "answered" => Len(shown) = Len(first))

StandingIsOnTheBoard ==
    reader.at = "answered" /\ "near" \in DOMAIN reader /\ reader.req.scope # "per_org_split" =>
        LET s == reader.first IN
        reader.near = {s[j] : j \in {k \in DOMAIN s : \E i \in DOMAIN s :
                           s[i].id[1] = reader.viewer /\ k - i \in -reader.radius..reader.radius}}

\* hide_overdue hides the overdue projects, in the page and in the figures beside it,
\* and no other project that has a due date (project_portfolio.rs, $5 hide_overdue).
Dated == {p \in Projects : project[p].due # None}
HidesTheOverdue ==
    reader.at = "answered" /\ "kpis" \in DOMAIN reader /\ reader.req.hide =>
       /\ reader.kpis.overdue = 0
       /\ reader.req.offset = 0 /\ reader.total <= reader.req.limit =>
             reader.page \cap Dated = {p \in Dated :
                /\ InPortfolio(project[p], [reader.req EXCEPT !.hide = FALSE])
                /\ project[p].due >= reader.now \/ project[p].status \notin Open}

\* The figures of an answer are those of its rows.  The split of a person's activity
\* over the organisations adds up to what the combined lens counts for that person,
\* and the buckets of a trend hold every row, none outside a window of the viewer's
\* days; the pages of a leaderboard whose values differ, and which did not change
\* between them, are the board itself, no subject twice and none left out, and a
\* person's standing is the stretch of it around them; a portfolio hides the overdue.
FiguresAgree == /\ LensesAgree /\ TrendFitsWindow /\ PagesAreTheBoard
                /\ StandingIsOnTheBoard /\ HidesTheOverdue
=============================================================================
