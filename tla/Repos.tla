-------------------------------- MODULE Repos --------------------------------
(***************************************************************************)
(* Tracked repositories: rows made by webhook deliveries, by the           *)
(* deliveries the reconciler makes up from GitHub's lists, by an           *)
(* operator's import and by a sync that is asked for by name; what is      *)
(* recorded of their activity, and the statistics of one repository over a *)
(* window.  The handlers of dp-fetcher worker/handlers.rs, dp-rest         *)
(* repos.rs, import_repo of admin.rs, store/repos.rs.                      *)
(*                                                                         *)
(* GitHub renames and transfers repositories.  A path is matched as it is  *)
(* written; issues and who works in an organisation are kept elsewhere.    *)
(***************************************************************************)
EXTENDS ExecSummary, FiniteSetsExt

CONSTANTS
    Hubs,       \* ids of repositories at GitHub
    Owners,     \* the accounts that own them; an organisation's row has the same id here
    Names,
    Containing, \* name -> the names, and the owners' logins, it is part of
    RepoIds,    \* ids of our rows
    Things,     \* what GitHub tells of: an event in one of its actions
    About,      \* thing -> [hub, node, kind, counted, actors, hour, size, took, verdict]
    Abouts,     \* descriptions a webhook may carry
    ListLimit,  \* MAX_LIST_LIMIT
    MinSample,  \* fewer than that many are no sample
    Span, Reach,    \* the longest window, and the one nobody gave, in hours
    Asks,       \* windows that are asked for: [since, until]
    Paths,      \* where a repository may be moved: <<owner, name>>
    Now, Ahead, \* the hour of the question, and the hours its zone is ahead
    MaxMoves    \* bound: of renames and transfers

VARIABLES
    hub,        \* GitHub: id -> [owner, name]
    was,        \* history: every <<id, owner, name>> there has been
    org,        \* dp_orgs
    repo,       \* dp_repos: id -> [org, hub, name]
    snapshot,   \* dp_repo_metadata: id -> [about, stars]
    happened,   \* dp_activity_events: <<kind, node>> -> [repo, thing, full]
    credited,   \* dp_event_actors: <<<<kind, node>>, person, role>>
    tick,       \* the scheduler's: None, "all" or the repository it is for
    synced      \* rows with a cursor that has been put

rows    == <<org, repo, snapshot>>
events  == <<happened, credited>>
tracked == <<rows, events, tick, synced>>
github  == <<hub, was>>
vars    == <<catalog, summaryVars, pc, form, tracked, github>>

-----------------------------------------------------------------------------
(* GitHub *)

Taken(o, n) == \E h \in DOMAIN hub : hub[h] = [owner |-> o, name |-> n]

MoveRepo ==
    /\ Cardinality(was) < Cardinality(DOMAIN hub) + MaxMoves
    /\ \E h \in DOMAIN hub, path \in Paths :
          /\ ~Taken(path[1], path[2])
          /\ hub' = [hub EXCEPT ![h] = [owner |-> path[1], name |-> path[2]]]
          /\ was' = was \cup {<<h, path[1], path[2]>>}
    /\ UNCHANGED <<tracked, pc, form>>

-----------------------------------------------------------------------------
(* Rows *)

\* The block a webhook carries; that of a made-up delivery says no more than our own
\* row did, and the numbers it does not have are zeros.
Block(h, a)     == [owner |-> hub[h].owner, name |-> hub[h].name, hub |-> h,
                    about |-> a, stars |-> 1]
BlockOfRow(i)   == [owner |-> repo[i].org, name |-> repo[i].name, hub |-> repo[i].hub,
                    about |-> Null, stars |-> 0]

\* INSERT ... ON CONFLICT (github_id)
UpsertOrg(q) ==
    /\ \/ Is(q, "deliver", "admitted")
       \/ Is(q, "sync by name", "resolved") \/ Is(q, "import", "resolved")
    /\ org' = org \cup {form[q].block.owner}
    /\ Goto(q, IF form[q].verb = "import" THEN "probing" ELSE "owner")
    /\ UNCHANGED <<repo, snapshot, events, tick, synced>>

\* Mutated: the conflict is looked for by name.
RowsByName(b) == {i \in DOMAIN repo : repo[i].org = b.owner /\ repo[i].name = b.name}

RowsOfBlock(b) == {i \in DOMAIN repo : repo[i].org = b.owner /\ repo[i].hub = b.hub}

\* INSERT ... ON CONFLICT (org_id, github_id): a transferred repository gets a second
\* row, a renamed one keeps its own.
UpsertRepo(q) ==
    LET b == form[q].block IN
    /\ pc[q] = "owner"
    /\ \E i \in IF RowsOfBlock(b) # {} THEN RowsOfBlock(b) ELSE RepoIds \ DOMAIN repo :
          /\ repo' = With(repo, i, [org |-> b.owner, hub |-> b.hub, name |-> b.name])
          /\ Go(q, "row", [form[q] EXCEPT !.row = i])
    /\ UNCHANGED <<org, snapshot, events, tick, synced>>

\* A description that is not told is kept; the numbers are overwritten.
UpsertMetadata(q) ==
    LET i   == form[q].row
        b   == form[q].block
        old == IF i \in DOMAIN snapshot THEN snapshot[i].about ELSE Null
    IN
    /\ Is(q, "deliver", "row")
    /\ snapshot' = With(snapshot, i, [about |-> IF b.about = Null THEN old ELSE b.about,
                                      stars |-> b.stars])
    /\ Goto(q, "described")
    /\ UNCHANGED <<org, repo, events, tick, synced>>

-----------------------------------------------------------------------------
(* Deliveries *)

Pulls == {"pull_request_opened", "pull_request_merged", "pull_request_closed"}
EventKinds == Pulls \cup {"review", "review_comment", "workflow_run", "deployment", "release"}

\* Who is credited with what.
RolesOf(kind) ==
    CASE kind \in Pulls ->
           {"author", "assignee", "requester"}
           \cup (IF kind = "pull_request_merged" THEN {"merger", "committer"} ELSE {})
           \cup (IF kind = "pull_request_closed" THEN {"closer"} ELSE {})
      [] kind = "review"         -> {"reviewer"}
      [] kind = "review_comment" -> {"commenter"}
      [] OTHER                   -> {"author"}

ASSUME ReposAssumption ==
    /\ \A t \in Things : /\ About[t].kind \in EventKinds
                         /\ \A c \in About[t].actors : c[2] \in RolesOf(About[t].kind)
    /\ \A t, u \in Things : <<About[t].kind, About[t].node>> = <<About[u].kind, About[u].node>>
                               => About[t].hub = About[u].hub
    /\ Paths \subseteq Owners \X Names

Verdicts == {"success", "failure", "cancelled"}

\* Whole hours and seconds; no number of things is a sample when there are none.  The
\* verdict of a run is None without the key of a conclusion, and Null where it is null.
ASSUME StatsAssumption ==
    /\ Null \notin Verdicts \cup {None}
    /\ \A t \in Things : /\ About[t].hour \in Int /\ About[t].took \in Int
                         /\ IsFiniteSet(About[t].actors)
    /\ Ahead \in Int /\ MinSample \in Nat \ {0}

AskWebhook(q) ==
    \E t \in Things, a \in Abouts :
       /\ About[t].hub \in DOMAIN hub
       /\ Ask(q, [verb |-> "deliver", thing |-> t, full |-> TRUE, row |-> None,
                  block |-> Block(About[t].hub, a)])

\* pulls_response_to_deliveries: the list has no sizes.
AskSynthesized(q) ==
    \E t \in Things, i \in DOMAIN repo :
       /\ About[t].kind \in Pulls /\ About[t].counted /\ About[t].hub = repo[i].hub
       /\ Ask(q, [verb |-> "deliver", thing |-> t, full |-> FALSE, row |-> None,
                  block |-> BlockOfRow(i)])

IsFor(q, kinds) == form[q].verb = "deliver" /\ About[form[q].thing].kind \in kinds
Counted(q)      == About[form[q].thing].counted
StoreRepo(q)    == UpsertOrg(q) \/ UpsertRepo(q) \/ UpsertMetadata(q)

\* An action nobody counts is a success all the same.
Leave(q, at) ==
    /\ pc[q] = at /\ ~Counted(q) /\ End(q, "done")
    /\ UNCHANGED tracked

KeyOf(t) == <<About[t].kind, About[t].node>>

\* ON CONFLICT (kind, external_id): the row keeps its repository, the payload is the
\* latest.
RecordThing(q) ==
    LET t == form[q].thing
        i == IF KeyOf(t) \in DOMAIN happened THEN happened[KeyOf(t)].repo ELSE form[q].row
    IN
    /\ Is(q, "deliver", "described") /\ Counted(q)
    /\ happened' = With(happened, KeyOf(t), [repo |-> i, thing |-> t, full |-> form[q].full])
    /\ Goto(q, "recorded")
    /\ UNCHANGED <<rows, credited, tick, synced>>

CreditThing(q) ==
    LET t == form[q].thing IN
    /\ Is(q, "deliver", "recorded")
    /\ credited' = credited \cup {<<KeyOf(t), c[1], c[2]>> : c \in About[t].actors}
    /\ End(q, "done")
    /\ UNCHANGED <<rows, happened, tick, synced>>

Record(q) == RecordThing(q) \/ CreditThing(q)

\* A pull request in another action is left after its repository is stored.
HandlePullRequest(q) ==
    IsFor(q, Pulls) /\ (StoreRepo(q) \/ Leave(q, "described") \/ Record(q))

\* The others are left before anything is.
LeaveOrRecord(q) == Leave(q, "admitted") \/ (Counted(q) /\ StoreRepo(q)) \/ Record(q)

HandlePrReview(q)        == IsFor(q, {"review"}) /\ LeaveOrRecord(q)
HandlePrReviewComment(q) == IsFor(q, {"review_comment"}) /\ LeaveOrRecord(q)
HandleWorkflowRun(q)     == IsFor(q, {"workflow_run"}) /\ LeaveOrRecord(q)
HandleRelease(q)         == IsFor(q, {"release"}) /\ LeaveOrRecord(q)
HandleDeployment(q)      == IsFor(q, {"deployment"}) /\ (StoreRepo(q) \/ Record(q))

\* A statement fails: what was written stays, and the delivery comes again.
FailDelivery(q) ==
    /\ form[q].verb = "deliver" /\ End(q, "failed")
    /\ UNCHANGED tracked

-----------------------------------------------------------------------------
(* Syncs and imports *)

AskSync(q)   == \E i \in RepoIds : Ask(q, [verb |-> "sync", row |-> i])
AskByName(q) == \E v \in {"sync by name", "import"}, x \in was :
                   Ask(q, [verb |-> v, owner |-> x[2], name |-> x[3], row |-> None,
                           block |-> None, created |-> FALSE])

FindRepo(q) ==
    /\ Is(q, "sync", "admitted")
    /\ IF form[q].row \in DOMAIN repo THEN Goto(q, "answered") ELSE End(q, "missing")
    /\ UNCHANGED tracked

\* The rows of an organisation where the text is part of the name or of the login, and
\* what one page of them may be: they are in the order of their issues' activity.
Matching(o, n) == {i \in DOMAIN repo : repo[i].org = o /\ {o, repo[i].name} \cap Containing[n] # {}}
CountRepos(o, n) == Cardinality(Matching(o, n))
ListRepos(o, n) == kSubset(Min({ListLimit, CountRepos(o, n)}), Matching(o, n))

\* lookup_repo_by_slug looks at one page: a row beyond it is not seen.
LookUpSlug(q) ==
    LET f == form[q] IN
    /\ Is(q, "sync by name", "admitted")
    /\ \E page \in ListRepos(f.owner, f.name) :
          IF \E i \in page : repo[i].name = f.name
          THEN \E i \in page : repo[i].name = f.name /\ Go(q, "answered", [f EXCEPT !.row = i])
          ELSE Goto(q, "unknown")
    /\ UNCHANGED tracked

\* GitHub's answer: the repository that has this path now, none, or an error.
ResolveAtGithub(q) ==
    LET f == form[q] IN
    /\ Is(q, "sync by name", "unknown") \/ Is(q, "import", "admitted")
    /\ \/ \E h \in DOMAIN hub :
             /\ hub[h] = [owner |-> f.owner, name |-> f.name]
             /\ Go(q, "resolved", [f EXCEPT !.block = Block(h, Null)])
       \/ ~Taken(f.owner, f.name) /\ End(q, "missing")
       \/ End(q, "failed")
    /\ UNCHANGED tracked

\* import_repo: whether there is a row of this name yet.
ProbeRepo(q) ==
    LET b == form[q].block IN
    /\ Is(q, "import", "probing")
    /\ \E page \in ListRepos(b.owner, b.name) :
          Go(q, "owner", [form[q] EXCEPT !.created = ~\E i \in page : repo[i].name = b.name])
    /\ UNCHANGED tracked

AnswerByName(q) ==
    /\ \/ Is(q, "sync by name", "row") /\ Goto(q, "answered")
       \/ Is(q, "import", "row") /\ End(q, "done")
    /\ UNCHANGED tracked

\* The task that was spawned: one tick at a time, and the request that comes during
\* one is dropped.
TriggerSync(q) ==
    /\ pc[q] = "answered" /\ tick' = (IF tick = None THEN form[q].row ELSE tick)
    /\ End(q, "done")
    /\ UNCHANGED <<rows, events, synced>>

ScheduledTick ==
    /\ DOMAIN repo # {} /\ tick = None /\ tick' = "all"
    /\ UNCHANGED <<rows, events, synced, github, pc, form>>

\* What the tick was for has a cursor, unless GitHub or the store failed.
FinishTick ==
    /\ tick # None /\ tick' = None
    /\ synced' \in {synced, synced \cup (IF tick = "all" THEN DOMAIN repo ELSE {tick})}
    /\ UNCHANGED <<rows, events, github, pc, form>>

\* get_repo_sync_status
SyncStatus(i) == [last |-> i \in synced, queued |-> FALSE]

-----------------------------------------------------------------------------
(* The statistics of one repository *)

\* What nobody gave is taken from the hour of the question.
WindowAsked(a) ==
    LET until == IF a.until = None THEN Now ELSE a.until
        since == IF a.since = None THEN until - Reach ELSE a.since
    IN  IF since >= until \/ until - since > Span THEN None
        ELSE [start |-> since, end |-> until]

Thing(k) == About[happened[k].thing]

InWindow(i, w) == {k \in DOMAIN happened : /\ happened[k].repo = i
                                          /\ Thing(k).hour >= w.start /\ Thing(k).hour < w.end}
OfKind(i, w, kind) == {k \in InWindow(i, w) : k[1] = kind}

\* percentile_cont, in hundredths: the values in order, and a straight line between
\* the two that are nearest.
Nth(f, n) == CHOOSE v \in {f[k] : k \in DOMAIN f} :
                /\ Cardinality({k \in DOMAIN f : f[k] < v}) <= n
                /\ n < Cardinality({k \in DOMAIN f : f[k] <= v})
Percentile(f, p) ==
    LET n  == Cardinality(DOMAIN f)
        at == p * (n - 1)
        lo == Nth(f, at \div 100)
        hi == Nth(f, Min({at \div 100 + 1, n - 1}))
    IN  lo * 100 + (at % 100) * (hi - lo)
Triple(f) == IF Cardinality(DOMAIN f) < MinSample THEN Null
             ELSE [p50 |-> Percentile(f, 50), p90 |-> Percentile(f, 90),
                   p95 |-> Percentile(f, 95)]

\* Merged pull requests whose payload has the sizes.
PrSizes(i, w) ==
    LET sized == {k \in OfKind(i, w, "pull_request_merged") : happened[k].full}
        size  == [k \in sized |-> Thing(k).size]
    IN  [n |-> Cardinality(sized), total |-> Triple(size)]

Timed(keys) == [k \in {j \in keys : Thing(j).took > 0} |-> Thing(k).took]

\* Runs whose payload has the key of a conclusion, and those where it is null.
Concluded(i, w) == {k \in OfKind(i, w, "workflow_run") : Thing(k).verdict # None}
Undecided(i, w) == {k \in OfKind(i, w, "workflow_run") : Thing(k).verdict = Null}

\* A null is in the total, and NOT IN of it is not true.
CiStats(i, w) ==
    LET runs     == Concluded(i, w)
        count(v) == Cardinality({k \in runs : Thing(k).verdict = v})
        ended    == count("success") + count("failure")
    IN  [total     |-> Cardinality(runs), success |-> count("success"),
         failure   |-> count("failure"), cancelled |-> count("cancelled"),
         other     |-> Cardinality({k \in runs : Thing(k).verdict \notin Verdicts \cup {Null}}),
         rate      |-> IF ended = 0 THEN Null ELSE (count("success") * 100) \div ended,
         n         |-> Cardinality(DOMAIN Timed(runs)), seconds |-> Triple(Timed(runs))]

\* Hours of the epoch, which began on a Thursday; PostgreSQL's week begins on Sunday.
Sundays(t)  == (t \div 24 + 4) % 7
\* Mutated: the week is left to begin on Sunday.
CellOfSunday(t) == <<Sundays(t + Ahead), (t + Ahead) % 24>>

Cell(t)     == <<(Sundays(t + Ahead) + 6) % 7, (t + Ahead) % 24>>
Heatmap(i, w) ==
    LET cells == [k \in InWindow(i, w) |-> Cell(Thing(k).hour)]
    IN  [c \in (0..6) \X (0..23) |-> Cardinality({k \in DOMAIN cells : cells[k] = c})]

ReviewVelocity(i, w) ==
    LET merged == Timed(OfKind(i, w, "pull_request_merged"))
    IN  [n |-> Cardinality(DOMAIN merged), seconds |-> Triple(merged)]

\* Pairs of a merged pull request and an author.
Diversity(i, w) ==
    LET pairs == {c \in credited : c[3] = "author" /\ c[1] \in OfKind(i, w, "pull_request_merged")}
        by    == [u \in {c[2] : c \in pairs} |-> Cardinality({c \in pairs : c[2] = u})]
        n     == Cardinality(pairs)
        top(m) == Max({0} \cup {MapThenSumSet(LAMBDA u : by[u], s) :
                                   s \in UNION {kSubset(j, DOMAIN by) : j \in 0..m}})
    IN  [n |-> n, authors |-> Cardinality(DOMAIN by),
         top1 |-> IF n < MinSample THEN Null ELSE top(1),
         top3 |-> IF n < MinSample THEN Null ELSE top(3)]

\* The five handlers: the repository, then the window, then one statement.
Refusal(i, a) == IF i \notin DOMAIN repo THEN "missing"
                 ELSE IF WindowAsked(a) = None THEN "invalid" ELSE "none"
Refused(i, a) == [refusal |-> Refusal(i, a)]

GetRepoPrSizeStats(i, a) ==
    IF Refusal(i, a) # "none" THEN Refused(i, a) ELSE PrSizes(i, WindowAsked(a))
GetRepoCiStats(i, a) ==
    IF Refusal(i, a) # "none" THEN Refused(i, a) ELSE CiStats(i, WindowAsked(a))
GetRepoActivityHeatmap(i, a) ==
    IF Refusal(i, a) # "none" THEN Refused(i, a) ELSE Heatmap(i, WindowAsked(a))
GetRepoReviewVelocity(i, a) ==
    IF Refusal(i, a) # "none" THEN Refused(i, a) ELSE ReviewVelocity(i, WindowAsked(a))
GetRepoContributorDiversity(i, a) ==
    IF Refusal(i, a) # "none" THEN Refused(i, a) ELSE Diversity(i, WindowAsked(a))

-----------------------------------------------------------------------------
RepoAsks(q) ==
    /\ pc[q] = "idle"
    /\ AskWebhook(q) \/ AskSynthesized(q) \/ AskSync(q) \/ AskByName(q)
    /\ UNCHANGED tracked

DeliverySteps(q) ==
    \/ HandlePullRequest(q) \/ HandlePrReview(q) \/ HandlePrReviewComment(q)
    \/ HandleWorkflowRun(q) \/ HandleDeployment(q) \/ HandleRelease(q)
    \/ FailDelivery(q)

SyncSteps(q) ==
    \/ FindRepo(q) \/ LookUpSlug(q) \/ ResolveAtGithub(q) \/ ProbeRepo(q)
    \/ (form[q].verb # "deliver" /\ (UpsertOrg(q) \/ UpsertRepo(q)))
    \/ AnswerByName(q) \/ TriggerSync(q)

ReposNext ==
    \/ MoveRepo \/ ScheduledTick \/ FinishTick
    \/ \E q \in Unfinished : (RepoAsks(q) \/ DeliverySteps(q) \/ SyncSteps(q)) /\ UNCHANGED github

Next == \/ SummaryNext /\ UNCHANGED <<tracked, github>>
        \/ ReposNext /\ UNCHANGED <<catalog, summaryVars>>

-----------------------------------------------------------------------------
RowsAreTrue ==
    /\ \A i, j \in DOMAIN repo :
          i # j => <<repo[i].org, repo[i].hub>> # <<repo[j].org, repo[j].hub>>
    /\ \A i \in DOMAIN repo : <<repo[i].hub, repo[i].org, repo[i].name>> \in was
    /\ \A i \in DOMAIN repo : repo[i].org \in org
    /\ \A q \in Requests :
          form[q].verb = "sync by name" /\ form[q].row # None =>
             <<repo[form[q].row].hub, form[q].owner, form[q].name>> \in was
    /\ \A k \in DOMAIN happened : repo[happened[k].repo].hub = Thing(k).hub
    /\ \A c \in credited : c[1] \in DOMAIN happened

Ordered(t, f) == t # Null =>
    /\ 100 * Nth(f, 0) <= t.p50 /\ t.p50 <= t.p90 /\ t.p90 <= t.p95
    /\ t.p95 <= 100 * Nth(f, Cardinality(DOMAIN f) - 1)

Filled(map) == {c \in DOMAIN map : map[c] # 0}

\* The lenses of one repository and window, against each other.
LensesOfRepo(i, a) ==
    LET w      == WindowAsked(a)
        ci     == GetRepoCiStats(i, a)
        speed  == GetRepoReviewVelocity(i, a)
        people == GetRepoContributorDiversity(i, a)
        map    == GetRepoActivityHeatmap(i, a)
        merged == OfKind(i, w, "pull_request_merged")
    IN
    /\ ci.total = ci.success + ci.failure + ci.cancelled + ci.other + Cardinality(Undecided(i, w))
    /\ ci.n <= ci.total /\ ci.total <= Cardinality(OfKind(i, w, "workflow_run"))
    /\ GetRepoPrSizeStats(i, a).n <= Cardinality(merged) /\ speed.n <= Cardinality(merged)
    /\ Ordered(speed.seconds, Timed(merged))
    /\ people.top1 # Null =>
          /\ 0 < people.top1 /\ people.top1 <= people.top3 /\ people.top3 <= people.n
          /\ (people.authors <= 3) = (people.top3 = people.n)
    /\ MapThenSumSet(LAMBDA c : map[c], Filled(map)) = Cardinality(InWindow(i, w))
    /\ \A k \in InWindow(i, w) :
          Cell(Thing(k).hour)[1] = ((Thing(k).hour + Ahead) \div 24 + 3) % 7

\* The types of the rows, and what relates them.  A repository has one row per owner,
\* under a name it has had there, however webhooks, imports and syncs race and
\* whatever GitHub renames in between; a sync by name is for a repository that had
\* that name; and an event belongs to a row of its own repository.
TypeOK ==
    /\ SummaryTypeOK
    /\ was \subseteq Hubs \X Owners \X Names
    /\ \A h \in DOMAIN hub : <<h, hub[h].owner, hub[h].name>> \in was
    /\ \A i \in DOMAIN repo : repo[i] \in [org : Owners, hub : Hubs, name : Names]
    /\ \A k \in DOMAIN happened :
          /\ happened[k] \in [repo : DOMAIN repo, thing : Things, full : BOOLEAN]
          /\ k = KeyOf(happened[k].thing)
    /\ DOMAIN snapshot \subseteq DOMAIN repo /\ synced \subseteq DOMAIN repo
    /\ tick \in {None, "all"} \cup DOMAIN repo
    /\ RowsAreTrue

\* What the lenses of one repository and window say fits together, whatever deliveries,
\* imports and moves have left in the tables.
LensesAgree ==
    Unfinished = {} /\ tick = None =>
       \A i \in DOMAIN repo, a \in Asks :
          Refusal(i, a) = "none" => LensesOfRepo(i, a)

-----------------------------------------------------------------------------
\* The server starts over what earlier requests have left in the tables, empty ones
\* among them, and no request is under way.
Init ==
    /\ IsFiniteSet(DOMAIN happened) /\ IsFiniteSet(credited)
    /\ TypeOK /\ pc \in [Requests -> {"idle", "done"}] /\ form = [q \in Requests |-> NoForm]

Spec == Init /\ [][Next]_vars
=============================================================================
