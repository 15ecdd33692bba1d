------------------------------ MODULE Reconciler ------------------------------
(***************************************************************************)
(* The polling half of ingestion: Scheduler, Reconciler::do_tick and the   *)
(* conditional GETs of the client.  A tick walks the resources, a resource *)
(* being one (target, kind) pair; for each it loads the fetch cursor, asks *)
(* GitHub for the first page of what changed since, feeds every item to    *)
(* the handlers and stores the advanced cursor.                            *)
(*                                                                         *)
(* One process runs several schedulers on one Reconciler: the loop's own   *)
(* and the one POST /admin/refresh reaches, each with a slot of its own.   *)
(* An item is its creation rank at GitHub; a version of an item is the     *)
(* second of its updated_at.                                               *)
(***************************************************************************)
EXTENDS Integers, FiniteSets

CONSTANTS
    Schedulers,     \* Scheduler values, one tick slot each
    Issues,         \* fetch cursors of kind Issues, one per repo
    Pulls,          \* ... of kind PullRequests
    Commits,        \* ... of kind Commits
    OrgLists,       \* ... of kinds Teams and Members, one per org
    Scopes,         \* what do_tick may be asked to cover
    ItemCount,      \* bound: items created per resource at GitHub
    PageSize,       \* per_page
    Budget,         \* max_requests of the client
    MaxClock,       \* bound: seconds during which GitHub changes
    Lossy,          \* resources whose items may be lost before the store
    CallsFail       \* whether a request or a cursor statement may fail

Resources == Issues \cup Pulls \cup Commits \cup OrgLists

ASSUME ReconcilerAssumption ==
    /\ Issues \cap (Pulls \cup Commits \cup OrgLists) = {}
    /\ Pulls \cap (Commits \cup OrgLists) = {}
    /\ Commits \cap OrgLists = {}
    /\ Scopes \subseteq SUBSET Resources
    /\ ItemCount \in Nat \ {0} /\ PageSize \in Nat \ {0}
    /\ Budget \in Nat /\ MaxClock \in Nat
    /\ Lossy \subseteq Resources /\ CallsFail \in BOOLEAN

VARIABLES
    clock, remote,          \* GitHub: the second it is, version of each item
    mirror,                 \* version of each item in the store
    cursor,                 \* dp_fetch_cursors: since and etag
    requestsMade,           \* the client's counter, shared by every tick
    tpc, todo, current,     \* a tick's position, its resources still to do
    loaded, page, left      \* the cursor it loaded, the page, what remains

githubVars == <<clock, remote>>
tickVars   == <<tpc, todo, current, loaded, page, left>>
vars       == <<githubVars, mirror, cursor, requestsMade, tickVars>>

-----------------------------------------------------------------------------
Items    == 1..ItemCount
Absent   == 0
\* An ETag stands for the page it was sent with; {} is a cursor without one.
NoCursor == [since |-> 0, etag |-> {}]
Pages    == SUBSET (Items \X Nat)
Cursors  == [since : Nat, etag : SUBSET Pages]

TypeOK ==
    /\ clock \in Nat
    /\ remote \in [Resources -> [Items -> Nat]]
    /\ mirror \in [Resources -> [Items -> Nat]]
    /\ cursor \in [Resources -> Cursors]
    /\ requestsMade \in Nat
    /\ tpc \in [Schedulers -> {"idle", "next", "checking", "sending",
                               "touching", "dispatching"}]
    /\ todo \in [Schedulers -> SUBSET Resources]
    /\ current \in [Schedulers -> Resources]
    /\ loaded \in [Schedulers -> Cursors]
    /\ page \in [Schedulers -> Pages]
    /\ left \in [Schedulers -> Pages]

\* Mutated forms, here and below, are what a mistake in the code would make of
\* the definition that follows; no behaviour uses them.  Here, since= excludes
\* its own second.
ListedAfter(q, since) ==
    {i \in Items : /\ remote[q][i] # Absent
                   /\ q \in Issues \cup Commits => remote[q][i] > since}

\* What GitHub lists: what is dated since or after it, where it can filter.
Listed(q, since) ==
    {i \in Items : /\ remote[q][i] # Absent
                   /\ q \in Issues \cup Commits => remote[q][i] >= since}

NewerThan(i, q, since) == {j \in Listed(q, since) : j > i}

\* Page 1, newest first by creation; nobody asks for page 2.
FirstPage(q, since) ==
    {<<i, remote[q][i]>> :
        i \in {i \in Listed(q, since) :
                 Cardinality(NewerThan(i, q, since)) < PageSize}}

\* The item of a page that is dispatched first.
IsNewest(e, P) == e \in P /\ \A f \in P : f[1] <= e[1]

\* The dates synth::max_timestamp finds in a page: none in teams and members.
Dates(q, P) == IF q \in OrgLists THEN {} ELSE {e[2] : e \in P}

IsAdvancedSince(t, since, dates) ==
    t \in {since} \cup dates /\ \A d \in {since} \cup dates : t >= d

\* Mutated: the last writer wins, for issues too.
OverwritesAlways(q, version, old) == TRUE
\* upsert_issue_from_github takes a newer version only; record_event and the
\* upserts of teams and members take whatever comes.
Overwrites(q, version, old) == q \notin Issues \/ version > old

-----------------------------------------------------------------------------
(* Scheduler *)

\* try_trigger_now with a free slot spawns do_tick, which resets the budget
\* and lists its targets; with a busy slot it coalesces and does nothing.
TriggerTick(s) ==
    /\ tpc[s] = "idle"
    /\ \E scope \in Scopes : todo' = [todo EXCEPT ![s] = scope]
    /\ requestsMade' = 0
    /\ tpc' = [tpc EXCEPT ![s] = "next"]
    /\ UNCHANGED <<githubVars, mirror, cursor, current, loaded, page, left>>

\* finish_fetch_run.
FinishTick(s) ==
    /\ tpc[s] = "next" /\ todo[s] = {}
    /\ tpc' = [tpc EXCEPT ![s] = "idle"]
    /\ UNCHANGED <<githubVars, mirror, cursor, requestsMade, todo, current,
                   loaded, page, left>>

-----------------------------------------------------------------------------
(* reconcile_one and reconcile_org_one *)

LoadCursor(s) ==
    /\ tpc[s] = "next"
    /\ \E q \in todo[s] :
          /\ current' = [current EXCEPT ![s] = q]
          /\ todo' = [todo EXCEPT ![s] = @ \ {q}]
          /\ loaded' = [loaded EXCEPT ![s] = cursor[q]]
    /\ tpc' = [tpc EXCEPT ![s] = "checking"]
    /\ UNCHANGED <<githubVars, mirror, cursor, requestsMade, page, left>>

\* reconcile_one returns, and its locals are gone.
EndResource(s) ==
    /\ tpc' = [tpc EXCEPT ![s] = "next"]
    /\ loaded' = [loaded EXCEPT ![s] = NoCursor]
    /\ page' = [page EXCEPT ![s] = {}]

\* get_conditional reads the counter, and increments it in a second step.
CheckBudget(s) ==
    /\ tpc[s] = "checking"
    /\ IF requestsMade >= Budget
         THEN EndResource(s)
         ELSE /\ tpc' = [tpc EXCEPT ![s] = "sending"]
              /\ UNCHANGED <<loaded, page>>
    /\ UNCHANGED <<githubVars, mirror, cursor, requestsMade, todo, current,
                   left>>

\* The GET with If-None-Match: 304, 200 with a page, or an error that ends
\* this resource and leaves its cursor alone.
Send(s) ==
    LET q == current[s]
        P == FirstPage(q, loaded[s].since)
    IN  /\ tpc[s] = "sending"
        /\ requestsMade' = requestsMade + 1
        /\ \/ /\ P \in loaded[s].etag
              /\ tpc' = [tpc EXCEPT ![s] = "touching"]
              /\ UNCHANGED <<loaded, page, left>>
           \/ /\ P \notin loaded[s].etag
              /\ page' = [page EXCEPT ![s] = P]
              /\ left' = [left EXCEPT ![s] = P]
              /\ tpc' = [tpc EXCEPT ![s] = "dispatching"]
              /\ UNCHANGED loaded
           \/ /\ CallsFail
              /\ EndResource(s)
              /\ UNCHANGED left
        /\ UNCHANGED <<githubVars, mirror, cursor, todo, current>>

\* After a 304 the cursor is written back as it was loaded.
TouchCursor(s) ==
    /\ tpc[s] = "touching"
    /\ cursor' = [cursor EXCEPT ![current[s]] = loaded[s]]
    /\ EndResource(s)
    /\ UNCHANGED <<githubVars, mirror, requestsMade, todo, current, left>>

\* apply_delivery, or the guard in front of it, and the upsert it leads to.
ApplyItem(s) ==
    /\ \E e \in left[s] :
          /\ IsNewest(e, left[s])
          /\ mirror' = [mirror EXCEPT ![current[s]][e[1]] =
                IF Overwrites(current[s], e[2], @) THEN e[2] ELSE @]
          /\ left' = [left EXCEPT ![s] = @ \ {e}]
    /\ UNCHANGED <<githubVars, cursor, requestsMade, tpc, todo, current,
                   loaded, page>>

\* A dispatch error is logged and the walk goes on, or the item goes to the
\* pending-remote buffer and is lost from there; within a push delivery every
\* commit after the failing one goes with it.
LoseItem(s) ==
    /\ current[s] \in Lossy
    /\ \E e \in left[s] :
          /\ IsNewest(e, left[s])
          /\ left' = [left EXCEPT ![s] =
                        IF current[s] \in Commits THEN {} ELSE @ \ {e}]
    /\ UNCHANGED <<githubVars, mirror, cursor, requestsMade, tpc, todo,
                   current, loaded, page>>

DispatchItem(s) == tpc[s] = "dispatching" /\ (ApplyItem(s) \/ LoseItem(s))

\* Mutated: the cursor is stored before every item is.
SaveBeforeDispatch(s) ==
    /\ tpc[s] = "dispatching"
    /\ LET dates == Dates(current[s], page[s])
       IN  \E t \in {loaded[s].since} \cup dates :
              /\ IsAdvancedSince(t, loaded[s].since, dates)
              /\ cursor' = [cursor EXCEPT ![current[s]] =
                              [since |-> t, etag |-> {page[s]}]]
    /\ EndResource(s)
    /\ UNCHANGED <<githubVars, mirror, requestsMade, todo, current, left>>

SaveWithoutEtag(s) ==
    /\ tpc[s] = "dispatching" /\ left[s] = {}
    /\ LET dates == Dates(current[s], page[s])
       IN  \E t \in {loaded[s].since} \cup dates :
              /\ IsAdvancedSince(t, loaded[s].since, dates)
              /\ cursor' = [cursor EXCEPT ![current[s]] =
                              [since |-> t, etag |-> {}]]
    /\ EndResource(s)
    /\ UNCHANGED <<githubVars, mirror, requestsMade, todo, current, left>>

\* put_cursor overwrites the row with what this tick knows.
SaveCursor(s) ==
    /\ tpc[s] = "dispatching" /\ left[s] = {}
    /\ LET dates == Dates(current[s], page[s])
       IN  \E t \in {loaded[s].since} \cup dates :
              /\ IsAdvancedSince(t, loaded[s].since, dates)
              /\ cursor' = [cursor EXCEPT ![current[s]] =
                              [since |-> t, etag |-> {page[s]}]]
    /\ EndResource(s)
    /\ UNCHANGED <<githubVars, mirror, requestsMade, todo, current, left>>

\* A statement on the cursor row fails: reconcile_one returns the error, and the
\* tick goes on with its next resource.
GiveUp(s) ==
    /\ CallsFail
    /\ \/ tpc[s] \in {"checking", "touching"}
       \/ tpc[s] = "dispatching" /\ left[s] = {}
    /\ EndResource(s)
    /\ UNCHANGED <<githubVars, mirror, cursor, requestsMade, todo, current,
                   left>>

-----------------------------------------------------------------------------
(* Environment *)

\* The process restarts: every tick is gone where it stood.
Restart ==
    /\ \E s \in Schedulers : tpc[s] # "idle"
    /\ tpc' = [s \in Schedulers |-> "idle"]
    /\ todo' = [s \in Schedulers |-> {}]
    /\ page' = [s \in Schedulers |-> {}]
    /\ left' = [s \in Schedulers |-> {}]
    /\ loaded' = [s \in Schedulers |-> NoCursor]
    /\ requestsMade' = 0
    /\ UNCHANGED <<githubVars, mirror, cursor, current>>

\* Items are created in the order of their rank.  The date of a commit is the
\* committer's own and it never changes; anything else is dated by GitHub, and
\* may change again within the same second.
RemoteChange(q) ==
    /\ \E i \in Items, now \in {clock, clock + 1} :
          /\ now <= MaxClock
          /\ \A j \in Items : j < i => remote[q][j] # Absent
          /\ clock' = now
          /\ \E date \in (IF q \in Commits THEN 1..now ELSE {now}) :
                /\ q \in Commits => remote[q][i] = Absent
                /\ remote' = [remote EXCEPT ![q][i] = date]
    /\ UNCHANGED <<mirror, cursor, requestsMade, tickVars>>

-----------------------------------------------------------------------------
Init ==
    /\ clock = 1
    /\ remote = [q \in Resources |-> [i \in Items |-> Absent]]
    /\ mirror = [q \in Resources |-> [i \in Items |-> Absent]]
    /\ cursor = [q \in Resources |-> NoCursor]
    /\ requestsMade = 0
    /\ tpc = [s \in Schedulers |-> "idle"]
    /\ todo = [s \in Schedulers |-> {}]
    /\ current \in [Schedulers -> Resources]
    /\ loaded = [s \in Schedulers |-> NoCursor]
    /\ page = [s \in Schedulers |-> {}]
    /\ left = [s \in Schedulers |-> {}]

TickStep(s) ==
    \/ FinishTick(s) \/ LoadCursor(s) \/ CheckBudget(s) \/ Send(s)
    \/ TouchCursor(s) \/ DispatchItem(s) \/ SaveCursor(s) \/ GiveUp(s)

Next ==
    \/ \E s \in Schedulers : TriggerTick(s) \/ TickStep(s)
    \/ \E q \in Resources : RemoteChange(q)
    \/ Restart

Spec == Init /\ [][Next]_vars

\* The interval fires for ever and the runtime drives every tick; the process
\* is not restarted for ever, and no statement or request fails every time.
Fairness ==
    /\ \A s \in Schedulers : /\ WF_vars(TriggerTick(s))
                              /\ WF_vars(TickStep(s))
    /\ \A s \in Schedulers, q \in Resources :
          /\ SF_vars(current[s] = q /\ CheckBudget(s))
          /\ SF_vars(current[s] = q /\ Send(s) /\ tpc'[s] # "next")
          /\ SF_vars(current[s] = q /\ SaveCursor(s))
    /\ <>[][~Restart]_vars

FairSpec == Spec /\ Fairness

-----------------------------------------------------------------------------
(* Safety *)

SinceIsCovered ==
    \A q \in Issues \cup Commits, i \in Items :
        remote[q][i] # Absent /\ remote[q][i] < cursor[q].since
            => mirror[q][i] >= remote[q][i]

EtagIsCovered ==
    \A q \in Issues : \A P \in cursor[q].etag :
        \A e \in P : mirror[q][e[1]] >= e[2]

\* "Fetched everything before this point in source-time": what is older at
\* GitHub than a cursor's since is in the store in that version or a newer
\* one, and so is the page its ETag stands for, which the next 304 will skip,
\* whatever ticks overlap, are cut off or fail.  Nothing would ever ask for
\* either again.
CursorIsCovered == SinceIsCovered /\ EtagIsCovered

\* Two ticks that hold different pages of one repo do not take an issue back
\* to an older version.
IssuesNeverGoBack ==
    [][\A q \in Issues, i \in Items : mirror'[q][i] >= mirror[q][i]]_vars

-----------------------------------------------------------------------------
(* Liveness *)

CatchesUp ==
    <>[](\A q \in Resources \ (Lossy \cup Commits) : mirror[q] = remote[q])

GoesQuiet ==
    <>[](\A s \in Schedulers : tpc[s] # "dispatching")

\* Once GitHub stops changing, the store comes to hold what GitHub shows, but for
\* what was lost and for commits, which may be dated before since, and polling
\* costs a 304 per resource from then on.
SettlesDown == CatchesUp /\ GoesQuiet
=============================================================================
