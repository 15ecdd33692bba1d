# dev-pulse: specification and verification

This directory holds TLA+ models of dev-pulse, TLC configurations that check
them on small instances, and proofs, checked by TLAPS, of what must hold for
every instance. The models are read off the Rust sources under `src/`; the
repository's documents are used only to say what was promised.
`PROJECT.json` maps each definition to the lines it stands for.

- [The system](#the-system): inventory of the parts
- [The models](#the-models): modules and how they correspond to the code
- [What is checked](#what-is-checked): runs, bounds, fairness
- [What is proved](#what-is-proved): theorems and the arguments behind them
- [Where the code departs from its comments](#where-the-code-departs-from-its-comments)
- [Not modelled](#not-modelled)
- [Plan](#plan)

## The system

dev-pulse mirrors GitHub activity into Postgres, lets people edit issues,
projects and production records through a REST API, and reports on the whole.
One process (`dev-pulse`) composes the crates; there is one database and no
broker, so components interact by calls within the process and by rows.

| part | state it keeps | operations | modules |
|---|---|---|---|
| optimistic issue writes (`dp-rest/issues*.rs`, `store/issues.rs`) | `dp_issues.version / pending_remote*`, `dp_issue_mutations`, audit rows | PATCH, comment, refresh; acquire, commit, rollback, sweep | `IssueWrite`, `EditTurns` |
| pending-remote guard (`reconciler/guard.rs`) | `dp_pending_remote_webhook_buffer` | apply or defer a delivery, replay | `IssueWrite` |
| webhook receiver (`dp-fetcher/webhook`) | `dp_webhook_inbox` rows | verify signature, enqueue by `delivery_id`, answer 200 | `WebhookInbox` |
| webhook worker (`dp-fetcher/worker`) | `processed_at`, `error` of inbox rows; events and their actors | claim a batch, dispatch per event kind, mark | `WebhookInbox`, `Repos`, `Accounts` |
| reconciler and schedulers (`reconciler/mod.rs`) | `dp_fetch_cursors` (since, ETag), tick slot per scheduler | tick over repos and orgs; conditional GET, dispatch, advance the cursor | `Reconciler` |
| GitHub client (`client/`) | request counter, rate-limit snapshot, credential choice | conditional GETs, PATCH, comments, milestones, boards | `Reconciler`, `Milestones`, `Boards` |
| backfill (`backfill/`, `backfill-issues`) | the same fetch cursors | widen the window in chunks; page through all issues | `Backfill` |
| projects, views and milestones | `dp_projects` with counts, members, tabs and their order, links to repos, mirrored milestones | create, patch, archive, add, remove, reorder, place; lists and badges | `Projects`, `Milestones`, `Pages` |
| issue dates and board links | `dp_issue_dates`, `dp_project_board_links`, items | PATCH dates, link a board, mirror tasks | `Boards` |
| project executive summaries | the summary, its change log, attachments | patch, submit past a gate, approve, revert, restore | `ExecSummary` |
| manufacturing | runs with counters, units, EOL reports, sign-off summary | allocate serials, record a test, adjust counters, sign off | `Manufacturing` |
| products, releases, RMA, parties, manuals | rows with a version and a key; revisions; documents and blobs | create, patch, archive, link, publish, upload | `Catalog` |
| repositories | `dp_repos`, `dp_repo_metadata`, events, credits | webhooks, sync, import; statistics of one repo | `Repos` |
| users, roles, home orgs | `dp_users`, `dp_memberships` | mint, role, profile, anonymise, export | `Accounts` |
| pins, tags, settings | ordered pins with a cap, tags and links, key-values | add, remove, reorder | `Personal` |
| inbox and issue lists | `dp_user_issue_state`, local issues | seen, snooze, done; queue, lists, timeline; local create and edit | `Inbox` |
| reports | nothing of their own | lenses, trend, leaderboard, standing, portfolio | `Reports` |
| server and sign-in, composition root, MCP stub, domain types, frontend | session and configuration | wiring | role middleware in `Accounts`; what is started decides the constants |

What makes each part hard, and what makes it correct:

- **Issue writes.** Every statement is its own transaction, so a handler can be
  interrupted between any two, by a crash, a dropped connection or the timeout
  sweeper. Correct means: at most one mutation talks to GitHub at a time, an
  edit never lands on fields its author did not see, a rolled-back mutation
  leaves no reader with a valid version, every verdict is final and audited,
  and only a handler that dies leaves the issue claimed.
- **Guard, buffer and worker.** Deliveries come late, twice and in any order,
  while a mutation is in flight; the check and the act are different
  statements. Correct means: the mirror row never goes back, and no delivery is
  lost or stuck.
- **Inbox of webhooks.** The receiver acknowledges before the work is done.
  Correct means: a processed row has had its full effect, and what is done in part
  is still in the queue.
- **Reconciler and backfill.** Ticks of two schedulers and the chunks of a backfill
  overlap, fail in the middle and are killed; the cursor is a promise that
  everything before it is in the store. Correct means: neither `since` nor the
  ETag ever skips what was not stored, a page walk misses nothing though the list
  moves, and the store catches up.
- **Manufacturing.** Counters of a run are adjusted beside the rows they
  summarise, in transactions that wait for each other's row locks. Correct means:
  the counters always add up and follow each unit's latest test, an allocation
  takes fresh numbers or leaves no trace, no edit is lost, and no two transactions
  wait for each other.
- **Projects and boards.** A project's counts are stored beside the membership rows,
  places on a tab are read before they are taken, milestones and board cards live at
  GitHub and here. Correct means: counts match the rows, a version covers everything
  the page showed, and what we show of GitHub is what GitHub has unless a failure
  was reported.
- **Catalogue and summaries.** A form is open for minutes; publishing a revision
  supersedes another in the same transaction; a gate is read before the transition it
  guards. Correct means: an accepted edit had seen the row it replaces, one revision
  stays published, and only the race may let an incomplete summary through.
- **Repositories.** Four writers (webhook, reconciler, import, sync) mint the same rows
  from what they heard of GitHub at different times. Correct means: one row per
  repository and owner, under a name it has really had.
- **People and inboxes.** Webhooks upsert people whom operators edit and anonymise;
  lists are read page by page while their rows move. Correct means: nobody's decision
  is undone by a delivery, no name comes back on a deleted row, no page walk misses
  what stays.
- **Reports.** A report is three reads of growing tables. Correct means: it holds what
  its freshness vouches for, and its lenses agree.

The hazards of this kind are listed, each at its line, under `hazards` in
`PROJECT.json`.

## The models

Throughout, a step is what the database makes atomic: one statement where the code
runs in autocommit, one stretch between locks and commit where it opens a
transaction. Requests keep a place (`pc`) and what they have read (`form`), which is
where the code holds a value across an `await`. A request is made once, so a model
with n requests holds every interleaving of n requests.

### IssueWrite

The life of one issue row. One step is one SQL statement or one GitHub call,
because the code runs each statement in autocommit.

| model | code |
|---|---|
| `version`, `pending`, `pendingAge`, `pendingActor` | `dp_issues.version`, `pending_remote`, `pending_remote_at`, `pending_remote_actor` (migration 0007) |
| `content`, `updatedAt` | the mirrored fields, as the number of the GitHub revision they came from, and that revision's `updated_at` |
| `ledger`, `result`, `mutationAge` | `dp_issue_mutations` |
| `buffer`, `batch` | `dp_pending_remote_webhook_buffer`; the deliveries a replay has taken out of it |
| `inbox`, `processed`, `wpc`, `wtask` | deliveries about this issue and the worker's place in `drain_once` |
| `ghLog` | GitHub: `updated_at` of each revision of the issue |
| `pc`, `expected`, `answer`, `payload` | a REST handler between two awaits: form version, GitHub outcome, response body |
| `spc`, `swept`, `cutoff`, `stuck` | `sweep_pending_remote_timeouts`: the listed issue, its cutoff, the ledger row it matched |
| `audited`, `timeoutAudits` | `dp_audit_log` |
| `seen`, `seenSlot`, `rolledBack` | history variables, read by properties only |

A PATCH is `OpenForm`, `Acquire` or `AcquireStale`, `RecordMutation`,
`GitHubAccepts` or `GitHubFails`, `Release`, `Resolve`, `AuditVerb`,
`StartReplay`, `Replay`*, `FinishReplay`, `UpsertResponse`; a comment refetches
the issue (`Refetch`) instead of projecting the response. `GitHubFails` includes
the lost response: GitHub may have applied the edit all the same. `Abandon` is
the handler dying anywhere in between; nothing cleans up after it, as in the
code. The worker is `WorkerClaim`, `CheckGuard`, then `BufferDelivery` or
`ApplyDelivery`, then `MarkProcessed`, and `WorkerAborts` anywhere. A sweep is
`SweepListIssues`, `SweepMatch`, `SweepRelease`, `SweepResolve`, `SweepAudit`,
`SweepStartReplay`, `SweepReplay`*, `SweepFinish`. Ages saturate one tick past
the larger of the two windows, since no statement tells greater ages apart.

The payload of a delivery or response is the revision it carries: whether a
field is a title or an assignee list makes no difference to any guard.

### EditTurns

The abstract specification of the compare-and-swap: edits take turns, an edit
calls GitHub only during its turn, at most once, and never takes a second turn.
`IssueWrite` implements it under the mapping `turn <- pendingActor`,
`started <- {r : r is past its CAS}`, `wrote <- {r : GitHub has answered r}`,
as long as no sweeper runs (a sweeper may end the turn of a live handler, which
the repository accepts).

### Reconciler and Backfill

`Reconciler` is the polling path: `Scheduler::try_trigger_now`,
`Reconciler::do_tick`, `reconcile_one`, `reconcile_org_one`, and the client's
conditional GET. A resource is a (target, kind) pair with one cursor row. An item is
its creation rank and its version the second of its `updated_at`; a page is a set of
(item, version) pairs, and an ETag stands for the page it was sent with.

| model | code |
|---|---|
| `cursor` | `dp_fetch_cursors.since`, `.etag` |
| `mirror`, `remote` | versions in the store, versions at GitHub |
| `requestsMade` | the client's shared request counter |
| `tpc`, `todo`, `current`, `loaded`, `page`, `left` | a tick: its position, targets to do, the cursor it loaded, the page, the items not dispatched |
| `chunk`, `pager` | `Backfill::run_for_org` between two chunks and within one; the page loop of `run_backfill_issues` |

What differs per kind is modelled per kind: GitHub filters issues and commits by
`since` and cannot filter pulls, teams and members (`Listed`); only issues are
guarded against older versions by the store (`Overwrites`); teams and members
carry no dates (`Dates`); commits are dated by their author, once
(`RemoteChange`). `LoadCursor` lets a tick visit its resources in any order,
which includes the fixed order of the code. Every response is assumed to carry
an ETag. `LoseItem` is a dispatch error or an item that ends in the
pending-remote buffer, both of which the walk passes over; `Restart` drops every
tick. `Lossy` names the resources to which that can happen, so that a run can
show what a loss does not harm.

`Backfill` extends `Reconciler` by the two importers: chunks that read and write the
very cursor rows of the ticks (`LoadChunk` to `SaveChunk`, and `FailChunk`), with a
lower bound at the window's start (`EffectiveSince`), and `backfill-issues`, which
asks page after page (`AskPage`) of a list whose items move to its front when they
change, and stores or skips each item. A page here is capped by `PageSize`, as the
code reads only the first page of a conditional GET.

### WebhookInbox

The pushing path: `receive`, `claim_webhooks`, `drain_once`, the handlers'
two inserts per event (`record_event`, `add_event_actors`), and the marks. A
delivery is its `delivery_id` and the sequence of events it carries; deliveries
in `Poison` have a last event the handler cannot parse. Issue deliveries take
the path of `IssueWrite` inside the handler and appear here as deliveries
without events.

### Manufacturing

Production runs, their units, test reports, counters and the counts of the
sign-off summary (`store/manufacturing.rs`). The code uses transactions here, so
a step is not a statement but a stretch between lock and commit: what a
transaction has written is invisible until it commits, and nothing but the row
locks it holds tells the others it is there. `UnitLocked` and `RunLocked` are
those locks; an aborted transaction (`Abort`) just lets go of them.

| model | code |
|---|---|
| `run` | `dp_manufacturing_runs`: `run_code`, `version`, `next_serial_seq`, the three counters |
| `unit` | `dp_product_units`, by serial number |
| `report` | `dp_eol_test_reports` of a unit, in the order of insertion, each with its `tested_at` |
| `summary`, `counts` | the counts of `dp_run_eol_summary`; what a signer has read of them |
| `clock` | `now()`, which Postgres fixes when a transaction begins: transactions are numbered as they begin, two in one microsecond are not modelled |
| `test` | a tester's unit, `tested_at`, result and the outcome it found |
| `row`, `version` | the row a request is about, the version its form was loaded with |
| `known` | history variable: the edits its author had seen |

A report is `ReadUnit`, `LockUnit`, `CommitReport` or `RejectReport` (a CHECK on the
counters fails); an allocation is `LockRun`, `CommitUnits`, of which a serial that
exists undoes everything; an edit of a run or unit is `OpenRun`, `PatchRun` or
`OpenUnit`, `PatchUnit`; a sign-off is `ReadCounters`, `UpsertSummary`. Fields that
decide nothing (dates, notes, the signature) are left out.

### Projects, Milestones, Boards, Pages

Four modules, each extending the one before.

| module | state | code |
|---|---|---|
| `Projects` | `project` (name, status, version, counts), `member` (issue to project, which is the UNIQUE constraint), `tab` and `placed` (views and what stands on them), `issue` | `projects.rs`, `project_issues.rs`, `project_views.rs` and the attach step of `issues_write.rs`, over `store/projects.rs` |
| `Milestones` | `link` (repos), `primary`, `mirror` and `remote` contents of milestones, `uncertain` (history) | `project_repos.rs`, `project_milestones.rs`, `store/milestones.rs` |
| `Boards` | `boardLink`, `field`, `dates`, `nodeId`, `item`, `card` (GitHub's), `edit` and `task`, `doubtful` (history) | `board_links.rs`, `issue_dates.rs` and their stores |
| `Pages` | none: operators only | what a list, a filter, a grouping, a tab's badge or a picker returns |

Membership transactions are `LockProject`, `LookUp`, `InsertMember`, then
`CommitAdd`; the stored counts change in the same commit, by recounting the members
(`Recount`). `UpdateProject` is the CAS of a PATCH, whose body is overlaid on a row
read earlier (`ReadProject`, `Overlay`). A tab's place is read (`ReadPlace`) before it
is inserted (`InsertView`). A milestone is written to GitHub first and stored from its
response. A PATCH of dates stores, answers, and spawns a task per linked board
(`SpawnMirror`), which resolves the node, adds the card, sets each field
(`PushLane`) and records the outcome (`RecordResult`), each of which may fail.
`CountsAddUp` compares the stored counts with the members; `Pages` computes every list
from these rows, and `PagesAgree` compares the computed counts (badges, buckets, tiles)
with the lists.

### Accounts, Personal, Inbox

| module | state | code |
|---|---|---|
| `Accounts` | `user` (who gave the name, role, deleted), `home`, `stamp` (events of one person) | `admin.rs`, `directory.rs`, the role middleware of `dp-server`, handlers that upsert people, `store/users.rs`, `orgs.rs`, `events.rs` |
| `Personal` | `pin`, `tag`, `link`, `setting` | `pins.rs`, `tags.rs`, `settings.rs` and their stores |
| `Inbox` | `issue`, `counter` (local numbers), `inbox` (markers, snoozes), `log`, `project`, `now` | `inbox.rs`, `issues_read.rs`, the local half of `issues_write.rs`, `store/issues.rs` |

A request is asked (`AskOperator`, `AskPin`, `AskRead` ...), checked, and takes its
statements; the worker's deliveries (`DeliverMember`, `DeliverEvent`) and the changes
that arrive (`ChangeIssue`, `LogEvent`) run beside it. `LogEvent` is the upsert over
`(kind, external_id)`: an issue that is closed again has its event given the new time,
and `moves` counts how often. Reads that go page by page keep what they have shown and
what they owe (`owed`): the rows that were there at the start, minus those that have
moved since.

### Catalog, ExecSummary, Repos

| module | state | code |
|---|---|---|
| `Catalog` | `record` (six tables of rows with version and key), `link`, `manual`, `revision`, `paper`, `blob` | `parties.rs`, `products.rs`, `product_releases.rs`, `rma.rs`, `product_manuals.rs` and their stores |
| `ExecSummary` | `summary`, `log` with snapshots | `project_exec_summary.rs` of `dp-rest`, `dp-store-pg` and `dp-domain` |
| `Repos` | `hub` (GitHub), `org`, `repo`, `snapshot`, `happened`, `credited`, `tick`, `synced`; `was` (history: every name there has been) | `worker/handlers.rs`, `synth.rs`, `repos.rs`, `import_repo`, `store/repos.rs` |

An edit of any of the six tables is one shape: the form is opened on a row (`seen`), the
CAS compares its version, the unique key may clash (`Insert`, `Update`). Publishing is
a transaction of `Supersede`, `LookAgain`, `PublishTarget`, `CommitPublish`, with the
locks of a unique index. A submission reads the completion (`ReadCompletion`) before its
transition. A delivery upserts org, repo, metadata and event one statement after the
other; a path that is synced or imported is looked up here, resolved at GitHub, and
answered, while GitHub renames and transfers (`MoveRepo`). The lenses over one
repository (sizes of pull requests, CI, heat map, review velocity, diversity) are
operators on `happened` and `credited`.

### Reports

An importer records an event, its actors, then puts the cursor of its organisation; a
report request reads tags, rows and freshness in three steps (`ReadTags`, `ReadRows`,
`ReadFreshness`); a leaderboard is read page by page from a cursor, a standing and a
portfolio at once. The rest is operators: windows of local days, buckets, the four
lenses, counts and groupings, the narrowing by tags, the board's order and its cursor,
the portfolio's filters and figures.

## What is checked

Each `MC` module extends the last module of its chain with the model-checking
constants, the bounds on which requests meet, and claims of the repository's comments.
Each passing run terminates with the state space exhausted. `CHECK_DEADLOCK` is off
throughout: with a bounded number of requests, deliveries and changes the
system comes to rest.

| run | instance | shows |
|---|---|---|
| `IssueWrite_turns` | 2 PATCHes, 1 worker, 1 delivery, 2 edits at GitHub, which may share a second | the write path implements `EditTurns` (`EditsTakeTurns`); a form whose version matches shows the row's fields (`CasProtectsReader`), one loaded before a rollback does not match (`RollbackInvalidatesReaders`); every verdict is audited unless its handler was cut short (`AuditedUnlessInterrupted`); `version` betrays every change (`VersionTellsChange`), the row never goes back (`FieldsNeverRegress`) |
| `IssueWrite_sweep` | 2 comments beside a sweeper, or 1 with 1 worker and 1 delivery | handler and sweeper never overwrite each other's verdict (`VerdictIsFinal`); only a handler's death leaves the flag raised with nobody about to lower it (`OnlyDeathStrands`); the sweeper, however late it acts on what it has listed, gives up only what is overdue (`TimeoutsAreDue`) |
| `Reconciler_pair` | 2 schedulers, one repo's issues, 2 items, page of 2, budget of 2, 2 seconds, calls that fail | a cursor never vouches for what is not stored (`CursorIsCovered`: `since` and ETag); `IssuesNeverGoBack`; once GitHub is still, the store catches up and polling costs 304s only (`SettlesDown`) |
| `Backfill_window` | 1 scheduler, 5 resources of all kinds met one at a time, 2 items, pages of 2, 3 seconds, a window from second 2, items that may be lost | nothing of the window is left behind a cursor (`WindowIsCovered`); a page walk meets every issue that stays (`PagingIsComplete`) |
| `WebhookInbox_drain` | 2 workers, 3 deliveries of which 2 share an event and 1 is poisonous, batches of 2, 4 sends, 2 faults | a processed delivery has all its events stored and credited (`ProcessedIsApplied`); an event that lacks its people belongs to a delivery that is still in the queue (`UncreditedIsOwed`) |
| `Manufacturing_line` | either 1 run, an allocation, 3 reports, an edit and a sign-off, or 2 runs whose serials collide, 2 allocations and 2 edits | `CountersHold`, `EditsAreSerial`, `NoStandstill`, types |
| `Projects_board` | 2 requests of any kind on 2 projects and a third to be created, 4 issues of which 1 may be closed, 4 views, 2 milestones; or 2 PATCHes of dates, 2 links and 3 boards | stored and computed counts agree (`CountsAddUp`, `PagesAgree`); a version covers what its page shows (`VersionCoversProject`); a new tab is refused only for its name, or because another was created since its place was read (`RefusedOnlyByRival`); `MirrorFollows`, `BoardsShowDates`; types |
| `Personal_admin` | either 2 requests on accounts beside 2 deliveries, or 2 on pins, tags, settings and homes, or a reader beside somebody who sorts and edits, or 2 local editors; 3 events, 3 issues, 2 entries of a timeline, pages of 1 and 2 | `DeskTypeOK`, `DeletedAreNameless`, `WalksAreComplete`, `ChoicesAreKept` |
| `Catalog_rows` | either 2 catalogue requests, or 3 on a summary, or 2 deliveries, syncs and imports beside a move at GitHub of the first of 2 repositories; 3 rows, 3 keys, 3 revisions; 9 events, among them a run without a conclusion | rows are typed and true (`TypeOK`), the lenses of a repository fit together (`LensesAgree`), `AcceptedSawTheRow`, `PublishedUntilReplaced`, `GateHolds` |
| `Reports_lenses` | either 1 importer and 3 deliveries beside one report or leaderboard, or a portfolio of 2 projects; 3 people, 2 organisations, 3 repos, days of 2 ticks, pages of 1 | `ReportCoversCursor`, `FiguresAgree`, types |
| `IssueWrite_stranded`, `Catalog_restore` | smallest instance; that of `Catalog_rows` | fail: see [below](#where-the-code-departs-from-its-comments) |

Several runs have families of behaviours: a bound on the steps (`Either`, `Apart`,
`Sweeping`, `Steps`, `OneResource`) or on the initial states (`Chosen`, `Families`) lets
a behaviour be about one group of requests or another, since requests that share no row
do not affect each other and their product would only multiply the states.

**Bounds.** `MaxRevision` bounds edits made on github.com (a request always
makes its own revision), `MaxDeliveries` and `MaxWebhooks` the deliveries, `MaxClock`
and `MaxTime` the seconds during which things change, `MaxChanges` and `MaxMoves` the
changes at GitHub, `ItemCount` the items, `MaxSends` and `MaxFaults` the webhook
requests and faults, `MaxCount` the units of one allocation (a limit of the code, with a
smaller value here). They bound the environment only; no statement of the program
carries one. `PinCap`, `BatchCap`, `PageSize`, `ListSize`, `Limit`, `ListLimit`,
`Threshold`, `Budget` are limits of the code, small here so that they are reached.

Two requests suffice for turn-taking and for a row replaced under an open form, a
delivery and the responses of two requests for reordering, a `Timeout` of 0 and a
`FallbackWindow` of 1 for all four positions of an age against the two windows (the
code's are both 60 s by default, but the first is configurable and the second is not).
`IssueWrite_turns` has no sweeper, so nothing reads a mutation's age, and states that
differ in nothing else count as one (`Unswept`).
Two items on a page of two let one tick hold a stale page while another stores a newer
one. Three deliveries in batches of two leave one behind each claim, and a shared event
makes a redelivery meet its own past. Three reports on a unit are what it takes for a
counter to be pushed below zero, two on a run for a unit to be counted twice. Three
revisions let two publications supersede the same one. Pages of one or two rows let
every row be the one that moves across a page boundary. For most of the safety
properties the theorems below remove the bounds.

**Fairness.** Two properties speak of what must come. `SettlesDown` assumes that the
reconciler's loop, which `main.rs` spawns, goes on: each scheduler comes to its next tick and
each tick to its next statement (weak fairness, since the runtime polls every future it
holds); that a statement tried in tick after tick does not fail every time (strong fairness
of the budget, the call and the cursor); and that the process is not restarted for ever.
The refuted `BufferedIsReplayed` assumes of requests and tasks that each goes on. Nothing
is assumed of the webhook worker or the sweeper: no part of the server spawns a `Worker`
or calls the sweep (`main.rs:922-990`), so that a delivery is handled or a stranded issue
released is not claimed. What is claimed of them is safety, for any number of them that
may run or stop at any step: nothing is forgotten (`UncreditedIsOwed`), nobody but the
dead leaves an issue behind (`OnlyDeathStrands`), and nothing is swept early
(`TimeoutsAreDue`). The other runs check safety only and assume no fairness.

## What is proved

For every value of the constants that satisfies the named assumptions of the modules:

| module | theorem | property |
|---|---|---|
| `IssueWriteProofs` | `TypeCorrect` | `TypeOK` |
| | `ChangeIsVersioned`, `ReaderIsProtected`, `RollbackIsNoticed` | `VersionTellsChange`, `CasProtectsReader`, `RollbackInvalidatesReaders` |
| | `MirrorNeverRegresses` | `FieldsNeverRegress` |
| | `SlotsAreLeftByTheDead`, `OnlyTheOverdueTimeOut` | `OnlyDeathStrands`, `TimeoutsAreDue` |
| | `VerdictsAreAudited`, `VerdictsAreFinal` | `AuditedUnlessInterrupted`, `VerdictIsFinal` |
| | `TurnsAreExclusive`, `WritePathImplementsTurns` | `OneTurnAtATime`, `EditsTakeTurns`, both for `Sweepers = {}` |
| `BackfillProofs` | `ReconcilerTypes`, `IssuesOnlyAdvance` | `TypeOK`, `IssuesNeverGoBack` of `Reconciler` |
| | `CursorsVouch` | `CursorIsCovered`, for `NothingIsMissed` |
| | `WindowStaysCovered` | `WindowIsCovered`, for `ItemCount <= PageSize` |
| | `PagingMissesNothing` | `PagingIsComplete` |
| `ActivityProofs` | `InboxTypes`, `NothingIsSkipped` | `TypeOK`, `ProcessedIsApplied` |
| | `NobodyIsForgotten` | `UncreditedIsOwed` |
| | `ReportTypes`, `ReportsCover` | `ReportTypeOK`, `ReportCoversCursor` |
| | `FiguresAreOfTheRows` | `FiguresAgree`; its parts are `FiguresAdd` and `OverdueAreHidden` |
| `ManufacturingProofs` | `RowsAreTyped`, `CountersSummarise`, `EditsAreSerialised` | `TypeOK`, `CountersHold`, `EditsAreSerial` |
| `BoardProofs` | `BoardsAreTyped` | `BoardsTypeOK`, which holds the types of `Projects` and `Milestones` |
| | `CountsHold`, `VersionCovers` | `CountsAddUp`, `VersionCoversProject` |
| | `OnlyARivalRefuses` | `RefusedOnlyByRival` |
| | `MirrorHolds`, `DatesAreShown` | `MirrorFollows`, `BoardsShowDates` |
| | `PagesAlwaysAgree` | `PagesAgree` |
| | `RowsHold`, `MilestonesHold`, `LinksHold`, `DatesHold` | the inductive invariants of the four modules |
| `CatalogProofs` | `ReposAreTrue` | `TypeOK` of `Repos`, which holds those of `Catalog` and `ExecSummary` |
| | `EditsSeeTheirRow`, `OneIsPublished` | `AcceptedSawTheRow`, `PublishedUntilReplaced` |
| | `TheGateHolds` | `GateHolds`, for `Threshold \in 76..100` |
| | `LensesAlwaysAgree` | `LensesAgree`, null conclusions counted apart |
| `PersonalProofs` | `DeskIsSound`, `DeletedStayNameless`, `DecisionsStand` | `DeskTypeOK`, `DeletedAreNameless`, `ChoicesAreKept` |
| | `WalksMissNothing` | `WalksAreComplete`, exports and timelines as far as no event is given another time meanwhile |
| `FiniteLemmas` | lemmas | ranks in a finite strict order, lists of a finite set in a strict or weak order, sums over finite sets; the manufacturing, paging, board, inbox, report and catalogue proofs share them |

**The write path.** `TypeOK` is not inductive alone: an upsert copies the
revision some delivery or response names, so the types hold only if every such
number names a revision GitHub has made. `TypeInv` adds that (`LogRefs`,
`DeliveryRefs`, `PayloadRefs`) and that the flag is raised exactly when it has
an actor (`ActorRefs`). Each further property has its own strengthening:

- `ReaderInv` says of every open form that its version is at most the row's,
  that a match means the same fields and the same holder, and that a holder that
  was rolled back means a mismatch. It is preserved because every step that
  changes a field or rolls back raises `version` (`StepEffects`, the lemma that
  classifies what a step may do to the row).
- `LogInv` says that GitHub's log is non-decreasing in `updated_at` and that the
  row's `updatedAt` is that of its `content`. From it, a strictly newer
  `updated_at` means a later revision, hence the row never goes back.
- `RequestInv` ties the handler's position to its ledger row; the audit and
  finality theorems follow.
- That a raised flag has somebody about to lower it (`OnlyDeathStrands`) is inductive with
  the types: who is named on the row is the one that raised it last, whoever has released it
  before. `DueInv` says of a sweeper that what it has listed and is still pending is overdue,
  and ages only grow.
- `WritePathImplementsTurns` shows that initial states map to initial states and
  every step to a step of `EditTurns` or a stutter, from `OneTurnAtATime`.

**The polling path.** `SinceIsCovered` alone is not inductive, as a tick may hold
an old page or an old cursor for as long as it likes. `CoverInv` says that
`Vouches` holds of the cursor row *and* of the cursor each tick has loaded, and
that a tick in mid-page still has in `left` whatever it has not stored
(`Walking`). A late `put_cursor` then writes a cursor that vouches for less, never
for too much; that is why overlapping ticks are harmless. The assumption
`NothingIsMissed` (no issue lost between page and store, a page that holds all,
no author-dated kind) is needed: without each of the three parts TLC finds a
counterexample.

**Backfill.** `WindowInv` says the same of three holders of a cursor, the row
(`RowsCover`), a tick (`TicksCover`) and a chunk (`ChunkCovers`), restricted to what is
dated from the window's start on: a chunk asks from there, so what is older may be
skipped, which is why the `Vouches` of the reconciler does not survive a backfill.
What must not happen is that the ETag of a page asked for with one bound answers for the
other; `Stored` says that every page an ETag stands for is in the store, whoever put it
there. Lossy issues are left out of both; the page cap is an assumption because a list
longer than a page is cut and never asked for again. `PagingInv` follows every issue
that was there at the start (`due`) and has not changed: it is stored, or on the page in
hand, or at a rank the page numbers have not passed (`InSight`). The list is newest
first, so a change moves another issue to the front, and the rank of one that stays can
only grow; and behind a short page there is no rank left, by `FiniteLemmas`.

**The inbox of webhooks.** A mark says that all of a delivery is done, but the worker
that sets it knows only that it has nothing left. `Position` says, for each worker,
that the events of its delivery are credited or still in `wleft`, and that an
event that cannot be parsed is still there, so that the worker cannot reach the
mark. Events and credits only grow, hence no worker disturbs another's position
(`OthersStay`), and that is all the workers need: the proof never uses that a row
is claimed once, which it is not. `SourceInv` adds that whatever is recorded is carried by
a row of the table; a row that is not marked is in the queue, and one that is has
credited all it carries.

**Manufacturing.** Three invariants. `TypeInv` adds to the types that what an open
transaction is about is there (`RowsAreThere`). `CountersInv` adds the lock
(`LocksHold`: a tester in its transaction is alone with its unit, so the outcome it
found is still the unit's when it commits), the numbers (`NumbersHold`: the units of a
run carry exactly 1 to `next - 1`, each once, hence `built` counts them), the buckets
(`BucketsHold`: passed plus failed is the number of tested units) and
`CountersMatchLatest`, whose proof compares the latest report before and after an
insertion: one that is dated after all others becomes the latest. `EditsInv` speaks of
versions: a form shows a version its row has had, no two edits that went through had the
same, and who loaded a later one had seen the edits that went into it.

**Projects, milestones, boards.** The theorems are about `BoardSpec`: it starts in any
well-formed rows (`InitRows`, `InitMilestones`, `InitBoards`; not the few of the run) and
takes the steps of all modules with no bound on which requests meet. Four invariants, each
over the one before, and each checked by TLC on the instance of the run before it was
proved:

- `RowsInv` says what each request carries at each place: a page that was read shows a
  version the project has had, and with the present version the present content
  (`PageFits`, `SawPage`); a transaction that holds a project's lock is alone with it
  (`LockFits`, `Exclusive`), so the members it recounts are those its commit leaves; the
  place of a new tab was free of later ones when it was read (`ViewFits`, `Beyond`), so
  that whoever stands there now was created since. `CountsAddUp` is inductive only with
  the locks, `RefusedOnlyByRival` only with the places.
- `MilestonesInv` says of each milestone not in doubt that its mirror is what GitHub has
  (`Agree`), unless a request that GitHub has answered is about to store just that
  (`AnsweredOn`, `Bears`).
- `LinksInv` adds the types of links, items and mirror tasks, that a project is linked
  to a board once (`BoardsDiffer`), that a card an item names is on the board of its link
  (`CardsThere`), and that a task works for the board of its link as long as that is there
  (`TaskFits`).
- `DatesInv` says of each link and issue not in doubt (`Mirrors`): at most one request is
  about its dates (`OneEdits`); it is the one that stored them last (`LastSaved`); no other
  link takes the issue to the same board (`OwnCard`); the fields a mirror is through with
  hold its dates (`Shows`); and when nothing is pending, the board shows the dates
  (`Settled`), from which `BoardsShowDates` follows. Most steps leave a link and issue
  alone, which the lemma `Frame` says once.

The history variables say only what is in doubt (two requests that met, one that broke
off); they restrict no step.

**Catalogue, summaries, repositories.** `RowInv` says what each request carries at each
place (`FormsFit`), that a form with the row's present version shows the present row
(`FormsAreOpened`, which gives `AcceptedSawTheRow`), and what a place presupposes
(`StepsArePrepared`: the blob before its row, the summary before its fields).
`PublishInv` says that at most one transaction is between publishing and commit, and
that the published rows are its own and the one it supersedes: that is what the unique
index and the second look make of two publications that overlap. `TheGateHolds` is
arithmetic: with `Threshold` at 76 or more, and the rounding of `percent`, seven of eight
sections are needed; the code's is 80. `TrackInv` follows names: what GitHub has called a
repository is in `was`, every block a delivery or an answer carries was true once, and a
request that has stored or found a row holds one of the repository it was told of
(`Tells`). Rows are never moved to another owner or repository (`Grows`), so no other
request disturbs this.

**Sums and sorted lists.** The lenses, the figures of a report and the pages of a board
are defined with the sums and sortings of the community modules, which recurse over
subsets, and with `CHOOSE`. `FiniteLemmas` says once what those are. Ranks: in a finite
strict order every number below the size is the rank of one element, hence a list in that
order exists, is unique, and a page of it is the elements whose rank is on that page.
Induction: a set of naturals that holds 0 and the successors of its elements holds all
(`AllNumbers`), since a counterexample would have a least one; a set can be passed where
the library's theorems ask for an operator. Sums: the recursion behind `MapThenSumSet` is unfolded once
(`UnfoldsOnce`, `UnfoldsExists`), and from there a sum is non-negative, grows by an
element (`TotalStep`), and is the sum over the fibres of any function with finite range
(`TotalOfFibres`), which is what "the parts add up" means everywhere below.

**Pages.** `PagesAgree` follows from the types alone (`BoardsTypeOK`, finite tables),
whatever the rows are, and the theorem is for any rows, tags, queries and page size. A
tab's badge is `Found` under the stored clauses, which match as the parsed ones do when no
blank is lost (`SameMatches`, which is where `Tidy` is needed). What the buckets count are
disjoint sets (`OneBucketEach`), so their sizes add up to the size of the union
(`BucketsAddUp`); that maps onto the issues found, one to one by status
(`BucketsCount`). Every row of a list is on one page (`OnOnePage`), and the sizes of the
pages are the fibres of that map (`PagesMakeTheList`).

**Reports.** `ReportInv` says that an importer at its actors has stored its event, at its cursor
the actors too (`ImporterFits`), and that what a reader owes (`owed`) is stored with its
actors (`ReaderFits`). Rows of activity are only added, so from `ReadRows` on the answer
has what is owed, whatever is imported between the reads of tags, rows and freshness
(`AnswerHolds`). The figures are functions of the rows: that the organisations' lenses and
the buckets of the trend add up is `TotalOfFibres`. The pages of a board follow each
other since a cursor names the last row shown and the next page starts at the rank after
it (`PagesFit`; values that differ, as the property asks); a standing is right because a
place on the board is a rank.

**The lenses of a repository.** `TypeOK`, and that what has happened and been credited is
finite (`RecordedIsFinite`), give `LensesAgree` in every state: the n-th value of a
sample is the least that more than n values are up to; a percentile lies on the line
between two neighbours, hence percentiles come in order; the shares of the first few and
of the rest are sums over disjoint parts of all of it; the verdicts of the runs that have a
conclusion, and the cells of the heat map, are fibres of a function of the runs and events;
the runs with a null conclusion are what the total has beyond them.

**People and inboxes.** The invariant is a conjunction of what each table holds
(`TablesOK`), of what each request carries by its verb (`FormsOK`) and of `EditsDiffer`.
`DeletedAreNameless` is inductive with the types alone, because the operator's update
tests `deleted` in the statement that writes. What is not: a marker that is not ahead of
its issue needs versions that only grow (`Grows`); a chip that can be removed by whoever
is shown it needs that a tag never changes its scope; two edits that both went through
differ because an edit that is accepted leaves a version greater than the one it
expected. `Grows` is proved once for every step, and gives for all the requests that do
not move that what they carry stays true. `DecisionsStand` is an action property with
a case for each statement that touches a role, a home, a marker or a snooze.

**Walks of lists.** `WalksFit` says of every walk under way that what it owes is shown or
still ahead. An export holds the event, or the last of its rows lies behind the offset
(`Upto`: those that come up to it only grow). A row of the queue that has not changed is
shown or below the cursor, and what is shown is not (`Comes`), so no row comes twice; one
that has changed has a higher version or more writes, for ever (`Owes`). An event of a
timeline is shown, or has as many above it as have been shown (`Above`), as long as none of
them has been given another time: `moves` only grows (`LogGrows`), so who has moved is known. The plain list has
shown its first rows only as long as it is `Calm`. `Advances` is what every step grants the
walks (rows are added, versions and the clock only grow), and `WhoWalks` that only seven
actions move one; the pages themselves are read off by `FiniteLemmas` (`Ranked`, `Prefix`).
TLC checked `WalksFit` on the instance of the run before it was proved. `FiniteLemmas` asks
for finite tables: `Events` is finite, and so are the issues and the log of an initial state.

**Assumptions on constants** beyond their types: sets of requests of different kinds are
disjoint; model values differ from what they stand beside, `None` from every number, row
and id; sets that are counted or summed are finite (projects, issues, milestones and tag links,
the actors and credits of an event); what a list is sorted by is a rank; `Order`, the order of ids, is injective; times are whole seconds and hours, pages and
samples hold at least one. Each is a named `ASSUME` in the module that declares the
constants, and evaluated by TLC in every run.

**Only model-checked:**

- `SettlesDown` (liveness) and `NoStandstill` (it speaks of enabledness): beyond the prover.

Every other property that a run checks is stated by a theorem of the table, some under
the condition named there.

## Where the code departs from its comments

Two claims are refuted by runs:

- `IssueWrite_stranded`: the guard reads the flag and buffers in two statements
  (`guard.rs:136`). When the mutation commits and replays in between, the delivery stays
  in the buffer until some later mutation of the same issue.
- `Catalog_restore`: the snapshot of a summary stores a column nobody had written as null,
  and a restore leaves a null field alone, so it keeps later text, though
  `project_exec_summary.rs:417` says that it "restores the summary to this exact content".

Others are steps of the models, or were met on the way; none is excluded by a guard. A
step that goes wrong is in the model as it is in the code, and the properties say what
survives it.

*Issue writes and guard*

- `release_issue_pending_remote` has no condition but the id, so a sweeper that
  listed the row earlier bumps `version` of a row already released, or clears the
  flag of the next mutation (`SweepRelease`); the sweeper's comment calls it a no-op.
- Nothing in the server calls the sweeper or builds a `Worker` (tests do): a
  handler that dies leaves its issue pending, and acknowledged deliveries stay
  in the inbox (`main.rs:922-990`, `issues.rs:254`).
- The upsert compares the age of the flag with a fixed 60 seconds (`FallbackWindow`), where
  `guard.rs:3-6` speaks of the configured `pending_remote_timeout`: with a longer timeout the
  row of a mutation that is still in flight may be overwritten.
- A handler slower than the timeout finds its ledger row settled by the sweeper
  and answers 404, without audit row or replay (`pc = "not_found"`); a handler
  that dies between release and result lets a second pending ledger row appear.
- The upsert after the guard's check may be deferred by the store, and then the
  delivery is lost (`ApplyDelivery` with the flag raised, `guard.rs:217`); the upsert of a
  PATCH response has a zero window and may overwrite the row of the next mutation
  (`issues_write.rs:769`).
- Two edits within one second share `updated_at`, and the second is skipped.

*Reconciler, inbox of webhooks, backfill*

- An item lost on its way to the store is not seen again by the next tick, because the
  cursor advances past it and keeps the ETag of its page (`reconciler/mod.rs:593`);
  `since` also passes over a commit pushed late with an early date. So does an event whose
  people could not be stored: on this path the failure is logged and nothing repeats it.
- The server builds two `Scheduler`s on one `Reconciler`, each with its own slot
  (`Schedulers` has two members), and the client's counter is read and
  incremented in two steps, so two ticks may exceed the budget by one.
- `FOR UPDATE SKIP LOCKED` in an autocommit statement does not outlive the statement, so
  two workers claim the same row, which the worker's comment calls a correctness bug.
  `NothingIsSkipped` holds all the same. A batch is handled in no particular order.
- A page of a conditional GET that is cut short is never asked for again (the assumption
  `ItemCount <= PageSize`). A backfill over a cursor that is older than the window jumps
  the gap between the two; `backfill-issues --state` filters a list whose members leave
  it, which shifts the pages; "no concurrent optimistic writer" (`main.rs:1752`) is
  false while the server runs; `Backfill` itself is built by tests only.

*Manufacturing*

- A report is dated by the start of its transaction, which may have waited for the unit
  while a report begun later was stored. The counters take it for the latest, every
  reader takes the other (`manufacturing.rs:362`, migration 0053). A later report
  may then push a counter below zero and be refused by the CHECK
  (`CountersMatchLatest` has its proviso for this).
- A `serial_format` without `{run_code}` is accepted, and then the second run of a
  product can never allocate: its first number exists, and a refused allocation
  does not advance `next_serial_seq`.
- A sign-off summary that is saved again without `sign_off` keeps the signature and
  replaces the counts, which `RunEolSummary` calls the snapshot at sign-off; a PATCH of a
  unit overwrites the status a report has set.

*Projects, milestones, boards*

- "Lock the project's views so a concurrent reorder / create can't shift the set out from
  under us" (`projects.rs:797`): a reorder locks the rows it finds, and a create inserts
  beside them, so the set can shift; a reorder fails when a tab created meanwhile holds a
  place that it stamps.
- The counts "maintained by the issue-close webhook" (migration 0022) follow no webhook
  but membership; a rename or an unarchive that clashes is answered as a stale version, a
  race for a tab's place as a taken name; adding what is there is answered 409 though the
  doc has `already_in_project`.
- Nothing polls milestones or handles their webhooks, though `create_project_milestone`
  leaves a failed store to "the next reconciler tick"; milestones are filtered by title, and
  their list has the closed ones first under a comment that says the open ones.
- Clauses of a stored view keep the blanks that a URL's lose; an issue tagged alike in two
  scopes is counted twice in its bucket; `?view=` selects by the view alone; a view of
  another project is accepted by a list; tabs show issues that have left the project.
- After a first mirror that failed, the item's row holds an empty id and the card is never
  added again; a link without date fields reports success with the same empty id; the
  rows of `dp_projectv2_mirror_tasks`, the "durable record", are read by nothing;
  `dp_issue_dates.mirror_error` is never written; the mirrors of two PATCHes race
  (`doubtful`); unlinking a board while a mirror runs makes its record fail.

*Catalogue and summaries*

- The status column and `archived_at` "never disagree" (`store/products.rs:5`), but a
  PATCH sets one without the other; the index on published revisions is "never
  transiently violated" (`store/product_manuals.rs:6`), but two first publications that
  overlap meet it, and one is refused (`PublishTarget`).
- A gate is read before its transition (`GateHolds` names the race); approval compares a
  status that may have left and come back; a field of a PATCH cannot be set to null;
  `skipped_sections` keeps ids it does not know; a summary's page is put together from four
  statements. Approve and revert are not restricted to the lead, as the docs say.
- An upload that fails leaves its blob, a deletion always does.

*Repositories*

- Deliveries that the reconciler makes up carry a minimal block (`synth.rs`), so every tick
  overwrites stars and forks with 0, flags with false and the organisation's name with
  null, though `repo.rs` of the domain says counters are written only when the source
  carries them; the block is that of the tick's start and can undo a rename; a merged
  pull request seen again by a tick loses its additions and deletions.
- Metadata is called best-effort, and its error fails the delivery; a coalesced sync is
  dropped, though its intent "is queued"; a transferred repository gets a second row;
  lookup by slug sees the first 200 matches of a substring only, `created` the first 50;
  a run whose conclusion is null is in CI's `total` and in none of its four verdicts, since
  `NOT IN` of a null is not true (`repos.rs:231`; `Undecided`).

*People and inboxes*

- `upsert_user` gives an anonymised person a name again when a delivery mentions it
  (`users.rs:27`; the flag goes with it, which is why `DeletedAreNameless` holds); the
  audit of a role change may name an old role, and two administrators may demote each
  other; the role middleware keeps the role it has when its lookup fails.
- The cap on pins is counted and used in two statements (`pins.rs:30`), so two requests
  exceed it; a new pin does not go to the end after a removal; two removals of a link both
  report it.
- An event that is recorded again is given the new time (`events.rs:41`), as when an issue is
  closed a second time; exports and timelines by OFFSET lose what is moved so (`restamped` in
  `ExportIsComplete`, `Unmoved` in `WalksAreComplete`), and lists of issues what moves there.
- A comment is recorded with the comment object alone as its payload (`handlers.rs:833`),
  which has no issue number, so it never appears in the issue's timeline.
- `mark_seen` takes the issue's version at the time of the statement, so it marks what the
  reader has not seen; an empty PATCH restores a dismissed row; the queue ignores filters
  its doc lists; a malformed cursor starts over; an issue created with a project stays when
  the attachment is refused, and a retry makes a second one.

*Reports*

- `hide_overdue` drops active projects without a due date; a leaderboard whose values tie
  at a page's end repeats or drops a row (`leaderboard.rs:664`), which `FiguresAgree` excludes
  by asking for values that differ; freshness is read after the rows and is the newest
  of the organisation's cursors; a team report never narrows to the team; the home split
  ignores the kinds asked for; an empty report gives its reason from empty lists.

## Not modelled

- Pure input and output, formatting and SQL text; signature checks, routing and most of
  authorisation (no state of their own; the role check of operators' routes is modelled).
- GitHub's rate limit (only the request budget is modelled), credential choice,
  and pages after the first of a conditional GET (the code never asks for one).
- `dp_fetch_runs`, a log of what the ticks did; team rows, renames of organisations.
- Identities, passwords and nonces: their store operations are reached by tests only.
- The creation of manuals, the PATCH of a document's own row (no version, the last writer
  wins), the format of serial numbers, a board link's cached title and outcome, the seeding
  of a summary when its project is created.
- Lenses by team, daylight saving, months (they differ from weeks in length only).
- The MCP server (a stub), the frontend and generated SDKs, vendored code.

## Plan

Done, in this order: the write path with its abstract specification, the polling and the
pushing path, manufacturing, backfill, catalogue and repositories, people and inboxes,
projects with milestones and boards, pages, reports, each with its theorems.

Next:

1. An abstract specification of manufacturing, in which a report is one step and the
   counters are a function of the reports, implemented by `Manufacturing` as long as
   reports are stored in the order in which they begin.
