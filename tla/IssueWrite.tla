------------------------------ MODULE IssueWrite ------------------------------
(***************************************************************************)
(* The optimistic write path of one GitHub-backed issue: the REST handlers *)
(* patch_issue, create_comment and refresh_issue, the mutation ledger they *)
(* keep, the webhook worker whose deliveries the pending-remote guard may  *)
(* divert into a buffer, and the timeout sweeper.                          *)
(*                                                                         *)
(* One step is one statement sent to Postgres or one call to GitHub: every *)
(* statement runs in autocommit, so anything may happen between two steps  *)
(* of one handler.  GitHub itself is the environment; its issue is a log   *)
(* of revisions, and what the mirror row holds is the number of the        *)
(* revision it was last overwritten with.                                  *)
(***************************************************************************)
EXTENDS Integers, Sequences, FiniteSets

CONSTANTS
    Requests,       \* PATCH and comment requests, one mutation id each
    Comments,       \* those of them that are POST /issues/{id}/comments
    Refreshers,     \* POST /issues/{id}/refresh requests
    Workers,        \* webhook drain loops
    Sweepers,       \* callers of sweep_pending_remote_timeouts
    Nobody,         \* NULL in pending_remote_actor
    Timeout,        \* issues.pending_remote_timeout_secs, in clock ticks
    FallbackWindow, \* HANDLER_PENDING_REMOTE_FALLBACK_SECS, in clock ticks
    EditGaps,       \* seconds that may pass between two edits at GitHub
    MaxRevision,    \* bound: edits made on GitHub stop at this revision
    MaxDeliveries   \* bound: webhook deliveries received

ASSUME ActorsAssumption ==
    /\ Comments \subseteq Requests
    /\ Requests \cap Refreshers = {}
    /\ Requests \cap Sweepers = {}
    /\ Refreshers \cap Sweepers = {}
    /\ Nobody \notin Requests

ASSUME BoundsAssumption ==
    /\ Timeout \in Nat
    /\ FallbackWindow \in Nat
    /\ EditGaps \subseteq Nat
    /\ MaxRevision \in Nat
    /\ MaxDeliveries \in Nat

VARIABLES
    version, pending, pendingAge, pendingActor,
    content,        \* GitHub revision the row's fields were copied from
    updatedAt,      \* updated_at of that revision
    ledger,         \* dp_issue_mutations in insertion order
    result,         \* result column of each mutation, "none" before insert
    mutationAge,    \* ticks since created_at
    buffer,         \* dp_pending_remote_webhook_buffer, as delivery numbers
    inbox,          \* dp_webhook_inbox in received_at order: the revision a
                    \* delivery carries
    processed,      \* inbox rows with processed_at set
    ghLog,          \* updated_at of every revision of the issue at GitHub
    pc, expected, answer, payload,  \* locals of the REST handlers
    batch,          \* deliveries taken by a replay and not yet applied
    wpc, wtask,     \* locals of the workers
    spc, swept, cutoff, stuck,      \* locals of the sweepers
    audited,        \* requests with a per-verb dp_audit_log row
    timeoutAudits,  \* actors with an issue.pending_remote_timeout row
    seen, seenSlot, rolledBack      \* history, read by properties only

slotVars    == <<pending, pendingAge, pendingActor>>
fieldVars   == <<content, updatedAt>>
ledgerVars  == <<ledger, result, mutationAge>>
hookVars    == <<buffer, inbox, processed>>
requestVars == <<pc, expected, answer, payload>>
workerVars  == <<wpc, wtask>>
sweepVars   == <<spc, swept, cutoff, stuck>>
auditVars   == <<audited, timeoutAudits>>
historyVars == <<seen, seenSlot, rolledBack>>
vars == <<version, slotVars, fieldVars, ledgerVars, hookVars, ghLog,
          requestVars, batch, workerVars, sweepVars, auditVars, historyVars>>

-----------------------------------------------------------------------------
(* Types *)

Handlers   == Requests \cup Refreshers
Replayers  == Requests \cup Sweepers
Deliveries == 1..MaxDeliveries
\* Ages saturate: past both windows nothing distinguishes two ages.
MaxAge == 1 + (IF Timeout >= FallbackWindow THEN Timeout ELSE FallbackWindow)
Ages == 0..MaxAge

Results == {"none", "pending", "committed", "failed", "pending_remote_timeout"}
Settled == {"committed", "failed", "pending_remote_timeout"}

\* A request owns the slot, as far as it knows, from its CAS to its release.
Holding  == {"acquired", "recorded", "answered"}
Running  == Holding \cup {"released", "resolved", "audited", "replaying",
                          "refetching", "upserting"}
Finished == {"stale", "done", "failed", "not_found", "abandoned"}

RowTypes ==
    /\ version \in Nat
    /\ pending \in BOOLEAN /\ pendingAge \in Ages
    /\ pendingActor \in Requests \cup {Nobody}
    /\ content \in Nat /\ updatedAt \in Nat

LedgerTypes ==
    /\ ledger \in Seq(Requests)
    /\ result \in [Requests -> Results]
    /\ mutationAge \in [Requests -> Ages]
    /\ audited \subseteq Requests
    /\ timeoutAudits \subseteq Requests \cup {Nobody}

HookTypes ==
    /\ ghLog \in Seq(Nat)
    /\ inbox \in Seq(Nat)
    /\ buffer \subseteq Deliveries /\ processed \subseteq Deliveries
    /\ batch \in [Replayers -> SUBSET Deliveries]

RequestTypes ==
    /\ pc \in [Handlers -> {"form", "loaded"} \cup Running \cup Finished]
    /\ expected \in [Requests -> Nat]
    /\ answer \in [Requests -> {"none", "ok", "error"}]
    /\ payload \in [Handlers -> Nat]

WorkerTypes ==
    /\ wpc \in [Workers -> {"idle", "checking", "buffering", "applying",
                            "marking"}]
    /\ wtask \in [Workers -> Nat]

SweepTypes ==
    /\ spc \in [Sweepers -> {"idle", "listed", "matched", "released",
                             "resolved", "audited", "replaying"}]
    /\ swept \in [Sweepers -> Requests \cup {Nobody}]
    /\ cutoff \in [Sweepers -> SUBSET Requests]
    /\ stuck \in [Sweepers -> Requests \cup {Nobody}]

HistoryTypes ==
    /\ seen \in [Requests -> Nat]
    /\ seenSlot \in [Requests -> Requests \cup {Nobody}]
    /\ rolledBack \subseteq Requests

TypeOK == /\ RowTypes /\ LedgerTypes /\ HookTypes /\ RequestTypes
          /\ WorkerTypes /\ SweepTypes /\ HistoryTypes

-----------------------------------------------------------------------------
(* Store statements *)

\* is_issue_pending_remote_fresh: the guard's own test.
PendingFresh == pending /\ pendingAge <= Timeout

\* The WHERE clause of upsert_issue_from_github, its first conjunct.
Overwritable(window) == ~pending \/ pendingAge >= window

\* Mutated forms, here and below, are what a mistake in the code would make of
\* the definition that follows; no behaviour uses them.  Here: the upsert does
\* not bump version, or accepts an equal updated_at.
UpsertKeepsVersion(revision, window) ==
    IF Overwritable(window) /\ ghLog[revision] > updatedAt
      THEN /\ content' = revision
           /\ updatedAt' = ghLog[revision]
           /\ UNCHANGED version
      ELSE UNCHANGED <<version, fieldVars>>

UpsertIfNotOlder(revision, window) ==
    IF Overwritable(window) /\ ghLog[revision] >= updatedAt
      THEN /\ content' = revision
           /\ updatedAt' = ghLog[revision]
           /\ version' = version + 1
      ELSE UNCHANGED <<version, fieldVars>>

\* upsert_issue_from_github, with the revision it is given.
UpsertIssue(revision, window) ==
    IF Overwritable(window) /\ ghLog[revision] > updatedAt
      THEN /\ content' = revision
           /\ updatedAt' = ghLog[revision]
           /\ version' = version + 1
      ELSE UNCHANGED <<version, fieldVars>>

\* Mutated: a rollback releases the slot as a commit does.
ReleaseWithoutBump(bumpVersionAgain) ==
    /\ pending' = FALSE /\ pendingAge' = 0 /\ pendingActor' = Nobody
    /\ UNCHANGED version
    /\ rolledBack' = IF bumpVersionAgain /\ pending
                        THEN rolledBack \cup {pendingActor} ELSE rolledBack

\* release_issue_pending_remote: WHERE id = $1, whatever the flag or the actor.
ReleaseSlot(bumpVersionAgain) ==
    /\ pending' = FALSE /\ pendingAge' = 0 /\ pendingActor' = Nobody
    /\ version' = IF bumpVersionAgain THEN version + 1 ELSE version
    /\ rolledBack' = IF bumpVersionAgain /\ pending
                        THEN rolledBack \cup {pendingActor} ELSE rolledBack

IsEarliest(d, D) == d \in D /\ \A e \in D : d <= e

\* take_buffered_webhooks_for_issue: one DELETE ... RETURNING.
TakeBuffer(p) ==
    /\ batch' = [batch EXCEPT ![p] = buffer]
    /\ buffer' = {}

\* One round of the loop of replay_buffered_for_issue, oldest first.  A
\* delivery whose handler fails is logged, and gone.
ReplayEarliest(p) ==
    \E d \in batch[p] :
        /\ IsEarliest(d, batch[p])
        /\ \/ UpsertIssue(inbox[d], FallbackWindow)
           \/ UNCHANGED <<version, fieldVars>>
        /\ batch' = [batch EXCEPT ![p] = @ \ {d}]

-----------------------------------------------------------------------------
(* REST handlers *)

\* The UI loads the form and keeps the version it was shown.
OpenForm(r) ==
    /\ pc[r] = "form"
    /\ pc' = [pc EXCEPT ![r] = "loaded"]
    /\ expected' = [expected EXCEPT ![r] = version]
    /\ seen' = [seen EXCEPT ![r] = content]
    /\ seenSlot' = [seenSlot EXCEPT ![r] = pendingActor]
    /\ UNCHANGED <<version, slotVars, fieldVars, ledgerVars, hookVars, ghLog,
                   answer, payload, batch, workerVars, sweepVars, auditVars,
                   rolledBack>>

\* The history of a form ends with its submission.
ForgetForm(r) ==
    /\ seen' = [seen EXCEPT ![r] = 0]
    /\ seenSlot' = [seenSlot EXCEPT ![r] = Nobody]
    /\ UNCHANGED rolledBack

\* Mutated: the CAS does not look at the flag.
CanAcquireWhilePending(r) == expected[r] = version

CanAcquire(r) == expected[r] = version /\ ~pending

\* try_acquire_issue_pending_remote hits: version, flag, stamp and actor.
Acquire(r) ==
    /\ pc[r] = "loaded" /\ CanAcquire(r)
    /\ version' = version + 1
    /\ pending' = TRUE /\ pendingAge' = 0 /\ pendingActor' = r
    /\ pc' = [pc EXCEPT ![r] = "acquired"]
    /\ ForgetForm(r)
    /\ UNCHANGED <<fieldVars, ledgerVars, hookVars, ghLog, expected, answer,
                   payload, batch, workerVars, sweepVars, auditVars>>

\* ... or misses: 409 stale_local_version, and no ledger row.
AcquireStale(r) ==
    /\ pc[r] = "loaded" /\ ~CanAcquire(r)
    /\ pc' = [pc EXCEPT ![r] = "stale"]
    /\ ForgetForm(r)
    /\ UNCHANGED <<version, slotVars, fieldVars, ledgerVars, hookVars, ghLog,
                   expected, answer, payload, batch, workerVars, sweepVars,
                   auditVars>>

\* record_issue_mutation: the statement after the CAS, not part of it.
RecordMutation(r) ==
    /\ pc[r] = "acquired"
    /\ ledger' = Append(ledger, r)
    /\ result' = [result EXCEPT ![r] = "pending"]
    /\ mutationAge' = [mutationAge EXCEPT ![r] = 0]
    /\ pc' = [pc EXCEPT ![r] = "recorded"]
    /\ UNCHANGED <<version, slotVars, fieldVars, hookVars, ghLog, expected,
                   answer, payload, batch, workerVars, sweepVars, auditVars,
                   historyVars>>

\* updated_at has a resolution of one second: two edits may share a stamp.
NewRevision ==
    \E gap \in EditGaps : ghLog' = Append(ghLog, ghLog[Len(ghLog)] + gap)

\* The GitHub call returns success; a PATCH answers with the issue it wrote.
GitHubAccepts(r) ==
    /\ pc[r] = "recorded"
    /\ NewRevision
    /\ answer' = [answer EXCEPT ![r] = "ok"]
    /\ payload' = [payload EXCEPT ![r] =
                     IF r \in Comments THEN 0 ELSE Len(ghLog) + 1]
    /\ pc' = [pc EXCEPT ![r] = "answered"]
    /\ UNCHANGED <<version, slotVars, fieldVars, ledgerVars, hookVars,
                   expected, batch, workerVars, sweepVars, auditVars,
                   historyVars>>

\* The call fails; a lost response means that GitHub applied it all the same.
GitHubFails(r) ==
    /\ pc[r] = "recorded"
    /\ NewRevision \/ UNCHANGED ghLog
    /\ answer' = [answer EXCEPT ![r] = "error"]
    /\ pc' = [pc EXCEPT ![r] = "answered"]
    /\ UNCHANGED <<version, slotVars, fieldVars, ledgerVars, hookVars,
                   expected, payload, batch, workerVars, sweepVars, auditVars,
                   historyVars>>

\* Mutated: the slot is released for what GitHub accepted only.
ReleaseAccepted(r) ==
    /\ pc[r] = "answered"
    /\ IF answer[r] = "ok" THEN ReleaseSlot(FALSE)
                           ELSE UNCHANGED <<version, slotVars, rolledBack>>
    /\ pc' = [pc EXCEPT ![r] = "released"]
    /\ UNCHANGED <<fieldVars, ledgerVars, hookVars, ghLog, expected, answer,
                   payload, batch, workerVars, sweepVars, auditVars,
                   seen, seenSlot>>

\* commit_issue_mutation and rollback_issue_mutation, first statement: only a
\* rollback bumps the version again.
Release(r) ==
    /\ pc[r] = "answered"
    /\ ReleaseSlot(answer[r] = "error")
    /\ pc' = [pc EXCEPT ![r] = "released"]
    /\ UNCHANGED <<fieldVars, ledgerVars, hookVars, ghLog, expected, answer,
                   payload, batch, workerVars, sweepVars, auditVars,
                   seen, seenSlot>>

\* update_issue_mutation_result touches a pending row only; a miss is an error
\* that leaves the handler at once, without audit row and without replay.
UpdateResult(r, outcome) == result' = [result EXCEPT ![r] = outcome]

\* Mutated: the ledger row is updated in whatever state it is.
ResolveAnyRow(r) ==
    /\ pc[r] = "released"
    /\ UpdateResult(r, IF answer[r] = "ok" THEN "committed" ELSE "failed")
    /\ pc' = [pc EXCEPT ![r] = "resolved"]
    /\ UNCHANGED <<version, slotVars, fieldVars, ledger, mutationAge,
                   hookVars, ghLog, expected, answer, payload, batch,
                   workerVars, sweepVars, auditVars, historyVars>>

Resolve(r) ==
    /\ pc[r] = "released"
    /\ IF result[r] = "pending"
         THEN /\ UpdateResult(r, IF answer[r] = "ok" THEN "committed"
                                                     ELSE "failed")
              /\ pc' = [pc EXCEPT ![r] = "resolved"]
         ELSE /\ pc' = [pc EXCEPT ![r] = "not_found"]
              /\ UNCHANGED result
    /\ UNCHANGED <<version, slotVars, fieldVars, ledger, mutationAge,
                   hookVars, ghLog, expected, answer, payload, batch,
                   workerVars, sweepVars, auditVars, historyVars>>

\* Mutated: only successful writes are audited.
AuditSuccessOnly(r) ==
    /\ pc[r] = "resolved"
    /\ audited' = IF answer[r] = "ok" THEN audited \cup {r} ELSE audited
    /\ pc' = [pc EXCEPT ![r] = "audited"]
    /\ UNCHANGED <<version, slotVars, fieldVars, ledgerVars, hookVars, ghLog,
                   expected, answer, payload, batch, workerVars, sweepVars,
                   timeoutAudits, historyVars>>

AuditVerb(r) ==
    /\ pc[r] = "resolved"
    /\ audited' = audited \cup {r}
    /\ pc' = [pc EXCEPT ![r] = "audited"]
    /\ UNCHANGED <<version, slotVars, fieldVars, ledgerVars, hookVars, ghLog,
                   expected, answer, payload, batch, workerVars, sweepVars,
                   timeoutAudits, historyVars>>

StartReplay(r) ==
    /\ pc[r] = "audited"
    /\ TakeBuffer(r)
    /\ pc' = [pc EXCEPT ![r] = "replaying"]
    /\ UNCHANGED <<version, slotVars, fieldVars, ledgerVars, inbox, processed,
                   ghLog, expected, answer, payload, workerVars, sweepVars,
                   auditVars, historyVars>>

Replay(r) ==
    /\ pc[r] = "replaying"
    /\ ReplayEarliest(r)
    /\ UNCHANGED <<slotVars, ledgerVars, hookVars, ghLog, requestVars,
                   workerVars, sweepVars, auditVars, seen, seenSlot,
                   rolledBack>>

\* After the replay a failed request answers its error, a PATCH projects the
\* response it holds, a comment fetches the issue again.  Without a usable
\* response the handler answers with the row as it stands.
FinishReplay(r) ==
    /\ pc[r] = "replaying" /\ batch[r] = {}
    /\ \/ /\ answer[r] = "error"
          /\ pc' = [pc EXCEPT ![r] = "failed"]
       \/ /\ answer[r] = "ok"
          /\ pc' = [pc EXCEPT ![r] =
                      IF r \in Comments THEN "refetching" ELSE "upserting"]
       \/ /\ answer[r] = "ok" /\ r \notin Comments
          /\ pc' = [pc EXCEPT ![r] = "done"]
    /\ UNCHANGED <<version, slotVars, fieldVars, ledgerVars, hookVars, ghLog,
                   expected, answer, payload, batch, workerVars, sweepVars,
                   auditVars, historyVars>>

\* refresh_issue_best_effort, the GET; any failure of it is swallowed.
Refetch(h) ==
    /\ pc[h] = "refetching"
    /\ \/ /\ payload' = [payload EXCEPT ![h] = Len(ghLog)]
          /\ pc' = [pc EXCEPT ![h] = "upserting"]
       \/ /\ pc' = [pc EXCEPT ![h] = "done"]
          /\ UNCHANGED payload
    /\ UNCHANGED <<version, slotVars, fieldVars, ledgerVars, hookVars, ghLog,
                   expected, answer, batch, workerVars, sweepVars, auditVars,
                   historyVars>>

\* The response goes through the ordinary upsert, with a window of zero.
UpsertResponse(h) ==
    /\ pc[h] = "upserting"
    /\ UpsertIssue(payload[h], 0)
    /\ pc' = [pc EXCEPT ![h] = "done"]
    /\ UNCHANGED <<slotVars, ledgerVars, hookVars, ghLog, expected, answer,
                   payload, batch, workerVars, sweepVars, auditVars, seen,
                   seenSlot, rolledBack>>

\* The process dies, the client hangs up and the future is dropped, or a
\* statement fails: the handler stops where it is and nothing cleans up.
Abandon(r) ==
    /\ pc[r] \in Running
    /\ pc' = [pc EXCEPT ![r] = "abandoned"]
    /\ batch' = [batch EXCEPT ![r] = {}]
    /\ UNCHANGED <<version, slotVars, fieldVars, ledgerVars, hookVars, ghLog,
                   expected, answer, payload, workerVars, sweepVars,
                   auditVars, historyVars>>

-----------------------------------------------------------------------------
(* Webhook worker: drain_once for one claimed delivery *)

\* claim_webhooks: the row lock ends with the statement, so the claim leaves
\* no mark and another worker may take the same row.
WorkerClaim(w) ==
    /\ wpc[w] = "idle"
    /\ \E d \in DOMAIN inbox :
          /\ d \notin processed
          /\ wtask' = [wtask EXCEPT ![w] = d]
    /\ wpc' = [wpc EXCEPT ![w] = "checking"]
    /\ UNCHANGED <<version, slotVars, fieldVars, ledgerVars, hookVars, ghLog,
                   requestVars, batch, sweepVars, auditVars, historyVars>>

\* apply_or_defer_delivery asks the store first and acts on the answer later.
CheckGuard(w) ==
    /\ wpc[w] = "checking"
    /\ wpc' = [wpc EXCEPT ![w] = IF PendingFresh THEN "buffering"
                                                 ELSE "applying"]
    /\ UNCHANGED <<version, slotVars, fieldVars, ledgerVars, hookVars, ghLog,
                   requestVars, batch, wtask, sweepVars, auditVars,
                   historyVars>>

\* buffer_pending_remote_webhook; a duplicate delivery_id counts as buffered.
BufferDelivery(w) ==
    /\ wpc[w] = "buffering"
    /\ buffer' = buffer \cup {wtask[w]}
    /\ wpc' = [wpc EXCEPT ![w] = "marking"]
    /\ UNCHANGED <<version, slotVars, fieldVars, ledgerVars, inbox, processed,
                   ghLog, requestVars, batch, wtask, sweepVars, auditVars,
                   historyVars>>

\* handle_issues; an upsert the store defers is logged and counts as applied.
ApplyDelivery(w) ==
    /\ wpc[w] = "applying"
    /\ UpsertIssue(inbox[wtask[w]], FallbackWindow)
    /\ wpc' = [wpc EXCEPT ![w] = "marking"]
    /\ UNCHANGED <<slotVars, ledgerVars, hookVars, ghLog, requestVars, batch,
                   wtask, sweepVars, auditVars, seen, seenSlot, rolledBack>>

WorkerIdles(w) ==
    /\ wpc' = [wpc EXCEPT ![w] = "idle"]
    /\ wtask' = [wtask EXCEPT ![w] = 0]

MarkProcessed(w) ==
    /\ wpc[w] = "marking"
    /\ processed' = processed \cup {wtask[w]}
    /\ WorkerIdles(w)
    /\ UNCHANGED <<version, slotVars, fieldVars, ledgerVars, buffer, inbox,
                   ghLog, requestVars, batch, sweepVars, auditVars,
                   historyVars>>

\* The worker restarts, or a store error ends the drain: the row stays
\* claimable.
WorkerAborts(w) ==
    /\ wpc[w] # "idle"
    /\ WorkerIdles(w)
    /\ UNCHANGED <<version, slotVars, fieldVars, ledgerVars, hookVars, ghLog,
                   requestVars, batch, sweepVars, auditVars, historyVars>>

-----------------------------------------------------------------------------
(* sweep_pending_remote_timeouts, on the one row *)

\* The cutoff is read once; what is older than it then stays older.
SweepListIssues(s) ==
    /\ spc[s] = "idle"
    /\ pending /\ pendingAge > Timeout
    /\ swept' = [swept EXCEPT ![s] = pendingActor]
    /\ cutoff' = [cutoff EXCEPT ![s] =
                    {r \in Requests : result[r] = "pending"
                                      /\ mutationAge[r] > Timeout}]
    /\ spc' = [spc EXCEPT ![s] = "listed"]
    /\ UNCHANGED <<version, slotVars, fieldVars, ledgerVars, hookVars, ghLog,
                   requestVars, batch, workerVars, stuck, auditVars,
                   historyVars>>

\* Mutated: the mutation that is pending now is taken, however old it is.
SweepMatchAny(s) ==
    LET open == {i \in DOMAIN ledger : result[ledger[i]] = "pending"}
    IN  /\ spc[s] = "listed"
        /\ \/ open = {} /\ stuck' = [stuck EXCEPT ![s] = Nobody]
           \/ \E i \in open : /\ IsEarliest(i, open)
                              /\ stuck' = [stuck EXCEPT ![s] = ledger[i]]
        /\ spc' = [spc EXCEPT ![s] = "matched"]
        /\ UNCHANGED <<version, slotVars, fieldVars, ledgerVars, hookVars,
                       ghLog, requestVars, batch, workerVars, swept, cutoff,
                       auditVars, historyVars>>

\* list_pending_issue_mutations_older_than, and the first row of this issue.
SweepMatch(s) ==
    LET old == {i \in DOMAIN ledger : /\ ledger[i] \in cutoff[s]
                                      /\ result[ledger[i]] = "pending"}
    IN  /\ spc[s] = "listed"
        /\ \/ old = {} /\ stuck' = [stuck EXCEPT ![s] = Nobody]
           \/ \E i \in old : /\ IsEarliest(i, old)
                             /\ stuck' = [stuck EXCEPT ![s] = ledger[i]]
        /\ spc' = [spc EXCEPT ![s] = "matched"]
        /\ UNCHANGED <<version, slotVars, fieldVars, ledgerVars, hookVars,
                       ghLog, requestVars, batch, workerVars, swept, cutoff,
                       auditVars, historyVars>>

SweepRelease(s) ==
    /\ spc[s] = "matched"
    /\ ReleaseSlot(TRUE)
    /\ spc' = [spc EXCEPT ![s] = "released"]
    /\ UNCHANGED <<fieldVars, ledgerVars, hookVars, ghLog, requestVars, batch,
                   workerVars, swept, cutoff, stuck, auditVars, seen,
                   seenSlot>>

\* A mutation that left pending since it was listed makes the sweep return.
SweepIdles(s) ==
    /\ spc' = [spc EXCEPT ![s] = "idle"]
    /\ swept' = [swept EXCEPT ![s] = Nobody]
    /\ cutoff' = [cutoff EXCEPT ![s] = {}]
    /\ stuck' = [stuck EXCEPT ![s] = Nobody]

SweepResolve(s) ==
    /\ spc[s] = "released"
    /\ \/ /\ stuck[s] = Nobody
          /\ spc' = [spc EXCEPT ![s] = "resolved"]
          /\ UNCHANGED <<result, swept, cutoff, stuck>>
       \/ /\ stuck[s] # Nobody /\ result[stuck[s]] = "pending"
          /\ UpdateResult(stuck[s], "pending_remote_timeout")
          /\ spc' = [spc EXCEPT ![s] = "resolved"]
          /\ UNCHANGED <<swept, cutoff, stuck>>
       \/ /\ stuck[s] # Nobody /\ result[stuck[s]] # "pending"
          /\ SweepIdles(s)
          /\ UNCHANGED result
    /\ UNCHANGED <<version, slotVars, fieldVars, ledger, mutationAge,
                   hookVars, ghLog, requestVars, batch, workerVars,
                   auditVars, historyVars>>

SweepAudit(s) ==
    /\ spc[s] = "resolved"
    /\ timeoutAudits' = timeoutAudits \cup {swept[s]}
    /\ spc' = [spc EXCEPT ![s] = "audited"]
    /\ UNCHANGED <<version, slotVars, fieldVars, ledgerVars, hookVars, ghLog,
                   requestVars, batch, workerVars, swept, cutoff, stuck,
                   audited, historyVars>>

SweepStartReplay(s) ==
    /\ spc[s] = "audited"
    /\ TakeBuffer(s)
    /\ spc' = [spc EXCEPT ![s] = "replaying"]
    /\ UNCHANGED <<version, slotVars, fieldVars, ledgerVars, inbox, processed,
                   ghLog, requestVars, workerVars, swept, cutoff, stuck,
                   auditVars, historyVars>>

SweepReplay(s) ==
    /\ spc[s] = "replaying"
    /\ ReplayEarliest(s)
    /\ UNCHANGED <<slotVars, ledgerVars, hookVars, ghLog, requestVars,
                   workerVars, sweepVars, auditVars, seen, seenSlot,
                   rolledBack>>

SweepFinish(s) ==
    /\ spc[s] = "replaying" /\ batch[s] = {}
    /\ SweepIdles(s)
    /\ UNCHANGED <<version, slotVars, fieldVars, ledgerVars, hookVars, ghLog,
                   requestVars, batch, workerVars, auditVars, historyVars>>

\* A store error, or the end of the process: the sweep stops half way.
SweepAborts(s) ==
    /\ spc[s] # "idle"
    /\ SweepIdles(s)
    /\ batch' = [batch EXCEPT ![s] = {}]
    /\ UNCHANGED <<version, slotVars, fieldVars, ledgerVars, hookVars, ghLog,
                   requestVars, workerVars, auditVars, historyVars>>

-----------------------------------------------------------------------------
(* Environment *)

GitHubEdit ==
    /\ Len(ghLog) < MaxRevision
    /\ NewRevision
    /\ UNCHANGED <<version, slotVars, fieldVars, ledgerVars, hookVars,
                   requestVars, batch, workerVars, sweepVars, auditVars,
                   historyVars>>

\* GitHub sends one delivery or several for a change, late and in any order:
\* a delivery carries any revision there has been.
ReceiveWebhook ==
    /\ Len(inbox) < MaxDeliveries
    /\ \E revision \in DOMAIN ghLog :
          inbox' = Append(inbox, revision)
    /\ UNCHANGED <<version, slotVars, fieldVars, ledgerVars, buffer, processed,
                   ghLog, requestVars, batch, workerVars, sweepVars, auditVars,
                   historyVars>>

Older(age) == IF age < MaxAge THEN age + 1 ELSE MaxAge

\* Time passes for the pending flag and for the unresolved mutations.
Tick ==
    /\ \/ pending /\ pendingAge < MaxAge
       \/ \E r \in Requests : result[r] = "pending" /\ mutationAge[r] < MaxAge
    /\ pendingAge' = IF pending THEN Older(pendingAge) ELSE pendingAge
    /\ mutationAge' = [r \in Requests |-> IF result[r] = "pending"
                                            THEN Older(mutationAge[r])
                                            ELSE mutationAge[r]]
    /\ UNCHANGED <<version, pending, pendingActor, fieldVars, ledger, result,
                   hookVars, ghLog, requestVars, batch, workerVars, sweepVars,
                   auditVars, historyVars>>

-----------------------------------------------------------------------------
Init ==
    /\ version = 1
    /\ pending = FALSE /\ pendingAge = 0 /\ pendingActor = Nobody
    /\ content = 1 /\ updatedAt = 1
    /\ ledger = <<>>
    /\ result = [r \in Requests |-> "none"]
    /\ mutationAge = [r \in Requests |-> 0]
    /\ buffer = {} /\ inbox = <<>> /\ processed = {}
    /\ ghLog = <<1>>
    /\ pc = [h \in Handlers |-> IF h \in Requests THEN "form"
                                                  ELSE "refetching"]
    /\ expected = [r \in Requests |-> 0]
    /\ answer = [r \in Requests |-> "none"]
    /\ payload = [h \in Handlers |-> 0]
    /\ batch = [p \in Replayers |-> {}]
    /\ wpc = [w \in Workers |-> "idle"] /\ wtask = [w \in Workers |-> 0]
    /\ spc = [s \in Sweepers |-> "idle"]
    /\ swept = [s \in Sweepers |-> Nobody]
    /\ cutoff = [s \in Sweepers |-> {}]
    /\ stuck = [s \in Sweepers |-> Nobody]
    /\ audited = {} /\ timeoutAudits = {}
    /\ seen = [r \in Requests |-> 0]
    /\ seenSlot = [r \in Requests |-> Nobody]
    /\ rolledBack = {}

\* What the runtime drives once a request has been submitted.
RequestStep(r) ==
    \/ Acquire(r) \/ AcquireStale(r) \/ RecordMutation(r)
    \/ GitHubAccepts(r) \/ GitHubFails(r)
    \/ Release(r) \/ Resolve(r) \/ AuditVerb(r)
    \/ StartReplay(r) \/ Replay(r) \/ FinishReplay(r)

ResponseStep(h) == Refetch(h) \/ UpsertResponse(h)

WorkerStep(w) ==
    \/ WorkerClaim(w) \/ CheckGuard(w) \/ BufferDelivery(w)
    \/ ApplyDelivery(w) \/ MarkProcessed(w)

SweeperStep(s) ==
    \/ SweepListIssues(s) \/ SweepMatch(s) \/ SweepRelease(s)
    \/ SweepResolve(s) \/ SweepAudit(s) \/ SweepStartReplay(s)
    \/ SweepReplay(s) \/ SweepFinish(s)

Next ==
    \/ \E r \in Requests : OpenForm(r) \/ RequestStep(r) \/ Abandon(r)
    \/ \E h \in Handlers : ResponseStep(h)
    \/ \E w \in Workers : WorkerStep(w) \/ WorkerAborts(w)
    \/ \E s \in Sweepers : SweeperStep(s) \/ SweepAborts(s)
    \/ GitHubEdit \/ ReceiveWebhook \/ Tick

Spec == Init /\ [][Next]_vars

\* The runtime keeps polling every future it holds and the clock runs; nothing
\* forces a user to open a form, GitHub to change or a handler to be dropped.
\* Of workers and sweepers nothing is assumed: main spawns neither.
Fairness ==
    /\ \A r \in Requests : WF_vars(RequestStep(r))
    /\ \A h \in Handlers : WF_vars(ResponseStep(h))
    /\ WF_vars(Tick)

FairSpec == Spec /\ Fairness

-----------------------------------------------------------------------------
(* Safety *)

\* What a request saw when its form was loaded is still what the row holds if
\* its version still matches: the CAS of try_acquire_issue_pending_remote
\* never lets an edit through that was made against older fields (SCOPE-
\* PROJECTS 8.3), because every statement that changes a field bumps version.
CasProtectsReader ==
    \A r \in Requests :
        pc[r] = "loaded" /\ expected[r] = version => seen[r] = content

\* A form loaded while another mutation was in flight is stale once that
\* mutation is rolled back or swept: the second bump of
\* release_issue_pending_remote is there for that reader (8.2 step 8).
RollbackInvalidatesReaders ==
    \A r \in Requests :
        pc[r] = "loaded" /\ seenSlot[r] \in rolledBack => expected[r] # version

\* A mutation that reached its verdict has its audit row, or the handler or
\* sweep that gave the verdict is about to write it or was cut short
\* (8.5: every row records its result).
AuditedUnlessInterrupted ==
    \A r \in Requests :
        result[r] \in {"committed", "failed"}
            => r \in audited \/ pc[r] \in {"resolved", "abandoned"}

\* With no sweeper, requests take turns: whoever is between its CAS and its
\* release owns the flag, so two mutations never talk to GitHub about the
\* issue at the same time (8.3, concurrent dev-pulse writers).
OneTurnAtATime ==
    \A r \in Requests : pc[r] \in Holding => pending /\ pendingActor = r

\* A row stays pending only for a request that is between its CAS and its
\* release, or that died there: no path of a live handler, rollback and early
\* return included, leaves the flag behind, whoever else released it meanwhile.
OnlyDeathStrands ==
    pending => /\ pendingActor \in Requests
               /\ pc[pendingActor] \in Holding \cup {"abandoned"}

-----------------------------------------------------------------------------
(* Refinement *)

Turns == INSTANCE EditTurns WITH
    Editors <- Requests,
    turn    <- pendingActor,
    started <- {r \in Requests : pc[r] \notin {"form", "loaded", "stale"}},
    wrote   <- {r \in Requests : answer[r] # "none"}

\* While no sweeper runs, the write path is an implementation of EditTurns:
\* the statements between CAS and release of one mutation, crashes included,
\* never let a second mutation reach GitHub (8.3).
EditsTakeTurns == Turns!Spec

-----------------------------------------------------------------------------
(* Action properties *)

\* version only grows and a change of the fields always shows in it, whoever
\* makes it: webhook, replay, response or reconciler.
VersionTellsChange ==
    [][/\ version' >= version
       /\ fieldVars' # fieldVars => version' > version]_vars

\* Deliveries arrive late, twice and in any order, yet the row never goes back
\* to an older revision: the strict comparison of upsert_issue_from_github,
\* also between revisions that share an updated_at.
FieldsNeverRegress ==
    [][content' >= content /\ updatedAt' >= updatedAt]_vars

\* A verdict is final: sweeper and late handler cannot overwrite each other
\* in dp_issue_mutations.
VerdictIsFinal ==
    [][\A r \in Requests : result[r] \in Settled => result'[r] = result[r]]_vars

\* A sweep gives up only mutations that were pending longer than the timeout,
\* although it reads the cutoff, the stuck rows, the ledger and the row in
\* statements of their own, and the slot may change hands between them.
TimeoutsAreDue ==
    [][\A r \in Requests :
          result'[r] = "pending_remote_timeout" /\ result[r] # result'[r]
             => result[r] = "pending" /\ mutationAge[r] > Timeout]_vars
=============================================================================
