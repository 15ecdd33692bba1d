---------------------------- MODULE IssueWriteProofs ----------------------------
(***************************************************************************)
(* Theorems about IssueWrite, for every set of requests, workers and       *)
(* sweepers, every timeout and every bound.                                *)
(***************************************************************************)
EXTENDS IssueWrite, TLAPS

(***************************************************************************)
(* What the types leave open: every number that stands for a delivery or   *)
(* for a revision of the issue stands for one there is.                    *)
(***************************************************************************)
LogRefs ==
    /\ ghLog # <<>>
    /\ content \in DOMAIN ghLog
    /\ \A d \in DOMAIN inbox : inbox[d] \in DOMAIN ghLog

DeliveryRefs ==
    /\ Len(inbox) <= MaxDeliveries
    /\ buffer \subseteq DOMAIN inbox
    /\ \A p \in Replayers : batch[p] \subseteq DOMAIN inbox
    /\ \A w \in Workers : wpc[w] # "idle" => wtask[w] \in DOMAIN inbox

HoldsResponse(r) ==
    /\ pc[r] \in {"answered", "released", "resolved", "audited", "replaying"}
    /\ answer[r] = "ok" /\ r \notin Comments

ActorRefs == pending <=> pendingActor # Nobody

PayloadRefs ==
    /\ \A h \in Handlers : pc[h] = "upserting" => payload[h] \in DOMAIN ghLog
    /\ \A r \in Requests : HoldsResponse(r) => payload[r] \in DOMAIN ghLog

TypeInv == TypeOK /\ ActorRefs /\ LogRefs /\ DeliveryRefs /\ PayloadRefs

USE ActorsAssumption, BoundsAssumption

-----------------------------------------------------------------------------
(* Lemmas about the operators the actions are built from *)

\* Ages are closed under the clock's step, and a fresh stamp is an age.
LEMMA AgeFacts == 0 \in Ages /\ \A age \in Ages : Older(age) \in Ages
BY DEF Ages, MaxAge, Older

\* GitHub appends to its log: what was there stays, and one revision is new.
LEMMA NewRevisionFacts ==
    ASSUME HookTypes, LogRefs, NewRevision
    PROVE  /\ ghLog' \in Seq(Nat) /\ ghLog' # <<>>
           /\ Len(ghLog') = Len(ghLog) + 1
           /\ DOMAIN ghLog \subseteq DOMAIN ghLog'
           /\ Len(ghLog) + 1 \in DOMAIN ghLog'
<1>1. PICK gap \in EditGaps : ghLog' = Append(ghLog, ghLog[Len(ghLog)] + gap)
  BY DEF NewRevision
<1>2. Len(ghLog) \in Nat \ {0} /\ ghLog[Len(ghLog)] \in Nat /\ gap \in Nat
  BY DEF HookTypes, LogRefs
<1>3. ghLog' \in Seq(Nat) /\ Len(ghLog') = Len(ghLog) + 1
  BY <1>1, <1>2 DEF HookTypes
<1>4. DOMAIN ghLog = 1..Len(ghLog) /\ DOMAIN ghLog' = 1..(Len(ghLog) + 1)
  BY <1>3 DEF HookTypes
<1>5. ghLog' # <<>>
  BY <1>2, <1>4
<1> QED
  BY <1>2, <1>3, <1>4, <1>5

\* upsert_issue_from_github leaves a row that mirrors a revision there is.
LEMMA UpsertFacts ==
    ASSUME RowTypes, HookTypes, LogRefs, NEW window,
           NEW revision \in DOMAIN ghLog, UpsertIssue(revision, window)
    PROVE  /\ version' \in Nat /\ version <= version'
           /\ content' \in DOMAIN ghLog /\ content' \in Nat
           /\ updatedAt' \in Nat
<1>1. ghLog[revision] \in Nat /\ revision \in Nat
  BY DEF HookTypes
<1> QED
  BY <1>1 DEF UpsertIssue, RowTypes, LogRefs, fieldVars

\* The row after release_issue_pending_remote.
LEMMA ReleaseFacts ==
    ASSUME RowTypes, HistoryTypes, ActorRefs, NEW bumpVersionAgain \in BOOLEAN,
           ReleaseSlot(bumpVersionAgain)
    PROVE  /\ version' \in Nat /\ version <= version'
           /\ pending' = FALSE /\ pendingAge' \in Ages /\ pendingActor' = Nobody
           /\ rolledBack' \subseteq Requests
BY AgeFacts DEF ReleaseSlot, RowTypes, HistoryTypes, ActorRefs

-----------------------------------------------------------------------------
(* Type correctness *)

\* The initial state has its types.
LEMMA TypeInit == Init => TypeInv
<1> SUFFICES ASSUME Init PROVE TypeInv
  OBVIOUS
<1>1. RowTypes /\ ActorRefs
  BY AgeFacts DEF Init, RowTypes, ActorRefs
<1>0. LedgerTypes
  BY AgeFacts DEF Init, LedgerTypes, Results
<1>2. HookTypes /\ LogRefs /\ DeliveryRefs
  BY DEF Init, HookTypes, LogRefs, DeliveryRefs, Replayers
<1>3. RequestTypes /\ PayloadRefs
  BY DEF Init, RequestTypes, PayloadRefs, HoldsResponse, Handlers, Running,
     Holding
<1>4. WorkerTypes /\ SweepTypes /\ HistoryTypes
  BY DEF Init, WorkerTypes, SweepTypes, HistoryTypes
<1> QED
  BY <1>0, <1>1, <1>2, <1>3, <1>4 DEF TypeInv, TypeOK

\* Every step of a handler, worker, sweeper or of the environment keeps them.
LEMMA TypeStep == TypeInv /\ [Next]_vars => TypeInv'
<1> SUFFICES ASSUME TypeInv, [Next]_vars PROVE TypeInv'
  OBVIOUS
<1> USE DEF TypeInv, TypeOK, slotVars, fieldVars, ledgerVars, hookVars,
   requestVars, workerVars, sweepVars, auditVars, historyVars
<1>1. ASSUME NEW r \in Requests, OpenForm(r) PROVE TypeInv'
  <2>1. RequestTypes'
    BY <1>1 DEF OpenForm, Handlers, RequestTypes, Running, Holding, Finished,
       RowTypes
  <2>2. HistoryTypes'
    BY <1>1 DEF OpenForm, Handlers, HistoryTypes, RowTypes
  <2>3. PayloadRefs'
    BY <1>1 DEF OpenForm, Handlers, PayloadRefs, RequestTypes, HoldsResponse
  <2>4. RowTypes' /\ LedgerTypes' /\ HookTypes' /\ WorkerTypes' /\ SweepTypes'
     /\ ActorRefs' /\ LogRefs' /\ DeliveryRefs'
    BY <1>1 DEF OpenForm, Handlers, RowTypes, LedgerTypes, HookTypes,
       WorkerTypes, SweepTypes, ActorRefs, LogRefs, DeliveryRefs,
       HoldsResponse
  <2> QED
    BY <2>1, <2>2, <2>3, <2>4
<1>2. ASSUME NEW r \in Requests, Acquire(r) PROVE TypeInv'
  <2>1. RowTypes'
    BY <1>2, AgeFacts DEF Acquire, ForgetForm, CanAcquire, RowTypes
  <2>2. ActorRefs'
    BY <1>2, AgeFacts DEF Acquire, ForgetForm, CanAcquire, ActorRefs
  <2>3. RequestTypes'
    BY <1>2, AgeFacts DEF Acquire, ForgetForm, CanAcquire, RequestTypes,
       Handlers, Running, Holding, Finished
  <2>4. HistoryTypes'
    BY <1>2, AgeFacts DEF Acquire, ForgetForm, CanAcquire, HistoryTypes
  <2>5. PayloadRefs'
    BY <1>2, AgeFacts DEF Acquire, ForgetForm, CanAcquire, PayloadRefs,
       RequestTypes, Handlers, HoldsResponse
  <2>6. LedgerTypes' /\ HookTypes' /\ WorkerTypes' /\ SweepTypes' /\ LogRefs'
     /\ DeliveryRefs'
    BY <1>2 DEF Acquire, ForgetForm, CanAcquire, LedgerTypes, HookTypes,
       WorkerTypes, SweepTypes, LogRefs, DeliveryRefs, HoldsResponse
  <2> QED
    BY <2>1, <2>2, <2>3, <2>4, <2>5, <2>6
<1>3. ASSUME NEW r \in Requests, AcquireStale(r) PROVE TypeInv'
  <2>1. RequestTypes'
    BY <1>3 DEF AcquireStale, ForgetForm, RequestTypes, Handlers, Running,
       Holding, Finished
  <2>2. HistoryTypes'
    BY <1>3 DEF AcquireStale, ForgetForm, HistoryTypes
  <2>3. PayloadRefs'
    BY <1>3 DEF AcquireStale, ForgetForm, PayloadRefs, RequestTypes, Handlers,
       HoldsResponse
  <2>4. RowTypes' /\ LedgerTypes' /\ HookTypes' /\ WorkerTypes' /\ SweepTypes'
     /\ ActorRefs' /\ LogRefs' /\ DeliveryRefs'
    BY <1>3 DEF AcquireStale, ForgetForm, RowTypes, LedgerTypes, HookTypes,
       WorkerTypes, SweepTypes, ActorRefs, LogRefs, DeliveryRefs,
       HoldsResponse
  <2> QED
    BY <2>1, <2>2, <2>3, <2>4
<1>4. ASSUME NEW r \in Requests, RecordMutation(r) PROVE TypeInv'
  <2>1. LedgerTypes'
    BY <1>4, AgeFacts DEF RecordMutation, LedgerTypes, Results
  <2>2. RequestTypes'
    BY <1>4, AgeFacts DEF RecordMutation, RequestTypes, Handlers, Running,
       Holding, Finished
  <2>3. PayloadRefs'
    BY <1>4, AgeFacts DEF RecordMutation, PayloadRefs, RequestTypes, Handlers,
       HoldsResponse
  <2>4. RowTypes' /\ HookTypes' /\ WorkerTypes' /\ SweepTypes' /\
     HistoryTypes' /\ ActorRefs' /\ LogRefs' /\ DeliveryRefs'
    BY <1>4 DEF RecordMutation, RowTypes, HookTypes, WorkerTypes, SweepTypes,
       HistoryTypes, ActorRefs, LogRefs, DeliveryRefs, HoldsResponse
  <2> QED
    BY <2>1, <2>2, <2>3, <2>4
<1>5. ASSUME NEW r \in Requests, GitHubAccepts(r) PROVE TypeInv'
  <2>1. HookTypes'
    BY <1>5, NewRevisionFacts DEF GitHubAccepts, HookTypes, Replayers,
       Deliveries
  <2>2. RequestTypes'
    BY <1>5, NewRevisionFacts DEF GitHubAccepts, RequestTypes, Handlers,
       Running, Holding, Finished, HookTypes
  <2>3. LogRefs'
    BY <1>5, NewRevisionFacts DEF GitHubAccepts, LogRefs
  <2>4. DeliveryRefs'
    BY <1>5, NewRevisionFacts DEF GitHubAccepts, DeliveryRefs, Replayers,
       HookTypes
  <2>5. PayloadRefs'
    BY <1>5, NewRevisionFacts DEF GitHubAccepts, PayloadRefs, RequestTypes,
       Handlers, HoldsResponse
  <2>6. RowTypes' /\ LedgerTypes' /\ WorkerTypes' /\ SweepTypes' /\
     HistoryTypes' /\ ActorRefs'
    BY <1>5 DEF GitHubAccepts, RowTypes, LedgerTypes, WorkerTypes, SweepTypes,
       HistoryTypes, ActorRefs, HoldsResponse
  <2> QED
    BY <2>1, <2>2, <2>3, <2>4, <2>5, <2>6
<1>6. ASSUME NEW r \in Requests, GitHubFails(r) PROVE TypeInv'
  <2>1. HookTypes'
    BY <1>6, NewRevisionFacts DEF GitHubFails, HookTypes, Replayers,
       Deliveries
  <2>2. RequestTypes'
    BY <1>6, NewRevisionFacts DEF GitHubFails, RequestTypes, Handlers,
       Running, Holding, Finished
  <2>3. LogRefs'
    BY <1>6, NewRevisionFacts DEF GitHubFails, LogRefs
  <2>4. DeliveryRefs'
    BY <1>6, NewRevisionFacts DEF GitHubFails, DeliveryRefs, Replayers,
       HookTypes
  <2>5. PayloadRefs'
    BY <1>6, NewRevisionFacts DEF GitHubFails, PayloadRefs, RequestTypes,
       Handlers, HoldsResponse
  <2>6. RowTypes' /\ LedgerTypes' /\ WorkerTypes' /\ SweepTypes' /\
     HistoryTypes' /\ ActorRefs'
    BY <1>6 DEF GitHubFails, RowTypes, LedgerTypes, WorkerTypes, SweepTypes,
       HistoryTypes, ActorRefs, HoldsResponse
  <2> QED
    BY <2>1, <2>2, <2>3, <2>4, <2>5, <2>6
<1>7. ASSUME NEW r \in Requests, Release(r) PROVE TypeInv'
  <2>0. ReleaseSlot(answer[r] = "error")
    BY <1>7 DEF Release
  <2>1. RowTypes'
    BY <1>7, <2>0, ReleaseFacts DEF Release, RowTypes
  <2>2. ActorRefs'
    BY <1>7, <2>0, ReleaseFacts DEF Release, ActorRefs
  <2>3. RequestTypes'
    BY <1>7, <2>0, ReleaseFacts DEF Release, RequestTypes, Handlers, Running,
       Holding, Finished
  <2>4. HistoryTypes'
    BY <1>7, <2>0, ReleaseFacts DEF Release, HistoryTypes
  <2>5. PayloadRefs'
    BY <1>7, <2>0, ReleaseFacts DEF Release, PayloadRefs, RequestTypes,
       Handlers, HoldsResponse
  <2>6. LedgerTypes' /\ HookTypes' /\ WorkerTypes' /\ SweepTypes' /\ LogRefs'
     /\ DeliveryRefs'
    BY <1>7 DEF Release, LedgerTypes, HookTypes, WorkerTypes, SweepTypes,
       LogRefs, DeliveryRefs, HoldsResponse
  <2> QED
    BY <2>1, <2>2, <2>3, <2>4, <2>5, <2>6
<1>8. ASSUME NEW r \in Requests, Resolve(r) PROVE TypeInv'
  <2>1. LedgerTypes'
    BY <1>8 DEF Resolve, UpdateResult, LedgerTypes, Results
  <2>2. RequestTypes'
    BY <1>8 DEF Resolve, UpdateResult, RequestTypes, Handlers, Running,
       Holding, Finished
  <2>3. PayloadRefs'
    BY <1>8 DEF Resolve, UpdateResult, PayloadRefs, RequestTypes, Handlers,
       HoldsResponse
  <2>4. RowTypes' /\ HookTypes' /\ WorkerTypes' /\ SweepTypes' /\
     HistoryTypes' /\ ActorRefs' /\ LogRefs' /\ DeliveryRefs'
    BY <1>8 DEF Resolve, UpdateResult, RowTypes, HookTypes, WorkerTypes,
       SweepTypes, HistoryTypes, ActorRefs, LogRefs, DeliveryRefs,
       HoldsResponse
  <2> QED
    BY <2>1, <2>2, <2>3, <2>4
<1>9. ASSUME NEW r \in Requests, AuditVerb(r) PROVE TypeInv'
  <2>1. LedgerTypes'
    BY <1>9 DEF AuditVerb, LedgerTypes, Results
  <2>2. RequestTypes'
    BY <1>9 DEF AuditVerb, RequestTypes, Handlers, Running, Holding, Finished
  <2>3. PayloadRefs'
    BY <1>9 DEF AuditVerb, PayloadRefs, RequestTypes, Handlers, HoldsResponse
  <2>4. RowTypes' /\ HookTypes' /\ WorkerTypes' /\ SweepTypes' /\
     HistoryTypes' /\ ActorRefs' /\ LogRefs' /\ DeliveryRefs'
    BY <1>9 DEF AuditVerb, RowTypes, HookTypes, WorkerTypes, SweepTypes,
       HistoryTypes, ActorRefs, LogRefs, DeliveryRefs, HoldsResponse
  <2> QED
    BY <2>1, <2>2, <2>3, <2>4
<1>10. ASSUME NEW r \in Requests, StartReplay(r) PROVE TypeInv'
  <2>1. HookTypes'
    BY <1>10 DEF StartReplay, TakeBuffer, HookTypes, Replayers, Deliveries
  <2>2. RequestTypes'
    BY <1>10 DEF StartReplay, TakeBuffer, RequestTypes, Handlers, Running,
       Holding, Finished
  <2>3. DeliveryRefs'
    BY <1>10 DEF StartReplay, TakeBuffer, DeliveryRefs, Replayers, HookTypes
  <2>4. PayloadRefs'
    BY <1>10 DEF StartReplay, TakeBuffer, PayloadRefs, RequestTypes, Handlers,
       HoldsResponse
  <2>5. RowTypes' /\ LedgerTypes' /\ WorkerTypes' /\ SweepTypes' /\
     HistoryTypes' /\ ActorRefs' /\ LogRefs'
    BY <1>10 DEF StartReplay, TakeBuffer, RowTypes, LedgerTypes, WorkerTypes,
       SweepTypes, HistoryTypes, ActorRefs, LogRefs, HoldsResponse
  <2> QED
    BY <2>1, <2>2, <2>3, <2>4, <2>5
<1>11. ASSUME NEW r \in Requests, Replay(r) PROVE TypeInv'
  <2>0. PICK d \in batch[r] : /\ inbox[d] \in DOMAIN ghLog
                               /\ \/ UpsertIssue(inbox[d], FallbackWindow)
                                  \/ UNCHANGED <<version, fieldVars>>
                               /\ batch' = [batch EXCEPT ![r] = @ \ {d}]
    BY <1>11 DEF Replay, ReplayEarliest, IsEarliest, LogRefs, DeliveryRefs,
       Replayers
  <2>1. RowTypes'
    BY <1>11, <2>0, UpsertFacts DEF Replay, ReplayEarliest, IsEarliest,
       RowTypes
  <2>2. HookTypes'
    BY <1>11, <2>0, UpsertFacts DEF Replay, ReplayEarliest, IsEarliest,
       HookTypes, Replayers, Deliveries
  <2>3. LogRefs'
    BY <1>11, <2>0, UpsertFacts DEF Replay, ReplayEarliest, IsEarliest,
       LogRefs
  <2>4. DeliveryRefs'
    BY <1>11, <2>0, UpsertFacts DEF Replay, ReplayEarliest, IsEarliest,
       DeliveryRefs, Replayers, HookTypes
  <2>5. LedgerTypes' /\ RequestTypes' /\ WorkerTypes' /\ SweepTypes' /\
     HistoryTypes' /\ ActorRefs' /\ PayloadRefs'
    BY <1>11 DEF Replay, ReplayEarliest, IsEarliest, LedgerTypes,
       RequestTypes, WorkerTypes, SweepTypes, HistoryTypes, ActorRefs,
       PayloadRefs, HoldsResponse
  <2> QED
    BY <2>1, <2>2, <2>3, <2>4, <2>5
<1>12. ASSUME NEW r \in Requests, FinishReplay(r) PROVE TypeInv'
  <2>1. RequestTypes'
    BY <1>12 DEF FinishReplay, RequestTypes, Handlers, Running, Holding,
       Finished
  <2>2. PayloadRefs'
    BY <1>12 DEF FinishReplay, PayloadRefs, RequestTypes, Handlers,
       HoldsResponse
  <2>3. RowTypes' /\ LedgerTypes' /\ HookTypes' /\ WorkerTypes' /\ SweepTypes'
     /\ HistoryTypes' /\ ActorRefs' /\ LogRefs' /\ DeliveryRefs'
    BY <1>12 DEF FinishReplay, RowTypes, LedgerTypes, HookTypes, WorkerTypes,
       SweepTypes, HistoryTypes, ActorRefs, LogRefs, DeliveryRefs,
       HoldsResponse
  <2> QED
    BY <2>1, <2>2, <2>3
<1>13. ASSUME NEW r \in Requests, Abandon(r) PROVE TypeInv'
  <2>1. HookTypes'
    BY <1>13 DEF Abandon, HookTypes, Replayers, Deliveries
  <2>2. RequestTypes'
    BY <1>13 DEF Abandon, RequestTypes, Handlers, Running, Holding, Finished
  <2>3. DeliveryRefs'
    BY <1>13 DEF Abandon, DeliveryRefs, Replayers, HookTypes
  <2>4. PayloadRefs'
    BY <1>13 DEF Abandon, PayloadRefs, RequestTypes, Handlers, HoldsResponse
  <2>5. RowTypes' /\ LedgerTypes' /\ WorkerTypes' /\ SweepTypes' /\
     HistoryTypes' /\ ActorRefs' /\ LogRefs'
    BY <1>13 DEF Abandon, RowTypes, LedgerTypes, WorkerTypes, SweepTypes,
       HistoryTypes, ActorRefs, LogRefs, HoldsResponse
  <2> QED
    BY <2>1, <2>2, <2>3, <2>4, <2>5
<1>14. ASSUME NEW h \in Handlers, Refetch(h) PROVE TypeInv'
  <2>0. Len(ghLog) \in DOMAIN ghLog /\ Len(ghLog) \in Nat
    BY DEF HookTypes, LogRefs
  <2>1. payload' \in [Handlers -> Nat]
    BY <1>14, <2>0 DEF Refetch, RequestTypes
  <2>2. pc' \in [Handlers -> {"form", "loaded"} \cup Running \cup Finished]
    BY <1>14 DEF Refetch, RequestTypes, Running, Finished
  <2>3. RequestTypes'
    BY <1>14, <2>0, <2>1, <2>2 DEF Refetch, RequestTypes, Handlers, Running,
       Holding, Finished, HookTypes
  <2>4. PayloadRefs'
    BY <1>14, <2>0, <2>1, <2>2 DEF Refetch, PayloadRefs, RequestTypes,
       Handlers, HoldsResponse, HookTypes, LogRefs
  <2>5. RowTypes' /\ LedgerTypes' /\ HookTypes' /\ WorkerTypes' /\ SweepTypes'
     /\ HistoryTypes' /\ ActorRefs' /\ LogRefs' /\ DeliveryRefs'
    BY <1>14 DEF Refetch, RowTypes, LedgerTypes, HookTypes, WorkerTypes,
       SweepTypes, HistoryTypes, ActorRefs, LogRefs, DeliveryRefs,
       HoldsResponse
  <2> QED
    BY <2>1, <2>2, <2>3, <2>4, <2>5
<1>15. ASSUME NEW h \in Handlers, UpsertResponse(h) PROVE TypeInv'
  <2>0. payload[h] \in DOMAIN ghLog /\ UpsertIssue(payload[h], 0)
    BY <1>15 DEF UpsertResponse, LogRefs, DeliveryRefs, PayloadRefs
  <2>1. RowTypes'
    BY <1>15, <2>0, UpsertFacts DEF UpsertResponse, RowTypes
  <2>2. RequestTypes'
    BY <1>15, <2>0, UpsertFacts DEF UpsertResponse, RequestTypes, Handlers,
       Running, Holding, Finished
  <2>3. LogRefs'
    BY <1>15, <2>0, UpsertFacts DEF UpsertResponse, LogRefs
  <2>4. PayloadRefs'
    BY <1>15, <2>0, UpsertFacts DEF UpsertResponse, PayloadRefs, RequestTypes,
       Handlers, HoldsResponse
  <2>5. LedgerTypes' /\ HookTypes' /\ WorkerTypes' /\ SweepTypes' /\
     HistoryTypes' /\ ActorRefs' /\ DeliveryRefs'
    BY <1>15 DEF UpsertResponse, LedgerTypes, HookTypes, WorkerTypes,
       SweepTypes, HistoryTypes, ActorRefs, DeliveryRefs, HoldsResponse
  <2> QED
    BY <2>1, <2>2, <2>3, <2>4, <2>5
<1>16. ASSUME NEW w \in Workers, WorkerClaim(w) PROVE TypeInv'
  <2>1. WorkerTypes'
    BY <1>16 DEF WorkerClaim, WorkerTypes, HookTypes
  <2>2. DeliveryRefs'
    BY <1>16 DEF WorkerClaim, DeliveryRefs, Replayers, HookTypes, WorkerTypes
  <2>3. RowTypes' /\ LedgerTypes' /\ HookTypes' /\ RequestTypes' /\
     SweepTypes' /\ HistoryTypes' /\ ActorRefs' /\ LogRefs' /\ PayloadRefs'
    BY <1>16 DEF WorkerClaim, RowTypes, LedgerTypes, HookTypes, RequestTypes,
       SweepTypes, HistoryTypes, ActorRefs, LogRefs, PayloadRefs,
       HoldsResponse
  <2> QED
    BY <2>1, <2>2, <2>3
<1>17. ASSUME NEW w \in Workers, CheckGuard(w) PROVE TypeInv'
  <2>1. WorkerTypes'
    BY <1>17 DEF CheckGuard, WorkerTypes
  <2>2. DeliveryRefs'
    BY <1>17 DEF CheckGuard, DeliveryRefs, Replayers, HookTypes, WorkerTypes
  <2>3. RowTypes' /\ LedgerTypes' /\ HookTypes' /\ RequestTypes' /\
     SweepTypes' /\ HistoryTypes' /\ ActorRefs' /\ LogRefs' /\ PayloadRefs'
    BY <1>17 DEF CheckGuard, RowTypes, LedgerTypes, HookTypes, RequestTypes,
       SweepTypes, HistoryTypes, ActorRefs, LogRefs, PayloadRefs,
       HoldsResponse
  <2> QED
    BY <2>1, <2>2, <2>3
<1>18. ASSUME NEW w \in Workers, BufferDelivery(w) PROVE TypeInv'
  <2>0. wtask[w] \in DOMAIN inbox /\ DOMAIN inbox \subseteq Deliveries
    BY <1>18 DEF BufferDelivery, DeliveryRefs, HookTypes, Deliveries
  <2>1. HookTypes'
    BY <1>18, <2>0 DEF BufferDelivery, HookTypes, Replayers, Deliveries
  <2>2. WorkerTypes'
    BY <1>18, <2>0 DEF BufferDelivery, WorkerTypes
  <2>3. DeliveryRefs'
    BY <1>18, <2>0 DEF BufferDelivery, DeliveryRefs, Replayers, HookTypes,
       WorkerTypes
  <2>4. RowTypes' /\ LedgerTypes' /\ RequestTypes' /\ SweepTypes' /\
     HistoryTypes' /\ ActorRefs' /\ LogRefs' /\ PayloadRefs'
    BY <1>18 DEF BufferDelivery, RowTypes, LedgerTypes, RequestTypes,
       SweepTypes, HistoryTypes, ActorRefs, LogRefs, PayloadRefs,
       HoldsResponse
  <2> QED
    BY <2>1, <2>2, <2>3, <2>4
<1>19. ASSUME NEW w \in Workers, ApplyDelivery(w) PROVE TypeInv'
  <2>0. inbox[wtask[w]] \in DOMAIN ghLog /\ UpsertIssue(inbox[wtask[w]],
     FallbackWindow)
    BY <1>19 DEF ApplyDelivery, LogRefs, DeliveryRefs, PayloadRefs
  <2>1. RowTypes'
    BY <1>19, <2>0, UpsertFacts DEF ApplyDelivery, RowTypes
  <2>2. WorkerTypes'
    BY <1>19, <2>0, UpsertFacts DEF ApplyDelivery, WorkerTypes
  <2>3. LogRefs'
    BY <1>19, <2>0, UpsertFacts DEF ApplyDelivery, LogRefs
  <2>4. DeliveryRefs'
    BY <1>19, <2>0, UpsertFacts DEF ApplyDelivery, DeliveryRefs, Replayers,
       HookTypes, WorkerTypes
  <2>5. LedgerTypes' /\ HookTypes' /\ RequestTypes' /\ SweepTypes' /\
     HistoryTypes' /\ ActorRefs' /\ PayloadRefs'
    BY <1>19 DEF ApplyDelivery, LedgerTypes, HookTypes, RequestTypes,
       SweepTypes, HistoryTypes, ActorRefs, PayloadRefs, HoldsResponse
  <2> QED
    BY <2>1, <2>2, <2>3, <2>4, <2>5
<1>20. ASSUME NEW w \in Workers, MarkProcessed(w) PROVE TypeInv'
  <2>0. wtask[w] \in DOMAIN inbox /\ DOMAIN inbox \subseteq Deliveries
    BY <1>20 DEF MarkProcessed, DeliveryRefs, HookTypes, Deliveries
  <2>1. HookTypes'
    BY <1>20, <2>0 DEF MarkProcessed, WorkerIdles, HookTypes, Replayers,
       Deliveries
  <2>2. WorkerTypes'
    BY <1>20, <2>0 DEF MarkProcessed, WorkerIdles, WorkerTypes
  <2>3. DeliveryRefs'
    BY <1>20, <2>0 DEF MarkProcessed, WorkerIdles, DeliveryRefs, Replayers,
       HookTypes, WorkerTypes
  <2>4. RowTypes' /\ LedgerTypes' /\ RequestTypes' /\ SweepTypes' /\
     HistoryTypes' /\ ActorRefs' /\ LogRefs' /\ PayloadRefs'
    BY <1>20 DEF MarkProcessed, WorkerIdles, RowTypes, LedgerTypes,
       RequestTypes, SweepTypes, HistoryTypes, ActorRefs, LogRefs,
       PayloadRefs, HoldsResponse
  <2> QED
    BY <2>1, <2>2, <2>3, <2>4
<1>21. ASSUME NEW w \in Workers, WorkerAborts(w) PROVE TypeInv'
  <2>1. WorkerTypes'
    BY <1>21 DEF WorkerAborts, WorkerIdles, WorkerTypes
  <2>2. DeliveryRefs'
    BY <1>21 DEF WorkerAborts, WorkerIdles, DeliveryRefs, Replayers,
       HookTypes, WorkerTypes
  <2>3. RowTypes' /\ LedgerTypes' /\ HookTypes' /\ RequestTypes' /\
     SweepTypes' /\ HistoryTypes' /\ ActorRefs' /\ LogRefs' /\ PayloadRefs'
    BY <1>21 DEF WorkerAborts, WorkerIdles, RowTypes, LedgerTypes, HookTypes,
       RequestTypes, SweepTypes, HistoryTypes, ActorRefs, LogRefs,
       PayloadRefs, HoldsResponse
  <2> QED
    BY <2>1, <2>2, <2>3
<1>22. ASSUME NEW s \in Sweepers, SweepListIssues(s) PROVE TypeInv'
  <2>1. SweepTypes'
    BY <1>22 DEF SweepListIssues, SweepTypes, RowTypes
  <2>2. RowTypes' /\ LedgerTypes' /\ HookTypes' /\ RequestTypes' /\
     WorkerTypes' /\ HistoryTypes' /\ ActorRefs' /\ LogRefs' /\ DeliveryRefs'
     /\ PayloadRefs'
    BY <1>22 DEF SweepListIssues, RowTypes, LedgerTypes, HookTypes,
       RequestTypes, WorkerTypes, HistoryTypes, ActorRefs, LogRefs,
       DeliveryRefs, PayloadRefs, HoldsResponse
  <2> QED
    BY <2>1, <2>2
<1>23. ASSUME NEW s \in Sweepers, SweepMatch(s) PROVE TypeInv'
  <2>1. SweepTypes'
    BY <1>23 DEF SweepMatch, SweepTypes, LedgerTypes
  <2>2. RowTypes' /\ LedgerTypes' /\ HookTypes' /\ RequestTypes' /\
     WorkerTypes' /\ HistoryTypes' /\ ActorRefs' /\ LogRefs' /\ DeliveryRefs'
     /\ PayloadRefs'
    BY <1>23 DEF SweepMatch, RowTypes, LedgerTypes, HookTypes, RequestTypes,
       WorkerTypes, HistoryTypes, ActorRefs, LogRefs, DeliveryRefs,
       PayloadRefs, HoldsResponse
  <2> QED
    BY <2>1, <2>2
<1>24. ASSUME NEW s \in Sweepers, SweepRelease(s) PROVE TypeInv'
  <2>0. ReleaseSlot(TRUE)
    BY <1>24 DEF SweepRelease
  <2>1. RowTypes'
    BY <1>24, <2>0, ReleaseFacts DEF SweepRelease, RowTypes
  <2>2. ActorRefs'
    BY <1>24, <2>0, ReleaseFacts DEF SweepRelease, ActorRefs
  <2>3. SweepTypes'
    BY <1>24, <2>0, ReleaseFacts DEF SweepRelease, SweepTypes
  <2>4. HistoryTypes'
    BY <1>24, <2>0, ReleaseFacts DEF SweepRelease, HistoryTypes
  <2>5. LedgerTypes' /\ HookTypes' /\ RequestTypes' /\ WorkerTypes' /\
     LogRefs' /\ DeliveryRefs' /\ PayloadRefs'
    BY <1>24 DEF SweepRelease, LedgerTypes, HookTypes, RequestTypes,
       WorkerTypes, LogRefs, DeliveryRefs, PayloadRefs, HoldsResponse
  <2> QED
    BY <2>1, <2>2, <2>3, <2>4, <2>5
<1>25. ASSUME NEW s \in Sweepers, SweepResolve(s) PROVE TypeInv'
  <2>1. LedgerTypes'
    BY <1>25 DEF SweepResolve, SweepIdles, UpdateResult, LedgerTypes, Results,
       SweepTypes
  <2>2. SweepTypes'
    BY <1>25 DEF SweepResolve, SweepIdles, UpdateResult, SweepTypes
  <2>3. RowTypes' /\ HookTypes' /\ RequestTypes' /\ WorkerTypes' /\
     HistoryTypes' /\ ActorRefs' /\ LogRefs' /\ DeliveryRefs' /\ PayloadRefs'
    BY <1>25 DEF SweepResolve, SweepIdles, UpdateResult, RowTypes, HookTypes,
       RequestTypes, WorkerTypes, HistoryTypes, ActorRefs, LogRefs,
       DeliveryRefs, PayloadRefs, HoldsResponse
  <2> QED
    BY <2>1, <2>2, <2>3
<1>26. ASSUME NEW s \in Sweepers, SweepAudit(s) PROVE TypeInv'
  <2>1. LedgerTypes'
    BY <1>26 DEF SweepAudit, LedgerTypes, Results, SweepTypes
  <2>2. SweepTypes'
    BY <1>26 DEF SweepAudit, SweepTypes
  <2>3. RowTypes' /\ HookTypes' /\ RequestTypes' /\ WorkerTypes' /\
     HistoryTypes' /\ ActorRefs' /\ LogRefs' /\ DeliveryRefs' /\ PayloadRefs'
    BY <1>26 DEF SweepAudit, RowTypes, HookTypes, RequestTypes, WorkerTypes,
       HistoryTypes, ActorRefs, LogRefs, DeliveryRefs, PayloadRefs,
       HoldsResponse
  <2> QED
    BY <2>1, <2>2, <2>3
<1>27. ASSUME NEW s \in Sweepers, SweepStartReplay(s) PROVE TypeInv'
  <2>1. HookTypes'
    BY <1>27 DEF SweepStartReplay, TakeBuffer, HookTypes, Replayers,
       Deliveries
  <2>2. SweepTypes'
    BY <1>27 DEF SweepStartReplay, TakeBuffer, SweepTypes
  <2>3. DeliveryRefs'
    BY <1>27 DEF SweepStartReplay, TakeBuffer, DeliveryRefs, Replayers,
       HookTypes
  <2>4. RowTypes' /\ LedgerTypes' /\ RequestTypes' /\ WorkerTypes' /\
     HistoryTypes' /\ ActorRefs' /\ LogRefs' /\ PayloadRefs'
    BY <1>27 DEF SweepStartReplay, TakeBuffer, RowTypes, LedgerTypes,
       RequestTypes, WorkerTypes, HistoryTypes, ActorRefs, LogRefs,
       PayloadRefs, HoldsResponse
  <2> QED
    BY <2>1, <2>2, <2>3, <2>4
<1>28. ASSUME NEW s \in Sweepers, SweepReplay(s) PROVE TypeInv'
  <2>0. PICK d \in batch[s] : /\ inbox[d] \in DOMAIN ghLog
                               /\ \/ UpsertIssue(inbox[d], FallbackWindow)
                                  \/ UNCHANGED <<version, fieldVars>>
                               /\ batch' = [batch EXCEPT ![s] = @ \ {d}]
    BY <1>28 DEF SweepReplay, ReplayEarliest, IsEarliest, LogRefs,
       DeliveryRefs, Replayers
  <2>1. RowTypes'
    BY <1>28, <2>0, UpsertFacts DEF SweepReplay, ReplayEarliest, IsEarliest,
       RowTypes
  <2>2. HookTypes'
    BY <1>28, <2>0, UpsertFacts DEF SweepReplay, ReplayEarliest, IsEarliest,
       HookTypes, Replayers, Deliveries
  <2>3. LogRefs'
    BY <1>28, <2>0, UpsertFacts DEF SweepReplay, ReplayEarliest, IsEarliest,
       LogRefs
  <2>4. DeliveryRefs'
    BY <1>28, <2>0, UpsertFacts DEF SweepReplay, ReplayEarliest, IsEarliest,
       DeliveryRefs, Replayers, HookTypes
  <2>5. LedgerTypes' /\ RequestTypes' /\ WorkerTypes' /\ SweepTypes' /\
     HistoryTypes' /\ ActorRefs' /\ PayloadRefs'
    BY <1>28 DEF SweepReplay, ReplayEarliest, IsEarliest, LedgerTypes,
       RequestTypes, WorkerTypes, SweepTypes, HistoryTypes, ActorRefs,
       PayloadRefs, HoldsResponse
  <2> QED
    BY <2>1, <2>2, <2>3, <2>4, <2>5
<1>29. ASSUME NEW s \in Sweepers, SweepFinish(s) PROVE TypeInv'
  <2>1. SweepTypes'
    BY <1>29 DEF SweepFinish, SweepIdles, SweepTypes
  <2>2. RowTypes' /\ LedgerTypes' /\ HookTypes' /\ RequestTypes' /\
     WorkerTypes' /\ HistoryTypes' /\ ActorRefs' /\ LogRefs' /\ DeliveryRefs'
     /\ PayloadRefs'
    BY <1>29 DEF SweepFinish, SweepIdles, RowTypes, LedgerTypes, HookTypes,
       RequestTypes, WorkerTypes, HistoryTypes, ActorRefs, LogRefs,
       DeliveryRefs, PayloadRefs, HoldsResponse
  <2> QED
    BY <2>1, <2>2
<1>30. ASSUME NEW s \in Sweepers, SweepAborts(s) PROVE TypeInv'
  <2>1. HookTypes'
    BY <1>30 DEF SweepAborts, SweepIdles, HookTypes, Replayers, Deliveries
  <2>2. SweepTypes'
    BY <1>30 DEF SweepAborts, SweepIdles, SweepTypes
  <2>3. DeliveryRefs'
    BY <1>30 DEF SweepAborts, SweepIdles, DeliveryRefs, Replayers, HookTypes
  <2>4. RowTypes' /\ LedgerTypes' /\ RequestTypes' /\ WorkerTypes' /\
     HistoryTypes' /\ ActorRefs' /\ LogRefs' /\ PayloadRefs'
    BY <1>30 DEF SweepAborts, SweepIdles, RowTypes, LedgerTypes, RequestTypes,
       WorkerTypes, HistoryTypes, ActorRefs, LogRefs, PayloadRefs,
       HoldsResponse
  <2> QED
    BY <2>1, <2>2, <2>3, <2>4
<1>31. CASE GitHubEdit
  <2>1. HookTypes'
    BY <1>31, NewRevisionFacts DEF GitHubEdit, HookTypes, Replayers,
       Deliveries
  <2>2. LogRefs'
    BY <1>31, NewRevisionFacts DEF GitHubEdit, LogRefs
  <2>3. PayloadRefs'
    BY <1>31, NewRevisionFacts DEF GitHubEdit, PayloadRefs, RequestTypes,
       Handlers, HoldsResponse
  <2>4. RowTypes' /\ LedgerTypes' /\ RequestTypes' /\ WorkerTypes' /\
     SweepTypes' /\ HistoryTypes' /\ ActorRefs' /\ DeliveryRefs'
    BY <1>31 DEF GitHubEdit, RowTypes, LedgerTypes, RequestTypes, WorkerTypes,
       SweepTypes, HistoryTypes, ActorRefs, DeliveryRefs, HoldsResponse
  <2> QED
    BY <2>1, <2>2, <2>3, <2>4
<1>32. CASE ReceiveWebhook
  <2>1. HookTypes'
    BY <1>32 DEF ReceiveWebhook, HookTypes, Replayers, Deliveries
  <2>2. LogRefs'
    BY <1>32 DEF ReceiveWebhook, LogRefs
  <2>3. DeliveryRefs'
    BY <1>32 DEF ReceiveWebhook, DeliveryRefs, Replayers, HookTypes
  <2>4. RowTypes' /\ LedgerTypes' /\ RequestTypes' /\ WorkerTypes' /\
     SweepTypes' /\ HistoryTypes' /\ ActorRefs' /\ PayloadRefs'
    BY <1>32 DEF ReceiveWebhook, RowTypes, LedgerTypes, RequestTypes,
       WorkerTypes, SweepTypes, HistoryTypes, ActorRefs, PayloadRefs,
       HoldsResponse
  <2> QED
    BY <2>1, <2>2, <2>3, <2>4
<1>33. CASE Tick
  <2>1. RowTypes'
    BY <1>33, AgeFacts DEF Tick, RowTypes
  <2>2. LedgerTypes'
    BY <1>33, AgeFacts DEF Tick, LedgerTypes, Results
  <2>3. HookTypes' /\ RequestTypes' /\ WorkerTypes' /\ SweepTypes' /\
     HistoryTypes' /\ ActorRefs' /\ LogRefs' /\ DeliveryRefs' /\ PayloadRefs'
    BY <1>33 DEF Tick, HookTypes, RequestTypes, WorkerTypes, SweepTypes,
       HistoryTypes, ActorRefs, LogRefs, DeliveryRefs, PayloadRefs,
       HoldsResponse
  <2> QED
    BY <2>1, <2>2, <2>3
<1>34. CASE UNCHANGED vars
  BY <1>34 DEF vars, RowTypes, LedgerTypes, HookTypes, RequestTypes,
     WorkerTypes, SweepTypes, HistoryTypes, ActorRefs, LogRefs, DeliveryRefs,
     PayloadRefs, HoldsResponse
<1> QED
  BY <1>1, <1>2, <1>3, <1>4, <1>5, <1>6, <1>7, <1>8, <1>9, <1>10, <1>11,
     <1>12, <1>13, <1>14, <1>15, <1>16, <1>17, <1>18, <1>19, <1>20, <1>21,
     <1>22, <1>23, <1>24, <1>25, <1>26, <1>27, <1>28, <1>29, <1>30, <1>31,
     <1>32, <1>33, <1>34 DEF Next, RequestStep, ResponseStep, WorkerStep,
     SweeperStep

\* The variables keep their types, whatever the actors and the bounds are.
THEOREM TypeCorrect == Spec => []TypeOK
<1> QED
  BY TypeInit, TypeStep, PTL DEF Spec, TypeInv

-----------------------------------------------------------------------------
(* What one step may do to the row, to a form and to GitHub *)

\* The row changes by an upsert, by a release of the slot or by a CAS.
RowUntouched == UNCHANGED <<version, pending, pendingActor, fieldVars, rolledBack>>

RowUpserted ==
    /\ \E revision \in DOMAIN ghLog, window \in Nat : UpsertIssue(revision, window)
    /\ UNCHANGED <<pending, pendingActor, rolledBack>>

RowReleased ==
    /\ \E bumpVersionAgain \in BOOLEAN : ReleaseSlot(bumpVersionAgain)
    /\ UNCHANGED fieldVars

RowEffect ==
    RowUntouched \/ RowUpserted \/ RowReleased \/ \E r \in Requests : Acquire(r)

\* A form that is open after a step was opened by it or was open before.
FormEffect ==
    \A r \in Requests : pc'[r] \in {"form", "loaded"} =>
        \/ OpenForm(r)
        \/ /\ pc[r] = pc'[r]
           /\ expected'[r] = expected[r]
           /\ seen'[r] = seen[r] /\ seenSlot'[r] = seenSlot[r]

LogEffect == NewRevision \/ UNCHANGED ghLog

StepEffect == RowEffect /\ FormEffect /\ LogEffect

\* Every step has one of these effects on each of the three.
LEMMA StepEffects == TypeInv /\ [Next]_vars => StepEffect
<1> SUFFICES ASSUME TypeInv, [Next]_vars PROVE StepEffect
  OBVIOUS
<1> USE DEF TypeInv, TypeOK, slotVars, fieldVars, ledgerVars, hookVars,
   requestVars, workerVars, sweepVars, auditVars, historyVars
<1>1. ASSUME NEW r \in Requests, OpenForm(r) PROVE StepEffect
  <2>1. RowEffect
    BY <1>1 DEF OpenForm, Handlers, RowEffect, RowUntouched
  <2>2. FormEffect
    BY <1>1 DEF OpenForm, Handlers, FormEffect, RequestTypes, HistoryTypes,
       Handlers, Running, Holding
  <2>3. LogEffect
    BY <1>1 DEF OpenForm, LogEffect
  <2> QED
    BY <2>1, <2>2, <2>3 DEF StepEffect
<1>2. ASSUME NEW r \in Requests, Acquire(r) PROVE StepEffect
  <2>1. RowEffect
    BY <1>2 DEF RowEffect
  <2>2. FormEffect
    BY <1>2 DEF Acquire, ForgetForm, CanAcquire, FormEffect, RequestTypes,
       HistoryTypes, Handlers, Running, Holding
  <2>3. LogEffect
    BY <1>2 DEF Acquire, LogEffect
  <2> QED
    BY <2>1, <2>2, <2>3 DEF StepEffect
<1>3. ASSUME NEW r \in Requests, AcquireStale(r) PROVE StepEffect
  <2>1. RowEffect
    BY <1>3 DEF AcquireStale, ForgetForm, RowEffect, RowUntouched
  <2>2. FormEffect
    BY <1>3 DEF AcquireStale, ForgetForm, FormEffect, RequestTypes,
       HistoryTypes, Handlers, Running, Holding
  <2>3. LogEffect
    BY <1>3 DEF AcquireStale, LogEffect
  <2> QED
    BY <2>1, <2>2, <2>3 DEF StepEffect
<1>4. ASSUME NEW r \in Requests, RecordMutation(r) PROVE StepEffect
  <2>1. RowEffect
    BY <1>4 DEF RecordMutation, RowEffect, RowUntouched
  <2>2. FormEffect
    BY <1>4 DEF RecordMutation, FormEffect, RequestTypes, HistoryTypes,
       Handlers, Running, Holding
  <2>3. LogEffect
    BY <1>4 DEF RecordMutation, LogEffect
  <2> QED
    BY <2>1, <2>2, <2>3 DEF StepEffect
<1>5. ASSUME NEW r \in Requests, GitHubAccepts(r) PROVE StepEffect
  <2>1. RowEffect
    BY <1>5 DEF GitHubAccepts, RowEffect, RowUntouched
  <2>2. FormEffect
    BY <1>5 DEF GitHubAccepts, FormEffect, RequestTypes, HistoryTypes,
       Handlers, Running, Holding
  <2>3. LogEffect
    BY <1>5 DEF GitHubAccepts, LogEffect
  <2> QED
    BY <2>1, <2>2, <2>3 DEF StepEffect
<1>6. ASSUME NEW r \in Requests, GitHubFails(r) PROVE StepEffect
  <2>1. RowEffect
    BY <1>6 DEF GitHubFails, RowEffect, RowUntouched
  <2>2. FormEffect
    BY <1>6 DEF GitHubFails, FormEffect, RequestTypes, HistoryTypes, Handlers,
       Running, Holding
  <2>3. LogEffect
    BY <1>6 DEF GitHubFails, LogEffect
  <2> QED
    BY <2>1, <2>2, <2>3 DEF StepEffect
<1>7. ASSUME NEW r \in Requests, Release(r) PROVE StepEffect
  <2>1. RowEffect
    <3>1. ReleaseSlot(answer[r] = "error") /\ (answer[r] = "error") \in
       BOOLEAN
      BY <1>7 DEF Release
    <3> QED
      BY <1>7, <3>1 DEF RowEffect, RowReleased, Release
  <2>2. FormEffect
    BY <1>7 DEF Release, FormEffect, RequestTypes, HistoryTypes, Handlers,
       Running, Holding
  <2>3. LogEffect
    BY <1>7 DEF Release, LogEffect
  <2> QED
    BY <2>1, <2>2, <2>3 DEF StepEffect
<1>8. ASSUME NEW r \in Requests, Resolve(r) PROVE StepEffect
  <2>1. RowEffect
    BY <1>8 DEF Resolve, UpdateResult, RowEffect, RowUntouched
  <2>2. FormEffect
    BY <1>8 DEF Resolve, UpdateResult, FormEffect, RequestTypes, HistoryTypes,
       Handlers, Running, Holding
  <2>3. LogEffect
    BY <1>8 DEF Resolve, LogEffect
  <2> QED
    BY <2>1, <2>2, <2>3 DEF StepEffect
<1>9. ASSUME NEW r \in Requests, AuditVerb(r) PROVE StepEffect
  <2>1. RowEffect
    BY <1>9 DEF AuditVerb, RowEffect, RowUntouched
  <2>2. FormEffect
    BY <1>9 DEF AuditVerb, FormEffect, RequestTypes, HistoryTypes, Handlers,
       Running, Holding
  <2>3. LogEffect
    BY <1>9 DEF AuditVerb, LogEffect
  <2> QED
    BY <2>1, <2>2, <2>3 DEF StepEffect
<1>10. ASSUME NEW r \in Requests, StartReplay(r) PROVE StepEffect
  <2>1. RowEffect
    BY <1>10 DEF StartReplay, TakeBuffer, RowEffect, RowUntouched
  <2>2. FormEffect
    BY <1>10 DEF StartReplay, TakeBuffer, FormEffect, RequestTypes,
       HistoryTypes, Handlers, Running, Holding
  <2>3. LogEffect
    BY <1>10 DEF StartReplay, LogEffect
  <2> QED
    BY <2>1, <2>2, <2>3 DEF StepEffect
<1>11. ASSUME NEW r \in Requests, Replay(r) PROVE StepEffect
  <2>1. RowEffect
    <3>1. PICK d \in batch[r] : inbox[d] \in DOMAIN ghLog
                     /\ \/ UpsertIssue(inbox[d], FallbackWindow)
                        \/ UNCHANGED <<version, fieldVars>>
      BY <1>11 DEF Replay, ReplayEarliest, IsEarliest, LogRefs, DeliveryRefs,
         Replayers
    <3> QED
      BY <1>11, <3>1 DEF RowEffect, RowUpserted, RowUntouched, Replay
  <2>2. FormEffect
    BY <1>11 DEF Replay, ReplayEarliest, IsEarliest, FormEffect
  <2>3. LogEffect
    BY <1>11 DEF Replay, LogEffect
  <2> QED
    BY <2>1, <2>2, <2>3 DEF StepEffect
<1>12. ASSUME NEW r \in Requests, FinishReplay(r) PROVE StepEffect
  <2>1. RowEffect
    BY <1>12 DEF FinishReplay, RowEffect, RowUntouched
  <2>2. FormEffect
    BY <1>12 DEF FinishReplay, FormEffect, RequestTypes, HistoryTypes,
       Handlers, Running, Holding
  <2>3. LogEffect
    BY <1>12 DEF FinishReplay, LogEffect
  <2> QED
    BY <2>1, <2>2, <2>3 DEF StepEffect
<1>13. ASSUME NEW r \in Requests, Abandon(r) PROVE StepEffect
  <2>1. RowEffect
    BY <1>13 DEF Abandon, RowEffect, RowUntouched
  <2>2. FormEffect
    BY <1>13 DEF Abandon, FormEffect, RequestTypes, HistoryTypes, Handlers,
       Running, Holding
  <2>3. LogEffect
    BY <1>13 DEF Abandon, LogEffect
  <2> QED
    BY <2>1, <2>2, <2>3 DEF StepEffect
<1>14. ASSUME NEW h \in Handlers, Refetch(h) PROVE StepEffect
  <2>1. RowEffect
    BY <1>14 DEF Refetch, RowEffect, RowUntouched
  <2>2. FormEffect
    BY <1>14 DEF Refetch, FormEffect, RequestTypes, HistoryTypes, Handlers,
       Running, Holding
  <2>3. LogEffect
    BY <1>14 DEF Refetch, LogEffect
  <2> QED
    BY <2>1, <2>2, <2>3 DEF StepEffect
<1>15. ASSUME NEW h \in Handlers, UpsertResponse(h) PROVE StepEffect
  <2>1. RowEffect
    <3>1. payload[h] \in DOMAIN ghLog /\ 0 \in Nat /\ UpsertIssue(payload[h],
       0)
      BY <1>15 DEF UpsertResponse, LogRefs, DeliveryRefs, PayloadRefs
    <3> QED
      BY <1>15, <3>1 DEF RowEffect, RowUpserted, RowUntouched, UpsertResponse
  <2>2. FormEffect
    BY <1>15 DEF UpsertResponse, FormEffect, RequestTypes, HistoryTypes,
       Handlers, Running, Holding
  <2>3. LogEffect
    BY <1>15 DEF UpsertResponse, LogEffect
  <2> QED
    BY <2>1, <2>2, <2>3 DEF StepEffect
<1>16. ASSUME NEW w \in Workers, WorkerClaim(w) PROVE StepEffect
  <2>1. RowEffect
    BY <1>16 DEF WorkerClaim, RowEffect, RowUntouched
  <2>2. FormEffect
    BY <1>16 DEF WorkerClaim, FormEffect
  <2>3. LogEffect
    BY <1>16 DEF WorkerClaim, LogEffect
  <2> QED
    BY <2>1, <2>2, <2>3 DEF StepEffect
<1>17. ASSUME NEW w \in Workers, CheckGuard(w) PROVE StepEffect
  <2>1. RowEffect
    BY <1>17 DEF CheckGuard, RowEffect, RowUntouched
  <2>2. FormEffect
    BY <1>17 DEF CheckGuard, FormEffect
  <2>3. LogEffect
    BY <1>17 DEF CheckGuard, LogEffect
  <2> QED
    BY <2>1, <2>2, <2>3 DEF StepEffect
<1>18. ASSUME NEW w \in Workers, BufferDelivery(w) PROVE StepEffect
  <2>1. RowEffect
    BY <1>18 DEF BufferDelivery, RowEffect, RowUntouched
  <2>2. FormEffect
    BY <1>18 DEF BufferDelivery, FormEffect
  <2>3. LogEffect
    BY <1>18 DEF BufferDelivery, LogEffect
  <2> QED
    BY <2>1, <2>2, <2>3 DEF StepEffect
<1>19. ASSUME NEW w \in Workers, ApplyDelivery(w) PROVE StepEffect
  <2>1. RowEffect
    <3>1. inbox[wtask[w]] \in DOMAIN ghLog /\ FallbackWindow \in Nat /\
       UpsertIssue(inbox[wtask[w]], FallbackWindow)
      BY <1>19 DEF ApplyDelivery, LogRefs, DeliveryRefs, PayloadRefs
    <3> QED
      BY <1>19, <3>1 DEF RowEffect, RowUpserted, RowUntouched, ApplyDelivery
  <2>2. FormEffect
    BY <1>19 DEF ApplyDelivery, FormEffect
  <2>3. LogEffect
    BY <1>19 DEF ApplyDelivery, LogEffect
  <2> QED
    BY <2>1, <2>2, <2>3 DEF StepEffect
<1>20. ASSUME NEW w \in Workers, MarkProcessed(w) PROVE StepEffect
  <2>1. RowEffect
    BY <1>20 DEF MarkProcessed, WorkerIdles, RowEffect, RowUntouched
  <2>2. FormEffect
    BY <1>20 DEF MarkProcessed, WorkerIdles, FormEffect
  <2>3. LogEffect
    BY <1>20 DEF MarkProcessed, LogEffect
  <2> QED
    BY <2>1, <2>2, <2>3 DEF StepEffect
<1>21. ASSUME NEW w \in Workers, WorkerAborts(w) PROVE StepEffect
  <2>1. RowEffect
    BY <1>21 DEF WorkerAborts, WorkerIdles, RowEffect, RowUntouched
  <2>2. FormEffect
    BY <1>21 DEF WorkerAborts, WorkerIdles, FormEffect
  <2>3. LogEffect
    BY <1>21 DEF WorkerAborts, LogEffect
  <2> QED
    BY <2>1, <2>2, <2>3 DEF StepEffect
<1>22. ASSUME NEW s \in Sweepers, SweepListIssues(s) PROVE StepEffect
  <2>1. RowEffect
    BY <1>22 DEF SweepListIssues, RowEffect, RowUntouched
  <2>2. FormEffect
    BY <1>22 DEF SweepListIssues, FormEffect
  <2>3. LogEffect
    BY <1>22 DEF SweepListIssues, LogEffect
  <2> QED
    BY <2>1, <2>2, <2>3 DEF StepEffect
<1>23. ASSUME NEW s \in Sweepers, SweepMatch(s) PROVE StepEffect
  <2>1. RowEffect
    BY <1>23 DEF SweepMatch, RowEffect, RowUntouched
  <2>2. FormEffect
    BY <1>23 DEF SweepMatch, FormEffect
  <2>3. LogEffect
    BY <1>23 DEF SweepMatch, LogEffect
  <2> QED
    BY <2>1, <2>2, <2>3 DEF StepEffect
<1>24. ASSUME NEW s \in Sweepers, SweepRelease(s) PROVE StepEffect
  <2>1. RowEffect
    <3>1. ReleaseSlot(TRUE) /\ (TRUE) \in BOOLEAN
      BY <1>24 DEF SweepRelease
    <3> QED
      BY <1>24, <3>1 DEF RowEffect, RowReleased, SweepRelease
  <2>2. FormEffect
    BY <1>24 DEF SweepRelease, FormEffect, RequestTypes, HistoryTypes,
       Handlers, Running, Holding
  <2>3. LogEffect
    BY <1>24 DEF SweepRelease, LogEffect
  <2> QED
    BY <2>1, <2>2, <2>3 DEF StepEffect
<1>25. ASSUME NEW s \in Sweepers, SweepResolve(s) PROVE StepEffect
  <2>1. RowEffect
    BY <1>25 DEF SweepResolve, SweepIdles, UpdateResult, RowEffect,
       RowUntouched
  <2>2. FormEffect
    BY <1>25 DEF SweepResolve, SweepIdles, UpdateResult, FormEffect
  <2>3. LogEffect
    BY <1>25 DEF SweepResolve, LogEffect
  <2> QED
    BY <2>1, <2>2, <2>3 DEF StepEffect
<1>26. ASSUME NEW s \in Sweepers, SweepAudit(s) PROVE StepEffect
  <2>1. RowEffect
    BY <1>26 DEF SweepAudit, RowEffect, RowUntouched
  <2>2. FormEffect
    BY <1>26 DEF SweepAudit, FormEffect
  <2>3. LogEffect
    BY <1>26 DEF SweepAudit, LogEffect
  <2> QED
    BY <2>1, <2>2, <2>3 DEF StepEffect
<1>27. ASSUME NEW s \in Sweepers, SweepStartReplay(s) PROVE StepEffect
  <2>1. RowEffect
    BY <1>27 DEF SweepStartReplay, TakeBuffer, RowEffect, RowUntouched
  <2>2. FormEffect
    BY <1>27 DEF SweepStartReplay, TakeBuffer, FormEffect
  <2>3. LogEffect
    BY <1>27 DEF SweepStartReplay, LogEffect
  <2> QED
    BY <2>1, <2>2, <2>3 DEF StepEffect
<1>28. ASSUME NEW s \in Sweepers, SweepReplay(s) PROVE StepEffect
  <2>1. RowEffect
    <3>1. PICK d \in batch[s] : inbox[d] \in DOMAIN ghLog
                     /\ \/ UpsertIssue(inbox[d], FallbackWindow)
                        \/ UNCHANGED <<version, fieldVars>>
      BY <1>28 DEF SweepReplay, ReplayEarliest, IsEarliest, LogRefs,
         DeliveryRefs, Replayers
    <3> QED
      BY <1>28, <3>1 DEF RowEffect, RowUpserted, RowUntouched, SweepReplay
  <2>2. FormEffect
    BY <1>28 DEF SweepReplay, ReplayEarliest, IsEarliest, FormEffect
  <2>3. LogEffect
    BY <1>28 DEF SweepReplay, LogEffect
  <2> QED
    BY <2>1, <2>2, <2>3 DEF StepEffect
<1>29. ASSUME NEW s \in Sweepers, SweepFinish(s) PROVE StepEffect
  <2>1. RowEffect
    BY <1>29 DEF SweepFinish, SweepIdles, RowEffect, RowUntouched
  <2>2. FormEffect
    BY <1>29 DEF SweepFinish, SweepIdles, FormEffect
  <2>3. LogEffect
    BY <1>29 DEF SweepFinish, LogEffect
  <2> QED
    BY <2>1, <2>2, <2>3 DEF StepEffect
<1>30. ASSUME NEW s \in Sweepers, SweepAborts(s) PROVE StepEffect
  <2>1. RowEffect
    BY <1>30 DEF SweepAborts, SweepIdles, RowEffect, RowUntouched
  <2>2. FormEffect
    BY <1>30 DEF SweepAborts, SweepIdles, FormEffect
  <2>3. LogEffect
    BY <1>30 DEF SweepAborts, LogEffect
  <2> QED
    BY <2>1, <2>2, <2>3 DEF StepEffect
<1>31. CASE GitHubEdit
  <2>1. RowEffect
    BY <1>31 DEF GitHubEdit, RowEffect, RowUntouched
  <2>2. FormEffect
    BY <1>31 DEF GitHubEdit, FormEffect
  <2>3. LogEffect
    BY <1>31 DEF GitHubEdit, LogEffect
  <2> QED
    BY <2>1, <2>2, <2>3 DEF StepEffect
<1>32. CASE ReceiveWebhook
  <2>1. RowEffect
    BY <1>32 DEF ReceiveWebhook, RowEffect, RowUntouched
  <2>2. FormEffect
    BY <1>32 DEF ReceiveWebhook, FormEffect
  <2>3. LogEffect
    BY <1>32 DEF ReceiveWebhook, LogEffect
  <2> QED
    BY <2>1, <2>2, <2>3 DEF StepEffect
<1>33. CASE Tick
  <2>1. RowEffect
    BY <1>33 DEF Tick, RowEffect, RowUntouched
  <2>2. FormEffect
    BY <1>33 DEF Tick, FormEffect
  <2>3. LogEffect
    BY <1>33 DEF Tick, LogEffect
  <2> QED
    BY <2>1, <2>2, <2>3 DEF StepEffect
<1>34. CASE UNCHANGED vars
  BY <1>34 DEF vars, StepEffect, RowEffect, RowUntouched, FormEffect,
     LogEffect
<1> QED
  BY <1>1, <1>2, <1>3, <1>4, <1>5, <1>6, <1>7, <1>8, <1>9, <1>10, <1>11,
     <1>12, <1>13, <1>14, <1>15, <1>16, <1>17, <1>18, <1>19, <1>20, <1>21,
     <1>22, <1>23, <1>24, <1>25, <1>26, <1>27, <1>28, <1>29, <1>30, <1>31,
     <1>32, <1>33, <1>34 DEF Next, RequestStep, ResponseStep, WorkerStep,
     SweeperStep

-----------------------------------------------------------------------------
(* Readers of the row *)

\* version never goes back, and it moves whenever a field of the issue does.
LEMMA VersionStep ==
    ASSUME TypeInv, StepEffect
    PROVE  /\ version \in Nat /\ version' \in Nat /\ version <= version'
           /\ fieldVars' # fieldVars => version < version'
<1> USE DEF TypeInv, TypeOK, slotVars, fieldVars, ledgerVars, hookVars,
   requestVars, workerVars, sweepVars, auditVars, historyVars
<1>1. CASE RowUntouched
  BY <1>1 DEF RowUntouched, RowTypes
<1>2. CASE RowUpserted
  <2>1. PICK revision \in DOMAIN ghLog, window \in Nat :
           UpsertIssue(revision, window)
    BY <1>2 DEF RowUpserted
  <2> QED
    BY <2>1, UpsertFacts DEF UpsertIssue, RowTypes
<1>3. CASE RowReleased
  BY <1>3 DEF RowReleased, ReleaseSlot, RowTypes
<1>4. CASE \E r \in Requests : Acquire(r)
  BY <1>4 DEF Acquire, RowTypes
<1> QED
  BY <1>1, <1>2, <1>3, <1>4 DEF StepEffect, RowEffect

\* Every change of an issue's fields, by whatever path it arrives, shows in
\* its version: the column try_acquire_issue_pending_remote compares.
THEOREM ChangeIsVersioned == Spec => VersionTellsChange
<1>1. TypeInv /\ [Next]_vars
         => [/\ version' >= version
             /\ fieldVars' # fieldVars => version' > version]_vars
  BY StepEffects, VersionStep
<1> QED
  BY <1>1, TypeInit, TypeStep, PTL DEF Spec, VersionTellsChange

\* What a form was loaded with is still there while its version matches; and
\* a slot that is taken, or was rolled back, belongs to a submitted request.
ReaderInv ==
    /\ \A r \in Requests : pc[r] = "loaded" =>
          /\ expected[r] <= version
          /\ expected[r] = version => seen[r] = content
          /\ seenSlot[r] \in rolledBack => expected[r] # version
    /\ pendingActor \notin rolledBack
    /\ \A r \in Requests : r = pendingActor \/ r \in rolledBack
          => pc[r] \notin {"form", "loaded"}

\* No form is open when the system starts.
LEMMA ReaderInit == Init => ReaderInv
BY DEF Init, ReaderInv, Handlers

\* No step opens a gap between a form and the row it was loaded from.
LEMMA ReaderStep == TypeInv /\ ReaderInv /\ [Next]_vars => ReaderInv'
<1> SUFFICES ASSUME TypeInv, ReaderInv, [Next]_vars PROVE ReaderInv'
  OBVIOUS
<1> USE DEF TypeInv, TypeOK, slotVars, fieldVars, ledgerVars, hookVars,
   requestVars, workerVars, sweepVars, auditVars, historyVars
<1>1. StepEffect
  BY StepEffects
<1>2. /\ version \in Nat /\ version' \in Nat /\ version <= version'
      /\ fieldVars' # fieldVars => version < version'
  BY <1>1, VersionStep
<1>3. \A r \in Requests : expected[r] \in Nat
  BY DEF RequestTypes
<1>4. Nobody \notin rolledBack
  BY DEF HistoryTypes
<1>5. \/ rolledBack' = rolledBack
      \/ version < version' /\ rolledBack' = rolledBack \cup {pendingActor}
  <2>1. CASE RowReleased
    <3>1. PICK bumpVersionAgain \in BOOLEAN : ReleaseSlot(bumpVersionAgain)
      BY <2>1 DEF RowReleased
    <3> QED
      BY <3>1 DEF ReleaseSlot, RowTypes
  <2>2. CASE RowUntouched \/ RowUpserted
    BY <2>2 DEF RowUntouched, RowUpserted
  <2>3. CASE \E r \in Requests : Acquire(r)
    BY <2>3 DEF Acquire, ForgetForm
  <2> QED
    BY <1>1, <2>1, <2>2, <2>3 DEF StepEffect, RowEffect
<1>6. ASSUME NEW r \in Requests, pc'[r] = "loaded"
      PROVE  /\ expected'[r] <= version'
             /\ expected'[r] = version' => seen'[r] = content'
             /\ seenSlot'[r] \in rolledBack' => expected'[r] # version'
  <2>1. CASE OpenForm(r)
    <3>1. /\ expected'[r] = version /\ version' = version
          /\ seen'[r] = content /\ content' = content
          /\ seenSlot'[r] = pendingActor /\ rolledBack' = rolledBack
      BY <2>1 DEF OpenForm, RequestTypes, HistoryTypes, fieldVars
    <3> QED
      BY <3>1, <1>2 DEF ReaderInv
  <2>2. CASE /\ pc[r] = "loaded" /\ expected'[r] = expected[r]
             /\ seen'[r] = seen[r] /\ seenSlot'[r] = seenSlot[r]
    BY <2>2, <1>2, <1>3, <1>5 DEF ReaderInv, fieldVars
  <2> QED
    BY <1>1, <1>6, <2>1, <2>2 DEF StepEffect, FormEffect
<1>7. /\ pendingActor' \notin rolledBack'
      /\ \A r \in Requests : r = pendingActor' \/ r \in rolledBack'
            => pc'[r] \notin {"form", "loaded"}
  <2>1. ASSUME NEW r \in Requests, pc'[r] \in {"form", "loaded"}
        PROVE  pc[r] \in {"form", "loaded"}
    BY <1>1, <2>1 DEF StepEffect, FormEffect, OpenForm
  <2>2. CASE RowReleased
    BY <2>1, <2>2, <1>4 DEF RowReleased, ReleaseSlot, ReaderInv, ActorRefs
  <2>3. CASE RowUntouched \/ RowUpserted
    BY <2>1, <2>3 DEF RowUntouched, RowUpserted, ReaderInv
  <2>4. ASSUME NEW r \in Requests, Acquire(r)
        PROVE  /\ pendingActor' = r /\ rolledBack' = rolledBack
               /\ pc[r] = "loaded" /\ pc'[r] = "acquired"
    BY <2>4 DEF Acquire, ForgetForm, RequestTypes, Handlers
  <2>5. CASE \E r \in Requests : Acquire(r)
    BY <2>1, <2>4, <2>5 DEF ReaderInv
  <2> QED
    BY <1>1, <2>2, <2>3, <2>5 DEF StepEffect, RowEffect
<1> QED
  BY <1>6, <1>7 DEF ReaderInv

\* The CAS lets no edit through that was made against older fields.
THEOREM ReaderIsProtected == Spec => []CasProtectsReader
<1>1. ReaderInv => CasProtectsReader
  BY DEF ReaderInv, CasProtectsReader
<1> QED
  BY <1>1, TypeInit, TypeStep, ReaderInit, ReaderStep, PTL DEF Spec

\* The second bump of a rollback reaches every form loaded before it.
THEOREM RollbackIsNoticed == Spec => []RollbackInvalidatesReaders
<1>1. ReaderInv => RollbackInvalidatesReaders
  BY DEF ReaderInv, RollbackInvalidatesReaders
<1> QED
  BY <1>1, TypeInit, TypeStep, ReaderInit, ReaderStep, PTL DEF Spec

-----------------------------------------------------------------------------
(* The mirror never goes back *)

\* GitHub's stamps never decrease, and the row's stamp is its revision's.
LogInv ==
    /\ updatedAt = ghLog[content]
    /\ \A i, j \in DOMAIN ghLog : i <= j => ghLog[i] <= ghLog[j]

\* The mirror row starts as a copy of the first revision.
LEMMA LogInit == Init => LogInv
BY DEF Init, LogInv

\* The row stays a copy of a revision, and the log stays in order.
LEMMA LogStep ==
    TypeInv /\ LogInv /\ [Next]_vars
        => LogInv' /\ content' >= content /\ updatedAt' >= updatedAt
<1> SUFFICES ASSUME TypeInv, LogInv, [Next]_vars
             PROVE  LogInv' /\ content' >= content /\ updatedAt' >= updatedAt
  OBVIOUS
<1> USE DEF TypeInv, TypeOK, slotVars, fieldVars, ledgerVars, hookVars,
   requestVars, workerVars, sweepVars, auditVars, historyVars
<1>1. StepEffect
  BY StepEffects
<1>2. \A i \in DOMAIN ghLog : i \in Nat /\ ghLog[i] \in Nat
  BY DEF HookTypes
<1>3. /\ content' \in DOMAIN ghLog /\ updatedAt' = ghLog[content']
      /\ content' >= content /\ updatedAt' >= updatedAt
  <2>1. content \in DOMAIN ghLog /\ content >= content /\ updatedAt >=
     updatedAt
    BY DEF LogRefs, RowTypes
  <2>2. CASE RowUpserted
    <3>1. PICK revision \in DOMAIN ghLog, window \in Nat :
             UpsertIssue(revision, window)
      BY <2>2 DEF RowUpserted
    <3>2. CASE /\ content' = revision /\ updatedAt' = ghLog[revision]
               /\ ghLog[revision] > updatedAt
      <4>1. ~(revision <= content)
        BY <3>2, <2>1, <1>2 DEF LogInv
      <4> QED
        BY <4>1, <3>2, <2>1, <1>2 DEF LogInv
    <3> QED
      BY <3>1, <3>2, <2>1 DEF UpsertIssue, fieldVars, LogInv
  <2>3. CASE UNCHANGED fieldVars
    BY <2>1, <2>3 DEF fieldVars, LogInv
  <2>4. RowUntouched \/ RowReleased \/ (\E r \in Requests : Acquire(r))
           => UNCHANGED fieldVars
    BY DEF RowUntouched, RowReleased, Acquire, fieldVars
  <2> QED
    BY <1>1, <2>2, <2>3, <2>4 DEF StepEffect, RowEffect
<1>4. /\ \A i \in DOMAIN ghLog : i \in DOMAIN ghLog' /\ ghLog'[i] = ghLog[i]
      /\ \A i, j \in DOMAIN ghLog' : i <= j => ghLog'[i] <= ghLog'[j]
  <2>1. CASE UNCHANGED ghLog
    BY <2>1 DEF LogInv
  <2>2. CASE NewRevision
    <3>1. PICK gap \in EditGaps :
             ghLog' = Append(ghLog, ghLog[Len(ghLog)] + gap)
      BY <2>2 DEF NewRevision
    <3>2. Len(ghLog) \in DOMAIN ghLog /\ DOMAIN ghLog = 1..Len(ghLog)
          /\ gap \in Nat /\ Len(ghLog) \in Nat
      BY DEF LogRefs, HookTypes
    <3>3. /\ DOMAIN ghLog' = 1..(Len(ghLog) + 1)
          /\ \A i \in DOMAIN ghLog : ghLog'[i] = ghLog[i]
          /\ ghLog'[Len(ghLog) + 1] = ghLog[Len(ghLog)] + gap
      BY <3>1, <3>2, <1>2 DEF HookTypes
    <3>4. \A i \in DOMAIN ghLog : ghLog[i] <= ghLog[Len(ghLog)]
      BY <3>2 DEF LogInv
    <3>5. ASSUME NEW i \in DOMAIN ghLog', NEW j \in DOMAIN ghLog', i <= j
          PROVE  ghLog'[i] <= ghLog'[j]
      <4>1. CASE j \in DOMAIN ghLog
        <5>1. i \in DOMAIN ghLog
          BY <4>1, <3>5, <3>2, <3>3
        <5> QED
          BY <5>1, <4>1, <3>5, <3>3 DEF LogInv
      <4>2. CASE j = Len(ghLog) + 1 /\ i \in DOMAIN ghLog
        BY <4>2, <3>2, <3>3, <3>4, <1>2
      <4>3. CASE j = Len(ghLog) + 1 /\ i = j
        BY <4>3, <3>2, <3>3, <1>2
      <4> QED
        BY <4>1, <4>2, <4>3, <3>2, <3>3
    <3> QED
      BY <3>2, <3>3, <3>5
  <2> QED
    BY <1>1, <2>1, <2>2 DEF StepEffect, LogEffect
<1>5. LogInv'
  BY <1>3, <1>4 DEF LogInv
<1> QED
  BY <1>3, <1>5

\* However late, often and disordered payloads arrive, the row never goes back
\* to an older revision of the issue.
THEOREM MirrorNeverRegresses == Spec => FieldsNeverRegress
<1>1. TypeInv /\ LogInv /\ [Next]_vars
         => [content' >= content /\ updatedAt' >= updatedAt]_vars
  BY LogStep
<1>2. TypeInv /\ LogInv /\ [Next]_vars => LogInv'
  BY LogStep
<1> QED
  BY <1>1, <1>2, TypeInit, TypeStep, LogInit, PTL DEF Spec, FieldsNeverRegress

-----------------------------------------------------------------------------
(* Verdicts *)

\* A request has no verdict before its ledger row and no answer before its
\* GitHub call; a verdict comes with its audit row, or the handler that gave it
\* has yet to write it or was cut short.
Unrecorded == {"form", "loaded", "stale", "acquired"}

RequestInv ==
    /\ \A r \in Requests :
          /\ pc[r] \in Unrecorded => result[r] = "none"
          /\ pc[r] \in Unrecorded \cup {"recorded"} => answer[r] = "none"
          /\ pc[r] = "answered" => answer[r] # "none"
    /\ AuditedUnlessInterrupted

VerdictsStay == \A r \in Requests : result[r] \in Settled => result'[r] = result[r]

\* No request has a verdict when the system starts.
LEMMA RequestInit == Init => RequestInv
BY DEF Init, RequestInv, Handlers, Unrecorded, AuditedUnlessInterrupted

\* Only the handler or the sweep that owes the audit row gives a verdict.
LEMMA RequestInvStep ==
    TypeInv /\ RequestInv /\ [Next]_vars => RequestInv' /\ VerdictsStay
<1> SUFFICES ASSUME TypeInv, RequestInv, [Next]_vars
             PROVE  RequestInv' /\ VerdictsStay
  OBVIOUS
<1> USE DEF TypeInv, TypeOK, RequestTypes, LedgerTypes, SweepTypes,
       slotVars, fieldVars, ledgerVars, hookVars, requestVars, workerVars,
       sweepVars, auditVars, historyVars
<1>1. ASSUME UNCHANGED <<pc, answer, result, audited>>
      PROVE  RequestInv' /\ VerdictsStay
  BY <1>1 DEF RequestInv, VerdictsStay, AuditedUnlessInterrupted
<1>2. ASSUME NEW r \in Requests, OpenForm(r)
      PROVE  RequestInv' /\ VerdictsStay
  BY <1>2 DEF OpenForm, RequestInv, VerdictsStay, Unrecorded,
     AuditedUnlessInterrupted, Settled, Handlers
<1>3. ASSUME NEW r \in Requests, Acquire(r)
      PROVE  RequestInv' /\ VerdictsStay
  BY <1>3 DEF Acquire, RequestInv, VerdictsStay, Unrecorded,
     AuditedUnlessInterrupted, Settled, Handlers
<1>4. ASSUME NEW r \in Requests, AcquireStale(r)
      PROVE  RequestInv' /\ VerdictsStay
  BY <1>4 DEF AcquireStale, RequestInv, VerdictsStay, Unrecorded,
     AuditedUnlessInterrupted, Settled, Handlers
<1>5. ASSUME NEW r \in Requests, RecordMutation(r)
      PROVE  RequestInv' /\ VerdictsStay
  BY <1>5 DEF RecordMutation, RequestInv, VerdictsStay, Unrecorded,
     AuditedUnlessInterrupted, Settled, Handlers
<1>6. ASSUME NEW r \in Requests, GitHubAccepts(r)
      PROVE  RequestInv' /\ VerdictsStay
  BY <1>6 DEF GitHubAccepts, RequestInv, VerdictsStay, Unrecorded,
     AuditedUnlessInterrupted, Settled, Handlers
<1>7. ASSUME NEW r \in Requests, GitHubFails(r)
      PROVE  RequestInv' /\ VerdictsStay
  BY <1>7 DEF GitHubFails, RequestInv, VerdictsStay, Unrecorded,
     AuditedUnlessInterrupted, Settled, Handlers
<1>8. ASSUME NEW r \in Requests, Release(r)
      PROVE  RequestInv' /\ VerdictsStay
  BY <1>8 DEF Release, RequestInv, VerdictsStay, Unrecorded,
     AuditedUnlessInterrupted, Settled, Handlers
<1>9. ASSUME NEW r \in Requests, Resolve(r)
      PROVE  RequestInv' /\ VerdictsStay
  <2>1. CASE result[r] = "pending"
    <3>1. /\ pc'[r] = "resolved" /\ UNCHANGED <<answer, audited>>
          /\ \A q \in Requests \ {r} :
                pc'[q] = pc[q] /\ result'[q] = result[q]
      BY <1>9, <2>1 DEF Resolve, UpdateResult, Handlers
    <3> QED
      BY <3>1, <2>1 DEF RequestInv, VerdictsStay, Unrecorded,
         AuditedUnlessInterrupted, Settled
  <2>2. CASE result[r] # "pending"
    <3>1. /\ pc'[r] = "not_found" /\ UNCHANGED <<result, answer, audited>>
          /\ pc[r] = "released"
          /\ \A q \in Requests \ {r} : pc'[q] = pc[q]
      BY <1>9, <2>2 DEF Resolve, Handlers
    <3> QED
      BY <3>1, <2>2 DEF RequestInv, VerdictsStay, Unrecorded,
         AuditedUnlessInterrupted, Settled
  <2> QED
    BY <2>1, <2>2
<1>10. ASSUME NEW r \in Requests, AuditVerb(r)
      PROVE  RequestInv' /\ VerdictsStay
  BY <1>10 DEF AuditVerb, RequestInv, VerdictsStay, Unrecorded,
     AuditedUnlessInterrupted, Settled, Handlers
<1>11. ASSUME NEW r \in Requests, StartReplay(r)
      PROVE  RequestInv' /\ VerdictsStay
  BY <1>11 DEF StartReplay, RequestInv, VerdictsStay, Unrecorded,
     AuditedUnlessInterrupted, Settled, Handlers
<1>12. ASSUME NEW r \in Requests, Replay(r)
      PROVE  UNCHANGED <<pc, answer, result, audited>>
  BY <1>12 DEF Replay
<1>13. ASSUME NEW r \in Requests, FinishReplay(r)
      PROVE  RequestInv' /\ VerdictsStay
  BY <1>13 DEF FinishReplay, RequestInv, VerdictsStay, Unrecorded,
     AuditedUnlessInterrupted, Settled, Handlers
<1>14. ASSUME NEW r \in Requests, Abandon(r)
      PROVE  RequestInv' /\ VerdictsStay
  BY <1>14 DEF Abandon, RequestInv, VerdictsStay, Unrecorded,
     AuditedUnlessInterrupted, Settled, Handlers, Running, Holding
<1>15. ASSUME NEW h \in Handlers, Refetch(h)
      PROVE  RequestInv' /\ VerdictsStay
  BY <1>15 DEF Refetch, RequestInv, VerdictsStay, Unrecorded,
     AuditedUnlessInterrupted, Settled, Handlers
<1>16. ASSUME NEW h \in Handlers, UpsertResponse(h)
      PROVE  RequestInv' /\ VerdictsStay
  BY <1>16 DEF UpsertResponse, RequestInv, VerdictsStay, Unrecorded,
     AuditedUnlessInterrupted, Settled, Handlers
<1>17. ASSUME NEW w \in Workers, WorkerClaim(w)
      PROVE  UNCHANGED <<pc, answer, result, audited>>
  BY <1>17 DEF WorkerClaim
<1>18. ASSUME NEW w \in Workers, CheckGuard(w)
      PROVE  UNCHANGED <<pc, answer, result, audited>>
  BY <1>18 DEF CheckGuard
<1>19. ASSUME NEW w \in Workers, BufferDelivery(w)
      PROVE  UNCHANGED <<pc, answer, result, audited>>
  BY <1>19 DEF BufferDelivery
<1>20. ASSUME NEW w \in Workers, ApplyDelivery(w)
      PROVE  UNCHANGED <<pc, answer, result, audited>>
  BY <1>20 DEF ApplyDelivery
<1>21. ASSUME NEW w \in Workers, MarkProcessed(w)
      PROVE  UNCHANGED <<pc, answer, result, audited>>
  BY <1>21 DEF MarkProcessed
<1>22. ASSUME NEW w \in Workers, WorkerAborts(w)
      PROVE  UNCHANGED <<pc, answer, result, audited>>
  BY <1>22 DEF WorkerAborts
<1>23. ASSUME NEW s \in Sweepers, SweepListIssues(s)
      PROVE  UNCHANGED <<pc, answer, result, audited>>
  BY <1>23 DEF SweepListIssues
<1>24. ASSUME NEW s \in Sweepers, SweepMatch(s)
      PROVE  UNCHANGED <<pc, answer, result, audited>>
  BY <1>24 DEF SweepMatch
<1>25. ASSUME NEW s \in Sweepers, SweepRelease(s)
      PROVE  UNCHANGED <<pc, answer, result, audited>>
  BY <1>25 DEF SweepRelease
<1>26. ASSUME NEW s \in Sweepers, SweepResolve(s)
      PROVE  RequestInv' /\ VerdictsStay
  BY <1>26 DEF SweepResolve, UpdateResult, RequestInv, VerdictsStay,
     Unrecorded, AuditedUnlessInterrupted, Settled, Handlers
<1>27. ASSUME NEW s \in Sweepers, SweepAudit(s)
      PROVE  UNCHANGED <<pc, answer, result, audited>>
  BY <1>27 DEF SweepAudit
<1>28. ASSUME NEW s \in Sweepers, SweepStartReplay(s)
      PROVE  UNCHANGED <<pc, answer, result, audited>>
  BY <1>28 DEF SweepStartReplay
<1>29. ASSUME NEW s \in Sweepers, SweepReplay(s)
      PROVE  UNCHANGED <<pc, answer, result, audited>>
  BY <1>29 DEF SweepReplay
<1>30. ASSUME NEW s \in Sweepers, SweepFinish(s)
      PROVE  UNCHANGED <<pc, answer, result, audited>>
  BY <1>30 DEF SweepFinish
<1>31. ASSUME NEW s \in Sweepers, SweepAborts(s)
      PROVE  UNCHANGED <<pc, answer, result, audited>>
  BY <1>31 DEF SweepAborts
<1>32. ASSUME GitHubEdit PROVE UNCHANGED <<pc, answer, result, audited>>
  BY <1>32 DEF GitHubEdit
<1>33. ASSUME ReceiveWebhook PROVE UNCHANGED <<pc, answer, result, audited>>
  BY <1>33 DEF ReceiveWebhook
<1>34. ASSUME Tick PROVE UNCHANGED <<pc, answer, result, audited>>
  BY <1>34 DEF Tick
<1> QED
  BY <1>1, <1>2, <1>3, <1>4, <1>5, <1>6, <1>7, <1>8, <1>9, <1>10, <1>11,
     <1>12, <1>13, <1>14, <1>15, <1>16, <1>17, <1>18, <1>19, <1>20, <1>21,
     <1>22, <1>23, <1>24, <1>25, <1>26, <1>27, <1>28, <1>29, <1>30, <1>31,
     <1>32, <1>33, <1>34 DEF Next, RequestStep, ResponseStep, WorkerStep,
     SweeperStep, vars

\* No verdict is left without its audit row unless the handler was cut short.
THEOREM VerdictsAreAudited == Spec => []AuditedUnlessInterrupted
<1>1. TypeInv /\ RequestInv /\ [Next]_vars => RequestInv'
  BY RequestInvStep
<1>2. RequestInv => AuditedUnlessInterrupted
  BY DEF RequestInv
<1> QED
  BY <1>1, <1>2, TypeInit, TypeStep, RequestInit, PTL DEF Spec

\* The first verdict in the ledger stays: handler and sweeper, in any order,
\* never overwrite each other.
THEOREM VerdictsAreFinal == Spec => VerdictIsFinal
<1>1. TypeInv /\ RequestInv /\ [Next]_vars => RequestInv'
  BY RequestInvStep
<1>2. TypeInv /\ RequestInv /\ [Next]_vars
         => [\A r \in Requests :
                result[r] \in Settled => result'[r] = result[r]]_vars
  BY RequestInvStep DEF VerdictsStay
<1> QED
  BY <1>1, <1>2, TypeInit, TypeStep, RequestInit, PTL DEF Spec, VerdictIsFinal

-----------------------------------------------------------------------------
(* Turns *)

\* Nobody holds the slot when the system starts.
LEMMA TurnsInit == Init => OneTurnAtATime /\ Turns!Init
BY DEF Init, OneTurnAtATime, Turns!Init, Handlers, Holding

\* Without a sweeper, every step of the write path takes, uses or ends a turn,
\* or is none of its concern.
LEMMA TurnsStep ==
    ASSUME Sweepers = {}, TypeInv, RequestInv, OneTurnAtATime, [Next]_vars
    PROVE  OneTurnAtATime' /\ [Turns!Next]_(Turns!vars)
<1> USE DEF TypeInv, TypeOK, RequestTypes, RowTypes, ActorRefs,
       slotVars, fieldVars, ledgerVars, hookVars, requestVars, workerVars,
       sweepVars, auditVars, historyVars
<1> DEFINE started == {r \in Requests : pc[r] \notin {"form", "loaded",
   "stale"}}
           wrote   == {r \in Requests : answer[r] # "none"}
           Goal    == OneTurnAtATime' /\ [Turns!Next]_(Turns!vars)
           Quiet   == /\ UNCHANGED <<pending, pendingActor, started, wrote>>
                      /\ \A r \in Requests : pc'[r] \in Holding => pc[r] \in Holding
<1>1. ASSUME Quiet PROVE Goal
  BY <1>1 DEF OneTurnAtATime, Turns!vars
<1>2. ASSUME NEW r \in Requests, OpenForm(r) PROVE Quiet
  BY <1>2 DEF OpenForm, Holding, Handlers
<1>3. ASSUME NEW r \in Requests, Acquire(r) PROVE Goal
  <2>1. /\ pendingActor = Nobody /\ pendingActor' = r /\ pending' = TRUE
        /\ r \notin started /\ started' = started \cup {r} /\ wrote' = wrote
    BY <1>3 DEF Acquire, CanAcquire, Handlers
  <2>2. Turns!Begin(r)
    BY <2>1 DEF Turns!Begin
  <2>3. OneTurnAtATime'
    BY <1>3, <2>1 DEF Acquire, CanAcquire, OneTurnAtATime, Handlers
  <2> QED
    BY <2>2, <2>3 DEF Turns!Next
<1>4. ASSUME NEW r \in Requests, AcquireStale(r) PROVE Quiet
  BY <1>4 DEF AcquireStale, Holding, Handlers
<1>5. ASSUME NEW r \in Requests, RecordMutation(r) PROVE Quiet
  BY <1>5 DEF RecordMutation, Holding, Handlers
<1>6. ASSUME NEW r \in Requests, GitHubAccepts(r) PROVE Goal
  <2>1. /\ pendingActor = r /\ UNCHANGED <<pending, pendingActor>>
        /\ r \notin wrote /\ wrote' = wrote \cup {r} /\ started' = started
    BY <1>6 DEF GitHubAccepts, OneTurnAtATime, RequestInv, Holding, Handlers
  <2>2. Turns!Write(r)
    BY <2>1 DEF Turns!Write
  <2>3. OneTurnAtATime'
    BY <1>6, <2>1 DEF GitHubAccepts, OneTurnAtATime, Holding, Handlers
  <2> QED
    BY <2>2, <2>3 DEF Turns!Next
<1>7. ASSUME NEW r \in Requests, GitHubFails(r) PROVE Goal
  <2>1. /\ pendingActor = r /\ UNCHANGED <<pending, pendingActor>>
        /\ r \notin wrote /\ wrote' = wrote \cup {r} /\ started' = started
    BY <1>7 DEF GitHubFails, OneTurnAtATime, RequestInv, Holding, Handlers
  <2>2. Turns!Write(r)
    BY <2>1 DEF Turns!Write
  <2>3. OneTurnAtATime'
    BY <1>7, <2>1 DEF GitHubFails, OneTurnAtATime, Holding, Handlers
  <2> QED
    BY <2>2, <2>3 DEF Turns!Next
<1>8. ASSUME NEW r \in Requests, Release(r) PROVE Goal
  <2>1. /\ pendingActor = r /\ pendingActor' = Nobody
        /\ r \in wrote /\ wrote' = wrote /\ started' = started
    BY <1>8 DEF Release, ReleaseSlot, OneTurnAtATime, RequestInv, Holding,
       Handlers
  <2>2. Turns!End(r)
    BY <2>1 DEF Turns!End
  <2>3. OneTurnAtATime'
    BY <1>8, <2>1 DEF Release, OneTurnAtATime, Holding, Handlers
  <2> QED
    BY <2>2, <2>3 DEF Turns!Next
<1>9. ASSUME NEW r \in Requests, Resolve(r) PROVE Quiet
  BY <1>9 DEF Resolve, Holding, Handlers
<1>10. ASSUME NEW r \in Requests, AuditVerb(r) PROVE Quiet
  BY <1>10 DEF AuditVerb, Holding, Handlers
<1>11. ASSUME NEW r \in Requests, StartReplay(r) PROVE Quiet
  BY <1>11 DEF StartReplay, Holding, Handlers
<1>12. ASSUME NEW r \in Requests, Replay(r) PROVE Quiet
  BY <1>12 DEF Replay
<1>13. ASSUME NEW r \in Requests, FinishReplay(r) PROVE Quiet
  BY <1>13 DEF FinishReplay, Holding, Handlers
<1>14. ASSUME NEW r \in Requests, Abandon(r) PROVE Quiet
  BY <1>14 DEF Abandon, Holding, Handlers, Running
<1>15. ASSUME NEW h \in Handlers, Refetch(h) PROVE Quiet
  BY <1>15 DEF Refetch, Holding, Handlers
<1>16. ASSUME NEW h \in Handlers, UpsertResponse(h) PROVE Quiet
  BY <1>16 DEF UpsertResponse, Holding, Handlers
<1>17. ASSUME NEW w \in Workers, WorkerClaim(w) PROVE Quiet
  BY <1>17 DEF WorkerClaim
<1>18. ASSUME NEW w \in Workers, CheckGuard(w) PROVE Quiet
  BY <1>18 DEF CheckGuard
<1>19. ASSUME NEW w \in Workers, BufferDelivery(w) PROVE Quiet
  BY <1>19 DEF BufferDelivery
<1>20. ASSUME NEW w \in Workers, ApplyDelivery(w) PROVE Quiet
  BY <1>20 DEF ApplyDelivery
<1>21. ASSUME NEW w \in Workers, MarkProcessed(w) PROVE Quiet
  BY <1>21 DEF MarkProcessed
<1>22. ASSUME NEW w \in Workers, WorkerAborts(w) PROVE Quiet
  BY <1>22 DEF WorkerAborts
<1>23. ASSUME GitHubEdit PROVE Quiet
  BY <1>23 DEF GitHubEdit
<1>24. ASSUME ReceiveWebhook PROVE Quiet
  BY <1>24 DEF ReceiveWebhook
<1>25. ASSUME Tick PROVE Quiet
  BY <1>25 DEF Tick
<1>26. ASSUME UNCHANGED vars PROVE Quiet
  BY <1>26 DEF vars
<1> HIDE DEF Quiet
<1> QED
  BY <1>1, <1>2, <1>3, <1>4, <1>5, <1>6, <1>7, <1>8, <1>9, <1>10, <1>11,
     <1>12, <1>13, <1>14, <1>15, <1>16, <1>17, <1>18, <1>19, <1>20, <1>21,
     <1>22, <1>23, <1>24, <1>25, <1>26 DEF Next, RequestStep, ResponseStep,
     WorkerStep

\* While nothing sweeps, a request that may be talking to GitHub owns the slot.
THEOREM TurnsAreExclusive ==
    ASSUME Sweepers = {} PROVE Spec => []OneTurnAtATime
<1>1. TypeInv /\ RequestInv /\ OneTurnAtATime /\ [Next]_vars =>
   OneTurnAtATime'
  BY TurnsStep
<1>2. TypeInv /\ RequestInv /\ [Next]_vars => RequestInv'
  BY RequestInvStep
<1>3. Init => OneTurnAtATime
  BY TurnsInit
<1> QED
  BY <1>1, <1>2, <1>3, TypeInit, TypeStep, RequestInit, PTL DEF Spec

\* ... and the handlers implement EditTurns.
THEOREM WritePathImplementsTurns ==
    ASSUME Sweepers = {} PROVE Spec => EditsTakeTurns
<1>1. /\ TypeInv /\ RequestInv /\ OneTurnAtATime /\ [Next]_vars
            => OneTurnAtATime' /\ [Turns!Next]_(Turns!vars)
      /\ Init => OneTurnAtATime /\ Turns!Init
  BY TurnsStep, TurnsInit
<1>2. TypeInv /\ RequestInv /\ [Next]_vars => RequestInv'
  BY RequestInvStep
<1> QED
  BY <1>1, <1>2, TypeInit, TypeStep, RequestInit, PTL
     DEF Spec, EditsTakeTurns, Turns!Spec

-----------------------------------------------------------------------------
(* Rows that stay pending *)

\* A step that leaves the slot alone moves nobody off it.
Keepers == Holding \cup {"abandoned"}

SlotRests ==
    /\ UNCHANGED <<pending, pendingActor>>
    /\ \A r \in Requests : pc[r] \in Keepers => pc'[r] \in Keepers

\* The request in the row is on its way to its release, or has died on it.
LEMMA StrandsStep ==
    ASSUME TypeInv, OnlyDeathStrands, [Next]_vars
    PROVE  OnlyDeathStrands'
<1> USE DEF TypeInv, TypeOK, RequestTypes, Handlers, Keepers, Holding,
       slotVars, fieldVars, ledgerVars, hookVars, requestVars, workerVars,
       sweepVars, auditVars, historyVars
<1>1. SlotRests => OnlyDeathStrands'
  BY DEF SlotRests, OnlyDeathStrands
<1>2. ASSUME NEW r \in Requests, Acquire(r) PROVE OnlyDeathStrands'
  BY <1>2 DEF Acquire, OnlyDeathStrands
<1>3. ASSUME NEW r \in Requests, Release(r) PROVE OnlyDeathStrands'
  BY <1>3 DEF Release, ReleaseSlot, OnlyDeathStrands
<1>4. ASSUME NEW s \in Sweepers, SweepRelease(s) PROVE OnlyDeathStrands'
  BY <1>4 DEF SweepRelease, ReleaseSlot, OnlyDeathStrands
<1>5. ASSUME NEW r \in Requests, OpenForm(r) PROVE SlotRests
  BY <1>5 DEF OpenForm, SlotRests
<1>6. ASSUME NEW r \in Requests, AcquireStale(r) PROVE SlotRests
  BY <1>6 DEF AcquireStale, SlotRests
<1>7. ASSUME NEW r \in Requests, RecordMutation(r) PROVE SlotRests
  BY <1>7 DEF RecordMutation, SlotRests
<1>8. ASSUME NEW r \in Requests, GitHubAccepts(r) PROVE SlotRests
  BY <1>8 DEF GitHubAccepts, SlotRests
<1>9. ASSUME NEW r \in Requests, GitHubFails(r) PROVE SlotRests
  BY <1>9 DEF GitHubFails, SlotRests
<1>10. ASSUME NEW r \in Requests, Resolve(r) PROVE SlotRests
  BY <1>10 DEF Resolve, SlotRests
<1>11. ASSUME NEW r \in Requests, AuditVerb(r) PROVE SlotRests
  BY <1>11 DEF AuditVerb, SlotRests
<1>12. ASSUME NEW r \in Requests, StartReplay(r) PROVE SlotRests
  BY <1>12 DEF StartReplay, SlotRests
<1>13. ASSUME NEW r \in Requests, Replay(r) PROVE SlotRests
  BY <1>13 DEF Replay, SlotRests
<1>14. ASSUME NEW r \in Requests, FinishReplay(r) PROVE SlotRests
  BY <1>14 DEF FinishReplay, SlotRests
<1>15. ASSUME NEW r \in Requests, Abandon(r) PROVE SlotRests
  BY <1>15 DEF Abandon, SlotRests, Running
<1>16. ASSUME NEW h \in Handlers, ResponseStep(h) PROVE SlotRests
  BY <1>16 DEF ResponseStep, Refetch, UpsertResponse, SlotRests
<1>17. ASSUME NEW w \in Workers, WorkerStep(w) \/ WorkerAborts(w) PROVE SlotRests
  BY <1>17 DEF WorkerStep, WorkerClaim, CheckGuard, BufferDelivery, ApplyDelivery,
     MarkProcessed, WorkerAborts, WorkerIdles, SlotRests
<1>18. ASSUME NEW s \in Sweepers, SweepListIssues(s) \/ SweepMatch(s) \/ SweepResolve(s)
                               \/ SweepAudit(s) \/ SweepStartReplay(s) \/ SweepReplay(s)
                               \/ SweepFinish(s) \/ SweepAborts(s)
      PROVE  SlotRests
  BY <1>18 DEF SweepListIssues, SweepMatch, SweepResolve, SweepAudit, SweepStartReplay,
     SweepReplay, SweepFinish, SweepAborts, SlotRests
<1>19. GitHubEdit \/ ReceiveWebhook \/ Tick \/ UNCHANGED vars => SlotRests
  BY DEF GitHubEdit, ReceiveWebhook, Tick, vars, SlotRests
<1> QED
  BY <1>1, <1>2, <1>3, <1>4, <1>5, <1>6, <1>7, <1>8, <1>9, <1>10,
     <1>11, <1>12, <1>13, <1>14, <1>15, <1>16, <1>17, <1>18, <1>19
     DEF Next, RequestStep, SweeperStep

\* A handler that lives leaves no row pending: whichever of its statements fails,
\* whatever GitHub answers and whoever released the row before, a row is pending for a
\* request that has yet to release it, or for one that died first.
THEOREM SlotsAreLeftByTheDead == Spec => []OnlyDeathStrands
<1>1. Init => OnlyDeathStrands
  BY DEF Init, OnlyDeathStrands
<1>2. TypeInv /\ OnlyDeathStrands /\ [Next]_vars => OnlyDeathStrands'
  BY StrandsStep
<1> QED
  BY <1>1, <1>2, TypeInit, TypeStep, PTL DEF Spec

-----------------------------------------------------------------------------
(* Timeouts *)

\* What was older than the cutoff when it was read has a ledger row, and is older
\* still as long as it is pending; a sweep matches nothing else.
DueInv ==
    \A s \in Sweepers :
       /\ \A r \in cutoff[s] : /\ result[r] # "none"
                               /\ result[r] = "pending" => mutationAge[r] > Timeout
       /\ stuck[s] \in cutoff[s] \cup {Nobody}
       /\ spc[s] \in {"idle", "listed"} => stuck[s] = Nobody

Due ==
    \A r \in Requests :
       result'[r] = "pending_remote_timeout" /\ result[r] # result'[r]
          => result[r] = "pending" /\ mutationAge[r] > Timeout

\* Only a sweep gives a mutation up, and only the one that it matched.
LEMMA DueStep ==
    ASSUME TypeInv, RequestInv, DueInv, [Next]_vars
    PROVE  DueInv' /\ Due
<1> USE DEF TypeInv, TypeOK, RequestTypes, LedgerTypes, SweepTypes, Handlers,
       slotVars, fieldVars, ledgerVars, hookVars, requestVars, workerVars,
       sweepVars, auditVars, historyVars
<1> DEFINE Rests == UNCHANGED <<result, mutationAge, sweepVars>>
<1>1. Rests => DueInv' /\ Due
  BY DEF DueInv, Due
<1>2. ASSUME NEW r \in Requests, RecordMutation(r) PROVE DueInv' /\ Due
  <2>1. result[r] = "none"
    BY <1>2 DEF RecordMutation, RequestInv, Unrecorded
  <2>2. /\ \A q \in Requests \ {r} : result'[q] = result[q] /\ mutationAge'[q] = mutationAge[q]
        /\ result'[r] = "pending" /\ UNCHANGED sweepVars
    BY <1>2 DEF RecordMutation
  <2>3. Due
    BY <2>2 DEF Due
  <2>4. \A s \in Sweepers : r \notin cutoff[s]
    BY <2>1 DEF DueInv
  <2>5. ASSUME NEW s \in Sweepers, NEW q \in cutoff'[s]
        PROVE  result'[q] # "none" /\ (result'[q] = "pending" => mutationAge'[q] > Timeout)
    <3>1. cutoff' = cutoff /\ q \in Requests \ {r}
      BY <2>2, <2>4, <2>5
    <3>2. result[q] # "none" /\ (result[q] = "pending" => mutationAge[q] > Timeout)
      BY <2>5, <3>1 DEF DueInv
    <3> QED
      BY <2>2, <3>1, <3>2
  <2>6. UNCHANGED <<cutoff, stuck, spc>>
    BY <2>2
  <2>7. DueInv'
    BY <2>5, <2>6 DEF DueInv
  <2> QED
    BY <2>3, <2>7
<1>3. ASSUME NEW r \in Requests, Resolve(r) PROVE DueInv' /\ Due
  <2>1. /\ \A q \in Requests \ {r} : result'[q] = result[q]
        /\ result'[r] \in {result[r], "committed", "failed"}
        /\ UNCHANGED <<mutationAge, sweepVars>>
    BY <1>3 DEF Resolve, UpdateResult
  <2> QED
    BY <2>1 DEF DueInv, Due
<1>4. ASSUME NEW s \in Sweepers, SweepListIssues(s) PROVE DueInv' /\ Due
  <2>1. /\ \A x \in Sweepers \ {s} : cutoff'[x] = cutoff[x] /\ spc'[x] = spc[x]
        /\ cutoff'[s] = {r \in Requests : result[r] = "pending" /\ mutationAge[r] > Timeout}
        /\ spc[s] = "idle" /\ UNCHANGED <<stuck, result, mutationAge>>
    BY <1>4 DEF SweepListIssues
  <2> QED
    BY <2>1 DEF DueInv, Due
<1>5. ASSUME NEW s \in Sweepers, SweepMatch(s) PROVE DueInv' /\ Due
  <2>1. /\ \A x \in Sweepers \ {s} : stuck'[x] = stuck[x] /\ spc'[x] = spc[x]
        /\ stuck'[s] \in cutoff[s] \cup {Nobody} /\ spc'[s] = "matched"
        /\ UNCHANGED <<cutoff, result, mutationAge>>
    BY <1>5 DEF SweepMatch, IsEarliest
  <2> QED
    BY <2>1 DEF DueInv, Due
<1>6. ASSUME NEW s \in Sweepers, SweepResolve(s) PROVE DueInv' /\ Due
  <2>1. CASE UNCHANGED result /\ (SweepIdles(s) \/ (UNCHANGED <<cutoff, stuck>>
                                     /\ spc' = [spc EXCEPT ![s] = "resolved"]))
    BY <1>6, <2>1 DEF SweepResolve, SweepIdles, DueInv, Due
  <2>2. CASE /\ stuck[s] # Nobody /\ result[stuck[s]] = "pending"
             /\ UpdateResult(stuck[s], "pending_remote_timeout")
             /\ spc' = [spc EXCEPT ![s] = "resolved"] /\ UNCHANGED <<cutoff, stuck>>
    <3>1. PICK r : r = stuck[s]
      OBVIOUS
    <3>2. r \in cutoff[s] /\ r \in Requests /\ mutationAge[r] > Timeout
      BY <2>2, <3>1 DEF DueInv
    <3>3. /\ \A q \in Requests \ {r} : result'[q] = result[q]
          /\ result'[r] = "pending_remote_timeout" /\ result[r] = "pending"
          /\ UNCHANGED <<cutoff, stuck, mutationAge>>
          /\ \A x \in Sweepers : spc'[x] \in {"idle", "listed"} => spc[x] = spc'[x]
      BY <1>6, <2>2, <3>1, <3>2 DEF SweepResolve, UpdateResult
    <3>4. Due
      BY <3>2, <3>3 DEF Due
    <3>5. DueInv'
      BY <3>2, <3>3 DEF DueInv
    <3> QED
      BY <3>4, <3>5
  <2> QED
    BY <1>6, <2>1, <2>2 DEF SweepResolve
<1>7. ASSUME NEW s \in Sweepers, SweepFinish(s) \/ SweepAborts(s) PROVE DueInv' /\ Due
  BY <1>7 DEF SweepFinish, SweepAborts, SweepIdles, DueInv, Due
<1>8. ASSUME NEW s \in Sweepers, SweepRelease(s) \/ SweepAudit(s) \/ SweepStartReplay(s)
      PROVE  DueInv' /\ Due
  <2>1. /\ UNCHANGED <<cutoff, stuck, result, mutationAge>>
        /\ \A x \in Sweepers : spc'[x] \in {"idle", "listed"} => spc[x] = spc'[x]
    BY <1>8 DEF SweepRelease, SweepAudit, SweepStartReplay
  <2> QED
    BY <2>1 DEF DueInv, Due
<1>9. ASSUME Tick PROVE DueInv' /\ Due
  <2>1. UNCHANGED <<result, sweepVars>>
    BY <1>9 DEF Tick
  <2>2. ASSUME NEW r \in Requests, mutationAge[r] > Timeout PROVE mutationAge'[r] > Timeout
    <3>1. mutationAge'[r] = mutationAge[r] \/ mutationAge'[r] = Older(mutationAge[r])
      BY <1>9 DEF Tick
    <3>2. Older(mutationAge[r]) >= mutationAge[r]
      BY DEF Older, Ages, MaxAge
    <3>3. mutationAge[r] \in Int /\ Older(mutationAge[r]) \in Int
      BY DEF Older, Ages, MaxAge
    <3> QED
      BY <2>2, <3>1, <3>2, <3>3
  <2> QED
    BY <2>1, <2>2 DEF DueInv, Due
<1>10. ASSUME NEW r \in Requests, OpenForm(r) PROVE Rests
  BY <1>10 DEF OpenForm
<1>11. ASSUME NEW r \in Requests, Acquire(r) PROVE Rests
  BY <1>11 DEF Acquire
<1>12. ASSUME NEW r \in Requests, AcquireStale(r) PROVE Rests
  BY <1>12 DEF AcquireStale
<1>13. ASSUME NEW r \in Requests, GitHubAccepts(r) PROVE Rests
  BY <1>13 DEF GitHubAccepts
<1>14. ASSUME NEW r \in Requests, GitHubFails(r) PROVE Rests
  BY <1>14 DEF GitHubFails
<1>15. ASSUME NEW r \in Requests, Release(r) PROVE Rests
  BY <1>15 DEF Release
<1>16. ASSUME NEW r \in Requests, AuditVerb(r) PROVE Rests
  BY <1>16 DEF AuditVerb
<1>17. ASSUME NEW r \in Requests, StartReplay(r) PROVE Rests
  BY <1>17 DEF StartReplay
<1>18. ASSUME NEW r \in Requests, Replay(r) PROVE Rests
  BY <1>18 DEF Replay
<1>19. ASSUME NEW r \in Requests, FinishReplay(r) PROVE Rests
  BY <1>19 DEF FinishReplay
<1>20. ASSUME NEW r \in Requests, Abandon(r) PROVE Rests
  BY <1>20 DEF Abandon
<1>21. ASSUME NEW h \in Handlers, ResponseStep(h) PROVE Rests
  BY <1>21 DEF ResponseStep, Refetch, UpsertResponse
<1>22. ASSUME NEW w \in Workers, WorkerStep(w) \/ WorkerAborts(w) PROVE Rests
  BY <1>22 DEF WorkerStep, WorkerClaim, CheckGuard, BufferDelivery, ApplyDelivery,
     MarkProcessed, WorkerAborts, WorkerIdles
<1>23. ASSUME NEW s \in Sweepers, SweepReplay(s) PROVE Rests
  BY <1>23 DEF SweepReplay
<1>24. GitHubEdit \/ ReceiveWebhook \/ UNCHANGED vars => Rests
  BY DEF GitHubEdit, ReceiveWebhook, vars
<1> HIDE DEF Rests
<1> QED
  BY <1>1, <1>2, <1>3, <1>4, <1>5, <1>6, <1>7, <1>8, <1>9, <1>10,
     <1>11, <1>12, <1>13, <1>14, <1>15, <1>16, <1>17, <1>18, <1>19,
     <1>20, <1>21, <1>22, <1>23, <1>24
     DEF Next, RequestStep, SweeperStep

\* A mutation that a sweep gives up has been pending longer than the timeout, however
\* long the sweep took and whoever held the slot meanwhile.
THEOREM OnlyTheOverdueTimeOut == Spec => TimeoutsAreDue
<1>1. Init => DueInv
  BY DEF Init, DueInv
<1>2. TypeInv /\ RequestInv /\ [Next]_vars => RequestInv'
  BY RequestInvStep
<1>3. TypeInv /\ RequestInv /\ DueInv /\ [Next]_vars => DueInv'
  BY DueStep
<1>4. TypeInv /\ RequestInv /\ DueInv /\ [Next]_vars
         => [\A r \in Requests :
                result'[r] = "pending_remote_timeout" /\ result[r] # result'[r]
                   => result[r] = "pending" /\ mutationAge[r] > Timeout]_vars
  BY DueStep DEF Due
<1> QED
  BY <1>1, <1>2, <1>3, <1>4, TypeInit, TypeStep, RequestInit, PTL
     DEF Spec, TimeoutsAreDue
================================================================================
