----------------------------- MODULE WebhookInbox -----------------------------
(***************************************************************************)
(* The pushing half of ingestion: the receiver of POST /webhooks/github,   *)
(* the inbox table, and the workers that drain it through apply_delivery   *)
(* into activity events and the people credited with them.                 *)
(*                                                                         *)
(* A delivery is its delivery_id; what a worker may do with it is given by *)
(* the events it carries.  One step is one statement: the row lock of a    *)
(* claim ends with the claiming statement, and an event and its actors are *)
(* two inserts.  Deliveries about issues take the path of IssueWrite       *)
(* inside the handler; here they are deliveries that carry no event.       *)
(***************************************************************************)
EXTENDS Integers, Sequences, FiniteSets, SequencesExt

CONSTANTS
    Deliveries,     \* X-GitHub-Delivery values
    Events,         \* (kind, external_id) keys of dp_activity_events
    Carries,        \* the events of a delivery, in the payload's order
    Poison,         \* deliveries whose last event the handler cannot parse
    Workers,        \* Worker::run loops
    BatchSize,      \* batch_size
    MaxSends,       \* bound: requests GitHub makes
    Nothing,        \* no delivery
    MaxFaults       \* bound: statements that fail, worker restarts

ASSUME InboxAssumption ==
    /\ Carries \in [Deliveries -> Seq(Events)]
    /\ Poison \subseteq {d \in Deliveries : Carries[d] # <<>>}
    /\ Nothing \notin Deliveries
    /\ BatchSize \in Nat \ {0}
    /\ MaxSends \in Nat /\ MaxFaults \in Nat

VARIABLES
    inbox,                  \* rows of dp_webhook_inbox by received_at
    processed, failed,      \* ... with processed_at, with error set
    recorded, credited,     \* dp_activity_events, those with dp_event_actors
    acked,                  \* deliveries GitHub has had a 200 for
    sends, faults,          \* spent bounds
    wpc, wbatch, wcur, wleft    \* locals of drain_once and of the handler

rowVars    == <<inbox, processed, failed>>
eventVars  == <<recorded, credited>>
githubVars == <<acked, sends>>
workerVars == <<wpc, wbatch, wcur, wleft>>
vars == <<rowVars, eventVars, githubVars, faults, workerVars>>

TypeOK ==
    /\ inbox \in Seq(Deliveries)
    /\ processed \subseteq Deliveries /\ failed \subseteq Deliveries
    /\ recorded \subseteq Events /\ credited \subseteq recorded
    /\ acked \subseteq Deliveries
    /\ sends \in 0..MaxSends /\ faults \in 0..MaxFaults
    /\ wpc \in [Workers -> {"idle", "draining", "recording", "crediting",
                            "marking", "failing"}]
    /\ wbatch \in [Workers -> SUBSET Deliveries]
    /\ wcur \in [Workers -> Deliveries \cup {Nothing}]
    /\ wleft \in [Workers -> Seq(Events)]

-----------------------------------------------------------------------------
(* Receiver *)

\* enqueue_webhook: the unique delivery_id turns a repetition into a Conflict,
\* which the receiver answers like a success.  The response may get lost.
Receive(d) ==
    /\ sends < MaxSends
    /\ sends' = sends + 1
    /\ inbox' = IF d \in ToSet(inbox) THEN inbox ELSE Append(inbox, d)
    /\ acked' = acked \cup {d} \/ acked' = acked
    /\ UNCHANGED <<processed, failed, eventVars, faults, workerVars>>

\* Any other store error is a 500, and GitHub may send the delivery again.
ReceiveFails(d) ==
    /\ sends < MaxSends /\ faults < MaxFaults
    /\ sends' = sends + 1
    /\ faults' = faults + 1
    /\ UNCHANGED <<rowVars, eventVars, acked, workerVars>>

-----------------------------------------------------------------------------
(* Worker *)

\* What claim_webhooks skips or counts: the rows before a row that are due.
DueBefore(i) == {j \in 1..(i - 1) : inbox[j] \notin processed}

\* processed_at IS NULL ORDER BY received_at LIMIT max.
Claimable ==
    {inbox[i] : i \in {i \in DOMAIN inbox :
                         /\ inbox[i] \notin processed
                         /\ Cardinality(DueBefore(i)) < BatchSize}}

\* claim_webhooks leaves no mark on the rows it returns.
ClaimWebhooks(w) ==
    /\ wpc[w] = "idle" /\ Claimable # {}
    /\ wbatch' = [wbatch EXCEPT ![w] = Claimable]
    /\ wpc' = [wpc EXCEPT ![w] = "draining"]
    /\ UNCHANGED <<rowVars, eventVars, githubVars, faults, wcur, wleft>>

\* The claiming query joins its CTE without an ORDER BY of its own: the rows
\* of a batch come in any order.
PickDelivery(w) ==
    /\ wpc[w] = "draining"
    /\ \E d \in wbatch[w] :
          /\ wcur' = [wcur EXCEPT ![w] = d]
          /\ wbatch' = [wbatch EXCEPT ![w] = @ \ {d}]
          /\ wleft' = [wleft EXCEPT ![w] = Carries[d]]
    /\ wpc' = [wpc EXCEPT ![w] = "recording"]
    /\ UNCHANGED <<rowVars, eventVars, githubVars, faults>>

\* The handler cannot go past the event it cannot parse.
IsStuck(w) == wcur[w] \in Poison /\ Len(wleft[w]) = 1

\* Mutated forms, here and below, are what a mistake in the code would make of
\* the definition that follows; no behaviour uses them.  Here, an event that is
\* known already is skipped with its actors.
RecordUnknownEvent(w) ==
    /\ wpc[w] = "recording" /\ wleft[w] # <<>> /\ ~IsStuck(w)
    /\ recorded' = recorded \cup {Head(wleft[w])}
    /\ IF Head(wleft[w]) \in recorded
         THEN wleft' = [wleft EXCEPT ![w] = Tail(@)] /\ UNCHANGED wpc
         ELSE wpc' = [wpc EXCEPT ![w] = "crediting"] /\ UNCHANGED wleft
    /\ UNCHANGED <<rowVars, credited, githubVars, faults, wbatch, wcur>>

\* record_event, an upsert on (kind, external_id).
RecordEvent(w) ==
    /\ wpc[w] = "recording" /\ wleft[w] # <<>> /\ ~IsStuck(w)
    /\ recorded' = recorded \cup {Head(wleft[w])}
    /\ wpc' = [wpc EXCEPT ![w] = "crediting"]
    /\ UNCHANGED <<rowVars, credited, githubVars, faults, wbatch, wcur, wleft>>

\* add_event_actors, ON CONFLICT DO NOTHING; then the next commit of a push.
AddEventActors(w) ==
    /\ wpc[w] = "crediting"
    /\ credited' = credited \cup {Head(wleft[w])}
    /\ wleft' = [wleft EXCEPT ![w] = Tail(@)]
    /\ wpc' = [wpc EXCEPT ![w] = "recording"]
    /\ UNCHANGED <<rowVars, recorded, githubVars, faults, wbatch, wcur>>

\* The handler returns Ok, or Ignored for a delivery without events.
HandlerReturns(w) ==
    /\ wpc[w] = "recording" /\ wleft[w] = <<>>
    /\ wpc' = [wpc EXCEPT ![w] = "marking"]
    /\ UNCHANGED <<rowVars, eventVars, githubVars, faults, wbatch, wcur, wleft>>

\* ... or an error: the payload's, or the store's.
HandlerFails(w) ==
    /\ \/ /\ wpc[w] = "recording" /\ IsStuck(w)
          /\ UNCHANGED faults
       \/ /\ wpc[w] \in {"recording", "crediting"}
          /\ faults < MaxFaults
          /\ faults' = faults + 1
    /\ wpc' = [wpc EXCEPT ![w] = "failing"]
    /\ UNCHANGED <<rowVars, eventVars, githubVars, wbatch, wcur, wleft>>

DeliveryIsDone(w) ==
    /\ wcur' = [wcur EXCEPT ![w] = Nothing]
    /\ wleft' = [wleft EXCEPT ![w] = <<>>]
    /\ wpc' = [wpc EXCEPT ![w] = "draining"]
    /\ UNCHANGED wbatch

MarkWebhookProcessed(w) ==
    /\ wpc[w] = "marking"
    /\ processed' = processed \cup {wcur[w]}
    /\ failed' = failed \ {wcur[w]}
    /\ DeliveryIsDone(w)
    /\ UNCHANGED <<inbox, eventVars, githubVars, faults>>

\* Mutated: a failed row leaves the queue.
MarkFailedAndDone(w) ==
    /\ wpc[w] = "failing"
    /\ failed' = failed \cup {wcur[w]}
    /\ processed' = processed \cup {wcur[w]}
    /\ DeliveryIsDone(w)
    /\ UNCHANGED <<inbox, eventVars, githubVars, faults>>

\* UPDATE ... SET error, whether or not the row has been processed.
MarkWebhookFailed(w) ==
    /\ wpc[w] = "failing"
    /\ failed' = failed \cup {wcur[w]}
    /\ DeliveryIsDone(w)
    /\ UNCHANGED <<inbox, processed, eventVars, githubVars, faults>>

FinishDrain(w) ==
    /\ wpc[w] = "draining" /\ wbatch[w] = {}
    /\ wpc' = [wpc EXCEPT ![w] = "idle"]
    /\ UNCHANGED <<rowVars, eventVars, githubVars, faults, wbatch, wcur, wleft>>

\* The process restarts, or marking fails: drain_once ends where it is and
\* forgets the rest of its batch.
DrainAborts(w) ==
    /\ wpc[w] # "idle" /\ faults < MaxFaults
    /\ faults' = faults + 1
    /\ wpc' = [wpc EXCEPT ![w] = "idle"]
    /\ wbatch' = [wbatch EXCEPT ![w] = {}]
    /\ wcur' = [wcur EXCEPT ![w] = Nothing]
    /\ wleft' = [wleft EXCEPT ![w] = <<>>]
    /\ UNCHANGED <<rowVars, eventVars, githubVars>>

-----------------------------------------------------------------------------
Init ==
    /\ inbox = <<>> /\ processed = {} /\ failed = {}
    /\ recorded = {} /\ credited = {}
    /\ acked = {} /\ sends = 0 /\ faults = 0
    /\ wpc = [w \in Workers |-> "idle"]
    /\ wbatch = [w \in Workers |-> {}]
    /\ wcur = [w \in Workers |-> Nothing]
    /\ wleft = [w \in Workers |-> <<>>]

WorkerStep(w) ==
    \/ ClaimWebhooks(w) \/ PickDelivery(w)
    \/ RecordEvent(w) \/ AddEventActors(w)
    \/ HandlerReturns(w) \/ HandlerFails(w)
    \/ MarkWebhookProcessed(w) \/ MarkWebhookFailed(w) \/ FinishDrain(w)

Next ==
    \/ \E d \in Deliveries : Receive(d) \/ ReceiveFails(d)
    \/ \E w \in Workers : WorkerStep(w) \/ DrainAborts(w)

Spec == Init /\ [][Next]_vars

-----------------------------------------------------------------------------
(* Safety *)

\* A row leaves the queue only when all it carries is stored and credited:
\* nothing else would ever look at it again.  Two workers on one row, failures
\* in mid-push and repeated requests do not change that.
ProcessedIsApplied ==
    \A d \in processed : d \notin Poison /\ ToSet(Carries[d]) \subseteq credited

\* The two inserts of record are not one transaction, yet no event loses its
\* people: one that has none is carried by a row that is still in the queue, so
\* that a retry can make up for what was cut off, whichever worker it was.
UncreditedIsOwed ==
    \A e \in recorded \ credited :
        \E d \in ToSet(inbox) \ processed : e \in ToSet(Carries[d])
=============================================================================
