---------------------------- MODULE ActivityProofs ----------------------------
(***************************************************************************)
(* Theorems about activity, from the delivery of a webhook to the report:  *)
(* WebhookInbox, for any deliveries, workers and batch size, and any       *)
(* number of failures and restarts; and Reports, for any importers,        *)
(* people, windows, requests, pages and projects.                          *)
(***************************************************************************)
EXTENDS WebhookInbox, Reports, FiniteLemmas

-----------------------------------------------------------------------------
(* Deliveries: the invariant *)

\* What a worker has still to do of its delivery is in wleft, and an event the
\* handler cannot parse is still ahead of it.
Position(w) ==
    /\ wpc[w] \in {"recording", "crediting", "marking", "failing"}
          => wcur[w] \in Deliveries
    /\ wpc[w] \in {"recording", "crediting", "marking"}
          => ToSet(Carries[wcur[w]]) \subseteq credited \cup ToSet(wleft[w])
    /\ wpc[w] = "recording" /\ wcur[w] \in Poison => wleft[w] # <<>>
    /\ wpc[w] = "crediting" =>
          /\ wleft[w] # <<>> /\ Head(wleft[w]) \in recorded
          /\ wcur[w] \in Poison => Tail(wleft[w]) # <<>>
    /\ wpc[w] = "marking" => wleft[w] = <<>> /\ wcur[w] \notin Poison

WorkerInv == \A w \in Workers : Position(w)

InboxInv == TypeOK /\ WorkerInv /\ ProcessedIsApplied

USE InboxAssumption

-----------------------------------------------------------------------------
(* Lemmas *)

\* A claim takes rows of the table.
LEMMA ClaimTypes == ASSUME TypeOK PROVE Claimable \subseteq Deliveries
BY DEF TypeOK, Claimable

\* The elements of a sequence: none, or those of its head and its tail.
LEMMA EmptyElements == ToSet(<<>>) = {}
BY DEF ToSet

LEMMA HeadAndTail ==
    ASSUME NEW s \in Seq(Events), s # <<>>
    PROVE  /\ Head(s) \in Events /\ Tail(s) \in Seq(Events)
           /\ ToSet(s) \subseteq {Head(s)} \cup ToSet(Tail(s))
<1>1. Head(s) \in Events /\ Tail(s) \in Seq(Events) /\ Head(s) = s[1]
  OBVIOUS
<1>2. ASSUME NEW i \in DOMAIN s, i # 1
      PROVE  i - 1 \in DOMAIN Tail(s) /\ s[i] = Tail(s)[i - 1]
  BY <1>2
<1> QED
  BY <1>1, <1>2 DEF ToSet

\* Events and credits only grow, so a step leaves every worker in its position
\* whose locals it leaves alone.
LEMMA OthersStay ==
    ASSUME WorkerInv, NEW v \in Workers,
           recorded \subseteq recorded', credited \subseteq credited',
           UNCHANGED <<wpc[v], wcur[v], wleft[v]>>
    PROVE  Position(v)'
<1>1. Position(v)
  BY DEF WorkerInv
<1> QED
  BY <1>1 DEF Position

\* The rows and workers of the start.
LEMMA InboxInit == Init => InboxInv
<1> SUFFICES ASSUME Init PROVE InboxInv
  OBVIOUS
<1>1. <<>> \in Seq(Deliveries) /\ <<>> \in Seq(Events)
  OBVIOUS
<1>2. TypeOK
  BY <1>1 DEF Init, TypeOK
<1>3. WorkerInv
  BY DEF Init, WorkerInv, Position
<1>4. ProcessedIsApplied
  BY DEF Init, ProcessedIsApplied
<1> QED
  BY <1>2, <1>3, <1>4 DEF InboxInv

\* Every step of receiver and worker keeps the types.
LEMMA InboxTypeStep == TypeOK /\ WorkerInv /\ [Next]_vars => TypeOK'
<1> SUFFICES ASSUME TypeOK, WorkerInv, [Next]_vars PROVE TypeOK'
  OBVIOUS
<1> USE DEF TypeOK, rowVars, eventVars, githubVars, workerVars
<1>1. ASSUME NEW d \in Deliveries, Receive(d) \/ ReceiveFails(d) PROVE TypeOK'
  <2>1. Append(inbox, d) \in Seq(Deliveries)
    OBVIOUS
  <2>2. CASE Receive(d)
    BY <2>1, <2>2 DEF Receive
  <2>3. CASE ReceiveFails(d)
    BY <2>3 DEF ReceiveFails
  <2> QED
    BY <1>1, <2>2, <2>3
<1>2. ASSUME NEW w \in Workers, ClaimWebhooks(w) PROVE TypeOK'
  BY <1>2, ClaimTypes DEF ClaimWebhooks
<1>3. ASSUME NEW w \in Workers, PickDelivery(w) PROVE TypeOK'
  <2>1. PICK d \in wbatch[w] :
              /\ wcur' = [wcur EXCEPT ![w] = d]
              /\ wbatch' = [wbatch EXCEPT ![w] = @ \ {d}]
              /\ wleft' = [wleft EXCEPT ![w] = Carries[d]]
    BY <1>3 DEF PickDelivery
  <2>2. d \in Deliveries /\ Carries[d] \in Seq(Events)
    OBVIOUS
  <2> QED
    BY <1>3, <2>1, <2>2 DEF PickDelivery
<1>4. ASSUME NEW w \in Workers, RecordEvent(w) PROVE TypeOK'
  <2>1. Head(wleft[w]) \in Events
    BY <1>4, HeadAndTail DEF RecordEvent
  <2> QED
    BY <1>4, <2>1 DEF RecordEvent
<1>5. ASSUME NEW w \in Workers, AddEventActors(w) PROVE TypeOK'
  <2>1. wleft[w] # <<>> /\ Head(wleft[w]) \in recorded
    BY <1>5 DEF AddEventActors, WorkerInv, Position
  <2>2. Tail(wleft[w]) \in Seq(Events)
    BY <2>1, HeadAndTail
  <2> QED
    BY <1>5, <2>1, <2>2 DEF AddEventActors
<1>6. ASSUME NEW w \in Workers, HandlerReturns(w) \/ HandlerFails(w)
      PROVE  TypeOK'
  <2>1. CASE HandlerReturns(w)
    BY <2>1 DEF HandlerReturns
  <2>2. CASE HandlerFails(w)
    <3>1. faults' \in 0..MaxFaults
      BY <2>2 DEF HandlerFails
    <3> QED
      BY <2>2, <3>1 DEF HandlerFails
  <2> QED
    BY <1>6, <2>1, <2>2
<1>7. ASSUME NEW w \in Workers,
             MarkWebhookProcessed(w) \/ MarkWebhookFailed(w)
      PROVE  TypeOK'
  <2>1. wcur[w] \in Deliveries
    BY <1>7 DEF MarkWebhookProcessed, MarkWebhookFailed, WorkerInv, Position
  <2>2. <<>> \in Seq(Events)
    OBVIOUS
  <2>3. /\ wpc' = [wpc EXCEPT ![w] = "draining"]
        /\ wcur' = [wcur EXCEPT ![w] = Nothing]
        /\ wleft' = [wleft EXCEPT ![w] = <<>>]
        /\ UNCHANGED <<wbatch, inbox, eventVars, githubVars, faults>>
        /\ processed' \subseteq Deliveries /\ failed' \subseteq Deliveries
    BY <1>7, <2>1 DEF MarkWebhookProcessed, MarkWebhookFailed, DeliveryIsDone
  <2> QED
    BY <2>2, <2>3
<1>8. ASSUME NEW w \in Workers, FinishDrain(w) \/ DrainAborts(w) PROVE TypeOK'
  <2>1. <<>> \in Seq(Events)
    OBVIOUS
  <2>2. CASE FinishDrain(w)
    BY <2>2 DEF FinishDrain
  <2>3. CASE DrainAborts(w)
    BY <2>1, <2>3 DEF DrainAborts
  <2> QED
    BY <1>8, <2>2, <2>3
<1>9. CASE UNCHANGED vars
  BY <1>9 DEF vars
<1> QED
  BY <1>1, <1>2, <1>3, <1>4, <1>5, <1>6, <1>7, <1>8, <1>9
     DEF Next, WorkerStep

\* Every step of a worker takes it from one position to the next.
LEMMA WorkerStepKeeps ==
    ASSUME TypeOK, WorkerInv, NEW w \in Workers,
           WorkerStep(w) \/ DrainAborts(w)
    PROVE  WorkerInv'
<1>1. Position(w) /\ wleft[w] \in Seq(Events)
  BY DEF WorkerInv, TypeOK
<1>2. ASSUME NEW v \in Workers, v # w PROVE Position(v)'
  <2>1. /\ recorded \subseteq recorded' /\ credited \subseteq credited'
        /\ UNCHANGED <<wpc[v], wcur[v], wleft[v]>>
    BY <1>2 DEF WorkerStep, ClaimWebhooks, PickDelivery, RecordEvent,
       AddEventActors, HandlerReturns, HandlerFails, MarkWebhookProcessed,
       MarkWebhookFailed, DeliveryIsDone, FinishDrain, DrainAborts, TypeOK,
       eventVars
  <2> QED
    BY <2>1, OthersStay
<1>3. CASE PickDelivery(w)
  <2>1. PICK d \in wbatch[w] : /\ wcur'[w] = d /\ wleft'[w] = Carries[d]
                               /\ wpc'[w] = "recording"
    BY <1>3 DEF PickDelivery, TypeOK
  <2>2. d \in Deliveries
    BY DEF TypeOK
  <2> QED
    BY <1>2, <2>1, <2>2 DEF WorkerInv, Position
<1>4. CASE RecordEvent(w)
  <2>1. /\ wpc[w] = "recording" /\ wleft[w] # <<>> /\ wpc'[w] = "crediting"
        /\ UNCHANGED <<wcur[w], wleft[w], credited>>
        /\ Head(wleft[w]) \in recorded'
    BY <1>4 DEF RecordEvent, TypeOK
  <2>2. wcur[w] \in Poison => Tail(wleft[w]) # <<>>
    <3>1. wcur[w] \in Poison => Len(wleft[w]) # 1
      BY <1>4 DEF RecordEvent, IsStuck
    <3>2. Len(wleft[w]) # 1 => Len(Tail(wleft[w])) # 0
      BY <1>1, <2>1
    <3> QED
      BY <3>1, <3>2
  <2> QED
    BY <1>1, <1>2, <2>1, <2>2 DEF WorkerInv, Position
<1>5. CASE AddEventActors(w)
  <2>1. /\ wpc[w] = "crediting" /\ wpc'[w] = "recording"
        /\ wleft'[w] = Tail(wleft[w]) /\ UNCHANGED wcur
        /\ credited' = credited \cup {Head(wleft[w])}
    BY <1>5 DEF AddEventActors, TypeOK
  <2>2. ToSet(wleft[w]) \subseteq {Head(wleft[w])} \cup ToSet(Tail(wleft[w]))
    BY <1>1, <2>1, HeadAndTail DEF Position
  <2> QED
    BY <1>1, <1>2, <2>1, <2>2 DEF WorkerInv, Position
<1>6. CASE HandlerReturns(w)
  BY <1>1, <1>2, <1>6 DEF HandlerReturns, WorkerInv, Position, TypeOK,
     eventVars
<1>7. CASE HandlerFails(w)
  BY <1>1, <1>2, <1>7 DEF HandlerFails, WorkerInv, Position, TypeOK
<1>8. CASE ClaimWebhooks(w) \/ FinishDrain(w) \/ DrainAborts(w)
  BY <1>2, <1>8 DEF ClaimWebhooks, FinishDrain, DrainAborts, WorkerInv,
     Position, TypeOK
<1>9. CASE MarkWebhookProcessed(w) \/ MarkWebhookFailed(w)
  BY <1>2, <1>9 DEF MarkWebhookProcessed, MarkWebhookFailed, DeliveryIsDone,
     WorkerInv, Position, TypeOK
<1> QED
  BY <1>3, <1>4, <1>5, <1>6, <1>7, <1>8, <1>9 DEF WorkerStep

\* ... and only what has been done is marked.
LEMMA MarkStep ==
    TypeOK /\ WorkerInv /\ ProcessedIsApplied /\ [Next]_vars
        => ProcessedIsApplied'
<1> SUFFICES ASSUME TypeOK, WorkerInv, ProcessedIsApplied, [Next]_vars
             PROVE  ProcessedIsApplied'
  OBVIOUS
<1>1. ASSUME NEW w \in Workers, MarkWebhookProcessed(w)
      PROVE  ProcessedIsApplied'
  <2>1. /\ wcur[w] \notin Poison
        /\ ToSet(Carries[wcur[w]]) \subseteq credited
    BY <1>1, EmptyElements DEF MarkWebhookProcessed, WorkerInv, Position
  <2> QED
    BY <1>1, <2>1 DEF MarkWebhookProcessed, ProcessedIsApplied, eventVars
<1>2. ASSUME processed' = processed, credited \subseteq credited'
      PROVE  ProcessedIsApplied'
  BY <1>2 DEF ProcessedIsApplied
<1>3. \/ processed' = processed /\ credited \subseteq credited'
      \/ \E w \in Workers : MarkWebhookProcessed(w)
  BY DEF Next, Receive, ReceiveFails, WorkerStep, ClaimWebhooks, PickDelivery,
     RecordEvent, AddEventActors, HandlerReturns, HandlerFails,
     MarkWebhookFailed, FinishDrain, DrainAborts, vars, rowVars, eventVars
<1> QED
  BY <1>1, <1>2, <1>3

\* Every step of receiver and worker keeps the invariant.
LEMMA InboxStep == InboxInv /\ [Next]_vars => InboxInv'
<1> SUFFICES ASSUME InboxInv, [Next]_vars PROVE WorkerInv'
  BY InboxTypeStep, MarkStep DEF InboxInv
<1>1. ASSUME NEW w \in Workers, WorkerStep(w) \/ DrainAborts(w)
      PROVE  WorkerInv'
  BY <1>1, WorkerStepKeeps DEF InboxInv
<1>2. CASE \/ \E d \in Deliveries : Receive(d) \/ ReceiveFails(d)
           \/ UNCHANGED vars
  <2>1. UNCHANGED <<eventVars, workerVars>>
    BY <1>2 DEF Receive, ReceiveFails, vars
  <2>2. ASSUME NEW v \in Workers PROVE Position(v)'
    BY <2>1, OthersStay DEF InboxInv, eventVars, workerVars
  <2> QED
    BY <2>2 DEF WorkerInv
<1> QED
  BY <1>1, <1>2 DEF Next

\* The tables and the workers' locals keep their types.
THEOREM InboxTypes == Spec => []TypeOK
BY InboxInit, InboxStep, PTL DEF Spec, InboxInv

\* A delivery that has left the queue has had all its effect, however many
\* workers share its row and wherever they fail.
THEOREM NothingIsSkipped == Spec => []ProcessedIsApplied
BY InboxInit, InboxStep, PTL DEF Spec, InboxInv

\* What a worker handles, and what has been recorded, comes from rows of the table.
Sourced(w) ==
    /\ wbatch[w] \subseteq ToSet(inbox)
    /\ wpc[w] \in {"recording", "crediting"} =>
          /\ wcur[w] \in ToSet(inbox)
          /\ ToSet(wleft[w]) \subseteq ToSet(Carries[wcur[w]])

SourceInv ==
    /\ \A w \in Workers : Sourced(w)
    /\ \A e \in recorded : \E d \in ToSet(inbox) : e \in ToSet(Carries[d])

\* The table only grows.
LEMMA RowsStay == ASSUME TypeOK, NEW d \in Deliveries
                  PROVE  ToSet(inbox) \subseteq ToSet(Append(inbox, d))
<1>1. /\ DOMAIN inbox \subseteq DOMAIN Append(inbox, d)
      /\ \A i \in DOMAIN inbox : Append(inbox, d)[i] = inbox[i]
  BY DEF TypeOK
<1> QED
  BY <1>1 DEF ToSet

LEMMA TailElements ==
    ASSUME NEW s \in Seq(Events), s # <<>>
    PROVE  Head(s) \in ToSet(s) /\ ToSet(Tail(s)) \subseteq ToSet(s)
<1>1. Head(s) = s[1] /\ 1 \in DOMAIN s
  OBVIOUS
<1>2. ASSUME NEW i \in DOMAIN Tail(s)
      PROVE  i + 1 \in DOMAIN s /\ Tail(s)[i] = s[i + 1]
  BY <1>2
<1> QED
  BY <1>1, <1>2 DEF ToSet

LEMMA SourceStep ==
    ASSUME InboxInv, SourceInv, [Next]_vars
    PROVE  SourceInv'
<1> USE DEF InboxInv
<1>1. ASSUME UNCHANGED inbox, recorded' = recorded,
             \A w \in Workers : Sourced(w)'
      PROVE  SourceInv'
  BY <1>1 DEF SourceInv
<1>2. ASSUME NEW d \in Deliveries, Receive(d) \/ ReceiveFails(d) PROVE SourceInv'
  <2>1. /\ ToSet(inbox) \subseteq ToSet(inbox') /\ recorded' = recorded
        /\ UNCHANGED <<wbatch, wpc, wcur, wleft>>
    BY <1>2, RowsStay DEF Receive, ReceiveFails, rowVars, eventVars, workerVars
  <2> QED
    BY <2>1 DEF SourceInv, Sourced
<1>3. ASSUME NEW w \in Workers, ClaimWebhooks(w) PROVE SourceInv'
  <2>1. Claimable \subseteq ToSet(inbox)
    BY DEF Claimable, ToSet
  <2>2. /\ wbatch'[w] = Claimable /\ wpc'[w] = "draining"
        /\ \A v \in Workers \ {w} : wbatch'[v] = wbatch[v] /\ wpc'[v] = wpc[v]
        /\ UNCHANGED <<inbox, recorded, wcur, wleft>>
    BY <1>3 DEF ClaimWebhooks, rowVars, eventVars, TypeOK
  <2> QED
    BY <2>1, <2>2 DEF SourceInv, Sourced
<1>4. ASSUME NEW w \in Workers, PickDelivery(w) PROVE SourceInv'
  <2>1. PICK d \in wbatch[w] :
             /\ wcur'[w] = d /\ wbatch'[w] = wbatch[w] \ {d} /\ wleft'[w] = Carries[d]
             /\ \A v \in Workers \ {w} : /\ wbatch'[v] = wbatch[v] /\ wpc'[v] = wpc[v]
                                        /\ wcur'[v] = wcur[v] /\ wleft'[v] = wleft[v]
             /\ UNCHANGED <<inbox, recorded>>
    BY <1>4 DEF PickDelivery, rowVars, eventVars, TypeOK
  <2> QED
    BY <2>1 DEF SourceInv, Sourced
<1>5. ASSUME NEW w \in Workers, RecordEvent(w) PROVE SourceInv'
  <2>1. /\ wpc[w] = "recording" /\ wleft[w] # <<>> /\ recorded' = recorded \cup {Head(wleft[w])}
        /\ \A v \in Workers : wpc'[v] = wpc[v] \/ v = w
        /\ UNCHANGED <<inbox, wbatch, wcur, wleft>>
    BY <1>5 DEF RecordEvent, rowVars
  <2>2. Head(wleft[w]) \in ToSet(wleft[w])
    BY <2>1, TailElements DEF TypeOK
  <2>3. wcur[w] \in ToSet(inbox) /\ ToSet(wleft[w]) \subseteq ToSet(Carries[wcur[w]])
    BY <2>1 DEF SourceInv, Sourced
  <2> QED
    BY <2>1, <2>2, <2>3 DEF SourceInv, Sourced
<1>6. ASSUME NEW w \in Workers, AddEventActors(w) PROVE SourceInv'
  <2>1. /\ wpc[w] = "crediting" /\ wleft[w] # <<>> /\ wleft'[w] = Tail(wleft[w])
        /\ \A v \in Workers \ {w} : wpc'[v] = wpc[v] /\ wleft'[v] = wleft[v]
        /\ UNCHANGED <<inbox, recorded, wbatch, wcur>>
    BY <1>6 DEF AddEventActors, rowVars, WorkerInv, Position, TypeOK
  <2>2. ToSet(wleft'[w]) \subseteq ToSet(wleft[w])
    BY <2>1, TailElements DEF TypeOK
  <2> QED
    BY <2>1, <2>2 DEF SourceInv, Sourced
<1>7. ASSUME NEW w \in Workers,
             \/ HandlerReturns(w) \/ HandlerFails(w) \/ MarkWebhookProcessed(w)
             \/ MarkWebhookFailed(w) \/ FinishDrain(w) \/ DrainAborts(w)
      PROVE  SourceInv'
  <2>1. /\ wpc'[w] \notin {"recording", "crediting"} /\ wbatch'[w] \subseteq wbatch[w]
        /\ \A v \in Workers \ {w} : /\ wbatch'[v] = wbatch[v] /\ wpc'[v] = wpc[v]
                                   /\ wcur'[v] = wcur[v] /\ wleft'[v] = wleft[v]
        /\ UNCHANGED <<inbox, recorded>>
    BY <1>7 DEF HandlerReturns, HandlerFails, MarkWebhookProcessed, MarkWebhookFailed,
       DeliveryIsDone, FinishDrain, DrainAborts, rowVars, eventVars, TypeOK
  <2> QED
    BY <2>1 DEF SourceInv, Sourced
<1>8. CASE UNCHANGED vars
  BY <1>8 DEF vars, rowVars, eventVars, workerVars, SourceInv, Sourced
<1> QED
  BY <1>2, <1>3, <1>4, <1>5, <1>6, <1>7, <1>8 DEF Next, WorkerStep

\* An event whose people are missing is carried by a row that is still in the queue,
\* whatever failed between its two inserts and however many workers repeat them.
THEOREM NobodyIsForgotten == Spec => []UncreditedIsOwed
<1>1. Init => SourceInv
  BY DEF Init, SourceInv, Sourced
<1>2. InboxInv /\ SourceInv /\ [Next]_vars => SourceInv'
  BY SourceStep
<1>3. InboxInv /\ SourceInv => UncreditedIsOwed
  BY DEF InboxInv, ProcessedIsApplied, SourceInv, UncreditedIsOwed
<1> QED
  BY <1>1, <1>2, <1>3, InboxInit, InboxStep, PTL DEF Spec

-----------------------------------------------------------------------------
(* Reports: the invariant *)

HIDE InboxAssumption

Stored(e) == \A c \in Credits[e] : <<e, c[1], c[2]>> \in actor

\* An importer that is past the actors of its event has stored them.
ImporterFits(w) ==
    /\ importer[w].at \in {"actors", "cursor"} => event[importer[w].of] # None
    /\ importer[w].at = "cursor" => Stored(importer[w].of)

ImportersFit ==
    /\ importer \in [Importers -> {Free} \cup [at : {"actors", "cursor"}, of : Activities]]
    /\ \A w \in Importers : ImporterFits(w)

ReportFields == {"at", "req", "window", "rows", "counts", "times", "owed", "empty", "asOf",
                 "headline"}
BoardFields  == {"at", "req", "window", "shown", "cursor", "first", "same"}

\* What the reader knows where; what a report owes stays stored.
ReaderFits ==
    /\ reader.at = "idle" => reader = Free
    /\ reader.at \in {"tags", "rows", "freshness"} => "owed" \in DOMAIN reader
    /\ reader.at = "paging" => DOMAIN reader = BoardFields /\ reader.req \in BoardAsks
    /\ "owed" \in DOMAIN reader =>
          /\ DOMAIN reader = ReportFields /\ reader.req \in ReportAsks
          /\ \E t \in Int : reader.window = Window(reader.req, t)
          /\ \A e \in reader.owed : Stored(e)

ReportInv == ReportTypeOK /\ IsFiniteSet(actor) /\ ImportersFit /\ ReaderFits

\* A request narrowed to the person or organisation of its path is one.
LEMMA NarrowTypes == ASSUME NEW r \in Requests PROVE Narrow(r) \in ReportAsks
<1>1. r \in ReportAsks /\ (r.path = "user" => r.of \in People) /\ (r.path = "org" => r.of \in Orgs)
  BY RequestsAssumption
<1>2. CASE r.path = "user"
  <2>1. Narrow(r) = [r EXCEPT !.users = @ \cup {r.of}]
    BY <1>2 DEF Narrow
  <2> QED
    BY <1>1, <1>2, <2>1 DEF ReportAsks
<1>3. CASE r.path = "org"
  <2>1. Narrow(r) = [r EXCEPT !.orgs = <<r.of>>]
    BY <1>3 DEF Narrow
  <2>2. <<r.of>> \in Seq(Orgs)
    BY <1>1, <1>3
  <2> QED
    BY <1>1, <1>3, <2>1, <2>2 DEF ReportAsks
<1>4. CASE r.path \notin {"user", "org"}
  BY <1>1, <1>4 DEF Narrow
<1> QED
  BY <1>2, <1>3, <1>4

\* The first state has nothing recorded and nobody reading.
LEMMA ReportStart == ReportInit => ReportInv
<1> SUFFICES ASSUME ReportInit PROVE ReportInv
  OBVIOUS
<1>1. IsFiniteSet(actor)
  BY FS_EmptySet DEF ReportInit
<1>2. ReportTypeOK
  BY TablesAssumption, ClockAssumption, RequestsAssumption DEF ReportInit, ReportTypeOK, Free
<1>3. ImportersFit
  BY DEF ReportInit, ImportersFit, ImporterFits, Free
<1>4. ReaderFits
  BY DEF ReportInit, ReaderFits, Free
<1> QED
  BY <1>1, <1>2, <1>3, <1>4 DEF ReportInv

\* The steps that write no tables.
Reading == \/ AskReport \/ ReadTags \/ ReadRows \/ ReadFreshness
           \/ AskBoard \/ NextPage \/ AskStanding \/ AskPortfolio

\* A reader writes nothing.
LEMMA ReadingKeepsTables == Reading => UNCHANGED <<dataVars, project>>
BY DEF Reading, AskReport, ReadTags, ReadRows, ReadFreshness, AskBoard, NextPage, AskStanding,
   AskPortfolio

\* Every step keeps the tables as they should be: rows are only added.
LEMMA TablesStep ==
    ReportInv /\ [ReportNext]_reportVars =>
       /\ ReportTypeOK' /\ IsFiniteSet(actor)' /\ ImportersFit'
       /\ actor \subseteq actor'
<1> SUFFICES ASSUME ReportInv, [ReportNext]_reportVars
             PROVE  /\ ReportTypeOK' /\ IsFiniteSet(actor)' /\ ImportersFit'
                    /\ actor \subseteq actor'
  OBVIOUS
<1> USE DEF dataVars
<1> DEFINE Goal == /\ ReportTypeOK' /\ IsFiniteSet(actor)' /\ ImportersFit'
                   /\ actor \subseteq actor'
<1>1. CASE Tick
  <2>1. clock' \in Start..MaxClock
    BY <1>1, ClockAssumption DEF Tick, ReportInv, ReportTypeOK
  <2> QED
    BY <1>1, <2>1 DEF Tick, ReportInv, ReportTypeOK, ImportersFit, ImporterFits, Stored
<1>2. ASSUME NEW w \in Importers, RecordActivity(w) PROVE Goal
  <2>1. PICK e \in Activities, t \in {clock - DayLength, clock} :
              /\ event' = [event EXCEPT ![e] = t]
              /\ importer' = [importer EXCEPT ![w] = [at |-> "actors", of |-> e]]
              /\ covered' = covered \ {e}
    BY <1>2 DEF RecordActivity
  <2>2. t \in 0..MaxClock /\ t # None
    BY ClockAssumption, TablesAssumption DEF ReportInv, ReportTypeOK
  <2>3. /\ event' \in [Activities -> {None} \cup 0..MaxClock]
        /\ \A a \in Activities : event[a] # None => event'[a] # None
        /\ event'[e] # None
    BY <2>1, <2>2 DEF ReportInv, ReportTypeOK
  <2>4. deliveries' \in 0..MaxDeliveries
    BY <1>2, RequestsAssumption DEF RecordActivity, ReportInv, ReportTypeOK
  <2>5. actor' = actor /\ UNCHANGED <<clock, cursor, project, reader>>
    BY <1>2 DEF RecordActivity
  <2>6. ReportTypeOK'
    BY <2>1, <2>3, <2>4, <2>5 DEF ReportInv, ReportTypeOK
  <2>7. ImportersFit'
    BY <2>1, <2>3, <2>5 DEF ReportInv, ImportersFit, ImporterFits, Stored, Free
  <2> QED
    BY <2>5, <2>6, <2>7 DEF ReportInv
<1>3. ASSUME NEW w \in Importers, AddActors(w) PROVE Goal
  <2>0. PICK e : e = importer[w].of
    OBVIOUS
  <2> DEFINE new == {<<e, c[1], c[2]>> : c \in Credits[e]}
  <2>1. /\ importer[w].at = "actors" /\ actor' = actor \cup new
        /\ importer' = [importer EXCEPT ![w].at = "cursor"]
        /\ UNCHANGED <<clock, deliveries, event, cursor, covered, project, reader>>
    BY <1>3, <2>0 DEF AddActors
  <2>2. e \in Activities /\ event[e] # None
    BY <2>0, <2>1 DEF ReportInv, ImportersFit, ImporterFits, Free
  <2>3. IsFiniteSet(new)
    <3>1. IsFiniteSet(Credits[e])
      BY <2>2, TablesAssumption
    <3> DEFINE f == [c \in Credits[e] |-> <<e, c[1], c[2]>>]
    <3>2. new = {f[c] : c \in Credits[e]}
      OBVIOUS
    <3> HIDE DEF f, new
    <3> QED
      BY <3>1, <3>2, ImageIsFinite
  <2>4. new \subseteq Activities \X People \X EventRoles
    BY <2>2, TablesAssumption DEF EventRoles
  <2>5. \A x \in new : x[1] = e
    OBVIOUS
  <2> HIDE DEF new
  <2>6. ReportTypeOK'
    BY <2>1, <2>2, <2>4, <2>5 DEF ReportInv, ReportTypeOK
  <2>7. IsFiniteSet(actor')
    BY <2>1, <2>3, FS_Union DEF ReportInv
  <2>8. Stored(e)'
    BY <2>1 DEF Stored, new
  <2>9. ImportersFit'
    <3>1. importer' = [importer EXCEPT ![w] = [at |-> "cursor", of |-> e]]
      <4>1. importer[w] = [at |-> "actors", of |-> e]
        BY <2>0, <2>1 DEF ReportInv, ImportersFit, ImporterFits, Free
      <4>2. [importer[w] EXCEPT !.at = "cursor"] = [at |-> "cursor", of |-> e]
        <5> QED
          BY <4>1
      <4> QED
        BY <2>1, <4>2
    <3>2. \A v \in Importers : v # w => importer'[v] = importer[v]
      BY <3>1 DEF ReportInv, ImportersFit
    <3>3. importer'[w].of = e /\ importer'[w].at = "cursor"
      BY <3>1 DEF ReportInv, ImportersFit
    <3>4. \A a : Stored(a) => Stored(a)'
      BY <2>1 DEF Stored
    <3>5. importer' \in [Importers -> {Free} \cup [at : {"actors", "cursor"}, of : Activities]]
      BY <2>2, <3>1 DEF ReportInv, ImportersFit
    <3>6. ASSUME NEW v \in Importers PROVE ImporterFits(v)'
      <4>1. CASE v = w
        <5>1. importer'[v].of = e /\ event' = event
          BY <2>1, <3>3, <4>1
        <5>2. event'[importer'[v].of] # None
          BY <2>2, <5>1
        <5>3. Stored(importer[v].of)'
          BY <2>8, <5>1 DEF Stored
        <5> QED
          BY <5>2, <5>3 DEF ImporterFits
      <4>2. CASE v # w
        <5>1. ImporterFits(v)
          BY DEF ReportInv, ImportersFit
        <5> QED
          BY <2>1, <3>2, <4>2, <5>1 DEF ImporterFits, Stored
      <4> QED
        BY <4>1, <4>2
    <3> QED
      BY <3>5, <3>6 DEF ImportersFit
  <2> QED
    BY <2>1, <2>6, <2>7, <2>9
<1>4. ASSUME NEW w \in Importers, PutCursor(w) \/ GiveUp(w) PROVE Goal
  <2> DEFINE e == importer[w].of
  <2>1. /\ importer' = [importer EXCEPT ![w] = Free]
        /\ UNCHANGED <<clock, deliveries, event, actor, project, reader>>
    BY <1>4 DEF PutCursor, GiveUp
  <2>2. ImportersFit'
    BY <2>1 DEF ReportInv, ImportersFit, ImporterFits, Stored, Free
  <2>3. CASE PutCursor(w)
    <3>1. /\ importer[w].at = "cursor"
          /\ cursor' = [cursor EXCEPT ![OrgOf[RepoOf[e]]] = clock]
          /\ covered' = covered \cup {e}
      BY <2>3 DEF PutCursor
    <3>2. Stored(e)
      BY <3>1 DEF ReportInv, ImportersFit, ImporterFits
    <3> HIDE DEF e
    <3>3. cursor' \in [Orgs -> {None} \cup Start..MaxClock]
      BY <3>1 DEF ReportInv, ReportTypeOK
    <3> QED
      BY <2>1, <2>2, <3>1, <3>2, <3>3 DEF ReportInv, ReportTypeOK, Stored
  <2>4. CASE GiveUp(w)
    BY <2>1, <2>2, <2>4 DEF GiveUp, ReportInv, ReportTypeOK
  <2> QED
    BY <1>4, <2>3, <2>4
<1>5. CASE Reading
  <2>1. UNCHANGED <<dataVars, project>>
    BY <1>5, ReadingKeepsTables
  <2>2. reader'.at \in {"idle", "tags", "rows", "freshness", "paging", "answered", "refused"}
    <3>1. CASE AskReport \/ AskBoard \/ AskStanding \/ AskPortfolio
      <4>1. CASE AskReport
        BY <4>1 DEF AskReport
      <4>2. CASE AskBoard
        BY <4>2 DEF AskBoard
      <4>3. CASE AskStanding
        BY <4>3 DEF AskStanding
      <4>4. CASE AskPortfolio
        BY <4>4 DEF AskPortfolio
      <4> QED
        BY <3>1, <4>1, <4>2, <4>3, <4>4
    <3>2. CASE ReadTags \/ ReadRows \/ ReadFreshness
      <4>1. DOMAIN reader = ReportFields
        BY <3>2 DEF ReadTags, ReadRows, ReadFreshness, ReportInv, ReaderFits
      <4>2. "at" \in DOMAIN reader
        BY <4>1 DEF ReportFields
      <4> QED
        BY <3>2, <4>2 DEF ReadTags, ReadRows, ReadFreshness
    <3>3. CASE NextPage
      <4>1. "at" \in DOMAIN reader
        BY <3>3 DEF NextPage, ReportInv, ReaderFits, BoardFields
      <4> QED
        BY <3>3, <4>1 DEF NextPage
    <3> QED
      BY <1>5, <3>1, <3>2, <3>3 DEF Reading
  <2> QED
    BY <2>1, <2>2 DEF ReportInv, ReportTypeOK, ImportersFit, ImporterFits, Stored
<1>6. CASE UNCHANGED reportVars
  BY <1>6 DEF reportVars, ReportInv, ReportTypeOK, ImportersFit, ImporterFits, Stored
<1> QED
  BY <1>1, <1>2, <1>3, <1>4, <1>5, <1>6 DEF ReportNext, Import, Reading

\* The record a step of the reader leaves.
LEMMA AskReportLeaves ==
    ASSUME ReportInv, AskReport
    PROVE  \/ reader'.at = "refused" /\ DOMAIN reader' = {"at", "req"}
           \/ /\ reader'.at \in {"freshness", "tags"} /\ DOMAIN reader' = ReportFields
              /\ reader'.req \in ReportAsks /\ reader'.owed = covered
              /\ reader'.window = Window(reader'.req, clock)
              /\ reader'.at = "freshness" => reader'.req.path = "freshness"
<1>1. PICK r \in Requests :
         LET req == Narrow(r) IN
          IF req.group = "tag" /\ req.tags = {}
          THEN reader' = [at |-> "refused", req |-> req]
          ELSE reader' = [at |-> IF req.path = "freshness" THEN "freshness" ELSE "tags",
                          req |-> req, window |-> Window(req, clock), rows |-> {},
                          counts |-> <<>>, times |-> <<>>, owed |-> covered,
                          empty |-> FALSE, asOf |-> <<>>, headline |-> None]
  BY DEF AskReport
<1>2. Narrow(r) \in ReportAsks
  BY NarrowTypes
<1>3. CASE Narrow(r).group = "tag" /\ Narrow(r).tags = {}
  BY <1>1, <1>3
<1>4. CASE ~(Narrow(r).group = "tag" /\ Narrow(r).tags = {})
  <2>1. reader' = [at |-> IF Narrow(r).path = "freshness" THEN "freshness" ELSE "tags",
                   req |-> Narrow(r), window |-> Window(Narrow(r), clock), rows |-> {},
                   counts |-> <<>>, times |-> <<>>, owed |-> covered,
                   empty |-> FALSE, asOf |-> <<>>, headline |-> None]
    BY <1>1, <1>4
  <2> QED
    BY <1>2, <2>1 DEF ReportFields
<1> QED
  BY <1>3, <1>4

\* A report that goes on keeps its request, its window and what it owes.
LEMMA ReportGoesOn ==
    ASSUME ReportInv, ReadTags \/ ReadRows \/ ReadFreshness
    PROVE  /\ "owed" \in DOMAIN reader
           /\ DOMAIN reader' = DOMAIN reader
           /\ UNCHANGED <<reader.req, reader.window, reader.owed>>
           /\ reader'.at \in {"rows", "freshness", "refused", "answered"}
           /\ ReadTags => /\ reader'.at = "rows" \/ reader'.empty
           /\ ReadFreshness => /\ reader.at = "freshness" /\ reader'.at = "answered"
                               /\ UNCHANGED <<reader.rows, reader.times, reader.counts,
                                              reader.empty>>
<1>1. "owed" \in DOMAIN reader /\ DOMAIN reader = ReportFields
  BY DEF ReadTags, ReadRows, ReadFreshness, ReportInv, ReaderFits
<1>2. CASE ReadTags
  <2>1. PICK miss \in BOOLEAN :
           reader' = [reader EXCEPT !.at = IF miss THEN "freshness" ELSE "rows", !.empty = miss]
    <3>1. PICK links : LET miss == /\ reader.req.tags # {}
                                   /\ TagsMismatch(ResolveTagTargets(links), reader.req.kinds)
                       IN  reader' = [reader EXCEPT !.at = IF miss THEN "freshness" ELSE "rows",
                                                    !.empty = miss]
      BY <1>2 DEF ReadTags
    <3>2. (/\ reader.req.tags # {}
           /\ TagsMismatch(ResolveTagTargets(links), reader.req.kinds)) \in BOOLEAN
      BY DEF TagsMismatch
    <3> QED
      BY <3>1, <3>2
  <2>2. reader.at = "tags"
    BY <1>2 DEF ReadTags
  <2> QED
    BY <1>1, <1>2, <2>1, <2>2 DEF ReportFields, ReadRows, ReadFreshness
<1>3. CASE ReadRows
  BY <1>1, <1>3 DEF ReadRows, ReportFields, ReadTags, ReadFreshness
<1>4. CASE ReadFreshness
  BY <1>1, <1>4 DEF ReadFreshness, ReportFields, ReadTags, ReadRows
<1> QED
  BY <1>2, <1>3, <1>4

\* Boards, standings and portfolios leave records of their own.
LEMMA OthersLeave ==
    ASSUME ReportInv, AskBoard \/ NextPage \/ AskStanding \/ AskPortfolio
    PROVE  /\ "owed" \notin DOMAIN reader' /\ reader'.at \in {"paging", "answered", "refused"}
           /\ reader'.at = "paging" => DOMAIN reader' = BoardFields /\ reader'.req \in BoardAsks
<1>1. CASE AskBoard
  BY <1>1, RequestsAssumption DEF AskBoard, BoardFields
<1>2. CASE NextPage
  <2>1. DOMAIN reader = BoardFields /\ reader.req \in BoardAsks
    BY <1>2 DEF NextPage, ReportInv, ReaderFits
  <2> QED
    BY <1>2, <2>1 DEF NextPage, BoardFields
<1>3. CASE AskStanding
  BY <1>3 DEF AskStanding
<1>4. CASE AskPortfolio
  BY <1>4 DEF AskPortfolio
<1> QED
  BY <1>1, <1>2, <1>3, <1>4

\* What a report owes stays stored while it is read: rows are only added.
LEMMA ReaderStep == ReportInv /\ [ReportNext]_reportVars => ReportInv'
<1> SUFFICES ASSUME ReportInv, [ReportNext]_reportVars PROVE ReaderFits'
  BY TablesStep DEF ReportInv
<1>1. \A e : Stored(e) => Stored(e)'
  BY TablesStep DEF Stored
<1>2. CASE reader' = reader
  BY <1>1, <1>2 DEF ReportInv, ReaderFits
<1>3. CASE AskReport
  <2>1. \A e \in covered : Stored(e)
    BY DEF ReportInv, ReportTypeOK, Stored
  <2>2. clock \in Int
    BY ClockAssumption DEF ReportInv, ReportTypeOK
  <2> QED
    BY <1>1, <1>3, <2>1, <2>2, AskReportLeaves DEF ReaderFits, ReportFields
<1>4. CASE ReadTags \/ ReadRows \/ ReadFreshness
  BY <1>1, <1>4, ReportGoesOn DEF ReportInv, ReaderFits
<1>5. CASE AskBoard \/ NextPage \/ AskStanding \/ AskPortfolio
  BY <1>5, OthersLeave DEF ReaderFits
<1>6. reader' = reader \/ Reading
  BY DEF ReportNext, Import, Tick, RecordActivity, AddActors, PutCursor, GiveUp, Reading, reportVars
<1> QED
  BY <1>2, <1>3, <1>4, <1>5, <1>6 DEF Reading

\* The tables, the importers and the reader keep their types.
THEOREM ReportTypes == ReportSpec => []ReportTypeOK
<1>1. ReportInv => ReportTypeOK
  BY DEF ReportInv
<1> QED
  BY <1>1, ReportStart, ReaderStep, PTL DEF ReportSpec

CoversOwed ==
    reader.empty \/ \A e \in reader.owed : \A c \in Credits[e] :
        Wanted(reader.req, reader.window, e, reader.times[e], c)
            => \E x \in reader.rows : x[1] = e /\ x[2] = c[1]

SplitAddsUp ==
    reader.req.path = "home_split" /\ ~reader.empty =>
        \A u \in People :
            Total(reader.counts, {k \in DOMAIN reader.counts : k[1] = u})
              = Cardinality({x \in AllOrgsCombined(reader.rows) : x[2] = u})

BucketsFit ==
    reader.req.path \in {"user", "team", "org"} /\ ~reader.empty /\ reader.req.group = "day" =>
        /\ reader.req.anchor = "viewer" =>
              \A k \in DOMAIN reader.counts : reader.window.start <= k /\ k < reader.window.end
        /\ Total(reader.counts, DOMAIN reader.counts) = Cardinality(reader.rows)

\* What an answer says of the rows holds from the moment they are read.
AnswerHolds ==
    "owed" \in DOMAIN reader /\ reader.at \in {"freshness", "answered"}
        /\ reader.req.path # "freshness" => CoversOwed /\ SplitAddsUp /\ BucketsFit

-----------------------------------------------------------------------------
(* Rows and lenses *)

\* The combined lens keeps one row of each person and event.
LEMMA CombinedIsPart ==
    ASSUME NEW rows
    PROVE  /\ AllOrgsCombined(rows) \subseteq rows
           /\ \A x, y \in AllOrgsCombined(rows) : x[1] = y[1] /\ x[2] = y[2] => x = y
           /\ \A x \in rows : \E y \in AllOrgsCombined(rows) : y[1] = x[1] /\ y[2] = x[2]
<1> DEFINE Pairs == {<<x[1], x[2]>> : x \in rows}
           First(p) == CHOOSE x \in rows : <<x[1], x[2]>> = p
<1>1. ASSUME NEW p \in Pairs PROVE First(p) \in rows /\ <<First(p)[1], First(p)[2]>> = p
  OBVIOUS
<1>2. AllOrgsCombined(rows) = {First(p) : p \in Pairs}
  BY DEF AllOrgsCombined
<1>3. ASSUME NEW x \in rows PROVE <<x[1], x[2]>> \in Pairs
  OBVIOUS
<1> HIDE DEF First, Pairs
<1>4. ASSUME NEW x \in AllOrgsCombined(rows), NEW y \in AllOrgsCombined(rows),
             x[1] = y[1], x[2] = y[2]
      PROVE  x = y
  <2>1. PICK p \in Pairs : x = First(p)
    BY <1>2
  <2>2. PICK q \in Pairs : y = First(q)
    BY <1>2
  <2>3. p = q
    BY <1>1, <1>4, <2>1, <2>2
  <2> QED
    BY <2>1, <2>2, <2>3
<1>5. ASSUME NEW x \in rows
      PROVE  \E y \in AllOrgsCombined(rows) : y[1] = x[1] /\ y[2] = x[2]
  <2> DEFINE p == <<x[1], x[2]>>
  <2>1. p \in Pairs
    BY <1>3
  <2>2. First(p) \in AllOrgsCombined(rows) /\ <<First(p)[1], First(p)[2]>> = p
    BY <1>1, <1>2, <2>1
  <2> QED
    BY <2>2
<1> QED
  BY <1>1, <1>2, <1>4, <1>5

\* A lens keeps, of each person and event it may keep, a row.
LEMMA LensKeeps ==
    ASSUME NEW rows, NEW scope, NEW orgs, NEW x \in rows,
           scope = "single_org" /\ orgs # <<>> => EventOrg(x[1]) = orgs[1]
    PROVE  \E y \in ApplyLens(rows, scope, orgs) : y[1] = x[1] /\ y[2] = x[2]
<1>1. CASE scope = "single_org" /\ orgs # <<>>
  <2>1. ApplyLens(rows, scope, orgs) = SingleOrg(rows, orgs[1])
    BY <1>1 DEF ApplyLens
  <2> QED
    BY <1>1, <2>1 DEF SingleOrg
<1>2. CASE scope = "all_orgs_combined"
  <2>1. ApplyLens(rows, scope, orgs) = AllOrgsCombined(rows)
    BY <1>2 DEF ApplyLens
  <2> QED
    BY <2>1, CombinedIsPart
<1>3. CASE ~(scope = "single_org" /\ orgs # <<>>) /\ scope # "all_orgs_combined"
  <2>1. ApplyLens(rows, scope, orgs) = rows
    BY <1>3 DEF ApplyLens
  <2> QED
    BY <2>1
<1> QED
  BY <1>1, <1>2, <1>3

\* ... and adds none.
LEMMA LensIsPart == ASSUME NEW rows, NEW scope, NEW orgs
                    PROVE  ApplyLens(rows, scope, orgs) \subseteq rows
BY CombinedIsPart DEF ApplyLens, SingleOrg

\* A total is a sum of the library's.
LEMMA SumIsTotal ==
    ASSUME NEW g, NEW S PROVE MapThenSumSet(LAMBDA k : g[k], S) = Total(g, S)
BY DEF Total

\* The split of one person's rows adds up to what the combined lens counts.
LEMMA SplitOfRows ==
    ASSUME NEW rows, IsFiniteSet(rows), NEW u
    PROVE  LET c == HomeSplit(rows) IN
           Total(c, {k \in DOMAIN c : k[1] = u})
              = Cardinality({x \in AllOrgsCombined(rows) : x[2] = u})
<1> DEFINE D == {<<x[2], EventOrg(x[1])>> : x \in rows}
           c == HomeSplit(rows)
           K == {k \in D : k[1] = u}
           A == {x \in AllOrgsCombined(rows) : x[2] = u}
           key == [x \in A |-> <<x[2], EventOrg(x[1])>>]
           Mine(k) == {x \in rows : <<x[2], EventOrg(x[1])>> = k}
           Seen(k) == {x[1] : x \in Mine(k)}
           Fibre(k) == {a \in A : key[a] = k}
<1>1. DOMAIN c = D /\ \A k \in D : c[k] = Cardinality(Seen(k))
  BY DEF HomeSplit, PerOrgSplit
<1>2. IsFiniteSet(D)
  <2> DEFINE f == [x \in rows |-> <<x[2], EventOrg(x[1])>>]
  <2>1. D = {f[x] : x \in rows}
    OBVIOUS
  <2> HIDE DEF D, f
  <2> QED
    BY <2>1, ImageIsFinite
<1>3. IsFiniteSet(A)
  BY CombinedIsPart, FS_Subset
<1>4. ASSUME NEW k \in D PROVE IsFiniteSet(Seen(k)) /\ Cardinality(Seen(k)) \in Int
  <2> DEFINE f == [x \in Mine(k) |-> x[1]]
  <2>1. Seen(k) = {f[x] : x \in Mine(k)} /\ IsFiniteSet(Mine(k))
    BY FS_Subset
  <2> HIDE DEF Seen, f, Mine
  <2> QED
    BY <2>1, ImageIsFinite, FS_CardinalityType
<1>5. c \in [D -> Int]
  <2>1. c = [k \in D |-> c[k]]
    BY DEF HomeSplit, PerOrgSplit
  <2> HIDE DEF c, D, Seen
  <2> QED
    BY <1>1, <1>4, <2>1
<1>6. ASSUME NEW k \in K PROVE c[k] = Cardinality(Fibre(k))
  <2> DEFINE f == [a \in Fibre(k) |-> a[1]]
  <2>1. Seen(k) = {f[a] : a \in Fibre(k)}
    <3>1. ASSUME NEW a \in Fibre(k) PROVE f[a] \in Seen(k)
      BY CombinedIsPart
    <3>2. ASSUME NEW x \in Mine(k) PROVE \E a \in Fibre(k) : f[a] = x[1]
      <4>1. x \in rows /\ <<x[2], EventOrg(x[1])>> = k
        OBVIOUS
      <4>2. PICK y \in AllOrgsCombined(rows) : y[1] = x[1] /\ y[2] = x[2]
        BY <4>1, CombinedIsPart
      <4>3. y \in A /\ key[y] = k
        BY <4>1, <4>2
      <4> QED
        BY <4>2, <4>3
    <3> HIDE DEF f, Fibre, Mine
    <3> QED
      BY <3>1, <3>2
  <2>2. \A a, b \in Fibre(k) : f[a] = f[b] => a = b
    <3>1. \A a \in Fibre(k) : a \in AllOrgsCombined(rows) /\ a[2] = u /\ f[a] = a[1]
      OBVIOUS
    <3> HIDE DEF f, Fibre
    <3> QED
      BY <3>1, CombinedIsPart
  <2>3. IsFiniteSet(Fibre(k))
    BY <1>3, FS_Subset
  <2> HIDE DEF f, Fibre, Seen
  <2>4. Cardinality(Seen(k)) = Cardinality(Fibre(k))
    BY <2>1, <2>2, <2>3, ImageIsFinite
  <2> QED
    BY <1>1, <2>4
<1>7. CountsBy(c, K, A, key)
  BY <1>6 DEF CountsBy
<1>8. {a \in A : key[a] \in K} = A
  <2>1. ASSUME NEW a \in A PROVE key[a] \in K
    BY CombinedIsPart
  <2> QED
    BY <2>1
<1>9. K \in SUBSET D
  OBVIOUS
<1> HIDE DEF D, c, A, key
<1>10. Total(c, K) = Cardinality({a \in A : key[a] \in K})
  <2> HIDE DEF K
  <2> QED
    BY <1>2, <1>3, <1>5, <1>7, <1>9, TotalOfFibres
<1>11. Total(c, {k \in DOMAIN c : k[1] = u}) = Cardinality(A)
  BY <1>1, <1>8, <1>10
<1> QED
  BY <1>11 DEF c, A

\* The buckets of a trend hold every row once.
LEMMA BucketsOfRows ==
    ASSUME NEW rows, IsFiniteSet(rows), NEW group, NEW z
    PROVE  LET c == CountRows(rows, group, z) IN
           /\ DOMAIN c = {GroupKey(x, group, z) : x \in rows}
           /\ Total(c, DOMAIN c) = Cardinality(rows)
<1> DEFINE D == {GroupKey(x, group, z) : x \in rows}
           c == CountRows(rows, group, z)
           key == [x \in rows |-> GroupKey(x, group, z)]
<1>1. c = [k \in D |-> Cardinality({x \in rows : GroupKey(x, group, z) = k})]
  BY DEF CountRows
<1>2. D = {key[x] : x \in rows}
  OBVIOUS
<1>3. \A k : {x \in rows : GroupKey(x, group, z) = k} = {x \in rows : key[x] = k}
  OBVIOUS
<1>4. ASSUME NEW k \in D
      PROVE  /\ c[k] = Cardinality({x \in rows : key[x] = k})
             /\ c[k] \in Int
  <2>1. IsFiniteSet({x \in rows : key[x] = k})
    BY FS_Subset
  <2>2. c[k] = Cardinality({x \in rows : key[x] = k})
    <3> HIDE DEF D, key, c
    <3> QED
      BY <1>1, <1>3
  <2> HIDE DEF D, key, c
  <2> QED
    BY <2>1, <2>2, FS_CardinalityType
<1>5. {x \in rows : key[x] \in D} = rows
  OBVIOUS
<1> HIDE DEF D, key, c
<1>6. IsFiniteSet(D)
  BY <1>2, ImageIsFinite
<1>7. c \in [D -> Int] /\ DOMAIN c = D
  BY <1>1, <1>4
<1>8. CountsBy(c, D, rows, key)
  BY <1>4 DEF CountsBy
<1>9. Total(c, D) = Cardinality({x \in rows : key[x] \in D})
  BY <1>6, <1>7, <1>8, TotalOfFibres
<1> QED
  BY <1>5, <1>7, <1>9 DEF c, D

-----------------------------------------------------------------------------
(* Days *)

\* A quotient that is reached from below by a multiple of its divisor is at least that.
LEMMA WholeDays ==
    ASSUME NEW L \in Nat \ {0}, NEW a \in Int
    PROVE  /\ a \div L \in Int /\ (a \div L) * L <= a
           /\ \A d \in Int : d * L <= a => d * L <= (a \div L) * L
<1> DEFINE q == a \div L
<1>1. q \in Int /\ L * q <= a /\ a < L * q + L
  OBVIOUS
<1> HIDE DEF q
<1>2. ASSUME NEW d \in Int, d * L <= a PROVE d * L <= q * L
  <2>1. d * L < (q + 1) * L
    BY <1>1, <1>2
  <2>2. d <= q
    BY <1>1, <2>1
  <2> QED
    BY <1>1, <2>2
<1>3. q * L <= a
  BY <1>1
<1> QED
  BY <1>1, <1>2, <1>3 DEF q

\* A window is one of whole local days.
LEMMA WindowIsDays ==
    ASSUME NEW z \in Zones, NEW label \in Labels, NEW t \in Int
    PROVE  \E a, b \in Int : LET d == Days(label, LocalDay(z, t)) IN
              /\ d[1] = a /\ d[2] = b
<1> DEFINE today == LocalDay(z, t)
<1>1. Offset[z] \in Int /\ t + Offset[z] \in Int
  BY ClockAssumption
<1>2. today \in Int
  BY <1>1, WholeDays, ClockAssumption DEF LocalDay
<1> HIDE DEF today
<1>3. Monday(today) \in Int
  BY <1>2, ClockAssumption DEF Monday
<1>4. Days(label, today)[1] \in Int /\ Days(label, today)[2] \in Int
  BY <1>2, <1>3, ClockAssumption DEF Days, Labels
<1> QED
  BY <1>4 DEF today

\* The day of an event in a window of the zone's days begins in that window.
LEMMA BucketInWindow ==
    ASSUME NEW z \in Zones, NEW label \in Labels, NEW now \in Int, NEW t \in Int,
           NEW start, NEW end,
           LET d == Days(label, LocalDay(z, now)) IN
           start = Midnight(z, d[1]) /\ end = Midnight(z, d[2]),
           start <= t, t < end
    PROVE  start <= Bucket(z, "day", t) /\ Bucket(z, "day", t) < end
<1>1. PICK a, b \in Int : start = Midnight(z, a) /\ end = Midnight(z, b)
  BY WindowIsDays
<1>2. Offset[z] \in Int /\ DayLength \in Nat \ {0} /\ t + Offset[z] \in Int
  BY ClockAssumption
<1> DEFINE q == (t + Offset[z]) \div DayLength
<1>3. /\ q \in Int /\ q * DayLength <= t + Offset[z]
      /\ \A d \in Int : d * DayLength <= t + Offset[z] => d * DayLength <= q * DayLength
  BY <1>2, WholeDays
<1>4. Bucket(z, "day", t) = q * DayLength - Offset[z]
  BY DEF Bucket, LocalDay, Midnight
<1> HIDE DEF q
<1>5. start = a * DayLength - Offset[z] /\ end = b * DayLength - Offset[z]
  BY <1>1 DEF Midnight
<1>6. a * DayLength <= t + Offset[z]
  <2>1. a * DayLength \in Int
    BY <1>1, <1>2
  <2> QED
    BY <1>2, <1>5, <2>1
<1>7. a * DayLength <= q * DayLength
  BY <1>1, <1>3, <1>6
<1>8. a * DayLength \in Int /\ b * DayLength \in Int /\ q * DayLength \in Int
  BY <1>1, <1>2, <1>3
<1> QED
  BY <1>2, <1>3, <1>4, <1>5, <1>7, <1>8

-----------------------------------------------------------------------------
(* The rows a report reads *)

\* The rows of a filter are rows of the table, with an event in the window.
LEMMA RowsAreTimed ==
    ASSUME ReportInv, NEW w, NEW orgs, NEW repos, NEW users, NEW roles
    PROVE  /\ IsFiniteSet(RowsIn(w, orgs, repos, users, roles))
           /\ \A x \in RowsIn(w, orgs, repos, users, roles) :
                 /\ x \in actor /\ event[x[1]] \in 0..MaxClock
                 /\ w.start <= event[x[1]] /\ event[x[1]] < w.end
<1>1. RowsIn(w, orgs, repos, users, roles) \subseteq actor
  BY DEF RowsIn
<1>2. IsFiniteSet(actor)
  BY DEF ReportInv
<1>3. ASSUME NEW x \in actor PROVE event[x[1]] \in 0..MaxClock
  BY DEF ReportInv, ReportTypeOK
<1>4. IsFiniteSet(RowsIn(w, orgs, repos, users, roles))
  BY <1>1, <1>2, FS_Subset
<1>5. ASSUME NEW x \in RowsIn(w, orgs, repos, users, roles)
      PROVE  /\ x \in actor /\ event[x[1]] \in 0..MaxClock
             /\ w.start <= event[x[1]] /\ event[x[1]] < w.end
  <2>1. x \in actor /\ event[x[1]] >= w.start /\ event[x[1]] < w.end
    BY DEF RowsIn
  <2> QED
    BY <1>3, <2>1
<1> QED
  BY <1>4, <1>5

\* A stored activity that a request asks for is among them.
LEMMA WantedIsRead ==
    ASSUME NEW req \in ReportAsks, NEW w, NEW e \in Activities, NEW c \in Credits[e], Stored(e),
           Wanted(req, w, e, event[e], c), event[e] \in Int, w.start \in Int
    PROVE  LET x == <<e, c[1], c[2]>> IN
           /\ x \in RowsIn(w, Range(req.orgs), req.repos, req.users, req.roles)
           /\ Passes(KindOf[x[1]], req.kinds)
           /\ req.scope = "single_org" /\ req.orgs # <<>> => EventOrg(x[1]) = req.orgs[1]
<1> DEFINE x == <<e, c[1], c[2]>>
<1>1. x \in actor /\ x[1] = e /\ x[2] = c[1] /\ x[3] = c[2]
  BY DEF Stored
<1>2. Passes(EventOrg(e), Range(req.orgs))
  <2>1. req.orgs \in Seq(Orgs)
    BY DEF ReportAsks
  <2>2. CASE req.orgs = <<>>
    BY <2>2 DEF Passes, Range
  <2>3. CASE req.orgs # <<>> /\ EventOrg(e) = req.orgs[1]
    <3>1. 1 \in DOMAIN req.orgs
      BY <2>1, <2>3
    <3> QED
      BY <2>3, <3>1 DEF Passes, Range
  <2>4. CASE EventOrg(e) \in Range(req.orgs)
    BY <2>4 DEF Passes
  <2> QED
    BY <2>2, <2>3, <2>4 DEF Wanted
<1>3. /\ Passes(RepoOf[e], req.repos) /\ Passes(c[1], req.users) /\ Passes(c[2], req.roles)
      /\ Passes(KindOf[e], req.kinds)
  BY DEF Passes, Wanted
<1>4. event[e] >= w.start /\ event[e] < w.end
  BY DEF Wanted
<1> HIDE DEF x
<1>5. x \in RowsIn(w, Range(req.orgs), req.repos, req.users, req.roles)
  BY <1>1, <1>2, <1>3, <1>4 DEF RowsIn
<1> QED
  BY <1>1, <1>3, <1>5 DEF Wanted, x

-----------------------------------------------------------------------------
(* The answer *)

Raw  == RowsIn(reader.window, Range(reader.req.orgs), reader.req.repos, reader.req.users,
               reader.req.roles)
Kind == {x \in Raw : Passes(KindOf[x[1]], reader.req.kinds)}
Kept == ApplyLens(Kind, reader.req.scope, reader.req.orgs)

\* What a report knows once it has read its rows.
LEMMA ReadRowsLeaves ==
    ASSUME ReportInv, ReadRows, reader'.at # "refused"
    PROVE  /\ DOMAIN reader = ReportFields /\ DOMAIN reader' = ReportFields
           /\ UNCHANGED <<reader.req, reader.window, reader.owed>> /\ UNCHANGED <<event, actor>>
           /\ reader'.times = [e \in reader.owed |-> event[e]]
           /\ \/ /\ reader.req.path = "home_split"
                 /\ reader'.rows = Raw /\ reader'.counts = HomeSplit(Raw)
              \/ /\ reader.req.path # "home_split" /\ reader'.rows = Kept
                 /\ reader'.counts = CountRows(Kept, reader.req.group, reader.req.zone)
<1>1. DOMAIN reader = ReportFields
  BY DEF ReadRows, ReportInv, ReaderFits
<1>2. DOMAIN reader' = ReportFields /\ UNCHANGED <<reader.req, reader.window, reader.owed>>
  BY <1>1, ReportGoesOn
<1>3. UNCHANGED <<event, actor>>
  BY DEF ReadRows, dataVars
<1>4. CASE reader.req.path = "home_split"
  <2>1. reader' = [reader EXCEPT !.at = "freshness", !.rows = Raw,
                                 !.times = Restrict(event, reader.owed), !.counts = HomeSplit(Raw)]
    BY <1>4 DEF ReadRows, Raw
  <2> QED
    BY <1>1, <1>2, <1>3, <1>4, <2>1 DEF ReportFields, Restrict
<1>5. CASE reader.req.path # "home_split" /\ reader.req.group \in {"team", "tag"}
  <2>1. reader' = [reader EXCEPT !.at = "refused"]
    BY <1>5 DEF ReadRows
  <2> QED
    BY <1>1, <2>1 DEF ReportFields
<1>6. CASE reader.req.path # "home_split" /\ reader.req.group \notin {"team", "tag"}
  <2>1. reader' = [reader EXCEPT !.at = "freshness", !.rows = Kept,
                                 !.times = Restrict(event, reader.owed),
                                 !.counts = CountRows(Kept, reader.req.group, reader.req.zone)]
    BY <1>6 DEF ReadRows, Raw, Kind, Kept
  <2> QED
    BY <1>1, <1>2, <1>3, <1>6, <2>1 DEF ReportFields, Restrict
<1> QED
  BY <1>4, <1>5, <1>6

\* The rows a report keeps are finitely many, timed, and in its window.
LEMMA RowsKept ==
    ASSUME ReportInv
    PROVE  \A rows \in {Raw, Kept} :
              /\ IsFiniteSet(rows)
              /\ \A x \in rows : /\ event[x[1]] \in Int
                                 /\ reader.window.start <= event[x[1]]
                                 /\ event[x[1]] < reader.window.end
<1>1. /\ IsFiniteSet(Raw)
      /\ \A x \in Raw : /\ event[x[1]] \in 0..MaxClock
                        /\ reader.window.start <= event[x[1]]
                        /\ event[x[1]] < reader.window.end
  BY RowsAreTimed DEF Raw
<1>2. Kept \subseteq Raw
  BY LensIsPart DEF Kept, Kind
<1> QED
  BY <1>1, <1>2, FS_Subset

\* A window's ends are times.
LEMMA WindowEnds ==
    ASSUME NEW req \in ReportAsks, NEW t \in Int
    PROVE  LET z == IF req.anchor = "utc" THEN UTC ELSE req.zone IN
           /\ z \in Zones /\ (req.anchor = "viewer" => z = req.zone) /\ req.label \in Labels
           /\ Window(req, t).start \in Int /\ Window(req, t).end \in Int
           /\ LET d == Days(req.label, LocalDay(z, t)) IN
              /\ Window(req, t).start = Midnight(z, d[1])
              /\ Window(req, t).end = Midnight(z, d[2])
<1> DEFINE z == IF req.anchor = "utc" THEN UTC ELSE req.zone
           d == Days(req.label, LocalDay(z, t))
<1>1. UTC \in Zones
  BY ClockAssumption DEF UTC
<1>2. req.anchor \in {"utc", "viewer"} /\ req.zone \in Zones /\ req.label \in Labels
  BY DEF ReportAsks
<1>3. z \in Zones /\ (req.anchor = "viewer" => z = req.zone)
  BY <1>1, <1>2
<1>4. Window(req, t).start = Midnight(z, d[1]) /\ Window(req, t).end = Midnight(z, d[2])
  BY DEF Window
<1> HIDE DEF z
<1>5. PICK a, b \in Int : d[1] = a /\ d[2] = b
  BY <1>2, <1>3, WindowIsDays
<1>6. Offset[z] \in Int /\ DayLength \in Nat
  BY <1>3, ClockAssumption
<1>7. Midnight(z, a) \in Int /\ Midnight(z, b) \in Int
  BY <1>6 DEF Midnight
<1> HIDE DEF d
<1>8. Window(req, t).start \in Int /\ Window(req, t).end \in Int
  BY <1>4, <1>5, <1>7
<1> QED
  BY <1>2, <1>3, <1>4, <1>8 DEF z, d

\* What a report owes is among the rows it has read.
LEMMA RowsCover ==
    ASSUME ReportInv, ReadRows, reader'.at # "refused"
    PROVE  CoversOwed'
<1>1. /\ reader'.req = reader.req /\ reader'.window = reader.window /\ reader'.owed = reader.owed
      /\ reader'.times = [e \in reader.owed |-> event[e]]
      /\ reader'.rows = Raw \/ reader'.rows = Kept
  BY ReadRowsLeaves
<1>2. reader.req \in ReportAsks /\ \A e \in reader.owed : Stored(e)
  BY ReadRowsLeaves DEF ReportInv, ReaderFits, ReportFields
<1>3. reader.window.start \in Int
  BY ReadRowsLeaves, WindowEnds DEF ReportInv, ReaderFits, ReportFields
<1>4. ASSUME NEW e \in reader.owed, NEW c \in Credits[e],
             Wanted(reader.req, reader.window, e, event[e], c)
      PROVE  \E x \in reader'.rows : x[1] = e /\ x[2] = c[1]
  <2> DEFINE x == <<e, c[1], c[2]>>
  <2>1. x \in actor
    BY <1>2 DEF Stored
  <2>2. e \in Activities /\ event[e] \in 0..MaxClock
    BY <2>1 DEF ReportInv, ReportTypeOK
  <2>3. /\ x \in Raw /\ Passes(KindOf[x[1]], reader.req.kinds)
        /\ reader.req.scope = "single_org" /\ reader.req.orgs # <<>>
             => EventOrg(x[1]) = reader.req.orgs[1]
    BY <1>2, <1>3, <1>4, <2>2, WantedIsRead DEF Raw
  <2>4. x[1] = e /\ x[2] = c[1]
    OBVIOUS
  <2> HIDE DEF x
  <2>5. x \in Kind
    BY <2>3 DEF Kind
  <2>6. \E y \in Kept : y[1] = x[1] /\ y[2] = x[2]
    BY <2>3, <2>5, LensKeeps DEF Kept
  <2> QED
    BY <1>1, <2>3, <2>4, <2>6
<1>5. ASSUME NEW e \in reader.owed PROVE reader'.times[e] = event[e]
  BY <1>1
<1> QED
  BY <1>1, <1>4, <1>5 DEF CoversOwed, Wanted, EventOrg

\* Its counts are those of the rows, and its days those of its window.
LEMMA CountsFit ==
    ASSUME ReportInv, ReadRows, reader'.at # "refused"
    PROVE  SplitAddsUp' /\ BucketsFit'
<1> DEFINE req == reader.req
<1>0. /\ reader'.req = req /\ reader'.window = reader.window
      /\ event' = event
  BY ReadRowsLeaves
<1>1. CASE req.path = "home_split" /\ reader'.rows = Raw /\ reader'.counts = HomeSplit(Raw)
  <2>1. IsFiniteSet(Raw)
    BY RowsKept
  <2>2. ASSUME NEW u \in People
        PROVE  Total(reader'.counts, {k \in DOMAIN reader'.counts : k[1] = u})
                 = Cardinality({x \in AllOrgsCombined(reader'.rows) : x[2] = u})
    BY <1>1, <2>1, SplitOfRows
  <2>3. SplitAddsUp'
    BY <2>2 DEF SplitAddsUp
  <2> QED
    BY <1>0, <1>1, <2>3 DEF BucketsFit
<1>2. CASE /\ req.path # "home_split" /\ reader'.rows = Kept
           /\ reader'.counts = CountRows(Kept, req.group, req.zone)
  <2>1. /\ IsFiniteSet(Kept)
        /\ \A x \in Kept : /\ event[x[1]] \in Int
                           /\ reader.window.start <= event[x[1]]
                           /\ event[x[1]] < reader.window.end
    BY RowsKept
  <2>2. /\ DOMAIN reader'.counts = {GroupKey(x, req.group, req.zone) : x \in Kept}
        /\ Total(reader'.counts, DOMAIN reader'.counts) = Cardinality(reader'.rows)
    <3> HIDE DEF req
    <3>1. /\ DOMAIN CountRows(Kept, req.group, req.zone)
               = {GroupKey(x, req.group, req.zone) : x \in Kept}
          /\ Total(CountRows(Kept, req.group, req.zone), DOMAIN CountRows(Kept, req.group, req.zone))
               = Cardinality(Kept)
      BY <2>1, BucketsOfRows
    <3> QED
      BY <1>2, <3>1
  <2>3. ASSUME req.group = "day", req.anchor = "viewer", NEW x \in Kept
        PROVE  LET k == GroupKey(x, req.group, req.zone) IN
               reader.window.start <= k /\ k < reader.window.end
    <3>1. PICK t \in Int : reader.window = Window(req, t)
      BY ReadRowsLeaves DEF ReportInv, ReaderFits, ReportFields
    <3>2. req \in ReportAsks
      BY ReadRowsLeaves DEF ReportInv, ReaderFits, ReportFields
    <3>3. /\ req.zone \in Zones /\ req.label \in Labels
          /\ LET d == Days(req.label, LocalDay(req.zone, t)) IN
             /\ reader.window.start = Midnight(req.zone, d[1])
             /\ reader.window.end = Midnight(req.zone, d[2])
      BY <2>3, <3>1, <3>2, WindowEnds
    <3>4. GroupKey(x, req.group, req.zone) = Bucket(req.zone, "day", event[x[1]])
      BY <2>3 DEF GroupKey
    <3> HIDE DEF req
    <3> QED
      BY <2>1, <3>3, <3>4, BucketInWindow
  <2>4. BucketsFit'
    BY <1>0, <2>2, <2>3 DEF BucketsFit
  <2> QED
    BY <1>0, <1>2, <2>4 DEF SplitAddsUp
<1> QED
  BY <1>1, <1>2, ReadRowsLeaves

\* The answer, from then on.
LEMMA AnswerStep == ReportInv /\ AnswerHolds /\ [ReportNext]_reportVars => AnswerHolds'
<1> SUFFICES ASSUME ReportInv, AnswerHolds, [ReportNext]_reportVars PROVE AnswerHolds'
  OBVIOUS
<1>1. CASE reader' = reader
  BY <1>1 DEF AnswerHolds, CoversOwed, SplitAddsUp, BucketsFit, Wanted, EventOrg
<1>2. CASE AskReport
  BY <1>2, AskReportLeaves DEF AnswerHolds, ReportFields
<1>3. CASE ReadTags
  <2>1. reader'.at = "rows" \/ reader'.empty
    BY <1>3, ReportGoesOn
  <2> QED
    BY <2>1 DEF AnswerHolds, CoversOwed, SplitAddsUp, BucketsFit
<1>4. CASE ReadRows
  BY <1>4, RowsCover, CountsFit DEF AnswerHolds
<1>5. CASE ReadFreshness
  <2>1. /\ "owed" \in DOMAIN reader /\ reader.at = "freshness"
        /\ UNCHANGED <<reader.req, reader.window, reader.owed>>
        /\ UNCHANGED <<reader.rows, reader.times, reader.counts, reader.empty>>
    BY <1>5, ReportGoesOn
  <2> QED
    BY <2>1 DEF AnswerHolds, CoversOwed, SplitAddsUp, BucketsFit, Wanted, EventOrg
<1>6. CASE AskBoard \/ NextPage \/ AskStanding \/ AskPortfolio
  BY <1>6, OthersLeave DEF AnswerHolds
<1>7. reader' = reader \/ Reading
  BY DEF ReportNext, Import, Tick, RecordActivity, AddActors, PutCursor, GiveUp, Reading, reportVars
<1> QED
  BY <1>1, <1>2, <1>3, <1>4, <1>5, <1>6, <1>7 DEF Reading

\* The invariant of the reports.
LEMMA AnswersHold == ReportSpec => [](ReportInv /\ AnswerHolds)
<1>1. ReportInit => ReportInv /\ AnswerHolds
  <2>1. ReportInit => AnswerHolds
    BY DEF ReportInit, AnswerHolds, Free
  <2> QED
    BY <2>1, ReportStart
<1> QED
  BY <1>1, ReaderStep, AnswerStep, PTL DEF ReportSpec

\* A report misses nothing that was complete under a cursor when it was asked for.
THEOREM ReportsCover == ReportSpec => []ReportCoversCursor
<1>1. AnswerHolds => ReportCoversCursor
  BY DEF AnswerHolds, CoversOwed, ReportCoversCursor, Answered
<1> QED
  BY <1>1, AnswersHold, PTL

\* The split over the organisations adds up; the buckets are those of the window.
THEOREM FiguresAdd == ReportSpec => [](LensesAgree /\ TrendFitsWindow)
<1>1. AnswerHolds => LensesAgree
  BY DEF AnswerHolds, SplitAddsUp, LensesAgree, Answered, Total
<1>2. AnswerHolds => TrendFitsWindow
  BY DEF AnswerHolds, BucketsFit, TrendFitsWindow, Answered, Total
<1> QED
  BY <1>1, <1>2, AnswersHold, PTL

-----------------------------------------------------------------------------
(* Pages of a list *)

\* A page of a list: what it holds from one place on, up to another or the list's end.
IsPage(S, s, i, n, page) ==
    LET m == IF n <= Len(s) THEN n ELSE Len(s) IN
    /\ s \in Seq(S) /\ Len(s) = Cardinality(S) /\ Cardinality(S) \in Nat /\ ListsAll(S, s)
    /\ page \in Seq(S)
    /\ Len(page) = IF i <= m THEN m - i + 1 ELSE 0
    /\ \A k \in 1..Len(page) : page[k] = s[i + k - 1]

\* The list of a finite set, cut at both ends.
LEMMA PageOfList ==
    ASSUME NEW S, IsFiniteSet(S), NEW s \in SetToSeqs(S), NEW i \in Nat \ {0}, NEW n \in Nat
    PROVE  IsPage(S, s, i, n, SubSeq(s, i, Min({n, Len(s)})))
<1>1. Cardinality(S) \in Nat
  BY FS_CardinalityType
<1>2. ListsAll(S, s) /\ s \in [1..Cardinality(S) -> S]
  BY DEF SetToSeqs, ListsAll
<1>3. s \in Seq(S) /\ Len(s) = Cardinality(S)
  BY <1>1, <1>2
<1> DEFINE m == Min({n, Len(s)})
<1>4. m = IF n <= Len(s) THEN n ELSE Len(s)
  BY <1>1, <1>3, LeastOfTwo
<1> HIDE DEF m
<1>5. m \in Nat /\ m <= Len(s)
  BY <1>1, <1>3, <1>4
<1> DEFINE page == SubSeq(s, i, m)
<1>6. /\ page \in Seq(S)
      /\ Len(page) = IF i <= m THEN m - i + 1 ELSE 0
      /\ \A k \in 1..Len(page) : page[k] = s[i + k - 1]
  BY <1>3, <1>5
<1> QED
  BY <1>1, <1>2, <1>3, <1>4, <1>6 DEF m, IsPage

-----------------------------------------------------------------------------
(* The portfolio *)

\* A list from its start, as far as a limit it does not pass, is the whole of it.
LEMMA FirstPageIsAll ==
    ASSUME NEW S, IsFiniteSet(S), NEW s \in SetToSeqs(S), NEW i \in Nat, NEW n \in Nat \ {0}
    PROVE  LET page == SubSeq(s, i + 1, Min({i + n, Len(s)})) IN
           /\ Range(page) \subseteq S
           /\ i = 0 /\ (page = <<>> \/ Len(s) <= n) => Range(page) = S
<1> DEFINE m == Min({i + n, Len(s)})
           page == SubSeq(s, i + 1, m)
<1>0. i + 1 \in Nat \ {0} /\ i + n \in Nat
  OBVIOUS
<1>1. IsPage(S, s, i + 1, i + n, page)
  <2> DEFINE j == i + 1
             k == i + n
  <2>1. j \in Nat \ {0} /\ k \in Nat
    BY <1>0
  <2> HIDE DEF j, k
  <2>2. IsPage(S, s, j, k, SubSeq(s, j, Min({k, Len(s)})))
    BY <2>1, PageOfList
  <2> QED
    BY <2>2 DEF j, k
<1> HIDE DEF m, page
<1>2. Range(page) \subseteq S
  BY <1>1 DEF Range, IsPage
<1>3. ASSUME i = 0, page = <<>> \/ Len(s) <= n PROVE S \subseteq Range(page)
  <2>1. Len(page) = Len(s)
    <3>1. CASE Len(s) <= n
      BY <1>1, <1>3, <3>1 DEF IsPage
    <3>2. CASE page = <<>>
      <4>1. Len(page) = 0
        BY <3>2
      <4> QED
        BY <1>1, <1>3, <4>1 DEF IsPage
    <3> QED
      BY <1>3, <3>1, <3>2
  <2>2. \A k \in 1..Len(page) : page[k] = s[k]
    BY <1>1, <1>3 DEF IsPage
  <2>3. \A x \in S : \E k \in 1..Cardinality(S) : s[k] = x
    BY <1>1, ListHasAll DEF IsPage
  <2>4. ASSUME NEW x \in S PROVE \E k \in DOMAIN page : page[k] = x
    <3>1. PICK k \in 1..Cardinality(S) : s[k] = x
      BY <2>3
    <3>2. k \in 1..Len(page) /\ DOMAIN page = 1..Len(page)
      BY <1>1, <2>1 DEF IsPage
    <3> QED
      BY <2>2, <3>1, <3>2
  <2> QED
    BY <2>4 DEF Range
<1> QED
  BY <1>2, <1>3 DEF page, m

\* A project's row, and what hiding the overdue does to one with a due date.
LEMMA HidingIsByDate ==
    ASSUME ReportInv, NEW f \in PortfolioAsks, f.hide, NEW p \in Projects
    PROVE  /\ project[p] \in ProjectRows /\ clock \in Int
           /\ project[p].due # None =>
                (InPortfolio(project[p], f) <=>
                    /\ InPortfolio(project[p], [f EXCEPT !.hide = FALSE])
                    /\ project[p].due >= clock \/ project[p].status \notin Open)
           /\ InPortfolio(project[p], f) =>
                ~(project[p].status \in Open /\ project[p].due # None /\ project[p].due < clock)
<1> DEFINE g == [f EXCEPT !.hide = FALSE]
<1>1. project[p] \in ProjectRows /\ clock \in Int
  BY ClockAssumption DEF ReportInv, ReportTypeOK
<1>2. project[p].due # None => project[p].due \in Int
  BY <1>1, TablesAssumption
<1>3. /\ g.orgs = f.orgs /\ g.statuses = f.statuses /\ g.from = f.from /\ g.until = f.until
      /\ g.tags = f.tags /\ g.all = f.all /\ g.hide = FALSE
  BY DEF PortfolioAsks
<1> HIDE DEF g
<1>4. InPortfolio(project[p], f) <=> InPortfolio(project[p], g) /\ HideKeeps(project[p], TRUE)
  <2>1. f.hide = TRUE
    BY DEF PortfolioAsks
  <2>2. HideKeeps(project[p], FALSE)
    BY DEF HideKeeps
  <2> QED
    BY <1>3, <2>1, <2>2 DEF InPortfolio
<1>5. project[p].due # None =>
        (HideKeeps(project[p], TRUE)
            <=> project[p].due >= clock \/ project[p].status \notin Open)
  BY DEF HideKeeps
<1>6. HideKeeps(project[p], TRUE) =>
        ~(project[p].status \in Open /\ project[p].due # None /\ project[p].due < clock)
  BY <1>1, <1>2 DEF HideKeeps
<1> QED
  BY <1>1, <1>4, <1>5, <1>6 DEF g

\* What a portfolio says of its page holds when it is answered ...
LEMMA PortfolioStep == ReportInv /\ AskPortfolio => HidesTheOverdue'
<1> SUFFICES ASSUME ReportInv, AskPortfolio PROVE HidesTheOverdue'
  OBVIOUS
<1>0. PICK f \in Portfolios :
         LET found == {p \in Projects : InPortfolio(project[p], f)} IN
         \E s \in SetToSeqs(found) :
            LET page == SubSeq(s, f.offset + 1, Min({f.offset + f.limit, Len(s)})) IN
            reader' = IF f.limit = 0 THEN [at |-> "refused", req |-> f]
                      ELSE [at |-> "answered", req |-> f, page |-> Range(page),
                            total |-> IF page = <<>> THEN 0 ELSE Len(s),
                            kpis |-> Kpis(Range(page)), now |-> clock]
  BY DEF AskPortfolio
<1>1. PICK s \in SetToSeqs({p \in Projects : InPortfolio(project[p], f)}) :
         LET page == SubSeq(s, f.offset + 1, Min({f.offset + f.limit, Len(s)})) IN
         reader' = IF f.limit = 0 THEN [at |-> "refused", req |-> f]
                   ELSE [at |-> "answered", req |-> f, page |-> Range(page),
                         total |-> IF page = <<>> THEN 0 ELSE Len(s),
                         kpis |-> Kpis(Range(page)), now |-> clock]
  BY <1>0
<1> DEFINE found == {p \in Projects : InPortfolio(project[p], f)}
           page  == SubSeq(s, f.offset + 1, Min({f.offset + f.limit, Len(s)}))
           g     == [f EXCEPT !.hide = FALSE]
<1>2. CASE f.limit = 0
  BY <1>1, <1>2 DEF HidesTheOverdue
<1>3. CASE f.limit # 0 /\ ~f.hide
  BY <1>1, <1>3 DEF HidesTheOverdue
<1>4. CASE f.limit # 0 /\ f.hide
  <2>0. f \in PortfolioAsks /\ f.offset \in Nat /\ f.limit \in Nat \ {0}
    BY <1>4, RequestsAssumption DEF PortfolioAsks
  <2>1. /\ reader'.req = f /\ reader'.page = Range(page) /\ reader'.now = clock
        /\ reader'.total = IF page = <<>> THEN 0 ELSE Len(s)
        /\ reader'.kpis = Kpis(Range(page))
    BY <1>1, <1>4
  <2>2. project' = project
    BY DEF AskPortfolio
  <2>3. IsFiniteSet(found) /\ s \in SetToSeqs(found)
    BY TablesAssumption, FS_Subset
  <2>4. /\ Range(page) \subseteq found
        /\ f.offset = 0 /\ (page = <<>> \/ Len(s) <= f.limit) => Range(page) = found
    <3> HIDE DEF found
    <3> QED
      BY <2>0, <2>3, FirstPageIsAll
  <2> HIDE DEF page
  <2>5. Kpis(Range(page)).overdue = 0
    <3>1. \A p \in Range(page) :
            ~(project[p].status \in Open /\ project[p].due # None /\ project[p].due < clock)
      BY <1>4, <2>0, <2>4, HidingIsByDate
    <3>2. {p \in Range(page) : project[p].status \in Open /\ project[p].due # None
                               /\ project[p].due < clock} = {}
      BY <3>1
    <3>3. Cardinality({}) = 0
      BY FS_EmptySet
    <3>4. Kpis(Range(page)).overdue
            = Cardinality({p \in Range(page) : project[p].status \in Open /\ project[p].due # None
                                               /\ project[p].due < clock})
      BY DEF Kpis
    <3> QED
      BY <3>2, <3>3, <3>4
  <2>6. ASSUME f.offset = 0, reader'.total <= f.limit
        PROVE  Range(page) \cap Dated = {p \in Dated :
                  /\ InPortfolio(project[p], g)
                  /\ project[p].due >= clock \/ project[p].status \notin Open}
    <3>1. Range(page) = found
      BY <2>1, <2>4, <2>6
    <3>2. ASSUME NEW p \in Dated
          PROVE  p \in found <=>
                    /\ InPortfolio(project[p], g)
                    /\ project[p].due >= clock \/ project[p].status \notin Open
      <4>1. p \in Projects /\ project[p].due # None
        BY DEF Dated
      <4> QED
        BY <1>4, <2>0, <4>1, HidingIsByDate
    <3> HIDE DEF found, g
    <3> QED
      BY <3>1, <3>2
  <2>7. \A p : InPortfolio(project[p], g) <=> InPortfolio(project[p], g)'
    <3>1. g.hide = FALSE
      BY <2>0 DEF PortfolioAsks
    <3> HIDE DEF g
    <3> QED
      BY <2>2, <3>1 DEF InPortfolio, HideKeeps
  <2> QED
    BY <2>1, <2>2, <2>5, <2>6, <2>7 DEF HidesTheOverdue, Dated
<1> QED
  BY <1>2, <1>3, <1>4

\* ... and then nothing it is about changes.
LEMMA PortfolioStays ==
    ASSUME HidesTheOverdue, reader' = reader, project' = project,
           reader.at = "answered" /\ "kpis" \in DOMAIN reader => reader.req \in PortfolioAsks
    PROVE  HidesTheOverdue'
<1>1. CASE ~(reader.at = "answered" /\ "kpis" \in DOMAIN reader /\ reader.req.hide)
  BY <1>1 DEF HidesTheOverdue
<1>2. CASE reader.at = "answered" /\ "kpis" \in DOMAIN reader /\ reader.req.hide
  <2> DEFINE g == [reader.req EXCEPT !.hide = FALSE]
  <2>1. g.hide = FALSE
    BY <1>2 DEF PortfolioAsks
  <2>2. \A p : InPortfolio(project[p], g) <=> InPortfolio(project[p], g)'
    BY <2>1 DEF InPortfolio, HideKeeps
  <2> QED
    BY <1>2, <2>2 DEF HidesTheOverdue, Dated
<1> QED
  BY <1>1, <1>2

-----------------------------------------------------------------------------
(* The board and its order *)

BoardRow == [id : Seq(People \cup Orgs \cup {None}), value : Nat, days : Nat]
Ids      == People \cup Orgs \cup {None}

\* A row of the board is one; its subject is a person, an organisation or a home label.
LEMMA RowsOfBoard ==
    ASSUME ReportInv, NEW b \in BoardAsks, NEW w
    PROVE  /\ IsFiniteSet(BoardRows(b, w)) /\ BoardRows(b, w) \subseteq BoardRow
           /\ \A r \in BoardRows(b, w) : r.id[1] \in Ids
           /\ \A r, q \in BoardRows(b, w) : r.id = q.id => r = q
           /\ b.subject = "user" /\ b.scope # "per_org_split" =>
                 \A r \in BoardRows(b, w) : r.id = <<r.id[1]>>
<1> DEFINE A == Ranked(b, w)
           id(x) == Subject(b, x)
           Of(s) == {x \in A : id(x) = s}
           Day(x) == LocalDay(UTC, event[x[1]])
           row(s) == [id |-> s, value |-> Cardinality(Of(s)),
                      days |-> Cardinality({Day(x) : x \in Of(s)})]
           S == {id(x) : x \in A}
<1>1. IsFiniteSet(A) /\ A \subseteq actor
  <2>1. A \subseteq actor
    BY DEF Ranked, RowsIn
  <2> QED
    BY <2>1, FS_Subset DEF ReportInv
<1>2. BoardRows(b, w) = {row(s) : s \in S}
  BY DEF BoardRows
<1>3. ASSUME NEW x \in A
      PROVE  /\ id(x) \in Seq(Ids) /\ id(x)[1] \in Ids
             /\ b.subject = "user" /\ b.scope # "per_org_split" => id(x) = <<id(x)[1]>>
  <2>1. x[1] \in Activities /\ x[2] \in People
    BY <1>1 DEF ReportInv, ReportTypeOK
  <2>2. EventOrg(x[1]) \in Orgs /\ HomeOf[x[2]] \in Orgs \cup {None}
    BY <2>1, TablesAssumption DEF EventOrg
  <2> DEFINE i == CASE b.subject = "user" -> x[2]
                    [] b.subject = "org"  -> EventOrg(x[1])
                    [] b.subject = "home" -> HomeOf[x[2]]
  <2>3. i \in Ids
    BY <2>1, <2>2 DEF BoardAsks, Ids
  <2>4. Subject(b, x) = IF b.scope = "per_org_split" THEN <<i, EventOrg(x[1])>> ELSE <<i>>
    BY DEF Subject
  <2> HIDE DEF i
  <2>5. ASSUME b.scope = "per_org_split" PROVE id(x) \in Seq(Ids) /\ id(x)[1] \in Ids
    <3>1. id(x) = <<i, EventOrg(x[1])>> /\ EventOrg(x[1]) \in Ids
      BY <2>2, <2>4, <2>5 DEF Ids
    <3> HIDE DEF id
    <3> QED
      BY <2>3, <3>1
  <2>6. ASSUME b.scope # "per_org_split"
        PROVE  id(x) \in Seq(Ids) /\ id(x)[1] \in Ids /\ id(x) = <<id(x)[1]>>
    <3>1. id(x) = <<i>>
      BY <2>4, <2>6
    <3> HIDE DEF id
    <3> QED
      BY <2>3, <3>1
  <2> HIDE DEF id
  <2> QED
    BY <2>5, <2>6
<1>4. IsFiniteSet(S)
  <2> DEFINE f == [x \in A |-> id(x)]
  <2>1. S = {f[x] : x \in A}
    OBVIOUS
  <2> HIDE DEF f, S, A
  <2> QED
    BY <1>1, <2>1, ImageIsFinite
<1>5. IsFiniteSet({row(s) : s \in S})
  <2> DEFINE f == [s \in S |-> row(s)]
  <2>1. {row(s) : s \in S} = {f[s] : s \in S}
    OBVIOUS
  <2> HIDE DEF f, S, row
  <2> QED
    BY <1>4, <2>1, ImageIsFinite
<1>6. ASSUME NEW s PROVE Cardinality(Of(s)) \in Nat /\ Cardinality({Day(x) : x \in Of(s)}) \in Nat
  <2>1. IsFiniteSet(Of(s))
    BY <1>1, FS_Subset
  <2> DEFINE f == [x \in Of(s) |-> Day(x)]
  <2>2. {Day(x) : x \in Of(s)} = {f[x] : x \in Of(s)}
    OBVIOUS
  <2>3. Cardinality(Of(s)) \in Nat
    BY <2>1, FS_CardinalityType
  <2> HIDE DEF f, Of, Day
  <2>4. IsFiniteSet({f[x] : x \in Of(s)})
    BY <2>1, ImageIsFinite
  <2>5. Cardinality({f[x] : x \in Of(s)}) \in Nat
    BY <2>4, FS_CardinalityType
  <2> QED
    BY <2>2, <2>3, <2>5
<1>7. ASSUME NEW s \in S
      PROVE  /\ s \in Seq(Ids) /\ s[1] \in Ids
             /\ b.subject = "user" /\ b.scope # "per_org_split" => s = <<s[1]>>
  BY <1>3
<1> HIDE DEF S, Of, A, Day
<1>8. ASSUME NEW s \in S
      PROVE  row(s) \in BoardRow /\ row(s).id = s
  BY <1>6, <1>7 DEF BoardRow, Ids
<1> HIDE DEF row
<1> QED
  BY <1>2, <1>5, <1>7, <1>8

\* Two rows that differ in value, or in id, come one before the other.
LEMMA BoardOrder ==
    ASSUME NEW R \in SUBSET BoardRow, \A r \in R : r.id[1] \in Ids
    PROVE  /\ IsWeakOrder({p \in R \X R : Before(p[1], p[2])}, R)
           /\ \A r, q \in R : r.value # q.value \/ r.id[1] # q.id[1] =>
                                 Before(r, q) \/ Before(q, r)
<1> DEFINE key(r) == Order[r.id[1]]
           W == {p \in R \X R : Before(p[1], p[2])}
<1>1. ASSUME NEW r \in R PROVE r.value \in Nat /\ r.days \in Nat /\ key(r) \in Int
  BY TablesAssumption DEF BoardRow, Ids
<1>2. ASSUME NEW r \in R, NEW q \in R
      PROVE  Before(r, q) <=> \/ r.value > q.value
                              \/ r.value = q.value /\ r.days > q.days
                              \/ r.value = q.value /\ r.days = q.days /\ key(r) < key(q)
  BY DEF Before
<1>3. ASSUME NEW r \in R, NEW q \in R, r.id[1] # q.id[1] PROVE key(r) # key(q)
  BY <1>3, TablesAssumption DEF IsInjective, Ids
<1> HIDE DEF key
<1>4. \A r \in R : ~Before(r, r)
  BY <1>1, <1>2
<1>5. \A a, b, c \in R : Before(a, b) /\ Before(b, c) => Before(a, c)
  BY <1>1, <1>2
<1>6. \A a, b, c \in R : Before(a, c) => Before(a, b) \/ Before(b, c)
  BY <1>1, <1>2
<1>7. \A r, q \in R : r.value # q.value \/ r.id[1] # q.id[1] => Before(r, q) \/ Before(q, r)
  BY <1>1, <1>2, <1>3
<1>8. IsWeakOrder(W, R)
  <2>1. \A a, b \in R : <<a, b>> \in W <=> Before(a, b)
    OBVIOUS
  <2> HIDE DEF W
  <2> QED
    BY <1>4, <1>5, <1>6, <2>1 DEF IsWeakOrder
<1> QED
  BY <1>7, <1>8

\* A list in the order of the board.
Ordered(R, s) ==
    /\ ListsAll(R, s) /\ Cardinality(R) \in Nat /\ s \in Seq(R) /\ Len(s) = Cardinality(R)
    /\ \A i, j \in DOMAIN s : Before(s[i], s[j]) => i < j

\* Rows of the board have an order, and the chosen list is in one.
LEMMA InOrderIsOrdered ==
    ASSUME NEW R \in SUBSET BoardRow, IsFiniteSet(R), \A r \in R : r.id[1] \in Ids
    PROVE  Ordered(R, InOrder(R))
<1> DEFINE W == {p \in R \X R : Before(p[1], p[2])}
<1>1. PICK s : ListsAll(R, s) /\ \A i, j \in 1..Cardinality(R) : <<s[i], s[j]>> \in W => i < j
  <2>1. IsWeakOrder(W, R)
    BY BoardOrder
  <2> HIDE DEF W
  <2> QED
    BY <2>1, WeakListExists
<1>2. s \in SetToSeqs(R) /\ DOMAIN s = 1..Cardinality(R)
  BY <1>1 DEF ListsAll, SetToSeqs
<1>3. \A i, j \in DOMAIN s : Before(s[i], s[j]) => i < j
  BY <1>1, <1>2 DEF ListsAll
<1>4. /\ InOrder(R) \in SetToSeqs(R)
      /\ \A i, j \in DOMAIN InOrder(R) : Before(InOrder(R)[i], InOrder(R)[j]) => i < j
  BY <1>2, <1>3 DEF InOrder
<1>5. Cardinality(R) \in Nat
  BY FS_CardinalityType
<1>6. ListsAll(R, InOrder(R)) /\ InOrder(R) \in [1..Cardinality(R) -> R]
  BY <1>4 DEF ListsAll, SetToSeqs
<1> QED
  BY <1>4, <1>5, <1>6 DEF Ordered

\* In a total order the place of a row is its rank ...
LEMMA PlaceIsRank ==
    ASSUME NEW R, IsFiniteSet(R), NEW s, Ordered(R, s),
           \A r, q \in R : r # q => Before(r, q) \/ Before(q, r),
           NEW k \in 1..Len(s)
    PROVE  RankIn(R, s[k]) = k
<1> DEFINE E == {q \in R : Before(q, s[k])}
<1>1. DOMAIN s = 1..Len(s) /\ Len(s) \in Nat /\ s \in [1..Len(s) -> R]
  BY DEF Ordered
<1>2. \A i, j \in 1..Len(s) : i # j => s[i] # s[j]
  BY DEF Ordered, ListsAll
<1>3. \A x \in R : \E i \in 1..Len(s) : s[i] = x
  BY ListHasAll DEF Ordered
<1>4. \A i, j \in 1..Len(s) : i < j => Before(s[i], s[j])
  <2>1. ASSUME NEW i \in 1..Len(s), NEW j \in 1..Len(s), i < j PROVE Before(s[i], s[j])
    <3>1. s[i] # s[j] /\ s[i] \in R /\ s[j] \in R
      BY <1>1, <1>2, <2>1
    <3>2. ~Before(s[j], s[i])
      BY <1>1, <2>1 DEF Ordered
    <3> QED
      BY <3>1, <3>2
  <2> QED
    BY <2>1
<1>5. \A i \in 1..Len(s) : Before(s[i], s[k]) <=> i < k
  BY <1>1, <1>4 DEF Ordered
<1>6. E = {s[i] : i \in 1..(k - 1)}
  BY <1>1, <1>3, <1>5
<1>7. IsFiniteSet(1..(k - 1)) /\ Cardinality(1..(k - 1)) = k - 1
  <2> DEFINE m == k - 1
  <2>1. m \in Nat
    BY <1>1
  <2> HIDE DEF m
  <2>2. IsFiniteSet(1..m) /\ Cardinality(1..m) = m
    <3>1. 1 \in Int /\ m \in Int
      BY <2>1
    <3>2. IsFiniteSet(1..m) /\ Cardinality(1..m) = IF 1 > m THEN 0 ELSE m - 1 + 1
      BY <3>1, FS_Interval
    <3> QED
      BY <2>1, <3>2
  <2> QED
    BY <2>2 DEF m
<1>8. \A i, j \in 1..(k - 1) : s[i] = s[j] => i = j
  BY <1>1, <1>2
<1> HIDE DEF E
<1>9. Cardinality(E) = k - 1
  BY <1>6, <1>7, <1>8, ImageIsFinite
<1> QED
  BY <1>1, <1>9 DEF RankIn, E

\* ... and the list is the only one.
LEMMA OneOrder ==
    ASSUME NEW R, IsFiniteSet(R), NEW s, Ordered(R, s), NEW t, Ordered(R, t),
           \A r, q \in R : r # q => Before(r, q) \/ Before(q, r)
    PROVE  s = t
<1>1. /\ s \in [1..Cardinality(R) -> R] /\ t \in [1..Cardinality(R) -> R]
      /\ Len(s) = Cardinality(R) /\ Len(t) = Cardinality(R)
      /\ Cardinality(R) \in Nat
  BY DEF Ordered, ListsAll
<1>2. ASSUME NEW k \in 1..Cardinality(R) PROVE s[k] = t[k]
  <2>1. PICK m \in 1..Cardinality(R) : t[m] = s[k]
    BY <1>1, ListHasAll DEF Ordered
  <2>2. RankIn(R, s[k]) = k
    BY <1>1, PlaceIsRank
  <2>3. RankIn(R, t[m]) = m
    BY <1>1, PlaceIsRank
  <2> QED
    BY <2>1, <2>2, <2>3
<1> QED
  BY <1>1, <1>2

-----------------------------------------------------------------------------
(* A standing *)

\* The ranks within the radius are the places within it.
LEMMA StandingStep == ReportInv /\ AskStanding => StandingIsOnTheBoard'
<1> SUFFICES ASSUME ReportInv, AskStanding PROVE StandingIsOnTheBoard'
  OBVIOUS
<1>1. PICK b \in Boards, viewer \in People, radius \in Radii :
         reader' = IF Refuses(b) \/ b.subject # "user" THEN [at |-> "refused", req |-> b]
                   ELSE [at |-> "answered", req |-> b, viewer |-> viewer, radius |-> radius,
                         near |-> Standing(b, Window(b, clock), viewer, radius),
                         first |-> Board(b, Window(b, clock))]
  BY DEF AskStanding
<1>2. CASE Refuses(b) \/ b.subject # "user"
  BY <1>1, <1>2 DEF StandingIsOnTheBoard
<1>3. CASE ~(Refuses(b) \/ b.subject # "user") /\ b.scope = "per_org_split"
  BY <1>1, <1>3 DEF StandingIsOnTheBoard
<1>4. CASE ~(Refuses(b) \/ b.subject # "user") /\ b.scope # "per_org_split"
  <2> DEFINE w == Window(b, clock)
             R == BoardRows(b, w)
             s == InOrder(R)
             Reach == -radius..radius
  <2>1. /\ reader'.viewer = viewer /\ reader'.radius = radius /\ reader'.first = s
        /\ reader'.near = Standing(b, w, viewer, radius)
    BY <1>1, <1>4 DEF Board
  <2>2. b \in BoardAsks
    BY RequestsAssumption
  <2>3. /\ IsFiniteSet(R) /\ R \subseteq BoardRow /\ \A r \in R : r.id[1] \in Ids
        /\ \A r, q \in R : r.id = q.id => r = q
        /\ \A r \in R : r.id = <<r.id[1]>>
    BY <1>4, <2>2, RowsOfBoard
  <2>4. Standing(b, w, viewer, radius) =
          {r \in R : \E me \in R : me.id[1] = viewer /\ RankIn(R, r) - RankIn(R, me) \in Reach}
    BY DEF Standing
  <2> HIDE DEF w, R, Reach
  <2>5. Ordered(R, s)
    BY <2>3, InOrderIsOrdered
  <2>6. ASSUME NEW r \in R, NEW q \in R, r # q PROVE Before(r, q) \/ Before(q, r)
    <3>1. r.id[1] # q.id[1]
      BY <2>3, <2>6
    <3> QED
      BY <2>3, <3>1, BoardOrder
  <2> HIDE DEF s
  <2>7. ASSUME NEW k \in 1..Len(s) PROVE RankIn(R, s[k]) = k
    BY <2>3, <2>5, <2>6, PlaceIsRank
  <2>8. /\ DOMAIN s = 1..Len(s) /\ \A k \in DOMAIN s : s[k] \in R
        /\ \A r \in R : \E k \in DOMAIN s : s[k] = r
    BY <2>3, <2>5, ListHasAll DEF Ordered
  <2>9. Standing(b, w, viewer, radius)
          = {s[j] : j \in {k \in DOMAIN s : \E i \in DOMAIN s : s[i].id[1] = viewer
                                                                /\ k - i \in Reach}}
    <3>1. ASSUME NEW r \in Standing(b, w, viewer, radius)
          PROVE  \E j \in DOMAIN s : /\ r = s[j]
                                     /\ \E i \in DOMAIN s : s[i].id[1] = viewer /\ j - i \in Reach
      <4>1. PICK me \in R : me.id[1] = viewer /\ RankIn(R, r) - RankIn(R, me) \in Reach
        BY <2>4
      <4>2. PICK i \in DOMAIN s : s[i] = me
        BY <2>8
      <4>3. PICK j \in DOMAIN s : s[j] = r
        BY <2>4, <2>8
      <4>4. RankIn(R, r) = j /\ RankIn(R, me) = i
        BY <2>7, <2>8, <4>2, <4>3
      <4> QED
        BY <4>1, <4>2, <4>3, <4>4
    <3>2. ASSUME NEW j \in DOMAIN s, NEW i \in DOMAIN s, s[i].id[1] = viewer, j - i \in Reach
          PROVE  s[j] \in Standing(b, w, viewer, radius)
      <4>1. RankIn(R, s[j]) = j /\ RankIn(R, s[i]) = i /\ s[i] \in R /\ s[j] \in R
        BY <2>7, <2>8
      <4> QED
        BY <2>4, <3>2, <4>1
    <3> QED
      BY <3>1, <3>2
  <2> QED
    BY <2>1, <2>9 DEF StandingIsOnTheBoard, Reach
<1> QED
  BY <1>2, <1>3, <1>4

-----------------------------------------------------------------------------
(* The pages of a board *)

Differ(s) == \A i, j \in DOMAIN s : i # j => s[i].value # s[j].value

\* In a board whose values differ a row is before another when its value is greater, and
\* what is past the cursor of a row are the rows after it.
LEMMA ValuesFall ==
    ASSUME NEW R \in SUBSET BoardRow, IsFiniteSet(R), NEW s, Ordered(R, s), Differ(s),
           \A r \in R : r.id[1] \in Ids
    PROVE  /\ \A i, j \in 1..Len(s) : i < j <=> s[i].value > s[j].value
           /\ \A n, i \in 1..Len(s) : PastCursor(s[i], s[n]) <=> n < i
           /\ \A r, q \in R : r # q => Before(r, q) \/ Before(q, r)
<1>1. /\ DOMAIN s = 1..Len(s) /\ Len(s) \in Nat /\ \A i \in DOMAIN s : s[i] \in R
      /\ \A r \in R : \E i \in DOMAIN s : s[i] = r
  BY ListHasAll DEF Ordered
<1>2. \A r \in R : r.value \in Nat
  BY DEF BoardRow
<1>3. ASSUME NEW i \in 1..Len(s), NEW j \in 1..Len(s), s[i].value > s[j].value PROVE i < j
  BY <1>1, <1>3 DEF Ordered, Before
<1>4. ASSUME NEW i \in 1..Len(s), NEW j \in 1..Len(s), i < j PROVE s[i].value > s[j].value
  <2>1. s[i].value # s[j].value /\ s[i].value \in Nat /\ s[j].value \in Nat
    BY <1>1, <1>2, <1>4 DEF Differ
  <2>2. ~(s[j].value > s[i].value)
    BY <1>1, <1>3, <1>4
  <2> QED
    BY <2>1, <2>2
<1>5. ASSUME NEW n \in 1..Len(s), NEW i \in 1..Len(s)
      PROVE  PastCursor(s[i], s[n]) <=> n < i
  <2>1. s[i].value \in Nat /\ s[n].value \in Nat
    BY <1>1, <1>2
  <2>2. s[i].value = s[n].value => i = n
    BY <1>1 DEF Differ
  <2>3. i = n => ~(Order[s[i].id[1]] < Order[s[n].id[1]])
    <3>1. Order[s[n].id[1]] \in Int
      BY <1>1, TablesAssumption DEF Ids
    <3> QED
      BY <3>1
  <2>4. n < i <=> s[n].value > s[i].value
    BY <1>3, <1>4
  <2> QED
    BY <2>1, <2>2, <2>3, <2>4 DEF PastCursor
<1>6. ASSUME NEW r \in R, NEW q \in R, r # q PROVE Before(r, q) \/ Before(q, r)
  <2>1. r.value # q.value
    <3>1. PICK i \in DOMAIN s : s[i] = r
      BY <1>1
    <3>2. PICK j \in DOMAIN s : s[j] = q
      BY <1>1
    <3> QED
      BY <1>6, <3>1, <3>2 DEF Differ
  <2> QED
    BY <2>1, BoardOrder
<1> QED
  BY <1>3, <1>4, <1>5, <1>6

\* What is left of a board after the n first rows, in its order, is the rest of its list.
LEMMA RestOfBoard ==
    ASSUME NEW R \in SUBSET BoardRow, IsFiniteSet(R), NEW s, Ordered(R, s), Differ(s),
           \A r \in R : r.id[1] \in Ids, NEW n \in 1..Len(s)
    PROVE  LET rest == InOrder({r \in R : PastCursor(r, s[n])}) IN
           /\ rest \in Seq(R) /\ Len(rest) = Len(s) - n
           /\ \A k \in 1..(Len(s) - n) : rest[k] = s[n + k]
<1> DEFINE T == {r \in R : PastCursor(r, s[n])}
           m == Len(s) - n
           t == [k \in 1..m |-> s[n + k]]
<1>1. /\ DOMAIN s = 1..Len(s) /\ Len(s) \in Nat /\ \A i \in DOMAIN s : s[i] \in R
      /\ \A r \in R : \E i \in DOMAIN s : s[i] = r
      /\ \A i, j \in 1..Len(s) : i # j => s[i] # s[j]
  BY ListHasAll DEF Ordered, ListsAll
<1>2. m \in Nat /\ \A k \in 1..m : n + k \in 1..Len(s) /\ n < n + k
  BY <1>1
<1>3. /\ \A i \in 1..Len(s) : PastCursor(s[i], s[n]) <=> n < i
      /\ \A r, q \in R : r # q => Before(r, q) \/ Before(q, r)
  BY ValuesFall
<1>4. T \subseteq R /\ IsFiniteSet(T)
  BY FS_Subset
<1>5. T = {t[k] : k \in 1..m}
  <2>1. ASSUME NEW k \in 1..m PROVE t[k] \in T
    BY <1>1, <1>2, <1>3
  <2>2. ASSUME NEW r \in T PROVE \E k \in 1..m : t[k] = r
    <3>1. PICK i \in 1..Len(s) : s[i] = r
      BY <1>1
    <3>2. n < i
      BY <1>3, <3>1
    <3>3. i - n \in 1..m /\ n + (i - n) = i
      BY <1>1, <3>2
    <3>4. t[i - n] = s[n + (i - n)]
      BY <3>3
    <3> QED
      BY <3>1, <3>3, <3>4
  <2> HIDE DEF T, t
  <2> QED
    BY <2>1, <2>2
<1>6. \A i, j \in 1..m : t[i] = t[j] => i = j
  BY <1>1, <1>2
<1>7. Cardinality(T) = m
  <2>1. IsFiniteSet(1..m) /\ Cardinality(1..m) = m
    <3> HIDE DEF m
    <3>1. IsFiniteSet(1..m) /\ Cardinality(1..m) = IF 1 > m THEN 0 ELSE m - 1 + 1
      BY <1>2, FS_Interval
    <3> QED
      BY <1>2, <3>1
  <2> DEFINE K == 1..m
  <2>2. T = {t[k] : k \in K} /\ (\A i, j \in K : t[i] = t[j] => i = j)
    <3> HIDE DEF T, t
    <3> QED
      BY <1>5, <1>6
  <2>3. IsFiniteSet(K) /\ Cardinality(K) = m
    BY <2>1
  <2> HIDE DEF T, t, m, K
  <2> QED
    BY <2>2, <2>3, ImageIsFinite
<1>8. \A i, j \in 1..m : Before(t[i], t[j]) => i < j
  <2>1. ASSUME NEW i \in 1..m, NEW j \in 1..m, Before(t[i], t[j]) PROVE i < j
    <3>1. t[i] = s[n + i] /\ t[j] = s[n + j]
      OBVIOUS
    <3>2. n + i < n + j
      BY <1>1, <1>2, <2>1, <3>1 DEF Ordered
    <3> QED
      BY <1>1, <3>2
  <2> QED
    BY <2>1
<1>9. Ordered(T, t)
  <2>1. t \in [1..m -> T] /\ DOMAIN t = 1..m
    BY <1>5
  <2> HIDE DEF T, t, m
  <2>2. t \in Seq(T) /\ Len(t) = m
    BY <1>2, <2>1
  <2> QED
    BY <1>2, <1>6, <1>7, <1>8, <2>1, <2>2 DEF Ordered, ListsAll
<1>10. Ordered(T, InOrder(T))
  <2>1. T \in SUBSET BoardRow /\ \A r \in T : r.id[1] \in Ids
    OBVIOUS
  <2> HIDE DEF T
  <2> QED
    BY <1>4, <2>1, InOrderIsOrdered
<1>11. InOrder(T) = t
  <2>1. \A r, q \in T : r # q => Before(r, q) \/ Before(q, r)
    BY <1>3
  <2> HIDE DEF T, t
  <2> QED
    BY <1>4, <1>9, <1>10, <2>1, OneOrder
<1>12. t \in Seq(R) /\ Len(t) = m
  <2>1. \A k \in 1..m : s[n + k] \in R
    BY <1>1, <1>2
  <2> HIDE DEF m
  <2> QED
    BY <1>2, <2>1
<1> HIDE DEF T
<1>13. /\ InOrder(T) \in Seq(R) /\ Len(InOrder(T)) = m
       /\ \A k \in 1..m : InOrder(T)[k] = s[n + k]
  BY <1>11, <1>12
<1> QED
  BY <1>13 DEF T, m

\* The pages shown so far are the board up to the cursor; the last page found nothing past it.
PagesFit ==
    "shown" \in DOMAIN reader =>
        /\ DOMAIN reader = BoardFields /\ reader.first \in Seq(BoardRow)
        /\ reader.cursor = None => reader.shown = <<>> /\ reader.first = <<>>
        /\ reader.cursor # None /\ reader.same /\ Differ(reader.first) =>
              \E n \in 1..Len(reader.first) :
                 /\ reader.cursor = reader.first[n]
                 /\ reader.shown \in Seq(BoardRow) /\ Len(reader.shown) = n
                 /\ \A k \in 1..n : reader.shown[k] = reader.first[k]
                 /\ reader.at = "answered" => n = Len(reader.first)

\* A page holds the first rows of a list, as many as fit on it.
LEMMA PageFits ==
    ASSUME NEW T \in SUBSET BoardRow, IsFiniteSet(T), \A r \in T : r.id[1] \in Ids
    PROVE  LET rest == InOrder(T)
               p == SubSeq(rest, 1, Min({PageSize, Len(rest)}))
           IN  /\ p \in Seq(BoardRow) /\ Len(rest) \in Nat
               /\ Len(p) = IF PageSize <= Len(rest) THEN PageSize ELSE Len(rest)
               /\ \A k \in 1..Len(p) : p[k] = rest[k]
<1> DEFINE rest == InOrder(T)
           p == SubSeq(rest, 1, Min({PageSize, Len(rest)}))
<1>1. Ordered(T, rest)
  BY InOrderIsOrdered
<1>2. rest \in SetToSeqs(T)
  BY <1>1 DEF Ordered, ListsAll, SetToSeqs
<1>3. PageSize \in Nat \ {0}
  BY RequestsAssumption
<1> HIDE DEF rest
<1>4. IsPage(T, rest, 1, PageSize, p)
  BY <1>2, <1>3, PageOfList
<1> HIDE DEF p
<1>5. /\ p \in Seq(T) /\ Len(rest) \in Nat
      /\ \A k \in 1..Len(p) : p[k] = rest[k]
  BY <1>4 DEF IsPage
<1>6. Len(p) = IF PageSize <= Len(rest) THEN PageSize ELSE Len(rest)
  BY <1>3, <1>4 DEF IsPage
<1>7. p \in Seq(BoardRow)
  BY <1>5
<1> QED
  BY <1>5, <1>6, <1>7 DEF p, rest

\* A list that is two others, one behind the other.
IsJoined(S, s, t, q) ==
    /\ q \in Seq(S) /\ Len(q) = Len(s) + Len(t)
    /\ \A k \in 1..Len(s) : q[k] = s[k]
    /\ \A k \in 1..(Len(s) + Len(t)) : Len(s) < k => q[k] = t[k - Len(s)]

\* The joined list has the elements of both, in their order.
LEMMA Joined ==
    ASSUME NEW S, NEW s \in Seq(S), NEW t \in Seq(S) PROVE IsJoined(S, s, t, s \o t)
BY DEF IsJoined

\* A page goes on where the one before it ended.
LEMMA NextPageStep == ReportInv /\ PagesFit /\ NextPage => PagesFit'
<1> SUFFICES ASSUME ReportInv, PagesFit, NextPage PROVE PagesFit'
  OBVIOUS
<1> DEFINE b == reader.req
           w == Window(b, clock)
           R == BoardRows(b, w)
           B == InOrder(R)
           c == reader.cursor
           T == {r \in R : c = None \/ PastCursor(r, c)}
           rest == InOrder(T)
           p == SubSeq(rest, 1, Min({PageSize, Len(rest)}))
           f == IF c = None THEN B ELSE reader.first
           same == reader.same /\ B = f
<1>1. /\ DOMAIN reader = BoardFields /\ b \in BoardAsks /\ reader.first \in Seq(BoardRow)
      /\ c = None => reader.shown = <<>> /\ reader.first = <<>>
      /\ reader.at = "paging"
  BY DEF NextPage, ReportInv, ReaderFits, PagesFit, BoardFields
<1>2. /\ Page(b, w, c) = p /\ Board(b, w) = B
  BY DEF Page, Board
<1>3. reader' = IF c # None /\ w.end # reader.window.end
                THEN [reader EXCEPT !.at = "refused"]
                ELSE IF p = <<>> THEN [reader EXCEPT !.at = "answered", !.same = same]
                ELSE [reader EXCEPT !.window = w, !.shown = @ \o p, !.cursor = p[Len(p)],
                                    !.first = f, !.same = same]
  <2> HIDE DEF p, B, T, rest, R
  <2> QED
    BY <1>2 DEF NextPage
<1>4. IsFiniteSet(R) /\ R \subseteq BoardRow /\ \A r \in R : r.id[1] \in Ids
  BY <1>1, RowsOfBoard
<1>5. Ordered(R, B)
  <2> HIDE DEF R
  <2> QED
    BY <1>4, InOrderIsOrdered
<1>6. B \in Seq(BoardRow)
  <2> HIDE DEF B
  <2> QED
    BY <1>4, <1>5 DEF Ordered
<1>7. T \subseteq R /\ (c = None => T = R)
  OBVIOUS
<1>8. /\ p \in Seq(BoardRow) /\ Len(rest) \in Nat
      /\ Len(p) = IF PageSize <= Len(rest) THEN PageSize ELSE Len(rest)
      /\ \A k \in 1..Len(p) : p[k] = rest[k]
  <2>1. T \in SUBSET BoardRow /\ IsFiniteSet(T) /\ \A r \in T : r.id[1] \in Ids
    BY <1>4, <1>7, FS_Subset
  <2> HIDE DEF T
  <2> QED
    BY <2>1, PageFits
<1>9. PageSize \in Nat \ {0}
  BY RequestsAssumption
\* In a board that is still the one the first page was of, what is past the cursor is
\* the rest of the list.
<1>10. ASSUME c # None, reader.same, B = reader.first, Differ(reader.first)
       PROVE  \E n \in 1..Len(B) :
                 /\ c = B[n] /\ reader.shown \in Seq(BoardRow) /\ Len(reader.shown) = n
                 /\ \A k \in 1..n : reader.shown[k] = B[k]
                 /\ Len(rest) = Len(B) - n
                 /\ \A k \in 1..(Len(B) - n) : rest[k] = B[n + k]
  <2>1. PICK n \in 1..Len(B) :
           /\ c = B[n] /\ reader.shown \in Seq(BoardRow) /\ Len(reader.shown) = n
           /\ \A k \in 1..n : reader.shown[k] = B[k]
    BY <1>1, <1>10 DEF PagesFit, BoardFields
  <2>2. Differ(B)
    BY <1>10
  <2>3. T = {r \in R : PastCursor(r, B[n])}
    BY <1>10, <2>1
  <2> HIDE DEF T, B, R
  <2>4. /\ Len(rest) = Len(B) - n
        /\ \A k \in 1..(Len(B) - n) : rest[k] = B[n + k]
    BY <1>4, <1>5, <2>2, <2>3, RestOfBoard
  <2> QED
    BY <2>1, <2>4
<1> HIDE DEF p, B, T, rest, R, w, c
<1>11. CASE c # None /\ w.end # reader.window.end
  <2>1. reader' = [reader EXCEPT !.at = "refused"]
    BY <1>3, <1>11
  <2>2. /\ DOMAIN reader' = BoardFields /\ reader'.at = "refused"
        /\ UNCHANGED <<reader.first, reader.cursor, reader.shown, reader.same>>
    BY <1>1, <2>1 DEF BoardFields
  <2> QED
    BY <1>1, <2>2 DEF PagesFit, Differ, BoardFields
<1>12. CASE ~(c # None /\ w.end # reader.window.end) /\ p = <<>>
  <2>1. reader' = [reader EXCEPT !.at = "answered", !.same = same]
    BY <1>3, <1>12
  <2>2. /\ DOMAIN reader' = BoardFields /\ reader'.at = "answered" /\ reader'.same = same
        /\ UNCHANGED <<reader.first, reader.cursor, reader.shown>>
    BY <1>1, <2>1 DEF BoardFields
  <2>3. ASSUME reader'.cursor # None, reader'.same, Differ(reader'.first)
        PROVE  \E n \in 1..Len(reader'.first) :
                  /\ reader'.cursor = reader'.first[n]
                  /\ reader'.shown \in Seq(BoardRow) /\ Len(reader'.shown) = n
                  /\ \A k \in 1..n : reader'.shown[k] = reader'.first[k]
                  /\ n = Len(reader'.first)
    <3>1. c # None /\ reader.same /\ B = reader.first /\ Differ(reader.first)
      BY <2>2, <2>3 DEF c
    <3>2. PICK n \in 1..Len(B) :
             /\ c = B[n] /\ reader.shown \in Seq(BoardRow) /\ Len(reader.shown) = n
             /\ \A k \in 1..n : reader.shown[k] = B[k]
             /\ Len(rest) = Len(B) - n
      BY <1>10, <3>1
    <3>3. Len(rest) = 0
      <4>1. Len(p) = 0
        BY <1>12
      <4> QED
        BY <1>8, <1>9, <4>1
    <3>4. Len(B) \in Nat
      BY <1>6
    <3>5. n = Len(B)
      BY <3>2, <3>3, <3>4
    <3> QED
      BY <2>2, <3>1, <3>2, <3>5 DEF c
  <2> QED
    BY <1>1, <2>2, <2>3 DEF PagesFit, c
<1>13. CASE ~(c # None /\ w.end # reader.window.end) /\ p # <<>>
  <2>1. reader' = [reader EXCEPT !.window = w, !.shown = @ \o p, !.cursor = p[Len(p)],
                                 !.first = f, !.same = same]
    BY <1>3, <1>13
  <2>2. /\ DOMAIN reader' = BoardFields /\ reader'.at = "paging"
        /\ reader'.shown = reader.shown \o p /\ reader'.cursor = p[Len(p)]
        /\ reader'.first = f /\ reader'.same = same
    BY <1>1, <2>1 DEF BoardFields
  <2>3. Len(p) \in Nat \ {0} /\ p[Len(p)] \in BoardRow
    BY <1>8, <1>13
  <2>4. reader'.cursor # None
    BY <2>2, <2>3, TablesAssumption DEF BoardRow
  <2>5. f \in Seq(BoardRow)
    BY <1>1, <1>6
  <2>6. ASSUME same, Differ(f)
        PROVE  \E n \in 1..Len(f) :
                  /\ p[Len(p)] = f[n]
                  /\ reader.shown \o p \in Seq(BoardRow) /\ Len(reader.shown \o p) = n
                  /\ \A k \in 1..n : (reader.shown \o p)[k] = f[k]
    <3>1. CASE c = None
      <4>1. reader.shown = <<>> /\ f = B /\ rest = B
        BY <1>1, <1>7, <3>1 DEF rest, B
      <4>2. <<>> \o p = p
        BY <1>8
      <4>3. Len(p) \in 1..Len(B) /\ \A k \in 1..Len(p) : p[k] = B[k]
        BY <1>8, <2>3, <4>1
      <4> QED
        BY <1>8, <2>3, <4>1, <4>2, <4>3
    <3>2. CASE c # None
      <4>1. f = reader.first /\ B = reader.first /\ reader.same
        BY <2>6, <3>2
      <4>2. PICK n \in 1..Len(B) :
               /\ c = B[n] /\ reader.shown \in Seq(BoardRow) /\ Len(reader.shown) = n
               /\ \A k \in 1..n : reader.shown[k] = B[k]
               /\ Len(rest) = Len(B) - n
               /\ \A k \in 1..(Len(B) - n) : rest[k] = B[n + k]
        BY <1>10, <2>6, <3>2, <4>1
      <4> DEFINE q == reader.shown \o p
                 m == n + Len(p)
      <4>3. /\ q \in Seq(BoardRow) /\ Len(q) = m
            /\ \A k \in 1..n : q[k] = reader.shown[k]
            /\ \A k \in 1..m : n < k => q[k] = p[k - n]
        <5>1. IsJoined(BoardRow, reader.shown, p, reader.shown \o p)
          BY <1>8, <4>2, Joined
        <5> QED
          BY <4>2, <5>1 DEF IsJoined
      <4>4. Len(B) \in Nat /\ Len(p) <= Len(B) - n
        BY <1>6, <1>8, <4>2
      <4>5. \A k \in 1..Len(p) : p[k] = B[n + k]
        BY <1>8, <2>3, <4>2, <4>4
      <4>6. m \in 1..Len(B) /\ p[Len(p)] = B[m]
        <5>1. Len(p) \in 1..Len(p)
          BY <2>3
        <5>2. p[Len(p)] = B[n + Len(p)]
          BY <4>5, <5>1
        <5> QED
          BY <2>3, <4>2, <4>4, <5>2
      <4>7. ASSUME NEW k \in 1..m PROVE q[k] = B[k]
        <5>1. CASE k <= n
          <6>1. k \in 1..n
            BY <4>2, <4>4, <5>1
          <6> QED
            BY <4>2, <4>3, <6>1
        <5>2. CASE n < k
          <6>1. k - n \in 1..Len(p) /\ n + (k - n) = k
            BY <2>3, <4>2, <5>2
          <6> HIDE DEF q
          <6> QED
            BY <4>3, <4>5, <5>2, <6>1
        <5> QED
          BY <4>2, <4>4, <4>6, <5>1, <5>2
      <4> HIDE DEF q, m
      <4>8. q \in Seq(BoardRow) /\ Len(q) = m
        BY <4>3
      <4> QED
        BY <4>1, <4>6, <4>7, <4>8 DEF q
    <3> QED
      BY <3>1, <3>2
  <2> HIDE DEF f, same
  <2>7. ASSUME reader'.same, Differ(reader'.first)
        PROVE  \E n \in 1..Len(reader'.first) :
                  /\ reader'.cursor = reader'.first[n]
                  /\ reader'.shown \in Seq(BoardRow) /\ Len(reader'.shown) = n
                  /\ \A k \in 1..n : reader'.shown[k] = reader'.first[k]
    <3>1. same /\ Differ(f)
      BY <2>2, <2>7
    <3>2. PICK n \in 1..Len(f) :
             /\ p[Len(p)] = f[n]
             /\ reader.shown \o p \in Seq(BoardRow) /\ Len(reader.shown \o p) = n
             /\ \A k \in 1..n : (reader.shown \o p)[k] = f[k]
      BY <2>6, <3>1
    <3> QED
      BY <2>2, <3>2
  <2> QED
    BY <2>2, <2>4, <2>5, <2>7 DEF PagesFit
<1> QED
  BY <1>11, <1>12, <1>13

-----------------------------------------------------------------------------
(* The figures *)

\* What the invariant says of the board, the standing and the portfolio.
FiguresHold ==
    /\ PagesFit /\ StandingIsOnTheBoard /\ HidesTheOverdue
    /\ reader.at = "answered" /\ "kpis" \in DOMAIN reader => reader.req \in PortfolioAsks

\* The fields a step leaves tell which family of requests it was for.
LEMMA FiguresStep == ReportInv /\ FiguresHold /\ [ReportNext]_reportVars => FiguresHold'
<1> SUFFICES ASSUME ReportInv, FiguresHold, [ReportNext]_reportVars PROVE FiguresHold'
  OBVIOUS
<1>1. CASE reader' = reader /\ project' = project
  <2>1. HidesTheOverdue'
    BY <1>1, PortfolioStays DEF FiguresHold
  <2> QED
    BY <1>1, <2>1 DEF FiguresHold, PagesFit, StandingIsOnTheBoard, Differ
<1>2. ASSUME "shown" \notin DOMAIN reader', "near" \notin DOMAIN reader', "kpis" \notin DOMAIN reader'
      PROVE  FiguresHold'
  BY <1>2 DEF FiguresHold, PagesFit, StandingIsOnTheBoard, HidesTheOverdue
<1>3. CASE AskReport
  BY <1>2, <1>3, AskReportLeaves DEF ReportFields
<1>4. CASE ReadTags \/ ReadRows \/ ReadFreshness
  <2>1. DOMAIN reader' = ReportFields
    BY <1>4, ReportGoesOn DEF ReportInv, ReaderFits
  <2> QED
    BY <1>2, <2>1 DEF ReportFields
<1>5. CASE AskBoard
  <2>1. PICK b \in Boards :
           reader' = IF Refuses(b) THEN [at |-> "refused", req |-> b]
                     ELSE [at |-> "paging", req |-> b, window |-> Window(b, clock),
                           shown |-> <<>>, cursor |-> None, first |-> <<>>, same |-> TRUE]
    BY <1>5 DEF AskBoard
  <2>2. CASE Refuses(b)
    BY <1>2, <2>1, <2>2
  <2>3. CASE ~Refuses(b)
    BY <2>1, <2>3 DEF FiguresHold, PagesFit, StandingIsOnTheBoard, HidesTheOverdue, BoardFields
  <2> QED
    BY <2>2, <2>3
<1>6. CASE NextPage
  <2>1. PagesFit'
    BY <1>6, NextPageStep DEF FiguresHold
  <2>2. DOMAIN reader' = BoardFields
    <3>1. DOMAIN reader = BoardFields
      BY <1>6 DEF NextPage, ReportInv, ReaderFits
    <3> QED
      BY <1>6, <3>1 DEF NextPage
  <2> QED
    BY <2>1, <2>2 DEF FiguresHold, StandingIsOnTheBoard, HidesTheOverdue, BoardFields
<1>7. CASE AskStanding
  <2>1. StandingIsOnTheBoard'
    BY <1>7, StandingStep
  <2>2. "shown" \notin DOMAIN reader' /\ "kpis" \notin DOMAIN reader'
    BY <1>7 DEF AskStanding
  <2> QED
    BY <2>1, <2>2 DEF FiguresHold, PagesFit, HidesTheOverdue
<1>8. CASE AskPortfolio
  <2>1. HidesTheOverdue'
    BY <1>8, PortfolioStep
  <2>2. /\ "shown" \notin DOMAIN reader' /\ "near" \notin DOMAIN reader'
        /\ reader'.req \in PortfolioAsks
    BY <1>8, RequestsAssumption DEF AskPortfolio
  <2> QED
    BY <2>1, <2>2 DEF FiguresHold, PagesFit, StandingIsOnTheBoard
<1>9. (reader' = reader /\ project' = project) \/ Reading
  BY DEF ReportNext, Import, Tick, RecordActivity, AddActors, PutCursor, GiveUp, Reading,
         reportVars
<1> QED
  BY <1>1, <1>3, <1>4, <1>5, <1>6, <1>7, <1>8, <1>9 DEF Reading

\* What has been shown of a board whose values differ is the start of it.
LEMMA ShownIsPrefix == PagesFit => PagesAreTheBoard
<1> SUFFICES ASSUME PagesFit, "shown" \in DOMAIN reader, reader.same, Differ(reader.first)
             PROVE  /\ IsPrefix(reader.shown, reader.first)
                    /\ reader.at = "answered" => Len(reader.shown) = Len(reader.first)
  BY DEF PagesAreTheBoard, Differ
<1>1. reader.first \in Seq(BoardRow)
  BY DEF PagesFit
<1>2. CASE reader.cursor = None
  <2>1. reader.shown = <<>> /\ reader.first = <<>>
    BY <1>2 DEF PagesFit
  <2> QED
    BY <2>1 DEF IsPrefix
<1>3. CASE reader.cursor # None
  <2>1. PICK n \in 1..Len(reader.first) :
           /\ reader.shown \in Seq(BoardRow) /\ Len(reader.shown) = n
           /\ \A k \in 1..n : reader.shown[k] = reader.first[k]
           /\ reader.at = "answered" => n = Len(reader.first)
    BY <1>3 DEF PagesFit
  <2>2. PICK s, t : s = reader.shown /\ t = reader.first
    OBVIOUS
  <2>3. s \in Seq(BoardRow) /\ t \in Seq(BoardRow) /\ Len(s) = n /\ n \in 1..Len(t)
        /\ \A k \in 1..n : s[k] = t[k]
    BY <1>1, <2>1, <2>2
  <2>4. SubSeq(s, 1, Len(s)) = SubSeq(t, 1, Len(s)) /\ Len(s) <= Len(t)
    BY <2>3
  <2> QED
    BY <2>1, <2>2, <2>4 DEF IsPrefix
<1> QED
  BY <1>2, <1>3

\* The invariant of the boards, the standings and the portfolios.
LEMMA FiguresAlwaysHold == ReportSpec => []FiguresHold
<1>1. ReportInit => FiguresHold
  BY DEF ReportInit, FiguresHold, PagesFit, StandingIsOnTheBoard, HidesTheOverdue, Free
<1> QED
  BY <1>1, ReportStart, ReaderStep, FiguresStep, PTL DEF ReportSpec

\* A portfolio that hides the overdue shows none of them and counts none, and of the dated
\* projects it leaves out no other.
THEOREM OverdueAreHidden == ReportSpec => []HidesTheOverdue
<1>1. FiguresHold => HidesTheOverdue
  BY DEF FiguresHold
<1> QED
  BY <1>1, FiguresAlwaysHold, PTL

\* The figures of an answer are those of its rows.
THEOREM FiguresAreOfTheRows == ReportSpec => []FiguresAgree
<1>1. FiguresHold => PagesAreTheBoard /\ StandingIsOnTheBoard /\ HidesTheOverdue
  BY ShownIsPrefix DEF FiguresHold
<1>2. LensesAgree /\ TrendFitsWindow /\ FiguresHold => FiguresAgree
  BY <1>1 DEF FiguresAgree
<1> QED
  BY <1>2, FiguresAdd, FiguresAlwaysHold, PTL
=============================================================================
