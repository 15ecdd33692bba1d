---------------------------- MODULE MCIssueWrite ----------------------------
(***************************************************************************)
(* Model-checking instance of IssueWrite, and what a comment of the        *)
(* repository says of the write path that the code does not do.            *)
(***************************************************************************)
EXTENDS IssueWrite, TLC

Symmetry == Permutations(Requests)

\* A sweep comes beside two requests, or beside one and a delivery.
Apart == inbox' = <<>> \/ \E r \in Requests : \A q \in Requests \ {r} : pc'[q] = "form"

\* The steps of Next within that bound; nothing is edited on github.com.
Sweeping ==
    \/ (\E r \in Requests : OpenForm(r)) /\ Apart
    \/ ReceiveWebhook /\ Apart
    \/ \E r \in Requests : RequestStep(r) \/ Abandon(r)
    \/ \E h \in Handlers : ResponseStep(h)
    \/ \E w \in Workers : WorkerStep(w) \/ WorkerAborts(w)
    \/ \E s \in Sweepers : SweeperStep(s) \/ SweepAborts(s)
    \/ Tick
SweepSpec == Init /\ [][Sweeping]_vars

\* mutationAge is read by a sweep alone, so states that differ in it are one where
\* there is no sweeper.
Unswept == <<version, slotVars, fieldVars, ledger, result, hookVars, ghLog, requestVars,
             batch, workerVars, auditVars, historyVars>>

-----------------------------------------------------------------------------
\* Payloads that meet a fresh pending row "are buffered and replayed once the
\* flag clears": unless a handler dies, nothing stays in the buffer for ever.
BufferedIsReplayed ==
    [](\A r \in Requests : pc[r] # "abandoned")
        => \A d \in Deliveries : d \in buffer ~> d \notin buffer
=============================================================================
