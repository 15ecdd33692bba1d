---------------------------- MODULE MCWebhookInbox ----------------------------
(***************************************************************************)
(* Model-checking instance of WebhookInbox.                                *)
(***************************************************************************)
EXTENDS WebhookInbox, TLC

CONSTANTS d1, d2, d3, e1, e2

Symmetry == Permutations(Workers)

\* Two pushes that share a commit, and a delivery the handlers ignore.
SharedCommit == d1 :> <<e1, e2>> @@ d2 :> <<e2>> @@ d3 :> <<>>
=============================================================================
