---------------------------- MODULE MCReconciler ----------------------------
(***************************************************************************)
(* Model-checking instance of Reconciler.                                  *)
(***************************************************************************)
EXTENDS Reconciler

\* do_tick over every target.
AllAtOnce == {Resources}

=============================================================================
