------------------------------- MODULE EditTurns -------------------------------
(***************************************************************************)
(* What the CAS on an issue row promises to those who edit the issue       *)
(* through dev-pulse: they take turns.  An edit begins only when no other  *)
(* edit is in progress, goes to GitHub only during its own turn, at most   *)
(* once, and never begins again after it has ended.  A turn may never end: *)
(* its handler may have died.                                              *)
(***************************************************************************)
CONSTANTS
    Editors,
    Nobody

VARIABLES
    turn,       \* whose turn it is, or Nobody
    started,    \* the edits that have had their turn or have it
    wrote       \* the edits that have called GitHub

vars == <<turn, started, wrote>>

TypeOK ==
    /\ turn \in Editors \cup {Nobody}
    /\ started \subseteq Editors
    /\ wrote \subseteq started

Init == turn = Nobody /\ started = {} /\ wrote = {}

Begin(e) ==
    /\ turn = Nobody /\ e \notin started
    /\ turn' = e
    /\ started' = started \cup {e}
    /\ UNCHANGED wrote

Write(e) ==
    /\ turn = e /\ e \notin wrote
    /\ wrote' = wrote \cup {e}
    /\ UNCHANGED <<turn, started>>

End(e) ==
    /\ turn = e /\ e \in wrote
    /\ turn' = Nobody
    /\ UNCHANGED <<started, wrote>>

Next == \E e \in Editors : Begin(e) \/ Write(e) \/ End(e)

Spec == Init /\ [][Next]_vars
=============================================================================
