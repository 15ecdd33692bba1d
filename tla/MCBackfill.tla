------------------------------ MODULE MCBackfill ------------------------------
(***************************************************************************)
(* Model-checking instance of Backfill: the reconciler's tick, a backfill  *)
(* and backfill-issues, all at one resource.                               *)
(***************************************************************************)
EXTENDS Backfill

\* A refresh asks for one target and kind.
EachAlone == {{q} : q \in Resources}

\* Bounds: a behaviour is about the resource that current starts at; pages are asked
\* for while neither a tick nor a chunk is under way, and where items get lost those two
\* are not under way together.  What cannot be asked for by date is looked at for the
\* ticks alone.
OneResource ==
    \A s \in Schedulers :
        LET q == current[s] IN
        /\ current'[s] = q /\ todo'[s] \subseteq {q}
        /\ \A r \in Resources \ {q} : remote'[r] = remote[r]
        /\ q \in Pulls \cup OrgLists => (clock' <= 2 /\ UNCHANGED <<chunk, pager>>)
        /\ chunk'.todo \in {{}, Resources \ OrgLists, Resources \ (OrgLists \cup {q})}
        /\ chunk'.at \notin {"idle", "next"} => chunk'.of = q
        /\ pager'.at # "idle" => pager'.of = q
        /\ pager'.at # "idle" => chunk'.at = "idle" /\ tpc'[s] = "idle"
        /\ q \in Lossy => chunk'.at = "idle" \/ tpc'[s] = "idle"

MCSpec == BackfillInit /\ [][BackfillNext /\ OneResource]_allVars
=============================================================================
