------------------------------- MODULE Backfill -------------------------------
(***************************************************************************)
(* The two historical importers, beside the reconciler: Backfill, whose    *)
(* chunks read and advance the cursors the reconciler uses, over a window  *)
(* that starts in the past (dp-fetcher backfill/mod.rs), and the command   *)
(* backfill-issues, which pages through a repo's issues and has no cursor  *)
(* (dev-pulse main.rs).  Both have a client of their own, without budget.  *)
(***************************************************************************)
EXTENDS Reconciler

CONSTANTS
    WindowStart,    \* the second the backfill's window starts at
    ListSize,       \* per_page of backfill-issues
    MaxPages        \* the values --max-pages may have; 0 is no cap

ASSUME BackfillAssumption ==
    WindowStart \in Nat /\ ListSize \in Nat \ {0} /\ MaxPages \subseteq Nat

VARIABLES
    chunk,      \* the chunk Backfill is at, and those it has still to do
    pager       \* the page backfill-issues is at; what GitHub had at its start

Idle     == [at |-> "idle", todo |-> {}]
NotPaged == [at |-> "idle"]
allVars  == <<vars, chunk, pager>>

-----------------------------------------------------------------------------
(* Backfill::run_for_org *)

StartBackfill ==
    /\ chunk.at = "idle"
    /\ chunk' = [at |-> "next", todo |-> Resources \ OrgLists]
    /\ UNCHANGED <<vars, pager>>

\* A shutdown is seen between two chunks; the last one ends the run.
EndBackfill ==
    /\ chunk.at = "next" /\ chunk' = Idle
    /\ UNCHANGED <<vars, pager>>

\* The later of the window's start and the cursor's since.
EffectiveSince(since) == IF since >= WindowStart THEN since ELSE WindowStart

\* The chunk is skipped when the bound is not before now; the host's clock may be
\* behind GitHub's.
LoadChunk ==
    /\ chunk.at = "next"
    /\ \E q \in chunk.todo :
          LET since == EffectiveSince(cursor[q].since)
              rest  == [at |-> "next", todo |-> chunk.todo \ {q}]
          IN  \/ since >= clock /\ chunk' = rest
              \/ chunk' = [at |-> "sending", todo |-> rest.todo, of |-> q,
                           loaded |-> cursor[q], since |-> since, page |-> {}, left |-> {}]
    /\ UNCHANGED <<vars, pager>>

\* The next chunk; the sleep for headroom lies before it.
NextChunk == chunk' = [at |-> "next", todo |-> chunk.todo]

SendChunk ==
    LET P == FirstPage(chunk.of, chunk.since) IN
    /\ chunk.at = "sending"
    /\ \/ P \in chunk.loaded.etag /\ chunk' = [chunk EXCEPT !.at = "touching"]
       \/ /\ P \notin chunk.loaded.etag
          /\ chunk' = [chunk EXCEPT !.at = "dispatching", !.page = P, !.left = P]
       \/ CallsFail /\ NextChunk
    /\ UNCHANGED <<vars, pager>>

\* Mutated: the window's start is written over the cursor's since.
TouchWindow ==
    /\ chunk.at = "touching"
    /\ cursor' = [cursor EXCEPT ![chunk.of] = [chunk.loaded EXCEPT !.since = chunk.since + 1]]
    /\ NextChunk
    /\ UNCHANGED <<githubVars, mirror, requestsMade, tickVars, pager>>

\* After a 304 the cursor keeps its since, if it has one, and its ETag.
TouchChunk ==
    /\ chunk.at = "touching"
    /\ cursor' = [cursor EXCEPT ![chunk.of] =
                    [chunk.loaded EXCEPT !.since = IF @ = 0 THEN chunk.since ELSE @]]
    /\ NextChunk
    /\ UNCHANGED <<githubVars, mirror, requestsMade, tickVars, pager>>

DispatchChunk ==
    /\ chunk.at = "dispatching"
    /\ \E e \in chunk.left :
          /\ IsNewest(e, chunk.left)
          /\ mirror' = [mirror EXCEPT ![chunk.of][e[1]] =
                          IF Overwrites(chunk.of, e[2], @) THEN e[2] ELSE @]
          /\ chunk' = [chunk EXCEPT !.left = @ \ {e}]
    /\ UNCHANGED <<githubVars, cursor, requestsMade, tickVars, pager>>

\* A dispatch that fails is logged.
LoseChunkItem ==
    /\ chunk.at = "dispatching" /\ chunk.of \in Lossy
    /\ \E e \in chunk.left :
          /\ IsNewest(e, chunk.left)
          /\ chunk' = [chunk EXCEPT !.left = IF chunk.of \in Commits THEN {} ELSE @ \ {e}]
    /\ UNCHANGED <<vars, pager>>

\* The newest of the cursor's since, the bound that was asked with and the dates of
\* the page.
SaveChunk ==
    /\ chunk.at = "dispatching" /\ chunk.left = {}
    /\ LET dates == {chunk.loaded.since} \cup Dates(chunk.of, chunk.page)
       IN  \E t \in {chunk.since} \cup dates :
              /\ IsAdvancedSince(t, chunk.since, dates)
              /\ cursor' = [cursor EXCEPT ![chunk.of] =
                              [since |-> t, etag |-> {chunk.page}]]
    /\ NextChunk
    /\ UNCHANGED <<githubVars, mirror, requestsMade, tickVars, pager>>

\* A cursor statement fails: the chunk is an error, the run goes on.
FailChunk ==
    /\ CallsFail /\ NextChunk
    /\ chunk.at = "touching" \/ (chunk.at = "dispatching" /\ chunk.left = {})
    /\ UNCHANGED <<vars, pager>>

-----------------------------------------------------------------------------
(* backfill-issues *)

Known(q) == {<<i, remote[q][i]>> : i \in {j \in Items : remote[q][j] # Absent}}

StartPaging ==
    /\ pager.at = "idle"
    /\ \E q \in Issues, max \in MaxPages :
          pager' = [at |-> "asking", of |-> q, max |-> max, number |-> 1, left |-> {},
                    short |-> FALSE, due |-> Known(q)]
    /\ UNCHANGED <<vars, chunk>>

\* Mutated: direction=asc.
OldestFirst(f, e) == f[2] < e[2] \/ (f[2] = e[2] /\ f[1] < e[1])

\* sort=updated&direction=desc
ListedBefore(f, e) == f[2] > e[2] \/ (f[2] = e[2] /\ f[1] > e[1])

Position(q, e) == Cardinality({f \in Known(q) : ListedBefore(f, e)})

\* The page of that number, as the list stands when it is asked for.
ListedPage(q, n) ==
    {e \in Known(q) : (n - 1) * ListSize <= Position(q, e) /\ Position(q, e) < n * ListSize}

Finished == [at |-> "finished", of |-> pager.of, due |-> pager.due]

\* The cap on pages, or a request that fails, ends the command.
AskPage ==
    LET P == ListedPage(pager.of, pager.number) IN
    /\ pager.at = "asking"
    /\ \/ pager.max > 0 /\ pager.number > pager.max /\ pager' = NotPaged
       \/ /\ pager.max = 0 \/ pager.number <= pager.max
          /\ \/ pager' = IF P = {} THEN Finished
                         ELSE [pager EXCEPT !.at = "storing", !.left = P,
                                            !.short = Cardinality(P) < ListSize]
             \/ CallsFail /\ pager' = NotPaged
    /\ UNCHANGED <<vars, chunk>>

\* The rows of a page one after the other; after the last row of a short page the
\* repo is done.
RowDone(e) ==
    /\ e \in pager.left /\ \A f \in pager.left : ~ListedBefore(f, e)
    /\ pager' = IF pager.left # {e} THEN [pager EXCEPT !.left = @ \ {e}]
                ELSE IF pager.short THEN Finished
                ELSE [pager EXCEPT !.at = "asking", !.left = {}, !.number = @ + 1]

StoreIssue ==
    /\ pager.at = "storing"
    /\ \E e \in pager.left :
          /\ RowDone(e)
          /\ mirror' = [mirror EXCEPT ![pager.of][e[1]] =
                          IF Overwrites(pager.of, e[2], @) THEN e[2] ELSE @]
    /\ UNCHANGED <<githubVars, cursor, requestsMade, tickVars, chunk>>

\* A row that cannot be parsed or written is logged.
SkipIssue ==
    /\ pager.at = "storing" /\ pager.of \in Lossy
    /\ \E e \in pager.left : RowDone(e)
    /\ UNCHANGED <<vars, chunk>>

-----------------------------------------------------------------------------
BackfillInit == Init /\ chunk = Idle /\ pager = NotPaged

\* The process ends where it is, at a chunk too.
Crash ==
    /\ chunk.at # "idle" /\ chunk' = Idle
    /\ UNCHANGED <<vars, pager>>

ChunkStep ==
    \/ StartBackfill \/ EndBackfill \/ LoadChunk \/ SendChunk \/ TouchChunk
    \/ DispatchChunk \/ LoseChunkItem \/ SaveChunk \/ FailChunk \/ Crash

PagerStep == StartPaging \/ AskPage \/ StoreIssue \/ SkipIssue

BackfillNext == ChunkStep \/ PagerStep \/ (Next /\ UNCHANGED <<chunk, pager>>)

BackfillSpec == BackfillInit /\ [][BackfillNext]_allVars

-----------------------------------------------------------------------------
\* The importers and the reconciler share the cursor row and each other's ETags;
\* still, nothing the window holds is left behind a cursor: an issue that was dated
\* between the window's start and the cursor's since is in the store, whoever took
\* the cursor there and wherever it was cut off (run_chunk_inner).
WindowIsCovered ==
    \A q \in Issues \ Lossy, i \in Items :
        remote[q][i] >= WindowStart /\ remote[q][i] # Absent /\ remote[q][i] < cursor[q].since
            => mirror[q][i] >= remote[q][i]

\* When backfill-issues has come to the end of a repo, it has every issue that was
\* there when it began and has not changed since, though the list moves under its
\* page numbers (run_backfill_issues).
PagingIsComplete ==
    pager.at = "finished" /\ pager.of \notin Lossy =>
        \A e \in pager.due \cap Known(pager.of) : mirror[pager.of][e[1]] >= e[2]
=============================================================================
