---------------------------- MODULE BackfillProofs ----------------------------
(***************************************************************************)
(* What a fetch cursor vouches for, for any number of schedulers and       *)
(* resources and any interleaving of ticks, restarts and failing requests, *)
(* and then with the two importers beside the reconciler.  The first       *)
(* argument needs three assumptions, each of which the repository does not *)
(* always keep: no issue is lost between page and store, one page holds    *)
(* everything, and items are dated when they change (no Commits).  The     *)
(* window of a backfill is covered as long as one page holds what a repo   *)
(* has (a list that is cut is never asked for again); paging needs no such *)
(* assumption.                                                             *)
(***************************************************************************)
EXTENDS Backfill, FiniteLemmas

\* No tick of the walk misses an item.
NothingIsMissed ==
    /\ Lossy \cap Issues = {}
    /\ ItemCount <= PageSize
    /\ Commits = {}

-----------------------------------------------------------------------------
(* The reconciler: the invariant *)

\* A cursor value vouches for what its since and its ETag would skip.
Vouches(q, c) ==
    /\ c.since <= clock
    /\ \A i \in Items : remote[q][i] # Absent /\ remote[q][i] < c.since
          => mirror[q][i] >= remote[q][i]
    /\ \A P \in c.etag : \A e \in P : mirror[q][e[1]] >= e[2]

Busy(s) == tpc[s] \notin {"idle", "next"} /\ current[s] \in Issues

\* What a tick has not dispatched yet, it still holds in left.
Walking(s, q) ==
    /\ \A e \in page[s] : /\ e[2] <= clock
                          /\ e \in left[s] \/ mirror[q][e[1]] >= e[2]
    /\ left[s] \subseteq page[s]
    /\ \A i \in Items :
          \/ remote[q][i] = Absent
          \/ mirror[q][i] >= remote[q][i]
          \/ <<i, remote[q][i]>> \in left[s]
          \/ \A e \in page[s] : remote[q][i] >= e[2]

DatesInv == \A q \in Resources, i \in Items : remote[q][i] <= clock

CursorInv == \A q \in Issues : Vouches(q, cursor[q])

TickInv ==
    \A s \in Schedulers : Busy(s) =>
        /\ Vouches(current[s], loaded[s])
        /\ tpc[s] = "dispatching" => Walking(s, current[s])

CoverInv == DatesInv /\ CursorInv /\ TickInv

USE ReconcilerAssumption DEF Absent

-----------------------------------------------------------------------------
(* Lemmas about the operators *)

\* A page that is not cut short holds everything that is listed.
LEMMA PageIsComplete ==
    ASSUME ItemCount <= PageSize, NEW q, NEW since
    PROVE  FirstPage(q, since) = {<<i, remote[q][i]>> : i \in Listed(q,
       since)}
<1>1. ASSUME NEW i \in Listed(q, since)
      PROVE  Cardinality(NewerThan(i, q, since)) < PageSize
  <2> DEFINE later == NewerThan(i, q, since)
  <2>1. i \in 1..ItemCount /\ later \subseteq (i + 1)..ItemCount
    BY DEF Listed, Items, NewerThan
  <2>2. /\ IsFiniteSet((i + 1)..ItemCount)
        /\ Cardinality((i + 1)..ItemCount) < ItemCount
    <3>1. i \in Nat /\ i + 1 \in Int /\ ItemCount \in Int /\ i >= 1
      BY <2>1
    <3>2. IsFiniteSet((i + 1)..ItemCount)
      BY <3>1, FS_Interval
    <3>3. Cardinality((i + 1)..ItemCount) =
             IF i + 1 > ItemCount THEN 0 ELSE ItemCount - (i + 1) + 1
      BY <3>1, FS_Interval
    <3> QED
      BY <2>1, <3>1, <3>2, <3>3
  <2>3. IsFiniteSet(later) /\ Cardinality(later) <= Cardinality((i +
     1)..ItemCount)
    BY <2>1, <2>2, FS_Subset
  <2>4. Cardinality(later) \in Nat /\ Cardinality((i + 1)..ItemCount) \in Nat
    BY <2>2, <2>3, FS_CardinalityType
  <2> HIDE DEF later
  <2> QED
    BY <2>2, <2>3, <2>4 DEF later
<1> QED
  BY <1>1 DEF FirstPage

\* Pages hold items with their versions.
LEMMA PageTypes ==
    ASSUME TypeOK, NEW q \in Resources, NEW since
    PROVE  FirstPage(q, since) \in Pages
<1>1. \A i \in Items : remote[q][i] \in Nat
  BY DEF TypeOK
<1>2. Listed(q, since) \subseteq Items
  BY DEF Listed
<1>3. ASSUME NEW x \in FirstPage(q, since) PROVE x \in Items \X Nat
  <2>1. PICK i \in Listed(q, since) : x = <<i, remote[q][i]>>
    BY <1>3 DEF FirstPage
  <2> QED
    BY <1>1, <1>2, <2>1
<1> QED
  BY <1>3 DEF Pages

\* What an upsert of an issue leaves is at least what it was given and at
\* least what was there.
LEMMA UpsertIsMonotone ==
    ASSUME TypeOK, NEW s \in Schedulers, NEW e \in left[s],
           mirror' = [mirror EXCEPT ![current[s]][e[1]] =
                IF Overwrites(current[s], e[2], @) THEN e[2] ELSE @]
    PROVE  /\ e[1] \in Items /\ e[2] \in Nat
           /\ mirror' \in [Resources -> [Items -> Nat]]
           /\ \A q \in Issues, i \in Items : mirror'[q][i] >= mirror[q][i]
           /\ current[s] \in Issues => mirror'[current[s]][e[1]] >= e[2]
<1>1. e[1] \in Items /\ e[2] \in Nat /\ current[s] \in Resources
  BY DEF TypeOK, Pages
<1>2. mirror' \in [Resources -> [Items -> Nat]]
  BY <1>1 DEF TypeOK
<1>3. ASSUME NEW q \in Issues, NEW i \in Items
      PROVE  mirror'[q][i] >= mirror[q][i]
  <2>1. q \in Resources /\ mirror[q][i] \in Nat
    BY DEF Resources, TypeOK
  <2> QED
    BY <1>1, <2>1 DEF Overwrites, TypeOK
<1>4. current[s] \in Issues => mirror'[current[s]][e[1]] >= e[2]
  <2>1. mirror[current[s]][e[1]] \in Nat
    BY <1>1 DEF TypeOK
  <2> QED
    BY <1>1, <2>1 DEF Overwrites, TypeOK
<1> QED
  BY <1>1, <1>2, <1>3, <1>4

-----------------------------------------------------------------------------
(* Type correctness *)

\* The initial state has its types.
LEMMA ReconcilerTypeInit == Init => TypeOK
BY DEF Init, TypeOK, Items, NoCursor, Cursors, Pages

\* A tick between two resources holds no cursor and no page.
LEMMA EndFacts ==
    ASSUME TypeOK, NEW s \in Schedulers, EndResource(s)
    PROVE  /\ tpc' \in [Schedulers -> {"idle", "next", "checking", "sending",
                                       "touching", "dispatching"}]
           /\ loaded' \in [Schedulers -> Cursors]
           /\ page' \in [Schedulers -> Pages]
           /\ tpc'[s] = "next"
           /\ \A t \in Schedulers \ {s} :
                 UNCHANGED <<tpc[t], loaded[t], page[t]>>
<1>1. NoCursor \in Cursors /\ {} \in Pages
  BY DEF NoCursor, Cursors, Pages
<1> QED
  BY <1>1 DEF EndResource, TypeOK

\* Every step of a tick, a restart and GitHub keep them.
LEMMA ReconcilerTypeStep == TypeOK /\ [Next]_vars => TypeOK'
<1> SUFFICES ASSUME TypeOK, [Next]_vars PROVE TypeOK'
  OBVIOUS
<1> USE DEF TypeOK, githubVars, tickVars
<1>1. ASSUME NEW s \in Schedulers, TriggerTick(s) PROVE TypeOK'
  BY <1>1 DEF TriggerTick
<1>2. ASSUME NEW s \in Schedulers, FinishTick(s) PROVE TypeOK'
  BY <1>2 DEF FinishTick
<1>3. ASSUME NEW s \in Schedulers, LoadCursor(s) PROVE TypeOK'
  BY <1>3 DEF LoadCursor
<1>4. ASSUME NEW s \in Schedulers, CheckBudget(s) PROVE TypeOK'
  <2>1. CASE EndResource(s)
    BY <1>4, <2>1, EndFacts DEF CheckBudget
  <2>2. CASE ~EndResource(s)
    BY <1>4, <2>2 DEF CheckBudget
  <2> QED
    BY <2>1, <2>2
<1>5. ASSUME NEW s \in Schedulers, Send(s) PROVE TypeOK'
  <2>1. current[s] \in Resources
    OBVIOUS
  <2>2. FirstPage(current[s], loaded[s].since) \in Pages
    BY <2>1, PageTypes
  <2> DEFINE P == FirstPage(current[s], loaded[s].since)
  <2>3. CASE EndResource(s) /\ UNCHANGED left
    BY <1>5, <2>3, EndFacts DEF Send
  <2>4. CASE ~(EndResource(s) /\ UNCHANGED left)
    <3>1. /\ page' = page \/ page' = [page EXCEPT ![s] = P]
          /\ left' = left \/ left' = [left EXCEPT ![s] = P]
      BY <1>5, <2>4 DEF Send
    <3>2. page' \in [Schedulers -> Pages] /\ left' \in [Schedulers -> Pages]
      BY <2>2, <3>1
    <3>3. /\ UNCHANGED <<clock, remote, mirror, cursor, todo, current, loaded>>
          /\ requestsMade' = requestsMade + 1
          /\ \E p \in {"touching", "dispatching"} :
                tpc' = [tpc EXCEPT ![s] = p]
      BY <1>5, <2>4 DEF Send
    <3> QED
      BY <3>2, <3>3
  <2> QED
    BY <2>3, <2>4
<1>6. ASSUME NEW s \in Schedulers, TouchCursor(s) PROVE TypeOK'
  BY <1>6, EndFacts DEF TouchCursor
<1>7. ASSUME NEW s \in Schedulers, ApplyItem(s) PROVE TypeOK'
  <2>1. PICK e \in left[s] :
           /\ mirror' = [mirror EXCEPT ![current[s]][e[1]] =
                IF Overwrites(current[s], e[2], @) THEN e[2] ELSE @]
           /\ left' = [left EXCEPT ![s] = @ \ {e}]
    BY <1>7 DEF ApplyItem
  <2>2. mirror' \in [Resources -> [Items -> Nat]]
    BY <2>1, UpsertIsMonotone
  <2>3. left' \in [Schedulers -> Pages]
    BY <2>1 DEF Pages
  <2> QED
    BY <1>7, <2>2, <2>3 DEF ApplyItem
<1>8. ASSUME NEW s \in Schedulers, LoseItem(s) PROVE TypeOK'
  <2>1. left' \in [Schedulers -> Pages]
    BY <1>8 DEF LoseItem, Pages
  <2> QED
    BY <1>8, <2>1 DEF LoseItem
<1>9. ASSUME NEW s \in Schedulers, SaveCursor(s) PROVE TypeOK'
  <2>1. PICK t \in {loaded[s].since} \cup Dates(current[s], page[s]) :
           cursor' = [cursor EXCEPT ![current[s]] =
                        [since |-> t, etag |-> {page[s]}]]
    BY <1>9 DEF SaveCursor
  <2>2. t \in Nat /\ page[s] \in Pages
    BY <2>1 DEF Dates, Pages, Cursors
  <2>3. cursor' \in [Resources -> Cursors]
    BY <2>1, <2>2 DEF Cursors
  <2> QED
    BY <1>9, <2>3, EndFacts DEF SaveCursor
<1>10. ASSUME NEW q \in Resources, RemoteChange(q) PROVE TypeOK'
  <2>1. PICK i \in Items, now \in {clock, clock + 1} :
           /\ clock' = now
           /\ \E date \in (IF q \in Commits THEN 1..now ELSE {now}) :
                 remote' = [remote EXCEPT ![q][i] = date]
    BY <1>10 DEF RemoteChange
  <2>2. PICK date \in (IF q \in Commits THEN 1..now ELSE {now}) :
           remote' = [remote EXCEPT ![q][i] = date]
    BY <2>1
  <2>3. now \in Nat /\ date \in Nat
    BY <2>1
  <2>4. remote' \in [Resources -> [Items -> Nat]]
    BY <2>2, <2>3
  <2> QED
    BY <1>10, <2>1, <2>3, <2>4 DEF RemoteChange
<1>11. CASE Restart
  BY <1>11 DEF Restart, Pages, NoCursor, Cursors
<1>12. CASE UNCHANGED vars
  BY <1>12 DEF vars
<1>13. ASSUME NEW s \in Schedulers, GiveUp(s) PROVE TypeOK'
  BY <1>13, EndFacts DEF GiveUp
<1> QED
  BY <1>1, <1>2, <1>3, <1>4, <1>5, <1>6, <1>7, <1>8, <1>9, <1>10, <1>11,
     <1>12, <1>13 DEF Next, TickStep, DispatchItem

\* The variables of the polling path keep their types.
THEOREM ReconcilerTypes == Spec => []TypeOK
<1> QED
  BY ReconcilerTypeInit, ReconcilerTypeStep, PTL DEF Spec

-----------------------------------------------------------------------------
(* Monotonicity *)

\* One step of anything leaves every issue in its version or in a newer one.
LEMMA IssueStep ==
    TypeOK /\ [Next]_vars =>
        \A q \in Issues, i \in Items : mirror'[q][i] >= mirror[q][i]
<1> SUFFICES ASSUME TypeOK, [Next]_vars
             PROVE  \A q \in Issues, i \in Items :
                       mirror'[q][i] >= mirror[q][i]
  OBVIOUS
<1>1. CASE \E s \in Schedulers : ApplyItem(s)
  BY <1>1, UpsertIsMonotone DEF ApplyItem
<1>2. CASE UNCHANGED mirror
  BY <1>2 DEF TypeOK, Resources
<1> QED
  BY <1>1, <1>2 DEF Next, TickStep, TriggerTick, FinishTick, LoadCursor,
     CheckBudget, Send, TouchCursor, DispatchItem, LoseItem, SaveCursor, GiveUp,
     RemoteChange, Restart, vars

\* Overlapping ticks, losses and restarts never take an issue back.
THEOREM IssuesOnlyAdvance == Spec => IssuesNeverGoBack
<1> QED
  BY ReconcilerTypeInit, ReconcilerTypeStep, IssueStep, PTL
     DEF Spec, IssuesNeverGoBack

-----------------------------------------------------------------------------
(* Coverage *)

\* Nothing is vouched for when the system starts.
LEMMA CoverInit == Init => CoverInv
<1> SUFFICES ASSUME Init PROVE CoverInv
  OBVIOUS
<1>1. DatesInv
  BY DEF Init, DatesInv
<1>2. CursorInv
  BY DEF Init, CursorInv, Vouches, NoCursor, Resources
<1>3. TickInv
  BY DEF Init, TickInv, Busy
<1> QED
  BY <1>1, <1>2, <1>3 DEF CoverInv

\* What vouched before a step vouches after it, unless the step is a change at
\* GitHub that is not dated now.
LEMMA VouchesStep ==
    ASSUME TypeOK, CoverInv, NothingIsMissed, [Next]_vars,
           NEW q \in Issues, NEW c \in Cursors, Vouches(q, c)
    PROVE  Vouches(q, c)'
<1>1. \A i \in Items : /\ mirror'[q][i] >= mirror[q][i]
                       /\ mirror'[q][i] \in Nat /\ mirror[q][i] \in Nat
  BY IssueStep, ReconcilerTypeStep DEF TypeOK, Resources
<1>2. \A P \in c.etag : \A e \in P : e[1] \in Items /\ e[2] \in Nat
  BY DEF Cursors, Pages
<1>3. \A P \in c.etag : \A e \in P : mirror'[q][e[1]] >= e[2]
  BY <1>1, <1>2 DEF Vouches
<1>4. c.since \in Nat /\ c.since <= clock /\ clock \in Nat
  BY DEF Cursors, Vouches, TypeOK
<1>5. CASE UNCHANGED githubVars
  BY <1>1, <1>3, <1>4, <1>5 DEF Vouches, githubVars, TypeOK, Resources
<1>6. ASSUME NEW p \in Resources, RemoteChange(p)
      PROVE  Vouches(q, c)'
  <2>1. PICK i \in Items, now \in {clock, clock + 1} :
           /\ clock' = now
           /\ \E date \in (IF p \in Commits THEN 1..now ELSE {now}) :
                 remote' = [remote EXCEPT ![p][i] = date]
    BY <1>6 DEF RemoteChange
  <2>2. remote' = [remote EXCEPT ![p][i] = now] /\ now >= clock
    BY <2>1, <1>4 DEF NothingIsMissed
  <2>3. \A j \in Items :
           remote'[q][j] = remote[q][j] \/ remote'[q][j] >= c.since
    BY <2>1, <2>2, <1>4 DEF TypeOK, Resources
  <2>4. \A j \in Items : remote'[q][j] \in Nat
    BY ReconcilerTypeStep DEF TypeOK, Resources
  <2> QED
    BY <1>1, <1>3, <1>4, <2>1, <2>2, <2>3, <2>4 DEF Vouches, TypeOK, Resources
<1> QED
  BY <1>5, <1>6 DEF Next, TickStep, TriggerTick, FinishTick, LoadCursor,
     CheckBudget, Send, TouchCursor, DispatchItem, ApplyItem, LoseItem, SaveCursor,
     GiveUp, Restart, vars, githubVars

\* GitHub's dates never run ahead of its clock.
LEMMA DatesStep == TypeOK /\ DatesInv /\ [Next]_vars => DatesInv'
<1> SUFFICES ASSUME TypeOK, DatesInv, [Next]_vars PROVE DatesInv'
  OBVIOUS
<1>1. CASE UNCHANGED githubVars
  BY <1>1 DEF DatesInv, githubVars
<1>2. ASSUME NEW p \in Resources, RemoteChange(p) PROVE DatesInv'
  <2>1. PICK i \in Items, now \in {clock, clock + 1} :
           /\ clock' = now
           /\ \E date \in (IF p \in Commits THEN 1..now ELSE {now}) :
                 remote' = [remote EXCEPT ![p][i] = date]
    BY <1>2 DEF RemoteChange
  <2>2. PICK date \in (IF p \in Commits THEN 1..now ELSE {now}) :
           remote' = [remote EXCEPT ![p][i] = date]
    BY <2>1
  <2>3. now \in Nat /\ date \in Nat /\ date <= now /\ clock <= now
    BY <2>1 DEF TypeOK
  <2> QED
    BY <2>1, <2>2, <2>3 DEF DatesInv, TypeOK
<1> QED
  BY <1>1, <1>2 DEF Next, TickStep, TriggerTick, FinishTick, LoadCursor,
     CheckBudget, Send, TouchCursor, DispatchItem, ApplyItem, LoseItem, SaveCursor,
     GiveUp, Restart, vars, githubVars

\* The page a tick still walks stays accounted for while others move.
LEMMA WalkingStep ==
    ASSUME TypeOK, CoverInv, NothingIsMissed, [Next]_vars,
           NEW s \in Schedulers, NEW q \in Issues, Walking(s, q),
           page'[s] = page[s], left'[s] = left[s]
    PROVE  Walking(s, q)'
<1>1. \A i \in Items : /\ mirror'[q][i] >= mirror[q][i]
                       /\ mirror'[q][i] \in Nat /\ mirror[q][i] \in Nat
                       /\ remote'[q][i] \in Nat /\ remote[q][i] \in Nat
  BY IssueStep, ReconcilerTypeStep DEF TypeOK, Resources
<1>2. \A e \in page[s] : e[1] \in Items /\ e[2] \in Nat
  BY DEF TypeOK, Pages
<1>3. clock \in Nat /\ clock' \in Nat
  BY ReconcilerTypeStep DEF TypeOK
<1>4. \A e \in page[s] :
         e[2] <= clock /\ (e \in left[s] \/ mirror'[q][e[1]] >= e[2])
  BY <1>1, <1>2 DEF Walking
<1>5. CASE UNCHANGED githubVars
  <2>1. ASSUME NEW i \in Items
        PROVE  \/ remote[q][i] = Absent
               \/ mirror'[q][i] >= remote[q][i]
               \/ <<i, remote[q][i]>> \in left[s]
               \/ \A e \in page[s] : remote[q][i] >= e[2]
    BY <1>1 DEF Walking
  <2> QED
    BY <1>4, <1>5, <2>1 DEF Walking, githubVars
<1>6. ASSUME NEW p \in Resources, RemoteChange(p)
      PROVE  Walking(s, q)'
  <2>1. PICK i \in Items, now \in {clock, clock + 1} :
           /\ clock' = now
           /\ \E date \in (IF p \in Commits THEN 1..now ELSE {now}) :
                 remote' = [remote EXCEPT ![p][i] = date]
    BY <1>6 DEF RemoteChange
  <2>2. remote' = [remote EXCEPT ![p][i] = now] /\ now >= clock
    BY <2>1, <1>3 DEF NothingIsMissed
  <2>3. \A j \in Items : remote'[q][j] = remote[q][j] \/ remote'[q][j] = now
    BY <2>2 DEF TypeOK, Resources
  <2>4. ASSUME NEW j \in Items
        PROVE  \/ remote'[q][j] = Absent
               \/ mirror'[q][j] >= remote'[q][j]
               \/ <<j, remote'[q][j]>> \in left[s]
               \/ \A e \in page[s] : remote'[q][j] >= e[2]
    <3>1. CASE remote'[q][j] = remote[q][j]
      BY <1>1, <3>1 DEF Walking
    <3>2. CASE remote'[q][j] = now
      BY <1>2, <1>3, <1>4, <2>1, <2>2, <3>2
    <3> QED
      BY <2>3, <3>1, <3>2
  <2>5. \A e \in page[s] : e[2] <= clock'
    BY <1>2, <1>3, <1>4, <2>1, <2>2
  <2> QED
    BY <1>4, <2>4, <2>5 DEF Walking
<1> QED
  BY <1>5, <1>6 DEF Next, TickStep, TriggerTick, FinishTick, LoadCursor,
     CheckBudget, Send, TouchCursor, DispatchItem, ApplyItem, LoseItem, SaveCursor,
     GiveUp, Restart, vars, githubVars

\* Whoever stores a cursor stores one that vouches for what it skips.
LEMMA CursorStep ==
    TypeOK /\ CoverInv /\ NothingIsMissed /\ [Next]_vars => CursorInv'
<1> SUFFICES ASSUME TypeOK, CoverInv, NothingIsMissed, [Next]_vars,
                    NEW q \in Issues
             PROVE  Vouches(q, cursor[q])'
  BY DEF CursorInv
<1> q \in Resources
  BY DEF Resources
<1>1. CASE cursor'[q] = cursor[q]
  <2>1. cursor[q] \in Cursors /\ Vouches(q, cursor[q])
    BY DEF TypeOK, CoverInv, CursorInv
  <2> QED
    BY <1>1, <2>1, VouchesStep DEF Vouches
<1>2. ASSUME NEW s \in Schedulers, TouchCursor(s), current[s] = q
      PROVE  Vouches(q, cursor[q])'
  <2>1. loaded[s] \in Cursors /\ Vouches(q, loaded[s])
    BY <1>2 DEF TypeOK, CoverInv, TickInv, Busy, TouchCursor
  <2>2. cursor'[q] = loaded[s]
    BY <1>2 DEF TouchCursor, TypeOK
  <2> QED
    BY <2>1, <2>2, VouchesStep DEF Vouches
<1>3. ASSUME NEW s \in Schedulers, SaveCursor(s), current[s] = q
      PROVE  Vouches(q, cursor[q])'
  <2> DEFINE dates == Dates(q, page[s])
             old == loaded[s].since
  <2>1. PICK t \in {old} \cup dates :
           /\ IsAdvancedSince(t, old, dates)
           /\ cursor' = [cursor EXCEPT ![q] =
                            [since |-> t, etag |-> {page[s]}]]
    BY <1>3 DEF SaveCursor
  <2>2. Vouches(q, loaded[s]) /\ Walking(s, q) /\ left[s] = {}
    BY <1>3 DEF CoverInv, TickInv, Busy, SaveCursor
  <2>3. dates = {e[2] : e \in page[s]}
    BY ReconcilerAssumption DEF Dates
  <2>4. /\ \A e \in page[s] : e[1] \in Items /\ e[2] \in Nat
        /\ old \in Nat /\ clock \in Nat /\ t \in Nat
    BY <2>3 DEF TypeOK, Pages, Cursors
  <2>5. t <= clock
    BY <2>2, <2>3, <2>4 DEF Vouches, Walking
  <2>6. \A e \in page[s] : mirror[q][e[1]] >= e[2]
    BY <2>2 DEF Walking
  <2>7. ASSUME NEW i \in Items, remote[q][i] # Absent, remote[q][i] < t
        PROVE  mirror[q][i] >= remote[q][i]
    <3>1. CASE t = old
      BY <2>2, <2>7, <3>1 DEF Vouches
    <3>2. ASSUME NEW e \in page[s], t = e[2]
          PROVE  mirror[q][i] >= remote[q][i]
      BY <2>2, <2>4, <2>7, <3>2 DEF Walking, TypeOK
    <3> QED
      BY <2>3, <3>1, <3>2
  <2>8. cursor'[q] = [since |-> t, etag |-> {page[s]}]
    BY <2>1 DEF TypeOK
  <2>9. UNCHANGED <<clock, remote, mirror>>
    BY <1>3 DEF SaveCursor, githubVars
  <2> QED
    BY <2>5, <2>6, <2>7, <2>8, <2>9 DEF Vouches
<1> QED
  BY <1>1, <1>2, <1>3 DEF Next, TickStep, TriggerTick, FinishTick, LoadCursor,
     CheckBudget, Send, TouchCursor, DispatchItem, ApplyItem, LoseItem, SaveCursor,
     GiveUp, RemoteChange, Restart, vars, TypeOK

\* Every tick goes on with a cursor that vouches and a page it accounts for.
LEMMA TickInvStep ==
    TypeOK /\ CoverInv /\ NothingIsMissed /\ [Next]_vars => TickInv'
<1> SUFFICES ASSUME TypeOK, CoverInv, NothingIsMissed, [Next]_vars,
                    NEW s \in Schedulers, Busy(s)'
             PROVE  /\ Vouches(current[s], loaded[s])'
                    /\ tpc'[s] = "dispatching" => Walking(s, current[s])'
  BY DEF TickInv
<1> DEFINE q == current[s]
<1>1. ASSUME UNCHANGED <<current[s], loaded[s]>>, Busy(s)
      PROVE  Vouches(current[s], loaded[s])'
  <2>1. loaded[s] \in Cursors /\ Vouches(q, loaded[s]) /\ q \in Issues
    BY <1>1 DEF TypeOK, CoverInv, TickInv, Busy
  <2> QED
    BY <1>1, <2>1, VouchesStep DEF Vouches
<1>2. ASSUME UNCHANGED <<current[s], page[s], left[s]>>,
             Busy(s), tpc[s] = "dispatching"
      PROVE  Walking(s, current[s])'
  <2>1. Walking(s, q) /\ q \in Issues
    BY <1>2 DEF CoverInv, TickInv, Busy
  <2> QED
    BY <1>2, <2>1, WalkingStep DEF Walking
<1>3. CASE UNCHANGED <<tpc[s], current[s], loaded[s], page[s], left[s]>>
  BY <1>1, <1>2, <1>3 DEF Busy
<1>4. CASE LoadCursor(s)
  <2>1. PICK p \in todo[s] : current'[s] = p /\ loaded'[s] = cursor[p]
    BY <1>4 DEF LoadCursor, TypeOK
  <2>2. p \in Issues /\ Vouches(p, cursor[p]) /\ tpc'[s] = "checking"
    BY <1>4, <2>1 DEF LoadCursor, TypeOK, Busy, CoverInv, CursorInv
  <2>3. UNCHANGED <<clock, remote, mirror>>
    BY <1>4 DEF LoadCursor, githubVars
  <2> QED
    BY <2>1, <2>2, <2>3 DEF Vouches
<1>5. CASE CheckBudget(s)
  BY <1>1, <1>5, EndFacts DEF CheckBudget, Busy, TypeOK
<1>6. CASE Send(s)
  <2> DEFINE P == FirstPage(q, loaded[s].since)
  <2>1. /\ UNCHANGED <<clock, remote, mirror, current, loaded>>
        /\ Busy(s) /\ q \in Issues /\ q \in Resources
    BY <1>6, EndFacts DEF Send, Busy, githubVars, Resources, CoverInv
  <2>2. Vouches(q, loaded[s])
    BY <2>1 DEF CoverInv, TickInv
  <2>3. ASSUME tpc'[s] = "dispatching" PROVE Walking(s, q)'
    <3>1. page'[s] = P /\ left'[s] = P
      BY <1>6, <2>3, EndFacts DEF Send, TypeOK
    <3>2. P = {<<i, remote[q][i]>> : i \in Listed(q, loaded[s].since)}
      BY PageIsComplete DEF NothingIsMissed
    <3>3. \A e \in P : e[2] <= clock
      BY <2>1, <3>2 DEF CoverInv, DatesInv, Listed
    <3>4. ASSUME NEW i \in Items, remote[q][i] # Absent,
                 <<i, remote[q][i]>> \notin P
          PROVE  mirror[q][i] >= remote[q][i]
      <4>1. remote[q][i] < loaded[s].since
        BY <2>1, <3>2, <3>4 DEF Listed, TypeOK, Cursors
      <4> QED
        BY <2>2, <3>4, <4>1 DEF Vouches
    <3> HIDE DEF P
    <3> QED
      BY <2>1, <3>1, <3>3, <3>4 DEF Walking
  <2> QED
    BY <1>1, <2>1, <2>3 DEF Walking
<1>7. CASE tpc[s] = "dispatching" /\ ApplyItem(s)
  <2>1. PICK e \in left[s] :
           /\ mirror' = [mirror EXCEPT ![current[s]][e[1]] =
                IF Overwrites(current[s], e[2], @) THEN e[2] ELSE @]
           /\ left' = [left EXCEPT ![s] = @ \ {e}]
    BY <1>7 DEF ApplyItem
  <2>2. /\ UNCHANGED <<clock, remote, tpc, current, loaded, page>>
        /\ tpc[s] = "dispatching"
    BY <1>7 DEF ApplyItem, githubVars
  <2>3. Busy(s) /\ q \in Issues /\ q \in Resources /\ Walking(s, q)
    BY <2>2 DEF Busy, CoverInv, TickInv, Resources
  <2>4. /\ \A i \in Items : mirror'[q][i] >= mirror[q][i]
        /\ e[1] \in Items /\ e[2] \in Nat /\ mirror'[q][e[1]] >= e[2]
        /\ \A i \in Items : mirror'[q][i] \in Nat
    <3>1. /\ e[1] \in Items /\ e[2] \in Nat
          /\ mirror' \in [Resources -> [Items -> Nat]]
          /\ \A p \in Issues, i \in Items : mirror'[p][i] >= mirror[p][i]
          /\ q \in Issues => mirror'[q][e[1]] >= e[2]
      BY <2>1, UpsertIsMonotone
    <3> QED
      BY <2>3, <3>1
  <2>5. left'[s] = left[s] \ {e}
    BY <2>1 DEF TypeOK
  <2>6. \A f \in page[s] : f[1] \in Items /\ f[2] \in Nat
    BY DEF TypeOK, Pages
  <2>7. \A f \in page[s] : f[2] <= clock /\ (f \in left'[s] \/
     mirror'[q][f[1]] >= f[2])
    BY <2>3, <2>4, <2>5, <2>6 DEF Walking, TypeOK
  <2>8. ASSUME NEW i \in Items
        PROVE  \/ remote[q][i] = Absent
               \/ mirror'[q][i] >= remote[q][i]
               \/ <<i, remote[q][i]>> \in left'[s]
               \/ \A f \in page[s] : remote[q][i] >= f[2]
    <3>1. CASE <<i, remote[q][i]>> = e
      <4>1. e[1] = i /\ e[2] = remote[q][i]
        BY <3>1
      <4>2. mirror'[q][e[1]] >= e[2]
        BY <2>4
      <4> QED
        BY <4>1, <4>2
    <3>2. CASE <<i, remote[q][i]>> # e
      <4>1. /\ mirror'[q][i] \in Nat /\ mirror[q][i] \in Nat
            /\ remote[q][i] \in Nat /\ mirror'[q][i] >= mirror[q][i]
        BY <2>3, <2>4 DEF TypeOK
      <4> QED
        BY <2>3, <2>5, <3>2, <4>1 DEF Walking
    <3> QED
      BY <3>1, <3>2
  <2>9. Walking(s, q)'
    BY <2>2, <2>3, <2>5, <2>7, <2>8 DEF Walking
  <2> QED
    BY <1>1, <2>2, <2>3, <2>9
<1> QED
  <2>1. ASSUME NEW t \in Schedulers, TriggerTick(t) \/ FinishTick(t)
        PROVE  UNCHANGED <<tpc[s], current[s], loaded[s], page[s], left[s]>>
    BY <2>1 DEF TriggerTick, FinishTick, TypeOK, Busy
  <2>2. ASSUME NEW t \in Schedulers, t # s, TickStep(t)
        PROVE  UNCHANGED <<tpc[s], current[s], loaded[s], page[s], left[s]>>
    BY <2>2, EndFacts DEF TickStep, FinishTick, LoadCursor, CheckBudget,
       Send, TouchCursor, DispatchItem, ApplyItem, LoseItem, SaveCursor, GiveUp,
       TypeOK
  <2>3. ASSUME TouchCursor(s) \/ SaveCursor(s) \/ LoseItem(s) \/ GiveUp(s)
        PROVE  FALSE
    BY <2>3, EndFacts DEF TouchCursor, SaveCursor, LoseItem, GiveUp, Busy,
       TypeOK, NothingIsMissed
  <2>4. CASE \/ \E p \in Resources : RemoteChange(p)
             \/ UNCHANGED vars
    BY <1>3, <2>4 DEF RemoteChange, vars, tickVars
  <2>5. CASE Restart
    BY <2>5 DEF Restart, Busy, TypeOK
  <2> QED
    BY <1>3, <1>4, <1>5, <1>6, <1>7, <2>1, <2>2, <2>3, <2>4, <2>5
       DEF Next, TickStep, DispatchItem

\* Cursors and ticks keep vouching for what they make the walk skip.
LEMMA CoverStep ==
    TypeOK /\ CoverInv /\ NothingIsMissed /\ [Next]_vars => CoverInv'
BY DatesStep, CursorStep, TickInvStep DEF CoverInv

\* As long as nothing is missed, since and ETag of every issue cursor vouch for
\* what they make GitHub leave out, however many ticks overlap and wherever
\* they are cut off.
THEOREM CursorsVouch ==
    ASSUME NothingIsMissed PROVE Spec => []CursorIsCovered
<1>1. CoverInv => CursorIsCovered
  BY DEF CoverInv, CursorInv, Vouches, CursorIsCovered, SinceIsCovered,
     EtagIsCovered, NothingIsMissed
<1>2. TypeOK /\ CoverInv /\ [Next]_vars => CoverInv'
  BY CoverStep
<1> QED
  BY <1>1, <1>2, ReconcilerTypeInit, ReconcilerTypeStep, CoverInit, PTL
     DEF Spec

-----------------------------------------------------------------------------
(* The importers: the invariants *)

RestingChunk == [at : {"idle", "next"}, todo : SUBSET Resources]

ActiveChunk ==
    [at : {"sending", "touching", "dispatching"}, todo : SUBSET Resources,
     of : Resources, loaded : Cursors, since : Nat, page : Pages, left : Pages]

ActivePager ==
    [at : {"asking", "storing"}, of : Issues, max : MaxPages, number : Nat \ {0},
     left : Pages, short : BOOLEAN, due : Pages]

FinishedPager == [at : {"finished"}, of : Issues, due : Pages]

ChunkTypes == RestingChunk \cup ActiveChunk
PagerTypes == {NotPaged} \cup ActivePager \cup FinishedPager

BackfillTypes == TypeOK /\ chunk \in ChunkTypes /\ pager \in PagerTypes

Kept == Issues \ Lossy

\* A since makes GitHub leave out nothing of the window that is not stored.  It may
\* be in the future, but only up to the window's start.
Covers(q, since) ==
    /\ since <= clock \/ since <= WindowStart
    /\ \A i \in Items :
          remote[q][i] # Absent /\ remote[q][i] >= WindowStart /\ remote[q][i] < since
              => mirror[q][i] >= remote[q][i]

\* Every page that an ETag stands for is stored.
Stored(q, etag) == \A P \in etag : \A e \in P : mirror[q][e[1]] >= e[2]

CursorCovers(q, c) == Covers(q, c.since) /\ Stored(q, c.etag)

\* Of a page that is walked, L is what has still to be stored.
Accounted(q, P, L) ==
    /\ \A e \in P : e[2] <= clock /\ (e \in L \/ mirror[q][e[1]] >= e[2])
    /\ L \subseteq P
    /\ \A i \in Items :
          \/ remote[q][i] = Absent \/ remote[q][i] < WindowStart
          \/ mirror[q][i] >= remote[q][i]
          \/ <<i, remote[q][i]>> \in L
          \/ \A e \in P : remote[q][i] >= e[2]

RowsCover == \A q \in Kept : CursorCovers(q, cursor[q])

TicksCover ==
    \A s \in Schedulers :
        tpc[s] \notin {"idle", "next"} /\ current[s] \in Kept =>
            /\ CursorCovers(current[s], loaded[s])
            /\ tpc[s] = "dispatching" => Accounted(current[s], page[s], left[s])

ChunkCovers ==
    chunk.at \notin {"idle", "next"} /\ chunk.of \in Kept =>
        /\ CursorCovers(chunk.of, chunk.loaded)
        /\ chunk.since = EffectiveSince(chunk.loaded.since)
        /\ chunk.at = "dispatching" => Accounted(chunk.of, chunk.page, chunk.left)

WindowInv == DatesInv /\ RowsCover /\ TicksCover /\ ChunkCovers

\* What is due is stored, or on the page in hand, or not yet reached by the page
\* numbers.
InSight(p, e) ==
    \/ mirror[p.of][e[1]] >= e[2]
    \/ p.at = "asking" /\ (p.number - 1) * ListSize <= Position(p.of, e)
    \/ p.at = "storing" /\ e \in p.left
    \/ p.at = "storing" /\ ~p.short /\ p.number * ListSize <= Position(p.of, e)

\* Whatever was there at the start is no older now; what has not changed since is
\* in sight.
Paged(p) ==
    p.at # "idle" /\ p.of \in Kept =>
        /\ \A e \in p.due : remote[p.of][e[1]] >= e[2]
        /\ \A e \in p.due \cap Known(p.of) : InSight(p, e)

PagingInv == DatesInv /\ Paged(pager)

USE ReconcilerAssumption, BackfillAssumption DEF Absent

-----------------------------------------------------------------------------
(* Types, and what the steps have in common *)

\* A write of one version keeps the types and takes no issue back.
LEMMA WriteIsMonotone ==
    ASSUME TypeOK, NEW q \in Resources, NEW i \in Items, NEW v \in Nat,
           mirror' = [mirror EXCEPT ![q][i] = IF Overwrites(q, v, @) THEN v ELSE @]
    PROVE  /\ mirror' \in [Resources -> [Items -> Nat]]
           /\ \A p \in Issues, j \in Items : mirror'[p][j] >= mirror[p][j]
<1>1. mirror' \in [Resources -> [Items -> Nat]]
  BY DEF TypeOK
<1>2. ASSUME NEW p \in Issues, NEW j \in Items
      PROVE  mirror'[p][j] >= mirror[p][j]
  <2>1. p \in Resources /\ mirror[p][j] \in Nat
    BY DEF Resources, TypeOK
  <2> QED
    BY <2>1 DEF Overwrites, TypeOK
<1> QED
  BY <1>1, <1>2

\* An issue is then at least in the version that was given.
LEMMA UpsertOfIssue ==
    ASSUME TypeOK, NEW q \in Issues, NEW i \in Items, NEW v \in Nat,
           mirror' = [mirror EXCEPT ![q][i] = IF Overwrites(q, v, @) THEN v ELSE @]
    PROVE  mirror'[q][i] >= v
<1>1. q \in Resources /\ mirror[q][i] \in Nat
  BY DEF Resources, TypeOK
<1> QED
  BY <1>1 DEF Overwrites, TypeOK

\* A chunk that has asked, or is about to, has all of its fields.
LEMMA ChunkFields ==
    ASSUME BackfillTypes, chunk.at \notin {"idle", "next"}
    PROVE  chunk \in ActiveChunk
BY DEF BackfillTypes, ChunkTypes, RestingChunk

\* So has the command while it pages.
LEMMA PagerFields ==
    ASSUME BackfillTypes, pager.at \in {"asking", "storing"}
    PROVE  pager \in ActivePager
BY DEF BackfillTypes, PagerTypes, FinishedPager, NotPaged

\* Chunks keep their types.
LEMMA ChunkTypeStep ==
    ASSUME BackfillTypes, ChunkStep
    PROVE  BackfillTypes'
<1> USE DEF githubVars, tickVars, vars
<1>1. TypeOK /\ chunk.todo \in SUBSET Resources
  BY DEF BackfillTypes, ChunkTypes, RestingChunk, ActiveChunk
<1>2. ASSUME UNCHANGED vars PROVE TypeOK'
  BY <1>1, <1>2 DEF TypeOK
<1>3. ASSUME chunk' = [at |-> "next", todo |-> chunk.todo] PROVE chunk' \in ChunkTypes
  BY <1>1, <1>3 DEF ChunkTypes, RestingChunk
<1>4. ASSUME NEW c \in Cursors, NEW q \in Resources, cursor' = [cursor EXCEPT ![q] = c],
             UNCHANGED <<githubVars, mirror, requestsMade, tickVars>>
      PROVE  TypeOK'
  BY <1>1, <1>4 DEF TypeOK
<1>5. CASE StartBackfill \/ EndBackfill \/ Crash
  <2>1. chunk' \in ChunkTypes
    BY <1>5 DEF StartBackfill, EndBackfill, Crash, Idle, ChunkTypes, RestingChunk
  <2>2. UNCHANGED vars /\ UNCHANGED pager
    BY <1>5 DEF StartBackfill, EndBackfill, Crash
  <2> QED
    BY <1>2, <2>1, <2>2 DEF BackfillTypes
<1>6. CASE LoadChunk
  <2>1. PICK q \in chunk.todo :
           \/ chunk' = [at |-> "next", todo |-> chunk.todo \ {q}]
           \/ chunk' = [at |-> "sending", todo |-> chunk.todo \ {q}, of |-> q,
                        loaded |-> cursor[q], since |-> EffectiveSince(cursor[q].since),
                        page |-> {}, left |-> {}]
    BY <1>6 DEF LoadChunk
  <2>2. q \in Resources /\ cursor[q] \in Cursors /\ {} \in Pages
    BY <1>1 DEF TypeOK, Pages
  <2>3. EffectiveSince(cursor[q].since) \in Nat
    BY <2>2 DEF EffectiveSince, Cursors
  <2>4. chunk' \in RestingChunk \/ chunk' \in ActiveChunk
    <3>1. CASE chunk' = [at |-> "next", todo |-> chunk.todo \ {q}]
      BY <1>1, <3>1 DEF RestingChunk
    <3>2. CASE chunk' # [at |-> "next", todo |-> chunk.todo \ {q}]
      <4>1. chunk.todo \ {q} \in SUBSET Resources
        BY <1>1
      <4>2. ASSUME NEW T \in SUBSET Resources, NEW c \in Cursors, NEW t \in Nat,
                   chunk' = [at |-> "sending", todo |-> T, of |-> q, loaded |-> c,
                             since |-> t, page |-> {}, left |-> {}]
            PROVE  chunk' \in ActiveChunk
        BY <2>2, <4>2 DEF ActiveChunk
      <4> QED
        BY <2>1, <2>2, <2>3, <3>2, <4>1, <4>2
    <3> QED
      BY <3>1, <3>2
  <2> QED
    BY <1>2, <1>6, <2>4 DEF BackfillTypes, ChunkTypes, LoadChunk
<1>7. CASE SendChunk
  <2> DEFINE P == FirstPage(chunk.of, chunk.since)
  <2>1. chunk \in ActiveChunk
    BY <1>7, ChunkFields DEF SendChunk
  <2>2. P \in Pages
    BY <1>1, <2>1, PageTypes DEF ActiveChunk
  <2>3. \/ chunk' = [chunk EXCEPT !.at = "touching"]
        \/ chunk' = [chunk EXCEPT !.at = "dispatching", !.page = P, !.left = P]
        \/ chunk' = [at |-> "next", todo |-> chunk.todo]
    BY <1>7 DEF SendChunk, NextChunk
  <2> HIDE DEF P
  <2>4. chunk' \in RestingChunk \/ chunk' \in ActiveChunk
    <3>1. CASE chunk' = [at |-> "next", todo |-> chunk.todo]
      BY <1>1, <3>1 DEF RestingChunk
    <3>2. CASE chunk' # [at |-> "next", todo |-> chunk.todo]
      BY <2>1, <2>2, <2>3, <3>2 DEF ActiveChunk
    <3> QED
      BY <3>1, <3>2
  <2> QED
    BY <1>2, <1>7, <2>4 DEF BackfillTypes, ChunkTypes, SendChunk
<1>8. CASE TouchChunk
  <2> DEFINE c == [chunk.loaded EXCEPT !.since = IF @ = 0 THEN chunk.since ELSE @]
  <2>1. chunk.of \in Resources /\ chunk.loaded \in Cursors /\ chunk.since \in Nat
    BY <1>8, ChunkFields DEF TouchChunk, ActiveChunk
  <2>2. c \in Cursors
    BY <2>1 DEF Cursors
  <2>3. cursor' = [cursor EXCEPT ![chunk.of] = c]
    BY <1>8 DEF TouchChunk
  <2> HIDE DEF c
  <2> QED
    BY <1>3, <1>4, <1>8, <2>1, <2>2, <2>3 DEF BackfillTypes, TouchChunk, NextChunk
<1>9. CASE DispatchChunk
  <2>1. chunk \in ActiveChunk
    BY <1>9, ChunkFields DEF DispatchChunk, ActiveChunk
  <2>2. PICK e \in chunk.left :
           /\ mirror' = [mirror EXCEPT ![chunk.of][e[1]] =
                           IF Overwrites(chunk.of, e[2], @) THEN e[2] ELSE @]
           /\ chunk' = [chunk EXCEPT !.left = @ \ {e}]
    BY <1>9 DEF DispatchChunk
  <2>3. e[1] \in Items /\ e[2] \in Nat /\ chunk.left \ {e} \in Pages
    BY <2>1 DEF Pages, ActiveChunk
  <2>4. mirror' \in [Resources -> [Items -> Nat]]
    BY <1>1, <2>1, <2>2, <2>3, WriteIsMonotone DEF ActiveChunk
  <2>5. chunk' \in ChunkTypes
    BY <2>1, <2>2, <2>3 DEF ChunkTypes, ActiveChunk
  <2>6. TypeOK'
    BY <1>1, <1>9, <2>4 DEF TypeOK, DispatchChunk
  <2> QED
    BY <1>9, <2>5, <2>6 DEF BackfillTypes, DispatchChunk
<1>10. CASE LoseChunkItem
  <2>1. chunk \in ActiveChunk
    BY <1>10, ChunkFields DEF LoseChunkItem, ActiveChunk
  <2>2. PICK L \in SUBSET chunk.left : chunk' = [chunk EXCEPT !.left = L]
    BY <1>10 DEF LoseChunkItem
  <2>3. L \in Pages
    BY <2>1, <2>2 DEF Pages, ActiveChunk
  <2>4. chunk' \in ChunkTypes
    BY <2>1, <2>2, <2>3 DEF ChunkTypes, ActiveChunk
  <2> QED
    BY <1>2, <1>10, <2>4 DEF BackfillTypes, LoseChunkItem
<1>11. CASE SaveChunk
  <2>1. chunk \in ActiveChunk
    BY <1>11, ChunkFields DEF SaveChunk, ActiveChunk
  <2>2. PICK t \in {chunk.since} \cup {chunk.loaded.since} \cup Dates(chunk.of, chunk.page) :
           cursor' = [cursor EXCEPT ![chunk.of] = [since |-> t, etag |-> {chunk.page}]]
    BY <1>11 DEF SaveChunk
  <2>3. t \in Nat
    BY <2>1, <2>2 DEF Dates, Pages, Cursors, ActiveChunk
  <2>4. [since |-> t, etag |-> {chunk.page}] \in Cursors /\ chunk.of \in Resources
    BY <2>1, <2>3 DEF Cursors, ActiveChunk
  <2>5. TypeOK'
    BY <1>4, <1>11, <2>2, <2>4 DEF SaveChunk
  <2> QED
    BY <1>3, <1>11, <2>5 DEF BackfillTypes, SaveChunk, NextChunk
<1>12. CASE FailChunk
  BY <1>2, <1>3, <1>12 DEF BackfillTypes, FailChunk, NextChunk
<1> QED
  BY <1>5, <1>6, <1>7, <1>8, <1>9, <1>10, <1>11, <1>12 DEF ChunkStep

\* Known issues are items with their dates.
LEMMA KnownTypes ==
    ASSUME TypeOK, NEW q \in Resources
    PROVE  Known(q) \in Pages
BY DEF TypeOK, Known, Pages

\* A row of the page in hand is done with.
LEMMA RowDoneTypes ==
    ASSUME BackfillTypes, pager.at = "storing", NEW e \in pager.left, RowDone(e)
    PROVE  /\ pager' \in PagerTypes
           /\ pager.of \in Issues /\ e[1] \in Items /\ e[2] \in Nat
<1>1. pager \in ActivePager
  BY PagerFields
<1>2. pager.of \in Issues /\ e[1] \in Items /\ e[2] \in Nat
  BY <1>1 DEF ActivePager, Pages
<1>3. pager.left \ {e} \in Pages /\ {} \in Pages /\ pager.number + 1 \in Nat \ {0}
  BY <1>1 DEF ActivePager, Pages
<1>4. ASSUME pager' = Finished PROVE pager' \in PagerTypes
  BY <1>1, <1>4 DEF ActivePager, FinishedPager, PagerTypes, Finished
<1>5. ASSUME pager' = [pager EXCEPT !.left = @ \ {e}]
      PROVE  pager' \in PagerTypes
  BY <1>1, <1>3, <1>5 DEF ActivePager, PagerTypes
<1>6. ASSUME pager' = [pager EXCEPT !.at = "asking", !.left = {}, !.number = @ + 1]
      PROVE  pager' \in PagerTypes
  BY <1>1, <1>3, <1>6 DEF ActivePager, PagerTypes
<1> QED
  BY <1>2, <1>4, <1>5, <1>6 DEF RowDone

\* The command keeps its types.
LEMMA PagerTypeStep ==
    ASSUME BackfillTypes, PagerStep
    PROVE  BackfillTypes'
<1> USE DEF githubVars, tickVars, vars
<1>1. TypeOK /\ chunk \in ChunkTypes
  BY DEF BackfillTypes
<1>2. ASSUME UNCHANGED vars PROVE TypeOK'
  BY <1>1, <1>2 DEF TypeOK
<1>3. CASE StartPaging
  <2>1. PICK q \in Issues, max \in MaxPages :
           pager' = [at |-> "asking", of |-> q, max |-> max, number |-> 1, left |-> {},
                     short |-> FALSE, due |-> Known(q)]
    BY <1>3 DEF StartPaging
  <2>2. Known(q) \in Pages /\ {} \in Pages
    BY <1>1, KnownTypes DEF Resources, Pages
  <2>3. pager' \in ActivePager
    BY <2>1, <2>2 DEF ActivePager
  <2> QED
    BY <1>1, <1>2, <1>3, <2>3 DEF BackfillTypes, PagerTypes, StartPaging
<1>4. CASE AskPage
  <2> DEFINE P == ListedPage(pager.of, pager.number)
             short == Cardinality(P) < ListSize
  <2>1. pager \in ActivePager
    BY <1>4, PagerFields DEF AskPage
  <2>2. P \in Pages
    <3>1. Known(pager.of) \in Pages
      BY <1>1, <2>1, KnownTypes DEF ActivePager, Resources
    <3> QED
      BY <3>1 DEF ListedPage, Pages
  <2>3. \/ pager' = NotPaged \/ pager' = Finished
        \/ pager' = [pager EXCEPT !.at = "storing", !.left = P, !.short = short]
    BY <1>4 DEF AskPage
  <2>4. short \in BOOLEAN
    OBVIOUS
  <2> HIDE DEF P, short
  <2>5. ASSUME pager' = [pager EXCEPT !.at = "storing", !.left = P, !.short = short]
        PROVE  pager' \in PagerTypes
    BY <2>1, <2>2, <2>4, <2>5 DEF ActivePager, PagerTypes
  <2>6. ASSUME pager' = Finished PROVE pager' \in PagerTypes
    BY <2>1, <2>6 DEF ActivePager, FinishedPager, PagerTypes, Finished
  <2>7. ASSUME pager' = NotPaged PROVE pager' \in PagerTypes
    BY <2>7 DEF PagerTypes
  <2> QED
    BY <1>1, <1>2, <1>4, <2>3, <2>5, <2>6, <2>7 DEF BackfillTypes, AskPage
<1>5. CASE StoreIssue
  <2>1. PICK e \in pager.left :
           /\ RowDone(e)
           /\ mirror' = [mirror EXCEPT ![pager.of][e[1]] =
                           IF Overwrites(pager.of, e[2], @) THEN e[2] ELSE @]
    BY <1>5 DEF StoreIssue
  <2>2. pager' \in PagerTypes /\ pager.of \in Resources /\ e[1] \in Items /\ e[2] \in Nat
    BY <1>5, <2>1, RowDoneTypes DEF StoreIssue, Resources
  <2>3. mirror' \in [Resources -> [Items -> Nat]]
    BY <1>1, <2>1, <2>2, WriteIsMonotone
  <2>4. TypeOK'
    BY <1>1, <1>5, <2>3 DEF TypeOK, StoreIssue
  <2> QED
    BY <1>1, <1>5, <2>2, <2>4 DEF BackfillTypes, StoreIssue
<1>6. CASE SkipIssue
  <2>1. pager' \in PagerTypes
    BY <1>6, RowDoneTypes DEF SkipIssue
  <2> QED
    BY <1>1, <1>2, <1>6, <2>1 DEF BackfillTypes, SkipIssue
<1> QED
  BY <1>3, <1>4, <1>5, <1>6 DEF PagerStep

\* Neither importer is at work when the system starts.
LEMMA BackfillTypeInit == BackfillInit => BackfillTypes
BY ReconcilerTypeInit DEF BackfillInit, BackfillTypes, ChunkTypes, RestingChunk, Idle,
   PagerTypes

\* Every step keeps the types.
LEMMA BackfillTypeStep == BackfillTypes /\ [BackfillNext]_allVars => BackfillTypes'
<1> SUFFICES ASSUME BackfillTypes, [BackfillNext]_allVars PROVE BackfillTypes'
  OBVIOUS
<1>1. CASE ChunkStep
  BY <1>1, ChunkTypeStep
<1>2. CASE PagerStep
  BY <1>2, PagerTypeStep
<1>3. CASE [Next]_vars /\ UNCHANGED <<chunk, pager>>
  BY <1>3, ReconcilerTypeStep DEF BackfillTypes
<1> QED
  BY <1>1, <1>2, <1>3 DEF BackfillNext, allVars

\* The importers and the polling path keep their types.
THEOREM ImportersAreTyped == BackfillSpec => []BackfillTypes
<1> QED
  BY BackfillTypeInit, BackfillTypeStep, PTL DEF BackfillSpec

-----------------------------------------------------------------------------
(* How the store and GitHub change *)

\* No step takes an issue back, in the store.
LEMMA StoreOnlyAdvances ==
    ASSUME BackfillTypes, [BackfillNext]_allVars, NEW q \in Issues, NEW i \in Items
    PROVE  mirror[q][i] \in Nat /\ mirror'[q][i] \in Nat /\ mirror'[q][i] >= mirror[q][i]
<1>1. q \in Resources /\ TypeOK /\ TypeOK'
  BY BackfillTypeStep DEF BackfillTypes, Resources
<1>2. mirror[q][i] \in Nat /\ mirror'[q][i] \in Nat
  BY <1>1 DEF TypeOK
<1>3. CASE DispatchChunk
  <2>1. PICK e \in chunk.left :
           mirror' = [mirror EXCEPT ![chunk.of][e[1]] =
                        IF Overwrites(chunk.of, e[2], @) THEN e[2] ELSE @]
    BY <1>3 DEF DispatchChunk
  <2>2. chunk.of \in Resources /\ e[1] \in Items /\ e[2] \in Nat
    BY <1>3, ChunkFields DEF DispatchChunk, ActiveChunk, Pages
  <2> QED
    BY <1>1, <1>2, <2>1, <2>2, WriteIsMonotone
<1>4. CASE StoreIssue
  <2>1. PICK e \in pager.left :
           /\ RowDone(e)
           /\ mirror' = [mirror EXCEPT ![pager.of][e[1]] =
                           IF Overwrites(pager.of, e[2], @) THEN e[2] ELSE @]
    BY <1>4 DEF StoreIssue
  <2>2. pager.of \in Resources /\ e[1] \in Items /\ e[2] \in Nat
    BY <1>4, <2>1, RowDoneTypes DEF StoreIssue, Resources
  <2> QED
    BY <1>1, <1>2, <2>1, <2>2, WriteIsMonotone
<1>5. CASE [Next]_vars
  BY <1>1, <1>2, <1>5, IssueStep
<1>6. CASE UNCHANGED mirror
  BY <1>2, <1>6
<1> QED
  BY <1>3, <1>4, <1>5, <1>6 DEF BackfillNext, ChunkStep, PagerStep, allVars, vars,
     StartBackfill, EndBackfill, LoadChunk, SendChunk, TouchChunk, LoseChunkItem,
     SaveChunk, FailChunk, Crash, StartPaging, AskPage, SkipIssue

\* Only GitHub's own step changes what is there, and dates it now.
LEMMA ChangesAreDated ==
    ASSUME BackfillTypes, [BackfillNext]_allVars
    PROVE  /\ clock \in Nat /\ clock' \in Nat /\ clock <= clock'
           /\ \A q \in Issues, i \in Items :
                 /\ remote[q][i] \in Nat /\ remote'[q][i] \in Nat
                 /\ remote'[q][i] = remote[q][i] \/ remote'[q][i] = clock'
<1>1. TypeOK /\ TypeOK'
  BY BackfillTypeStep DEF BackfillTypes
<1>2. /\ clock \in Nat /\ clock' \in Nat
      /\ \A q \in Issues, i \in Items : remote[q][i] \in Nat /\ remote'[q][i] \in Nat
  BY <1>1 DEF TypeOK, Resources
<1>3. CASE UNCHANGED githubVars
  BY <1>2, <1>3 DEF githubVars
<1>4. ASSUME NEW p \in Resources, RemoteChange(p)
      PROVE  /\ clock <= clock'
             /\ \A q \in Issues, i \in Items :
                   remote'[q][i] = remote[q][i] \/ remote'[q][i] = clock'
  <2>1. PICK i \in Items, now \in {clock, clock + 1} :
           /\ clock' = now
           /\ \E date \in (IF p \in Commits THEN 1..now ELSE {now}) :
                 remote' = [remote EXCEPT ![p][i] = date]
    BY <1>4 DEF RemoteChange
  <2>2. PICK date \in (IF p \in Commits THEN 1..now ELSE {now}) :
           remote' = [remote EXCEPT ![p][i] = date]
    BY <2>1
  <2>3. p \in Issues => date = clock'
    BY <2>1, <2>2
  <2>4. \A q \in Issues, j \in Items :
           remote'[q][j] = remote[q][j] \/ (q = p /\ remote'[q][j] = date)
    BY <1>1, <2>2 DEF TypeOK, Resources
  <2> QED
    BY <1>2, <2>1, <2>3, <2>4
<1> QED
  BY <1>2, <1>3, <1>4 DEF BackfillNext, ChunkStep, PagerStep, allVars, vars, Next, TickStep,
     TriggerTick, FinishTick, LoadCursor, CheckBudget, Send, TouchCursor, DispatchItem,
     ApplyItem, LoseItem, SaveCursor, GiveUp, Restart,
     StartBackfill, EndBackfill, LoadChunk, SendChunk, TouchChunk, DispatchChunk,
     LoseChunkItem, SaveChunk, FailChunk, Crash, StartPaging, AskPage, StoreIssue, SkipIssue

-----------------------------------------------------------------------------
(* The window *)

\* What a since made GitHub leave out was stored, and stays so; what changes is dated
\* now, which is after the since or before the window.
LEMMA CoversStep ==
    ASSUME BackfillTypes, [BackfillNext]_allVars, NEW q \in Issues, NEW since \in Nat,
           Covers(q, since)
    PROVE  Covers(q, since)'
<1>1. \A i \in Items : /\ mirror[q][i] \in Nat /\ mirror'[q][i] \in Nat
                       /\ mirror'[q][i] >= mirror[q][i]
  BY StoreOnlyAdvances
<1>2. /\ clock \in Nat /\ clock' \in Nat /\ clock <= clock'
      /\ \A i \in Items : /\ remote[q][i] \in Nat /\ remote'[q][i] \in Nat
                          /\ remote'[q][i] = remote[q][i] \/ remote'[q][i] = clock'
  BY ChangesAreDated
<1>3. since <= clock' \/ since <= WindowStart
  BY <1>2 DEF Covers
<1>4. ASSUME NEW i \in Items,
             remote'[q][i] # Absent, remote'[q][i] >= WindowStart, remote'[q][i] < since
      PROVE  mirror'[q][i] >= remote'[q][i]
  <2>1. remote'[q][i] = remote[q][i]
    BY <1>2, <1>3, <1>4
  <2>2. mirror[q][i] >= remote[q][i]
    BY <1>4, <2>1 DEF Covers
  <2> QED
    BY <1>1, <1>2, <2>1, <2>2
<1> QED
  BY <1>3, <1>4 DEF Covers

\* What is stored is not taken back.
LEMMA StoredStep ==
    ASSUME BackfillTypes, [BackfillNext]_allVars, NEW q \in Issues,
           NEW etag \in SUBSET Pages, Stored(q, etag)
    PROVE  Stored(q, etag)'
<1>1. \A i \in Items : /\ mirror[q][i] \in Nat /\ mirror'[q][i] \in Nat
                       /\ mirror'[q][i] >= mirror[q][i]
  BY StoreOnlyAdvances
<1>2. \A P \in etag : \A e \in P : e[1] \in Items /\ e[2] \in Nat
  BY DEF Pages
<1> QED
  BY <1>1, <1>2 DEF Stored

\* So a cursor goes on covering, wherever its value is held.
LEMMA CursorCoversStep ==
    ASSUME BackfillTypes, [BackfillNext]_allVars, NEW q \in Issues, NEW c \in Cursors,
           CursorCovers(q, c)
    PROVE  CursorCovers(q, c)'
<1>1. c.since \in Nat /\ c.etag \in SUBSET Pages
  BY DEF Cursors
<1> QED
  BY <1>1, CoversStep, StoredStep DEF CursorCovers

\* A page that is walked stays accounted for while others move.
LEMMA AccountedStep ==
    ASSUME BackfillTypes, [BackfillNext]_allVars, NEW q \in Issues, NEW P \in Pages, NEW L,
           Accounted(q, P, L)
    PROVE  Accounted(q, P, L)'
<1>1. \A i \in Items : /\ mirror[q][i] \in Nat /\ mirror'[q][i] \in Nat
                       /\ mirror'[q][i] >= mirror[q][i]
  BY StoreOnlyAdvances
<1>2. /\ clock \in Nat /\ clock' \in Nat /\ clock <= clock'
      /\ \A i \in Items : /\ remote[q][i] \in Nat /\ remote'[q][i] \in Nat
                          /\ remote'[q][i] = remote[q][i] \/ remote'[q][i] = clock'
  BY ChangesAreDated
<1>3. \A e \in P : e[1] \in Items /\ e[2] \in Nat /\ e[2] <= clock
  BY DEF Accounted, Pages
<1>4. \A e \in P : e[2] <= clock' /\ (e \in L \/ mirror'[q][e[1]] >= e[2])
  BY <1>1, <1>2, <1>3 DEF Accounted
<1>5. ASSUME NEW i \in Items
      PROVE  \/ remote'[q][i] = Absent \/ remote'[q][i] < WindowStart
             \/ mirror'[q][i] >= remote'[q][i]
             \/ <<i, remote'[q][i]>> \in L
             \/ \A e \in P : remote'[q][i] >= e[2]
  <2>1. CASE remote'[q][i] = clock'
    BY <1>2, <1>3, <2>1
  <2>2. CASE remote'[q][i] = remote[q][i]
    <3>1. \/ remote[q][i] = Absent \/ remote[q][i] < WindowStart
          \/ mirror[q][i] >= remote[q][i]
          \/ <<i, remote[q][i]>> \in L
          \/ \A e \in P : remote[q][i] >= e[2]
      BY DEF Accounted
    <3>2. mirror[q][i] >= remote[q][i] => mirror'[q][i] >= remote[q][i]
      BY <1>1, <1>2
    <3> QED
      BY <2>2, <3>1, <3>2
  <2> QED
    BY <1>2, <2>1, <2>2
<1> QED
  BY <1>4, <1>5 DEF Accounted

\* The window's start covers what an older since did, as far as the window goes.
LEMMA EffectiveCovers ==
    ASSUME BackfillTypes, NEW q \in Issues, NEW since \in Nat, Covers(q, since)
    PROVE  EffectiveSince(since) \in Nat /\ Covers(q, EffectiveSince(since))
<1>1. \A i \in Items : remote[q][i] \in Nat
  BY DEF BackfillTypes, TypeOK, Resources
<1>2. CASE since >= WindowStart
  BY <1>2 DEF EffectiveSince
<1>3. CASE ~(since >= WindowStart)
  BY <1>1, <1>3 DEF EffectiveSince, Covers
<1> QED
  BY <1>2, <1>3

\* A page that is not cut short is accounted for when it arrives.
LEMMA PageIsAccounted ==
    ASSUME BackfillTypes, DatesInv, ItemCount <= PageSize, NEW q \in Issues,
           NEW since \in Nat, Covers(q, since)
    PROVE  Accounted(q, FirstPage(q, since), FirstPage(q, since))
<1> DEFINE P == FirstPage(q, since)
<1>1. P = {<<i, remote[q][i]>> : i \in Listed(q, since)}
  BY PageIsComplete
<1>2. q \in Resources /\ \A i \in Items : remote[q][i] \in Nat
  BY DEF BackfillTypes, TypeOK, Resources
<1>3. \A e \in P : e[2] <= clock
  BY <1>1, <1>2 DEF DatesInv, Listed
<1>4. ASSUME NEW i \in Items, remote[q][i] # Absent, remote[q][i] >= WindowStart,
             <<i, remote[q][i]>> \notin P
      PROVE  mirror[q][i] >= remote[q][i]
  <2>1. remote[q][i] < since
    BY <1>1, <1>2, <1>4 DEF Listed
  <2> QED
    BY <1>4, <2>1 DEF Covers
<1> HIDE DEF P
<1>5. ASSUME NEW i \in Items
      PROVE  \/ remote[q][i] = Absent \/ remote[q][i] < WindowStart
             \/ mirror[q][i] >= remote[q][i]
             \/ <<i, remote[q][i]>> \in P
  BY <1>2, <1>4
<1>6. Accounted(q, P, P)
  BY <1>3, <1>5 DEF Accounted
<1> QED
  BY <1>6 DEF P

\* Storing one row of it keeps the account.
LEMMA RowIsAccounted ==
    ASSUME BackfillTypes, [BackfillNext]_allVars, NEW q \in Issues, NEW P \in Pages,
           NEW L, Accounted(q, P, L), NEW e \in L, mirror'[q][e[1]] >= e[2]
    PROVE  Accounted(q, P, L \ {e})'
<1>1. Accounted(q, P, L)'
  BY AccountedStep
<1>2. ASSUME NEW i \in Items, <<i, remote'[q][i]>> = e
      PROVE  mirror'[q][i] >= remote'[q][i]
  <2>1. e[1] = i /\ e[2] = remote'[q][i]
    BY <1>2
  <2> QED
    BY <2>1
<1> QED
  BY <1>1, <1>2 DEF Accounted

\* When all of it is stored, each of its dates will do for a since.
LEMMA PageCovers ==
    ASSUME BackfillTypes, NEW q \in Issues, NEW P \in Pages, Accounted(q, P, {})
    PROVE  Stored(q, {P}) /\ \A e \in P : Covers(q, e[2])
<1>1. \A i \in Items : remote[q][i] \in Nat
  BY DEF BackfillTypes, TypeOK, Resources
<1>2. \A e \in P : e[1] \in Items /\ e[2] \in Nat
  BY DEF Pages
<1>3. Stored(q, {P})
  BY DEF Accounted, Stored
<1>4. ASSUME NEW e \in P PROVE Covers(q, e[2])
  BY <1>1, <1>2 DEF Accounted, Covers
<1> QED
  BY <1>3, <1>4

\* Nothing is vouched for when the system starts.
LEMMA WindowInit == BackfillInit => WindowInv
<1> SUFFICES ASSUME BackfillInit PROVE WindowInv
  OBVIOUS
<1>1. Init /\ chunk = Idle
  BY DEF BackfillInit
<1>2. DatesInv
  BY <1>1 DEF Init, DatesInv
<1>3. RowsCover
  BY <1>1 DEF Init, RowsCover, CursorCovers, Covers, Stored, NoCursor, Kept, Resources
<1>4. TicksCover
  BY <1>1 DEF Init, TicksCover
<1>5. ChunkCovers
  BY <1>1 DEF Idle, ChunkCovers
<1> QED
  BY <1>2, <1>3, <1>4, <1>5 DEF WindowInv

\* GitHub's dates never run ahead of its clock.
LEMMA WindowDatesStep ==
    BackfillTypes /\ DatesInv /\ [BackfillNext]_allVars => DatesInv'
<1> SUFFICES ASSUME BackfillTypes, DatesInv, [BackfillNext]_allVars PROVE DatesInv'
  OBVIOUS
<1>1. CASE [Next]_vars
  BY <1>1, DatesStep DEF BackfillTypes
<1>2. CASE UNCHANGED githubVars
  BY <1>2 DEF DatesInv, githubVars
<1> QED
  BY <1>1, <1>2 DEF BackfillNext, ChunkStep, PagerStep, allVars, vars,
     StartBackfill, EndBackfill, LoadChunk, SendChunk, TouchChunk, DispatchChunk,
     LoseChunkItem, SaveChunk, FailChunk, Crash, StartPaging, AskPage, StoreIssue, SkipIssue

\* The page in hand and a since that covers make a cursor that covers.
LEMMA SavedCursorCovers ==
    ASSUME BackfillTypes, NEW q \in Issues, NEW P \in Pages, Accounted(q, P, {}),
           NEW t, Covers(q, t) \/ t \in Dates(q, P)
    PROVE  CursorCovers(q, [since |-> t, etag |-> {P}])
<1>1. Dates(q, P) \subseteq {e[2] : e \in P}
  BY DEF Dates
<1>2. Stored(q, {P}) /\ Covers(q, t)
  BY <1>1, PageCovers
<1> QED
  BY <1>2 DEF CursorCovers

\* Whoever stores a cursor stores one that covers.
LEMMA RowsCoverStep ==
    ASSUME BackfillTypes, WindowInv, [BackfillNext]_allVars
    PROVE  RowsCover'
<1> SUFFICES ASSUME NEW q \in Kept PROVE CursorCovers(q, cursor[q])'
  BY DEF RowsCover
<1>1. /\ q \in Issues /\ q \in Resources /\ TypeOK
      /\ cursor[q] \in Cursors /\ CursorCovers(q, cursor[q])
  BY DEF Kept, Resources, BackfillTypes, TypeOK, WindowInv, RowsCover
<1>2. ASSUME NEW c \in Cursors, CursorCovers(q, c), cursor'[q] = c
      PROVE  CursorCovers(q, cursor[q])'
  BY <1>1, <1>2, CursorCoversStep DEF CursorCovers, Covers, Stored
<1>3. ASSUME NEW c \in Cursors, cursor' = [cursor EXCEPT ![q] = c]
      PROVE  cursor'[q] = c
  BY <1>1, <1>3 DEF TypeOK
<1>4. CASE cursor'[q] = cursor[q]
  BY <1>1, <1>2, <1>4
<1>5. ASSUME NEW s \in Schedulers, TouchCursor(s), current[s] = q
      PROVE  CursorCovers(q, cursor[q])'
  <2>1. loaded[s] \in Cursors /\ CursorCovers(q, loaded[s])
    BY <1>1, <1>5 DEF TypeOK, WindowInv, TicksCover, TouchCursor
  <2>2. cursor'[q] = loaded[s]
    BY <1>3, <1>5, <2>1 DEF TouchCursor
  <2> QED
    BY <1>2, <2>1, <2>2
<1>6. ASSUME NEW s \in Schedulers, SaveCursor(s), current[s] = q
      PROVE  CursorCovers(q, cursor[q])'
  <2>1. PICK t \in {loaded[s].since} \cup Dates(q, page[s]) :
           cursor' = [cursor EXCEPT ![q] = [since |-> t, etag |-> {page[s]}]]
    BY <1>6 DEF SaveCursor
  <2>2. /\ Covers(q, loaded[s].since) /\ Accounted(q, page[s], {})
        /\ page[s] \in Pages /\ loaded[s] \in Cursors
    <3>1. tpc[s] = "dispatching" /\ left[s] = {}
      BY <1>6 DEF SaveCursor
    <3>2. CursorCovers(q, loaded[s]) /\ Accounted(q, page[s], left[s])
      BY <1>6, <3>1 DEF WindowInv, TicksCover
    <3>3. page[s] \in Pages /\ loaded[s] \in Cursors
      BY <1>1 DEF TypeOK
    <3> QED
      BY <3>1, <3>2, <3>3 DEF CursorCovers
  <2>3. CursorCovers(q, [since |-> t, etag |-> {page[s]}])
    BY <1>1, <2>1, <2>2, SavedCursorCovers
  <2>4. [since |-> t, etag |-> {page[s]}] \in Cursors
    BY <2>1, <2>2 DEF Dates, Pages, Cursors
  <2> QED
    BY <1>2, <1>3, <2>1, <2>3, <2>4
<1>7. ASSUME TouchChunk, chunk.of = q
      PROVE  CursorCovers(q, cursor[q])'
  <2> DEFINE c == [chunk.loaded EXCEPT !.since = IF @ = 0 THEN chunk.since ELSE @]
  <2>1. /\ chunk.loaded \in Cursors /\ CursorCovers(q, chunk.loaded)
        /\ chunk.since = EffectiveSince(chunk.loaded.since)
    BY <1>7, ChunkFields DEF TouchChunk, ActiveChunk, WindowInv, ChunkCovers
  <2>2. chunk.since \in Nat /\ Covers(q, chunk.since)
    BY <1>1, <2>1, EffectiveCovers DEF CursorCovers, Cursors
  <2>3. c \in Cursors /\ CursorCovers(q, c)
    BY <2>1, <2>2 DEF Cursors, CursorCovers
  <2>4. cursor' = [cursor EXCEPT ![q] = c]
    BY <1>7 DEF TouchChunk
  <2> HIDE DEF c
  <2> QED
    BY <1>2, <1>3, <2>3, <2>4
<1>8. ASSUME SaveChunk, chunk.of = q
      PROVE  CursorCovers(q, cursor[q])'
  <2>1. PICK t \in {chunk.since} \cup {chunk.loaded.since} \cup Dates(q, chunk.page) :
           cursor' = [cursor EXCEPT ![q] = [since |-> t, etag |-> {chunk.page}]]
    BY <1>8 DEF SaveChunk
  <2>2. /\ chunk.loaded \in Cursors /\ CursorCovers(q, chunk.loaded)
        /\ chunk.since = EffectiveSince(chunk.loaded.since)
        /\ chunk.page \in Pages /\ Accounted(q, chunk.page, {})
    BY <1>8, ChunkFields DEF SaveChunk, ActiveChunk, WindowInv, ChunkCovers
  <2>3. /\ chunk.since \in Nat /\ Covers(q, chunk.since)
        /\ chunk.loaded.since \in Nat /\ Covers(q, chunk.loaded.since)
    BY <1>1, <2>2, EffectiveCovers DEF CursorCovers, Cursors
  <2>4. CursorCovers(q, [since |-> t, etag |-> {chunk.page}])
    BY <1>1, <2>1, <2>2, <2>3, SavedCursorCovers
  <2>5. [since |-> t, etag |-> {chunk.page}] \in Cursors
    BY <2>1, <2>2, <2>3 DEF Dates, Pages, Cursors
  <2> QED
    BY <1>2, <1>3, <2>1, <2>4, <2>5
<1>9. ASSUME NEW p \in Resources, NEW c, cursor' = [cursor EXCEPT ![p] = c], p # q
      PROVE  cursor'[q] = cursor[q]
  BY <1>1, <1>9 DEF TypeOK
<1>10. ASSUME NEW s \in Schedulers, TouchCursor(s) \/ SaveCursor(s)
       PROVE  CursorCovers(q, cursor[q])'
  <2>1. current[s] \in Resources
    BY <1>1 DEF TypeOK
  <2> QED
    BY <1>4, <1>5, <1>6, <1>9, <1>10, <2>1 DEF TouchCursor, SaveCursor
<1>11. CASE TouchChunk \/ SaveChunk
  <2>1. chunk.of \in Resources
    BY <1>11, ChunkFields DEF TouchChunk, SaveChunk, ActiveChunk
  <2> QED
    BY <1>4, <1>7, <1>8, <1>9, <1>11, <2>1 DEF TouchChunk, SaveChunk
<1> QED
  BY <1>4, <1>10, <1>11 DEF BackfillNext, ChunkStep, PagerStep, allVars, vars, Next, TickStep,
     TriggerTick, FinishTick, LoadCursor, CheckBudget, Send, DispatchItem,
     ApplyItem, LoseItem, GiveUp, Restart, RemoteChange,
     StartBackfill, EndBackfill, LoadChunk, SendChunk, DispatchChunk,
     LoseChunkItem, FailChunk, Crash, StartPaging, AskPage, StoreIssue, SkipIssue

\* A tick goes on with a cursor that covers and a page it accounts for.
LEMMA TicksCoverStep ==
    ASSUME BackfillTypes, WindowInv, ItemCount <= PageSize, [BackfillNext]_allVars
    PROVE  TicksCover'
<1> SUFFICES ASSUME NEW s \in Schedulers,
                    tpc'[s] \notin {"idle", "next"}, current'[s] \in Kept
             PROVE  /\ CursorCovers(current[s], loaded[s])'
                    /\ tpc'[s] = "dispatching" => Accounted(current[s], page[s], left[s])'
  BY DEF TicksCover
<1> DEFINE q == current[s]
<1>1. /\ TypeOK /\ TypeOK' /\ q \in Resources /\ loaded[s] \in Cursors /\ page[s] \in Pages
      /\ left[s] \in Pages
  BY BackfillTypeStep DEF BackfillTypes, TypeOK
<1>2. Kept \subseteq Issues
  BY DEF Kept
<1>3. ASSUME UNCHANGED <<current[s], loaded[s]>>, tpc[s] \notin {"idle", "next"}
      PROVE  CursorCovers(current[s], loaded[s])'
  <2>1. CursorCovers(q, loaded[s]) /\ q \in Issues
    BY <1>2, <1>3 DEF WindowInv, TicksCover
  <2> QED
    BY <1>1, <1>3, <2>1, CursorCoversStep DEF CursorCovers, Covers, Stored
<1>4. ASSUME UNCHANGED <<current[s], page[s], left[s]>>, tpc[s] = "dispatching"
      PROVE  Accounted(current[s], page[s], left[s])'
  <2>1. Accounted(q, page[s], left[s]) /\ q \in Issues
    BY <1>2, <1>4 DEF WindowInv, TicksCover
  <2>2. PICK r \in Issues, P \in Pages, L \in Pages :
           r = q /\ P = page[s] /\ L = left[s] /\ Accounted(r, P, L)
    BY <1>1, <2>1
  <2>3. Accounted(r, P, L)'
    BY <2>2, AccountedStep
  <2> QED
    BY <1>4, <2>2, <2>3 DEF Accounted
<1>5. CASE UNCHANGED <<tpc[s], current[s], loaded[s], page[s], left[s]>>
  BY <1>3, <1>4, <1>5
<1>6. CASE LoadCursor(s)
  <2>1. PICK p \in todo[s] : current'[s] = p /\ loaded'[s] = cursor[p]
    BY <1>1, <1>6 DEF LoadCursor, TypeOK
  <2>2. p \in Kept /\ CursorCovers(p, cursor[p]) /\ tpc'[s] = "checking"
    BY <1>1, <1>6, <2>1 DEF LoadCursor, TypeOK, WindowInv, RowsCover
  <2>3. UNCHANGED <<clock, remote, mirror>>
    BY <1>6 DEF LoadCursor, githubVars
  <2> QED
    BY <2>1, <2>2, <2>3 DEF CursorCovers, Covers, Stored
<1>7. CASE CheckBudget(s)
  BY <1>1, <1>3, <1>7, EndFacts DEF CheckBudget, TypeOK
<1>8. CASE Send(s)
  <2> DEFINE P == FirstPage(q, loaded[s].since)
  <2>1. ~EndResource(s)
    BY <1>1, EndFacts
  <2>2. /\ UNCHANGED <<clock, remote, mirror, current, loaded>>
        /\ tpc[s] = "sending" /\ tpc'[s] \in {"touching", "dispatching"}
    BY <1>1, <1>8, <2>1 DEF Send, githubVars, TypeOK
  <2>3. ASSUME tpc'[s] = "dispatching" PROVE Accounted(current[s], page[s], left[s])'
    <3>1. page'[s] = P /\ left'[s] = P
      BY <1>1, <1>8, <2>1, <2>3 DEF Send, TypeOK
    <3>2. q \in Issues /\ CursorCovers(q, loaded[s])
      BY <1>2, <2>2 DEF WindowInv, TicksCover
    <3>3. loaded[s].since \in Nat /\ Covers(q, loaded[s].since)
      BY <1>1, <3>2 DEF CursorCovers, Cursors
    <3>4. DatesInv
      BY DEF WindowInv
    <3>5. Accounted(q, P, P)
      BY <3>2, <3>3, <3>4, PageIsAccounted
    <3> HIDE DEF P
    <3> QED
      BY <2>2, <3>1, <3>5 DEF Accounted
  <2> QED
    BY <1>3, <2>2, <2>3
<1>9. CASE tpc[s] = "dispatching" /\ ApplyItem(s)
  <2>1. PICK e \in left[s] :
           /\ mirror' = [mirror EXCEPT ![q][e[1]] =
                IF Overwrites(q, e[2], @) THEN e[2] ELSE @]
           /\ left' = [left EXCEPT ![s] = @ \ {e}]
    BY <1>9 DEF ApplyItem
  <2>2. /\ UNCHANGED <<tpc, current, loaded, page>> /\ left'[s] = left[s] \ {e}
    BY <1>1, <1>9, <2>1 DEF ApplyItem, TypeOK
  <2>3. q \in Issues /\ Accounted(q, page[s], left[s])
    BY <1>2, <1>9, <2>2 DEF WindowInv, TicksCover
  <2>4. e[1] \in Items /\ e[2] \in Nat
    BY <1>1 DEF Pages
  <2>5. PICK r \in Issues, P \in Pages, L \in Pages :
           r = q /\ P = page[s] /\ L = left[s] /\ Accounted(r, P, L)
    BY <1>1, <2>3
  <2>6. mirror'[r][e[1]] >= e[2]
    <3>1. mirror' = [mirror EXCEPT ![r][e[1]] =
                        IF Overwrites(r, e[2], @) THEN e[2] ELSE @]
      BY <2>1, <2>5
    <3> QED
      BY <1>1, <2>4, <2>5, <3>1, UpsertOfIssue
  <2>7. Accounted(r, P, L \ {e})'
    BY <2>5, <2>6, RowIsAccounted
  <2>8. Accounted(current[s], page[s], left[s])'
    BY <2>2, <2>5, <2>7 DEF Accounted
  <2> QED
    BY <1>3, <1>9, <2>2, <2>8
<1> QED
  <2>1. ASSUME NEW t \in Schedulers, TriggerTick(t) \/ FinishTick(t)
        PROVE  UNCHANGED <<tpc[s], current[s], loaded[s], page[s], left[s]>>
    BY <1>1, <2>1 DEF TriggerTick, FinishTick, TypeOK
  <2>2. ASSUME NEW t \in Schedulers, t # s, TickStep(t)
        PROVE  UNCHANGED <<tpc[s], current[s], loaded[s], page[s], left[s]>>
    BY <1>1, <2>2, EndFacts DEF TickStep, FinishTick, LoadCursor, CheckBudget,
       Send, TouchCursor, DispatchItem, ApplyItem, LoseItem, SaveCursor, GiveUp,
       TypeOK
  <2>3. ASSUME TouchCursor(s) \/ SaveCursor(s) \/ LoseItem(s) \/ GiveUp(s)
        PROVE  FALSE
    BY <1>1, <2>3, EndFacts DEF TouchCursor, SaveCursor, LoseItem, GiveUp, TypeOK, Kept
  <2>4. CASE (\E p \in Resources : RemoteChange(p)) \/ UNCHANGED vars
    BY <1>5, <2>4 DEF RemoteChange, vars, tickVars
  <2>5. CASE Restart
    BY <2>5 DEF Restart
  <2>6. CASE ChunkStep \/ PagerStep
    <3>1. UNCHANGED tickVars
      BY <2>6 DEF ChunkStep, PagerStep, vars, StartBackfill, EndBackfill, LoadChunk,
         SendChunk, TouchChunk, DispatchChunk, LoseChunkItem, SaveChunk, FailChunk, Crash,
         StartPaging, AskPage, StoreIssue, SkipIssue
    <3> QED
      BY <1>5, <3>1 DEF tickVars
  <2> QED
    BY <1>5, <1>6, <1>7, <1>8, <1>9, <2>1, <2>2, <2>3, <2>4, <2>5, <2>6
       DEF BackfillNext, allVars, Next, TickStep, DispatchItem

\* A chunk goes on with a cursor that covers and a page it accounts for.
LEMMA ChunkCoversStep ==
    ASSUME BackfillTypes, WindowInv, ItemCount <= PageSize, [BackfillNext]_allVars
    PROVE  ChunkCovers'
<1> SUFFICES ASSUME chunk'.at \notin {"idle", "next"}, chunk'.of \in Kept
             PROVE  /\ CursorCovers(chunk.of, chunk.loaded)'
                    /\ chunk'.since = EffectiveSince(chunk'.loaded.since)
                    /\ chunk'.at = "dispatching"
                          => Accounted(chunk.of, chunk.page, chunk.left)'
  BY DEF ChunkCovers, EffectiveSince
<1>1. Kept \subseteq Issues /\ TypeOK
  BY DEF Kept, BackfillTypes
<1>2. ASSUME NEW c \in ActiveChunk, c = chunk, c.of \in Kept
      PROVE  /\ c.of \in Issues /\ c.loaded \in Cursors /\ c.page \in Pages /\ c.left \in Pages
             /\ CursorCovers(c.of, c.loaded) /\ CursorCovers(c.of, c.loaded)'
             /\ c.since = EffectiveSince(c.loaded.since) /\ c.since \in Nat
             /\ Covers(c.of, c.since)
             /\ c.at = "dispatching" =>
                   /\ Accounted(c.of, c.page, c.left) /\ Accounted(c.of, c.page, c.left)'
  <2>1. /\ c.of \in Issues /\ c.loaded \in Cursors /\ c.page \in Pages /\ c.left \in Pages
        /\ c.at \notin {"idle", "next"} /\ c.loaded.since \in Nat
    BY <1>1, <1>2 DEF ActiveChunk, Cursors
  <2>2. /\ CursorCovers(c.of, c.loaded) /\ c.since = EffectiveSince(c.loaded.since)
        /\ c.at = "dispatching" => Accounted(c.of, c.page, c.left)
    BY <1>2, <2>1 DEF WindowInv, ChunkCovers
  <2>3. c.since \in Nat /\ Covers(c.of, c.since)
    BY <2>1, <2>2, EffectiveCovers DEF CursorCovers
  <2>4. CursorCovers(c.of, c.loaded)'
    BY <2>1, <2>2, CursorCoversStep
  <2>5. c.at = "dispatching" => Accounted(c.of, c.page, c.left)'
    BY <2>1, <2>2, AccountedStep
  <2> QED
    BY <2>1, <2>2, <2>3, <2>4, <2>5
<1>3. CASE UNCHANGED chunk
  <2>1. PICK c \in ActiveChunk : c = chunk /\ c.of \in Kept
    BY <1>3, ChunkFields
  <2>2. /\ CursorCovers(c.of, c.loaded)' /\ c.since = EffectiveSince(c.loaded.since)
        /\ c.at = "dispatching" => Accounted(c.of, c.page, c.left)'
    BY <1>2, <2>1
  <2> QED
    BY <1>3, <2>1, <2>2 DEF CursorCovers, Covers, Stored, Accounted
<1>4. CASE LoadChunk
  <2>1. PICK q \in chunk.todo :
           /\ chunk'.of = q /\ chunk'.loaded = cursor[q] /\ chunk'.at = "sending"
           /\ chunk'.since = EffectiveSince(cursor[q].since)
    BY <1>4 DEF LoadChunk
  <2>2. CursorCovers(q, cursor[q])
    BY <2>1 DEF WindowInv, RowsCover
  <2>3. UNCHANGED <<clock, remote, mirror>>
    BY <1>4 DEF LoadChunk, vars, githubVars
  <2> QED
    BY <2>1, <2>2, <2>3 DEF CursorCovers, Covers, Stored
<1>5. CASE SendChunk
  <2>1. PICK c \in ActiveChunk : c = chunk
    BY <1>5, ChunkFields DEF SendChunk
  <2> DEFINE P == FirstPage(c.of, c.since)
  <2>2. \/ chunk' = [c EXCEPT !.at = "touching"]
        \/ chunk' = [c EXCEPT !.at = "dispatching", !.page = P, !.left = P]
    BY <1>5, <2>1 DEF SendChunk, NextChunk
  <2>3. UNCHANGED <<clock, remote, mirror>>
    BY <1>5 DEF SendChunk, vars, githubVars
  <2> HIDE DEF P
  <2>4. /\ chunk'.of = c.of /\ chunk'.loaded = c.loaded /\ chunk'.since = c.since
        /\ \/ chunk'.at = "touching"
           \/ chunk'.at = "dispatching" /\ chunk'.page = P /\ chunk'.left = P
    BY <2>2 DEF ActiveChunk
  <2>5. /\ CursorCovers(c.of, c.loaded)' /\ c.since = EffectiveSince(c.loaded.since)
        /\ c.of \in Issues /\ c.since \in Nat /\ Covers(c.of, c.since)
    BY <1>2, <2>1, <2>4
  <2>6. Accounted(c.of, P, P)
    BY <2>5, PageIsAccounted DEF P, WindowInv
  <2> QED
    BY <2>3, <2>4, <2>5, <2>6 DEF CursorCovers, Covers, Stored, Accounted
<1>6. CASE DispatchChunk
  <2>1. PICK c \in ActiveChunk : c = chunk
    BY <1>6, ChunkFields DEF DispatchChunk
  <2>2. PICK e \in c.left :
           /\ mirror' = [mirror EXCEPT ![c.of][e[1]] =
                           IF Overwrites(c.of, e[2], @) THEN e[2] ELSE @]
           /\ chunk' = [c EXCEPT !.left = @ \ {e}]
    BY <1>6, <2>1 DEF DispatchChunk
  <2>3. /\ chunk'.of = c.of /\ chunk'.loaded = c.loaded /\ chunk'.since = c.since
        /\ chunk'.at = c.at /\ chunk'.page = c.page /\ chunk'.left = c.left \ {e}
        /\ c.at = "dispatching"
    BY <1>6, <2>1, <2>2 DEF ActiveChunk, DispatchChunk
  <2>4. /\ CursorCovers(c.of, c.loaded)' /\ c.since = EffectiveSince(c.loaded.since)
        /\ c.of \in Issues /\ c.page \in Pages /\ c.left \in Pages
        /\ Accounted(c.of, c.page, c.left)
    BY <1>2, <2>1, <2>3
  <2>5. e[1] \in Items /\ e[2] \in Nat
    BY <2>4 DEF Pages
  <2>6. mirror'[c.of][e[1]] >= e[2]
    BY <1>1, <2>2, <2>4, <2>5, UpsertOfIssue
  <2>7. Accounted(c.of, c.page, c.left \ {e})'
    BY <2>4, <2>6, RowIsAccounted
  <2> QED
    BY <2>3, <2>4, <2>7 DEF CursorCovers, Covers, Stored, Accounted
<1>7. ASSUME StartBackfill \/ EndBackfill \/ Crash \/ TouchChunk \/ SaveChunk \/ FailChunk
      PROVE  FALSE
  BY <1>7 DEF StartBackfill, EndBackfill, Crash, TouchChunk, SaveChunk, FailChunk, NextChunk,
     Idle
<1>8. ASSUME LoseChunkItem PROVE FALSE
  <2>1. chunk \in ActiveChunk /\ chunk.of \in Lossy
    BY <1>8, ChunkFields DEF LoseChunkItem
  <2>2. PICK L : chunk' = [chunk EXCEPT !.left = L]
    BY <1>8 DEF LoseChunkItem
  <2>3. chunk'.of = chunk.of
    BY <2>1, <2>2 DEF ActiveChunk
  <2> QED
    BY <2>1, <2>3 DEF Kept
<1>9. CASE PagerStep
  BY <1>3, <1>9 DEF PagerStep, StartPaging, AskPage, StoreIssue, SkipIssue
<1> QED
  BY <1>3, <1>4, <1>5, <1>6, <1>7, <1>8, <1>9 DEF BackfillNext, ChunkStep, allVars

\* Together they are inductive.
LEMMA WindowStep ==
    BackfillTypes /\ WindowInv /\ ItemCount <= PageSize /\ [BackfillNext]_allVars => WindowInv'
<1> SUFFICES ASSUME BackfillTypes, WindowInv, ItemCount <= PageSize, [BackfillNext]_allVars
             PROVE  WindowInv'
  OBVIOUS
<1>1. DatesInv'
  BY WindowDatesStep DEF WindowInv
<1> QED
  BY <1>1, RowsCoverStep, TicksCoverStep, ChunkCoversStep DEF WindowInv

\* Where one page holds what a repo has, nothing of the window is left behind a cursor,
\* whoever of the ticks and the backfill took it there, by a page or by an ETag of the
\* other's, wherever each was cut off, and with the paging command beside them.
THEOREM WindowStaysCovered ==
    ASSUME ItemCount <= PageSize PROVE BackfillSpec => []WindowIsCovered
<1>1. BackfillTypes /\ WindowInv => WindowIsCovered
  BY DEF BackfillTypes, WindowInv, RowsCover, CursorCovers, Covers, WindowIsCovered, Kept
<1>2. BackfillTypes /\ WindowInv /\ [BackfillNext]_allVars => WindowInv'
  BY WindowStep
<1> QED
  BY <1>1, <1>2, BackfillTypeInit, BackfillTypeStep, WindowInit, PTL DEF BackfillSpec

-----------------------------------------------------------------------------
(* The list that backfill-issues pages through *)

\* The bounds of a page.
LEMMA PageBounds ==
    ASSUME NEW n \in Nat \ {0}
    PROVE  /\ (n - 1) * ListSize \in Nat /\ n * ListSize \in Nat
           /\ n * ListSize = (n - 1) * ListSize + ListSize
           /\ (n + 1) - 1 = n
OBVIOUS

\* There are finitely many items, in any version.
LEMMA EntriesAreFinite ==
    ASSUME NEW version
    PROVE  IsFiniteSet({<<i, version[i]>> : i \in {j \in Items : version[j] # Absent}})
<1> DEFINE J == {j \in Items : version[j] # Absent}
           entry == [i \in J |-> <<i, version[i]>>]
<1>1. IsFiniteSet(Items)
  BY FS_Interval DEF Items
<1>2. IsFiniteSet(J)
  BY <1>1, FS_Subset
<1>3. entry \in Surjection(J, {<<i, version[i]>> : i \in J})
  BY DEF Surjection
<1> HIDE DEF entry
<1>4. IsFiniteSet({<<i, version[i]>> : i \in J})
  BY <1>2, <1>3, FS_Surjection
<1> QED
  BY <1>4

LEMMA KnownIsFinite ==
    ASSUME NEW q
    PROVE  IsFiniteSet(Known(q))
BY EntriesAreFinite DEF Known

\* A place in the list is a rank in the order of the list.
LEMMA PositionIsRank ==
    ASSUME TypeOK, NEW q \in Resources
    PROVE  LET R == {p \in Known(q) \X Known(q) : ListedBefore(p[1], p[2])}
           IN  /\ IsStrictOrder(R, Known(q))
               /\ \A e \in Known(q) : Position(q, e) = Cardinality(Earlier(R, Known(q), e))
<1> DEFINE S == Known(q)
           R == {p \in S \X S : ListedBefore(p[1], p[2])}
<1>1. \A e \in S : e \in Items \X Nat
  BY KnownTypes DEF Pages
<1>2. \A e, f \in S : <<f, e>> \in R <=> ListedBefore(f, e)
  OBVIOUS
<1> HIDE DEF S
<1>3. \A e, f \in S : e # f => ListedBefore(e, f) \/ ListedBefore(f, e)
  BY <1>1 DEF ListedBefore, Items
<1>4. \A e, f, g \in S : ListedBefore(e, f) /\ ListedBefore(f, g) => ListedBefore(e, g)
  BY <1>1 DEF ListedBefore, Items
<1>5. \A e \in S : ~ListedBefore(e, e)
  BY <1>1 DEF ListedBefore, Items
<1> HIDE DEF R
<1>6. IsStrictOrder(R, S)
  BY <1>2, <1>3, <1>4, <1>5 DEF IsStrictOrder
<1>7. ASSUME NEW e \in S PROVE Position(q, e) = Cardinality(Earlier(R, S, e))
  <2>1. {f \in S : ListedBefore(f, e)} = Earlier(R, S, e)
    BY <1>2 DEF Earlier
  <2> QED
    BY <2>1 DEF Position, S
<1> QED
  BY <1>6, <1>7 DEF R, S

\* Before a place, every place is taken.
LEMMA PlacesAreTaken ==
    ASSUME TypeOK, NEW q \in Resources, NEW e \in Known(q)
    PROVE  /\ Position(q, e) \in Nat
           /\ \A k \in 0..Position(q, e) : \E f \in Known(q) : Position(q, f) = k
<1> DEFINE S == Known(q)
           R == {p \in S \X S : ListedBefore(p[1], p[2])}
<1>1. /\ IsStrictOrder(R, S) /\ IsFiniteSet(S)
      /\ \A f \in S : Position(q, f) = Cardinality(Earlier(R, S, f))
  BY PositionIsRank, KnownIsFinite
<1>2. e \in S
  OBVIOUS
<1> HIDE DEF R, S
<1>3. Earlier(R, S, e) \subseteq S \ {e}
  BY <1>1, <1>2 DEF Earlier, IsStrictOrder
<1>4. /\ IsFiniteSet(S \ {e}) /\ Cardinality(S \ {e}) = Cardinality(S) - 1
      /\ Cardinality(S) \in Nat
  BY <1>1, <1>2, FS_RemoveElement, FS_CardinalityType
<1>5. /\ IsFiniteSet(Earlier(R, S, e))
      /\ Cardinality(Earlier(R, S, e)) <= Cardinality(S) - 1
  BY <1>3, <1>4, FS_Subset
<1>6. Cardinality(Earlier(R, S, e)) \in Nat
  BY <1>5, FS_CardinalityType
<1>7. Position(q, e) \in Nat /\ Position(q, e) <= Cardinality(S) - 1
  BY <1>1, <1>2, <1>5, <1>6
<1>8. ASSUME NEW k \in 0..Position(q, e) PROVE \E f \in S : Position(q, f) = k
  <2>1. k \in 0..(Cardinality(S) - 1)
    BY <1>4, <1>7
  <2>2. PICK f \in S : Cardinality(Earlier(R, S, f)) = k
    BY <1>1, <2>1, RankIsOnto
  <2> QED
    BY <1>1, <2>2
<1> QED
  BY <1>7, <1>8 DEF S

\* Nobody is listed at or behind an empty page.
LEMMA EmptyPage ==
    ASSUME TypeOK, NEW q \in Resources, NEW n \in Nat \ {0}, ListedPage(q, n) = {},
           NEW e \in Known(q)
    PROVE  ~((n - 1) * ListSize <= Position(q, e))
<1> SUFFICES ASSUME (n - 1) * ListSize <= Position(q, e) PROVE FALSE
  OBVIOUS
<1> DEFINE k == (n - 1) * ListSize
<1>1. k \in Nat /\ n * ListSize = k + ListSize /\ Position(q, e) \in Nat
  BY PageBounds, PlacesAreTaken
<1>2. k \in 0..Position(q, e)
  BY <1>1
<1>3. PICK f \in Known(q) : Position(q, f) = k
  BY <1>2, PlacesAreTaken
<1>4. f \in ListedPage(q, n)
  BY <1>1, <1>3 DEF ListedPage
<1> QED
  BY <1>4

\* If somebody is listed behind a page, the page is full.
LEMMA FullPage ==
    ASSUME TypeOK, NEW q \in Resources, NEW n \in Nat \ {0}, NEW e \in Known(q),
           n * ListSize <= Position(q, e)
    PROVE  ~(Cardinality(ListedPage(q, n)) < ListSize)
<1> DEFINE k == (n - 1) * ListSize
           m == n * ListSize
           P == ListedPage(q, n)
           T == k..(m - 1)
           place == [f \in P |-> Position(q, f)]
<1>1. k \in Nat /\ m = k + ListSize /\ m \in Nat /\ m <= Position(q, e)
  BY PageBounds
<1>2. P \subseteq Known(q) /\ \A f \in Known(q) : Position(q, f) \in Nat
  BY PlacesAreTaken DEF ListedPage
<1>3. IsFiniteSet(P)
  BY <1>2, KnownIsFinite, FS_Subset
<1>4. \A f \in Known(q) : f \in P <=> k <= Position(q, f) /\ Position(q, f) < m
  BY DEF ListedPage
<1> HIDE DEF k, m, P
<1>5. \A f \in P : place[f] \in T
  BY <1>1, <1>2, <1>4
<1>6. ASSUME NEW t \in T PROVE \E f \in P : place[f] = t
  <2>1. t \in 0..Position(q, e)
    BY <1>1, <1>2
  <2>2. PICK f \in Known(q) : Position(q, f) = t
    BY <2>1, PlacesAreTaken
  <2> QED
    BY <1>1, <1>4, <2>2
<1>7. place \in Surjection(P, T)
  BY <1>5, <1>6 DEF Surjection
<1>8. Cardinality(T) = ListSize
  BY <1>1, FS_Interval
<1>9. Cardinality(T) <= Cardinality(P)
  <2> HIDE DEF place, T
  <2> QED
    BY <1>3, <1>7, FS_Surjection
<1>10. Cardinality(P) \in Nat
  BY <1>3, FS_CardinalityType
<1> QED
  BY <1>8, <1>9, <1>10 DEF P

\* No date at GitHub goes back.
LEMMA DatesAdvance ==
    ASSUME BackfillTypes, DatesInv, [BackfillNext]_allVars, NEW q \in Issues, NEW i \in Items
    PROVE  /\ remote[q][i] \in Nat /\ remote'[q][i] \in Nat
           /\ remote'[q][i] >= remote[q][i]
<1>1. remote[q][i] <= clock
  BY DEF DatesInv, Resources
<1> QED
  BY <1>1, ChangesAreDated

\* What changes goes to the top of the list, so nothing else moves up.
LEMMA PositionGrows ==
    ASSUME BackfillTypes, DatesInv, [BackfillNext]_allVars, NEW q \in Issues,
           NEW e \in Known(q), (e \in Known(q))'
    PROVE  /\ Position(q, e) \in Nat /\ Position(q, e)' \in Nat
           /\ Position(q, e) <= Position(q, e)'
<1> DEFINE S == {f \in Known(q) : ListedBefore(f, e)}
           moved == [f \in S |-> <<f[1], remote'[q][f[1]]>>]
<1>1. q \in Resources /\ TypeOK /\ TypeOK'
  BY BackfillTypeStep DEF Resources, BackfillTypes
<1>2. PICK T : T = {f \in Known(q) : ListedBefore(f, e)}'
  OBVIOUS
<1>3. \A i \in Items : /\ remote[q][i] \in Nat /\ remote'[q][i] \in Nat
                       /\ remote'[q][i] >= remote[q][i]
  BY DatesAdvance
<1>4. e[1] \in Items /\ e[2] \in Nat /\ e = <<e[1], e[2]>>
  BY <1>3 DEF Known
<1>5. ASSUME NEW f \in S PROVE moved[f] \in T
  <2>1. /\ f[1] \in Items /\ f[2] = remote[q][f[1]] /\ f[2] # 0
        /\ f[2] > e[2] \/ (f[2] = e[2] /\ f[1] > e[1])
    BY <1>3 DEF Known, ListedBefore
  <2>2. PICK g : g = <<f[1], remote'[q][f[1]]>>
    OBVIOUS
  <2>3. g[1] = f[1] /\ g[2] \in Nat /\ g[2] >= f[2] /\ f[2] \in Nat
    BY <1>3, <2>1, <2>2
  <2>4. g[2] # 0 /\ ListedBefore(g, e)
    BY <1>4, <2>1, <2>3 DEF ListedBefore, Items
  <2>5. (g \in Known(q))'
    BY <2>1, <2>2, <2>3, <2>4 DEF Known
  <2>6. g \in T
    BY <1>2, <2>4, <2>5 DEF ListedBefore
  <2> QED
    BY <2>2, <2>6
<1>6. ASSUME NEW f \in S, NEW g \in S, moved[f] = moved[g] PROVE f = g
  <2>1. f = <<f[1], remote[q][f[1]]>> /\ g = <<g[1], remote[q][g[1]]>>
    BY DEF Known
  <2>2. f[1] = g[1]
    BY <1>6
  <2> QED
    BY <2>1, <2>2
<1>7. moved \in Injection(S, T)
  BY <1>5, <1>6 DEF Injection, IsInjective
<1>8. IsFiniteSet(T)
  <2>1. IsFiniteSet(Known(q))'
    BY EntriesAreFinite DEF Known
  <2>2. T \subseteq Known(q)'
    BY <1>2
  <2> QED
    BY <2>1, <2>2, FS_Subset
<1>9. /\ Cardinality(S) <= Cardinality(T)
      /\ Cardinality(S) \in Nat /\ Cardinality(T) \in Nat
  <2> HIDE DEF S, moved
  <2> QED
    BY <1>7, <1>8, FS_Injection, FS_CardinalityType
<1>10. Position(q, e) = Cardinality(S) /\ Position(q, e)' = Cardinality(T)
  BY <1>2 DEF Position
<1> QED
  BY <1>9, <1>10

-----------------------------------------------------------------------------
(* Paging *)

\* What is due was there, moves no further up, and stays stored.
LEMMA DueStep ==
    ASSUME BackfillTypes, DatesInv, [BackfillNext]_allVars, NEW q \in Issues, NEW e,
           (e \in Known(q))', remote[q][e[1]] >= e[2]
    PROVE  /\ e \in Known(q) /\ Position(q, e) <= Position(q, e)'
           /\ Position(q, e) \in Nat /\ Position(q, e)' \in Nat
           /\ mirror[q][e[1]] >= e[2] => mirror'[q][e[1]] >= e[2]
           /\ e[1] \in Items /\ e[2] \in Nat
<1>1. PICK i \in Items : e = <<i, remote'[q][i]>> /\ remote'[q][i] # Absent
  BY DEF Known
<1>2. /\ e[1] = i /\ e[2] = remote'[q][i]
      /\ remote[q][i] \in Nat /\ remote'[q][i] \in Nat /\ remote'[q][i] >= remote[q][i]
  BY <1>1, DatesAdvance
<1>3. remote[q][i] = remote'[q][i]
  BY <1>2
<1>4. e \in Known(q)
  BY <1>1, <1>3 DEF Known
<1>5. mirror[q][i] \in Nat /\ mirror'[q][i] \in Nat /\ mirror'[q][i] >= mirror[q][i]
  BY StoreOnlyAdvances
<1> QED
  BY <1>2, <1>4, <1>5, PositionGrows

\* While the command stands where it is, whatever else happens, what is due stays in
\* sight.
LEMMA PagedStep ==
    ASSUME BackfillTypes, DatesInv, [BackfillNext]_allVars, NEW p \in PagerTypes, Paged(p)
    PROVE  Paged(p)'
<1> SUFFICES ASSUME p.at # "idle", p.of \in Kept
             PROVE  Paged(p)'
  BY DEF Paged
<1>1. p.of \in Issues /\ p.due \in Pages
  BY DEF Kept, PagerTypes, NotPaged, ActivePager, FinishedPager
<1>2. \A e \in p.due : e[1] \in Items /\ e[2] \in Nat /\ remote[p.of][e[1]] >= e[2]
  BY <1>1 DEF Paged, Pages
<1>3. ASSUME NEW e \in p.due PROVE remote'[p.of][e[1]] >= e[2]
  BY <1>1, <1>2, DatesAdvance
<1>4. ASSUME NEW e \in p.due, (e \in Known(p.of))'
      PROVE  InSight(p, e)'
  <2>1. /\ e \in Known(p.of) /\ Position(p.of, e) <= Position(p.of, e)'
        /\ Position(p.of, e) \in Nat /\ Position(p.of, e)' \in Nat
        /\ mirror[p.of][e[1]] >= e[2] => mirror'[p.of][e[1]] >= e[2]
    BY <1>1, <1>2, <1>4, DueStep
  <2>2. InSight(p, e)
    BY <2>1 DEF Paged
  <2>3. p.at \in {"asking", "storing"}
           => (p.number - 1) * ListSize \in Nat /\ p.number * ListSize \in Nat
    <3>1. p.at \in {"asking", "storing"} => p.number \in Nat \ {0}
      BY DEF PagerTypes, NotPaged, ActivePager, FinishedPager
    <3> QED
      BY <3>1, PageBounds
  <2> QED
    BY <2>1, <2>2, <2>3 DEF InSight
<1> QED
  BY <1>3, <1>4 DEF Paged

\* A page takes from the list what its number says: nobody is behind an empty or a
\* short one.
LEMMA AskedPage ==
    ASSUME BackfillTypes, AskPage, Paged(pager)
    PROVE  Paged(pager)'
<1>1. PICK p \in ActivePager : p = pager /\ p.at = "asking"
  BY PagerFields DEF AskPage
<1> DEFINE q == p.of
           P == ListedPage(q, p.number)
           short == Cardinality(P) < ListSize
<1>2. /\ TypeOK /\ q \in Resources /\ p.number \in Nat \ {0} /\ UNCHANGED <<remote, mirror>>
  BY <1>1 DEF BackfillTypes, ActivePager, Resources, AskPage, vars, githubVars
<1>3. \/ pager' = NotPaged
      \/ P = {} /\ pager' = [at |-> "finished", of |-> q, due |-> p.due]
      \/ pager' = [p EXCEPT !.at = "storing", !.left = P, !.short = short]
  BY <1>1 DEF AskPage, Finished
<1>4. ASSUME p.of \in Kept
      PROVE  /\ \A e \in p.due : remote[q][e[1]] >= e[2]
             /\ \A e \in p.due \cap Known(q) :
                   \/ mirror[q][e[1]] >= e[2]
                   \/ (p.number - 1) * ListSize <= Position(q, e)
  BY <1>1, <1>4 DEF Paged, InSight
<1>5. CASE pager' = NotPaged
  BY <1>5 DEF Paged, NotPaged
<1>6. CASE P = {} /\ pager' = [at |-> "finished", of |-> q, due |-> p.due]
  <2>1. pager'.at = "finished" /\ pager'.of = q /\ pager'.due = p.due
    BY <1>6
  <2>2. \A e \in Known(q) : ~((p.number - 1) * ListSize <= Position(q, e))
    BY <1>2, <1>6, EmptyPage
  <2> QED
    BY <1>2, <1>4, <2>1, <2>2 DEF Paged, InSight, Known
<1>7. CASE pager' = [p EXCEPT !.at = "storing", !.left = P, !.short = short]
  <2>1. \A e \in Known(q) : p.number * ListSize <= Position(q, e) => ~short
    BY <1>2, FullPage
  <2>2. \A e \in Known(q) :
           (p.number - 1) * ListSize <= Position(q, e)
               => e \in P \/ p.number * ListSize <= Position(q, e)
    <3>1. \A e \in Known(q) : Position(q, e) \in Nat
      BY <1>2, PlacesAreTaken
    <3>2. p.number * ListSize \in Nat
      BY <1>2, PageBounds
    <3> QED
      BY <3>1, <3>2 DEF ListedPage
  <2> HIDE DEF P, short
  <2>3. /\ pager'.at = "storing" /\ pager'.of = q /\ pager'.due = p.due
        /\ pager'.left = P /\ pager'.short = short /\ pager'.number = p.number
    BY <1>7 DEF ActivePager
  <2>4. \A e : Position(q, e)' = Position(q, e)
    BY <1>2 DEF Position, Known
  <2>5. Known(q)' = Known(q)
    BY <1>2 DEF Known
  <2>6. ASSUME q \in Kept, NEW e \in p.due \cap Known(q)
        PROVE  \/ mirror[q][e[1]] >= e[2]
               \/ e \in P
               \/ ~short /\ p.number * ListSize <= Position(q, e)
    BY <1>4, <2>1, <2>2, <2>6
  <2> QED
    BY <1>2, <1>4, <2>3, <2>4, <2>5, <2>6 DEF Paged, InSight
<1> QED
  BY <1>3, <1>5, <1>6, <1>7

\* A row that is stored is no longer due; the next page goes on where this one ended.
LEMMA StoredRow ==
    ASSUME BackfillTypes, [BackfillNext]_allVars, StoreIssue, Paged(pager)
    PROVE  Paged(pager)'
<1>1. PICK p \in ActivePager : p = pager /\ p.at = "storing"
  BY PagerFields DEF StoreIssue
<1>2. PICK e \in p.left :
         /\ RowDone(e)
         /\ mirror' = [mirror EXCEPT ![p.of][e[1]] =
                         IF Overwrites(p.of, e[2], @) THEN e[2] ELSE @]
  BY <1>1 DEF StoreIssue
<1> DEFINE q == p.of
<1>3. /\ TypeOK /\ q \in Issues /\ p.number \in Nat \ {0} /\ UNCHANGED remote
      /\ e[1] \in Items /\ e[2] \in Nat /\ p.due \in Pages
  BY <1>1, <1>2 DEF BackfillTypes, ActivePager, StoreIssue, githubVars, Pages
<1>4. mirror'[q][e[1]] >= e[2]
  BY <1>2, <1>3, UpsertOfIssue
<1>5. \A i \in Items : /\ mirror[q][i] \in Nat /\ mirror'[q][i] \in Nat
                       /\ mirror'[q][i] >= mirror[q][i]
  BY <1>3, StoreOnlyAdvances
<1>6. ASSUME q \in Kept
      PROVE  /\ \A f \in p.due : remote'[q][f[1]] >= f[2]
             /\ \A f \in p.due \cap Known(q) :
                   \/ mirror'[q][f[1]] >= f[2]
                   \/ f \in p.left \ {e}
                   \/ ~p.short /\ p.number * ListSize <= Position(q, f)
  <2>1. \A f \in p.due : f[1] \in Items /\ f[2] \in Nat
    BY <1>3 DEF Pages
  <2>2. \A f \in p.due : remote[q][f[1]] >= f[2]
    BY <1>1, <1>6 DEF Paged
  <2>3. ASSUME NEW f \in p.due \cap Known(q)
        PROVE  \/ mirror[q][f[1]] >= f[2]
               \/ f \in p.left
               \/ ~p.short /\ p.number * ListSize <= Position(q, f)
    BY <1>1, <1>6 DEF Paged, InSight
  <2> QED
    BY <1>3, <1>4, <1>5, <2>1, <2>2, <2>3
<1>7. Known(q)' = Known(q) /\ \A f : Position(q, f)' = Position(q, f)
  BY <1>3 DEF Known, Position
<1>8. CASE pager' = [p EXCEPT !.left = p.left \ {e}]
  <2>1. /\ pager'.at = "storing" /\ pager'.of = q /\ pager'.due = p.due
        /\ pager'.left = p.left \ {e} /\ pager'.short = p.short
        /\ pager'.number = p.number
    BY <1>1, <1>8 DEF ActivePager
  <2> QED
    BY <1>6, <1>7, <2>1 DEF Paged, InSight
<1>9. CASE /\ p.left = {e} /\ p.short
           /\ pager' = [at |-> "finished", of |-> q, due |-> p.due]
  <2>1. pager'.at = "finished" /\ pager'.of = q /\ pager'.due = p.due
    BY <1>9
  <2> QED
    BY <1>6, <1>7, <1>9, <2>1 DEF Paged, InSight
<1>10. CASE /\ p.left = {e}
            /\ pager' = [p EXCEPT !.at = "asking", !.left = {}, !.number = p.number + 1]
  <2>1. /\ pager'.at = "asking" /\ pager'.of = q /\ pager'.due = p.due
        /\ pager'.number = p.number + 1
    BY <1>10 DEF ActivePager
  <2>2. pager'.number - 1 = p.number
    BY <1>3, <2>1
  <2> QED
    BY <1>6, <1>7, <1>10, <2>1, <2>2 DEF Paged, InSight
<1> QED
  BY <1>1, <1>2, <1>8, <1>9, <1>10 DEF RowDone, Finished

\* Paging starts with all that is there due, and with page 1.
LEMMA StartedPaging ==
    ASSUME BackfillTypes, StartPaging
    PROVE  Paged(pager)'
<1>1. PICK q \in Issues, max \in MaxPages :
         pager' = [at |-> "asking", of |-> q, max |-> max, number |-> 1, left |-> {},
                   short |-> FALSE, due |-> Known(q)]
  BY DEF StartPaging
<1>2. TypeOK /\ q \in Resources /\ UNCHANGED <<remote, mirror>>
  BY DEF BackfillTypes, Resources, StartPaging, vars, githubVars
<1>3. /\ pager'.at = "asking" /\ pager'.of = q /\ pager'.due = Known(q)
      /\ pager'.number - 1 = 0
  BY <1>1
<1>4. \A e \in Known(q) : remote[q][e[1]] >= e[2] /\ 0 * ListSize <= Position(q, e)
  <2>1. \A e \in Known(q) : Position(q, e) \in Nat
    BY <1>2, PlacesAreTaken
  <2>2. \A i \in Items : remote[q][i] \in Nat
    BY <1>2 DEF TypeOK
  <2>3. \A e \in Known(q) : remote[q][e[1]] >= e[2]
    BY <2>2 DEF Known
  <2> QED
    BY <2>1, <2>3
<1> QED
  BY <1>2, <1>3, <1>4 DEF Paged, InSight, Known, Position

\* Every step keeps what is due in sight.
LEMMA PagingStep ==
    BackfillTypes /\ PagingInv /\ [BackfillNext]_allVars => PagingInv'
<1> SUFFICES ASSUME BackfillTypes, PagingInv, [BackfillNext]_allVars PROVE PagingInv'
  OBVIOUS
<1>1. DatesInv /\ DatesInv' /\ Paged(pager)
  BY WindowDatesStep DEF PagingInv
<1>2. CASE UNCHANGED pager
  <2>1. PICK p \in PagerTypes : p = pager /\ Paged(p)
    BY <1>1 DEF BackfillTypes
  <2>2. Paged(p)'
    BY <1>1, <2>1, PagedStep
  <2>3. Paged(pager)'
    BY <1>2, <2>1, <2>2 DEF Paged, InSight
  <2> QED
    BY <1>1, <2>3 DEF PagingInv
<1>3. CASE SkipIssue
  <2>1. PICK p \in ActivePager : p = pager /\ p.of \in Lossy
    BY <1>3, PagerFields DEF SkipIssue
  <2>2. pager'.of = p.of
    BY <1>3, <2>1 DEF SkipIssue, RowDone, Finished, ActivePager
  <2> QED
    BY <1>1, <2>1, <2>2 DEF PagingInv, Paged, Kept
<1>4. CASE StartPaging \/ AskPage \/ StoreIssue
  BY <1>1, <1>4, StartedPaging, AskedPage, StoredRow DEF PagingInv
<1> QED
  BY <1>2, <1>3, <1>4 DEF BackfillNext, PagerStep, ChunkStep, allVars, StartBackfill,
     EndBackfill, LoadChunk, SendChunk, TouchChunk, DispatchChunk, LoseChunkItem,
     SaveChunk, FailChunk, Crash

\* When backfill-issues has come to the end of a repo nothing that was there at the
\* start and is still the same is missing, for lists and pages of any length: what
\* changes while it pages goes to the top, and never lets another issue slip past.
THEOREM PagingMissesNothing == BackfillSpec => []PagingIsComplete
<1>1. BackfillInit => PagingInv
  BY DEF BackfillInit, Init, DatesInv, NotPaged, PagingInv, Paged
<1>2. PagingInv /\ BackfillTypes => PagingIsComplete
  <2> SUFFICES ASSUME PagingInv, BackfillTypes, pager.at = "finished", pager.of \notin Lossy
               PROVE  \A e \in pager.due \cap Known(pager.of) : mirror[pager.of][e[1]] >= e[2]
    BY DEF PagingIsComplete
  <2>1. pager.of \in Kept
    BY DEF BackfillTypes, PagerTypes, NotPaged, ActivePager, FinishedPager, Kept
  <2> QED
    BY <2>1 DEF PagingInv, Paged, InSight
<1> QED
  BY <1>1, <1>2, BackfillTypeInit, BackfillTypeStep, PagingStep, PTL DEF BackfillSpec
=============================================================================
