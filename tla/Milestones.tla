------------------------------ MODULE Milestones ------------------------------
(***************************************************************************)
(* The repos linked to a project, the mirror of their GitHub milestones,   *)
(* and the milestone a project adopts as its primary one: dp-rest          *)
(* project_repos.rs and project_milestones.rs over store/milestones.rs.    *)
(*                                                                         *)
(* A write goes to GitHub first and its response is stored after.  The     *)
(* mirror has no other source: nothing polls milestones or handles their   *)
(* webhooks.                                                               *)
(***************************************************************************)
EXTENDS Projects

CONSTANTS Repos, Milestones, RepoOf, None,
          MaxEdits          \* bound: changes of a milestone on GitHub

ASSUME MilestonesAssumption == MaxEdits \in Nat \ {0} /\ None \notin Milestones

VARIABLES
    link,       \* dp_project_repos
    primary,    \* dp_projects.primary_milestone_id
    mirror,     \* dp_milestones: the content of each row
    remote,     \* GitHub's: a number for each content there has been
    edits,      \* contents handed out
    uncertain   \* history: milestones with overlapping or broken-off writes

msVars  == <<link, primary, mirror, remote, edits, uncertain>>
allVars == <<vars, msVars>>

Contents == 1..MaxEdits

MilestonesTypeOK ==
    /\ TypeOK
    /\ link \subseteq (DOMAIN project) \X Repos
    /\ DOMAIN primary = DOMAIN project
    /\ \A p \in DOMAIN primary : primary[p] \in DOMAIN mirror \cup {None}
    /\ DOMAIN mirror \cup DOMAIN remote \subseteq Milestones
    /\ \A m \in DOMAIN mirror : mirror[m] \in Contents
    /\ \A m \in DOMAIN remote : remote[m] \in Contents
    /\ edits \in 0..MaxEdits /\ uncertain \subseteq Milestones

Eligible(p, m) == m \in DOMAIN mirror /\ <<p, RepoOf[m]>> \in link

-----------------------------------------------------------------------------
(* Repos *)

With(p, r) == link \cup {<<p, r>>}
Without(p, r) == link \ {<<p, r>>}

\* PUT: reads of project and repo, then an insert that may find its row.
LinkRepo(q) ==
    \E p \in DOMAIN project, r \in Repos :
       /\ pc[q] = "idle" /\ ~ProjectLocked(p)
       /\ link' = With(p, r)
       /\ Goto(q, "done")
       /\ UNCHANGED <<rows, primary, mirror, remote, edits, uncertain>>

\* DELETE; the primary milestone stays.
UnlinkRepo(q) ==
    \E x \in link :
       /\ pc[q] = "idle"
       /\ link' = Without(x[1], x[2])
       /\ Goto(q, "done")
       /\ UNCHANGED <<rows, primary, mirror, remote, edits, uncertain>>

-----------------------------------------------------------------------------
(* The primary milestone *)

AskAdopt(q) ==
    \E p \in DOMAIN project, m \in Milestones \cup {None} :
       /\ pc[q] = "idle"
       /\ Go(q, "asked", [verb |-> "adopt", project |-> p, milestone |-> m])
       /\ UNCHANGED <<rows, msVars>>

\* The check of the link ...
CheckLink(q) ==
    /\ Is(q, "adopt", "asked")
    /\ IF form[q].milestone = None \/ Eligible(P(q), form[q].milestone)
         THEN Goto(q, "read") ELSE End(q, "refused")
    /\ UNCHANGED <<rows, msVars>>

\* ... is a statement of its own.  The version makes forms of the project stale; a
\* milestone deleted meanwhile fails the foreign key.
AdoptMilestone(q) ==
    LET p == P(q) IN
    /\ Is(q, "adopt", "read") /\ ~ProjectLocked(p)
    /\ IF form[q].milestone \in DOMAIN mirror \cup {None}
         THEN /\ primary' = [primary EXCEPT ![p] = form[q].milestone]
              /\ project' = [project EXCEPT ![p].version = @ + 1]
              /\ End(q, "done")
         ELSE End(q, "failed") /\ UNCHANGED <<primary, project>>
    /\ UNCHANGED <<issue, member, tab, placed, link, mirror, remote, edits, uncertain>>

-----------------------------------------------------------------------------
(* Milestones *)

Writes == {"new milestone", "edit milestone", "drop milestone"}

\* Requests that are about milestone m and have not ended.
OnMilestone(m) == {q \in Requests : /\ pc[q] \in {"read", "answered"}
                                    /\ form[q].verb \in Writes
                                    /\ form[q].milestone = m}
Disturb(q, m) == uncertain' = IF OnMilestone(m) \ {q} = {} THEN uncertain
                              ELSE uncertain \cup {m}

\* POST .../milestones: the repo of the milestone must be linked.
AskNewMilestone(q) ==
    \E p \in DOMAIN project, m \in Milestones \ DOMAIN remote :
       /\ pc[q] = "idle" /\ m \notin DOMAIN mirror /\ OnMilestone(m) = {}
       /\ <<p, RepoOf[m]>> \in link
       /\ Go(q, "read", [verb |-> "new milestone", project |-> p, milestone |-> m,
                       payload |-> 0])
       /\ UNCHANGED <<rows, msVars>>

\* PATCH and DELETE: the milestone must be on the project's list.
ResolveMilestone(q, verb) ==
    \E p \in DOMAIN project, m \in Milestones :
       /\ pc[q] = "idle" /\ Eligible(p, m)
       /\ Go(q, "read", [verb |-> verb, project |-> p, milestone |-> m, payload |-> 0])
       /\ UNCHANGED <<rows, msVars>>
AskEditMilestone(q) == ResolveMilestone(q, "edit milestone")
AskDropMilestone(q) == ResolveMilestone(q, "drop milestone")

\* What GitHub answers to a create or an edit is the milestone's new content.
GitHubWrites(q) ==
    LET m == form[q].milestone IN
    /\ edits < MaxEdits /\ edits' = edits + 1
    /\ remote' = Put(remote, m, edits')
    /\ Go(q, "answered", [form[q] EXCEPT !.payload = edits'])
    /\ Disturb(q, m)
    /\ UNCHANGED <<rows, link, primary, mirror>>
GitHubCreates(q) == Is(q, "new milestone", "read") /\ GitHubWrites(q)
GitHubEdits(q)   == /\ Is(q, "edit milestone", "read") /\ form[q].milestone \in DOMAIN remote
                    /\ GitHubWrites(q)
GitHubDeletes(q) ==
    LET m == form[q].milestone IN
    /\ Is(q, "drop milestone", "read") /\ m \in DOMAIN remote
    /\ remote' = [o \in DOMAIN remote \ {m} |-> remote[o]]
    /\ Goto(q, "answered")
    /\ Disturb(q, m)
    /\ UNCHANGED <<rows, link, primary, mirror, edits>>

\* GitHub refuses, or the milestone is not there.
GitHubRefuses(q) ==
    /\ pc[q] = "read" /\ form[q].verb \in Writes
    /\ End(q, "refused") /\ UNCHANGED <<rows, msVars>>

\* Mutated: a row that exists is left as it is.
UpsertUnlessPresent(m, c) == IF m \in DOMAIN mirror THEN mirror ELSE Put(mirror, m, c)

\* ON CONFLICT (repo_id, github_number) DO UPDATE, whatever the row holds.
UpsertMilestone(m, c) == Put(mirror, m, c)

StoreMilestone(q) ==
    LET m == form[q].milestone IN
    /\ \/ Is(q, "new milestone", "answered") \/ Is(q, "edit milestone", "answered")
    /\ mirror' = UpsertMilestone(m, form[q].payload)
    /\ End(q, "done")
    /\ Disturb(q, m)
    /\ UNCHANGED <<rows, link, primary, remote, edits>>

\* Mutated: nothing clears the primary.
DeleteMilestoneAlone(q) ==
    LET m == form[q].milestone IN
    /\ Is(q, "drop milestone", "answered")
    /\ mirror' = [o \in DOMAIN mirror \ {m} |-> mirror[o]]
    /\ End(q, "done")
    /\ Disturb(q, m)
    /\ UNCHANGED <<rows, link, primary, remote, edits>>

\* DELETE FROM dp_milestones; ON DELETE SET NULL clears the primary without a
\* new version.  That the row is gone is no error.
DeleteMilestone(q) ==
    LET m == form[q].milestone IN
    /\ Is(q, "drop milestone", "answered")
    /\ \A p \in DOMAIN project : primary[p] = m => ~ProjectLocked(p)
    /\ mirror' = [o \in DOMAIN mirror \ {m} |-> mirror[o]]
    /\ primary' = [p \in DOMAIN primary |-> IF primary[p] = m THEN None ELSE primary[p]]
    /\ End(q, "done")
    /\ Disturb(q, m)
    /\ UNCHANGED <<rows, link, remote, edits>>

\* The payload does not parse, or the statement fails.
StoreFails(q) ==
    /\ pc[q] = "answered" /\ form[q].verb \in Writes
    /\ End(q, "failed")
    /\ uncertain' = uncertain \cup {form[q].milestone}
    /\ UNCHANGED <<rows, link, primary, mirror, remote, edits>>

-----------------------------------------------------------------------------
\* Some milestones ms that have been mirrored, each with its first content.
InitMilestones(ls, ms) ==
    /\ ls \subseteq (DOMAIN project) \X Repos /\ ms \subseteq Milestones
    /\ link = ls /\ primary = [p \in DOMAIN project |-> None]
    /\ mirror = [m \in ms |-> 1] /\ remote = mirror
    /\ edits = 1 /\ uncertain = {}

\* A project comes without a primary milestone.
ProjectsStep ==
    /\ ProjectsNext
    /\ primary' = [p \in DOMAIN project' |-> IF p \in DOMAIN primary THEN primary[p]
                                             ELSE None]
    /\ UNCHANGED <<link, mirror, remote, edits, uncertain>>

MilestonesNext ==
    \E q \in Requests :
       \/ LinkRepo(q) \/ UnlinkRepo(q)
       \/ AskAdopt(q) \/ CheckLink(q) \/ AdoptMilestone(q)
       \/ AskNewMilestone(q) \/ AskEditMilestone(q) \/ AskDropMilestone(q)
       \/ GitHubCreates(q) \/ GitHubEdits(q) \/ GitHubDeletes(q) \/ GitHubRefuses(q)
       \/ StoreMilestone(q) \/ DeleteMilestone(q) \/ StoreFails(q)

Next == ProjectsStep \/ MilestonesNext

-----------------------------------------------------------------------------
(* Properties *)

\* The mirror of a milestone is what GitHub has, unless a request about it is
\* between GitHub and the store, two of them have met, or one has broken off.
MirrorFollows ==
    \A m \in Milestones \ uncertain :
       OnMilestone(m) = {} =>
          /\ m \in DOMAIN mirror <=> m \in DOMAIN remote
          /\ m \in DOMAIN mirror => mirror[m] = remote[m]
=============================================================================
