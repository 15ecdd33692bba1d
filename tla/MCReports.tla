------------------------------ MODULE MCReports ------------------------------
(***************************************************************************)
(* Model-checking instance: two people, two organisations with a repo each *)
(* and one with two, and events with one or two actors.  Either the        *)
(* importers write beside a report or a leaderboard, or the rows of two    *)
(* projects vary and the portfolio is asked for.                           *)
(***************************************************************************)
EXTENDS Reports

CONSTANTS p1, p2, p3, o1, o2, g1, g2, g3, e1, e2, e3, w1, j1, j2, Families

OrgOfRepo  == (g1 :> o1) @@ (g2 :> o1) @@ (g3 :> o2)
RepoOfEvent == (e1 :> g1) @@ (e2 :> g2) @@ (e3 :> g3)
KindOfEvent == (e1 :> "review") @@ (e2 :> "issue") @@ (e3 :> "review")
CreditsOf  == (e1 :> {<<p1, "author">>, <<p2, "reviewer">>, <<p2, "commenter">>})
              @@ (e2 :> {<<p2, "author">>})
              @@ (e3 :> {<<p1, "author">>, <<p2, "reviewer">>, <<p3, "author">>})
Home       == (p1 :> o1) @@ (p2 :> o2) @@ (p3 :> None)
IdOrder    == (p1 :> 1) @@ (p2 :> 2) @@ (p3 :> 3) @@ (o1 :> 4) @@ (o2 :> 5) @@ (None :> 6)
OffsetOf   == ("utc" :> 0) @@ ("east" :> 1)

R == [path |-> "team", of |-> None, users |-> {}, orgs |-> <<>>, repos |-> {}, roles |-> {},
      kinds |-> {}, tags |-> {}, scope |-> "single_org", group |-> "user",
      label |-> "last_days", zone |-> "utc", anchor |-> "utc"]
Asked ==
    { R,
      [R EXCEPT !.path = "user", !.of = p2, !.scope = "all_orgs_combined", !.orgs = <<o1, o2>>,
                !.group = "day", !.zone = "east", !.anchor = "viewer"],
      [R EXCEPT !.path = "user", !.of = p1, !.roles = {"author"}, !.label = "yesterday",
                !.group = "week", !.zone = "east"],
      [R EXCEPT !.path = "org", !.of = o1, !.group = "repo", !.kinds = {"review"},
                !.label = "today"],
      [R EXCEPT !.path = "org", !.of = o2, !.group = "org", !.label = "this_week"],
      [R EXCEPT !.path = "home_split", !.scope = "per_org_split", !.orgs = <<o1, o2>>],
      [R EXCEPT !.path = "freshness", !.scope = "all_orgs_combined", !.orgs = <<o1, o2>>],
      [R EXCEPT !.tags = {"tag"}, !.kinds = {"issue"}, !.label = "last_week"],
      [R EXCEPT !.tags = {"tag"}, !.group = "tag"],
      [R EXCEPT !.group = "tag"] }

B == [subject |-> "user", scope |-> "all_orgs_combined", orgs |-> <<o1, o2>>, kind |-> "review",
      roles |-> {"author", "reviewer", "commenter"}, label |-> "last_days", zone |-> "utc",
      anchor |-> "utc"]
Ranks ==
    { B, [B EXCEPT !.scope = "single_org"],
      [B EXCEPT !.scope = "single_org", !.orgs = <<o1>>, !.roles = {"reviewer", "commenter"}],
      [B EXCEPT !.scope = "per_org_split", !.label = "today"],
      [B EXCEPT !.subject = "org"], [B EXCEPT !.subject = "home"] }

P == [orgs |-> {}, statuses |-> {}, hide |-> FALSE, tags |-> {}, all |-> FALSE, from |-> None,
      until |-> None, limit |-> 2, offset |-> 0]
Found ==
    { P, [P EXCEPT !.hide = TRUE], [P EXCEPT !.tags = {"a", "b"}], [P EXCEPT !.limit = 0],
      [P EXCEPT !.tags = {"a", "b"}, !.all = TRUE, !.offset = 1],
      [P EXCEPT !.orgs = {o1}, !.statuses = {"done", "backlog"}, !.from = Start, !.until = Start + 2] }

Row == [org |-> o1, status |-> "active", start |-> None, due |-> None, tags |-> {},
        issues |-> 0, closed |-> 0]
RowsOf ==
    {[Row EXCEPT !.status = s, !.due = d, !.tags = t, !.start = d, !.issues = n, !.closed = n \div 2]
        : s \in {"active", "backlog", "done"}, d \in {None, Start - 1, Start + 1},
          t \in {{}, {"a"}, {"a", "b"}}, n \in {0, 3}}

\* The families of requests are looked at one at a time.
MCInit ==
    /\ ReportInit
    /\ \/ "portfolio" \in Families
       \/ "activity" \in Families /\ project = [p \in Projects |-> Row]

\* A behaviour ends with the answer; the last of its deliveries comes in the second
\* it starts in, and the clock stands still from then on.
MCNext ==
    /\ reader.at \notin {"answered", "refused"}
    /\ \/ project = [p \in Projects |-> Row] /\ ReportNext
       \/ project # [p \in Projects |-> Row] /\ (Tick \/ AskPortfolio)
    /\ deliveries' = MaxDeliveries => clock' = Start
Spec == MCInit /\ [][MCNext]_reportVars
=============================================================================
