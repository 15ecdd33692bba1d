-------------------------------- MODULE Pages --------------------------------
(***************************************************************************)
(* What is read of projects: their list, the list of a project's issues    *)
(* under a tab, a filter and a grouping, the counts on the tabs, its       *)
(* milestones and repos: the reads of dp-rest projects.rs,                 *)
(* project_issues.rs, project_views.rs, project_milestones.rs and          *)
(* project_repos.rs.                                                       *)
(*                                                                         *)
(* A page takes several statements; here it is what they return when no    *)
(* request is under way.                                                   *)
(***************************************************************************)
EXTENDS Boards, SequencesExt

CONSTANTS
    Facts,          \* of an issue: what no request here changes
    TagLinks,       \* live tags on issues: [issue, key, value, tag]
    TagKeys,        \* keys that follow the grammar of tags
    Padded,         \* texts with blanks around them, and what is between
    Blank,          \* the empty text
    Due,            \* rank of a project's due date, undated last
    StateOf,        \* of a milestone, with its content: "open" or "closed"
    DueOn,          \* rank of a milestone's
    Bodies,         \* of the views, as they were created
    Queries,
    DefaultLimit, MaxLimit, MaxCategories

Trim(x)   == IF x \in DOMAIN Padded THEN Padded[x] ELSE x
\* In an order; of two that it does not tell apart either may be first.
Sorted(S, Before(_, _)) ==
    CHOOSE s \in SetToSeqs(S) : \A i, j \in DOMAIN s : Before(s[i], s[j]) => i < j

AddUp(f) == MapThenSumSet(LAMBDA x : f[x], DOMAIN f)

\* Rows lo+1, ..., lo+n of a list.
Page(list, lo, n) == SubSeq(list, lo + 1, IF lo + n < Len(list) THEN lo + n ELSE Len(list))
Limit(n) == IF n = None \/ n <= 0 THEN DefaultLimit ELSE IF n < MaxLimit THEN n ELSE MaxLimit

-----------------------------------------------------------------------------
(* Filters *)

\* The clauses parse_filter accepts, and with it the body of a view.
WellFormed(c) ==
    CASE c.dim = "status"    -> c.value \in {"open", "closed"}
      [] c.dim = "milestone" -> c.value \in Milestones
      [] c.dim = "tag"       -> c.key \in TagKeys /\ Trim(c.value) # Blank
      [] c.dim \in {"assignee", "label"} -> Trim(c.value) # Blank
      [] OTHER               -> FALSE

Sorts == {"updated_desc", "updated_asc", "title_asc"}
ValidateGroupBy(g) == \/ g = None \/ g.dim = "status"
                      \/ g.dim = "tag" /\ g.key \in TagKeys

\* The clauses of a view keep the blanks around their values ...
ValidateFilter(raw) == \A k \in DOMAIN raw : WellFormed(raw[k])

\* ... which the slugs of its sections lose; a slug that is there twice is refused.
ValidateCategories(cs) ==
    /\ Len(cs) <= MaxCategories
    /\ \A k \in DOMAIN cs : Trim(cs[k]) \in TagKeys
    /\ \A k, n \in DOMAIN cs : k # n => Trim(cs[k]) # Trim(cs[n])

ValidateBody(b) == /\ ValidateGroupBy(b.group) /\ b.sort \in Sorts
                   /\ ValidateFilter(b.filter) /\ ValidateCategories(b.categories)

ASSUME BodiesAssumption == \A v \in Views : ValidateBody(Bodies[v])

\* There are finitely many rows; what is sorted by is a rank, and so is the value of a
\* tag; requests and clauses have their fields; and None is no row, number or status.
ASSUME PagesAssumption ==
    /\ IsFiniteSet(Ids) /\ IsFiniteSet(Issues) /\ IsFiniteSet(Milestones)
    /\ IsFiniteSet(TagLinks) /\ \A l \in TagLinks : l.issue \in Issues /\ l.value \in Int
    /\ \A i \in Issues : {Facts[i].updated, Facts[i].title, Facts[i].added} \subseteq Int
    /\ \A p \in Ids : Due[p] \in Int
    /\ \A m \in Milestones : DueOn[m] \in Int
    /\ \A c \in Contents : StateOf[c] \in {"open", "closed"}
    /\ {DefaultLimit, MaxLimit} \subseteq Nat \ {0}
    /\ \A qr \in Queries :
          /\ {"view", "state", "needle", "filter", "group", "sort", "limit", "offset"} \subseteq DOMAIN qr
          /\ qr.limit \in Int \cup {None}
    /\ \A v \in Views : \A k \in DOMAIN Bodies[v].filter :
          /\ {"dim", "value"} \subseteq DOMAIN Bodies[v].filter[k]
          /\ Bodies[v].filter[k].dim = "tag" => "key" \in DOMAIN Bodies[v].filter[k]
    /\ None \notin Int \cup Views \cup Statuses

\* The clauses of a URL lose their blanks.
ParseFilter(raw) == [k \in DOMAIN raw |-> [raw[k] EXCEPT !.value = Trim(@)]]

\* A milestone counts if a linked repo has it; an issue names it by its title.
Matches(p, i, c) ==
    CASE c.dim = "status"    -> issue[i] = c.value
      [] c.dim = "assignee"  -> c.value \in Facts[i].assignees
      [] c.dim = "label"     -> c.value \in Facts[i].labels
      [] c.dim = "tag"       -> \E l \in TagLinks : /\ l.issue = i /\ l.key = c.key
                                                    /\ l.value = c.value
      [] c.dim = "milestone" -> /\ Eligible(p, c.value)
                                /\ Facts[i].repo = RepoOf[c.value]
                                /\ Facts[i].milestone = mirror[c.value]

ApplyFilter(p, clauses, S) == {i \in S : \A k \in DOMAIN clauses : Matches(p, i, clauses[k])}

-----------------------------------------------------------------------------
(* GET /projects/{id}/issues *)

Accepted(qr) ==
    /\ qr.state \in {None, "all", "open", "closed"}
    /\ ValidateGroupBy(qr.group) /\ ValidateFilter(qr.filter)
    /\ qr.sort \in Sorts \cup {None}

\* Rows in the order they were added; a tab has its own.
Listed(p, qr) == IF qr.view = None THEN Members(p)
                 ELSE {x[2] : x \in {y \in placed : y[1] = qr.view}}

Found(p, qr) ==
    ApplyFilter(p, ParseFilter(qr.filter),
        {i \in Listed(p, qr) : /\ qr.state \in {None, "all", issue[i]}
                               /\ qr.needle = None \/ i \in qr.needle})

\* A stable sort: issues with equal keys stay in the order they were added.
SortIssues(S, sort) ==
    LET Key(i) == CASE sort = "updated_asc" -> Facts[i].updated
                    [] sort = "title_asc"   -> Facts[i].title
                    [] OTHER                -> -Facts[i].updated
    IN  Sorted(S, LAMBDA i, j : \/ Key(i) < Key(j)
                                \/ Key(i) = Key(j) /\ Facts[i].added < Facts[j].added)

\* The keys of an issue; that of an issue without the tag is None.
BucketKeys(i, g) ==
    LET values == {l.value : l \in {t \in TagLinks : t.issue = i /\ t.key = g.key}} IN
    IF g.dim = "status" THEN {issue[i]} ELSE IF values = {} THEN {None} ELSE values

\* What a bucket counts: issues, or links of issues to tags.
InBucket(S, g, k) ==
    IF g.dim = "status" \/ k = None
    THEN {[issue |-> i] : i \in {j \in S : k \in BucketKeys(j, g)}}
    ELSE {l \in TagLinks : l.issue \in S /\ l.key = g.key /\ l.value = k}

Bucket(S, g, k) ==
    LET Count(s) == Cardinality({x \in InBucket(S, g, k) : issue[x.issue] = s})
    IN  [key |-> k, open |-> Count("open"), closed |-> Count("closed")]
Size(b) == b.open + b.closed

\* Open before closed; the fullest first, and those without the tag last.
BucketBefore(g, a, b) ==
    \/ g.dim = "status" /\ a.key = "open" /\ b.key # "open"
    \/ g.dim = "tag" /\ a.key # None /\ \/ b.key = None
                                        \/ Size(a) > Size(b)
                                        \/ Size(a) = Size(b) /\ a.key < b.key

BuildBuckets(S, g) ==
    Sorted({Bucket(S, g, k) : k \in UNION {BucketKeys(i, g) : i \in S}},
           LAMBDA a, b : BucketBefore(g, a, b))

\* Filtered, counted, sorted, and then cut.
ListIssues(p, qr) ==
    LET found == Found(p, qr) IN
    [total   |-> Cardinality(found),
     buckets |-> IF qr.group = None THEN <<>> ELSE BuildBuckets(found, qr.group),
     rows    |-> Page(SortIssues(found, qr.sort), qr.offset, Limit(qr.limit))]

\* GET .../group-by-options: the keys of the tags on members.
GroupByOptions(p) ==
    {[dim |-> "status"]} \cup
    {[dim |-> "tag", key |-> l.key] : l \in {t \in TagLinks : t.issue \in Members(p)}}

\* GET /issues/{id}/project.
ProjectOf(i) == IF i \in DOMAIN member THEN member[i] ELSE None

-----------------------------------------------------------------------------
(* GET /projects/{id}/views *)

\* Mutated: whatever is on the tab.
BadgeOfAll(p, v) ==
    LET S == {x[2] : x \in {y \in placed : y[1] = v}}
    IN  [total |-> Cardinality(S), open |-> Cardinality({i \in S : issue[i] = "open"})]

\* A tab's counts: the stored clauses, over what is on it.
Badge(p, v) ==
    LET S == ApplyFilter(p, Bodies[v].filter, {x[2] : x \in {y \in placed : y[1] = v}})
    IN  [total |-> Cardinality(S), open |-> Cardinality({i \in S : issue[i] = "open"})]

ListViews(p) ==
    Sorted({[view |-> v, counts |-> Badge(p, v)] : v \in ViewsOf(p)},
           LAMBDA a, b : tab[a.view].position < tab[b.view].position)

\* GET .../views/{view_id}: a view of another project is not found.
GetView(p, v) == IF v \in ViewsOf(p) THEN tab[v] ELSE None

-----------------------------------------------------------------------------
(* Projects, milestones and repos *)

Rank(s) == IF s = "active" THEN 0 ELSE 1

\* GET /projects, by status, due date and name; a count leaves out the rows.
Filtered(f) == {p \in DOMAIN project : f.status \in {None, project[p].status}}
ListProjects(f) ==
    Sorted(Filtered(f), LAMBDA a, b :
        \/ Rank(project[a].status) < Rank(project[b].status)
        \/ project[a].status = project[b].status /\ Due[a] < Due[b])
CountProjects(f) == Cardinality(Filtered(f))

\* The states are ordered as texts, and so the closed ones come first.
ListMilestones(p, closedToo) ==
    LET S == {m \in DOMAIN mirror : /\ <<p, RepoOf[m]>> \in link
                                    /\ closedToo \/ StateOf[mirror[m]] = "open"}
    IN  Sorted(S, LAMBDA a, b :
           \/ StateOf[mirror[a]] = "closed" /\ StateOf[mirror[b]] = "open"
           \/ StateOf[mirror[a]] = StateOf[mirror[b]] /\ DueOn[a] < DueOn[b])

\* GET .../repos.
ListRepos(p) == {r \in Repos : <<p, r>> \in link}

-----------------------------------------------------------------------------
(* Properties *)

AtRest == /\ \A q \in Requests : pc[q] \in Ended \cup {"idle"}
          /\ \A e \in Edits : edit[e].at = "idle"

OnTab(v) == [view |-> v, state |-> None, needle |-> None, filter |-> Bodies[v].filter,
             group |-> Bodies[v].group, sort |-> Bodies[v].sort, limit |-> None, offset |-> 0]

\* Whether no blank surrounds a value of the view's filter: they stay in the filter
\* of the tab's counts and are lost in the one of its page.
Tidy(v) == \A k \in DOMAIN Bodies[v].filter :
              Trim(Bodies[v].filter[k].value) = Bodies[v].filter[k].value

\* The counts on a tab are those of the page it opens, whatever has been placed on
\* it, closed, or lost with a milestone or a repo.
BadgesAgree ==
    \A p \in DOMAIN project : \A k \in DOMAIN ListViews(p) :
       LET t    == ListViews(p)[k]
           S    == Found(p, OnTab(t.view)) IN
       Tidy(t.view) =>
          /\ t.counts.total = ListIssues(p, OnTab(t.view)).total
          /\ t.counts.open = Cardinality({i \in S : issue[i] = "open"})

\* Every issue found is in a bucket of the page; a bucket is not empty; by status they
\* add up to the total; and by a tag's key they hold no fewer.
BucketsHold ==
    \A p \in DOMAIN project, qr \in Queries :
       Accepted(qr) /\ qr.group # None =>
          LET l    == ListIssues(p, qr)
              keys == {l.buckets[k].key : k \in DOMAIN l.buckets}
              sum  == AddUp([k \in DOMAIN l.buckets |-> Size(l.buckets[k])])
          IN  /\ \A i \in Found(p, qr) : BucketKeys(i, qr.group) \subseteq keys
              /\ \A k \in DOMAIN l.buckets : Size(l.buckets[k]) > 0
              /\ sum >= l.total
              /\ qr.group.dim = "status" => sum = l.total

\* Page after page of a list shows each of its issues once, and the list of all
\* issues shows those whose project it is.
PagesTile ==
    \A p \in DOMAIN project, qr \in Queries :
       Accepted(qr) =>
          LET At(n) == ListIssues(p, [qr EXCEPT !.offset = n * Limit(qr.limit)])
              pages == [n \in 0..Cardinality(Issues) |-> At(n).rows]
          IN  /\ AddUp([n \in DOMAIN pages |-> Len(pages[n])]) = At(0).total
              /\ UNION {{pages[n][k] : k \in DOMAIN pages[n]} : n \in DOMAIN pages} = Found(p, qr)
              /\ qr.view = None => \A i \in Found(p, qr) : ProjectOf(i) = p

\* The counts of the statuses make up the list of all projects, and a milestone that
\* a project may adopt is on its list.
ListsAgree ==
    /\ Len(ListProjects([status |-> None])) =
          CountProjects([status |-> "active"]) + CountProjects([status |-> "archived"])
    /\ \A p \in DOMAIN project, m \in Milestones :
          Eligible(p, m) <=> \E k \in DOMAIN ListMilestones(p, TRUE) :
                                ListMilestones(p, TRUE)[k] = m

\* Between requests, what is computed agrees.
PagesAgree == AtRest => BadgesAgree /\ BucketsHold /\ PagesTile /\ ListsAgree
=============================================================================
