------------------------------ MODULE MCCatalog ------------------------------
(***************************************************************************)
(* Model-checking instance: either the requests for the catalogue come, on *)
(* two products and the unit of each, or those for the summary, whose      *)
(* first revision was cut before its scope was written, or webhooks, syncs *)
(* and imports of two repositories, the first tracked already.             *)
(***************************************************************************)
EXTENDS Repos

CONSTANTS r1, r2, r3, k1, k2, k3, u1, u2, j1, v1, v2, v3, a1, a2, e1, e2, e3,
          c1, c2, s1, s2, s3, t1, t2, h1, h2, h3, o1, o2, n1, n2, n3, i1, i2, i3, p1, p2,
          CatalogVerbs, SummaryVerbs, RepoVerbs

\* Requests of one kind may be exchanged, and a behaviour is about one kind; so one
\* permutation exchanges two of each, and another two revisions and two repositories.
Swap(x, y) == (x :> y) @@ (y :> x)
Symmetry == {Swap(x, s2) @@ Swap(c1, c2) @@ Swap(t1, t2) : x \in {s1, s3}}
            \cup {Swap(v2, v3) @@ Swap(i2, i3)}

Desks   == {c1, c2}
Hooks   == {t1, t2}
Writers == {s1, s2, s3}
Asked   == [q \in Requests |-> IF q \in Desks THEN CatalogVerbs
                               ELSE IF q \in Hooks THEN RepoVerbs ELSE SummaryVerbs]
Product == (u1 :> r1) @@ (u2 :> r2)
Part    == ("objective" :> "summary") @@ ("in_scope" :> "scope")
Bodies  ==
    {[content |-> (f :> t), skips |-> FALSE, skipped |-> {}] : f \in Fields, t \in Texts}
    \cup {[content |-> <<>>, skips |-> TRUE, skipped |-> s] : s \in {{}, {"documents", "legal"}}}

Row(k) == [kind |-> "product", key |-> k, product |-> None, unit |-> None,
              status |-> "active", archived |-> FALSE, version |-> 1]
Old == [status |-> "draft", content |-> ("objective" :> "text") @@ ("in_scope" :> Null),
        skipped |-> {}]

\* "app" is part of "app-web", and a name is part of the second owner's login; the
\* second pull request was merged before it was made.
InNames == (n1 :> {n1, n2}) @@ (n2 :> {n2}) @@ (n3 :> {n3, o2})
Event   == [hub |-> h1, node |-> "m1", kind |-> "pull_request_merged", counted |-> TRUE,
            actors |-> {<<p1, "author">>, <<p2, "merger">>}, hour |-> 30, size |-> 10,
            took |-> 4, verdict |-> Null]
Told    ==
    ("merged" :> Event)
    @@ ("other" :> [Event EXCEPT !.node = "m2", !.hour = 71, !.size = 30, !.took = -1,
                                 !.actors = {<<p2, "author">>}])
    @@ ("run" :> [Event EXCEPT !.hub = h2, !.node = "x1", !.kind = "workflow_run",
                               !.verdict = "skipped", !.hour = 71, !.actors = {<<p1, "author">>}])
    @@ ("undecided" :> [Event EXCEPT !.hub = h2, !.node = "x2", !.kind = "workflow_run",
                                     !.actors = {}])
    @@ ("labeled" :> [Event EXCEPT !.hub = h2, !.node = "m3", !.counted = FALSE])
    @@ ("review" :> [Event EXCEPT !.hub = h3, !.kind = "review", !.actors = {<<p2, "reviewer">>}])
    @@ ("comment" :> [Event EXCEPT !.hub = h3, !.kind = "review_comment", !.counted = FALSE,
                                   !.actors = {<<p2, "commenter">>}])
    @@ ("deployed" :> [Event EXCEPT !.hub = h3, !.kind = "deployment", !.actors = {}])
    @@ ("released" :> [Event EXCEPT !.hub = h3, !.kind = "release", !.actors = {}])
Moves   == {<<o1, n3>>, <<o2, n1>>}
Days    == {[since |-> None, until |-> None], [since |-> 40, until |-> 40]}

Chosen ==
    /\ record = (r1 :> Row(k1)) @@ (r2 :> Row(k2))
    /\ link = {} /\ manual = 1 /\ paper = <<>> /\ blob = {}
    /\ revision \in {(v1 :> "published") @@ (v2 :> "draft"), (v1 :> "draft") @@ (v2 :> "draft")}
    /\ summary \in {NoRow, Old,
                    [Old EXCEPT !.content["in_scope"] = "text", !.skipped = {"documents"}]}
    /\ log = IF summary = NoRow THEN <<>> ELSE e1 :> Old
    /\ synced = {} /\ tick = None /\ snapshot = <<>>
    /\ \E of \in {Desks, Writers, Hooks} :
       /\ IF of = Hooks
          THEN /\ \/ /\ hub = h3 :> [owner |-> o2, name |-> n3]
                     /\ org = {} /\ repo = <<>> /\ happened = <<>>
                  \/ /\ hub = (h1 :> [owner |-> o1, name |-> n1])
                              @@ (h2 :> [owner |-> o1, name |-> n2])
                     /\ org = {o1} /\ repo = i1 :> [org |-> o1, hub |-> h1, name |-> n1]
                     /\ happened = KeyOf("merged") :>
                                     [repo |-> i1, thing |-> "merged", full |-> TRUE]
          ELSE hub = <<>> /\ org = {} /\ repo = <<>> /\ happened = <<>>
       /\ of # Writers => summary = NoRow
       /\ of # Desks => revision[v1] = "draft"
       /\ was = {<<h, hub[h].owner, hub[h].name>> : h \in DOMAIN hub}
       /\ credited = {<<KeyOf("merged"), c[1], c[2]>> : c \in
                         IF happened = <<>> THEN {} ELSE Event.actors}
       /\ pc = [q \in Requests |-> IF q \in of THEN "idle" ELSE "done"]
    /\ form = [q \in Requests |-> NoForm]
MCInit == Chosen /\ Init
\* Of the two repositories that are there, the first is moved.
Apart == h2 \in DOMAIN hub => hub'[h2] = hub[h2]
MCSpec == MCInit /\ [][Next /\ Apart]_vars
=============================================================================
