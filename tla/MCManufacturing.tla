-------------------------- MODULE MCManufacturing --------------------------
EXTENDS Manufacturing

\* Two runs of a product with two codes, and the requests about them.
CONSTANTS m1, m2, a, b, t1, t2, t3, b1, b2, e1, e2, q1

\* Requests of a kind differ in nothing.
Symmetry == Permutations(Testers) \cup Permutations(Builders) \cup Permutations(Editors)

\* Bounds: a behaviour has one run, one request for units and several reports on
\* them, or two runs, several requests for units and one report.
Used(S) == {q \in S : pc'[q] # "idle"}
Either ==
    \/ /\ DOMAIN run' \subseteq {m1} /\ \A r \in DOMAIN run' : run'[r].code = a
       /\ Cardinality(Used(Builders)) <= 1
    \/ Cardinality(Used(Testers)) <= 1 /\ Used(Signers) = {}

MCSpec == Init /\ [][Next /\ Either]_vars
=============================================================================
