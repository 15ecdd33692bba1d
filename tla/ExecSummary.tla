----------------------------- MODULE ExecSummary -----------------------------
(***************************************************************************)
(* The executive summary of a project: a row that is made when it is first *)
(* written, patched field by field, submitted for review when enough of    *)
(* its eight sections are complete, approved, reverted; a change log whose *)
(* entries hold snapshots of the content that can be restored.  dp-rest    *)
(* project_exec_summary.rs, store/project_exec_summary.rs and the types of *)
(* dp-domain project_exec_summary.rs.                                      *)
(***************************************************************************)
EXTENDS Catalog

CONSTANTS
    Fields,     \* the content fields kept here
    SectionOf,  \* field -> section
    Given,      \* sections whose other fields are all filled in
    Texts,      \* what people write
    Null,       \* a column nobody has written
    Empty,      \* the empty text
    Patches,    \* bodies of PATCH requests
    Entries,    \* ids of change-log entries
    Threshold   \* EXEC_SUMMARY_SUBMIT_THRESHOLD_PERCENT

\* A PATCH names the fields it changes, and may replace the set of sections that
\* are not needed.
PatchBodies == [content : UNION {[F -> Texts] : F \in SUBSET Fields},
                skips : BOOLEAN, skipped : SUBSET STRING]

ASSUME SummaryAssumption ==
    /\ SectionOf \in [Fields -> STRING] /\ Threshold \in 0..100
    /\ \A p \in Patches : p \in PatchBodies
    /\ Null \notin Texts /\ Empty \in Texts

VARIABLES
    summary,    \* dp_project_exec_summary
    log         \* ..._changelog: id -> snapshot

summaryVars == <<summary, log>>
summaryAll == <<catalog, summaryVars, pc, form>>

Statuses == {"none", "draft", "in_review", "approved"}
Sections == {"summary", "scope", "requirements", "hardware", "commercial",
             "documents", "approval", "changelog"}
Blank    == [f \in Fields |-> Null]
NoRow    == [status |-> "none", content |-> Blank, skipped |-> {}]

\* The rows of the child tables.
Images    == {i \in DOMAIN paper : paper[i] = "image"}
Documents == {i \in DOMAIN paper : paper[i] = "summary document"}

\* What a summary is complete in: columns that are filled, rows of the child
\* tables, its status, and whatever section it is said not to need.
Complete(s) ==
    {n \in Sections \ {"documents", "approval", "changelog"} :
        /\ n \in Given \cup {SectionOf[f] : f \in Fields}
        /\ \A f \in Fields : SectionOf[f] = n => s.content[f] \notin {Null, Empty}}
    \cup {n \in {"hardware"} : Images # {}}
    \cup {n \in {"documents"} : Documents # {}}
    \cup {n \in {"approval"} : s.status = "approved"}
    \cup {n \in {"changelog"} : DOMAIN log # {}}
    \cup (s.skipped \cap Sections)

\* Mutated: rounded up.
PercentUp(done) == (done * 100 + 40) \div 8

\* ExecSummaryCompletion::percent
Percent(done) == (done * 100 + 4) \div 8

-----------------------------------------------------------------------------
AskPatch(q)   == \E p \in Patches : Ask(q, [verb |-> "patch", patch |-> p])
AskSubmit(q)  == \E b \in BOOLEAN : Ask(q, [verb |-> "submit", force |-> b, read |-> {}])
AskApproval(q) == Ask(q, [verb |-> "approve"]) \/ Ask(q, [verb |-> "revert"])
AskEntry(q)   == Ask(q, [verb |-> "append", snapshot |-> NoRow])
AskRestore(q) ==
    \E e \in DOMAIN log :
       \/ Ask(q, [verb |-> "restore", entry |-> e, patch |-> NoRow, snapshot |-> NoRow])
       \/ Ask(q, [verb |-> "forget", entry |-> e])

\* INSERT ... ON CONFLICT DO NOTHING
EnsureRow(q, verb, at) ==
    /\ Is(q, verb, at) /\ Goto(q, "ensured")
    /\ summary' = IF summary.status = "none" THEN [summary EXCEPT !.status = "draft"]
                                             ELSE summary
    /\ UNCHANGED log

\* CASE WHEN <set> THEN <value> ELSE <column> END for every column; the set of
\* skipped sections is replaced as a whole.
Patched(s, p) ==
    [s EXCEPT !.content = [f \in Fields |-> IF f \in DOMAIN p.content THEN p.content[f] ELSE @[f]],
              !.skipped = IF p.skips THEN p.skipped ELSE @]

PatchSummary(q) ==
    \/ EnsureRow(q, "patch", "admitted")
    \/ /\ Is(q, "patch", "ensured") /\ summary' = Patched(summary, form[q].patch)
       /\ End(q, "done") /\ UNCHANGED log

\* The gate reads what is complete; the row is moved by a later statement, which
\* looks at the status alone.
ReadCompletion(q) ==
    LET done == Percent(Cardinality(Complete(summary))) IN
    /\ Is(q, "submit", "admitted")
    /\ IF summary.status = "none" THEN End(q, "missing")
         ELSE IF ~form[q].force /\ done < Threshold THEN End(q, "incomplete")
         ELSE Go(q, "complete", [form[q] EXCEPT !.read = Complete(summary)])
    /\ UNCHANGED summaryVars

Transition(q, verb, at, from, to) ==
    /\ Is(q, verb, at)
    /\ IF summary.status = from
         THEN summary' = [summary EXCEPT !.status = to] /\ End(q, "done")
         ELSE /\ End(q, IF summary.status = "none" THEN "missing" ELSE "stale")
              /\ UNCHANGED summary
    /\ UNCHANGED log

SubmitSummary(q)  == Transition(q, "submit", "complete", "draft", "in_review")
ApproveSummary(q) == Transition(q, "approve", "admitted", "in_review", "approved")

\* From any status, so that a click that comes late still succeeds.
Reverted(q) ==
    IF summary.status = "none" THEN End(q, "missing") /\ UNCHANGED summary
    ELSE summary' = [summary EXCEPT !.status = "draft"] /\ End(q, "done")

RevertSummary(q) == Is(q, "revert", "admitted") /\ Reverted(q) /\ UNCHANGED log

-----------------------------------------------------------------------------
(* The change log *)

\* snapshot_of: every field, with the columns that hold nothing as nulls.
ReadSnapshot(q, verb, at) ==
    /\ Is(q, verb, at) /\ Go(q, "read", [form[q] EXCEPT !.snapshot = summary])
    /\ UNCHANGED summaryVars

InsertEntry(q, verb) ==
    /\ Is(q, verb, "read") /\ End(q, "done")
    /\ \E e \in Entries \ DOMAIN log : log' = With(log, e, form[q].snapshot)
    /\ UNCHANGED summary

AppendEntry(q) == ReadSnapshot(q, "append", "admitted") \/ InsertEntry(q, "append")

DeleteEntry(q) ==
    /\ Is(q, "forget", "admitted")
    /\ log' = [e \in DOMAIN log \ {form[q].entry} |-> log[e]]
    /\ End(q, IF form[q].entry \in DOMAIN log THEN "done" ELSE "missing")
    /\ UNCHANGED summary

\* The patch a stored snapshot is read back as: a null is a field that is absent.
AsPatch(s) ==
    [content |-> [f \in {g \in Fields : s.content[g] # Null} |-> s.content[f]],
     skips |-> TRUE, skipped |-> s.skipped]

ReadEntry(q) ==
    LET e == form[q].entry IN
    /\ Is(q, "restore", "admitted")
    /\ IF e \notin DOMAIN log THEN End(q, "missing")
         ELSE IF log[e].status = "none" THEN End(q, "invalid")
         ELSE Go(q, "found", [form[q] EXCEPT !.patch = AsPatch(log[e]), !.snapshot = log[e]])
    /\ UNCHANGED summaryVars

ApplySnapshot(q) ==
    /\ Is(q, "restore", "ensured")
    /\ summary' = Patched(summary, form[q].patch) /\ UNCHANGED log
    /\ Goto(q, "patched")

\* What is live by now becomes an entry of its own.
RestoreEntry(q) ==
    \/ ReadEntry(q) \/ EnsureRow(q, "restore", "found") \/ ApplySnapshot(q)
    \/ ReadSnapshot(q, "restore", "patched") \/ InsertEntry(q, "restore")

-----------------------------------------------------------------------------
(* Images and documents *)

AskAttachment(q) == AskPaper(q, "summary document") \/ AskPaper(q, "image")

UploadImage(q)    == Handles(q, "upload", "image") /\ (PutBlob(q) \/ InsertPaper(q))
UploadDocument(q) == Handles(q, "upload", "summary document")
                     /\ (PutBlob(q) \/ InsertPaper(q))
DeleteImage(q)    == Handles(q, "remove", "image") /\ DeletePaper(q)
DeleteDocument(q) == Handles(q, "remove", "summary document") /\ DeletePaper(q)

\* What the proxy streams: the row is looked up by its kind, the blob follows.
Proxied(i) == i \in Images \cup Documents /\ i \in blob

-----------------------------------------------------------------------------
SummarySteps(q) ==
    \/ PatchSummary(q) \/ ReadCompletion(q) \/ SubmitSummary(q) \/ ApproveSummary(q)
    \/ RevertSummary(q) \/ AppendEntry(q) \/ DeleteEntry(q) \/ RestoreEntry(q)

AttachmentSteps(q) ==
    UploadImage(q) \/ UploadDocument(q) \/ DeleteImage(q) \/ DeleteDocument(q)

SummaryAsks(q) ==
    /\ pc[q] = "idle"
    /\ \/ AskPatch(q) \/ AskSubmit(q) \/ AskApproval(q) \/ AskEntry(q)
       \/ AskRestore(q) \/ AskAttachment(q)

SummaryNext ==
    \E q \in Unfinished :
       \/ (CatalogSteps(q) \/ CatalogAsks(q) \/ AttachmentSteps(q)) /\ UNCHANGED summaryVars
       \/ SummarySteps(q) /\ UNCHANGED catalog
       \/ SummaryAsks(q) /\ UNCHANGED <<catalog, summaryVars>>

-----------------------------------------------------------------------------
Values == Texts \cup {Null}
Rowed  == [status : Statuses, content : [Fields -> Values], skipped : SUBSET STRING]

SummaryTypeOK ==
    /\ CatalogTypeOK
    /\ summary \in Rowed
    /\ summary.status = "none" => summary = NoRow
    /\ DOMAIN log \subseteq Entries /\ \A e \in DOMAIN log : log[e] \in Rowed
    /\ \A i \in DOMAIN paper : paper[i] # "document" => Proxied(i)

\* A summary that goes to review unforced has seven of its eight sections complete,
\* unless a section was emptied after the gate had looked: the only way in is the
\* race (submit_project_exec_summary, and the rounding of percent).
GateHolds ==
    [][\A q \in Requests :
          Is(q, "submit", "complete") /\ pc'[q] = "done" /\ ~form[q].force
             => \/ Cardinality(Complete(summary)) >= 7
                \/ \E n \in form[q].read : n \notin Complete(summary)]_summaryAll

\* Claimed of snapshot_of (dp-domain project_exec_summary.rs): read back and patched
\* in, it restores the summary to this exact content.
RestoreIsExact ==
    [][\A q \in Requests :
          Is(q, "restore", "ensured") /\ pc'[q] = "patched"
             => summary'.content = form[q].snapshot.content]_summaryAll
=============================================================================
