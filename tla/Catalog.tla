------------------------------- MODULE Catalog -------------------------------
(***************************************************************************)
(* The product catalogue: the parties, products, their releases and the    *)
(* returns (RMA) of their units, which are rows with a version and a key;  *)
(* the manuals and their revisions; the documents uploaded to a blob       *)
(* store.  dp-rest parties.rs, products.rs, product_releases.rs, rma.rs    *)
(* and product_manuals.rs, and the files of store/ with the same names.    *)
(*                                                                         *)
(* A request is made once; each of its steps is a statement, or a          *)
(* statement of its transaction.  Rows are archived, never deleted.        *)
(***************************************************************************)
EXTENDS Integers, FiniteSets, TLC

CONSTANTS
    Rows,       \* ids of parties, products, releases and returns
    Keys,       \* names, model numbers, versions of releases, RMA numbers
    Units,      \* serial numbers that may be returned
    UnitOf,     \* unit -> the product it is of
    Projects,   \* projects products are linked to
    Revisions,  \* ids of the revisions of the one manual
    Papers,     \* ids of documents and images
    None,
    Requests,
    Verbs       \* request -> what it may ask for

ASSUME CatalogAssumption == None \notin Rows \cup Units \cup Revisions

VARIABLES
    record,     \* dp_manufacturers, dp_suppliers, dp_customers, dp_products,
                \* dp_product_releases, dp_rma_returns
    link,       \* dp_product_project_links
    manual,     \* its version
    revision,   \* dp_product_manual_revisions: id -> status
    paper,      \* rows of documents and images: id -> kind
    blob,       \* what the blob store holds
    pc,         \* where a request is
    form        \* what it asks and has read

catalog == <<record, link, manual, revision, paper, blob>>

Parties == {"manufacturer", "supplier", "customer"}
Kinds  == Parties \cup {"product", "release", "rma"}
States == {"active", "archived"}
NoForm == [verb |-> "none"]

Is(q, verb, at) == pc[q] = at /\ form[q].verb = verb
Go(q, at, f)    == pc' = [pc EXCEPT ![q] = at] /\ form' = [form EXCEPT ![q] = f]
Goto(q, at)     == Go(q, at, form[q])
End(q, how)     == Go(q, how, NoForm)

\* Requests that have a step to make.
Unfinished == {q \in Requests : pc[q] = "idle" \/ form[q] # NoForm}

\* A row that is new, or replaces the one of its id.
With(rows, i, row) == [j \in DOMAIN rows \cup {i} |-> IF j = i THEN row ELSE rows[j]]

Ask(q, f) == pc[q] = "idle" /\ f.verb \in Verbs[q] /\ Go(q, "admitted", f)

-----------------------------------------------------------------------------
(* Rows with a key and a version *)

Rest == <<link, manual, revision, paper, blob>>

Live(kind) == {i \in DOMAIN record : record[i].kind = kind /\ ~record[i].archived}

\* The unique indexes: names of parties, model numbers and RMA numbers of the org,
\* versions of a product; archived rows do not count.
KeyIsFree(i, kind, product, key) ==
    \A j \in Live(kind) \ {i} :
       record[j].key # key \/ (kind = "release" /\ record[j].product # product)

Creates(q, kind) == /\ Is(q, "create", "admitted") /\ form[q].kind = kind
                    /\ UNCHANGED Rest
Edits(q, kind)   == /\ Is(q, "edit", "admitted") /\ record[form[q].id].kind = kind
                    /\ UNCHANGED Rest
Drops(q, kind)   == /\ form[q].verb = "archive" /\ record[form[q].id].kind = kind
                    /\ UNCHANGED Rest

Refuse(q, how) == End(q, how) /\ UNCHANGED record

\* INSERT: a row without an archived_at, at version 1.
Insert(q) ==
    LET f == form[q] IN
    IF ~KeyIsFree(None, f.kind, f.product, f.key) THEN Refuse(q, "taken")
    ELSE \E i \in Rows \ DOMAIN record :
           /\ record' = With(record, i,
                             [kind |-> f.kind, key |-> f.key, product |-> f.product,
                              unit |-> f.unit, status |-> "active",
                              archived |-> FALSE, version |-> 1])
           /\ End(q, "done")

\* UPDATE ... WHERE id = $1 AND version = $2: everything the form holds is written
\* if the version is still the one it was opened at.
Update(q, new) ==
    LET f == form[q]
        r == record[f.id]
    IN
    IF r.version # f.seen.version THEN Refuse(q, "stale")
    ELSE IF ~r.archived /\ ~KeyIsFree(f.id, r.kind, r.product, new.key)
    THEN Refuse(q, "taken")
    ELSE record' = [record EXCEPT ![f.id] = new] /\ End(q, "done")

\* A row that is archived already is answered as it is, whatever the version.
ReadArchived(q) ==
    /\ pc[q] = "admitted"
    /\ IF record[form[q].id].archived THEN End(q, "already") ELSE Goto(q, "read")
    /\ UNCHANGED record

Hide(q, new) ==
    LET f == form[q] IN
    /\ pc[q] = "read"
    /\ IF record[f.id].version # f.seen.version THEN Refuse(q, "stale")
       ELSE record' = [record EXCEPT ![f.id] = new] /\ End(q, "done")

\* What the requests carry: a new row, a row as the form shows it and what is put
\* in its place, a row to archive.
AskNew(q, kind, key, product, unit) ==
    Ask(q, [verb |-> "create", kind |-> kind, key |-> key, product |-> product,
            unit |-> unit])
AskEdit(q, i, key, status, unit) ==
    Ask(q, [verb |-> "edit", id |-> i, seen |-> record[i], key |-> key,
            status |-> status, unit |-> unit])
AskArchive(q, i) == Ask(q, [verb |-> "archive", id |-> i, seen |-> record[i]])

-----------------------------------------------------------------------------
(* Parties: manufacturers, suppliers, customers *)

AskParty(q, kind) ==
    \/ \E key \in Keys : AskNew(q, kind, key, None, None)
    \/ \E i \in Live(kind) :
          \/ AskArchive(q, i)
          \/ \E key \in Keys : AskEdit(q, i, key, record[i].status, None)

\* What an update of a party, an archival of a row, leave of it.
PartyAfter(r, f) == [r EXCEPT !.key = f.key, !.version = @ + 1]

\* Mutated: the version is left alone.
HideRecord(r) == [r EXCEPT !.archived = TRUE]

Archived(r) == [r EXCEPT !.archived = TRUE, !.version = @ + 1]

Creation(q, kind) == Creates(q, kind) /\ Insert(q)
Edition(q, kind)  == Edits(q, kind) /\ Update(q, PartyAfter(record[form[q].id], form[q]))
Archival(q, kind) == /\ Drops(q, kind)
                     /\ ReadArchived(q) \/ Hide(q, Archived(record[form[q].id]))

CreateManufacturer(q)  == Creation(q, "manufacturer")
PatchManufacturer(q)   == Edition(q, "manufacturer")
ArchiveManufacturer(q) == Archival(q, "manufacturer")
CreateSupplier(q)      == Creation(q, "supplier")
PatchSupplier(q)       == Edition(q, "supplier")
ArchiveSupplier(q)     == Archival(q, "supplier")
CreateCustomer(q)      == Creation(q, "customer")
PatchCustomer(q)       == Edition(q, "customer")
ArchiveCustomer(q)     == Archival(q, "customer")

-----------------------------------------------------------------------------
(* Products, releases and returns *)

Products       == {i \in DOMAIN record : record[i].kind = "product"}
Returns        == {i \in DOMAIN record : record[i].kind = "rma"}
IsProduct(i)   == i \in Products
UnitFits(u, p) == u = None \/ UnitOf[u] = p

\* A form for a product may be opened on an archived one; the list of releases
\* leaves those out.
AskProduct(q) ==
    \/ \E key \in Keys : AskNew(q, "product", key, None, None)
    \/ \E i \in Products :
          \/ AskArchive(q, i)
          \/ \E key \in Keys, s \in States : AskEdit(q, i, key, s, None)

AskRelease(q) ==
    \/ \E key \in Keys, p \in Rows : AskNew(q, "release", key, p, None)
    \/ \E i \in Live("release") :
          \/ AskArchive(q, i)
          \/ \E key \in Keys : AskEdit(q, i, key, record[i].status, None)

AskRma(q) ==
    \/ \E key \in Keys, p \in Rows, u \in Units \cup {None} : AskNew(q, "rma", key, p, u)
    \/ \E i \in Returns, u \in Units \cup {None} :
          AskEdit(q, i, record[i].key, record[i].status, u)

CreateProduct(q) == Creates(q, "product") /\ Insert(q)

\* The product is looked up first; it cannot go away.
CreateRelease(q) ==
    /\ Creates(q, "release")
    /\ IF IsProduct(form[q].product) THEN Insert(q) ELSE Refuse(q, "missing")

InsertReturn(q) ==
    LET f == form[q] IN
    IF ~IsProduct(f.product) THEN Refuse(q, "missing")
    ELSE IF ~UnitFits(f.unit, f.product) THEN Refuse(q, "invalid")
    ELSE Insert(q)

CreateRma(q) == Creates(q, "rma") /\ InsertReturn(q)

\* A product's status is written whether or not the row is archived.
ProductAfter(r, f) == [r EXCEPT !.key = f.key, !.status = f.status, !.version = @ + 1]
ReleaseAfter(r, f) == [r EXCEPT !.key = f.key, !.version = @ + 1]
ReturnAfter(r, f)  == [r EXCEPT !.unit = f.unit, !.version = @ + 1]

PatchProduct(q) ==
    Edits(q, "product") /\ Update(q, ProductAfter(record[form[q].id], form[q]))
PatchRelease(q) ==
    Edits(q, "release") /\ Update(q, ReleaseAfter(record[form[q].id], form[q]))

UpdateReturn(q) ==
    LET r == record[form[q].id] IN
    IF UnitFits(form[q].unit, r.product) THEN Update(q, ReturnAfter(r, form[q]))
    ELSE Refuse(q, "invalid")

PatchRma(q) == Edits(q, "rma") /\ UpdateReturn(q)

\* A product's status goes with archived_at.
Shelved(r) == [Archived(r) EXCEPT !.status = "archived"]

ArchiveProduct(q) ==
    /\ Drops(q, "product")
    /\ ReadArchived(q) \/ Hide(q, Shelved(record[form[q].id]))
ArchiveRelease(q) == Archival(q, "release")

AskLink(q) == \E v \in {"link", "unlink"}, p \in Projects, i \in Products :
                 Ask(q, [verb |-> v, id |-> i, project |-> p])

\* ON CONFLICT: linking twice, or unlinking what is not linked, is no error.
LinkProject(q) ==
    /\ Is(q, "link", "admitted")
    /\ link' = link \cup {<<form[q].id, form[q].project>>} /\ End(q, "done")
    /\ UNCHANGED <<record, manual, revision, paper, blob>>

UnlinkProject(q) ==
    /\ Is(q, "unlink", "admitted")
    /\ link' = link \ {<<form[q].id, form[q].project>>} /\ End(q, "done")
    /\ UNCHANGED <<record, manual, revision, paper, blob>>

-----------------------------------------------------------------------------
(* The manual *)

RevisionStates == {"draft", "published", "superseded"}

AskRevise(q)  == Ask(q, [verb |-> "revise"])
AskPublish(q) == \E r \in Revisions :
                    Ask(q, [verb |-> "publish", target |-> r, old |-> None])

\* The draft is inserted, and the manual's version follows in a second statement.
CreateRevision(q) ==
    /\ Is(q, "revise", "admitted")
    /\ \E r \in Revisions \ DOMAIN revision :
          revision' = With(revision, r, "draft") /\ Goto(q, "drafted")
    /\ UNCHANGED <<record, link, manual, paper, blob>>

TouchManual(q) ==
    /\ Is(q, "revise", "drafted")
    /\ \/ manual' = manual + 1 /\ End(q, "done")
       \/ End(q, "failed") /\ UNCHANGED manual
    /\ UNCHANGED <<record, link, revision, paper, blob>>

Published == {r \in DOMAIN revision : revision[r] = "published"}

\* The rows the open transactions have updated, and those they have published.
HasLocked(q, r) ==
    /\ form[q].verb = "publish"
    /\ \/ pc[q] \in {"cleared", "published"} /\ form[q].old = r
       \/ pc[q] = "published" /\ form[q].target = r
Locked(q, r)     == \E p \in Requests \ {q} : HasLocked(p, r)
RivalOpen(q)     ==
    \E p \in Requests \ {q} :
       Is(p, "publish", "published") /\ form[p].target # form[q].target

\* UPDATE ... SET status = 'superseded' of the other published revision.  The
\* statement waits for whoever has that row, and then looks at it again.
Supersede(q) ==
    LET others == Published \ {form[q].target} IN
    /\ Is(q, "publish", "admitted")
    /\ IF others = {} THEN Goto(q, "cleared")
         ELSE \E r \in others :
                Go(q, IF Locked(q, r) THEN "waiting" ELSE "cleared", [form[q] EXCEPT !.old = r])
    /\ UNCHANGED catalog

LookAgain(q) ==
    LET r == form[q].old IN
    /\ Is(q, "publish", "waiting") /\ ~Locked(q, r)
    /\ Go(q, "cleared", [form[q] EXCEPT !.old = IF r \in Published THEN r ELSE None])
    /\ UNCHANGED catalog

\* UPDATE ... SET status = 'published': waits for the row, and for any published
\* row that is not committed; the unique index refuses a second committed one.
PublishTarget(q) ==
    LET f == form[q] IN
    /\ Is(q, "publish", "cleared") /\ ~Locked(q, f.target) /\ ~RivalOpen(q)
    /\ IF f.target \notin DOMAIN revision THEN End(q, "missing")
         ELSE IF Published \ {f.target, f.old} # {} THEN End(q, "taken")
         ELSE Goto(q, "published")
    /\ UNCHANGED catalog

\* Mutated: the first statement is committed by itself.
CommitInTwo(q) ==
    LET f == form[q] IN
    /\ \/ /\ Is(q, "publish", "published") /\ f.old # None
          /\ revision' = [revision EXCEPT ![f.old] = "superseded"]
          /\ Go(q, "published", [f EXCEPT !.old = None]) /\ UNCHANGED manual
       \/ /\ Is(q, "publish", "published") /\ f.old = None
          /\ revision' = [revision EXCEPT ![f.target] = "published"]
          /\ manual' = manual + 1 /\ End(q, "done")
    /\ UNCHANGED <<record, link, paper, blob>>

\* The manual's version, and COMMIT; or the transaction is rolled back.
CommitPublish(q) ==
    LET f == form[q] IN
    /\ Is(q, "publish", "published")
    /\ \/ /\ revision' = [r \in DOMAIN revision |->
                            CASE r = f.target -> "published"
                              [] r = f.old    -> "superseded"
                              [] OTHER        -> revision[r]]
          /\ manual' = manual + 1 /\ End(q, "done")
       \/ End(q, "failed") /\ UNCHANGED <<revision, manual>>
    /\ UNCHANGED <<record, link, paper, blob>>

-----------------------------------------------------------------------------
(* Documents and images: the bytes first, then the row *)

AskPaper(q, kind) ==
    \/ Ask(q, [verb |-> "upload", id |-> None, kind |-> kind])
    \/ \E i \in DOMAIN paper : Ask(q, [verb |-> "remove", id |-> i, kind |-> kind])

Handles(q, verb, kind) == /\ form[q].verb = verb /\ form[q].kind = kind
                          /\ UNCHANGED <<record, link, manual, revision>>

PutBlob(q) ==
    /\ pc[q] = "admitted"
    /\ \/ \E i \in Papers \ blob :
             blob' = blob \cup {i} /\ Go(q, "stored", [form[q] EXCEPT !.id = i])
       \/ End(q, "failed") /\ UNCHANGED blob
    /\ UNCHANGED paper

\* When the row cannot be inserted the bytes stay behind.
InsertPaper(q) ==
    /\ pc[q] = "stored"
    /\ \/ paper' = With(paper, form[q].id, form[q].kind) /\ End(q, "done")
       \/ End(q, "failed") /\ UNCHANGED paper
    /\ UNCHANGED blob

\* The row goes; its bytes stay.
DeletePaper(q) ==
    LET i == form[q].id IN
    /\ pc[q] = "admitted"
    /\ IF i \in DOMAIN paper /\ paper[i] = form[q].kind
         THEN paper' = [j \in DOMAIN paper \ {i} |-> paper[j]] /\ End(q, "done")
         ELSE End(q, "missing") /\ UNCHANGED paper
    /\ UNCHANGED blob

UploadProductDocument(q) == Handles(q, "upload", "document") /\ (PutBlob(q) \/ InsertPaper(q))
DeleteProductDocument(q) == Handles(q, "remove", "document") /\ DeletePaper(q)

\* The bytes a reader is sent: the row is looked up, then the blob.
Served(i) == i \in DOMAIN paper /\ i \in blob

-----------------------------------------------------------------------------
CatalogSteps(q) ==
    \/ CreateManufacturer(q) \/ PatchManufacturer(q) \/ ArchiveManufacturer(q)
    \/ CreateSupplier(q) \/ PatchSupplier(q) \/ ArchiveSupplier(q)
    \/ CreateCustomer(q) \/ PatchCustomer(q) \/ ArchiveCustomer(q)
    \/ CreateProduct(q) \/ PatchProduct(q) \/ ArchiveProduct(q)
    \/ CreateRelease(q) \/ PatchRelease(q) \/ ArchiveRelease(q)
    \/ CreateRma(q) \/ PatchRma(q) \/ LinkProject(q) \/ UnlinkProject(q)
    \/ CreateRevision(q) \/ TouchManual(q)
    \/ Supersede(q) \/ LookAgain(q) \/ PublishTarget(q) \/ CommitPublish(q)
    \/ UploadProductDocument(q) \/ DeleteProductDocument(q)

CatalogAsks(q) ==
    /\ pc[q] = "idle"
    /\ \/ \E k \in Parties : AskParty(q, k)
       \/ AskProduct(q) \/ AskRelease(q) \/ AskRma(q) \/ AskLink(q)
       \/ AskRevise(q) \/ AskPublish(q) \/ AskPaper(q, "document")
    /\ UNCHANGED catalog

-----------------------------------------------------------------------------
\* The types of the rows.  A release or a return points at a row that is a product,
\* a returned unit is of that product, and a document's bytes are stored, whatever
\* is edited between the look-ups and the write.
CatalogTypeOK ==
    /\ DOMAIN record \subseteq Rows
    /\ \A i \in DOMAIN record :
          record[i] \in [kind : Kinds, key : Keys, product : Rows \cup {None},
                         unit : Units \cup {None}, status : States,
                         archived : BOOLEAN, version : Nat \ {0}]
    /\ link \subseteq Rows \X Projects /\ manual \in Nat
    /\ DOMAIN revision \subseteq Revisions
    /\ \A r \in DOMAIN revision : revision[r] \in RevisionStates
    /\ \A i \in DOMAIN record :
          /\ record[i].kind \in {"release", "rma"} => IsProduct(record[i].product)
          /\ UnitFits(record[i].unit, record[i].product)
    /\ \A i \in DOMAIN paper : paper[i] = "document" => Served(i)
    /\ blob \subseteq Papers

\* An edit or an archive that is accepted replaces the very row its form was opened
\* on, so no accepted change is lost unseen: any change in between has taken the
\* version further (the CAS of the three stores).
AcceptedSawTheRow ==
    [][\A q \in Requests :
          form[q].verb \in {"edit", "archive"} /\ pc'[q] = "done" /\ pc[q] # "done"
             => record[form[q].id] = form[q].seen]_<<catalog, pc, form>>

\* Once a manual has a published revision readers always find exactly one, however
\* publishings overlap or fail (publish_manual_revision_impl).
PublishedUntilReplaced ==
    [][Cardinality(Published) = 1 => Cardinality(Published') = 1]_<<catalog, pc, form>>
=============================================================================
