---------------------------- MODULE CatalogProofs ----------------------------
(***************************************************************************)
(* What holds of the catalogue, of the summary and of the tracked          *)
(* repositories for any number of rows, requests, deliveries and moves at  *)
(* GitHub, whatever order the statements of the requests come in.          *)
(***************************************************************************)
EXTENDS Repos, FiniteLemmas

-----------------------------------------------------------------------------
(* The invariants *)

RowTypes == [kind : Kinds, key : Keys, product : Rows \cup {None},
             unit : Units \cup {None}, status : States,
             archived : BOOLEAN, version : Nat \ {0}]

PaperKinds == {"document", "image", "summary document"}

\* What a request carries, by what it asks for.
CreateForms  == [verb : {"create"}, kind : Kinds, key : Keys, product : Rows \cup {None},
                 unit : Units \cup {None}]
EditForms    == [verb : {"edit"}, id : Rows, seen : RowTypes, key : Keys,
                 status : States, unit : Units \cup {None}]
ArchiveForms == [verb : {"archive"}, id : Rows, seen : RowTypes]
LinkForms    == [verb : {"link", "unlink"}, id : Rows, project : Projects]
PublishForms == [verb : {"publish"}, target : Revisions, old : Revisions \cup {None}]
PaperForms   == [verb : {"upload", "remove"}, id : Papers \cup {None}, kind : PaperKinds]
PatchForms   == [verb : {"patch"}, patch : PatchBodies]
SubmitForms  == [verb : {"submit"}, force : BOOLEAN, read : SUBSET Sections]
AppendForms  == [verb : {"append"}, snapshot : Rowed]
RestoreForms == [verb : {"restore"}, entry : Entries, patch : PatchBodies \cup {NoRow},
                 snapshot : Rowed]

CatalogForm(p, f) ==
    /\ f.verb = "create" => /\ p = "admitted" /\ f \in CreateForms
                            /\ f.kind # "rma" => f.unit = None
    /\ f.verb = "edit" => p = "admitted" /\ f \in EditForms
    /\ f.verb = "archive" => p \in {"admitted", "read"} /\ f \in ArchiveForms
    /\ f.verb \in {"link", "unlink"} => p = "admitted" /\ f \in LinkForms
    /\ f.verb = "revise" => p \in {"admitted", "drafted"}
    /\ f.verb = "publish" =>
          /\ p \in {"admitted", "waiting", "cleared", "published"} /\ f \in PublishForms
          /\ f.old # f.target
    /\ f.verb = "upload" => p \in {"admitted", "stored"} /\ f \in PaperForms
    /\ f.verb = "remove" => p = "admitted" /\ f \in PaperForms

\* Of a submission that goes on the gate has seen enough.
SummaryForm(p, f) ==
    /\ f.verb = "patch" => p \in {"admitted", "ensured"} /\ f \in PatchForms
    /\ f.verb = "submit" =>
          /\ p \in {"admitted", "complete"} /\ f \in SubmitForms
          /\ p = "complete" /\ ~f.force => Percent(Cardinality(f.read)) >= Threshold
    /\ f.verb \in {"approve", "revert", "forget"} => p = "admitted"
    /\ f.verb = "append" => p \in {"admitted", "read"} /\ f \in AppendForms
    /\ f.verb = "restore" =>
          /\ p \in {"admitted", "found", "ensured", "patched", "read"} /\ f \in RestoreForms
          /\ p # "admitted" => f.patch \in PatchBodies

RepoVerb(f) == f.verb \in {"deliver", "sync", "sync by name", "import"}

RepoForm(p, f) ==
    /\ f.verb = "deliver" => p \in {"admitted", "owner", "row", "described", "recorded"}
    /\ f.verb = "sync" => p \in {"admitted", "answered"}
    /\ f.verb = "sync by name" =>
          p \in {"admitted", "answered", "unknown", "resolved", "owner", "row"}
    /\ f.verb = "import" => p \in {"admitted", "resolved", "probing", "owner", "row"}
    /\ p \in {"owner", "answered"} => f = NoForm \/ RepoVerb(f)

Fits(p, f) == /\ "verb" \in DOMAIN f
              /\ CatalogForm(p, f) /\ SummaryForm(p, f) /\ RepoForm(p, f)

FormsFit ==
    /\ pc = [q \in Requests |-> pc[q]] /\ form = [q \in Requests |-> form[q]]
    /\ \A q \in Requests : Fits(pc[q], form[q])

\* A form shows its row as it was at some version the row has had.
Opened(f) ==
    f.verb \in {"edit", "archive"} =>
        /\ f.id \in DOMAIN record
        /\ f.seen.version <= record[f.id].version
        /\ f.seen.version = record[f.id].version => f.seen = record[f.id]

FormsAreOpened == \A q \in Requests : Opened(form[q])

\* The bytes come before the row, and the row of the summary before what is
\* written in it.
Prepared(p, f) ==
    /\ f.verb = "upload" /\ p = "stored" => f.id \in blob
    /\ f.verb \in {"patch", "restore"} /\ p \in {"ensured", "patched"}
          => summary.status # "none"

StepsArePrepared == \A q \in Requests : Prepared(pc[q], form[q])

RowInv == SummaryTypeOK /\ FormsFit /\ FormsAreOpened /\ StepsArePrepared

\* At most one transaction has published a row and not ended, and once it commits
\* its row is the only published one.
Publishing(q) == Is(q, "publish", "published")

PublishInv ==
    /\ \A p, q \in Requests : Publishing(p) /\ Publishing(q) => p = q
    /\ \A q \in Requests : Publishing(q) =>
          form[q].target \in DOMAIN revision /\ Published \subseteq {form[q].target, form[q].old}

-----------------------------------------------------------------------------
(* Requests take steps *)

\* A step of one request keeps the forms, if its own fits where it goes.
LEMMA GoFits ==
    ASSUME FormsFit, NEW q \in Requests, NEW p, NEW f, Fits(p, f), Go(q, p, f)
    PROVE  FormsFit'
<1>1. pc' = [pc EXCEPT ![q] = p] /\ form' = [form EXCEPT ![q] = f]
  BY DEF Go
<1>2. pc' = [r \in Requests |-> pc'[r]] /\ form' = [r \in Requests |-> form'[r]]
  BY <1>1 DEF FormsFit
<1>3. ASSUME NEW r \in Requests PROVE Fits(pc'[r], form'[r])
  BY <1>1 DEF FormsFit
<1>4. ASSUME NEW r \in Requests PROVE Fits(pc[r], form[r])'
  BY <1>3 DEF Fits, CatalogForm, SummaryForm, RepoForm
<1> QED
  BY <1>2, <1>4 DEF FormsFit

\* So does its end.
LEMMA EndFits ==
    ASSUME FormsFit, NEW q \in Requests, NEW how, End(q, how)
    PROVE  FormsFit'
<1>1. Fits(how, NoForm)
  BY DEF Fits, CatalogForm, SummaryForm, RepoForm, NoForm
<1> QED
  BY <1>1, GoFits DEF End

\* What a request leaves of a row: the next version of it, of the same kind, with
\* the product it had.
Succeeds(r, new) ==
    /\ new \in RowTypes /\ new.version = r.version + 1
    /\ new.kind = r.kind /\ new.product = r.product
    /\ UnitFits(new.unit, new.product)

\* A request for a new row ends; what it inserts, if anything, points at a product.
Inserts(q) ==
    /\ form[q].verb = "create" /\ UNCHANGED Rest
    /\ \E how : End(q, how)
    /\ \/ UNCHANGED record
       \/ \E i \in Rows \ DOMAIN record, row \in RowTypes :
             /\ record' = With(record, i, row)
             /\ row.kind \in {"release", "rma"} => IsProduct(row.product)
             /\ UnitFits(row.unit, row.product)

\* A request that edits or archives takes a step, or ends; it is accepted with the
\* version its row has.
Replaces(q) ==
    LET f == form[q] IN
    /\ f.verb \in {"edit", "archive"} /\ UNCHANGED Rest
    /\ \/ /\ UNCHANGED record
          /\ \/ Goto(q, "read") /\ f.verb = "archive" /\ pc[q] = "admitted"
             \/ \E how : how # "done" /\ End(q, how)
       \/ /\ f.seen.version = record[f.id].version
          /\ \E new : Succeeds(record[f.id], new) /\ record' = [record EXCEPT ![f.id] = new]
          /\ \E how : End(q, how)

\* The fields of a row, and the rows a form is for.
LEMMA RowsHaveFields ==
    ASSUME CatalogTypeOK, NEW i \in DOMAIN record
    PROVE  record[i] \in RowTypes /\ UnitFits(record[i].unit, record[i].product)
BY DEF CatalogTypeOK, RowTypes

LEMMA CreationsInsert ==
    ASSUME FormsFit, NEW q \in Requests,
           \/ CreateManufacturer(q) \/ CreateSupplier(q) \/ CreateCustomer(q)
           \/ CreateProduct(q) \/ CreateRelease(q) \/ CreateRma(q)
    PROVE  Inserts(q)
<1> DEFINE f == form[q]
<1>1. /\ f.verb = "create" /\ f \in CreateForms /\ UNCHANGED Rest
      /\ f.kind # "rma" => f.unit = None
  BY DEF CreateManufacturer, CreateSupplier, CreateCustomer, CreateProduct, CreateRelease,
         CreateRma, Creation, Creates, Is, FormsFit, Fits, CatalogForm
<1>2. \/ \E how : Refuse(q, how)
      \/ /\ Insert(q) /\ UnitFits(f.unit, f.product)
         /\ f.kind \in {"release", "rma"} => IsProduct(f.product)
  <2>1. CASE \E how : Refuse(q, how)
    BY <2>1
  <2>2. CASE CreateManufacturer(q) \/ CreateSupplier(q) \/ CreateCustomer(q) \/ CreateProduct(q)
    BY <1>1, <2>2 DEF CreateManufacturer, CreateSupplier, CreateCustomer, CreateProduct,
                      Creation, Creates, UnitFits
  <2>3. CASE CreateRelease(q)
    BY <1>1, <2>3 DEF CreateRelease, Creates, UnitFits
  <2>4. CASE CreateRma(q)
    BY <1>1, <2>4 DEF CreateRma, InsertReturn, Creates
  <2> QED
    BY <2>2, <2>3, <2>4
<1>3. CASE \E how : Refuse(q, how)
  BY <1>1, <1>3 DEF Inserts, Refuse
<1>4. CASE /\ Insert(q) /\ UnitFits(f.unit, f.product)
           /\ f.kind \in {"release", "rma"} => IsProduct(f.product)
  <2>1. CASE Refuse(q, "taken")
    BY <1>1, <2>1 DEF Inserts, Refuse
  <2>2. CASE ~Refuse(q, "taken")
    <3> DEFINE row == [kind |-> f.kind, key |-> f.key, product |-> f.product,
                       unit |-> f.unit, status |-> "active", archived |-> FALSE,
                       version |-> 1]
    <3>1. PICK i \in Rows \ DOMAIN record : record' = With(record, i, row) /\ End(q, "done")
      BY <1>4, <2>2 DEF Insert, Refuse, With
    <3>2. row \in RowTypes
      BY <1>1 DEF CreateForms, RowTypes, States
    <3>3. /\ row.kind \in {"release", "rma"} => IsProduct(row.product)
          /\ UnitFits(row.unit, row.product)
      BY <1>4 DEF IsProduct, UnitFits
    <3> HIDE DEF row
    <3> QED
      BY <1>1, <3>1, <3>2, <3>3 DEF Inserts, End, Go, With, IsProduct, UnitFits
  <2> QED
    BY <2>1, <2>2
<1> QED
  BY <1>2, <1>3, <1>4

\* An update that is let through succeeds the row its form was opened on.
LEMMA UpdatesReplace ==
    ASSUME NEW q \in Requests, form[q].verb \in {"edit", "archive"}, NEW new,
           Succeeds(record[form[q].id], new), UNCHANGED Rest,
           Update(q, new) \/ Hide(q, new)
    PROVE  Replaces(q)
<1> DEFINE f == form[q]
           v == record[f.id].version
<1>1. CASE f.seen.version # v
  <2>1. UNCHANGED record /\ End(q, "stale")
    BY <1>1 DEF Update, Hide, Refuse
  <2> QED
    BY <2>1 DEF Replaces, End, Go
<1>2. CASE f.seen.version = v /\ End(q, "taken") /\ UNCHANGED record
  BY <1>2 DEF Replaces, End, Go
<1>3. CASE /\ f.seen.version = v /\ End(q, "done")
           /\ record' = [record EXCEPT ![f.id] = new]
  BY <1>3 DEF Replaces, End, Go
<1> QED
  BY <1>1, <1>2, <1>3 DEF Update, Hide, Refuse

\* What an edit makes of a row is a next version of it.
LEMMA EditsSucceed ==
    ASSUME NEW r \in RowTypes, UnitFits(r.unit, r.product), NEW f \in EditForms
    PROVE  /\ Succeeds(r, PartyAfter(r, f)) /\ Succeeds(r, ProductAfter(r, f))
           /\ Succeeds(r, ReleaseAfter(r, f))
           /\ UnitFits(f.unit, r.product) => Succeeds(r, ReturnAfter(r, f))
<1>1. /\ r.version + 1 \in Nat \ {0} /\ f.key \in Keys /\ f.status \in States
      /\ f.unit \in Units \cup {None}
  BY DEF RowTypes, EditForms
<1>2. Succeeds(r, PartyAfter(r, f)) /\ Succeeds(r, ReleaseAfter(r, f))
  BY <1>1 DEF Succeeds, RowTypes, PartyAfter, ReleaseAfter
<1>3. Succeeds(r, ProductAfter(r, f))
  BY <1>1 DEF Succeeds, RowTypes, ProductAfter
<1>4. ASSUME UnitFits(f.unit, r.product) PROVE Succeeds(r, ReturnAfter(r, f))
  BY <1>1, <1>4 DEF Succeeds, RowTypes, ReturnAfter
<1> QED
  BY <1>2, <1>3, <1>4

\* So is what its archival makes of it.
LEMMA ArchivalsSucceed ==
    ASSUME NEW r \in RowTypes, UnitFits(r.unit, r.product)
    PROVE  Succeeds(r, Archived(r)) /\ Succeeds(r, Shelved(r))
<1>1. r.version + 1 \in Nat \ {0} /\ "archived" \in States
  BY DEF RowTypes, States
<1>2. Succeeds(r, Archived(r))
  BY <1>1 DEF Succeeds, RowTypes, Archived
<1>3. Succeeds(r, Shelved(r))
  BY <1>1 DEF Succeeds, RowTypes, Archived, Shelved
<1> QED
  BY <1>2, <1>3

LEMMA EditsReplace ==
    ASSUME RowInv, NEW q \in Requests,
           \/ PatchManufacturer(q) \/ PatchSupplier(q) \/ PatchCustomer(q)
           \/ PatchProduct(q) \/ PatchRelease(q) \/ PatchRma(q)
    PROVE  Replaces(q)
<1> DEFINE f == form[q]
           r == record[f.id]
<1>1. f.verb = "edit" /\ f \in EditForms /\ UNCHANGED Rest /\ f.id \in DOMAIN record
  BY DEF PatchManufacturer, PatchSupplier, PatchCustomer, PatchProduct, PatchRelease, PatchRma,
         Edition, Edits, Is, RowInv, FormsFit, Fits, CatalogForm, FormsAreOpened, Opened
<1>2. r \in RowTypes /\ UnitFits(r.unit, r.product)
  BY <1>1, RowsHaveFields DEF RowInv, SummaryTypeOK
<1>3. /\ Succeeds(r, PartyAfter(r, f)) /\ Succeeds(r, ProductAfter(r, f))
      /\ Succeeds(r, ReleaseAfter(r, f))
      /\ UnitFits(f.unit, r.product) => Succeeds(r, ReturnAfter(r, f))
  BY <1>1, <1>2, EditsSucceed
<1>4. CASE PatchManufacturer(q) \/ PatchSupplier(q) \/ PatchCustomer(q)
  <2>1. Update(q, PartyAfter(r, f))
    BY <1>4 DEF PatchManufacturer, PatchSupplier, PatchCustomer, Edition
  <2> QED
    BY <1>1, <1>3, <2>1, UpdatesReplace
<1>5. CASE PatchProduct(q)
  BY <1>1, <1>3, <1>5, UpdatesReplace DEF PatchProduct
<1>6. CASE PatchRelease(q)
  BY <1>1, <1>3, <1>6, UpdatesReplace DEF PatchRelease
<1>7. CASE PatchRma(q)
  <2>1. CASE UnitFits(f.unit, r.product)
    BY <1>1, <1>3, <1>7, <2>1, UpdatesReplace DEF PatchRma, UpdateReturn
  <2>2. CASE ~UnitFits(f.unit, r.product)
    <3>1. End(q, "invalid") /\ UNCHANGED record
      BY <1>7, <2>2 DEF PatchRma, UpdateReturn, Refuse
    <3> QED
      BY <1>1, <3>1 DEF Replaces, End, Go
  <2> QED
    BY <2>1, <2>2
<1> QED
  BY <1>4, <1>5, <1>6, <1>7

LEMMA ArchivalsReplace ==
    ASSUME RowInv, NEW q \in Requests,
           \/ ArchiveManufacturer(q) \/ ArchiveSupplier(q) \/ ArchiveCustomer(q)
           \/ ArchiveProduct(q) \/ ArchiveRelease(q)
    PROVE  Replaces(q)
<1> DEFINE f == form[q]
           r == record[f.id]
<1>1. f.verb = "archive" /\ f \in ArchiveForms /\ UNCHANGED Rest /\ f.id \in DOMAIN record
  BY DEF ArchiveManufacturer, ArchiveSupplier, ArchiveCustomer, ArchiveProduct, ArchiveRelease,
         Archival, Drops, RowInv, FormsFit, Fits, CatalogForm, FormsAreOpened, Opened
<1>2. r \in RowTypes /\ UnitFits(r.unit, r.product)
  BY <1>1, RowsHaveFields DEF RowInv, SummaryTypeOK
<1>3. Succeeds(r, Archived(r)) /\ Succeeds(r, Shelved(r))
  BY <1>2, ArchivalsSucceed
<1>4. CASE ReadArchived(q)
  <2>1. CASE End(q, "already") /\ UNCHANGED record
    BY <1>1, <2>1 DEF Replaces, End, Go
  <2>2. CASE Goto(q, "read") /\ UNCHANGED record /\ pc[q] = "admitted"
    BY <1>1, <2>2 DEF Replaces
  <2> QED
    BY <1>4, <2>1, <2>2 DEF ReadArchived
<1>5. CASE Hide(q, Archived(r)) \/ Hide(q, Shelved(r))
  BY <1>1, <1>3, <1>5, UpdatesReplace
<1> QED
  BY <1>4, <1>5 DEF ArchiveManufacturer, ArchiveSupplier, ArchiveCustomer, ArchiveProduct,
                    ArchiveRelease, Archival

-----------------------------------------------------------------------------
(* What the steps have in common *)

\* The type invariant, part by part.
RecordOK ==
    /\ DOMAIN record \subseteq Rows
    /\ \A i \in DOMAIN record :
          /\ record[i] \in RowTypes /\ UnitFits(record[i].unit, record[i].product)
          /\ record[i].kind \in {"release", "rma"} => IsProduct(record[i].product)

ManualOK ==
    /\ manual \in Nat /\ DOMAIN revision \subseteq Revisions
    /\ \A r \in DOMAIN revision : revision[r] \in RevisionStates
LinkOK   == link \subseteq Rows \X Projects
PaperOK  == blob \subseteq Papers /\ \A i \in DOMAIN paper : paper[i] \in PaperKinds /\ i \in blob

SummaryOK ==
    /\ summary \in Rowed
    /\ summary.status = "none" => summary = NoRow
    /\ DOMAIN log \subseteq Entries /\ \A e \in DOMAIN log : log[e] \in Rowed

LEMMA PartsOfTypeOK ==
    SummaryTypeOK <=> RecordOK /\ ManualOK /\ LinkOK /\ PaperOK /\ SummaryOK
BY DEF SummaryTypeOK, CatalogTypeOK, RecordOK, RowTypes, ManualOK, LinkOK, PaperOK, SummaryOK,
       PaperKinds, Served, Proxied, Images, Documents

LEMMA PartsOfTypeOKNext ==
    SummaryTypeOK' <=> RecordOK' /\ ManualOK' /\ LinkOK' /\ PaperOK' /\ SummaryOK'
BY DEF SummaryTypeOK, CatalogTypeOK, RecordOK, RowTypes, ManualOK, LinkOK, PaperOK, SummaryOK,
       PaperKinds, Served, Proxied, Images, Documents

\* Rows are never taken away, a row that changes is a version further, and what the
\* steps of a request are prepared by stays.
Advances ==
    /\ \A i \in DOMAIN record :
          /\ i \in DOMAIN record'
          /\ \/ record'[i] = record[i]
             \/ record'[i].version \in Nat /\ record'[i].version > record[i].version
    /\ blob \subseteq blob'
    /\ summary.status # "none" => summary'.status # "none"

\* A form at a place where requests can have it.
Ready(p, f) == Fits(p, f) /\ Opened(f) /\ Prepared(p, f)

FormsReady == FormsFit /\ FormsAreOpened /\ StepsArePrepared

LEMMA ReadyKept ==
    ASSUME RecordOK, Advances, NEW p, NEW f, Ready(p, f)
    PROVE  Ready(p, f)'
<1>1. Fits(p, f)'
  BY DEF Ready, Fits, CatalogForm, SummaryForm, RepoForm
<1>2. Opened(f)'
  <2> SUFFICES ASSUME f.verb \in {"edit", "archive"} PROVE Opened(f)'
    BY DEF Opened
  <2>1. /\ f.id \in DOMAIN record /\ f.seen.version <= record[f.id].version
        /\ f.seen.version = record[f.id].version => f.seen = record[f.id]
    BY DEF Ready, Opened
  <2>2. record[f.id].version \in Nat /\ f.seen.version \in Nat
    BY <2>1 DEF RecordOK, RowTypes, Ready, Fits, CatalogForm, EditForms, ArchiveForms
  <2>3. f.id \in DOMAIN record'
        /\ \/ record'[f.id] = record[f.id]
           \/ record'[f.id].version \in Nat /\ record'[f.id].version > record[f.id].version
    BY <2>1 DEF Advances
  <2>4. CASE record'[f.id] = record[f.id]
    BY <2>1, <2>3, <2>4 DEF Opened
  <2>5. CASE record'[f.id].version \in Nat /\ record'[f.id].version > record[f.id].version
    BY <2>1, <2>2, <2>3, <2>5 DEF Opened
  <2> QED
    BY <2>3, <2>4, <2>5
<1>3. Prepared(p, f)'
  BY DEF Ready, Prepared, Advances
<1> QED
  BY <1>1, <1>2, <1>3 DEF Ready

\* A step of one request, to a place it is ready for by then, keeps all forms.
LEMMA StepKeeps ==
    ASSUME RecordOK, FormsReady, Advances, NEW q \in Requests, NEW p, NEW f,
           Go(q, p, f), Ready(p, f)'
    PROVE  FormsReady'
<1>1. FormsFit'
  <2>1. Fits(p, f)
    BY DEF Ready, Fits, CatalogForm, SummaryForm, RepoForm
  <2> QED
    BY <2>1, GoFits DEF FormsReady
<1>2. ASSUME NEW r \in Requests PROVE Opened(form[r])' /\ Prepared(pc[r], form[r])'
  <2>1. PICK g, o : g = form'[r] /\ o = pc'[r]
    OBVIOUS
  <2>2. Opened(g)' /\ Prepared(o, g)'
    <3>1. CASE r = q
      <4>1. g = f /\ o = p
        BY <2>1, <3>1 DEF Go, FormsReady, FormsFit
      <4> QED
        BY <4>1 DEF Ready
    <3>2. CASE r # q
      <4>1. g = form[r] /\ o = pc[r]
        BY <2>1, <3>2 DEF Go, FormsReady, FormsFit
      <4>2. Ready(o, g)
        BY <4>1 DEF Ready, FormsReady, FormsFit, FormsAreOpened, StepsArePrepared
      <4>3. Ready(o, g)'
        BY <4>2, ReadyKept
      <4> QED
        BY <4>3 DEF Ready
    <3> QED
      BY <3>1, <3>2
  <2> QED
    BY <2>1, <2>2 DEF Opened, Prepared
<1> QED
  BY <1>1, <1>2 DEF FormsReady, FormsAreOpened, StepsArePrepared

\* It may be ready for it already, or be done.
LEMMA StepsKeep ==
    ASSUME RecordOK, FormsReady, Advances, NEW q \in Requests,
           \/ \E p, f : Go(q, p, f) /\ Ready(p, f)
           \/ \E how : End(q, how)
    PROVE  FormsReady'
<1>1. CASE \E p, f : Go(q, p, f) /\ Ready(p, f)
  <2>1. PICK p, f : Go(q, p, f) /\ Ready(p, f)
    BY <1>1
  <2>2. Ready(p, f)'
    BY <2>1, ReadyKept
  <2> QED
    BY <2>1, <2>2, StepKeeps
<1>2. CASE \E how : End(q, how)
  <2>1. PICK how : Go(q, how, NoForm)
    BY <1>2 DEF End
  <2>2. Ready(how, NoForm)'
    BY DEF Ready, Fits, CatalogForm, SummaryForm, RepoForm, NoForm, Opened, Prepared
  <2> QED
    BY <2>1, <2>2, StepKeeps
<1> QED
  BY <1>1, <1>2

LEMMA FormIsReady ==
    ASSUME FormsReady, NEW q \in Requests
    PROVE  Ready(pc[q], form[q])
BY DEF FormsReady, Ready, FormsFit, FormsAreOpened, StepsArePrepared

\* Nothing that prepares a step is written.
LEMMA StillAdvances ==
    ASSUME UNCHANGED <<record, blob>>, summary.status # "none" => summary'.status # "none"
    PROVE  Advances
BY DEF Advances

-----------------------------------------------------------------------------
(* The steps of the catalogue *)

\* New rows and changed ones are rows as they should be, and none is lost.
LEMMA InsertsKeep ==
    ASSUME RowInv, NEW q \in Requests, Inserts(q), UNCHANGED summaryVars
    PROVE  RecordOK' /\ Advances
<1>1. RecordOK /\ UNCHANGED <<blob, summary>>
  BY PartsOfTypeOK DEF RowInv, Inserts, Rest, summaryVars
<1>2. CASE UNCHANGED record
  BY <1>1, <1>2 DEF RecordOK, IsProduct, Products, Advances
<1>3. CASE \E i \in Rows \ DOMAIN record, row \in RowTypes :
              /\ record' = With(record, i, row)
              /\ row.kind \in {"release", "rma"} => IsProduct(row.product)
              /\ UnitFits(row.unit, row.product)
  <2>1. PICK i \in Rows \ DOMAIN record, row \in RowTypes :
           /\ record' = With(record, i, row)
           /\ row.kind \in {"release", "rma"} => IsProduct(row.product)
           /\ UnitFits(row.unit, row.product)
    BY <1>3
  <2>2. /\ DOMAIN record' = DOMAIN record \cup {i} /\ record'[i] = row
        /\ \A j \in DOMAIN record : record'[j] = record[j]
    BY <2>1 DEF With
  <2>3. Products \subseteq Products'
    BY <2>2 DEF Products
  <2> QED
    BY <1>1, <2>1, <2>2, <2>3 DEF RecordOK, IsProduct, Advances
<1> QED
  BY <1>2, <1>3 DEF Inserts

LEMMA ReplacesKeep ==
    ASSUME RowInv, NEW q \in Requests, Replaces(q), UNCHANGED summaryVars
    PROVE  RecordOK' /\ Advances
<1> DEFINE id == form[q].id
<1>1. RecordOK /\ id \in DOMAIN record /\ UNCHANGED <<blob, summary>>
  BY PartsOfTypeOK DEF RowInv, Replaces, Rest, summaryVars, FormsAreOpened, Opened
<1>2. CASE UNCHANGED record
  BY <1>1, <1>2 DEF RecordOK, IsProduct, Products, Advances
<1>3. CASE \E new : Succeeds(record[id], new) /\ record' = [record EXCEPT ![id] = new]
  <2>1. PICK new : Succeeds(record[id], new) /\ record' = [record EXCEPT ![id] = new]
    BY <1>3
  <2>2. /\ DOMAIN record' = DOMAIN record /\ record'[id] = new
        /\ \A j \in DOMAIN record \ {id} : record'[j] = record[j]
    BY <1>1, <2>1
  <2>3. new \in RowTypes /\ new.version = record[id].version + 1 /\ new.kind = record[id].kind
        /\ new.product = record[id].product /\ UnitFits(new.unit, new.product)
    BY <2>1 DEF Succeeds
  <2>4. record[id].version \in Nat /\ new.version \in Nat
    BY <1>1, <2>3 DEF RecordOK, RowTypes
  <2>5. Products' = Products
    BY <1>1, <2>2, <2>3 DEF Products
  <2>6. RecordOK'
    BY <1>1, <2>2, <2>3, <2>5 DEF RecordOK, IsProduct
  <2>7. Advances
    BY <1>1, <2>2, <2>3, <2>4 DEF Advances
  <2> QED
    BY <2>6, <2>7
<1> QED
  BY <1>2, <1>3 DEF Replaces

RowSteps(q) ==
    \/ CreateManufacturer(q) \/ PatchManufacturer(q) \/ ArchiveManufacturer(q)
    \/ CreateSupplier(q) \/ PatchSupplier(q) \/ ArchiveSupplier(q)
    \/ CreateCustomer(q) \/ PatchCustomer(q) \/ ArchiveCustomer(q)
    \/ CreateProduct(q) \/ PatchProduct(q) \/ ArchiveProduct(q)
    \/ CreateRelease(q) \/ PatchRelease(q) \/ ArchiveRelease(q)
    \/ CreateRma(q) \/ PatchRma(q)

LEMMA RowsKeep ==
    ASSUME RowInv, NEW q \in Requests, RowSteps(q), UNCHANGED summaryVars
    PROVE  RowInv'
<1>1. Inserts(q) \/ Replaces(q)
  BY CreationsInsert, EditsReplace, ArchivalsReplace DEF RowSteps, RowInv
<1>2. RecordOK' /\ Advances /\ RecordOK /\ FormsReady
  BY <1>1, InsertsKeep, ReplacesKeep, PartsOfTypeOK DEF RowInv, FormsReady
<1>3. SummaryTypeOK'
  <2>1. UNCHANGED <<link, manual, revision, paper, blob, summary, log>>
    BY <1>1 DEF Inserts, Replaces, Rest, summaryVars
  <2> QED
    BY <1>2, <2>1, PartsOfTypeOK, PartsOfTypeOKNext
       DEF RowInv, ManualOK, LinkOK, PaperOK, SummaryOK
<1>4. \/ \E p, f : Go(q, p, f) /\ Ready(p, f)
      \/ \E how : End(q, how)
  <2>1. CASE Goto(q, "read") /\ form[q].verb = "archive"
    <3>1. Ready("read", form[q])
      BY <1>2, <2>1, FormIsReady DEF Ready, Fits, CatalogForm, SummaryForm, RepoForm, Prepared
    <3> QED
      BY <2>1, <3>1 DEF Goto
  <2>2. CASE \E how : End(q, how)
    BY <2>2
  <2> QED
    BY <1>1, <2>1, <2>2 DEF Inserts, Replaces
<1>5. FormsReady'
  BY <1>2, <1>4, StepsKeep
<1> QED
  BY <1>3, <1>5 DEF RowInv, FormsReady

LEMMA LinksKeep ==
    ASSUME RowInv, NEW q \in Requests, LinkProject(q) \/ UnlinkProject(q), UNCHANGED summaryVars
    PROVE  RowInv'
<1>1. /\ UNCHANGED <<record, manual, revision, paper, blob, summary, log>>
      /\ \E how : End(q, how)
  BY DEF LinkProject, UnlinkProject, summaryVars
<1>2. RecordOK /\ FormsReady /\ Advances /\ RecordOK'
  BY <1>1, PartsOfTypeOK, StillAdvances DEF RowInv, FormsReady, RecordOK, IsProduct, Products
<1>3. link' \subseteq Rows \X Projects
  <2>1. form[q] \in LinkForms /\ link \subseteq Rows \X Projects
    BY PartsOfTypeOK DEF LinkProject, UnlinkProject, Is, RowInv, FormsFit, Fits, CatalogForm,
                         LinkOK
  <2> QED
    BY <2>1 DEF LinkProject, UnlinkProject, LinkForms
<1>4. SummaryTypeOK'
  BY <1>1, <1>2, <1>3, PartsOfTypeOK, PartsOfTypeOKNext
     DEF RowInv, ManualOK, LinkOK, PaperOK, SummaryOK
<1> QED
  BY <1>1, <1>2, <1>4, StepsKeep DEF RowInv, FormsReady

PublishSteps(q) == Supersede(q) \/ LookAgain(q) \/ PublishTarget(q) \/ CommitPublish(q)

\* Where a publishing goes, and what it has superseded by then.
LEMMA PublishingGoesOn ==
    ASSUME FormsFit, ManualOK, NEW q \in Requests, PublishSteps(q)
    PROVE  \/ \E how : End(q, how)
           \/ \E p \in {"waiting", "cleared", "published"}, old \in Revisions \cup {None} :
                 /\ form[q].verb = "publish" /\ form[q] \in PublishForms
                 /\ old # form[q].target
                 /\ Go(q, p, [form[q] EXCEPT !.old = old])
<1> DEFINE f == form[q]
<1>1. /\ f.verb = "publish" /\ f \in PublishForms /\ f.old # f.target
      /\ f = [f EXCEPT !.old = f.old] /\ f.old \in Revisions \cup {None}
      /\ None # f.target
  BY CatalogAssumption DEF PublishSteps, Supersede, LookAgain, PublishTarget, CommitPublish, Is,
       FormsFit, Fits, CatalogForm, PublishForms
<1>2. CASE Supersede(q)
  <2> DEFINE others == Published \ {f.target}
  <2>1. others \subseteq Revisions /\ f.target \notin others
    BY DEF ManualOK, Published
  <2>2. CASE Goto(q, "cleared")
    BY <1>1, <2>2 DEF Goto
  <2>3. CASE \E r \in others :
                \/ Go(q, "waiting", [f EXCEPT !.old = r]) \/ Go(q, "cleared", [f EXCEPT !.old = r])
    BY <1>1, <2>1, <2>3 DEF Go
  <2> QED
    BY <1>2, <2>2, <2>3 DEF Supersede
<1>3. CASE LookAgain(q)
  BY <1>1, <1>3 DEF LookAgain, Go, End
<1>4. CASE PublishTarget(q)
  BY <1>1, <1>4 DEF PublishTarget, Goto, Go, End
<1>5. CASE CommitPublish(q)
  BY <1>5 DEF CommitPublish, End
<1> QED
  BY <1>2, <1>3, <1>4, <1>5 DEF PublishSteps

LEMMA ManualsKeep ==
    ASSUME RowInv, NEW q \in Requests, UNCHANGED summaryVars,
           CreateRevision(q) \/ TouchManual(q) \/ PublishSteps(q)
    PROVE  RowInv'
<1>1. UNCHANGED <<record, link, paper, blob, summary, log>>
  BY DEF CreateRevision, TouchManual, PublishSteps, Supersede, LookAgain, PublishTarget,
         CommitPublish, catalog, summaryVars
<1>2. RecordOK /\ ManualOK /\ FormsReady /\ Advances /\ RecordOK'
  BY <1>1, PartsOfTypeOK, StillAdvances DEF RowInv, FormsReady, RecordOK, IsProduct, Products
<1>3. ManualOK'
  <2>1. CASE UNCHANGED <<manual, revision>>
    BY <1>2, <2>1 DEF ManualOK
  <2>2. CASE manual' = manual + 1 /\ UNCHANGED revision
    BY <1>2, <2>2 DEF ManualOK
  <2>3. CASE CreateRevision(q)
    BY <1>2, <2>3 DEF ManualOK, CreateRevision, With, RevisionStates
  <2>4. CASE /\ manual' = manual + 1
             /\ revision' = [r \in DOMAIN revision |->
                               CASE r = form[q].target -> "published"
                                 [] r = form[q].old    -> "superseded"
                                 [] OTHER              -> revision[r]]
    BY <1>2, <2>4 DEF ManualOK, RevisionStates
  <2> QED
    BY <2>1, <2>2, <2>3, <2>4 DEF TouchManual, PublishSteps, Supersede, LookAgain,
       PublishTarget, CommitPublish, catalog
<1>4. SummaryTypeOK'
  BY <1>1, <1>2, <1>3, PartsOfTypeOK, PartsOfTypeOKNext DEF RowInv, LinkOK, PaperOK, SummaryOK
<1>5. \/ \E p, f : Go(q, p, f) /\ Ready(p, f)
      \/ \E how : End(q, how)
  <2>1. CASE Goto(q, "drafted") /\ form[q].verb = "revise"
    <3>1. Ready("drafted", form[q])
      BY <1>2, <2>1, FormIsReady DEF Ready, Fits, CatalogForm, SummaryForm, RepoForm, Prepared
    <3> QED
      BY <2>1, <3>1 DEF Goto
  <2>2. ASSUME PublishSteps(q), ~(\E how : End(q, how))
        PROVE  \E p, f : Go(q, p, f) /\ Ready(p, f)
    <3>1. PICK p \in {"waiting", "cleared", "published"}, old \in Revisions \cup {None} :
                 /\ form[q].verb = "publish" /\ form[q] \in PublishForms
                 /\ old # form[q].target
                 /\ Go(q, p, [form[q] EXCEPT !.old = old])
      BY <1>2, <2>2, PublishingGoesOn DEF FormsReady
    <3> DEFINE f == [form[q] EXCEPT !.old = old]
    <3>2. f \in PublishForms /\ f.verb = "publish" /\ f.old # f.target /\ "verb" \in DOMAIN f
      BY <3>1 DEF PublishForms
    <3>3. Go(q, p, f)
      BY <3>1
    <3> HIDE DEF f
    <3>4. Ready(p, f)
      BY <3>1, <3>2 DEF Ready, Fits, CatalogForm, SummaryForm, RepoForm, Opened, Prepared
    <3> QED
      BY <3>3, <3>4
  <2> QED
    BY <2>1, <2>2 DEF CreateRevision, TouchManual, Is
<1> QED
  BY <1>2, <1>4, <1>5, StepsKeep DEF RowInv, FormsReady

PaperSteps(q) == UploadProductDocument(q) \/ DeleteProductDocument(q) \/ AttachmentSteps(q)

\* Uploads store the bytes and then the row; removals take the row alone.
LEMMA PapersAre ==
    ASSUME NEW q, PaperSteps(q)
    PROVE  /\ UNCHANGED <<record, link, manual, revision>>
           /\ \/ form[q].verb = "upload" /\ (PutBlob(q) \/ InsertPaper(q))
              \/ form[q].verb = "remove" /\ DeletePaper(q)
BY DEF PaperSteps, UploadProductDocument, DeleteProductDocument, AttachmentSteps, UploadImage,
       UploadDocument, DeleteImage, DeleteDocument, Handles

LEMMA PapersKeep ==
    ASSUME RowInv, NEW q \in Requests, PaperSteps(q), UNCHANGED summaryVars
    PROVE  RowInv'
<1> DEFINE f == form[q]
<1>1. /\ UNCHANGED <<record, link, manual, revision, summary, log>>
      /\ f.verb \in {"upload", "remove"}
  BY PapersAre DEF summaryVars
<1>2. RecordOK /\ RecordOK' /\ FormsReady /\ PaperOK
  BY <1>1, PartsOfTypeOK DEF RowInv, FormsReady, RecordOK, IsProduct, Products
<1>3. f \in PaperForms /\ (f.verb = "upload" /\ pc[q] = "stored" => f.id \in blob)
  BY <1>1, <1>2 DEF FormsReady, FormsFit, Fits, CatalogForm, StepsArePrepared, Prepared
<1>4. ASSUME PaperOK', Advances, FormsReady' PROVE RowInv'
  <2>1. SummaryTypeOK'
    BY <1>1, <1>2, <1>4, PartsOfTypeOK, PartsOfTypeOKNext
       DEF RowInv, ManualOK, LinkOK, SummaryOK
  <2> QED
    BY <1>4, <2>1 DEF RowInv, FormsReady
<1>5. CASE f.verb = "upload" /\ PutBlob(q)
  <2>1. CASE End(q, "failed") /\ UNCHANGED <<blob, paper>>
    <3>1. Advances /\ PaperOK'
      BY <1>1, <1>2, <2>1, StillAdvances DEF PaperOK
    <3> QED
      BY <1>2, <1>4, <2>1, <3>1, StepsKeep
  <2>2. CASE /\ UNCHANGED paper
             /\ \E i \in Papers \ blob : /\ blob' = blob \cup {i}
                                         /\ Go(q, "stored", [f EXCEPT !.id = i])
    <3>1. PICK i \in Papers \ blob : /\ blob' = blob \cup {i}
                                     /\ Go(q, "stored", [f EXCEPT !.id = i])
      BY <2>2
    <3>0. PICK g : g = [f EXCEPT !.id = i]
      OBVIOUS
    <3>2. g \in PaperForms /\ g.verb = "upload" /\ g.id = i /\ "verb" \in DOMAIN g
      BY <1>3, <1>5, <3>0 DEF PaperForms
    <3>3. Go(q, "stored", g)
      BY <3>0, <3>1
    <3>4. Ready("stored", g)'
      BY <3>1, <3>2 DEF Ready, Fits, CatalogForm, SummaryForm, RepoForm, Opened, Prepared
    <3>5. Advances /\ PaperOK'
      BY <1>1, <1>2, <2>2, <3>1 DEF PaperOK, Advances
    <3> QED
      BY <1>2, <1>4, <3>3, <3>4, <3>5, StepKeeps
  <2> QED
    BY <1>5, <2>1, <2>2 DEF PutBlob
<1>6. CASE f.verb = "upload" /\ InsertPaper(q)
  <2>1. UNCHANGED blob /\ pc[q] = "stored" /\ \E how : End(q, how)
    BY <1>6 DEF InsertPaper
  <2>2. Advances
    BY <1>1, <2>1, StillAdvances
  <2>3. PaperOK'
    BY <1>2, <1>3, <1>6, <2>1 DEF InsertPaper, With, PaperOK, PaperForms
  <2> QED
    BY <1>2, <1>4, <2>1, <2>2, <2>3, StepsKeep
<1>7. CASE DeletePaper(q)
  <2>1. UNCHANGED blob /\ \E how : End(q, how)
    BY <1>7 DEF DeletePaper
  <2>2. Advances
    BY <1>1, <2>1, StillAdvances
  <2>3. PaperOK'
    BY <1>2, <1>7, <2>1 DEF DeletePaper, PaperOK
  <2> QED
    BY <1>2, <1>4, <2>1, <2>2, <2>3, StepsKeep
<1> QED
  BY <1>5, <1>6, <1>7, PapersAre

-----------------------------------------------------------------------------
(* The steps of the summary *)

LEMMA SectionsAreFinite == IsFiniteSet(Sections)
<1>1. ASSUME NEW S, IsFiniteSet(S), NEW x, NEW y PROVE IsFiniteSet(S \cup {x, y})
  <2>1. IsFiniteSet(S \cup {x}) /\ IsFiniteSet((S \cup {x}) \cup {y})
    BY <1>1, FS_AddElement
  <2>2. (S \cup {x}) \cup {y} = S \cup {x, y}
    OBVIOUS
  <2> QED
    BY <2>1, <2>2
<1>2. IsFiniteSet({} \cup {"summary", "scope"})
  BY <1>1, FS_EmptySet
<1>3. IsFiniteSet(({} \cup {"summary", "scope"}) \cup {"requirements", "hardware"})
  BY <1>1, <1>2
<1>4. IsFiniteSet((({} \cup {"summary", "scope"}) \cup {"requirements", "hardware"})
                  \cup {"commercial", "documents"})
  BY <1>1, <1>3
<1>5. IsFiniteSet(((({} \cup {"summary", "scope"}) \cup {"requirements", "hardware"})
                   \cup {"commercial", "documents"}) \cup {"approval", "changelog"})
  BY <1>1, <1>4
<1>6. Sections = ((({} \cup {"summary", "scope"}) \cup {"requirements", "hardware"})
                  \cup {"commercial", "documents"}) \cup {"approval", "changelog"}
  BY DEF Sections
<1> QED
  BY <1>5, <1>6

\* However much is complete, it is some of the eight.
LEMMA CompleteAreSections ==
    /\ Complete(summary) \in SUBSET Sections /\ IsFiniteSet(Complete(summary))
    /\ Cardinality(Complete(summary)) \in Nat /\ Percent(Cardinality(Complete(summary))) \in Nat
<1>1. Complete(summary) \in SUBSET Sections
  BY DEF Complete, Sections
<1>2. IsFiniteSet(Complete(summary)) /\ Cardinality(Complete(summary)) \in Nat
  BY <1>1, SectionsAreFinite, FS_Subset, FS_CardinalityType
<1>3. ASSUME NEW n \in Nat PROVE (n * 100 + 4) \div 8 \in Nat
  OBVIOUS
<1> QED
  BY <1>1, <1>2, <1>3 DEF Percent

\* A patch leaves a row, in the status it had.
LEMMA PatchedIsRowed ==
    ASSUME NEW s \in Rowed, NEW p \in PatchBodies
    PROVE  Patched(s, p) \in Rowed /\ Patched(s, p).status = s.status
<1>1. PICK F \in SUBSET Fields : p.content \in [F -> Texts]
  BY DEF PatchBodies
<1>2. /\ s.content \in [Fields -> Values] /\ s.skipped \in SUBSET STRING
      /\ p.skipped \in SUBSET STRING /\ s.status \in Statuses
  BY DEF Rowed, PatchBodies
<1> DEFINE c == [f \in Fields |-> IF f \in DOMAIN p.content THEN p.content[f] ELSE s.content[f]]
           k == IF p.skips THEN p.skipped ELSE s.skipped
<1>3. c \in [Fields -> Values] /\ k \in SUBSET STRING
  BY <1>1, <1>2 DEF Values
<1>4. Patched(s, p) = [s EXCEPT !.content = c, !.skipped = k]
  BY DEF Patched
<1> HIDE DEF c, k
<1> QED
  BY <1>2, <1>3, <1>4 DEF Rowed

\* What a snapshot is read back as is a patch.
LEMMA AsPatchIsBody ==
    ASSUME NEW s \in Rowed
    PROVE  AsPatch(s) \in PatchBodies
<1> DEFINE F == {g \in Fields : s.content[g] # Null}
           c == [f \in F |-> s.content[f]]
<1>1. s.content \in [Fields -> Values] /\ s.skipped \in SUBSET STRING
  BY DEF Rowed
<1>2. F \in SUBSET Fields /\ c \in [F -> Texts]
  BY <1>1 DEF Values
<1>3. AsPatch(s) = [content |-> c, skips |-> TRUE, skipped |-> s.skipped]
  BY DEF AsPatch
<1> HIDE DEF F, c
<1>4. c \in UNION {[G -> Texts] : G \in SUBSET Fields}
  BY <1>2
<1> QED
  BY <1>1, <1>3, <1>4 DEF PatchBodies

LEMMA RowsOfSummary ==
    NoRow \in Rowed /\ \A s \in Rowed : [s EXCEPT !.status = "draft"] \in Rowed
                    /\ [s EXCEPT !.status = "in_review"] \in Rowed
                    /\ [s EXCEPT !.status = "approved"] \in Rowed
<1>1. NoRow \in Rowed
  BY DEF NoRow, Blank, Rowed, Statuses, Values
<1>2. ASSUME NEW s \in Rowed, NEW t \in Statuses PROVE [s EXCEPT !.status = t] \in Rowed
  BY DEF Rowed
<1>3. {"draft", "in_review", "approved"} \subseteq Statuses
  BY DEF Statuses
<1> QED
  BY <1>1, <1>2, <1>3

\* A summary that is there stays there, and is a row.
Rewrites ==
    /\ summary' \in Rowed
    /\ summary'.status = "none" => summary' = NoRow
    /\ summary.status # "none" => summary'.status # "none"

LEMMA SummaryRewritten ==
    ASSUME SummaryOK
    PROVE  /\ UNCHANGED summary => Rewrites
           /\ \A t \in {"draft", "in_review", "approved"} :
                 summary' = [summary EXCEPT !.status = t] => Rewrites /\ summary'.status = t
           /\ \A p \in PatchBodies :
                 summary' = Patched(summary, p) /\ summary.status # "none" => Rewrites
<1>1. UNCHANGED summary => Rewrites
  BY DEF SummaryOK, Rewrites
<1>2. ASSUME NEW t \in {"draft", "in_review", "approved"},
             summary' = [summary EXCEPT !.status = t]
      PROVE  Rewrites /\ summary'.status = t
  <2>1. summary' \in Rowed /\ summary'.status = t
    BY <1>2, RowsOfSummary DEF SummaryOK, Rowed
  <2> QED
    BY <2>1 DEF Rewrites
<1>3. ASSUME NEW p \in PatchBodies, summary' = Patched(summary, p), summary.status # "none"
      PROVE  Rewrites
  BY <1>3, PatchedIsRowed DEF SummaryOK, Rewrites
<1> QED
  BY <1>1, <1>2, <1>3

LogOK == DOMAIN log \subseteq Entries /\ \A e \in DOMAIN log : log[e] \in Rowed

\* What the steps of the summary leave to show of each.
LEMMA SummaryStepKeeps ==
    ASSUME RowInv, UNCHANGED catalog, Rewrites, LogOK', FormsReady'
    PROVE  RowInv'
<1>1. UNCHANGED <<record, link, manual, revision, paper, blob>>
  BY DEF catalog
<1>2. SummaryTypeOK'
  BY <1>1, PartsOfTypeOK, PartsOfTypeOKNext
     DEF RowInv, RecordOK, IsProduct, Products, ManualOK, LinkOK, PaperOK, SummaryOK, Rewrites, LogOK
<1> QED
  BY <1>2 DEF RowInv, FormsReady

LEMMA SummaryParts ==
    ASSUME RowInv, UNCHANGED catalog
    PROVE  /\ RecordOK /\ SummaryOK /\ LogOK /\ FormsReady
           /\ UNCHANGED log => LogOK'
           /\ Rewrites => Advances
<1>1. RecordOK /\ SummaryOK /\ LogOK /\ FormsReady
  BY PartsOfTypeOK DEF RowInv, FormsReady, SummaryOK, LogOK
<1>2. UNCHANGED log => LogOK'
  BY <1>1 DEF LogOK
<1>3. Rewrites => Advances
  BY DEF Rewrites, Advances, catalog
<1> QED
  BY <1>1, <1>2, <1>3

\* The form of a request of the summary, where it is.
LEMMA SummaryFields ==
    ASSUME FormsReady, NEW q \in Requests
    PROVE  /\ "verb" \in DOMAIN form[q] /\ SummaryForm(pc[q], form[q])
           /\ Prepared(pc[q], form[q])
BY DEF FormsReady, FormsFit, Fits, StepsArePrepared

LEMMA EnsureRowKeeps ==
    ASSUME RowInv, NEW q \in Requests, UNCHANGED catalog,
           EnsureRow(q, "patch", "admitted") \/ EnsureRow(q, "restore", "found")
    PROVE  RowInv'
<1>1. RecordOK /\ SummaryOK /\ FormsReady /\ LogOK'
  BY SummaryParts DEF EnsureRow
<1>2. summary'.status # "none" /\ Rewrites
  BY <1>1, SummaryRewritten DEF EnsureRow, SummaryOK, Rowed
<1>3. PICK f : f = form[q]
  OBVIOUS
<1>4. Go(q, "ensured", f)
  BY <1>3 DEF EnsureRow, Goto
<1>5. /\ f.verb \in {"patch", "restore"} /\ "verb" \in DOMAIN f
      /\ f.verb = "patch" => f \in PatchForms
      /\ f.verb = "restore" => f \in RestoreForms /\ f.patch \in PatchBodies
  BY <1>1, <1>3, SummaryFields DEF EnsureRow, Is, SummaryForm
<1>6. Ready("ensured", f)'
  BY <1>2, <1>5 DEF Ready, Fits, CatalogForm, SummaryForm, RepoForm, Opened, Prepared
<1>7. FormsReady'
  BY <1>1, <1>2, <1>4, <1>6, SummaryParts, StepKeeps
<1> QED
  BY <1>1, <1>2, <1>7, SummaryStepKeeps

\* A patch that is written, by a request or by a restore.
LEMMA PatchKeeps ==
    ASSUME RowInv, NEW q \in Requests, UNCHANGED catalog, UNCHANGED log, pc[q] = "ensured",
           form[q].verb \in {"patch", "restore"}, summary' = Patched(summary, form[q].patch)
    PROVE  Rewrites
<1>1. SummaryOK /\ FormsReady
  BY SummaryParts
<1>2. form[q].patch \in PatchBodies /\ summary.status # "none"
  BY <1>1, SummaryFields DEF SummaryForm, PatchForms, Prepared
<1> QED
  BY <1>1, <1>2, SummaryRewritten

LEMMA PatchSummaryKeeps ==
    ASSUME RowInv, NEW q \in Requests, UNCHANGED catalog, PatchSummary(q)
    PROVE  RowInv'
<1>1. CASE EnsureRow(q, "patch", "admitted")
  BY <1>1, EnsureRowKeeps
<1>2. CASE ~EnsureRow(q, "patch", "admitted")
  <2>1. /\ Is(q, "patch", "ensured") /\ summary' = Patched(summary, form[q].patch)
        /\ End(q, "done") /\ UNCHANGED log
    BY <1>2 DEF PatchSummary
  <2>2. Rewrites
    BY <2>1, PatchKeeps DEF Is
  <2>3. RecordOK /\ FormsReady /\ LogOK' /\ Advances
    BY <2>1, <2>2, SummaryParts
  <2>4. FormsReady'
    BY <2>1, <2>3, StepsKeep
  <2> QED
    BY <2>2, <2>3, <2>4, SummaryStepKeeps
<1> QED
  BY <1>1, <1>2

\* The gate, and the moves from status to status.
LEMMA ReviewKeeps ==
    ASSUME RowInv, NEW q \in Requests, UNCHANGED catalog,
           ReadCompletion(q) \/ SubmitSummary(q) \/ ApproveSummary(q) \/ RevertSummary(q)
    PROVE  RowInv'
<1>1. RecordOK /\ SummaryOK /\ FormsReady /\ LogOK'
  BY SummaryParts DEF ReadCompletion, SubmitSummary, ApproveSummary, RevertSummary, Transition,
                      summaryVars
<1>2. Rewrites
  BY <1>1, SummaryRewritten DEF ReadCompletion, SubmitSummary, ApproveSummary, RevertSummary,
                                Transition, Reverted, summaryVars
<1>3. ASSUME ReadCompletion(q), ~(\E how : End(q, how))
      PROVE  \E p, f : Go(q, p, f) /\ Ready(p, f)
  <2>1. PICK f : f = [form[q] EXCEPT !.read = Complete(summary)]
    OBVIOUS
  <2>2. /\ form[q].verb = "submit" /\ Go(q, "complete", f)
        /\ ~form[q].force => ~(Percent(Cardinality(Complete(summary))) < Threshold)
    <3>1. ~End(q, "missing") /\ ~End(q, "incomplete")
      BY <1>3
    <3>2. CASE ~form[q].force /\ Percent(Cardinality(Complete(summary))) < Threshold
      BY <1>3, <3>1, <3>2 DEF ReadCompletion
    <3>3. CASE ~(~form[q].force /\ Percent(Cardinality(Complete(summary))) < Threshold)
      <4>1. Go(q, "complete", [form[q] EXCEPT !.read = Complete(summary)])
        BY <1>3, <3>1, <3>3 DEF ReadCompletion
      <4> QED
        BY <1>3, <2>1, <3>3, <4>1 DEF ReadCompletion, Is
    <3> QED
      BY <3>2, <3>3
  <2>3. form[q] \in SubmitForms
    BY <1>1, <2>2, SummaryFields DEF SummaryForm
  <2>4. f \in SubmitForms /\ f.verb = "submit" /\ "verb" \in DOMAIN f
        /\ f.read = Complete(summary) /\ f.force = form[q].force
    BY <2>1, <2>3, CompleteAreSections DEF SubmitForms
  <2>5. ~f.force => Percent(Cardinality(f.read)) >= Threshold
    <3>1. Percent(Cardinality(Complete(summary))) \in Nat /\ Threshold \in Int
      BY CompleteAreSections, SummaryAssumption
    <3> QED
      BY <2>2, <2>4, <3>1
  <2>6. Ready("complete", f)
    BY <2>4, <2>5 DEF Ready, Fits, CatalogForm, SummaryForm, RepoForm, Opened, Prepared
  <2> QED
    BY <2>2, <2>6
<1>4. \/ \E p, f : Go(q, p, f) /\ Ready(p, f)
      \/ \E how : End(q, how)
  BY <1>3 DEF SubmitSummary, ApproveSummary, RevertSummary, Transition, Reverted
<1>5. FormsReady'
  BY <1>1, <1>2, <1>4, SummaryParts, StepsKeep
<1> QED
  BY <1>1, <1>2, <1>5, SummaryStepKeeps

\* A snapshot that is taken for the change log.
LEMMA SnapshotKeeps ==
    ASSUME RowInv, NEW q \in Requests, UNCHANGED catalog,
           ReadSnapshot(q, "append", "admitted") \/ ReadSnapshot(q, "restore", "patched")
    PROVE  RowInv'
<1>1. RecordOK /\ SummaryOK /\ FormsReady /\ LogOK' /\ Rewrites /\ Advances
  BY SummaryParts, SummaryRewritten DEF ReadSnapshot, summaryVars
<1>2. PICK f : f = [form[q] EXCEPT !.snapshot = summary]
  OBVIOUS
<1>3. /\ Go(q, "read", f) /\ form[q].verb \in {"append", "restore"}
      /\ form[q].verb = "restore" => pc[q] = "patched"
  BY <1>2 DEF ReadSnapshot, Is
<1>4. /\ form[q].verb = "append" => f \in AppendForms /\ f.verb = "append"
      /\ form[q].verb = "restore" =>
            f \in RestoreForms /\ f.verb = "restore" /\ f.patch \in PatchBodies
  BY <1>1, <1>2, <1>3, SummaryFields DEF SummaryForm, AppendForms, RestoreForms, SummaryOK
<1>5. "verb" \in DOMAIN f
  BY <1>3, <1>4 DEF AppendForms, RestoreForms
<1>6. Ready("read", f)
  BY <1>3, <1>4, <1>5 DEF Ready, Fits, CatalogForm, SummaryForm, RepoForm, Opened, Prepared
<1>7. FormsReady'
  BY <1>1, <1>3, <1>6, StepsKeep
<1> QED
  BY <1>1, <1>7, SummaryStepKeeps

LEMMA EntryKeeps ==
    ASSUME RowInv, NEW q \in Requests, UNCHANGED catalog,
           InsertEntry(q, "append") \/ InsertEntry(q, "restore") \/ DeleteEntry(q)
    PROVE  RowInv'
<1>1. UNCHANGED summary /\ \E how : End(q, how)
  BY DEF InsertEntry, DeleteEntry
<1>2. RecordOK /\ SummaryOK /\ LogOK /\ FormsReady /\ Rewrites /\ Advances
  BY <1>1, SummaryParts, SummaryRewritten
<1>3. LogOK'
  <2>1. CASE DeleteEntry(q)
    BY <1>2, <2>1 DEF DeleteEntry, LogOK
  <2>2. CASE InsertEntry(q, "append") \/ InsertEntry(q, "restore")
    <3>1. form[q].snapshot \in Rowed
      BY <1>2, <2>2, SummaryFields DEF InsertEntry, Is, SummaryForm, AppendForms, RestoreForms
    <3> QED
      BY <1>2, <2>2, <3>1 DEF InsertEntry, With, LogOK
  <2> QED
    BY <2>1, <2>2
<1>4. FormsReady'
  BY <1>1, <1>2, StepsKeep
<1> QED
  BY <1>2, <1>3, <1>4, SummaryStepKeeps

LEMMA ReadEntryKeeps ==
    ASSUME RowInv, NEW q \in Requests, UNCHANGED catalog, ReadEntry(q)
    PROVE  RowInv'
<1>1. RecordOK /\ SummaryOK /\ LogOK /\ FormsReady /\ LogOK' /\ Rewrites /\ Advances
  BY SummaryParts, SummaryRewritten DEF ReadEntry, summaryVars
<1> DEFINE e == form[q].entry
<1>2. CASE \E how : End(q, how)
  <2>1. FormsReady'
    BY <1>1, <1>2, StepsKeep
  <2> QED
    BY <1>1, <2>1, SummaryStepKeeps
<1>3. CASE ~(\E how : End(q, how))
  <2>1. PICK f : f = [form[q] EXCEPT !.patch = AsPatch(log[e]), !.snapshot = log[e]]
    OBVIOUS
  <2>2. e \in DOMAIN log /\ Go(q, "found", f) /\ form[q].verb = "restore"
    <3>1. ~End(q, "missing") /\ ~End(q, "invalid")
      BY <1>3
    <3> QED
      BY <2>1, <3>1 DEF ReadEntry, Is
  <2>3. log[e] \in Rowed /\ AsPatch(log[e]) \in PatchBodies /\ form[q] \in RestoreForms
    BY <1>1, <2>2, AsPatchIsBody, SummaryFields DEF LogOK, SummaryForm
  <2>4. f \in RestoreForms /\ f.patch \in PatchBodies /\ f.verb = "restore" /\ "verb" \in DOMAIN f
    BY <2>1, <2>3 DEF RestoreForms
  <2>5. Ready("found", f)
    BY <2>4 DEF Ready, Fits, CatalogForm, SummaryForm, RepoForm, Opened, Prepared
  <2>6. FormsReady'
    BY <1>1, <2>2, <2>5, StepsKeep
  <2> QED
    BY <1>1, <2>6, SummaryStepKeeps
<1> QED
  BY <1>2, <1>3

LEMMA ApplySnapshotKeeps ==
    ASSUME RowInv, NEW q \in Requests, UNCHANGED catalog, ApplySnapshot(q)
    PROVE  RowInv'
<1>1. Rewrites
  BY PatchKeeps DEF ApplySnapshot, Is
<1>2. RecordOK /\ FormsReady /\ LogOK' /\ Advances
  BY <1>1, SummaryParts DEF ApplySnapshot
<1>3. /\ Go(q, "patched", form[q]) /\ form[q].verb = "restore" /\ "verb" \in DOMAIN form[q]
      /\ form[q] \in RestoreForms /\ form[q].patch \in PatchBodies /\ summary.status # "none"
  BY <1>2, SummaryFields DEF ApplySnapshot, Is, Goto, SummaryForm, Prepared
<1>4. Ready("patched", form[q])
  BY <1>3 DEF Ready, Fits, CatalogForm, SummaryForm, RepoForm, Opened, Prepared
<1>5. FormsReady'
  BY <1>2, <1>3, <1>4, StepsKeep
<1> QED
  BY <1>1, <1>2, <1>5, SummaryStepKeeps

LEMMA SummariesKeep ==
    ASSUME RowInv, NEW q \in Requests, SummarySteps(q), UNCHANGED catalog
    PROVE  RowInv'
BY PatchSummaryKeeps, ReviewKeeps, SnapshotKeeps, EntryKeeps, ReadEntryKeeps, EnsureRowKeeps,
   ApplySnapshotKeeps DEF SummarySteps, AppendEntry, RestoreEntry

-----------------------------------------------------------------------------
(* What is asked *)

LEMMA AskKeeps ==
    ASSUME RowInv, NEW q \in Requests, UNCHANGED <<catalog, summaryVars>>,
           \/ \E p, f : Go(q, p, f) /\ Ready(p, f)
           \/ \E how : End(q, how)
    PROVE  RowInv'
<1>1. RecordOK /\ FormsReady /\ LogOK' /\ Rewrites /\ Advances
  BY SummaryParts, SummaryRewritten DEF summaryVars
<1>2. FormsReady'
  BY <1>1, StepsKeep
<1> QED
  BY <1>1, <1>2, SummaryStepKeeps

LEMMA NothingKeeps ==
    ASSUME RowInv, UNCHANGED <<catalog, summaryVars, pc, form>>
    PROVE  RowInv'
<1>1. RecordOK /\ FormsReady /\ LogOK' /\ Rewrites /\ Advances
  BY SummaryParts, SummaryRewritten DEF summaryVars
<1>2. CASE Requests = {}
  <2>1. FormsReady'
    BY <1>1, <1>2 DEF FormsReady, FormsFit, FormsAreOpened, StepsArePrepared
  <2> QED
    BY <1>1, <2>1, SummaryStepKeeps
<1>3. ASSUME NEW q \in Requests PROVE RowInv'
  <2>1. Go(q, pc[q], form[q])
    BY <1>1 DEF FormsReady, FormsFit, Go
  <2> QED
    BY <1>1, <2>1, FormIsReady, AskKeeps
<1> QED
  BY <1>2, <1>3

LEMMA NewIsReady ==
    ASSUME NEW kind \in Kinds, NEW key \in Keys, NEW product \in Rows \cup {None},
           NEW unit \in Units \cup {None}, kind # "rma" => unit = None
    PROVE  Ready("admitted", [verb |-> "create", kind |-> kind, key |-> key,
                              product |-> product, unit |-> unit])
<1> DEFINE f == [verb |-> "create", kind |-> kind, key |-> key, product |-> product,
                 unit |-> unit]
<1>1. f \in CreateForms /\ f.verb = "create" /\ (f.kind # "rma" => f.unit = None)
      /\ "verb" \in DOMAIN f
  BY DEF CreateForms
<1> HIDE DEF f
<1>2. Ready("admitted", f)
  BY <1>1 DEF Ready, Fits, CatalogForm, SummaryForm, RepoForm, Opened, Prepared
<1> QED
  BY <1>2 DEF f

\* A form that is opened on a row shows it as it is.
LEMMA OpeningIsReady ==
    ASSUME RecordOK, NEW i \in DOMAIN record
    PROVE  /\ \A key \in Keys, status \in States, unit \in Units \cup {None} :
                 Ready("admitted", [verb |-> "edit", id |-> i, seen |-> record[i],
                                    key |-> key, status |-> status, unit |-> unit])
           /\ Ready("admitted", [verb |-> "archive", id |-> i, seen |-> record[i]])
<1>1. i \in Rows /\ record[i] \in RowTypes /\ record[i].version <= record[i].version
  BY DEF RecordOK, RowTypes
<1>2. ASSUME NEW key \in Keys, NEW status \in States, NEW unit \in Units \cup {None}
      PROVE  Ready("admitted", [verb |-> "edit", id |-> i, seen |-> record[i], key |-> key,
                                status |-> status, unit |-> unit])
  <2> DEFINE f == [verb |-> "edit", id |-> i, seen |-> record[i], key |-> key,
                   status |-> status, unit |-> unit]
  <2>1. f \in EditForms /\ f.verb = "edit" /\ "verb" \in DOMAIN f /\ f.id = i
        /\ f.seen = record[i]
    BY <1>1 DEF EditForms
  <2> HIDE DEF f
  <2>2. Ready("admitted", f)
    BY <1>1, <2>1 DEF Ready, Fits, CatalogForm, SummaryForm, RepoForm, Opened, Prepared
  <2> QED
    BY <2>2 DEF f
<1>3. Ready("admitted", [verb |-> "archive", id |-> i, seen |-> record[i]])
  <2> DEFINE f == [verb |-> "archive", id |-> i, seen |-> record[i]]
  <2>1. f \in ArchiveForms /\ f.verb = "archive" /\ "verb" \in DOMAIN f /\ f.id = i
        /\ f.seen = record[i]
    BY <1>1 DEF ArchiveForms
  <2> HIDE DEF f
  <2>2. Ready("admitted", f)
    BY <1>1, <2>1 DEF Ready, Fits, CatalogForm, SummaryForm, RepoForm, Opened, Prepared
  <2> QED
    BY <2>2 DEF f
<1> QED
  BY <1>2, <1>3

Asked(q) == \E f : Go(q, "admitted", f) /\ Ready("admitted", f)

LEMMA RowsAreAsked ==
    ASSUME RecordOK, NEW q \in Requests,
           \/ \E k \in Parties : AskParty(q, k)
           \/ AskProduct(q) \/ AskRelease(q) \/ AskRma(q)
    PROVE  Asked(q)
<1>1. ASSUME NEW kind \in Kinds, NEW key \in Keys, NEW product \in Rows \cup {None},
             NEW unit \in Units \cup {None}, kind # "rma" => unit = None,
             AskNew(q, kind, key, product, unit)
      PROVE  Asked(q)
  BY <1>1, NewIsReady DEF AskNew, Ask, Asked
<1>2. ASSUME NEW i \in DOMAIN record, NEW key \in Keys, NEW status \in States,
             NEW unit \in Units \cup {None}, AskEdit(q, i, key, status, unit)
      PROVE  Asked(q)
  BY <1>2, OpeningIsReady DEF AskEdit, Ask, Asked
<1>3. ASSUME NEW i \in DOMAIN record, AskArchive(q, i)
      PROVE  Asked(q)
  BY <1>3, OpeningIsReady DEF AskArchive, Ask, Asked
<1>4. \A i \in DOMAIN record : record[i].key \in Keys /\ record[i].status \in States
  BY DEF RecordOK, RowTypes
<1>5. ASSUME NEW k \in Parties, AskParty(q, k) PROVE Asked(q)
  <2>1. k \in Kinds /\ k # "rma" /\ Live(k) \subseteq DOMAIN record
    BY DEF Parties, Kinds, Live
  <2> QED
    BY <1>1, <1>2, <1>3, <1>4, <1>5, <2>1 DEF AskParty
<1>6. CASE AskProduct(q)
  BY <1>1, <1>2, <1>3, <1>4, <1>6 DEF AskProduct, Kinds, Products
<1>7. CASE AskRelease(q)
  BY <1>1, <1>2, <1>3, <1>4, <1>7 DEF AskRelease, Kinds, Live
<1>8. CASE AskRma(q)
  BY <1>1, <1>2, <1>3, <1>4, <1>8 DEF AskRma, Kinds, Returns
<1> QED
  BY <1>5, <1>6, <1>7, <1>8

\* The other requests of the catalogue and of the summary carry what their steps use.
LEMMA FormIsAsked ==
    ASSUME NEW q \in Requests, NEW f, Ask(q, f), "verb" \in DOMAIN f,
           f.verb \in {"link", "unlink"} => f \in LinkForms,
           f.verb = "publish" => f \in PublishForms /\ f.old # f.target,
           f.verb \in {"upload", "remove"} => f \in PaperForms,
           f.verb = "patch" => f \in PatchForms,
           f.verb = "submit" => f \in SubmitForms,
           f.verb = "append" => f \in AppendForms,
           f.verb = "restore" => f \in RestoreForms,
           f.verb \notin {"create", "edit", "archive"}
    PROVE  Asked(q)
<1>1. Ready("admitted", f)
  BY DEF Ready, Fits, CatalogForm, SummaryForm, RepoForm, Opened, Prepared
<1> QED
  BY <1>1 DEF Ask, Asked

LEMMA CatalogIsAsked ==
    ASSUME RecordOK, PaperOK, NEW q \in Requests, CatalogAsks(q) \/ AskAttachment(q)
    PROVE  Asked(q)
<1>1. CASE \/ \E k \in Parties : AskParty(q, k)
           \/ AskProduct(q) \/ AskRelease(q) \/ AskRma(q)
  BY <1>1, RowsAreAsked
<1>2. CASE AskLink(q)
  <2>1. PICK v \in {"link", "unlink"}, p \in Projects, i \in Products :
           Ask(q, [verb |-> v, id |-> i, project |-> p])
    BY <1>2 DEF AskLink
  <2>2. PICK f : f = [verb |-> v, id |-> i, project |-> p]
    OBVIOUS
  <2>3. f \in LinkForms /\ f.verb \in {"link", "unlink"} /\ "verb" \in DOMAIN f /\ Ask(q, f)
    BY <2>1, <2>2 DEF LinkForms, RecordOK, Products
  <2> QED
    BY <2>3, FormIsAsked
<1>3. CASE AskRevise(q)
  <2>1. PICK f : f = [verb |-> "revise"]
    OBVIOUS
  <2>2. f.verb = "revise" /\ "verb" \in DOMAIN f /\ Ask(q, f)
    BY <1>3, <2>1 DEF AskRevise
  <2> QED
    BY <2>2, FormIsAsked
<1>4. CASE AskPublish(q)
  <2>1. PICK r \in Revisions : Ask(q, [verb |-> "publish", target |-> r, old |-> None])
    BY <1>4 DEF AskPublish
  <2>2. PICK f : f = [verb |-> "publish", target |-> r, old |-> None]
    OBVIOUS
  <2>3. f \in PublishForms /\ f.verb = "publish" /\ f.old # f.target /\ "verb" \in DOMAIN f
        /\ Ask(q, f)
    BY <2>1, <2>2, CatalogAssumption DEF PublishForms
  <2> QED
    BY <2>3, FormIsAsked
<1>5. ASSUME NEW kind \in PaperKinds, AskPaper(q, kind) PROVE Asked(q)
  <2>1. PICK v \in {"upload", "remove"}, i \in Papers \cup {None} :
           Ask(q, [verb |-> v, id |-> i, kind |-> kind])
    BY <1>5 DEF AskPaper, PaperOK
  <2>2. PICK f : f = [verb |-> v, id |-> i, kind |-> kind]
    OBVIOUS
  <2>3. f \in PaperForms /\ f.verb \in {"upload", "remove"} /\ "verb" \in DOMAIN f /\ Ask(q, f)
    BY <2>1, <2>2 DEF PaperForms
  <2> QED
    BY <2>3, FormIsAsked
<1> QED
  BY <1>1, <1>2, <1>3, <1>4, <1>5 DEF CatalogAsks, AskAttachment, PaperKinds

LEMMA SummaryIsAsked ==
    ASSUME SummaryOK, RecordOK, PaperOK, NEW q \in Requests, SummaryAsks(q)
    PROVE  Asked(q)
<1>1. CASE AskPatch(q)
  <2>1. PICK p \in Patches : Ask(q, [verb |-> "patch", patch |-> p])
    BY <1>1 DEF AskPatch
  <2>2. PICK f : f = [verb |-> "patch", patch |-> p]
    OBVIOUS
  <2>3. f \in PatchForms /\ f.verb = "patch" /\ "verb" \in DOMAIN f /\ Ask(q, f)
    BY <2>1, <2>2, SummaryAssumption DEF PatchForms
  <2> QED
    BY <2>3, FormIsAsked
<1>2. CASE AskSubmit(q)
  <2>1. PICK b \in BOOLEAN : Ask(q, [verb |-> "submit", force |-> b, read |-> {}])
    BY <1>2 DEF AskSubmit
  <2>2. PICK f : f = [verb |-> "submit", force |-> b, read |-> {}]
    OBVIOUS
  <2>3. f \in SubmitForms /\ f.verb = "submit" /\ "verb" \in DOMAIN f /\ Ask(q, f)
    BY <2>1, <2>2 DEF SubmitForms
  <2> QED
    BY <2>3, FormIsAsked
<1>3. ASSUME NEW v \in {"approve", "revert"}, Ask(q, [verb |-> v]) PROVE Asked(q)
  <2>1. PICK f : f = [verb |-> v]
    OBVIOUS
  <2>2. f.verb \in {"approve", "revert"} /\ "verb" \in DOMAIN f /\ Ask(q, f)
    BY <1>3, <2>1
  <2> QED
    BY <2>2, FormIsAsked
<1>4. CASE AskEntry(q)
  <2>1. PICK f : f = [verb |-> "append", snapshot |-> NoRow]
    OBVIOUS
  <2>2. f \in AppendForms /\ f.verb = "append" /\ "verb" \in DOMAIN f /\ Ask(q, f)
    BY <1>4, <2>1, RowsOfSummary DEF AskEntry, AppendForms
  <2> QED
    BY <2>2, FormIsAsked
<1>5. CASE AskRestore(q)
  <2>1. PICK e \in DOMAIN log :
           \/ Ask(q, [verb |-> "restore", entry |-> e, patch |-> NoRow, snapshot |-> NoRow])
           \/ Ask(q, [verb |-> "forget", entry |-> e])
    BY <1>5 DEF AskRestore
  <2>2. CASE Ask(q, [verb |-> "restore", entry |-> e, patch |-> NoRow, snapshot |-> NoRow])
    <3>1. PICK f : f = [verb |-> "restore", entry |-> e, patch |-> NoRow, snapshot |-> NoRow]
      OBVIOUS
    <3>2. f \in RestoreForms /\ f.verb = "restore" /\ "verb" \in DOMAIN f /\ Ask(q, f)
      BY <2>1, <2>2, <3>1, RowsOfSummary DEF RestoreForms, SummaryOK
    <3> QED
      BY <3>2, FormIsAsked
  <2>3. CASE Ask(q, [verb |-> "forget", entry |-> e])
    <3>1. PICK f : f = [verb |-> "forget", entry |-> e]
      OBVIOUS
    <3>2. f.verb = "forget" /\ "verb" \in DOMAIN f /\ Ask(q, f)
      BY <2>3, <3>1
    <3> QED
      BY <3>2, FormIsAsked
  <2> QED
    BY <2>1, <2>2, <2>3
<1>6. CASE AskAttachment(q)
  BY <1>6, CatalogIsAsked
<1> QED
  BY <1>1, <1>2, <1>3, <1>4, <1>5, <1>6 DEF SummaryAsks, AskApproval

LEMMA AsksKeep ==
    ASSUME RowInv, NEW q \in Requests, UNCHANGED <<catalog, summaryVars>>,
           CatalogAsks(q) \/ SummaryAsks(q)
    PROVE  RowInv'
<1>1. RecordOK /\ PaperOK /\ SummaryOK
  BY PartsOfTypeOK DEF RowInv
<1>2. Asked(q)
  BY <1>1, CatalogIsAsked, SummaryIsAsked
<1> QED
  BY <1>2, AskKeeps DEF Asked

-----------------------------------------------------------------------------
(* Repositories *)

\* Where a request about repositories goes.
RepoMoves(q) ==
    \/ \E p, f : /\ Go(q, p, f) /\ "verb" \in DOMAIN f
                 /\ RepoVerb(f) /\ RepoForm(p, f)
    \/ \E how : End(q, how)

LEMMA ReposAreReady ==
    ASSUME NEW q \in Requests, RepoMoves(q)
    PROVE  \/ \E p, f : Go(q, p, f) /\ Ready(p, f)
           \/ \E how : End(q, how)
<1>1. CASE \E p, f : /\ Go(q, p, f) /\ "verb" \in DOMAIN f
                     /\ RepoVerb(f) /\ RepoForm(p, f)
  <2>1. PICK p, f : Go(q, p, f) /\ "verb" \in DOMAIN f /\ RepoVerb(f) /\ RepoForm(p, f)
    BY <1>1
  <2>2. Ready(p, f)
    BY <2>1 DEF Ready, Fits, CatalogForm, SummaryForm, RepoVerb, Opened, Prepared
  <2> QED
    BY <2>1, <2>2
<1> QED
  BY <1>1 DEF RepoMoves

LEMMA ReposAreAsked ==
    ASSUME NEW q \in Requests, RepoAsks(q)
    PROVE  RepoMoves(q)
<1>1. ASSUME NEW f, Ask(q, f), "verb" \in DOMAIN f, RepoVerb(f) PROVE RepoMoves(q)
  <2>1. RepoForm("admitted", f)
    BY DEF RepoForm
  <2> QED
    BY <1>1, <2>1 DEF Ask, RepoMoves
<1>2. CASE AskWebhook(q)
  <2>1. PICK t \in Things, a \in Abouts :
           Ask(q, [verb |-> "deliver", thing |-> t, full |-> TRUE, row |-> None,
                   block |-> Block(About[t].hub, a)])
    BY <1>2 DEF AskWebhook
  <2>2. PICK f : f = [verb |-> "deliver", thing |-> t, full |-> TRUE, row |-> None,
                      block |-> Block(About[t].hub, a)]
    OBVIOUS
  <2>3. Ask(q, f) /\ "verb" \in DOMAIN f /\ RepoVerb(f)
    BY <2>1, <2>2 DEF RepoVerb
  <2> QED
    BY <1>1, <2>3
<1>3. CASE AskSynthesized(q)
  <2>1. PICK t \in Things, i \in DOMAIN repo :
           Ask(q, [verb |-> "deliver", thing |-> t, full |-> FALSE, row |-> None,
                   block |-> BlockOfRow(i)])
    BY <1>3 DEF AskSynthesized
  <2>2. PICK f : f = [verb |-> "deliver", thing |-> t, full |-> FALSE, row |-> None,
                      block |-> BlockOfRow(i)]
    OBVIOUS
  <2>3. Ask(q, f) /\ "verb" \in DOMAIN f /\ RepoVerb(f)
    BY <2>1, <2>2 DEF RepoVerb
  <2> QED
    BY <1>1, <2>3
<1>4. CASE AskSync(q)
  <2>1. PICK i \in RepoIds : Ask(q, [verb |-> "sync", row |-> i])
    BY <1>4 DEF AskSync
  <2>2. PICK f : f = [verb |-> "sync", row |-> i]
    OBVIOUS
  <2>3. Ask(q, f) /\ "verb" \in DOMAIN f /\ RepoVerb(f)
    BY <2>1, <2>2 DEF RepoVerb
  <2> QED
    BY <1>1, <2>3
<1>5. CASE AskByName(q)
  <2>1. PICK v \in {"sync by name", "import"}, x \in was :
           Ask(q, [verb |-> v, owner |-> x[2], name |-> x[3], row |-> None,
                   block |-> None, created |-> FALSE])
    BY <1>5 DEF AskByName
  <2>2. PICK f : f = [verb |-> v, owner |-> x[2], name |-> x[3], row |-> None,
                      block |-> None, created |-> FALSE]
    OBVIOUS
  <2>3. Ask(q, f) /\ "verb" \in DOMAIN f /\ RepoVerb(f)
    BY <2>1, <2>2 DEF RepoVerb
  <2> QED
    BY <1>1, <2>3
<1> QED
  BY <1>2, <1>3, <1>4, <1>5 DEF RepoAsks

\* A step whose form is for the same request.
LEMMA MovesAsItIs ==
    ASSUME FormsFit, NEW q \in Requests, RepoVerb(form[q]), NEW p, RepoForm(p, form[q])
    PROVE  /\ Goto(q, p) => RepoMoves(q)
           /\ \A i : Go(q, p, [form[q] EXCEPT !.row = i]) => RepoMoves(q)
           /\ \A b : Go(q, p, [form[q] EXCEPT !.block = b]) => RepoMoves(q)
           /\ \A b : Go(q, p, [form[q] EXCEPT !.created = b]) => RepoMoves(q)
<1>1. "verb" \in DOMAIN form[q]
  BY DEF FormsFit, Fits
<1>2. ASSUME NEW f, "verb" \in DOMAIN f, f.verb = form[q].verb, Go(q, p, f)
      PROVE  RepoMoves(q)
  <2>1. RepoVerb(f) /\ RepoForm(p, f)
    BY <1>2 DEF RepoVerb, RepoForm, NoForm
  <2> QED
    BY <1>2, <2>1 DEF RepoMoves
<1>3. ASSUME NEW i, Go(q, p, [form[q] EXCEPT !.row = i]) PROVE RepoMoves(q)
  <2>1. PICK f : f = [form[q] EXCEPT !.row = i]
    OBVIOUS
  <2>2. "verb" \in DOMAIN f /\ f.verb = form[q].verb
    BY <1>1, <2>1
  <2> QED
    BY <1>2, <1>3, <2>1, <2>2
<1>4. ASSUME NEW b, Go(q, p, [form[q] EXCEPT !.block = b]) PROVE RepoMoves(q)
  <2>1. PICK f : f = [form[q] EXCEPT !.block = b]
    OBVIOUS
  <2>2. "verb" \in DOMAIN f /\ f.verb = form[q].verb
    BY <1>1, <2>1
  <2> QED
    BY <1>2, <1>4, <2>1, <2>2
<1>5. ASSUME NEW b, Go(q, p, [form[q] EXCEPT !.created = b]) PROVE RepoMoves(q)
  <2>1. PICK f : f = [form[q] EXCEPT !.created = b]
    OBVIOUS
  <2>2. "verb" \in DOMAIN f /\ f.verb = form[q].verb
    BY <1>1, <2>1
  <2> QED
    BY <1>2, <1>5, <2>1, <2>2
<1> QED
  BY <1>1, <1>2, <1>3, <1>4, <1>5 DEF Goto

LEMMA StoreMoves ==
    ASSUME FormsFit, NEW q \in Requests, form[q] # NoForm, StoreRepo(q)
    PROVE  RepoMoves(q)
<1>1. RepoForm(pc[q], form[q])
  BY DEF FormsFit, Fits
<1>2. CASE UpsertOrg(q)
  <2>1. RepoVerb(form[q])
    BY <1>2 DEF UpsertOrg, Is, RepoVerb
  <2>2. CASE form[q].verb = "import"
    <3>1. RepoForm("probing", form[q]) /\ Goto(q, "probing")
      BY <1>2, <2>2 DEF RepoForm, UpsertOrg
    <3> QED
      BY <2>1, <3>1, MovesAsItIs
  <2>3. CASE form[q].verb # "import"
    <3>1. RepoForm("owner", form[q]) /\ Goto(q, "owner")
      BY <1>2, <2>1, <2>3 DEF RepoForm, RepoVerb, UpsertOrg, Is
    <3> QED
      BY <2>1, <3>1, MovesAsItIs
  <2> QED
    BY <2>2, <2>3
<1>3. CASE UpsertRepo(q)
  <2>1. RepoVerb(form[q]) /\ RepoForm("row", form[q])
    BY <1>1, <1>3 DEF UpsertRepo, RepoForm, RepoVerb
  <2>2. PICK i : Go(q, "row", [form[q] EXCEPT !.row = i])
    BY <1>3 DEF UpsertRepo
  <2> QED
    BY <2>1, <2>2, MovesAsItIs
<1>4. CASE UpsertMetadata(q)
  <2>1. RepoVerb(form[q]) /\ RepoForm("described", form[q]) /\ Goto(q, "described")
    BY <1>4 DEF UpsertMetadata, Is, RepoForm, RepoVerb
  <2> QED
    BY <2>1, MovesAsItIs
<1> QED
  BY <1>2, <1>3, <1>4 DEF StoreRepo

LEMMA DeliveriesMove ==
    ASSUME FormsFit, NEW q \in Requests, form[q] # NoForm, DeliverySteps(q)
    PROVE  RepoMoves(q)
<1>1. StoreRepo(q) \/ RecordThing(q) \/ \E how : End(q, how)
  BY DEF DeliverySteps, HandlePullRequest, HandlePrReview, HandlePrReviewComment,
         HandleWorkflowRun, HandleDeployment, HandleRelease, FailDelivery, LeaveOrRecord, Leave,
         Record, CreditThing
<1>2. CASE RecordThing(q)
  <2>1. RepoVerb(form[q]) /\ RepoForm("recorded", form[q]) /\ Goto(q, "recorded")
    BY <1>2 DEF RecordThing, Is, RepoForm, RepoVerb
  <2> QED
    BY <2>1, MovesAsItIs
<1> QED
  BY <1>1, <1>2, StoreMoves DEF RepoMoves

LEMMA SyncsMove ==
    ASSUME FormsFit, NEW q \in Requests, form[q] # NoForm, SyncSteps(q)
    PROVE  RepoMoves(q)
<1>1. CASE \E how : End(q, how)
  BY <1>1 DEF RepoMoves
<1>2. CASE FindRepo(q) /\ Goto(q, "answered")
  <2>1. RepoVerb(form[q]) /\ RepoForm("answered", form[q])
    BY <1>2 DEF FindRepo, Is, RepoForm, RepoVerb
  <2> QED
    BY <1>2, <2>1, MovesAsItIs
<1>3. CASE LookUpSlug(q)
  <2>1. RepoVerb(form[q]) /\ RepoForm("answered", form[q]) /\ RepoForm("unknown", form[q])
    BY <1>3 DEF LookUpSlug, Is, RepoForm, RepoVerb
  <2>2. (\E i : Go(q, "answered", [form[q] EXCEPT !.row = i])) \/ Goto(q, "unknown")
    BY <1>3 DEF LookUpSlug
  <2> QED
    BY <2>1, <2>2, MovesAsItIs
<1>4. CASE ResolveAtGithub(q) /\ ~(\E how : End(q, how))
  <2>1. RepoVerb(form[q]) /\ RepoForm("resolved", form[q])
    BY <1>4 DEF ResolveAtGithub, Is, RepoForm, RepoVerb
  <2>2. \E b : Go(q, "resolved", [form[q] EXCEPT !.block = b])
    BY <1>4 DEF ResolveAtGithub
  <2> QED
    BY <2>1, <2>2, MovesAsItIs
<1>5. CASE ProbeRepo(q)
  <2>1. RepoVerb(form[q]) /\ RepoForm("owner", form[q])
    BY <1>5 DEF ProbeRepo, Is, RepoForm, RepoVerb
  <2>2. \E b : Go(q, "owner", [form[q] EXCEPT !.created = b])
    BY <1>5 DEF ProbeRepo
  <2> QED
    BY <2>1, <2>2, MovesAsItIs
<1>6. CASE AnswerByName(q) /\ Goto(q, "answered") /\ Is(q, "sync by name", "row")
  <2>1. RepoVerb(form[q]) /\ RepoForm("answered", form[q])
    BY <1>6 DEF Is, RepoForm, RepoVerb
  <2> QED
    BY <1>6, <2>1, MovesAsItIs
<1> QED
  BY <1>1, <1>2, <1>3, <1>4, <1>5, <1>6, StoreMoves
     DEF SyncSteps, StoreRepo, FindRepo, ResolveAtGithub, AnswerByName, TriggerSync

\* What is asked and done of repositories leaves the rows of the catalogue as they are.
LEMMA ReposKeep ==
    ASSUME RowInv, ReposNext, UNCHANGED <<catalog, summaryVars>>
    PROVE  RowInv'
<1>0. FormsFit
  BY DEF RowInv
<1>1. CASE MoveRepo \/ ScheduledTick \/ FinishTick
  <2>1. UNCHANGED <<pc, form>>
    BY <1>1 DEF MoveRepo, ScheduledTick, FinishTick
  <2> QED
    BY <2>1, NothingKeeps
<1>2. ASSUME NEW q \in Unfinished, RepoAsks(q) \/ DeliverySteps(q) \/ SyncSteps(q)
      PROVE  RowInv'
  <2>1. q \in Requests /\ (RepoAsks(q) \/ form[q] # NoForm)
    <3>1. ASSUME form[q] = NoForm, pc[q] = "idle" PROVE ~DeliverySteps(q) /\ ~SyncSteps(q)
      <4>1. form[q].verb = "none"
        BY <3>1 DEF NoForm
      <4>2. ~DeliverySteps(q)
        BY <4>1 DEF DeliverySteps, HandlePullRequest, HandlePrReview, HandlePrReviewComment,
             HandleWorkflowRun, HandleDeployment, HandleRelease, FailDelivery, IsFor
      <4>3. ~SyncSteps(q)
        BY <3>1, <4>1 DEF SyncSteps, FindRepo, LookUpSlug, ResolveAtGithub, ProbeRepo,
             UpsertOrg, UpsertRepo, AnswerByName, TriggerSync, Is
      <4> QED
        BY <4>2, <4>3
    <3> QED
      BY <1>2, <3>1 DEF Unfinished
  <2>2. RepoMoves(q)
    BY <1>0, <1>2, <2>1, ReposAreAsked, DeliveriesMove, SyncsMove
  <2> QED
    BY <2>1, <2>2, ReposAreReady, AskKeeps
<1> QED
  BY <1>1, <1>2 DEF ReposNext

-----------------------------------------------------------------------------
(* The rows have their types *)

LEMMA InitFits == Init => RowInv
<1> SUFFICES ASSUME Init PROVE RowInv
  OBVIOUS
<1>1. SummaryTypeOK
  BY DEF Init, TypeOK
<1>2. /\ pc \in [Requests -> {"idle", "done"}] /\ form = [q \in Requests |-> NoForm]
      /\ \A q \in Requests : form[q] = NoForm
  BY DEF Init
<1>3. ASSUME NEW p PROVE Fits(p, NoForm) /\ Opened(NoForm) /\ Prepared(p, NoForm)
  BY DEF Fits, CatalogForm, SummaryForm, RepoForm, NoForm, Opened, Prepared
<1>4. pc = [q \in Requests |-> pc[q]] /\ form = [q \in Requests |-> form[q]]
  BY <1>2
<1>5. ASSUME NEW q \in Requests
      PROVE  Fits(pc[q], form[q]) /\ Opened(form[q]) /\ Prepared(pc[q], form[q])
  BY <1>2, <1>3
<1> QED
  BY <1>1, <1>4, <1>5 DEF RowInv, FormsFit, FormsAreOpened, StepsArePrepared

LEMMA NextFits == RowInv /\ [Next]_vars => RowInv'
<1> SUFFICES ASSUME RowInv, [Next]_vars PROVE RowInv'
  OBVIOUS
<1>1. CASE UNCHANGED vars
  BY <1>1, NothingKeeps DEF vars
<1>2. CASE ReposNext /\ UNCHANGED <<catalog, summaryVars>>
  BY <1>2, ReposKeep
<1>3. CASE SummaryNext
  <2>1. PICK q \in Unfinished :
           \/ (CatalogSteps(q) \/ CatalogAsks(q) \/ AttachmentSteps(q)) /\ UNCHANGED summaryVars
           \/ SummarySteps(q) /\ UNCHANGED catalog
           \/ SummaryAsks(q) /\ UNCHANGED <<catalog, summaryVars>>
    BY <1>3 DEF SummaryNext
  <2>2. q \in Requests
    BY DEF Unfinished
  <2>3. CASE CatalogSteps(q) /\ UNCHANGED summaryVars
    <3>1. \/ RowSteps(q) \/ LinkProject(q) \/ UnlinkProject(q)
          \/ CreateRevision(q) \/ TouchManual(q) \/ PublishSteps(q) \/ PaperSteps(q)
      BY <2>3 DEF CatalogSteps, RowSteps, PublishSteps, PaperSteps
    <3> QED
      BY <2>2, <2>3, <3>1, RowsKeep, LinksKeep, ManualsKeep, PapersKeep
  <2>4. CASE AttachmentSteps(q) /\ UNCHANGED summaryVars
    BY <2>2, <2>4, PapersKeep DEF PaperSteps
  <2>5. CASE SummarySteps(q) /\ UNCHANGED catalog
    BY <2>2, <2>5, SummariesKeep
  <2>6. CASE (CatalogAsks(q) \/ SummaryAsks(q)) /\ UNCHANGED <<catalog, summaryVars>>
    BY <2>2, <2>6, AsksKeep
  <2> QED
    BY <2>1, <2>3, <2>4, <2>5, <2>6 DEF CatalogAsks
<1> QED
  BY <1>1, <1>2, <1>3 DEF Next

\* The rows of the catalogue and of the summary are as they should be, and a release
\* or a return points at a row that is a product, however many requests overlap.
THEOREM RowsAreTyped == Spec => []SummaryTypeOK
<1>1. Spec => []RowInv
  BY InitFits, NextFits, PTL DEF Spec
<1>2. RowInv => SummaryTypeOK
  BY DEF RowInv
<1> QED
  BY <1>1, <1>2, PTL

\* An accepted request ends at the row its form was opened on.
LEMMA AcceptedIsSeen ==
    ASSUME RowInv, NEW q \in Requests, Replaces(q), pc'[q] = "done", pc[q] # "done"
    PROVE  record[form[q].id] = form[q].seen
<1>1. form[q].verb \in {"edit", "archive"} /\ Opened(form[q])
  BY DEF Replaces, RowInv, FormsAreOpened
<1>2. ~Goto(q, "read") /\ ~(\E how : how # "done" /\ End(q, how))
  BY DEF Goto, End, Go, RowInv, FormsFit
<1>3. form[q].seen.version = record[form[q].id].version
  BY <1>2 DEF Replaces
<1> QED
  BY <1>1, <1>3 DEF Opened

Acts(q) == \E p, f : Go(q, p, f)

\* Everything a request does.
Steps(q) ==
    \/ CatalogSteps(q) \/ CatalogAsks(q) \/ AttachmentSteps(q)
    \/ /\ SummarySteps(q) \/ SummaryAsks(q) \/ RepoAsks(q) \/ DeliverySteps(q) \/ SyncSteps(q)
       /\ UNCHANGED catalog

RepoSteps(q) == RepoAsks(q) \/ DeliverySteps(q) \/ SyncSteps(q)

\* It does not publish a row and leave the transaction open, and the requests about
\* repositories are those that take the steps for them.
Elsewhere(q) ==
    \E p, f : /\ Go(q, p, f) /\ (p # "published" \/ f = NoForm)
              /\ RepoVerb(f) => RepoSteps(q)

\* A step is one of a request that asks for it.
LEMMA StepsAreOf ==
    ASSUME NEW q \in Requests, Steps(q), ~RepoSteps(q), ~CatalogAsks(q), ~SummaryAsks(q)
    PROVE  ~RepoVerb(form[q])
<1>1. CASE RowSteps(q)
  <2>1. form[q].verb \in {"create", "edit", "archive"}
    BY <1>1 DEF RowSteps, CreateManufacturer, CreateSupplier, CreateCustomer, CreateProduct,
       CreateRelease, CreateRma, Creation, Creates, PatchManufacturer, PatchSupplier,
       PatchCustomer, PatchProduct, PatchRelease, PatchRma, Edition, Edits, ArchiveManufacturer,
       ArchiveSupplier, ArchiveCustomer, ArchiveProduct, ArchiveRelease, Archival, Drops, Is
  <2> QED
    BY <2>1 DEF RepoVerb
<1>2. CASE \/ LinkProject(q) \/ UnlinkProject(q) \/ CreateRevision(q) \/ TouchManual(q)
           \/ PublishSteps(q)
  BY <1>2 DEF LinkProject, UnlinkProject, CreateRevision, TouchManual, PublishSteps,
     Supersede, LookAgain, PublishTarget, CommitPublish, Is, RepoVerb
<1>3. CASE PaperSteps(q)
  BY <1>3, PapersAre DEF RepoVerb
<1>4. CASE SummarySteps(q)
  BY <1>4 DEF SummarySteps, PatchSummary, EnsureRow, ReadCompletion, SubmitSummary,
     ApproveSummary, Transition, RevertSummary, AppendEntry, ReadSnapshot, InsertEntry,
     DeleteEntry, RestoreEntry, ReadEntry, ApplySnapshot, Is, RepoVerb
<1> QED
  BY <1>1, <1>2, <1>3, <1>4
     DEF Steps, RepoSteps, CatalogSteps, RowSteps, PublishSteps, PaperSteps

LEMMA AsksAct ==
    ASSUME NEW q \in Requests, CatalogAsks(q) \/ SummaryAsks(q) \/ RepoAsks(q)
    PROVE  Elsewhere(q) /\ \E f : Go(q, "admitted", f)
<1>1. ASSUME NEW f, Ask(q, f), RepoVerb(f) => RepoSteps(q)
      PROVE  Elsewhere(q) /\ \E g : Go(q, "admitted", g)
  BY <1>1 DEF Ask, Elsewhere
<1>2. CASE \/ \E k \in Parties : AskParty(q, k)
           \/ AskProduct(q) \/ AskRelease(q) \/ AskRma(q)
  <2>1. ASSUME NEW kind, NEW key, NEW product, NEW unit, AskNew(q, kind, key, product, unit)
        PROVE  Elsewhere(q) /\ \E g : Go(q, "admitted", g)
    BY <1>1, <2>1 DEF AskNew, RepoVerb
  <2>2. ASSUME NEW i, NEW key, NEW status, NEW unit, AskEdit(q, i, key, status, unit)
        PROVE  Elsewhere(q) /\ \E g : Go(q, "admitted", g)
    BY <1>1, <2>2 DEF AskEdit, RepoVerb
  <2>3. ASSUME NEW i, AskArchive(q, i)
        PROVE  Elsewhere(q) /\ \E g : Go(q, "admitted", g)
    BY <1>1, <2>3 DEF AskArchive, RepoVerb
  <2> QED
    BY <1>2, <2>1, <2>2, <2>3 DEF AskParty, AskProduct, AskRelease, AskRma
<1>3. CASE AskLink(q) \/ AskRevise(q) \/ AskPublish(q)
  BY <1>1, <1>3 DEF AskLink, AskRevise, AskPublish, RepoVerb
<1>4. CASE AskPaper(q, "document") \/ AskAttachment(q)
  BY <1>1, <1>4 DEF AskPaper, AskAttachment, RepoVerb
<1>5. CASE SummaryAsks(q) /\ ~AskAttachment(q)
  BY <1>1, <1>5 DEF SummaryAsks, AskPatch, AskSubmit, AskApproval, AskEntry, AskRestore, RepoVerb
<1>6. CASE RepoAsks(q)
  BY <1>1, <1>6 DEF RepoAsks, AskWebhook, AskSynthesized, AskSync, AskByName, RepoSteps
<1> QED
  BY <1>2, <1>3, <1>4, <1>5, <1>6 DEF CatalogAsks

LEMMA StepsAct ==
    ASSUME FormsFit, NEW q \in Requests, Steps(q)
    PROVE  Elsewhere(q) \/ PublishTarget(q)
<1>0. "verb" \in DOMAIN form[q]
  BY DEF FormsFit, Fits
<1>1. CASE CatalogAsks(q) \/ SummaryAsks(q) \/ RepoAsks(q)
  BY <1>1, AsksAct
<1>2. CASE ~CatalogAsks(q) /\ ~SummaryAsks(q) /\ ~RepoAsks(q)
  <2>1. RepoVerb(form[q]) => RepoSteps(q)
    BY <1>2, StepsAreOf
  <2>2. NoForm.verb = "none"
    BY DEF NoForm
  <2>3. ASSUME \/ \E p : p # "published" /\ Goto(q, p)
               \/ \E how : End(q, how)
        PROVE  Elsewhere(q)
    BY <2>1, <2>2, <2>3 DEF Goto, End, Elsewhere, RepoVerb
  <2>4. ASSUME NEW p, p # "published", NEW f, Go(q, p, f), f.verb = form[q].verb
        PROVE  Elsewhere(q)
    BY <2>1, <2>4 DEF Elsewhere, RepoVerb
  <2>5. CASE RowSteps(q)
    <3>1. ASSUME NEW new, Update(q, new) \/ Hide(q, new) \/ ReadArchived(q) PROVE Elsewhere(q)
      BY <2>3, <3>1 DEF Update, Hide, ReadArchived, Refuse
    <3>2. ASSUME Insert(q) \/ \E how : Refuse(q, how) PROVE Elsewhere(q)
      BY <2>3, <3>2 DEF Insert, Refuse
    <3> QED
      BY <2>5, <3>1, <3>2 DEF RowSteps, CreateManufacturer, CreateSupplier, CreateCustomer,
         CreateProduct, CreateRelease, CreateRma, Creation, InsertReturn, PatchManufacturer,
         PatchSupplier, PatchCustomer, PatchProduct, PatchRelease, PatchRma, UpdateReturn,
         Edition, ArchiveManufacturer, ArchiveSupplier, ArchiveCustomer, ArchiveProduct,
         ArchiveRelease, Archival
  <2>6. CASE \/ LinkProject(q) \/ UnlinkProject(q) \/ CreateRevision(q) \/ TouchManual(q)
             \/ PublishSteps(q)
    <3>1. ASSUME NEW r, NEW p \in {"waiting", "cleared"}, Go(q, p, [form[q] EXCEPT !.old = r])
          PROVE  Elsewhere(q)
      <4>1. [form[q] EXCEPT !.old = r].verb = form[q].verb
        BY <1>0
      <4> QED
        BY <2>4, <3>1, <4>1
    <3>2. CASE Supersede(q)
      BY <2>3, <3>1, <3>2 DEF Supersede
    <3>3. CASE LookAgain(q)
      BY <3>1, <3>3 DEF LookAgain
    <3> QED
      BY <2>3, <2>6, <3>2, <3>3 DEF LinkProject, UnlinkProject, CreateRevision, TouchManual,
         PublishSteps, CommitPublish
  <2>7. CASE PaperSteps(q)
    <3>1. ASSUME NEW i, Go(q, "stored", [form[q] EXCEPT !.id = i]) PROVE Elsewhere(q)
      <4>1. [form[q] EXCEPT !.id = i].verb = form[q].verb
        BY <1>0
      <4> QED
        BY <2>4, <3>1, <4>1
    <3>2. CASE \E how : End(q, how)
      BY <2>3, <3>2
    <3> QED
      BY <2>7, <3>1, <3>2, PapersAre DEF PutBlob, InsertPaper, DeletePaper
  <2>8. CASE SummarySteps(q)
    <3>1. CASE ReadCompletion(q)
      <4>1. CASE \E how : End(q, how)
        BY <2>3, <4>1
      <4>2. CASE Go(q, "complete", [form[q] EXCEPT !.read = Complete(summary)])
        <5>1. [form[q] EXCEPT !.read = Complete(summary)].verb = form[q].verb
          BY <1>0
        <5> QED
          BY <2>4, <4>2, <5>1
      <4> QED
        BY <3>1, <4>1, <4>2 DEF ReadCompletion
    <3>2. CASE \E verb, at : ReadSnapshot(q, verb, at)
      <4>1. [form[q] EXCEPT !.snapshot = summary].verb = form[q].verb
        BY <1>0
      <4> QED
        BY <2>4, <3>2, <4>1 DEF ReadSnapshot
    <3>3. CASE ReadEntry(q)
      <4> DEFINE e == form[q].entry
      <4>1. CASE \E how : End(q, how)
        BY <2>3, <4>1
      <4>2. CASE Go(q, "found", [form[q] EXCEPT !.patch = AsPatch(log[e]), !.snapshot = log[e]])
        <5>1. [form[q] EXCEPT !.patch = AsPatch(log[e]), !.snapshot = log[e]].verb = form[q].verb
          BY <1>0
        <5> QED
          BY <2>4, <4>2, <5>1
      <4> QED
        BY <3>3, <4>1, <4>2 DEF ReadEntry
    <3> QED
      BY <2>3, <2>8, <3>1, <3>2, <3>3 DEF SummarySteps, PatchSummary, EnsureRow, SubmitSummary,
         ApproveSummary, Transition, RevertSummary, Reverted, AppendEntry, InsertEntry,
         DeleteEntry, RestoreEntry, ApplySnapshot
  <2>9. CASE DeliverySteps(q) \/ SyncSteps(q)
    <3>1. RepoSteps(q)
      BY <2>9 DEF RepoSteps
    <3>2. ASSUME NEW p, p # "published", NEW f, Go(q, p, f) PROVE Elsewhere(q)
      BY <3>1, <3>2 DEF Elsewhere
    <3>3. ASSUME UpsertRepo(q) PROVE Elsewhere(q)
      <4>1. \E f : Go(q, "row", f)
        BY <3>3 DEF UpsertRepo
      <4> QED
        BY <3>2, <4>1
    <3>4. ASSUME StoreRepo(q) PROVE Elsewhere(q)
      <4>1. CASE UpsertOrg(q)
        BY <2>3, <4>1 DEF UpsertOrg
      <4>2. CASE UpsertMetadata(q)
        BY <2>3, <4>2 DEF UpsertMetadata
      <4> QED
        BY <3>3, <3>4, <4>1, <4>2 DEF StoreRepo
    <3>5. CASE DeliverySteps(q)
      BY <2>3, <3>4, <3>5 DEF DeliverySteps, HandlePullRequest, HandlePrReview,
         HandlePrReviewComment, HandleWorkflowRun, HandleDeployment, HandleRelease,
         FailDelivery, LeaveOrRecord, Leave, Record, RecordThing, CreditThing
    <3>6. CASE LookUpSlug(q)
      <4>1. (\E f : Go(q, "answered", f)) \/ Goto(q, "unknown")
        BY <3>6 DEF LookUpSlug
      <4> QED
        BY <2>3, <3>2, <4>1
    <3>7. CASE ResolveAtGithub(q)
      <4>1. (\E f : Go(q, "resolved", f)) \/ \E how : End(q, how)
        BY <3>7 DEF ResolveAtGithub
      <4> QED
        BY <2>3, <3>2, <4>1
    <3>8. CASE ProbeRepo(q)
      <4>1. \E f : Go(q, "owner", f)
        BY <3>8 DEF ProbeRepo
      <4> QED
        BY <3>2, <4>1
    <3> QED
      BY <2>3, <2>9, <3>4, <3>5, <3>6, <3>7, <3>8
         DEF SyncSteps, StoreRepo, FindRepo, AnswerByName, TriggerSync
  <2> QED
    BY <1>2, <2>5, <2>6, <2>7, <2>8, <2>9
       DEF Steps, CatalogSteps, RowSteps, PublishSteps, PaperSteps
<1> QED
  BY <1>1, <1>2

LEMMA OthersStay ==
    ASSUME FormsFit, NEW q \in Requests, Acts(q), NEW r \in Requests, r # q
    PROVE  pc'[r] = pc[r] /\ form'[r] = form[r]
BY DEF FormsFit, Acts, Go

\* What a step of the system is.
LEMMA NextActs ==
    ASSUME FormsFit, [Next]_vars
    PROVE  \/ UNCHANGED <<pc, form, catalog, summaryVars>>
           \/ \E q \in Requests : Steps(q) /\ Acts(q) /\ (pc[q] = "idle" \/ form[q] # NoForm)
<1>1. CASE UNCHANGED vars
  BY <1>1 DEF vars
<1>2. CASE (MoveRepo \/ ScheduledTick \/ FinishTick) /\ UNCHANGED <<catalog, summaryVars>>
  BY <1>2 DEF MoveRepo, ScheduledTick, FinishTick
<1>3. ASSUME NEW q \in Unfinished, Steps(q)
      PROVE  \E r \in Requests : Steps(r) /\ Acts(r) /\ (pc[r] = "idle" \/ form[r] # NoForm)
  BY <1>3, StepsAct DEF Unfinished, Elsewhere, Acts, PublishTarget, Goto, End
<1> QED
  BY <1>1, <1>2, <1>3 DEF Next, SummaryNext, ReposNext, Steps

\* Only its own steps are taken by a request that edits or archives.
LEMMA EditsOnlyReplace ==
    ASSUME RowInv, NEW q \in Requests, Steps(q), form[q].verb \in {"edit", "archive"}
    PROVE  Replaces(q) \/ pc'[q] = "admitted"
<1>0. FormsFit /\ Fits(pc[q], form[q])
  BY DEF RowInv, FormsFit
<1>1. CASE CatalogAsks(q) \/ SummaryAsks(q) \/ RepoAsks(q)
  BY <1>0, <1>1, AsksAct DEF Go, FormsFit
<1>3. CASE RowSteps(q)
  BY <1>0, <1>3, CreationsInsert, EditsReplace, ArchivalsReplace DEF RowSteps, Inserts
<1>4. CASE \/ LinkProject(q) \/ UnlinkProject(q) \/ CreateRevision(q) \/ TouchManual(q)
           \/ PublishSteps(q)
  BY <1>4 DEF LinkProject, UnlinkProject, CreateRevision, TouchManual, PublishSteps,
     Supersede, LookAgain, PublishTarget, CommitPublish, Is
<1>5. CASE PaperSteps(q)
  BY <1>5, PapersAre
<1>6. CASE SummarySteps(q)
  BY <1>6 DEF SummarySteps, PatchSummary, EnsureRow, ReadCompletion, SubmitSummary,
     ApproveSummary, Transition, RevertSummary, AppendEntry, ReadSnapshot, InsertEntry,
     DeleteEntry, RestoreEntry, ReadEntry, ApplySnapshot, Is
<1>7. CASE DeliverySteps(q)
  BY <1>7 DEF DeliverySteps, HandlePullRequest, HandlePrReview, HandlePrReviewComment,
     HandleWorkflowRun, HandleDeployment, HandleRelease, FailDelivery, IsFor
<1>8. CASE SyncSteps(q)
  <2>1. pc[q] \notin {"owner", "answered"}
    <3>1. NoForm.verb = "none" /\ form[q].verb # "none"
      BY DEF NoForm
    <3>2. form[q] # NoForm
      BY <3>1
    <3>3. ~RepoVerb(form[q]) /\ RepoForm(pc[q], form[q])
      BY <1>0 DEF Fits, RepoVerb
    <3> QED
      BY <3>2, <3>3 DEF RepoForm
  <2> QED
    BY <1>8, <2>1 DEF SyncSteps, FindRepo, LookUpSlug, ResolveAtGithub, ProbeRepo, UpsertOrg,
       UpsertRepo, AnswerByName, TriggerSync, Is
<1> QED
  BY <1>1, <1>3, <1>4, <1>5, <1>6, <1>7, <1>8
     DEF Steps, CatalogSteps, RowSteps, PublishSteps, PaperSteps

\* No accepted edit or archival of a row of the catalogue loses a change its form did
\* not show, however many forms are open on the row.
THEOREM EditsSeeTheirRow == Spec => AcceptedSawTheRow
<1>1. Spec => []RowInv
  BY InitFits, NextFits, PTL DEF Spec
<1> DEFINE Sees == \A q \in Requests :
               form[q].verb \in {"edit", "archive"} /\ pc'[q] = "done" /\ pc[q] # "done"
                  => record[form[q].id] = form[q].seen
<1>2. ASSUME RowInv, [Next]_vars PROVE [Sees]_<<catalog, pc, form>>
  <2> SUFFICES ASSUME NEW q \in Requests, form[q].verb \in {"edit", "archive"},
                      pc'[q] = "done", pc[q] # "done"
               PROVE  record[form[q].id] = form[q].seen
    OBVIOUS
  <2>1. PICK r \in Requests : Steps(r) /\ Acts(r)
    BY <1>2, NextActs DEF RowInv
  <2>2. r = q
    BY <1>2, <2>1, OthersStay DEF RowInv
  <2>3. Replaces(q)
    BY <1>2, <2>1, <2>2, EditsOnlyReplace
  <2> QED
    BY <1>2, <2>3, AcceptedIsSeen
<1>3. (RowInv /\ [Next]_vars) => [Sees]_<<catalog, pc, form>>
  BY <1>2
<1> QED
  BY <1>1, <1>3, PTL DEF Spec, AcceptedSawTheRow

-----------------------------------------------------------------------------
(* Publishing *)

\* Only a commit changes the status of a revision.
LEMMA RevisionsStay ==
    ASSUME NEW q \in Requests, Steps(q)
    PROVE  UNCHANGED revision \/ CreateRevision(q) \/ CommitPublish(q)
<1>1. CASE RowSteps(q)
  BY <1>1 DEF RowSteps, Rest, CreateManufacturer, CreateSupplier, CreateCustomer,
     CreateProduct, CreateRelease, CreateRma, Creation, Creates, PatchManufacturer,
     PatchSupplier, PatchCustomer, PatchProduct, PatchRelease, PatchRma, Edition, Edits,
     ArchiveManufacturer, ArchiveSupplier, ArchiveCustomer, ArchiveProduct, ArchiveRelease,
     Archival, Drops
<1>2. CASE \/ LinkProject(q) \/ UnlinkProject(q) \/ CreateRevision(q) \/ TouchManual(q)
           \/ PublishSteps(q)
  BY <1>2 DEF LinkProject, UnlinkProject, TouchManual, PublishSteps, Supersede, LookAgain,
              PublishTarget, catalog
<1>3. CASE PaperSteps(q)
  BY <1>3, PapersAre
<1>4. CASE CatalogAsks(q) \/ UNCHANGED catalog
  BY <1>4 DEF CatalogAsks, catalog
<1> QED
  BY <1>1, <1>2, <1>3, <1>4
     DEF Steps, CatalogSteps, RowSteps, PublishSteps, PaperSteps

LEMMA PublishingIs ==
    ASSUME RowInv, NEW q \in Requests, Steps(q)
    PROVE  /\ \A r \in Requests \ {q} :
                 /\ pc'[r] = pc[r] /\ form'[r] = form[r]
                 /\ Publishing(r)' <=> Publishing(r)
           /\ Publishing(q)' => PublishTarget(q)
<1>1. FormsFit /\ (Elsewhere(q) \/ PublishTarget(q))
  BY StepsAct DEF RowInv
<1>2. Acts(q)
  BY <1>1 DEF Elsewhere, PublishTarget, Goto, End, Acts
<1>3. ASSUME NEW r \in Requests \ {q}
      PROVE  /\ pc'[r] = pc[r] /\ form'[r] = form[r]
             /\ Publishing(r)' <=> Publishing(r)
  BY <1>1, <1>2, OthersStay DEF Publishing, Is
<1>4. ASSUME Elsewhere(q) PROVE ~Publishing(q)'
  <2>1. PICK p, f : Go(q, p, f) /\ (p # "published" \/ f = NoForm)
    BY <1>4 DEF Elsewhere
  <2>2. pc'[q] = p /\ form'[q] = f
    BY <1>1, <2>1 DEF Go, FormsFit
  <2>3. NoForm.verb = "none"
    BY DEF NoForm
  <2> QED
    BY <2>1, <2>2, <2>3 DEF Publishing, Is
<1> QED
  BY <1>1, <1>3, <1>4

\* The row that is published is the one the transaction was for, and it is alone.
LEMMA CommitPublishes ==
    ASSUME FormsFit, PublishInv, NEW q \in Requests, CommitPublish(q), revision' # revision
    PROVE  Published' = {form[q].target}
<1>1. /\ form[q].target \in DOMAIN revision
      /\ Published \subseteq {form[q].target, form[q].old}
  BY DEF CommitPublish, PublishInv, Publishing
<1>2. revision' = [r \in DOMAIN revision |->
                     CASE r = form[q].target -> "published"
                       [] r = form[q].old    -> "superseded"
                       [] OTHER              -> revision[r]]
  BY DEF CommitPublish
<1>3. ASSUME NEW r \in DOMAIN revision, r # form[q].target PROVE revision'[r] # "published"
  BY <1>1, <1>2, <1>3 DEF Published
<1>4. DOMAIN revision' = DOMAIN revision /\ revision'[form[q].target] = "published"
  <2>1. PICK t : t = form[q].target
    OBVIOUS
  <2>2. t \in DOMAIN revision /\ DOMAIN revision' = DOMAIN revision
    BY <1>1, <1>2, <2>1
  <2>3. revision'[t] = CASE t = form[q].target -> "published"
                         [] t = form[q].old    -> "superseded"
                         [] OTHER              -> revision[t]
    BY <1>2, <2>2
  <2>4. t # form[q].old
    BY <2>1 DEF FormsFit, Fits, CatalogForm, CommitPublish, Is
  <2> QED
    BY <2>1, <2>2, <2>3, <2>4
<1>5. Published' = {r \in DOMAIN revision : revision'[r] = "published"}
  BY <1>4 DEF Published
<1> QED
  BY <1>1, <1>3, <1>4, <1>5

LEMMA DraftsAreNot ==
    ASSUME NEW q \in Requests, CreateRevision(q)
    PROVE  Published' = Published /\ DOMAIN revision \subseteq DOMAIN revision'
BY DEF CreateRevision, With, Published

LEMMA NextPublishes == RowInv /\ PublishInv /\ [Next]_vars => PublishInv'
<1> SUFFICES ASSUME RowInv, PublishInv, [Next]_vars PROVE PublishInv'
  OBVIOUS
<1>1. CASE UNCHANGED <<pc, form, catalog, summaryVars>>
  BY <1>1 DEF PublishInv, Publishing, Is, Published, catalog
<1>2. ASSUME NEW q \in Requests, Steps(q) PROVE PublishInv'
  <2>1. /\ \A r \in Requests \ {q} :
              /\ pc'[r] = pc[r] /\ form'[r] = form[r]
              /\ Publishing(r)' <=> Publishing(r)
        /\ Publishing(q)' => PublishTarget(q)
    BY <1>2, PublishingIs
  <2>2. CASE PublishTarget(q) /\ Publishing(q)'
    <3>1. UNCHANGED revision /\ ~RivalOpen(q) /\ ~Locked(q, form[q].target)
      BY <2>2 DEF PublishTarget, catalog
    <3>2. /\ form'[q] = form[q] /\ form[q].target \in DOMAIN revision
          /\ Published \subseteq {form[q].target, form[q].old}
      <4>1. NoForm.verb = "none"
        BY DEF NoForm
      <4>2. ~(\E how : End(q, how))
        BY <2>2, <4>1 DEF Publishing, Is, End, Go, RowInv, FormsFit
      <4>3. /\ form[q].target \in DOMAIN revision /\ Goto(q, "published")
            /\ Published \ {form[q].target, form[q].old} = {}
        BY <2>2, <4>2 DEF PublishTarget
      <4> QED
        BY <4>3 DEF Goto, Go, RowInv, FormsFit
    <3>3. ASSUME NEW r \in Requests \ {q} PROVE ~Publishing(r)
      BY <3>1, <3>3 DEF RivalOpen, Locked, HasLocked, Publishing, Is
    <3>4. Published' = Published
      BY <3>1 DEF Published
    <3> QED
      BY <2>1, <3>1, <3>2, <3>3, <3>4 DEF PublishInv
  <2>3. CASE ~Publishing(q)'
    <3>1. CASE UNCHANGED revision \/ CreateRevision(q)
      <4>1. Published' = Published /\ DOMAIN revision \subseteq DOMAIN revision'
        BY <3>1, DraftsAreNot DEF Published
      <4> QED
        BY <2>1, <2>3, <4>1 DEF PublishInv
    <3>2. CASE CommitPublish(q)
      <4>1. Publishing(q)
        BY <3>2 DEF CommitPublish, Publishing
      <4>2. \A r \in Requests : ~Publishing(r)'
        BY <2>1, <2>3, <4>1 DEF PublishInv
      <4> QED
        BY <4>2 DEF PublishInv
    <3> QED
      BY <1>2, <3>1, <3>2, RevisionsStay
  <2> QED
    BY <2>1, <2>2, <2>3
<1> QED
  BY <1>1, <1>2, NextActs DEF RowInv

\* A manual that has one published revision never has none or two, however
\* publishings overlap or fail.
THEOREM OneIsPublished == Spec => PublishedUntilReplaced
<1>1. Init => PublishInv
  <2>1. NoForm.verb = "none"
    BY DEF NoForm
  <2> QED
    BY <2>1 DEF Init, PublishInv, Publishing, Is
<1>2. Spec => [](RowInv /\ PublishInv)
  BY <1>1, InitFits, NextFits, NextPublishes, PTL DEF Spec
<1> DEFINE Keeps == Cardinality(Published) = 1 => Cardinality(Published') = 1
<1>3. ASSUME RowInv, PublishInv, [Next]_vars PROVE [Keeps]_<<catalog, pc, form>>
  <2>1. CASE UNCHANGED revision
    BY <2>1 DEF Published
  <2>2. CASE revision' # revision
    <3>1. PICK q \in Requests : Steps(q)
      BY <1>3, <2>2, NextActs DEF catalog, RowInv
    <3>2. CreateRevision(q) \/ CommitPublish(q)
      BY <2>2, <3>1, RevisionsStay
    <3>3. Published' = Published \/ Published' = {form[q].target}
      BY <1>3, <2>2, <3>1, <3>2, DraftsAreNot, CommitPublishes DEF RowInv
    <3>4. Cardinality({form[q].target}) = 1
      BY FS_Singleton
    <3> QED
      BY <3>3, <3>4
  <2> QED
    BY <2>1, <2>2
<1>4. (RowInv /\ PublishInv) /\ [Next]_vars => [Keeps]_<<catalog, pc, form>>
  BY <1>3
<1> QED
  BY <1>2, <1>4, PTL DEF Spec, PublishedUntilReplaced

-----------------------------------------------------------------------------
(* The gate of a review *)

\* Seven sections of eight are 88 per cent and six are 75, rounded.
LEMMA SevenPass ==
    ASSUME NEW n \in Nat, Percent(n) >= Threshold, Threshold \in 76..100
    PROVE  n >= 7
<1>1. CASE n <= 6
  <2>1. n * 100 + 4 <= 604 /\ n * 100 + 4 >= 0
    BY <1>1
  <2>2. (n * 100 + 4) \div 8 <= 75
    BY <2>1
  <2> QED
    BY <2>2 DEF Percent
<1> QED
  BY <1>1

\* No summary goes to review unforced with less than seven sections complete, unless
\* one was emptied after the gate had looked.
THEOREM TheGateHolds ==
    ASSUME Threshold \in 76..100
    PROVE  Spec => GateHolds
<1>1. Spec => []RowInv
  BY InitFits, NextFits, PTL DEF Spec
<1> DEFINE Holds == \A q \in Requests :
               Is(q, "submit", "complete") /\ pc'[q] = "done" /\ ~form[q].force
                  => \/ Cardinality(Complete(summary)) >= 7
                     \/ \E n \in form[q].read : n \notin Complete(summary)
<1>2. ASSUME RowInv PROVE Holds
  <2> SUFFICES ASSUME NEW q \in Requests, Is(q, "submit", "complete"), ~form[q].force,
                      form[q].read \subseteq Complete(summary)
               PROVE  Cardinality(Complete(summary)) >= 7
    OBVIOUS
  <2>1. form[q].read \in SUBSET Sections /\ Percent(Cardinality(form[q].read)) >= Threshold
    BY <1>2 DEF RowInv, FormsFit, Fits, SummaryForm, SubmitForms, Is
  <2>2. IsFiniteSet(Complete(summary)) /\ Cardinality(Complete(summary)) \in Nat
    BY CompleteAreSections
  <2>3. /\ Cardinality(form[q].read) \in Nat
        /\ Cardinality(form[q].read) <= Cardinality(Complete(summary))
    BY <2>2, FS_Subset, FS_CardinalityType
  <2>4. Cardinality(form[q].read) >= 7
    BY <2>1, <2>3, SevenPass
  <2> QED
    BY <2>2, <2>3, <2>4
<1>3. RowInv /\ [Next]_vars => [Holds]_summaryAll
  BY <1>2
<1> QED
  BY <1>1, <1>3, PTL DEF Spec, GateHolds

-----------------------------------------------------------------------------
(* Repositories: what is kept of each *)

\* Names that repositories have had.
HubOK ==
    /\ was \subseteq Hubs \X Owners \X Names
    /\ \A h \in DOMAIN hub : <<h, hub[h].owner, hub[h].name>> \in was

RepoTypes == [org : Owners, hub : Hubs, name : Names]

RepoOK ==
    /\ \A i \in DOMAIN repo :
          /\ repo[i] \in RepoTypes /\ repo[i].org \in org
          /\ <<repo[i].hub, repo[i].org, repo[i].name>> \in was
    /\ \A i, j \in DOMAIN repo :
          repo[i].org = repo[j].org /\ repo[i].hub = repo[j].hub => i = j

EventTypes == [repo : DOMAIN repo, thing : Things, full : BOOLEAN]

EventOK ==
    /\ \A k \in DOMAIN happened :
          /\ happened[k] \in EventTypes /\ k = KeyOf(happened[k].thing)
          /\ repo[happened[k].repo].hub = About[happened[k].thing].hub
    /\ \A c \in credited : c[1] \in DOMAIN happened

TickOK ==
    /\ DOMAIN snapshot \subseteq DOMAIN repo /\ synced \subseteq DOMAIN repo
    /\ tick \in {None, "all"} \cup DOMAIN repo

\* A block tells of a repository under a name it has had, and what a request has
\* stored or found by the time it is at p is there.
IsBlock(b) == <<b.hub, b.owner, b.name>> \in was

Resolved == {"resolved", "probing", "owner", "row"}
Stored   == {"row", "described", "recorded"}

Tells(p, f) ==
    /\ f.verb = "deliver" => {"row", "block", "thing", "full"} \subseteq DOMAIN f
    /\ f.verb \in {"sync by name", "import"} =>
          {"row", "block", "owner", "name"} \subseteq DOMAIN f
    /\ f.verb = "deliver" =>
          f.thing \in Things /\ IsBlock(f.block) /\ f.block.hub = About[f.thing].hub
          /\ f.full \in BOOLEAN
    /\ f.verb \in {"sync by name", "import"} /\ p \in Resolved => IsBlock(f.block)
    /\ f.verb = "sync by name" /\ p \in Resolved =>
          <<f.block.hub, f.owner, f.name>> \in was
    /\ RepoVerb(f) /\ p \in {"probing", "owner"} => f.block.owner \in org
    /\ RepoVerb(f) /\ p \in Stored =>
          f.row \in DOMAIN repo /\ repo[f.row].hub = f.block.hub
    /\ RepoVerb(f) /\ p = "answered" => f.row \in DOMAIN repo
    /\ f.verb = "deliver" /\ p = "recorded" => KeyOf(f.thing) \in DOMAIN happened
    /\ f.verb = "sync by name" /\ f.row # None =>
          f.row \in DOMAIN repo /\ <<repo[f.row].hub, f.owner, f.name>> \in was

FormsTell == \A q \in Requests : Tells(pc[q], form[q])

TrackInv == HubOK /\ RepoOK /\ EventOK /\ TickOK /\ FormsTell

\* Rows stay, of the same repository and owner; so does whatever else is recorded.
Grows ==
    /\ \A i \in DOMAIN repo :
          i \in DOMAIN repo' /\ repo'[i].hub = repo[i].hub /\ repo'[i].org = repo[i].org
    /\ org \subseteq org' /\ was \subseteq was'
    /\ DOMAIN happened \subseteq DOMAIN happened'

LEMMA TellsKept ==
    ASSUME Grows, NEW p, NEW f, Tells(p, f)
    PROVE  Tells(p, f)'
<1>1. /\ f.verb = "deliver" => {"row", "block", "thing", "full"} \subseteq DOMAIN f
      /\ f.verb \in {"sync by name", "import"} =>
            {"row", "block", "owner", "name"} \subseteq DOMAIN f
      /\ f.verb = "deliver" =>
            f.thing \in Things /\ IsBlock(f.block)' /\ f.block.hub = About[f.thing].hub
            /\ f.full \in BOOLEAN
      /\ f.verb \in {"sync by name", "import"} /\ p \in Resolved => IsBlock(f.block)'
      /\ f.verb = "sync by name" /\ p \in Resolved =>
            <<f.block.hub, f.owner, f.name>> \in was'
  BY DEF Tells, IsBlock, Grows
<1>2. /\ RepoVerb(f) /\ p \in {"probing", "owner"} => f.block.owner \in org'
      /\ RepoVerb(f) /\ p \in Stored =>
            f.row \in DOMAIN repo' /\ repo'[f.row].hub = f.block.hub
      /\ RepoVerb(f) /\ p = "answered" => f.row \in DOMAIN repo'
  BY DEF Tells, Grows
<1>3. /\ f.verb = "deliver" /\ p = "recorded" => KeyOf(f.thing) \in DOMAIN happened'
      /\ f.verb = "sync by name" /\ f.row # None =>
            f.row \in DOMAIN repo' /\ <<repo'[f.row].hub, f.owner, f.name>> \in was'
  BY DEF Tells, Grows
<1> QED
  BY <1>1, <1>2, <1>3 DEF Tells, RepoVerb

\* A step of one request, to what it can tell by then, keeps what all tell.
LEMMA TellsGo ==
    ASSUME FormsFit, FormsTell, Grows, NEW q \in Requests, NEW p, NEW f, Go(q, p, f),
           Tells(p, f)'
    PROVE  FormsTell'
<1>1. ASSUME NEW r \in Requests PROVE Tells(pc[r], form[r])'
  <2>1. PICK o, g : o = pc'[r] /\ g = form'[r]
    OBVIOUS
  <2>2. CASE r = q
    <3>1. o = p /\ g = f
      BY <2>1, <2>2 DEF Go, FormsFit
    <3> QED
      BY <2>1, <3>1 DEF Tells
  <2>3. CASE r # q
    <3>1. o = pc[r] /\ g = form[r]
      BY <2>1, <2>3 DEF Go, FormsFit
    <3>2. Tells(o, g)
      BY <3>1 DEF FormsTell
    <3>3. Tells(o, g)'
      BY <3>2, TellsKept
    <3> QED
      BY <2>1, <3>3 DEF Tells
  <2> QED
    BY <2>2, <2>3
<1> QED
  BY <1>1 DEF FormsTell

\* A request that is none about repositories tells nothing.
LEMMA OthersTell ==
    ASSUME NEW p, NEW f, ~RepoVerb(f)
    PROVE  Tells(p, f)'
BY DEF Tells, RepoVerb

LEMMA EndTells ==
    ASSUME FormsFit, FormsTell, Grows, NEW q \in Requests, \E how : End(q, how)
    PROVE  FormsTell'
<1>1. PICK how : Go(q, how, NoForm)
  BY DEF End
<1>2. ~RepoVerb(NoForm)
  BY DEF NoForm, RepoVerb
<1> QED
  BY <1>1, <1>2, OthersTell, TellsGo

\* A step writes some of the tables; the others are as they were.
LEMMA NothingTracked ==
    ASSUME TrackInv, UNCHANGED <<tracked, github>>
    PROVE  HubOK' /\ RepoOK' /\ EventOK' /\ TickOK' /\ Grows
<1>1. UNCHANGED <<hub, was, org, repo, snapshot, happened, credited, tick, synced>>
  BY DEF tracked, github, rows, events
<1>2. HubOK' /\ RepoOK'
  BY <1>1 DEF TrackInv, HubOK, RepoOK
<1>3. EventOK' /\ TickOK'
  BY <1>1 DEF TrackInv, EventOK, EventTypes, TickOK
<1>4. Grows
  BY <1>1 DEF Grows
<1> QED
  BY <1>2, <1>3, <1>4

LEMMA FormsStillTell ==
    ASSUME FormsFit, FormsTell, Grows, UNCHANGED <<pc, form>>
    PROVE  FormsTell'
<1>1. ASSUME NEW r \in Requests PROVE Tells(pc[r], form[r])'
  <2>1. PICK o, g : o = pc[r] /\ g = form[r]
    OBVIOUS
  <2>2. Tells(o, g)'
    BY <2>1, TellsKept DEF FormsTell
  <2>3. o = pc'[r] /\ g = form'[r]
    BY <2>1
  <2> QED
    BY <2>2, <2>3 DEF Tells
<1> QED
  BY <1>1 DEF FormsTell

\* GitHub moves a repository, or the scheduler ticks.
LEMMA TheRestTells ==
    ASSUME FormsFit, TrackInv,
           \/ MoveRepo \/ ScheduledTick \/ FinishTick
           \/ UNCHANGED <<tracked, github, pc, form>>
    PROVE  TrackInv'
<1>1. CASE MoveRepo
  <2>1. UNCHANGED <<org, repo, snapshot, happened, credited, tick, synced, pc, form>>
    BY <1>1 DEF MoveRepo, tracked, rows, events
  <2>2. PICK h \in DOMAIN hub, path \in Paths :
           /\ hub' = [hub EXCEPT ![h] = [owner |-> path[1], name |-> path[2]]]
           /\ was' = was \cup {<<h, path[1], path[2]>>}
    BY <1>1 DEF MoveRepo
  <2>3. HubOK'
    <3>1. <<h, path[1], path[2]>> \in Hubs \X Owners \X Names
      BY ReposAssumption DEF TrackInv, HubOK
    <3>2. ASSUME NEW g \in DOMAIN hub' PROVE <<g, hub'[g].owner, hub'[g].name>> \in was'
      BY <2>2 DEF TrackInv, HubOK
    <3> QED
      BY <2>2, <3>1, <3>2 DEF TrackInv, HubOK
  <2>4. Grows
    BY <2>1, <2>2 DEF Grows
  <2>5. RepoOK'
    BY <2>1, <2>2 DEF TrackInv, RepoOK
  <2>6. EventOK' /\ TickOK'
    BY <2>1 DEF TrackInv, EventOK, EventTypes, TickOK
  <2>7. FormsTell'
    BY <2>1, <2>4, FormsStillTell DEF TrackInv
  <2> QED
    BY <2>3, <2>5, <2>6, <2>7 DEF TrackInv
<1>2. CASE ScheduledTick \/ FinishTick
  <2>1. UNCHANGED <<hub, was, org, repo, snapshot, happened, credited, pc, form>>
    BY <1>2 DEF ScheduledTick, FinishTick, github, rows, events
  <2>2. HubOK' /\ RepoOK' /\ Grows
    BY <2>1 DEF TrackInv, HubOK, RepoOK, Grows
  <2>3. EventOK'
    BY <2>1 DEF TrackInv, EventOK, EventTypes
  <2>4. TickOK'
    <3>1. tick' \in {None, "all"} /\ synced' \subseteq DOMAIN repo
      BY <1>2 DEF ScheduledTick, FinishTick, TrackInv, TickOK
    <3> QED
      BY <2>1, <3>1 DEF TrackInv, TickOK
  <2>5. FormsTell'
    BY <2>1, <2>2, FormsStillTell DEF TrackInv
  <2> QED
    BY <2>2, <2>3, <2>4, <2>5 DEF TrackInv
<1>3. CASE UNCHANGED <<tracked, github, pc, form>>
  BY <1>3, NothingTracked, FormsStillTell DEF TrackInv
<1> QED
  BY <1>1, <1>2, <1>3

\* A request of the catalogue or of the summary takes a step.
LEMMA OtherStepsTell ==
    ASSUME FormsFit, TrackInv, NEW q \in Requests, Steps(q), ~RepoSteps(q),
           UNCHANGED <<tracked, github>>
    PROVE  TrackInv'
<1>1. \E p, f : Go(q, p, f) /\ ~RepoVerb(f)
  <2>1. CASE Elsewhere(q)
    BY <2>1 DEF Elsewhere
  <2>2. CASE PublishTarget(q)
    <3>1. CASE \E how : End(q, how)
      <4>1. ~RepoVerb(NoForm)
        BY DEF NoForm, RepoVerb
      <4> QED
        BY <3>1, <4>1 DEF End
    <3>2. CASE Goto(q, "published")
      BY <2>2, <3>2 DEF PublishTarget, Goto, Is, RepoVerb
    <3> QED
      BY <2>2, <3>1, <3>2 DEF PublishTarget
  <2> QED
    BY <2>1, <2>2, StepsAct
<1>2. PICK p, f : Go(q, p, f) /\ ~RepoVerb(f)
  BY <1>1
<1> QED
  BY <1>2, OthersTell, TellsGo, NothingTracked DEF TrackInv

\* What a request about repositories tells, at its step.
LEMMA Mine ==
    ASSUME FormsFit, TrackInv, NEW q \in Requests
    PROVE  /\ "verb" \in DOMAIN form[q] /\ RepoForm(pc[q], form[q])
           /\ Tells(pc[q], form[q])
BY DEF FormsFit, Fits, TrackInv, FormsTell

\* What is asked of repositories tells of them as they are.
LEMMA ReposAskedTell ==
    ASSUME FormsFit, TrackInv, NEW q \in Requests, RepoAsks(q), UNCHANGED github
    PROVE  TrackInv'
<1>1. HubOK' /\ RepoOK' /\ EventOK' /\ TickOK' /\ Grows
  BY NothingTracked DEF RepoAsks
<1>2. ASSUME NEW f, Ask(q, f), Tells("admitted", f) PROVE TrackInv'
  <2>1. Tells("admitted", f)'
    BY <1>1, <1>2, TellsKept
  <2> QED
    BY <1>1, <1>2, <2>1, TellsGo DEF Ask, TrackInv
<1>3. CASE AskWebhook(q)
  <2>1. PICK t \in Things, a \in Abouts :
           /\ About[t].hub \in DOMAIN hub
           /\ Ask(q, [verb |-> "deliver", thing |-> t, full |-> TRUE, row |-> None,
                      block |-> Block(About[t].hub, a)])
    BY <1>3 DEF AskWebhook
  <2>2. PICK f : f = [verb |-> "deliver", thing |-> t, full |-> TRUE, row |-> None,
                      block |-> Block(About[t].hub, a)]
    OBVIOUS
  <2>3. /\ f.verb = "deliver" /\ f.thing = t /\ f.full = TRUE
        /\ {"row", "block", "thing", "full"} \subseteq DOMAIN f
        /\ f.block.hub = About[t].hub /\ IsBlock(f.block)
    BY <2>1, <2>2 DEF Block, IsBlock, TrackInv, HubOK
  <2>4. Tells("admitted", f)
    BY <2>3 DEF Tells, Resolved, Stored
  <2> QED
    BY <1>2, <2>1, <2>2, <2>4
<1>4. CASE AskSynthesized(q)
  <2>1. PICK t \in Things, i \in DOMAIN repo :
           /\ About[t].hub = repo[i].hub
           /\ Ask(q, [verb |-> "deliver", thing |-> t, full |-> FALSE, row |-> None,
                      block |-> BlockOfRow(i)])
    BY <1>4 DEF AskSynthesized
  <2>2. PICK f : f = [verb |-> "deliver", thing |-> t, full |-> FALSE, row |-> None,
                      block |-> BlockOfRow(i)]
    OBVIOUS
  <2>3. /\ f.verb = "deliver" /\ f.thing = t /\ f.full = FALSE
        /\ {"row", "block", "thing", "full"} \subseteq DOMAIN f
        /\ f.block.hub = About[t].hub /\ IsBlock(f.block)
    BY <2>1, <2>2 DEF BlockOfRow, IsBlock, TrackInv, RepoOK
  <2>4. Tells("admitted", f)
    BY <2>3 DEF Tells, Resolved, Stored
  <2> QED
    BY <1>2, <2>1, <2>2, <2>4
<1>5. CASE AskSync(q)
  <2>1. PICK i \in RepoIds : Ask(q, [verb |-> "sync", row |-> i])
    BY <1>5 DEF AskSync
  <2>2. PICK f : f = [verb |-> "sync", row |-> i]
    OBVIOUS
  <2>3. f.verb = "sync"
    BY <2>2
  <2>4. Tells("admitted", f)
    BY <2>3 DEF Tells, Resolved, Stored
  <2> QED
    BY <1>2, <2>1, <2>2, <2>4
<1>6. CASE AskByName(q)
  <2>1. PICK v \in {"sync by name", "import"}, x \in was :
           Ask(q, [verb |-> v, owner |-> x[2], name |-> x[3], row |-> None,
                   block |-> None, created |-> FALSE])
    BY <1>6 DEF AskByName
  <2>2. PICK f : f = [verb |-> v, owner |-> x[2], name |-> x[3], row |-> None,
                      block |-> None, created |-> FALSE]
    OBVIOUS
  <2>3. f.verb \in {"sync by name", "import"} /\ f.row = None
      /\ {"row", "block", "owner", "name"} \subseteq DOMAIN f
    BY <2>2
  <2>4. Tells("admitted", f)
    BY <2>3 DEF Tells, Resolved, Stored
  <2> QED
    BY <1>2, <2>1, <2>2, <2>4
<1> QED
  BY <1>3, <1>4, <1>5, <1>6 DEF RepoAsks

\* The owner's row, the repository's, and what is told of it.
LEMMA OwnerTells ==
    ASSUME FormsFit, TrackInv, NEW q \in Requests, UpsertOrg(q), UNCHANGED github
    PROVE  TrackInv'
<1>0. PICK f, at : f = form[q] /\ at = pc[q]
  OBVIOUS
<1>1. /\ UNCHANGED <<hub, was, repo, snapshot, happened, credited, tick, synced>>
      /\ org' = org \cup {f.block.owner}
  BY <1>0 DEF UpsertOrg, github, events
<1>2. Grows /\ HubOK' /\ TickOK'
  BY <1>1 DEF Grows, TrackInv, HubOK, TickOK
<1>3. RepoOK'
  BY <1>1 DEF TrackInv, RepoOK
<1>4. EventOK'
  BY <1>1 DEF TrackInv, EventOK, EventTypes
<1>5. /\ f.verb \in {"deliver", "sync by name", "import"} /\ Tells(at, f)
      /\ f.verb # "deliver" => at = "resolved"
  BY <1>0, Mine DEF UpsertOrg, Is
<1>6. ASSUME NEW p \in {"owner", "probing"} PROVE Tells(p, f)'
  <2>1. Tells(at, f)'
    BY <1>2, <1>5, TellsKept
  <2>2. f.block.owner \in org'
    BY <1>1
  <2> QED
    BY <1>5, <2>1, <2>2 DEF Tells, Resolved, Stored
<1>7. PICK p \in {"owner", "probing"} : Go(q, p, f)
  BY <1>0 DEF UpsertOrg, Goto
<1>8. FormsTell'
  BY <1>2, <1>6, <1>7, TellsGo DEF TrackInv
<1> QED
  BY <1>2, <1>3, <1>4, <1>8 DEF TrackInv

LEMMA RowTells ==
    ASSUME FormsFit, TrackInv, NEW q \in Requests, form[q] # NoForm, UpsertRepo(q),
           UNCHANGED github
    PROVE  TrackInv'
<1>0. PICK f, b : f = form[q] /\ b = f.block
  OBVIOUS
<1>1. UNCHANGED <<hub, was, org, snapshot, happened, credited, tick, synced>> /\ pc[q] = "owner"
  BY DEF UpsertRepo, github, events
<1>2. PICK i \in IF RowsOfBlock(b) # {} THEN RowsOfBlock(b) ELSE RepoIds \ DOMAIN repo :
         /\ repo' = With(repo, i, [org |-> b.owner, hub |-> b.hub, name |-> b.name])
         /\ Go(q, "row", [f EXCEPT !.row = i])
  BY <1>0 DEF UpsertRepo
<1>3. RepoVerb(f) /\ "verb" \in DOMAIN f /\ Tells("owner", f)
      /\ f.verb \in {"deliver", "sync by name", "import"}
  BY <1>0, <1>1, Mine DEF RepoForm, RepoVerb
<1>4. b.owner \in org /\ IsBlock(b)
  BY <1>0, <1>3 DEF Tells, Resolved
<1>5. b.owner \in Owners /\ b.hub \in Hubs /\ b.name \in Names
  BY <1>4 DEF IsBlock, TrackInv, HubOK
<1>6. /\ DOMAIN repo' = DOMAIN repo \cup {i}
      /\ repo'[i] = [org |-> b.owner, hub |-> b.hub, name |-> b.name]
      /\ \A j \in DOMAIN repo \ {i} : repo'[j] = repo[j]
  BY <1>2 DEF With
<1>7. \A j \in DOMAIN repo : repo[j].org = b.owner /\ repo[j].hub = b.hub <=> j = i
  <2>1. \A j \in RowsOfBlock(b) : j = i
    BY <1>2 DEF RowsOfBlock, TrackInv, RepoOK
  <2>2. i \in DOMAIN repo => i \in RowsOfBlock(b)
    BY <1>2
  <2> QED
    BY <2>1, <2>2 DEF RowsOfBlock
<1>8. Grows
  BY <1>1, <1>6, <1>7 DEF Grows
<1>9. RepoOK'
  <2>1. ASSUME NEW j \in DOMAIN repo'
        PROVE  /\ repo'[j] \in RepoTypes /\ repo'[j].org \in org'
               /\ <<repo'[j].hub, repo'[j].org, repo'[j].name>> \in was'
    <3>1. CASE j = i
      BY <1>1, <1>4, <1>5, <1>6, <3>1 DEF IsBlock, RepoTypes
    <3>2. CASE j # i
      BY <1>1, <1>6, <2>1, <3>2 DEF TrackInv, RepoOK
    <3> QED
      BY <3>1, <3>2
  <2>2. ASSUME NEW j \in DOMAIN repo', NEW k \in DOMAIN repo',
               repo'[j].org = repo'[k].org, repo'[j].hub = repo'[k].hub
        PROVE  j = k
    <3>1. CASE j = i \/ k = i
      BY <1>6, <1>7, <2>2, <3>1
    <3>2. CASE j # i /\ k # i
      BY <1>6, <2>2, <3>2 DEF TrackInv, RepoOK
    <3> QED
      BY <3>1, <3>2
  <2> QED
    BY <2>1, <2>2 DEF RepoOK
<1>10. HubOK' /\ TickOK'
  BY <1>1, <1>6 DEF TrackInv, HubOK, TickOK
<1>11. EventOK'
  BY <1>1, <1>8 DEF TrackInv, EventOK, EventTypes, Grows
<1>12. PICK g : g = [f EXCEPT !.row = i]
  OBVIOUS
<1>13. Tells("row", g)'
  <2>1. /\ g.verb = f.verb /\ g.block = b /\ g.row = i /\ DOMAIN g = DOMAIN f
        /\ f.verb = "deliver" => g.thing = f.thing /\ g.full = f.full
        /\ f.verb = "sync by name" => g.owner = f.owner /\ g.name = f.name
    BY <1>0, <1>3, <1>12 DEF Tells
  <2>2. Tells("owner", f)'
    BY <1>3, <1>8, TellsKept
  <2>3. /\ f.verb = "deliver" => {"row", "block", "thing", "full"} \subseteq DOMAIN f
        /\ f.verb \in {"sync by name", "import"} =>
              {"row", "block", "owner", "name"} \subseteq DOMAIN f
        /\ f.verb = "deliver" =>
              f.thing \in Things /\ b.hub = About[f.thing].hub /\ f.full \in BOOLEAN
        /\ IsBlock(b)'
        /\ f.verb = "sync by name" => <<b.hub, f.owner, f.name>> \in was'
    BY <1>0, <1>3, <2>2 DEF Tells, Resolved
  <2>4. i \in DOMAIN repo' /\ repo'[i].hub = b.hub
    BY <1>6
  <2>5. /\ g.verb = "deliver" => {"row", "block", "thing", "full"} \subseteq DOMAIN g
        /\ g.verb \in {"sync by name", "import"} =>
              {"row", "block", "owner", "name"} \subseteq DOMAIN g
        /\ g.verb = "deliver" =>
              g.thing \in Things /\ IsBlock(g.block)' /\ g.block.hub = About[g.thing].hub
              /\ g.full \in BOOLEAN
        /\ IsBlock(g.block)'
        /\ g.verb = "sync by name" => <<g.block.hub, g.owner, g.name>> \in was'
        /\ g.row \in DOMAIN repo' /\ repo'[g.row].hub = g.block.hub
        /\ g.verb = "sync by name" => <<repo'[g.row].hub, g.owner, g.name>> \in was'
    BY <2>1, <2>3, <2>4
  <2> QED
    BY <2>5 DEF Tells, Resolved, Stored
<1>14. FormsTell'
  BY <1>2, <1>8, <1>12, <1>13, TellsGo DEF TrackInv
<1> QED
  BY <1>9, <1>10, <1>11, <1>14 DEF TrackInv

LEMMA MetadataTells ==
    ASSUME FormsFit, TrackInv, NEW q \in Requests, UpsertMetadata(q), UNCHANGED github
    PROVE  TrackInv'
<1>0. PICK f : f = form[q]
  OBVIOUS
<1>1. /\ UNCHANGED <<hub, was, org, repo, happened, credited, tick, synced>>
      /\ DOMAIN snapshot' = DOMAIN snapshot \cup {f.row}
      /\ f.verb = "deliver" /\ Go(q, "described", f) /\ pc[q] = "row"
  BY <1>0 DEF UpsertMetadata, With, Is, Goto, github, events
<1>2. Tells("row", f)
  BY <1>0, <1>1, Mine
<1>3. Tells("described", f) /\ f.row \in DOMAIN repo
  BY <1>1, <1>2 DEF Tells, RepoVerb, Resolved, Stored
<1>4. Grows /\ HubOK' /\ RepoOK' /\ TickOK'
  BY <1>1, <1>3 DEF Grows, TrackInv, HubOK, RepoOK, TickOK
<1>5. EventOK'
  BY <1>1 DEF TrackInv, EventOK, EventTypes
<1>6. Tells("described", f)'
  BY <1>3, <1>4, TellsKept
<1>7. FormsTell'
  BY <1>1, <1>4, <1>6, TellsGo DEF TrackInv
<1> QED
  BY <1>4, <1>5, <1>7 DEF TrackInv

\* An event keeps the row of its repository; another that has its key is of the same.
LEMMA RecordTells ==
    ASSUME FormsFit, TrackInv, NEW q \in Requests, RecordThing(q), UNCHANGED github
    PROVE  TrackInv'
<1>0. PICK f, t, k : f = form[q] /\ t = f.thing /\ k = KeyOf(t)
  OBVIOUS
<1> DEFINE i == IF k \in DOMAIN happened THEN happened[k].repo ELSE f.row
<1>1. /\ UNCHANGED <<hub, was, org, repo, snapshot, credited, tick, synced>>
      /\ happened' = With(happened, k, [repo |-> i, thing |-> t, full |-> f.full])
      /\ f.verb = "deliver" /\ Go(q, "recorded", f) /\ pc[q] = "described"
  BY <1>0 DEF RecordThing, Is, Goto, github, rows
<1>2. Tells("described", f)
  BY <1>0, <1>1, Mine
<1>3. /\ f.row \in DOMAIN repo /\ repo[f.row].hub = About[t].hub
      /\ t \in Things /\ f.full \in BOOLEAN
  BY <1>0, <1>1, <1>2 DEF Tells, RepoVerb, Stored
<1>4. i \in DOMAIN repo /\ repo[i].hub = About[t].hub
  <2>1. CASE k \in DOMAIN happened
    <3>1. /\ happened[k].repo \in DOMAIN repo /\ happened[k].thing \in Things
          /\ k = KeyOf(happened[k].thing)
          /\ repo[happened[k].repo].hub = About[happened[k].thing].hub
      BY <2>1 DEF TrackInv, EventOK, EventTypes
    <3>2. About[happened[k].thing].hub = About[t].hub
      BY <1>0, <1>3, <3>1, ReposAssumption DEF KeyOf
    <3> QED
      BY <2>1, <3>1, <3>2
  <2>2. CASE k \notin DOMAIN happened
    BY <1>3, <2>2
  <2> QED
    BY <2>1, <2>2
<1>5. PICK j : j = i
  OBVIOUS
<1>6. /\ DOMAIN happened' = DOMAIN happened \cup {k}
      /\ happened'[k] = [repo |-> j, thing |-> t, full |-> f.full]
      /\ \A l \in DOMAIN happened \ {k} : happened'[l] = happened[l]
  BY <1>1, <1>5 DEF With
<1>7. Grows /\ HubOK' /\ RepoOK' /\ TickOK'
  BY <1>1, <1>6 DEF Grows, TrackInv, HubOK, RepoOK, TickOK
<1>8. EventOK'
  <2>1. ASSUME NEW l \in DOMAIN happened'
        PROVE  /\ happened'[l] \in EventTypes' /\ l = KeyOf(happened'[l].thing)
               /\ repo'[happened'[l].repo].hub = About[happened'[l].thing].hub
    <3>1. CASE l = k
      BY <1>0, <1>1, <1>3, <1>4, <1>5, <1>6, <3>1 DEF EventTypes
    <3>2. CASE l # k
      BY <1>1, <1>6, <2>1, <3>2 DEF TrackInv, EventOK, EventTypes
    <3> QED
      BY <3>1, <3>2
  <2>2. \A c \in credited' : c[1] \in DOMAIN happened'
    BY <1>1, <1>6 DEF TrackInv, EventOK
  <2> QED
    BY <2>1, <2>2 DEF EventOK
<1>9. Tells("recorded", f)'
  <2>1. Tells("described", f)'
    BY <1>2, <1>7, TellsKept
  <2>2. KeyOf(f.thing) \in DOMAIN happened'
    BY <1>0, <1>6
  <2> QED
    BY <1>1, <2>1, <2>2 DEF Tells, RepoVerb, Resolved, Stored
<1>10. FormsTell'
  BY <1>1, <1>7, <1>9, TellsGo DEF TrackInv
<1> QED
  BY <1>7, <1>8, <1>10 DEF TrackInv

LEMMA CreditTells ==
    ASSUME FormsFit, TrackInv, NEW q \in Requests, CreditThing(q), UNCHANGED github
    PROVE  TrackInv'
<1>0. PICK f, t : f = form[q] /\ t = f.thing
  OBVIOUS
<1>1. /\ UNCHANGED <<hub, was, org, repo, snapshot, happened, tick, synced>>
      /\ credited' = credited \cup {<<KeyOf(t), c[1], c[2]>> : c \in About[t].actors}
      /\ f.verb = "deliver" /\ End(q, "done") /\ pc[q] = "recorded"
  BY <1>0 DEF CreditThing, Is, github, rows
<1>2. Tells("recorded", f)
  BY <1>0, <1>1, Mine
<1>3. KeyOf(t) \in DOMAIN happened
  BY <1>0, <1>1, <1>2 DEF Tells
<1>4. Grows /\ HubOK' /\ RepoOK' /\ TickOK'
  BY <1>1 DEF Grows, TrackInv, HubOK, RepoOK, TickOK
<1>5. EventOK'
  BY <1>1, <1>3 DEF TrackInv, EventOK, EventTypes
<1>6. FormsTell'
  BY <1>1, <1>4, EndTells DEF TrackInv
<1> QED
  BY <1>4, <1>5, <1>6 DEF TrackInv

LEMMA StoreTells ==
    ASSUME FormsFit, TrackInv, NEW q \in Requests, form[q] # NoForm, StoreRepo(q),
           UNCHANGED github
    PROVE  TrackInv'
BY OwnerTells, RowTells, MetadataTells DEF StoreRepo

\* Steps that read, and write no table.
LEMMA ReadsTell ==
    ASSUME FormsFit, TrackInv, NEW q \in Requests, UNCHANGED <<tracked, github>>,
           \/ \E p, f : Go(q, p, f) /\ Tells(p, f)
           \/ \E how : End(q, how)
    PROVE  TrackInv'
<1>1. HubOK' /\ RepoOK' /\ EventOK' /\ TickOK' /\ Grows
  BY NothingTracked
<1>2. FormsTell'
  <2>1. CASE \E p, f : Go(q, p, f) /\ Tells(p, f)
    <3>1. PICK p, f : Go(q, p, f) /\ Tells(p, f)
      BY <2>1
    <3>2. Tells(p, f)'
      BY <1>1, <3>1, TellsKept
    <3> QED
      BY <1>1, <3>1, <3>2, TellsGo DEF TrackInv
  <2>2. CASE \E how : End(q, how)
    BY <1>1, <2>2, EndTells DEF TrackInv
  <2> QED
    BY <2>1, <2>2
<1> QED
  BY <1>1, <1>2 DEF TrackInv

LEMMA DeliveriesTell ==
    ASSUME FormsFit, TrackInv, NEW q \in Requests, form[q] # NoForm, DeliverySteps(q),
           UNCHANGED github
    PROVE  TrackInv'
<1>1. \/ StoreRepo(q) \/ RecordThing(q) \/ CreditThing(q)
      \/ UNCHANGED tracked /\ \E how : End(q, how)
  BY DEF DeliverySteps, HandlePullRequest, HandlePrReview, HandlePrReviewComment,
         HandleWorkflowRun, HandleDeployment, HandleRelease, FailDelivery, LeaveOrRecord, Leave,
         Record
<1> QED
  BY <1>1, StoreTells, RecordTells, CreditTells, ReadsTell

\* A form has its row filled in, and tells the same of everything else.
LEMMA RowFilledTells ==
    ASSUME TrackInv, NEW f, "verb" \in DOMAIN f, f.verb = "sync by name",
           NEW p, Tells(p, f), NEW i \in DOMAIN repo,
           <<repo[i].hub, f.owner, f.name>> \in was
    PROVE  Tells("answered", [f EXCEPT !.row = i])
<1>1. PICK g : g = [f EXCEPT !.row = i]
  OBVIOUS
<1>2. {"row", "block", "owner", "name"} \subseteq DOMAIN f
  BY DEF Tells
<1>3. /\ g.verb = "sync by name" /\ g.row = i /\ DOMAIN g = DOMAIN f
      /\ g.owner = f.owner /\ g.name = f.name
  BY <1>1, <1>2
<1>4. Tells("answered", g)
  BY <1>2, <1>3 DEF Tells, Resolved, Stored
<1> QED
  BY <1>1, <1>4

\* GitHub tells of the repository that has the path now.
LEMMA ResolvedTells ==
    ASSUME TrackInv, NEW f, "verb" \in DOMAIN f, f.verb \in {"sync by name", "import"},
           NEW p, Tells(p, f), NEW h \in DOMAIN hub,
           hub[h] = [owner |-> f.owner, name |-> f.name]
    PROVE  Tells("resolved", [f EXCEPT !.block = Block(h, Null)])
<1>1. PICK g, b : b = Block(h, Null) /\ g = [f EXCEPT !.block = b]
  OBVIOUS
<1>2. {"row", "block", "owner", "name"} \subseteq DOMAIN f
  BY DEF Tells
<1>3. /\ g.verb = f.verb /\ g.row = f.row /\ DOMAIN g = DOMAIN f /\ g.block = b
      /\ g.owner = f.owner /\ g.name = f.name
  BY <1>1, <1>2
<1>4. IsBlock(b) /\ b.hub = h /\ <<h, f.owner, f.name>> \in was
  <2>1. <<h, hub[h].owner, hub[h].name>> \in was
    BY DEF TrackInv, HubOK
  <2>2. b.hub = h /\ b.owner = hub[h].owner /\ b.name = hub[h].name
    BY <1>1 DEF Block
  <2>3. hub[h].owner = f.owner /\ hub[h].name = f.name
    <3>1. PICK r : r = [owner |-> f.owner, name |-> f.name]
      OBVIOUS
    <3>2. r.owner = f.owner /\ r.name = f.name
      BY <3>1
    <3>3. r = hub[h]
      BY <3>1
    <3> QED
      BY <3>2, <3>3
  <2> QED
    BY <2>1, <2>2, <2>3 DEF IsBlock
<1>5. f.verb = "sync by name" /\ f.row # None =>
         f.row \in DOMAIN repo /\ <<repo[f.row].hub, f.owner, f.name>> \in was
  BY DEF Tells
<1>6. Tells("resolved", g)
  BY <1>2, <1>3, <1>4, <1>5 DEF Tells, Resolved, Stored
<1> QED
  BY <1>1, <1>6

\* The import knows whether its row is new.
LEMMA ProbedTells ==
    ASSUME NEW f, "verb" \in DOMAIN f, f.verb = "import", Tells("probing", f), NEW c
    PROVE  Tells("owner", [f EXCEPT !.created = c])
<1>1. PICK g : g = [f EXCEPT !.created = c]
  OBVIOUS
<1>2. /\ {"row", "block", "owner", "name"} \subseteq DOMAIN f
      /\ IsBlock(f.block) /\ f.block.owner \in org
  BY DEF Tells, Resolved, RepoVerb
<1>3. /\ g.verb = f.verb /\ DOMAIN g = DOMAIN f /\ g.block = f.block
  BY <1>1, <1>2
<1>4. Tells("owner", g)
  BY <1>2, <1>3 DEF Tells, Resolved, Stored
<1> QED
  BY <1>1, <1>4

LEMMA SyncsTell ==
    ASSUME FormsFit, TrackInv, NEW q \in Requests, form[q] # NoForm, SyncSteps(q),
           UNCHANGED github
    PROVE  TrackInv'
<1>0. PICK f, at : f = form[q] /\ at = pc[q]
  OBVIOUS
<1>1. "verb" \in DOMAIN f /\ RepoForm(at, f) /\ Tells(at, f)
  BY <1>0, Mine
<1>2. CASE UNCHANGED tracked /\ \E how : End(q, how)
  BY <1>2, ReadsTell
<1>3. ASSUME UNCHANGED tracked, NEW p, NEW g, Go(q, p, g), Tells(p, g) PROVE TrackInv'
  BY <1>3, ReadsTell
<1>4. CASE FindRepo(q) /\ ~(\E how : End(q, how))
  <2>1. f.verb = "sync" /\ f.row \in DOMAIN repo /\ Go(q, "answered", f) /\ UNCHANGED tracked
    BY <1>0, <1>4 DEF FindRepo, Is, Goto
  <2>2. Tells("answered", f)
    BY <2>1 DEF Tells, Resolved, Stored
  <2> QED
    BY <1>3, <2>1, <2>2
<1>5. CASE LookUpSlug(q)
  <2>1. f.verb = "sync by name" /\ UNCHANGED tracked
    BY <1>0, <1>5 DEF LookUpSlug, Is
  <2>2. PICK page \in ListRepos(f.owner, f.name) :
           \/ \E i \in page : repo[i].name = f.name /\ Go(q, "answered", [f EXCEPT !.row = i])
           \/ Goto(q, "unknown")
    BY <1>0, <1>5 DEF LookUpSlug
  <2>3. CASE \E i \in page : repo[i].name = f.name /\ Go(q, "answered", [f EXCEPT !.row = i])
    <3>1. PICK i \in page : repo[i].name = f.name /\ Go(q, "answered", [f EXCEPT !.row = i])
      BY <2>3
    <3>2. i \in DOMAIN repo /\ repo[i].org = f.owner
      BY DEF ListRepos, kSubset, Matching
    <3>3. <<repo[i].hub, f.owner, f.name>> \in was
      BY <3>1, <3>2 DEF TrackInv, RepoOK
    <3>4. Tells("answered", [f EXCEPT !.row = i])
      BY <1>1, <2>1, <3>2, <3>3, RowFilledTells
    <3> QED
      BY <1>3, <2>1, <3>1, <3>4
  <2>4. CASE Goto(q, "unknown")
    <3>1. Tells("unknown", f)
      BY <1>1, <2>1 DEF Tells, RepoVerb, Resolved, Stored
    <3> QED
      BY <1>0, <1>3, <2>1, <2>4, <3>1 DEF Goto
  <2> QED
    BY <2>2, <2>3, <2>4
<1>6. CASE ResolveAtGithub(q) /\ ~(\E how : End(q, how))
  <2>1. f.verb \in {"sync by name", "import"} /\ UNCHANGED tracked
    BY <1>0, <1>6 DEF ResolveAtGithub, Is
  <2>2. PICK h \in DOMAIN hub :
           /\ hub[h] = [owner |-> f.owner, name |-> f.name]
           /\ Go(q, "resolved", [f EXCEPT !.block = Block(h, Null)])
    BY <1>0, <1>6 DEF ResolveAtGithub
  <2>3. Tells("resolved", [f EXCEPT !.block = Block(h, Null)])
    BY <1>1, <2>1, <2>2, ResolvedTells
  <2> QED
    BY <1>3, <2>1, <2>2, <2>3
<1>7. CASE ProbeRepo(q)
  <2>1. f.verb = "import" /\ at = "probing" /\ UNCHANGED tracked
    BY <1>0, <1>7 DEF ProbeRepo, Is
  <2>2. PICK c : Go(q, "owner", [f EXCEPT !.created = c])
    BY <1>0, <1>7 DEF ProbeRepo
  <2>3. Tells("owner", [f EXCEPT !.created = c])
    BY <1>1, <2>1, ProbedTells
  <2> QED
    BY <1>3, <2>1, <2>2, <2>3
<1>8. CASE AnswerByName(q) /\ ~(\E how : End(q, how))
  <2>1. f.verb = "sync by name" /\ at = "row" /\ Go(q, "answered", f) /\ UNCHANGED tracked
    BY <1>0, <1>8 DEF AnswerByName, Is, Goto
  <2>2. Tells("answered", f)
    BY <1>1, <2>1 DEF Tells, RepoVerb, Resolved, Stored
  <2> QED
    BY <1>3, <2>1, <2>2
<1>9. CASE TriggerSync(q)
  <2>1. /\ UNCHANGED <<hub, was, org, repo, snapshot, happened, credited, synced>>
        /\ tick' = (IF tick = None THEN f.row ELSE tick) /\ at = "answered" /\ End(q, "done")
    BY <1>0, <1>9 DEF TriggerSync, github, rows, events
  <2>2. f.row \in DOMAIN repo
    BY <1>0, <1>1, <2>1 DEF Tells, RepoForm
  <2>3. Grows /\ HubOK' /\ RepoOK' /\ TickOK'
    BY <2>1, <2>2 DEF Grows, TrackInv, HubOK, RepoOK, TickOK
  <2>4. EventOK'
    BY <2>1 DEF TrackInv, EventOK, EventTypes
  <2>5. FormsTell'
    BY <2>1, <2>3, EndTells DEF TrackInv
  <2> QED
    BY <2>3, <2>4, <2>5 DEF TrackInv
<1> QED
  BY <1>2, <1>4, <1>5, <1>6, <1>7, <1>8, <1>9, StoreTells
     DEF SyncSteps, StoreRepo, FindRepo, ResolveAtGithub, AnswerByName

LEMMA InitTells == Init => TrackInv
<1> SUFFICES ASSUME Init PROVE TrackInv
  OBVIOUS
<1>1. TypeOK /\ RowsAreTrue
  BY DEF Init, TypeOK
<1>2. HubOK /\ TickOK
  BY <1>1 DEF TypeOK, HubOK, TickOK
<1>3. RepoOK
  BY <1>1 DEF TypeOK, RowsAreTrue, RepoOK, RepoTypes
<1>4. EventOK
  BY <1>1 DEF TypeOK, RowsAreTrue, EventOK, EventTypes, Thing
<1>5. ASSUME NEW p PROVE Tells(p, NoForm)
  BY DEF Tells, RepoVerb, NoForm
<1>6. FormsTell
  <2>1. \A q \in Requests : form[q] = NoForm
    BY DEF Init
  <2> QED
    BY <1>5, <2>1 DEF FormsTell
<1> QED
  BY <1>2, <1>3, <1>4, <1>6 DEF TrackInv

\* Nobody who has ended, or not asked yet, takes a step for a repository.
LEMMA StepsAreAskedFor ==
    ASSUME NEW q \in Unfinished, DeliverySteps(q) \/ SyncSteps(q)
    PROVE  form[q] # NoForm
<1> SUFFICES ASSUME form[q] = NoForm, pc[q] = "idle" PROVE FALSE
  BY DEF Unfinished
<1>1. form[q].verb = "none"
  BY DEF NoForm
<1>2. ~DeliverySteps(q)
  BY <1>1 DEF DeliverySteps, HandlePullRequest, HandlePrReview, HandlePrReviewComment,
     HandleWorkflowRun, HandleDeployment, HandleRelease, FailDelivery, IsFor
<1>3. ~SyncSteps(q)
  BY <1>1 DEF SyncSteps, FindRepo, LookUpSlug, ResolveAtGithub, ProbeRepo,
     UpsertOrg, UpsertRepo, AnswerByName, TriggerSync, Is
<1> QED
  BY <1>2, <1>3

LEMMA RepoStepsTell ==
    ASSUME FormsFit, TrackInv, NEW q \in Unfinished, RepoSteps(q), UNCHANGED github
    PROVE  TrackInv'
<1>1. q \in Requests
  BY DEF Unfinished
<1>2. CASE RepoAsks(q)
  BY <1>1, <1>2, ReposAskedTell
<1>3. CASE DeliverySteps(q)
  BY <1>1, <1>3, StepsAreAskedFor, DeliveriesTell
<1>4. CASE SyncSteps(q)
  BY <1>1, <1>4, StepsAreAskedFor, SyncsTell
<1> QED
  BY <1>2, <1>3, <1>4 DEF RepoSteps

LEMMA NextTells == RowInv /\ TrackInv /\ [Next]_vars => TrackInv'
<1> SUFFICES ASSUME RowInv, TrackInv, [Next]_vars PROVE TrackInv'
  OBVIOUS
<1>0. FormsFit
  BY DEF RowInv
<1>1. CASE UNCHANGED vars
  BY <1>0, <1>1, TheRestTells DEF vars
<1>2. CASE SummaryNext /\ UNCHANGED <<tracked, github>>
  <2>1. PICK q \in Unfinished : Steps(q)
    BY <1>2 DEF SummaryNext, Steps
  <2>2. q \in Requests
    BY DEF Unfinished
  <2>3. CASE RepoSteps(q)
    <3>1. UNCHANGED github
      BY <1>2
    <3> QED
      BY <1>0, <2>3, <3>1, RepoStepsTell
  <2>4. CASE ~RepoSteps(q)
    BY <1>0, <1>2, <2>1, <2>2, <2>4, OtherStepsTell
  <2> QED
    BY <2>3, <2>4
<1>3. CASE MoveRepo \/ ScheduledTick \/ FinishTick
  BY <1>0, <1>3, TheRestTells
<1>4. ASSUME NEW q \in Unfinished, RepoSteps(q), UNCHANGED github PROVE TrackInv'
  BY <1>0, <1>4, RepoStepsTell
<1> QED
  BY <1>1, <1>2, <1>3, <1>4 DEF Next, ReposNext, RepoSteps

\* The rows are typed, and what relates them holds: a repository has one row per owner,
\* under a name it has had there, however webhooks, imports and syncs race and whatever
\* GitHub renames in between; a sync by name is for a repository that had that name; an
\* event belongs to a row of its own repository.
THEOREM ReposAreTrue == Spec => []TypeOK
<1>1. Spec => [](RowInv /\ TrackInv)
  <2>1. Init => RowInv /\ TrackInv
    BY InitFits, InitTells
  <2>2. RowInv /\ TrackInv /\ [Next]_vars => (RowInv /\ TrackInv)'
    BY NextFits, NextTells
  <2> QED
    BY <2>1, <2>2, PTL DEF Spec
<1>2. RowInv /\ TrackInv => TypeOK
  <2> SUFFICES ASSUME RowInv, TrackInv PROVE TypeOK
    OBVIOUS
  <2>1. /\ \A i, j \in DOMAIN repo :
              i # j => <<repo[i].org, repo[i].hub>> # <<repo[j].org, repo[j].hub>>
        /\ \A i \in DOMAIN repo : <<repo[i].hub, repo[i].org, repo[i].name>> \in was
        /\ \A i \in DOMAIN repo : repo[i].org \in org
    BY DEF TrackInv, RepoOK
  <2>2. /\ \A k \in DOMAIN happened : repo[happened[k].repo].hub = Thing(k).hub
        /\ \A c \in credited : c[1] \in DOMAIN happened
    BY DEF TrackInv, EventOK, Thing
  <2>3. ASSUME NEW q \in Requests, form[q].verb = "sync by name", form[q].row # None
        PROVE  <<repo[form[q].row].hub, form[q].owner, form[q].name>> \in was
    BY <2>3, Mine DEF RowInv, Tells
  <2>4. RowsAreTrue
    BY <2>1, <2>2, <2>3 DEF RowsAreTrue
  <2>5. /\ was \subseteq Hubs \X Owners \X Names
        /\ \A h \in DOMAIN hub : <<h, hub[h].owner, hub[h].name>> \in was
    BY DEF TrackInv, HubOK
  <2>6. \A i \in DOMAIN repo : repo[i] \in [org : Owners, hub : Hubs, name : Names]
    BY DEF TrackInv, RepoOK, RepoTypes
  <2>7. \A k \in DOMAIN happened :
           /\ happened[k] \in [repo : DOMAIN repo, thing : Things, full : BOOLEAN]
           /\ k = KeyOf(happened[k].thing)
    BY DEF TrackInv, EventOK, EventTypes
  <2>8. /\ DOMAIN snapshot \subseteq DOMAIN repo /\ synced \subseteq DOMAIN repo
        /\ tick \in {None, "all"} \cup DOMAIN repo
    BY DEF TrackInv, TickOK
  <2> QED
    BY <2>4, <2>5, <2>6, <2>7, <2>8 DEF TypeOK, RowInv
<1> QED
  BY <1>1, <1>2, PTL

-----------------------------------------------------------------------------
(* Values in order *)

\* How many keys have a value up to v, and below it.
UpTo(f, v)  == Cardinality({k \in DOMAIN f : f[k] <= v})
Below(f, v) == Cardinality({k \in DOMAIN f : f[k] < v})

IsSample(f) == IsFiniteSet(DOMAIN f) /\ \A k \in DOMAIN f : f[k] \in Int

LEMMA CountsOfValues ==
    ASSUME NEW f, IsSample(f), NEW v \in Int, NEW u \in Int
    PROVE  /\ UpTo(f, v) \in Nat /\ Below(f, v) \in Nat /\ UpTo(f, v) <= Cardinality(DOMAIN f)
           /\ Cardinality(DOMAIN f) \in Nat
           /\ u < v => UpTo(f, u) <= Below(f, v)
<1> DEFINE L(x) == {k \in DOMAIN f : f[k] <= x}
           B(x) == {k \in DOMAIN f : f[k] < x}
<1>1. IsFiniteSet(DOMAIN f) /\ \A k \in DOMAIN f : f[k] \in Int
  BY DEF IsSample
<1>2. \A x : IsFiniteSet(L(x)) /\ IsFiniteSet(B(x)) /\ L(x) \subseteq DOMAIN f
  BY <1>1, FS_Subset
<1>3. u < v => L(u) \subseteq B(v)
  BY <1>1
<1> HIDE DEF L, B
<1>4. /\ Cardinality(L(v)) \in Nat /\ Cardinality(B(v)) \in Nat /\ Cardinality(DOMAIN f) \in Nat
      /\ Cardinality(L(v)) <= Cardinality(DOMAIN f)
  BY <1>1, <1>2, FS_CardinalityType, FS_Subset
<1>5. u < v => Cardinality(L(u)) <= Cardinality(B(v))
  BY <1>2, <1>3, FS_Subset
<1> QED
  BY <1>4, <1>5 DEF UpTo, Below, L, B

\* The n-th value exists: it is the least that more than n are up to.
LEMMA NthIs ==
    ASSUME NEW f, IsSample(f), NEW n \in Nat, n < Cardinality(DOMAIN f)
    PROVE  /\ Nth(f, n) \in Int /\ \E k \in DOMAIN f : f[k] = Nth(f, n)
           /\ Below(f, Nth(f, n)) <= n /\ n < UpTo(f, Nth(f, n))
<1> DEFINE V == {f[k] : k \in DOMAIN f}
           Good == {v \in V : n < UpTo(f, v)}
           R == {p \in Good \X Good : p[1] < p[2]}
           G == {p \in V \X V : p[1] > p[2]}
<1>1. IsFiniteSet(DOMAIN f) /\ \A k \in DOMAIN f : f[k] \in Int
  BY DEF IsSample
<1>2. IsFiniteSet(V) /\ V \subseteq Int
  BY <1>1, ImageIsFinite
<1>3. V # {}
  <2>1. DOMAIN f # {}
    <3>1. Cardinality({}) = 0
      BY FS_EmptySet
    <3> QED
      BY <3>1
  <2> QED
    BY <2>1
<1>4. \A S : S \subseteq V => IsStrictOrder({p \in S \X S : p[1] > p[2]}, S)
  <2>1. ASSUME NEW S, S \subseteq V PROVE IsStrictOrder({p \in S \X S : p[1] > p[2]}, S)
    <3>1. S \subseteq Int
      BY <1>2, <2>1
    <3> QED
      BY <3>1 DEF IsStrictOrder
  <2> QED
    BY <2>1
\* All are up to the greatest.
<1>5. Good # {}
  <2>1. PICK m \in V : \A v \in V : <<v, m>> \notin G
    <3>1. IsStrictOrder(G, V)
      BY <1>4
    <3> HIDE DEF G, V
    <3> QED
      BY <1>2, <1>3, <3>1, FirstExists
  <2>2. \A k \in DOMAIN f : f[k] <= m
    <3>1. ASSUME NEW k \in DOMAIN f PROVE f[k] <= m
      <4>1. f[k] \in V /\ f[k] \in Int /\ m \in Int
        BY <1>1, <1>2
      <4>2. ~(f[k] > m)
        BY <2>1, <4>1
      <4> QED
        BY <4>1, <4>2
    <3> QED
      BY <3>1
  <2>3. {k \in DOMAIN f : f[k] <= m} = DOMAIN f
    BY <2>2
  <2>4. UpTo(f, m) = Cardinality(DOMAIN f)
    BY <2>3 DEF UpTo
  <2> QED
    BY <2>1, <2>4
<1>6. PICK v \in Good : \A u \in Good : ~(u < v)
  <2>1. IsFiniteSet(Good) /\ Good \subseteq Int
    BY <1>2, FS_Subset
  <2>2. IsStrictOrder(R, Good)
    <3> HIDE DEF Good
    <3> QED
      BY <2>1 DEF IsStrictOrder
  <2>3. \E v \in Good : \A u \in Good : <<u, v>> \notin R
    <3> HIDE DEF Good, R
    <3> QED
      BY <1>5, <2>1, <2>2, FirstExists
  <2> QED
    BY <2>3
<1>7. v \in V /\ v \in Int /\ n < UpTo(f, v)
  BY <1>2
<1> DEFINE W == {u \in V : u < v}
<1>8. Below(f, v) <= n
  <2>1. CASE W = {}
    <3>1. {k \in DOMAIN f : f[k] < v} = {}
      BY <2>1
    <3>2. Cardinality({}) = 0
      BY FS_EmptySet
    <3> QED
      BY <3>1, <3>2 DEF Below
  <2>2. CASE W # {}
    <3> DEFINE H == {p \in W \X W : p[1] > p[2]}
    <3>1. PICK u \in W : \A x \in W : <<x, u>> \notin H
      <4>1. IsStrictOrder(H, W)
        BY <1>4
      <4>2. IsFiniteSet(W)
        BY <1>2, FS_Subset
      <4> HIDE DEF H, W
      <4> QED
        BY <2>2, <4>1, <4>2, FirstExists
    <3>2. u \in V /\ u \in Int /\ u < v
      BY <1>2, <3>1
    <3>3. ASSUME NEW k \in DOMAIN f PROVE f[k] < v <=> f[k] <= u
      <4>1. f[k] \in V /\ f[k] \in Int
        BY <1>1
      <4>2. f[k] < v => ~(f[k] > u)
        <5>1. f[k] < v => f[k] \in W
          BY <4>1
        <5> QED
          BY <3>1, <5>1
      <4> QED
        BY <1>7, <3>2, <4>1, <4>2
    <3>4. {k \in DOMAIN f : f[k] < v} = {k \in DOMAIN f : f[k] <= u}
      BY <3>3
    <3>5. Below(f, v) = UpTo(f, u)
      BY <3>4 DEF Below, UpTo
    <3>6. u \notin Good
      BY <1>6, <3>2
    <3>7. ~(n < UpTo(f, u))
      BY <3>2, <3>6
    <3>8. UpTo(f, u) \in Nat
      BY <3>2, CountsOfValues
    <3> QED
      BY <3>5, <3>7, <3>8
  <2> QED
    BY <2>1, <2>2
<1>9. \E x \in V : Below(f, x) <= n /\ n < UpTo(f, x)
  BY <1>7, <1>8
<1>10. Nth(f, n) = CHOOSE x \in V : Below(f, x) <= n /\ n < UpTo(f, x)
  BY DEF Nth, Below, UpTo
<1> HIDE DEF V
<1>11. Nth(f, n) \in V /\ Below(f, Nth(f, n)) <= n /\ n < UpTo(f, Nth(f, n))
  BY <1>9, <1>10
<1> QED
  BY <1>2, <1>11 DEF V

\* A later one is at least as great.
LEMMA NthGrows ==
    ASSUME NEW f, IsSample(f), NEW m \in Nat, NEW n \in Nat, m <= n, n < Cardinality(DOMAIN f)
    PROVE  Nth(f, m) <= Nth(f, n)
<1>0. Cardinality(DOMAIN f) \in Nat
  BY FS_CardinalityType DEF IsSample
<1>1. m < Cardinality(DOMAIN f)
  BY <1>0
<1> DEFINE v == Nth(f, m)
           u == Nth(f, n)
<1>2. v \in Int /\ u \in Int /\ Below(f, v) <= m /\ n < UpTo(f, u)
  BY <1>1, NthIs
<1> HIDE DEF u, v
<1>3. u < v => UpTo(f, u) <= Below(f, v)
  BY <1>2, CountsOfValues
<1>4. UpTo(f, u) \in Nat /\ Below(f, v) \in Nat
  BY <1>2, CountsOfValues
<1>5. ~(u < v)
  BY <1>2, <1>3, <1>4
<1> QED
  BY <1>2, <1>5 DEF u, v

\* A value on the line between two that are in order, and how it grows.
LEMMA Between ==
    ASSUME NEW a \in Int, NEW b \in Int, a <= b, NEW r \in 0..99
    PROVE  a * 100 <= a * 100 + r * (b - a) /\ a * 100 + r * (b - a) <= b * 100
<1> DEFINE d == b - a
<1>1. d \in Nat /\ b = a + d
  OBVIOUS
<1> HIDE DEF d
<1>2. 0 <= r * d /\ r * d <= 100 * d
  BY <1>1
<1>3. b * 100 = a * 100 + 100 * d
  BY <1>1
<1>4. r * d \in Int /\ 100 * d \in Int /\ a * 100 \in Int
  BY <1>1
<1> QED
  BY <1>2, <1>3, <1>4 DEF d

LEMMA Along ==
    ASSUME NEW a \in Int, NEW b \in Int, a <= b, NEW r \in 0..99, NEW s \in 0..99, r <= s
    PROVE  a * 100 + r * (b - a) <= a * 100 + s * (b - a)
<1> DEFINE d == b - a
<1>1. d \in Nat
  OBVIOUS
<1> HIDE DEF d
<1>2. r * d <= s * d /\ r * d \in Int /\ s * d \in Int /\ a * 100 \in Int
  BY <1>1
<1> QED
  BY <1>2 DEF d

\* Where a percentile is read off.
LEMMA QuotientAndRest ==
    ASSUME NEW at \in Nat, NEW q \in Int, NEW r \in Int, q = at \div 100, r = at % 100
    PROVE  at = 100 * q + r /\ q \in Nat /\ r \in 0..99
OBVIOUS

\* A percentile v, read off between the i-th and the j-th of n values, a and b.
ReadOff(f, p, n, i, j, r, a, b, v) ==
    /\ n = Cardinality(DOMAIN f) /\ n \in Nat /\ n > 0
    /\ p * (n - 1) = 100 * i + r /\ i \in Nat /\ r \in 0..99 /\ i <= n - 1
    /\ j = IF i + 1 <= n - 1 THEN i + 1 ELSE n - 1
    /\ a \in Int /\ b \in Int /\ a <= b /\ a = Nth(f, i) /\ b = Nth(f, j)
    /\ v = a * 100 + r * (b - a)

LEMMA PercentileIs ==
    ASSUME NEW f, IsSample(f), DOMAIN f # {}, NEW p \in 0..100
    PROVE  \E n, i, j, r, a, b : ReadOff(f, p, n, i, j, r, a, b, Percentile(f, p))
<1> DEFINE n  == Cardinality(DOMAIN f)
           at == p * (n - 1)
           i  == at \div 100
           r  == at % 100
           j  == IF i + 1 <= n - 1 THEN i + 1 ELSE n - 1
<1>1. n \in Nat /\ n > 0 /\ n - 1 \in Nat
  <2>1. n \in Nat /\ n # 0
    BY FS_CardinalityType, FS_EmptySet DEF IsSample
  <2> QED
    BY <2>1
<1>2. at \in Nat /\ at <= 100 * (n - 1)
  <2>1. PICK m : m = n - 1
    OBVIOUS
  <2>2. p * m \in Nat /\ p * m <= 100 * m
    BY <1>1, <2>1
  <2> QED
    BY <2>1, <2>2
<1>3. i \in Nat /\ r \in 0..99 /\ at = 100 * i + r
  <2>1. at \div 100 \in Int /\ at % 100 \in Int
    <3> HIDE DEF at
    <3> QED
      BY <1>2
  <2> HIDE DEF at
  <2> QED
    BY <1>2, <2>1, QuotientAndRest
<1>4. Percentile(f, p) = Nth(f, i) * 100 + r * (Nth(f, Min({i + 1, n - 1})) - Nth(f, i))
  BY DEF Percentile
<1> HIDE DEF n, at, i, r
<1>5. i <= n - 1
  BY <1>1, <1>2, <1>3
<1>6. Min({i + 1, n - 1}) = j
  <2>1. PICK x : x = i + 1
    OBVIOUS
  <2>2. PICK y : y = n - 1
    OBVIOUS
  <2>3. x \in Int /\ y \in Int
    BY <1>1, <1>3, <2>1, <2>2
  <2>4. Min({x, y}) = IF x <= y THEN x ELSE y
    BY <2>3, LeastOfTwo
  <2> QED
    BY <2>1, <2>2, <2>4
<1>7. j \in Nat /\ i <= j /\ j < n /\ i < n
  BY <1>1, <1>3, <1>5
<1> HIDE DEF j
<1>8. Nth(f, i) \in Int /\ Nth(f, j) \in Int /\ Nth(f, i) <= Nth(f, j)
  BY <1>3, <1>7, NthIs, NthGrows DEF n
<1>9. ReadOff(f, p, n, i, j, r, Nth(f, i), Nth(f, j), Percentile(f, p))
  <2>1. p * (n - 1) = 100 * i + r
    BY <1>3 DEF at
  <2>2. Percentile(f, p) = Nth(f, i) * 100 + r * (Nth(f, j) - Nth(f, i))
    BY <1>4, <1>6
  <2>3. n = Cardinality(DOMAIN f)
    BY DEF n
  <2>4. j = IF i + 1 <= n - 1 THEN i + 1 ELSE n - 1
    BY DEF j
  <2> QED
    BY <1>1, <1>3, <1>5, <1>8, <2>1, <2>2, <2>3, <2>4 DEF ReadOff
<1> QED
  BY <1>9

LEMMA PlacesFit ==
    ASSUME NEW f, NEW p, NEW n, NEW i, NEW j, NEW r, NEW a, NEW b, NEW v,
           ReadOff(f, p, n, i, j, r, a, b, v)
    PROVE  /\ n \in Nat /\ i \in Nat /\ j \in Nat /\ 0 <= i /\ i <= j /\ j <= n - 1 /\ n - 1 \in Nat
           /\ n - 1 < n /\ i < n /\ 0 < n /\ j < n
           /\ j = i \/ j = i + 1
<1>1. n \in Nat /\ n > 0 /\ i \in Nat /\ i <= n - 1
  BY DEF ReadOff
<1>2. j = IF i + 1 <= n - 1 THEN i + 1 ELSE n - 1
  BY DEF ReadOff
<1> QED
  BY <1>1, <1>2

LEMMA ValuesFit ==
    ASSUME NEW f, NEW p, NEW n, NEW i, NEW j, NEW r, NEW a, NEW b, NEW v,
           ReadOff(f, p, n, i, j, r, a, b, v)
    PROVE  /\ v \in Int /\ a * 100 <= v /\ v <= b * 100
           /\ a \in Int /\ b \in Int /\ a <= b /\ r \in 0..99
<1>1. a \in Int /\ b \in Int /\ a <= b /\ r \in 0..99
  BY DEF ReadOff
<1>2. v = a * 100 + r * (b - a)
  BY DEF ReadOff
<1>3. a * 100 <= a * 100 + r * (b - a) /\ a * 100 + r * (b - a) <= b * 100
  BY <1>1, Between
<1>4. r * (b - a) \in Int
  BY <1>1
<1> QED
  BY <1>1, <1>2, <1>3, <1>4

\* It is a number from the least of the values to the greatest.
LEMMA PercentileFits ==
    ASSUME NEW f, IsSample(f), DOMAIN f # {}, NEW p \in 0..100
    PROVE  /\ Percentile(f, p) \in Int
           /\ 100 * Nth(f, 0) <= Percentile(f, p)
           /\ Percentile(f, p) <= 100 * Nth(f, Cardinality(DOMAIN f) - 1)
<1>1. PICK n, i, j, r, a, b : ReadOff(f, p, n, i, j, r, a, b, Percentile(f, p))
  BY PercentileIs
<1>2. PICK v : v = Percentile(f, p)
  OBVIOUS
<1>3. /\ a \in Int /\ b \in Int /\ a <= b /\ r \in 0..99 /\ v = a * 100 + r * (b - a)
      /\ a = Nth(f, i) /\ b = Nth(f, j) /\ n = Cardinality(DOMAIN f)
  BY <1>1, <1>2 DEF ReadOff
<1>4. /\ n \in Nat /\ i \in Nat /\ j \in Nat /\ 0 <= i /\ i <= j /\ j <= n - 1 /\ n - 1 \in Nat
      /\ n - 1 < n /\ i < n /\ 0 < n /\ j < n
  BY <1>1, PlacesFit
<1>5. PICK x, y : x = Nth(f, 0) /\ y = Nth(f, n - 1)
  OBVIOUS
<1>6. x \in Int /\ y \in Int
  BY <1>3, <1>4, <1>5, NthIs
<1>7. x <= a /\ b <= y
  BY <1>3, <1>4, <1>5, NthGrows
<1>8. a * 100 <= v /\ v <= b * 100
  BY <1>1, <1>2, ValuesFit
<1>9. v \in Int
  BY <1>1, <1>2, ValuesFit
<1>10. 100 * x <= v /\ v <= 100 * y
  BY <1>3, <1>6, <1>7, <1>8, <1>9
<1> QED
  BY <1>2, <1>3, <1>5, <1>9, <1>10

LEMMA EarlierOrRest ==
    ASSUME NEW i \in Nat, NEW k \in Nat, NEW r \in 0..99, NEW s \in 0..99,
           100 * i + r <= 100 * k + s
    PROVE  i < k \/ (i = k /\ r <= s)
OBVIOUS

\* A higher percentile is no lower.
LEMMA PercentileGrows ==
    ASSUME NEW f, IsSample(f), DOMAIN f # {}, NEW p \in 0..100, NEW q \in 0..100, p <= q
    PROVE  Percentile(f, p) <= Percentile(f, q)
<1> PICK v : v = Percentile(f, p)
  OBVIOUS
<1> PICK w : w = Percentile(f, q)
  OBVIOUS
<1>1. PICK n, i, j, r, a, b : ReadOff(f, p, n, i, j, r, a, b, v)
  BY PercentileIs
<1>2. PICK m, k, l, s, c, d : ReadOff(f, q, m, k, l, s, c, d, w)
  BY PercentileIs
<1>3. /\ n \in Nat /\ i \in Nat /\ j \in Nat /\ i <= j /\ j < n /\ 0 < n /\ (j = i \/ j = i + 1)
      /\ k \in Nat /\ k < m /\ l \in Nat /\ l < m
  BY <1>1, <1>2, PlacesFit
<1>4. m = n /\ n = Cardinality(DOMAIN f)
  BY <1>1, <1>2 DEF ReadOff
<1>5. a = Nth(f, i) /\ b = Nth(f, j) /\ c = Nth(f, k) /\ d = Nth(f, l)
  BY <1>1, <1>2 DEF ReadOff
<1>6. /\ v \in Int /\ v <= b * 100 /\ a \in Int /\ b \in Int /\ a <= b /\ r \in 0..99
      /\ w \in Int /\ c * 100 <= w /\ c \in Int /\ s \in 0..99
  BY <1>1, <1>2, ValuesFit
<1>7. 100 * i + r <= 100 * k + s
  <2>1. PICK x : x = n - 1
    OBVIOUS
  <2>2. x \in Nat
    BY <1>3, <2>1
  <2>3. p * x <= q * x
    BY <2>2
  <2>4. p * x = 100 * i + r /\ q * x = 100 * k + s
    BY <1>1, <1>2, <1>4, <2>1 DEF ReadOff
  <2> QED
    BY <2>3, <2>4
<1>8. i < k \/ (i = k /\ r <= s)
  BY <1>3, <1>6, <1>7, EarlierOrRest
<1>9. CASE i = k /\ r <= s
  <2>1. j = l
    BY <1>1, <1>2, <1>4, <1>9 DEF ReadOff
  <2>2. c = a /\ d = b
    BY <1>5, <1>9, <2>1
  <2>3. a * 100 + r * (b - a) <= a * 100 + s * (b - a)
    BY <1>6, <1>9, Along
  <2>4. v = a * 100 + r * (b - a) /\ w = c * 100 + s * (d - c)
    BY <1>1, <1>2 DEF ReadOff
  <2> QED
    BY <2>2, <2>3, <2>4
<1>10. CASE i < k
  <2>1. j <= k
    BY <1>3, <1>10
  <2>2. b <= c
    BY <1>3, <1>4, <1>5, <2>1, NthGrows
  <2> QED
    BY <1>6, <2>2
<1> QED
  BY <1>8, <1>9, <1>10

-----------------------------------------------------------------------------
(* The lenses of a repository *)

\* What is recorded is finite: a server starts with finitely many rows and writes one at
\* a time.
RecordedIsFinite == IsFiniteSet(DOMAIN happened) /\ IsFiniteSet(credited)

\* The events of one repository in one window.
LEMMA WindowIsFinite ==
    ASSUME TypeOK, RecordedIsFinite, NEW i, NEW w
    PROVE  /\ IsFiniteSet(InWindow(i, w)) /\ Cardinality(InWindow(i, w)) \in Nat
           /\ \A k \in InWindow(i, w) : Thing(k).hour \in Int /\ Thing(k).took \in Int
           /\ \A kind : /\ OfKind(i, w, kind) \subseteq InWindow(i, w)
                        /\ IsFiniteSet(OfKind(i, w, kind))
                        /\ Cardinality(OfKind(i, w, kind)) \in Nat
<1>1. InWindow(i, w) \subseteq DOMAIN happened
  BY DEF InWindow
<1>2. IsFiniteSet(InWindow(i, w))
  BY <1>1, FS_Subset DEF RecordedIsFinite
<1>3. \A k \in InWindow(i, w) : happened[k].thing \in Things
  BY <1>1 DEF TypeOK
<1>4. \A k \in InWindow(i, w) : Thing(k).hour \in Int /\ Thing(k).took \in Int
  BY <1>3, StatsAssumption DEF Thing
<1>5. \A kind : OfKind(i, w, kind) \subseteq InWindow(i, w)
  BY DEF OfKind
<1>6. \A kind : IsFiniteSet(OfKind(i, w, kind))
  BY <1>2, <1>5, FS_Subset
<1> QED
  BY <1>2, <1>4, <1>5, <1>6, FS_CardinalityType

\* Percentiles that there are come in order.
LEMMA TripleIsOrdered ==
    ASSUME NEW f, IsSample(f)
    PROVE  Ordered(Triple(f), f)
<1> SUFFICES ASSUME Triple(f) # Null PROVE
       /\ 100 * Nth(f, 0) <= Triple(f).p50 /\ Triple(f).p50 <= Triple(f).p90
       /\ Triple(f).p90 <= Triple(f).p95
       /\ Triple(f).p95 <= 100 * Nth(f, Cardinality(DOMAIN f) - 1)
  BY DEF Ordered
<1>1. ~(Cardinality(DOMAIN f) < MinSample)
  BY DEF Triple
<1>2. Triple(f) = [p50 |-> Percentile(f, 50), p90 |-> Percentile(f, 90), p95 |-> Percentile(f, 95)]
  BY <1>1 DEF Triple
<1>3. DOMAIN f # {}
  <2>1. Cardinality({}) = 0 /\ MinSample > 0
    BY StatsAssumption, FS_EmptySet
  <2> QED
    BY <1>1, <2>1
<1>4. Triple(f).p50 = Percentile(f, 50) /\ Triple(f).p90 = Percentile(f, 90) /\ Triple(f).p95 = Percentile(f, 95)
  BY <1>2
<1>5. 100 * Nth(f, 0) <= Percentile(f, 50)
  BY <1>3, PercentileFits
<1>6. Percentile(f, 95) <= 100 * Nth(f, Cardinality(DOMAIN f) - 1)
  BY <1>3, PercentileFits
<1>7. Percentile(f, 50) <= Percentile(f, 90) /\ Percentile(f, 90) <= Percentile(f, 95)
  BY <1>3, PercentileGrows
<1> QED
  BY <1>4, <1>5, <1>6, <1>7

LEMMA TimedIsSample ==
    ASSUME TypeOK, RecordedIsFinite, NEW i, NEW w, NEW kind
    PROVE  LET keys == OfKind(i, w, kind)
           IN  /\ IsSample(Timed(keys))
               /\ Cardinality(DOMAIN Timed(keys)) <= Cardinality(keys)
<1> DEFINE keys == OfKind(i, w, kind)
           T == {k \in keys : Thing(k).took > 0}
<1>1. IsFiniteSet(keys) /\ \A k \in keys : Thing(k).took \in Int
  BY WindowIsFinite
<1>2. Timed(keys) = [k \in T |-> Thing(k).took]
  BY DEF Timed
<1>3. IsFiniteSet(T) /\ Cardinality(T) <= Cardinality(keys)
  BY <1>1, FS_Subset
<1>4. IsSample([k \in T |-> Thing(k).took])
  BY <1>1, <1>3 DEF IsSample
<1> QED
  BY <1>2, <1>3, <1>4

\* A verdict is one of three, or another.
LEMMA VerdictsSplit ==
    ASSUME NEW R, IsFiniteSet(R), NEW v
    PROVE  Cardinality(R) = Cardinality({k \in R : v[k] = "success"})
                            + Cardinality({k \in R : v[k] = "failure"})
                            + Cardinality({k \in R : v[k] = "cancelled"})
                            + Cardinality({k \in R : v[k] \notin Verdicts})
<1> DEFINE A == {k \in R : v[k] = "success"}
           B == {k \in R : v[k] = "failure"}
           C == {k \in R : v[k] = "cancelled"}
           D == {k \in R : v[k] \notin Verdicts}
           AB == A \cup B
           CD == C \cup D
<1>1. IsFiniteSet(A) /\ IsFiniteSet(B) /\ IsFiniteSet(C) /\ IsFiniteSet(D)
  BY FS_Subset
<1>2. A \cap B = {} /\ C \cap D = {} /\ AB \cap CD = {} /\ R = AB \cup CD
  BY DEF Verdicts
<1> HIDE DEF A, B, C, D
<1>3. ASSUME NEW S, NEW T, IsFiniteSet(S), IsFiniteSet(T), S \cap T = {}
      PROVE  /\ IsFiniteSet(S \cup T)
             /\ Cardinality(S \cup T) = Cardinality(S) + Cardinality(T)
             /\ Cardinality(S) \in Nat /\ Cardinality(T) \in Nat
  <2>1. Cardinality(S \cup T) = Cardinality(S) + Cardinality(T) - Cardinality(S \cap T)
    BY <1>3, FS_Union
  <2>2. Cardinality(S) \in Nat /\ Cardinality(T) \in Nat /\ Cardinality(S \cap T) = 0
    BY <1>3, FS_CardinalityType, FS_EmptySet
  <2>3. IsFiniteSet(S \cup T)
    BY <1>3, FS_Union
  <2> QED
    BY <2>1, <2>2, <2>3
<1>4. /\ IsFiniteSet(AB) /\ Cardinality(AB) = Cardinality(A) + Cardinality(B)
      /\ Cardinality(A) \in Nat /\ Cardinality(B) \in Nat
  BY <1>1, <1>2, <1>3
<1>5. /\ IsFiniteSet(CD) /\ Cardinality(CD) = Cardinality(C) + Cardinality(D)
      /\ Cardinality(C) \in Nat /\ Cardinality(D) \in Nat
  BY <1>1, <1>2, <1>3
<1>6. Cardinality(AB \cup CD) = Cardinality(AB) + Cardinality(CD)
  <2> HIDE DEF AB, CD
  <2> QED
    BY <1>2, <1>3, <1>4, <1>5
<1>7. Cardinality(R) = Cardinality(AB \cup CD)
  BY <1>2
<1> HIDE DEF AB, CD
<1>8. Cardinality(R) = Cardinality(A) + Cardinality(B) + Cardinality(C) + Cardinality(D)
  BY <1>4, <1>5, <1>6, <1>7
<1> QED
  BY <1>8 DEF A, B, C, D

\* A run is undecided or has one verdict, or one of the others.
LEMMA RunsAddUp ==
    ASSUME TypeOK, RecordedIsFinite, NEW i, NEW w
    PROVE  LET ci == CiStats(i, w)
           IN  /\ ci.total = ci.success + ci.failure + ci.cancelled + ci.other
                              + Cardinality(Undecided(i, w))
               /\ ci.n <= ci.total /\ ci.total <= Cardinality(OfKind(i, w, "workflow_run"))
<1> DEFINE A == OfKind(i, w, "workflow_run")
           R == Concluded(i, w)
           E == Undecided(i, w)
           Q == {k \in R : Thing(k).verdict # Null}
           v == [k \in Q |-> Thing(k).verdict]
<1>1. IsFiniteSet(A)
  BY WindowIsFinite
<1>2. R \subseteq A /\ E \subseteq R /\ Q \subseteq R /\ R = Q \cup E /\ Q \cap E = {}
  BY StatsAssumption DEF Concluded, Undecided
<1>3. /\ IsFiniteSet(R) /\ IsFiniteSet(E) /\ IsFiniteSet(Q)
      /\ Cardinality(R) <= Cardinality(A)
  BY <1>1, <1>2, FS_Subset
<1>4. Cardinality(R) = Cardinality(Q) + Cardinality(E)
  <2>1. Cardinality(Q \cup E) = Cardinality(Q) + Cardinality(E) - Cardinality(Q \cap E)
    BY <1>3, FS_Union
  <2>2. Cardinality(Q) \in Nat /\ Cardinality(E) \in Nat /\ Cardinality(Q \cap E) = 0
    BY <1>2, <1>3, FS_CardinalityType, FS_EmptySet
  <2>3. Cardinality(R) = Cardinality(Q \cup E)
    BY <1>2
  <2> HIDE DEF Q, E, R
  <2> QED
    BY <2>1, <2>2, <2>3
<1>5. Cardinality(DOMAIN Timed(R)) <= Cardinality(R)
  <2>1. DOMAIN Timed(R) \subseteq R
    BY DEF Timed
  <2> HIDE DEF R
  <2> QED
    BY <1>3, <2>1, FS_Subset
<1>6. /\ CiStats(i, w).total = Cardinality(R)
      /\ CiStats(i, w).success = Cardinality({k \in R : Thing(k).verdict = "success"})
      /\ CiStats(i, w).failure = Cardinality({k \in R : Thing(k).verdict = "failure"})
      /\ CiStats(i, w).cancelled = Cardinality({k \in R : Thing(k).verdict = "cancelled"})
      /\ CiStats(i, w).other =
            Cardinality({k \in R : Thing(k).verdict \notin Verdicts \cup {Null}})
      /\ CiStats(i, w).n = Cardinality(DOMAIN Timed(R))
  BY DEF CiStats
<1>7. Null \notin Verdicts
  BY StatsAssumption
<1>8. /\ {k \in R : Thing(k).verdict = "success"} = {k \in Q : v[k] = "success"}
      /\ {k \in R : Thing(k).verdict = "failure"} = {k \in Q : v[k] = "failure"}
      /\ {k \in R : Thing(k).verdict = "cancelled"} = {k \in Q : v[k] = "cancelled"}
      /\ {k \in R : Thing(k).verdict \notin Verdicts \cup {Null}}
            = {k \in Q : v[k] \notin Verdicts}
  <2> HIDE DEF R
  <2> QED
    BY <1>7 DEF Verdicts
<1> HIDE DEF A, R, E, Q, v
<1>9. Cardinality(Q) = Cardinality({k \in Q : v[k] = "success"})
                       + Cardinality({k \in Q : v[k] = "failure"})
                       + Cardinality({k \in Q : v[k] = "cancelled"})
                       + Cardinality({k \in Q : v[k] \notin Verdicts})
  BY <1>3, VerdictsSplit
<1>10. CiStats(i, w).total = CiStats(i, w).success + CiStats(i, w).failure
                             + CiStats(i, w).cancelled + CiStats(i, w).other + Cardinality(E)
  BY <1>4, <1>6, <1>8, <1>9
<1>11. CiStats(i, w).n <= CiStats(i, w).total /\ CiStats(i, w).total <= Cardinality(A)
  BY <1>3, <1>5, <1>6
<1> QED
  BY <1>10, <1>11 DEF A, E

LEMMA SizedAreMerged ==
    ASSUME TypeOK, RecordedIsFinite, NEW i, NEW w
    PROVE  PrSizes(i, w).n <= Cardinality(OfKind(i, w, "pull_request_merged"))
<1> DEFINE M == OfKind(i, w, "pull_request_merged")
           S == {k \in M : happened[k].full}
<1>1. IsFiniteSet(M) /\ S \subseteq M
  BY WindowIsFinite
<1>2. PrSizes(i, w).n = Cardinality(S)
  BY DEF PrSizes
<1> HIDE DEF M
<1>3. Cardinality(S) <= Cardinality(M)
  BY <1>1, FS_Subset
<1> QED
  BY <1>2, <1>3 DEF M

\* A day of the week counted from a Monday.
LEMMA MondayFirst ==
    ASSUME NEW x \in Int
    PROVE  /\ (((x + 4) % 7) + 6) % 7 = (x + 3) % 7
           /\ (x + 3) % 7 \in 0..6
OBVIOUS

LEMMA CellIsWeekday ==
    ASSUME NEW t \in Int
    PROVE  /\ Cell(t) \in (0..6) \X (0..23)
           /\ Cell(t)[1] = (((t + Ahead) \div 24) + 3) % 7
<1>1. t + Ahead \in Int
  BY StatsAssumption
<1> PICK u : u = t + Ahead
  OBVIOUS
<1>2. u \div 24 \in Int /\ u % 24 \in 0..23
  BY <1>1
<1>3. PICK x \in Int : x = u \div 24
  BY <1>2
<1>4. Cell(t) = <<(((x + 4) % 7) + 6) % 7, u % 24>>
  BY <1>3 DEF Cell, Sundays
<1>5. (((x + 4) % 7) + 6) % 7 = (x + 3) % 7 /\ (x + 3) % 7 \in 0..6
  BY MondayFirst
<1> QED
  BY <1>2, <1>3, <1>4, <1>5

\* Every event is in one cell.
LEMMA MapAddsUp ==
    ASSUME TypeOK, RecordedIsFinite, NEW i, NEW w
    PROVE  Total(Heatmap(i, w), Filled(Heatmap(i, w))) = Cardinality(InWindow(i, w))
<1> DEFINE A == InWindow(i, w)
           D == (0..6) \X (0..23)
           cell == [k \in A |-> Cell(Thing(k).hour)]
           c == [d \in D |-> Cardinality({k \in A : cell[k] = d})]
<1>1. IsFiniteSet(A) /\ \A k \in A : cell[k] \in D
  BY WindowIsFinite, CellIsWeekday
<1>2. IsFiniteSet(D)
  <2>3. ASSUME NEW m \in Nat PROVE IsFiniteSet(0..m)
    BY FS_Interval
  <2>1. IsFiniteSet(0..6) /\ IsFiniteSet(0..23)
    BY <2>3
  <2>2. ASSUME NEW S, NEW T, IsFiniteSet(S), IsFiniteSet(T) PROVE IsFiniteSet(S \X T)
    BY <2>2, FS_Product
  <2> QED
    BY <2>1, <2>2
<1>3. Heatmap(i, w) = c
  BY DEF Heatmap
<1>4. \A d : Cardinality({k \in A : cell[k] = d}) \in Int
  <2> HIDE DEF A, cell
  <2>1. ASSUME NEW d PROVE Cardinality({k \in A : cell[k] = d}) \in Int
    <3>1. IsFiniteSet({k \in A : cell[k] = d})
      BY <1>1, FS_Subset
    <3>2. Cardinality({k \in A : cell[k] = d}) \in Nat
      BY <3>1, FS_CardinalityType
    <3> QED
      BY <3>2
  <2> QED
    BY <2>1
<1> HIDE DEF A, D, cell
<1>5. c \in [D -> Int] /\ DOMAIN c = D /\ \A d \in D : c[d] = Cardinality({k \in A : cell[k] = d})
  BY <1>4
<1> HIDE DEF c
<1> DEFINE K == {d \in D : c[d] # 0}
<1>6. ASSUME NEW a \in A PROVE cell[a] \in K
  <2>1. PICK S : S = {k \in A : cell[k] = cell[a]}
    OBVIOUS
  <2>2. IsFiniteSet(S) /\ S # {}
    BY <1>1, <2>1, FS_Subset
  <2>3. Cardinality(S) # 0
    BY <2>2, FS_EmptySet
  <2> QED
    BY <1>1, <1>5, <2>1, <2>3
<1>7. K \in SUBSET D /\ CountsBy(c, K, A, cell) /\ {k \in A : cell[k] \in K} = A
  BY <1>5, <1>6 DEF CountsBy
<1>8. Filled(Heatmap(i, w)) = K
  BY <1>3, <1>5 DEF Filled
<1> HIDE DEF K
<1>9. Total(c, K) = Cardinality({k \in A : cell[k] \in K})
  BY <1>1, <1>2, <1>5, <1>7, TotalOfFibres
<1> QED
  BY <1>3, <1>7, <1>8, <1>9 DEF A

-----------------------------------------------------------------------------
(* Who has merged *)

\* The most that up to m of those counted in by have together.
Shares(by, m) == {0} \cup {Total(by, s) : s \in UNION {kSubset(j, DOMAIN by) : j \in 0..m}}

\* That is top: some have it, and none have more.
IsTop(top, U, by, m) ==
    /\ top \in Nat
    /\ top = 0 \/ \E s \in SUBSET U : Cardinality(s) <= m /\ top = Total(by, s)
    /\ \A s \in SUBSET U : Cardinality(s) <= m => Total(by, s) <= top

LEMMA TopExists ==
    ASSUME NEW U, IsFiniteSet(U), NEW by \in [U -> Nat], NEW m \in Nat
    PROVE  IsTop(Max(Shares(by, m)), U, by, m)
<1> DEFINE F == UNION {kSubset(j, U) : j \in 0..m}
           g == [s \in F |-> Total(by, s)]
           V == {g[s] : s \in F}
<1>1. \A s : s \in F <=> s \in SUBSET U /\ Cardinality(s) <= m
  <2>1. \A s \in SUBSET U : Cardinality(s) \in Nat
    BY FS_Subset, FS_CardinalityType
  <2> QED
    BY <2>1 DEF kSubset
<1>2. IsFiniteSet(F)
  <2>1. F \in SUBSET (SUBSET U)
    BY <1>1
  <2> HIDE DEF F
  <2> QED
    BY <2>1, FS_SUBSET, FS_Subset
<1>3. Shares(by, m) = {0} \cup V
  BY DEF Shares
<1>4. IsFiniteSet(V)
  <2> HIDE DEF F, g
  <2> QED
    BY <1>2, ImageIsFinite
<1>5. V \subseteq Nat
  <2>1. \A s \in SUBSET U : Total(by, s) \in Nat
    BY TotalOfNaturals
  <2>2. ASSUME NEW s \in F PROVE g[s] \in Nat
    BY <1>1, <2>1
  <2> HIDE DEF F, g
  <2> QED
    BY <2>2
<1> HIDE DEF F
<1>6. V = {Total(by, s) : s \in F}
  OBVIOUS
<1> HIDE DEF V
<1>7. IsFiniteSet({0} \cup V) /\ {0} \cup V \subseteq Nat /\ {0} \cup V # {}
  <2>1. IsFiniteSet({0})
    BY FS_Singleton
  <2>2. IsFiniteSet({0} \cup V)
    BY <1>4, <2>1, FS_Union
  <2> QED
    BY <1>5, <2>2
<1>8. \E a \in {0} \cup V : \A b \in {0} \cup V : b <= a
  BY <1>7, GreatestExists
<1>9. Max({0} \cup V) \in {0} \cup V /\ \A x \in {0} \cup V : Max({0} \cup V) >= x
  <2>1. \E a \in {0} \cup V : \A b \in {0} \cup V : a >= b
    BY <1>7, <1>8
  <2> QED
    BY <2>1 DEF Max
<1>10. \A x \in {0} \cup V : x <= Max({0} \cup V)
  BY <1>7, <1>9
<1> PICK top : top = Max({0} \cup V)
  OBVIOUS
<1>11. top \in Nat
  BY <1>7, <1>9
<1>12. top = 0 \/ \E s \in SUBSET U : Cardinality(s) <= m /\ top = Total(by, s)
  BY <1>1, <1>6, <1>9
<1>13. \A s \in SUBSET U : Cardinality(s) <= m => Total(by, s) <= top
  BY <1>1, <1>6, <1>10
<1> QED
  BY <1>3, <1>11, <1>12, <1>13 DEF IsTop

LEMMA SharesOfKeys ==
    ASSUME NEW A, IsFiniteSet(A), NEW D, IsFiniteSet(D), NEW key, NEW c \in [D -> Int],
           \A d \in D : c[d] = Cardinality({a \in A : key[a] = d}), NEW s \in SUBSET D
    PROVE  Total(c, s) = Cardinality({a \in A : key[a] \in s})
<1>1. CountsBy(c, s, A, key)
  BY DEF CountsBy
<1> QED
  BY <1>1, TotalOfFibres

\* Pairs counted by who is in them.
Tally(by, U, pairs) ==
    U = {c[2] : c \in pairs} /\ \A u \in U : by[u] = Cardinality({c \in pairs : c[2] = u})

LEMMA SharesOfPairs ==
    ASSUME NEW pairs, IsFiniteSet(pairs), NEW U, NEW by \in [U -> Nat], Tally(by, U, pairs)
    PROVE  /\ IsFiniteSet(U)
           /\ \A s \in SUBSET U : Total(by, s) = Cardinality({c \in pairs : c[2] \in s})
<1> DEFINE who == [c \in pairs |-> c[2]]
<1>1. U = {who[c] : c \in pairs}
  BY DEF Tally
<1>2. \A u : {c \in pairs : c[2] = u} = {c \in pairs : who[c] = u}
  OBVIOUS
<1>3. \A s : {c \in pairs : c[2] \in s} = {c \in pairs : who[c] \in s}
  OBVIOUS
<1> HIDE DEF who
<1>4. IsFiniteSet(U)
  <2>1. IsFiniteSet({who[c] : c \in pairs})
    BY ImageIsFinite
  <2> QED
    BY <1>1, <2>1
<1>5. \A u \in U : by[u] = Cardinality({c \in pairs : who[c] = u})
  BY <1>2 DEF Tally
<1>6. by \in [U -> Int]
  OBVIOUS
<1>7. ASSUME NEW s \in SUBSET U
      PROVE  Total(by, s) = Cardinality({c \in pairs : who[c] \in s})
  BY <1>4, <1>5, <1>6, SharesOfKeys
<1> QED
  BY <1>3, <1>4, <1>7

\* One is someone's, more of them have no less, three have all of it when there are no
\* more.
LEMMA TopsFit ==
    ASSUME NEW pairs, IsFiniteSet(pairs), pairs # {}, NEW U, NEW by \in [U -> Nat],
           Tally(by, U, pairs),
           NEW one, one = Max(Shares(by, 1)), NEW three, three = Max(Shares(by, 3)),
           NEW n, n = Cardinality(pairs)
    PROVE  /\ 0 < one /\ one <= three /\ three <= n
           /\ (Cardinality(U) <= 3) = (three = n)
<1> DEFINE Of(s) == {c \in pairs : c[2] \in s}
<1>0. U = {c[2] : c \in pairs}
  BY DEF Tally
<1>1. IsFiniteSet(U)
  BY SharesOfPairs
<1>2. \A s \in SUBSET U : Total(by, s) = Cardinality(Of(s))
  BY SharesOfPairs
<1>3. ASSUME NEW s \in SUBSET U
      PROVE  /\ IsFiniteSet(Of(s)) /\ Cardinality(Of(s)) \in Nat /\ Cardinality(Of(s)) <= n
             /\ (Of(s) # pairs => Cardinality(Of(s)) # n)
  BY FS_Subset, FS_CardinalityType
<1>4. n \in Nat /\ n # 0
  BY FS_CardinalityType, FS_EmptySet
<1>5. IsTop(one, U, by, 1) /\ IsTop(three, U, by, 3)
  BY <1>1, TopExists
<1>6. one \in Nat /\ three \in Nat
  BY <1>5 DEF IsTop
<1>7. /\ one = 0 \/ \E s \in SUBSET U : Cardinality(s) <= 1 /\ one = Total(by, s)
      /\ three = 0 \/ \E s \in SUBSET U : Cardinality(s) <= 3 /\ three = Total(by, s)
      /\ \A s \in SUBSET U : Cardinality(s) <= 1 => Total(by, s) <= one
      /\ \A s \in SUBSET U : Cardinality(s) <= 3 => Total(by, s) <= three
  BY <1>5 DEF IsTop
<1>8. 0 < one
  <2>1. PICK c \in pairs : TRUE
    OBVIOUS
  <2>2. {c[2]} \in SUBSET U /\ Cardinality({c[2]}) <= 1
    <3>1. c[2] \in U
      BY <1>0, <2>1
    <3>2. Cardinality({c[2]}) = 1
      BY FS_Singleton
    <3> QED
      BY <3>1, <3>2
  <2>3. Of({c[2]}) # {}
    OBVIOUS
  <2>4. Cardinality(Of({c[2]})) # 0 /\ Cardinality(Of({c[2]})) \in Nat
    <3>1. IsFiniteSet(Of({c[2]}))
      BY <1>3, <2>2
    <3> HIDE DEF Of
    <3> QED
      BY <2>3, <3>1, FS_EmptySet, FS_CardinalityType
  <2>6. Cardinality(Of({c[2]})) <= one
    BY <1>2, <1>7, <2>2
  <2> HIDE DEF Of
  <2> QED
    BY <1>6, <2>4, <2>6
<1>9. one <= three
  <2>1. CASE one = 0
    BY <1>6, <2>1
  <2>2. ASSUME NEW s \in SUBSET U, Cardinality(s) <= 1, one = Total(by, s) PROVE one <= three
    <3>1. Cardinality(s) \in Nat
      BY <1>1, FS_Subset, FS_CardinalityType
    <3>2. Cardinality(s) <= 3
      BY <2>2, <3>1
    <3> QED
      BY <1>7, <2>2, <3>2
  <2> QED
    BY <1>7, <2>1, <2>2
<1>10. three <= n
  <2>1. CASE three = 0
    BY <1>4, <2>1
  <2>2. ASSUME NEW s \in SUBSET U, three = Total(by, s) PROVE three <= n
    BY <1>2, <1>3, <2>2
  <2> QED
    BY <1>7, <2>1, <2>2
<1>11. Cardinality(U) <= 3 => three = n
  <2>1. Of(U) = pairs
    BY <1>0
  <2>2. Total(by, U) = n
    BY <1>2, <2>1
  <2>3. Cardinality(U) <= 3 => n <= three
    BY <1>7, <2>2
  <2> QED
    BY <1>4, <1>6, <1>10, <2>3
<1>12. three = n => Cardinality(U) <= 3
  <2> SUFFICES ASSUME three = n PROVE Cardinality(U) <= 3
    OBVIOUS
  <2>1. PICK s \in SUBSET U : Cardinality(s) <= 3 /\ three = Total(by, s)
    BY <1>4, <1>7
  <2>2. Of(s) = pairs
    BY <1>2, <1>3, <2>1
  <2>3. s = U
    BY <1>0, <2>2
  <2> QED
    BY <2>1, <2>3
<1> QED
  BY <1>8, <1>9, <1>10, <1>11, <1>12

LEMMA PeopleFit ==
    ASSUME TypeOK, RecordedIsFinite, NEW i, NEW w, Diversity(i, w).top1 # Null
    PROVE  LET people == Diversity(i, w)
           IN  /\ 0 < people.top1 /\ people.top1 <= people.top3 /\ people.top3 <= people.n
               /\ (people.authors <= 3) = (people.top3 = people.n)
<1> DEFINE pairs == {c \in credited : c[3] = "author" /\ c[1] \in OfKind(i, w, "pull_request_merged")}
           by == [u \in {c[2] : c \in pairs} |-> Cardinality({c \in pairs : c[2] = u})]
           n == Cardinality(pairs)
           U == {c[2] : c \in pairs}
<1>1. Diversity(i, w) = [n |-> n, authors |-> Cardinality(DOMAIN by),
                         top1 |-> IF n < MinSample THEN Null ELSE Max(Shares(by, 1)),
                         top3 |-> IF n < MinSample THEN Null ELSE Max(Shares(by, 3))]
  BY DEF Diversity, Shares, Total
<1>2. IsFiniteSet(pairs) /\ pairs \subseteq credited
  BY FS_Subset DEF RecordedIsFinite
<1>3. \A u \in U : by[u] = Cardinality({c \in pairs : c[2] = u})
  OBVIOUS
<1>4. DOMAIN by = U /\ by = [u \in U |-> by[u]]
  OBVIOUS
<1> HIDE DEF pairs, by
<1>5. Tally(by, U, pairs)
  BY <1>3 DEF Tally
<1>6. \A u \in U : by[u] \in Nat
  <2>1. ASSUME NEW u \in U PROVE by[u] \in Nat
    <3>1. IsFiniteSet({c \in pairs : c[2] = u})
      BY <1>2, FS_Subset
    <3>2. Cardinality({c \in pairs : c[2] = u}) \in Nat
      BY <3>1, FS_CardinalityType
    <3>3. by[u] = Cardinality({c \in pairs : c[2] = u})
      BY <1>3
    <3> QED
      BY <3>2, <3>3
  <2> QED
    BY <2>1
<1> HIDE DEF U
<1>7. by \in [U -> Nat]
  BY <1>4, <1>6
<1>8. ~(n < MinSample)
  BY <1>1
<1>9. pairs # {}
  <2>1. Cardinality({}) = 0 /\ MinSample > 0
    BY StatsAssumption, FS_EmptySet
  <2> QED
    BY <1>8, <2>1
<1>10. /\ Diversity(i, w).n = n /\ Diversity(i, w).authors = Cardinality(U)
       /\ Diversity(i, w).top1 = Max(Shares(by, 1)) /\ Diversity(i, w).top3 = Max(Shares(by, 3))
  BY <1>1, <1>4, <1>8
<1> PICK one : one = Max(Shares(by, 1))
  OBVIOUS
<1> PICK three : three = Max(Shares(by, 3))
  OBVIOUS
<1>11. /\ 0 < one /\ one <= three /\ three <= n
       /\ (Cardinality(U) <= 3) = (three = n)
  BY <1>2, <1>5, <1>7, <1>9, TopsFit
<1> QED
  BY <1>10, <1>11

\* The lenses fit together over any rows of their types that are finite.
LEMMA LensesFit == TypeOK /\ RecordedIsFinite => LensesAgree
<1> SUFFICES ASSUME TypeOK, RecordedIsFinite, NEW i \in DOMAIN repo, NEW a \in Asks,
                    Refusal(i, a) = "none"
             PROVE  LensesOfRepo(i, a)
  BY DEF LensesAgree
<1> PICK w : w = WindowAsked(a)
  OBVIOUS
<1> DEFINE merged == OfKind(i, w, "pull_request_merged")
<1>1. /\ GetRepoCiStats(i, a) = CiStats(i, w) /\ GetRepoReviewVelocity(i, a) = ReviewVelocity(i, w)
      /\ GetRepoContributorDiversity(i, a) = Diversity(i, w)
      /\ GetRepoActivityHeatmap(i, a) = Heatmap(i, w) /\ GetRepoPrSizeStats(i, a) = PrSizes(i, w)
  BY DEF GetRepoCiStats, GetRepoReviewVelocity, GetRepoContributorDiversity,
         GetRepoActivityHeatmap, GetRepoPrSizeStats
<1>2. /\ CiStats(i, w).total = CiStats(i, w).success + CiStats(i, w).failure
                               + CiStats(i, w).cancelled + CiStats(i, w).other
                               + Cardinality(Undecided(i, w))
      /\ CiStats(i, w).n <= CiStats(i, w).total
      /\ CiStats(i, w).total <= Cardinality(OfKind(i, w, "workflow_run"))
  BY RunsAddUp
<1>3. PrSizes(i, w).n <= Cardinality(merged)
  BY SizedAreMerged
<1>4. /\ ReviewVelocity(i, w).n <= Cardinality(merged)
      /\ Ordered(ReviewVelocity(i, w).seconds, Timed(merged))
  <2>1. IsSample(Timed(merged)) /\ Cardinality(DOMAIN Timed(merged)) <= Cardinality(merged)
    BY TimedIsSample
  <2>2. /\ ReviewVelocity(i, w).n = Cardinality(DOMAIN Timed(merged))
        /\ ReviewVelocity(i, w).seconds = Triple(Timed(merged))
    BY DEF ReviewVelocity
  <2> HIDE DEF merged
  <2> QED
    BY <2>1, <2>2, TripleIsOrdered
<1>5. Diversity(i, w).top1 # Null =>
         /\ 0 < Diversity(i, w).top1 /\ Diversity(i, w).top1 <= Diversity(i, w).top3
         /\ Diversity(i, w).top3 <= Diversity(i, w).n
         /\ (Diversity(i, w).authors <= 3) = (Diversity(i, w).top3 = Diversity(i, w).n)
  BY PeopleFit
<1>6. MapThenSumSet(LAMBDA c : Heatmap(i, w)[c], Filled(Heatmap(i, w))) = Cardinality(InWindow(i, w))
  <2>1. Total(Heatmap(i, w), Filled(Heatmap(i, w))) = Cardinality(InWindow(i, w))
    BY MapAddsUp
  <2> QED
    BY <2>1 DEF Total
<1>7. \A k \in InWindow(i, w) :
         Cell(Thing(k).hour)[1] = (((Thing(k).hour + Ahead) \div 24) + 3) % 7
  BY WindowIsFinite, CellIsWeekday
<1> HIDE DEF merged
<1> QED
  BY <1>1, <1>2, <1>3, <1>4, <1>5, <1>6, <1>7 DEF LensesOfRepo, merged

-----------------------------------------------------------------------------
\* A statement records one event, and credits it to the finitely many who had a part.
LEMMA RecordsOne ==
    ASSUME RecordedIsFinite, NEW q, RecordThing(q)
    PROVE  RecordedIsFinite'
<1>1. PICK t : t = KeyOf(form[q].thing)
  OBVIOUS
<1>2. DOMAIN happened' = DOMAIN happened \cup {t} /\ credited' = credited
  BY <1>1 DEF RecordThing, With
<1>3. IsFiniteSet(DOMAIN happened \cup {t})
  BY FS_AddElement DEF RecordedIsFinite
<1> QED
  BY <1>2, <1>3 DEF RecordedIsFinite

LEMMA CreditsSome ==
    ASSUME FormsFit, TrackInv, RecordedIsFinite, NEW q \in Requests, CreditThing(q)
    PROVE  RecordedIsFinite'
<1> PICK t : t = form[q].thing
  OBVIOUS
<1> DEFINE A == About[t].actors
           g == [c \in A |-> <<KeyOf(t), c[1], c[2]>>]
           C == {g[c] : c \in A}
<1>1. t \in Things
  BY Mine DEF CreditThing, Is, Tells
<1>2. IsFiniteSet(A)
  BY <1>1, StatsAssumption
<1>3. IsFiniteSet(C)
  <2> HIDE DEF A, g
  <2> QED
    BY <1>2, ImageIsFinite
<1>4. C = {<<KeyOf(t), c[1], c[2]>> : c \in A}
  OBVIOUS
<1>5. credited' = credited \cup C /\ happened' = happened
  BY <1>4 DEF CreditThing
<1> HIDE DEF C
<1>6. IsFiniteSet(credited \cup C)
  BY <1>3, FS_Union DEF RecordedIsFinite
<1> QED
  BY <1>5, <1>6 DEF RecordedIsFinite

LEMMA NextRecords == RowInv /\ TrackInv /\ RecordedIsFinite /\ [Next]_vars => RecordedIsFinite'
<1> SUFFICES ASSUME RowInv, TrackInv, RecordedIsFinite, [Next]_vars PROVE RecordedIsFinite'
  OBVIOUS
<1>1. CASE UNCHANGED <<happened, credited>>
  BY <1>1 DEF RecordedIsFinite
<1>2. ASSUME NEW q \in Unfinished, DeliverySteps(q) PROVE RecordedIsFinite'
  <2>1. \/ RecordThing(q) \/ CreditThing(q) \/ UNCHANGED <<happened, credited>>
    BY <1>2 DEF DeliverySteps, HandlePullRequest, HandlePrReview, HandlePrReviewComment,
         HandleWorkflowRun, HandleDeployment, HandleRelease, FailDelivery, LeaveOrRecord, Leave,
         Record, StoreRepo, UpsertOrg, UpsertRepo, UpsertMetadata, tracked, events
  <2>2. q \in Requests /\ FormsFit
    BY DEF Unfinished, RowInv
  <2> QED
    BY <1>1, <2>1, <2>2, RecordsOne, CreditsSome
<1>3. ASSUME NEW q \in Unfinished, SyncSteps(q) \/ RepoAsks(q) PROVE UNCHANGED <<happened, credited>>
  BY <1>3 DEF SyncSteps, RepoAsks, FindRepo, LookUpSlug, ResolveAtGithub, ProbeRepo, UpsertOrg,
       UpsertRepo, AnswerByName, TriggerSync, tracked, events
<1>4. CASE UNCHANGED vars \/ MoveRepo \/ ScheduledTick \/ FinishTick \/ UNCHANGED tracked
  BY <1>1, <1>4 DEF vars, tracked, events, MoveRepo, ScheduledTick, FinishTick
<1> QED
  BY <1>1, <1>2, <1>3, <1>4 DEF Next, ReposNext

\* The lenses of one repository and one window say things that fit together: a
\* run that has a conclusion is counted once by its verdict, and what the total counts
\* beyond them are the runs whose conclusion is null; no lens counts more than there is,
\* percentiles come in order between the least and the greatest value, the shares of the
\* few who merged most are shares of all of it and are all of it just when there are no
\* more people, every event is in one cell of the heatmap, and its row is the weekday.
THEOREM LensesAlwaysAgree == Spec => []LensesAgree
<1>1. Init => RowInv /\ TrackInv /\ RecordedIsFinite
  BY InitFits, InitTells DEF Init, RecordedIsFinite
<1>2. RowInv /\ TrackInv /\ RecordedIsFinite /\ [Next]_vars
         => (RowInv /\ TrackInv /\ RecordedIsFinite)'
  BY NextFits, NextTells, NextRecords
<1>3. Spec => []RecordedIsFinite
  BY <1>1, <1>2, PTL DEF Spec
<1>4. TypeOK /\ RecordedIsFinite => LensesAgree
  BY LensesFit
<1> QED
  BY <1>3, <1>4, ReposAreTrue, PTL
=============================================================================
