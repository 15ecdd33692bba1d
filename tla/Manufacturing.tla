---------------------------- MODULE Manufacturing ----------------------------
(***************************************************************************)
(* Production runs, their serialised units, end-of-line test reports, the  *)
(* counters of the run and its sign-off summary: store/manufacturing.rs.   *)
(*                                                                         *)
(* Transactions run under READ COMMITTED.  What a transaction has written  *)
(* is seen by the others at its commit, and only the row locks it holds    *)
(* until then; so a transaction here is the step that takes its lock and   *)
(* the step that commits; the counters are updated, and their run locked,  *)
(* on the way to the commit.  Fields that decide nothing, such as a unit's *)
(* status, are left out.  A request is made once.                          *)
(***************************************************************************)
EXTENDS Integers, Sequences, FiniteSets, TLC

CONSTANTS
    Runs, Codes,        \* production runs of a product, run_code values
    Testers,            \* POST /units/{id}/eol requests
    Builders,           \* POST /runs/{id}/units
    Editors,            \* PATCH /runs/{id}, PATCH /units/{id}
    Signers,            \* POST /runs/{id}/eol-summary
    CodeInSerial,       \* serial_format holds {run_code}
    NoCode,             \* ... what stands for it when not
    MaxCount,           \* MAX_UNIT_ALLOC
    Nobody              \* no request

Requests == Testers \cup Builders \cup Editors \cup Signers

Serials == [code : Codes \cup {NoCode}, seq : Nat \ {0}]

\* A request goes to one endpoint; the id of a run is no serial number.
ASSUME ManufacturingAssumption ==
    /\ CodeInSerial \in BOOLEAN /\ MaxCount \in Nat \ {0}
    /\ Nobody \notin Requests /\ NoCode \notin Codes
    /\ Testers \cap (Builders \cup Editors \cup Signers) = {}
    /\ Builders \cap (Editors \cup Signers) = {} /\ Editors \cap Signers = {}
    /\ \A r \in Runs : r \notin Serials

VARIABLES
    run,        \* dp_manufacturing_runs
    unit,       \* dp_product_units by serial_number
    report,     \* dp_eol_test_reports of each unit, in the order of insertion
    summary,    \* dp_run_eol_summary by run
    clock,      \* now() of the next transaction
    pc,         \* where a request is
    test,       \* of a tester: what it reports, the outcome it found
    row,        \* of the others: the row they are about
    version,    \* of an editor: the version of the row when the form was loaded
    counts,     \* of a signer: the counters it has read
    known       \* history: the edits of the row that an editor had seen

rows     == <<run, unit, report, summary>>
formVars == <<version, known>>
local    == <<test, row, formVars, counts>>
vars     == <<rows, clock, pc, local>>

Results == {"pass", "fail"}
Counts  == [built : Nat, passed : Nat, failed : Nat]
NoCounts == [built |-> 0, passed |-> 0, failed |-> 0]

\* The rows, without the fields that decide nothing.
RunRows  == [code : Codes, version : Nat, next : Nat \ {0}, counts : Counts]
UnitRows == [run : DOMAIN run, version : Nat]
Reports  == [at : 0..(clock - 1), result : Results]

\* What a request carries: the test report, with what its transaction has found;
\* of a form, the row and the version it shows.
RecordEolRequests == [unit : Serials, at : Nat, result : Results,
                      prior : Results \cup {"none"}]
RunDto(r)  == [row |-> r, version |-> run[r].version]
UnitDto(s) == [row |-> s, version |-> unit[s].version]

\* A table with the same row at some keys, whether it had one there or not.
PutAll(table, keys, r) ==
    [k \in DOMAIN table \cup keys |-> IF k \in keys THEN r ELSE table[k]]
Put(table, key, r) == PutAll(table, {key}, r)

UnitsOf(r)  == {s \in DOMAIN unit : unit[s].run = r}
InOrder(q) == \A i, j \in DOMAIN q : i < j => q[i].at < q[j].at
IsLatest(q, i) == i \in DOMAIN q /\ \A j \in DOMAIN q : q[j].at <= q[i].at

\* ORDER BY tested_at DESC LIMIT 1.
OutcomeOf(q) == IF q = <<>> THEN "none"
                ELSE q[CHOOSE i \in DOMAIN q : IsLatest(q, i)].result
Outcome(s) == OutcomeOf(report[s])

RunTypes  == /\ DOMAIN run \subseteq Runs
             /\ \A r \in DOMAIN run : run[r] \in RunRows
UnitTypes == /\ DOMAIN unit \subseteq Serials
             /\ \A s \in DOMAIN unit : unit[s] \in UnitRows
ReportTypes == /\ DOMAIN report = DOMAIN unit /\ clock \in Nat
               /\ \A s \in DOMAIN report : report[s] \in Seq(Reports)
SummaryTypes == /\ DOMAIN summary \subseteq DOMAIN run
                /\ \A r \in DOMAIN summary : summary[r] \in Counts

RequestTypes ==
    /\ pc \in [Requests -> {"idle", "waiting", "testing", "allocating", "open",
                            "signing", "done", "stale", "taken", "rejected",
                            "failed"}]
    /\ test \in [Testers -> RecordEolRequests]
    /\ row \in [Requests \ Testers -> Runs \cup Serials \cup {Nobody}]
    /\ version \in [Editors -> Nat] /\ counts \in [Signers -> Counts]
    /\ known \in [Editors -> SUBSET Editors]

TypeOK == RunTypes /\ UnitTypes /\ ReportTypes /\ SummaryTypes /\ RequestTypes

-----------------------------------------------------------------------------
(* Row locks *)

\* SELECT ... FOR UPDATE, held to the end of the transaction.
UnitLocked(s) == \E t \in Testers : pc[t] = "testing" /\ test[t].unit = s
RunLocked(r)  == \E b \in Builders : pc[b] = "allocating" /\ row[b] = r

End(q, how) == pc' = [pc EXCEPT ![q] = how]

\* A version that has passed and a key that exists are both a conflict.
Refuse(q, how) == how \in {"stale", "taken"} /\ End(q, how)

-----------------------------------------------------------------------------
(* Runs *)

\* The unique index on run_code.
CodeIsFree(r, c) == \A o \in DOMAIN run \ {r} : run[o].code # c

NewRun(c) == [code |-> c, version |-> 1, next |-> 1, counts |-> NoCounts]

CreateRun(r) ==
    /\ r \notin DOMAIN run
    /\ \E c \in Codes : CodeIsFree(r, c) /\ run' = Put(run, r, NewRun(c))
    /\ UNCHANGED <<unit, report, summary, clock, pc, local>>

\* What has been written to the row an edit is about.
EditsOf(x) == {e \in Editors : pc[e] = "done" /\ row[e] = x}

\* A form is opened on what a GET answers.
OpenForm(e, dto) ==
    /\ pc[e] = "idle"
    /\ row' = [row EXCEPT ![e] = dto.row]
    /\ version' = [version EXCEPT ![e] = dto.version]
    /\ known' = [known EXCEPT ![e] = EditsOf(dto.row)]
    /\ End(e, "open")
    /\ UNCHANGED <<rows, clock, test, counts>>

\* Of the fields of a run only run_code matters here.
OpenRun(e) == \E r \in DOMAIN run : OpenForm(e, RunDto(r))

\* Mutated forms, here and below, are what a mistake in the code would make of
\* the definition that follows; no behaviour uses them.  Here, the version is not compared.
UpdateRunBlindly(e, c) ==
    /\ CodeIsFree(row[e], c)
    /\ run' = [run EXCEPT ![row[e]].code = c, ![row[e]].version = @ + 1]
    /\ End(e, "done")

\* UPDATE ... WHERE version = $2.
UpdateRun(e, c) ==
    LET r == row[e] IN
    IF run[r].version # version[e] THEN Refuse(e, "stale") /\ UNCHANGED run
    ELSE IF ~CodeIsFree(r, c) THEN Refuse(e, "taken") /\ UNCHANGED run
    ELSE /\ run' = [run EXCEPT ![r].code = c, ![r].version = @ + 1]
         /\ End(e, "done")

PatchRun(e) ==
    /\ pc[e] = "open" /\ row[e] \in Runs /\ ~RunLocked(row[e])
    /\ \E c \in Codes : UpdateRun(e, c)
    /\ UNCHANGED <<unit, report, summary, clock, local>>

-----------------------------------------------------------------------------
(* Units *)

Serial(c, n) == [code |-> IF CodeInSerial THEN c ELSE NoCode, seq |-> n]

\* What POST /runs/{id}/units may ask for.
CountAllowed(n) == n \in 1..MaxCount

\* SELECT ... FOR UPDATE OF r.
LockRun(b) ==
    /\ pc[b] = "idle"
    /\ \E r \in DOMAIN run : ~RunLocked(r) /\ row' = [row EXCEPT ![b] = r]
    /\ End(b, "allocating")
    /\ UNCHANGED <<rows, clock, test, formVars, counts>>

Block(r, n) ==
    {Serial(run[r].code, i) : i \in run[r].next .. (run[r].next + n - 1)}

Reserve(x, n) == [x EXCEPT !.next = @ + n, !.counts.built = @ + n]

\* The reservation, the bulk insert and the commit; a serial that exists
\* undoes all of it.
Insert(b, n) ==
    LET new == Block(row[b], n) IN
    IF new \cap DOMAIN unit # {}
      THEN Refuse(b, "taken") /\ UNCHANGED <<run, unit, report>>
      ELSE /\ run' = [run EXCEPT ![row[b]] = Reserve(@, n)]
           /\ unit' = PutAll(unit, new, [run |-> row[b], version |-> 1])
           /\ report' = PutAll(report, new, <<>>)
           /\ End(b, "done")

\* Mutated: allocation also waits for the units the run has.
CommitUnitsAlone(b) ==
    /\ pc[b] = "allocating" /\ \A s \in UnitsOf(row[b]) : ~UnitLocked(s)
    /\ \E n \in 1..MaxCount : CountAllowed(n) /\ Insert(b, n)
    /\ UNCHANGED <<summary, clock, local>>

CommitUnits(b) ==
    /\ pc[b] = "allocating"
    /\ \E n \in 1..MaxCount : CountAllowed(n) /\ Insert(b, n)
    /\ UNCHANGED <<summary, clock, local>>

OpenUnit(e) == \E s \in DOMAIN unit : OpenForm(e, UnitDto(s))

UpdateUnit(e) ==
    LET s == row[e] IN
    IF unit[s].version = version[e]
      THEN unit' = [unit EXCEPT ![s].version = @ + 1] /\ End(e, "done")
      ELSE Refuse(e, "stale") /\ UNCHANGED unit

PatchUnit(e) ==
    /\ pc[e] = "open" /\ row[e] \notin Runs /\ ~UnitLocked(row[e])
    /\ UpdateUnit(e)
    /\ UNCHANGED <<run, report, summary, clock, local>>

-----------------------------------------------------------------------------
(* End-of-line reports *)

\* BEGIN fixes now(), and with it the tested_at of the report.
RecordEol(t) ==
    /\ pc[t] = "idle"
    /\ \E s \in DOMAIN unit, res \in Results :
          test' = [test EXCEPT ![t] = [unit |-> s, at |-> clock, result |-> res,
                                       prior |-> "none"]]
    /\ clock' = clock + 1
    /\ End(t, "waiting")
    /\ UNCHANGED <<rows, row, formVars, counts>>

\* Mutated: the unit is read without FOR UPDATE.
ReadUnit(t) ==
    /\ pc[t] = "waiting"
    /\ test' = [test EXCEPT ![t].prior = Outcome(test[t].unit)]
    /\ End(t, "testing")
    /\ UNCHANGED <<rows, clock, row, formVars, counts>>

\* Lock the unit, look up its outcome, insert the report.
LockUnit(t) ==
    /\ pc[t] = "waiting" /\ ~UnitLocked(test[t].unit)
    /\ test' = [test EXCEPT ![t].prior = Outcome(test[t].unit)]
    /\ End(t, "testing")
    /\ UNCHANGED <<rows, clock, row, formVars, counts>>

\* What a report does to qty_passed and to qty_failed: a unit moves from the
\* bucket of its former outcome to that of the new one.
Gain(t, res) == (IF test[t].result = res THEN 1 ELSE 0)
                - (IF test[t].prior = res THEN 1 ELSE 0)

Changes(t) == Gain(t, "pass") # 0 \/ Gain(t, "fail") # 0

Passed(t) == run[unit[test[t].unit].run].counts.passed + Gain(t, "pass")
Failed(t) == run[unit[test[t].unit].run].counts.failed + Gain(t, "fail")

\* Mutated: only the CHECK on the sum.
FitsTogether(t) ==
    Passed(t) + Failed(t) <= run[unit[test[t].unit].run].counts.built

\* The CHECKs on the counters.
Fits(t) == /\ Passed(t) >= 0 /\ Failed(t) >= 0
           /\ Passed(t) + Failed(t) <= run[unit[test[t].unit].run].counts.built

Adjust(x, p, f) == [x EXCEPT !.counts.passed = p, !.counts.failed = f]

\* Adjust the counters if need be, which takes the lock of the run; mark the
\* unit tested, which leaves its version alone; commit.
CommitReport(t) ==
    LET s == test[t].unit
        r == unit[s].run
    IN /\ pc[t] = "testing"
       /\ Changes(t) => ~RunLocked(r) /\ Fits(t)
       /\ run' = [run EXCEPT ![r] = Adjust(@, Passed(t), Failed(t))]
       /\ report' = [report EXCEPT ![s] =
                        Append(@, [at |-> test[t].at, result |-> test[t].result])]
       /\ End(t, "done")
       /\ UNCHANGED <<unit, summary, clock, local>>

\* A CHECK fails: the report is not stored.
RejectReport(t) ==
    /\ pc[t] = "testing"
    /\ Changes(t) /\ ~RunLocked(unit[test[t].unit].run) /\ ~Fits(t)
    /\ End(t, "rejected")
    /\ UNCHANGED <<rows, clock, local>>

-----------------------------------------------------------------------------
(* Sign-off *)

\* The two statements of upsert_run_eol_summary: the counters ...
ReadCounters(q, r) == counts' = [counts EXCEPT ![q] = run[r].counts]

SignOff(q) ==
    /\ pc[q] = "idle"
    /\ \E r \in DOMAIN run : row' = [row EXCEPT ![q] = r] /\ ReadCounters(q, r)
    /\ End(q, "signing")
    /\ UNCHANGED <<rows, clock, test, formVars>>

\* ... and the summary, whose foreign key needs the run unlocked when the row
\* is new.
UpsertSummary(q) ==
    LET r == row[q] IN
    /\ pc[q] = "signing"
    /\ r \in DOMAIN summary \/ ~RunLocked(r)
    /\ summary' = Put(summary, r, counts[q])
    /\ End(q, "done")
    /\ UNCHANGED <<run, unit, report, clock, local>>

-----------------------------------------------------------------------------
\* The connection or the process is lost: what is not committed is undone.  A
\* form or a sign-off that goes no further holds no lock; it just stays.
Abort(q) ==
    /\ pc[q] \in {"waiting", "testing", "allocating"}
    /\ End(q, "failed")
    /\ UNCHANGED <<rows, clock, local>>

Init ==
    /\ run = <<>> /\ unit = <<>> /\ report = <<>> /\ summary = <<>>
    /\ clock = 0
    /\ pc = [q \in Requests |-> "idle"]
    /\ test = [t \in Testers |-> [unit |-> Serial(NoCode, 1), at |-> 0,
                                  result |-> "pass", prior |-> "none"]]
    /\ row = [q \in Requests \ Testers |-> Nobody]
    /\ version = [e \in Editors |-> 0]
    /\ counts = [q \in Signers |-> NoCounts]
    /\ known = [e \in Editors |-> {}]

\* What a request that has begun does next.
Begun(q) == pc[q] \in {"waiting", "testing", "allocating", "open", "signing"}
Proceed(q) ==
    \/ q \in Testers  /\ (LockUnit(q) \/ CommitReport(q) \/ RejectReport(q))
    \/ q \in Builders /\ CommitUnits(q)
    \/ q \in Editors  /\ (PatchRun(q) \/ PatchUnit(q))
    \/ q \in Signers  /\ UpsertSummary(q)

Next ==
    \/ \E r \in Runs : CreateRun(r)
    \/ \E t \in Testers : RecordEol(t)
    \/ \E b \in Builders : LockRun(b)
    \/ \E e \in Editors : OpenRun(e) \/ OpenUnit(e)
    \/ \E q \in Signers : SignOff(q)
    \/ \E q \in Requests : Proceed(q) \/ Abort(q)

Spec == Init /\ [][Next]_vars

-----------------------------------------------------------------------------
(* Safety *)

Tested(r) == {s \in UnitsOf(r) : report[s] # <<>>}
WithOutcome(r, res) == {s \in UnitsOf(r) : Outcome(s) = res}

CountersAddUp ==
    \A r \in DOMAIN run :
       /\ run[r].counts.built = Cardinality(UnitsOf(r))
       /\ {s.seq : s \in UnitsOf(r)} = 1..(run[r].next - 1)
       /\ run[r].counts.passed + run[r].counts.failed = Cardinality(Tested(r))
       /\ r \in DOMAIN summary =>
             summary[r].passed + summary[r].failed <= summary[r].built

CountersMatchLatest ==
    \A r \in DOMAIN run :
       (\A s \in UnitsOf(r) : InOrder(report[s])) =>
          /\ run[r].counts.passed = Cardinality(WithOutcome(r, "pass"))
          /\ run[r].counts.failed = Cardinality(WithOutcome(r, "fail"))

\* The counters summarise the rows, whichever allocations, tests and edits meet:
\* built counts the units, which carry the numbers 1, 2, ... without a gap, and a
\* tested unit is in one bucket, not in two and not in none.  What has been signed
\* off adds up likewise.  The bucket is that of the unit's latest outcome, provided
\* that its reports were stored in the order in which their transactions began.
CountersHold == CountersAddUp /\ CountersMatchLatest

\* Of two edits of a row that both went through, the author of one had seen the
\* other: none is overwritten unseen.
EditsAreSerial ==
    \A x \in {row[e] : e \in Editors} : \A d, e \in EditsOf(x) :
       d # e => d \in known[e] \/ e \in known[d]

\* No two requests wait for each other's rows: when one has begun, one can go on.
NoStandstill ==
    (\E q \in Requests : Begun(q)) => \E q \in Requests : ENABLED Proceed(q)
=============================================================================
