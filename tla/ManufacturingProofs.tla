-------------------------- MODULE ManufacturingProofs --------------------------
(***************************************************************************)
(* What the manufacturing tables keep for any number of runs, units and    *)
(* requests.  A request in a transaction knows rows that exist; a tester   *)
(* is alone with its unit, so the outcome it found is still the unit's     *)
(* when it commits; and the units of a run carry the numbers given out so  *)
(* far, each once.  From these the counters follow.                        *)
(***************************************************************************)
EXTENDS Manufacturing, FiniteLemmas, SequenceTheorems

\* What a request is about is there.
RowsAreThere ==
    /\ \A t \in Testers : pc[t] \in {"waiting", "testing"} =>
          test[t].unit \in DOMAIN unit /\ test[t].at < clock
    /\ \A b \in Builders : pc[b] = "allocating" => row[b] \in DOMAIN run
    /\ \A e \in Editors : pc[e] = "open" =>
          IF row[e] \in Runs THEN row[e] \in DOMAIN run ELSE row[e] \in DOMAIN unit
    /\ \A q \in Signers : pc[q] = "signing" => row[q] \in DOMAIN run

TypeInv == TypeOK /\ RowsAreThere

USE ManufacturingAssumption

-----------------------------------------------------------------------------
(* Lemmas about the operators *)

\* What a table holds after rows are put into it.
LEMMA PutFacts ==
    ASSUME NEW f, NEW keys, NEW r
    PROVE  /\ DOMAIN PutAll(f, keys, r) = DOMAIN f \cup keys
           /\ \A k \in keys : PutAll(f, keys, r)[k] = r
           /\ \A k \in DOMAIN f \ keys : PutAll(f, keys, r)[k] = f[k]
BY DEF PutAll

\* Counters that change are counters, and a run with other counters is a run.
LEMMA CountsFacts ==
    ASSUME NEW c \in Counts, NEW n \in Nat
    PROVE  /\ [c EXCEPT !.built = n] \in Counts
           /\ [c EXCEPT !.passed = n] \in Counts
           /\ [c EXCEPT !.failed = n] \in Counts
BY DEF Counts

LEMMA ReservedRow ==
    ASSUME NEW x \in RunRows, NEW n \in Nat
    PROVE  LET y == Reserve(x, n) IN
           /\ y \in RunRows
           /\ y.code = x.code /\ y.version = x.version /\ y.next = x.next + n
           /\ y.counts.built = x.counts.built + n
           /\ y.counts.passed = x.counts.passed /\ y.counts.failed = x.counts.failed
<1> DEFINE d == [x.counts EXCEPT !.built = x.counts.built + n]
           y == Reserve(x, n)
<1>1. x.counts \in Counts /\ x.counts.built + n \in Nat /\ x.next + n \in Nat \ {0}
  BY DEF RunRows, Counts
<1>2. d \in Counts
  BY <1>1, CountsFacts
<1>3. y = [x EXCEPT !.next = x.next + n, !.counts = d]
  BY DEF RunRows, Reserve
<1> HIDE DEF d
<1>4. [x EXCEPT !.next = x.next + n, !.counts = d] \in RunRows
  BY <1>1, <1>2 DEF RunRows
<1>5. /\ y.code = x.code /\ y.version = x.version /\ y.next = x.next + n
      /\ y.counts.built = x.counts.built + n
      /\ y.counts.passed = x.counts.passed /\ y.counts.failed = x.counts.failed
  BY DEF RunRows, Counts, Reserve
<1> QED
  BY <1>3, <1>4, <1>5

LEMMA AdjustedRow ==
    ASSUME NEW x \in RunRows, NEW p, NEW f
    PROVE  LET y == Adjust(x, p, f) IN
           /\ p \in Nat /\ f \in Nat => y \in RunRows
           /\ y.code = x.code /\ y.version = x.version /\ y.next = x.next
           /\ y.counts.built = x.counts.built
           /\ y.counts.passed = p /\ y.counts.failed = f
<1> DEFINE d == [[x.counts EXCEPT !.passed = p] EXCEPT !.failed = f]
           y == Adjust(x, p, f)
<1>1. x.counts \in Counts
  BY DEF RunRows
<1>2. p \in Nat /\ f \in Nat => d \in Counts
  BY <1>1, CountsFacts
<1>3. y = [x EXCEPT !.counts = d]
  BY DEF RunRows, Adjust
<1> HIDE DEF d
<1>4. d \in Counts => [x EXCEPT !.counts = d] \in RunRows
  BY DEF RunRows
<1>5. /\ y.code = x.code /\ y.version = x.version /\ y.next = x.next
      /\ y.counts.built = x.counts.built
      /\ y.counts.passed = p /\ y.counts.failed = f
  BY DEF RunRows, Counts, Adjust
<1> QED
  BY <1>2, <1>3, <1>4, <1>5

\* The reports of a unit.
LEMMA ReportFacts ==
    ASSUME TypeOK, NEW s \in DOMAIN unit
    PROVE  /\ s \in DOMAIN report /\ report[s] \in Seq(Reports) /\ Len(report[s]) \in Nat
           /\ DOMAIN report[s] = 1..Len(report[s])
           /\ report[s] # <<>> => 1 \in DOMAIN report[s]
           /\ \A i \in DOMAIN report[s] : /\ report[s][i].at \in 0..(clock - 1)
                                         /\ report[s][i].result \in Results
<1>1. s \in DOMAIN report /\ report[s] \in Seq(Reports)
  BY DEF TypeOK, ReportTypes
<1>2. Len(report[s]) \in Nat /\ DOMAIN report[s] = 1..Len(report[s])
  BY <1>1, LenProperties
<1>3. report[s] # <<>> => Len(report[s]) # 0
  BY <1>1, EmptySeq
<1>4. \A i \in DOMAIN report[s] : report[s][i] \in Reports
  BY <1>1, <1>2, ElementOfSeq
<1> QED
  BY <1>1, <1>2, <1>3, <1>4 DEF Reports

\* A sequence of reports has a latest one.
LEMMA LatestExists ==
    ASSUME TypeOK, NEW s \in DOMAIN unit, report[s] # <<>>
    PROVE  \E i \in DOMAIN report[s] : IsLatest(report[s], i)
<1> DEFINE T == {report[s][i].at : i \in DOMAIN report[s]}
<1>1. T \subseteq 0..(clock - 1)
  BY ReportFacts
<1>2. T # {}
  <2>1. 1 \in DOMAIN report[s]
    BY ReportFacts
  <2>2. report[s][1].at \in T
    BY <2>1
  <2> QED
    BY <2>2
<1>3. clock \in Nat /\ 0 \in Int /\ clock - 1 \in Int
  BY DEF TypeOK, ReportTypes
<1>4. \E a \in T : \A b \in T : b <= a
  <2> HIDE DEF T
  <2>1. IsFiniteSet(0..(clock - 1))
    BY <1>3, FS_Interval
  <2>2. IsFiniteSet(T)
    BY <1>1, <2>1, FS_Subset
  <2>3. T \subseteq Nat
    BY <1>1
  <2> QED
    BY <1>2, <2>2, <2>3, GreatestExists
<1> QED
  BY <1>4 DEF IsLatest

\* A unit has an outcome exactly if it has been tested.
LEMMA OutcomeFacts ==
    ASSUME TypeOK, NEW s \in DOMAIN unit
    PROVE  /\ Outcome(s) \in Results \cup {"none"}
           /\ Outcome(s) = "none" <=> report[s] = <<>>
<1>2. CASE report[s] = <<>>
  BY <1>2 DEF Outcome, OutcomeOf
<1>3. CASE report[s] # <<>>
  <2> DEFINE i == CHOOSE i \in DOMAIN report[s] : IsLatest(report[s], i)
  <2>1. i \in DOMAIN report[s]
    BY <1>3, LatestExists
  <2>2. Outcome(s) = report[s][i].result
    BY <1>3 DEF Outcome, OutcomeOf
  <2> HIDE DEF i
  <2>3. report[s][i].result \in Results
    BY <2>1, ReportFacts
  <2> QED
    BY <1>3, <2>2, <2>3 DEF Results
<1> QED
  BY <1>2, <1>3

-----------------------------------------------------------------------------
(* What a step writes *)

LEMMA RunWriters ==
    ASSUME [Next]_vars
    PROVE  \/ UNCHANGED run
           \/ \E r \in Runs : CreateRun(r)
           \/ \E t \in Testers : CommitReport(t)
           \/ \E b \in Builders : CommitUnits(b)
           \/ \E e \in Editors : PatchRun(e)
BY DEF Next, Proceed, RecordEol, LockRun, OpenRun, OpenUnit, OpenForm, SignOff, LockUnit,
       RejectReport, PatchUnit, UpsertSummary, Abort, rows, vars

LEMMA UnitWriters ==
    ASSUME [Next]_vars
    PROVE  \/ UNCHANGED unit
           \/ \E b \in Builders : CommitUnits(b)
           \/ \E e \in Editors : PatchUnit(e)
BY DEF Next, Proceed, CreateRun, RecordEol, LockRun, OpenRun, OpenUnit, OpenForm, SignOff,
       LockUnit, CommitReport, RejectReport, PatchRun, UpsertSummary, Abort, rows, vars

LEMMA ReportWriters ==
    ASSUME [Next]_vars
    PROVE  \/ UNCHANGED <<report, clock>>
           \/ \E t \in Testers : RecordEol(t) \/ CommitReport(t)
           \/ \E b \in Builders : CommitUnits(b)
BY DEF Next, Proceed, CreateRun, LockRun, OpenRun, OpenUnit, OpenForm, SignOff,
       LockUnit, RejectReport, PatchRun, PatchUnit, UpsertSummary, Abort, rows, vars

LEMMA SummaryWriters ==
    ASSUME [Next]_vars
    PROVE  \/ UNCHANGED summary
           \/ \E q \in Signers : UpsertSummary(q)
BY DEF Next, Proceed, CreateRun, RecordEol, LockRun, OpenRun, OpenUnit, OpenForm, SignOff,
       LockUnit, CommitReport, RejectReport, CommitUnits, PatchRun, PatchUnit, Abort,
       rows, vars

\* A report moves its unit from one bucket to another; the counters stay numbers:
\* either they are what they were, or they passed the CHECKs.
LEMMA CommitReportFacts ==
    ASSUME TypeInv, NEW t \in Testers, CommitReport(t)
    PROVE  LET s == test[t].unit
               r == unit[s].run
               new == [at |-> test[t].at, result |-> test[t].result]
           IN /\ s \in DOMAIN unit /\ s \in DOMAIN report /\ r \in DOMAIN run
              /\ Gain(t, "pass") \in Int /\ Gain(t, "fail") \in Int
              /\ Passed(t) \in Nat /\ Failed(t) \in Nat
              /\ new \in Reports
              /\ DOMAIN run' = DOMAIN run
              /\ run'[r] \in RunRows
              /\ run'[r].code = run[r].code /\ run'[r].version = run[r].version
              /\ run'[r].next = run[r].next
              /\ run'[r].counts.built = run[r].counts.built
              /\ run'[r].counts.passed = Passed(t) /\ run'[r].counts.failed = Failed(t)
              /\ \A x \in DOMAIN run \ {r} : run'[x] = run[x]
              /\ DOMAIN report' = DOMAIN report
              /\ report'[s] = Append(report[s], new)
              /\ \A x \in DOMAIN report \ {s} : report'[x] = report[x]
<1> DEFINE s == test[t].unit
           r == unit[s].run
           new == [at |-> test[t].at, result |-> test[t].result]
<1>1. s \in DOMAIN unit /\ s \in DOMAIN report /\ r \in DOMAIN run
  BY DEF CommitReport, TypeInv, TypeOK, UnitTypes, ReportTypes, RowsAreThere, UnitRows
<1>2. Gain(t, "pass") \in Int /\ Gain(t, "fail") \in Int
  BY DEF Gain
<1>3. run[r] \in RunRows /\ run[r].counts \in Counts
  BY <1>1 DEF TypeInv, TypeOK, RunTypes, RunRows
<1>4. Passed(t) \in Nat /\ Failed(t) \in Nat
  <2>1. Passed(t) \in Int /\ Failed(t) \in Int
    BY <1>2, <1>3 DEF Passed, Failed, Counts
  <2>2. CASE Changes(t)
    <3>1. Fits(t)
      BY <2>2 DEF CommitReport
    <3> QED
      BY <2>1, <3>1 DEF Fits
  <2>3. CASE ~Changes(t)
    BY <1>3, <2>3 DEF Changes, Passed, Failed, Counts
  <2> QED
    BY <2>2, <2>3
<1>5. new \in Reports
  BY DEF CommitReport, RowsAreThere, TypeInv, TypeOK, ReportTypes, RequestTypes,
     RecordEolRequests, Reports
<1>6. /\ run' = [run EXCEPT ![r] = Adjust(@, Passed(t), Failed(t))]
      /\ report' = [report EXCEPT ![s] = Append(@, new)]
  BY DEF CommitReport
<1> HIDE DEF new
<1>7. /\ DOMAIN report' = DOMAIN report
      /\ report'[s] = Append(report[s], new)
      /\ \A x \in DOMAIN report \ {s} : report'[x] = report[x]
  BY <1>1, <1>6
<1>8. /\ DOMAIN run' = DOMAIN run
      /\ \A x \in DOMAIN run \ {r} : run'[x] = run[x]
  BY <1>1, <1>6
<1>9. run'[r] = Adjust(run[r], Passed(t), Failed(t))
  BY <1>1, <1>6
<1>10. /\ run'[r] \in RunRows
       /\ run'[r].code = run[r].code /\ run'[r].version = run[r].version
       /\ run'[r].next = run[r].next
       /\ run'[r].counts.built = run[r].counts.built
       /\ run'[r].counts.passed = Passed(t) /\ run'[r].counts.failed = Failed(t)
  BY <1>3, <1>4, <1>9, AdjustedRow
<1> QED
  BY <1>1, <1>2, <1>4, <1>5, <1>7, <1>8, <1>10 DEF new

\* An allocation adds a block of units, whose serial numbers are new, and counts
\* them; or it does nothing.
Allocated(r, n) ==
    LET block == Block(r, n) IN
    /\ r \in DOMAIN run /\ n \in Nat \ {0}
    /\ block \subseteq Serials /\ block \cap DOMAIN unit = {}
    /\ DOMAIN run' = DOMAIN run
    /\ run'[r] \in RunRows
    /\ run'[r].code = run[r].code /\ run'[r].version = run[r].version
    /\ run'[r].next = run[r].next + n
    /\ run'[r].counts.built = run[r].counts.built + n
    /\ run'[r].counts.passed = run[r].counts.passed
    /\ run'[r].counts.failed = run[r].counts.failed
    /\ \A x \in DOMAIN run \ {r} : run'[x] = run[x]
    /\ DOMAIN unit' = DOMAIN unit \cup block
    /\ \A s \in block : unit'[s] = [run |-> r, version |-> 1]
    /\ \A s \in DOMAIN unit : unit'[s] = unit[s]
    /\ DOMAIN report' = DOMAIN report \cup block
    /\ \A s \in block : report'[s] = <<>>
    /\ \A s \in DOMAIN report : report'[s] = report[s]

LEMMA CommitUnitsFacts ==
    ASSUME TypeInv, NEW b \in Builders, CommitUnits(b)
    PROVE  UNCHANGED <<run, unit, report>> \/ \E n \in Nat : Allocated(row[b], n)
<1>1. CASE UNCHANGED <<run, unit, report>>
  BY <1>1
<1>2. CASE ~UNCHANGED <<run, unit, report>>
  <2> DEFINE r == row[b]
  <2>1. PICK n \in 1..MaxCount : Insert(b, n)
    BY DEF CommitUnits
  <2> DEFINE block == Block(r, n)
  <2>2. /\ block \cap DOMAIN unit = {}
        /\ run' = [run EXCEPT ![r] = Reserve(@, n)]
        /\ unit' = PutAll(unit, block, [run |-> r, version |-> 1])
        /\ report' = PutAll(report, block, <<>>)
    BY <1>2, <2>1 DEF Insert
  <2>3. r \in DOMAIN run /\ n \in Nat \ {0}
    BY DEF CommitUnits, TypeInv, RowsAreThere
  <2>4. run[r] \in RunRows
    BY <2>3 DEF TypeInv, TypeOK, RunTypes
  <2>5. block \subseteq Serials
    BY <2>3, <2>4 DEF Block, Serial, Serials, RunRows
  <2>6. DOMAIN report = DOMAIN unit
    BY DEF TypeInv, TypeOK, ReportTypes
  <2>7. /\ DOMAIN run' = DOMAIN run
        /\ \A x \in DOMAIN run \ {r} : run'[x] = run[x]
    BY <2>2, <2>3
  <2>8. /\ run'[r] \in RunRows
        /\ run'[r].code = run[r].code /\ run'[r].version = run[r].version
        /\ run'[r].next = run[r].next + n
        /\ run'[r].counts.built = run[r].counts.built + n
        /\ run'[r].counts.passed = run[r].counts.passed
        /\ run'[r].counts.failed = run[r].counts.failed
    <3>1. run'[r] = Reserve(run[r], n)
      BY <2>2, <2>3
    <3> QED
      BY <2>3, <2>4, <3>1, ReservedRow
  <2> HIDE DEF block
  <2>9. /\ DOMAIN unit' = DOMAIN unit \cup block
        /\ \A s \in block : unit'[s] = [run |-> r, version |-> 1]
        /\ \A s \in DOMAIN unit : unit'[s] = unit[s]
    BY <2>2 DEF PutAll
  <2>10. /\ DOMAIN report' = DOMAIN report \cup block
         /\ \A s \in block : report'[s] = <<>>
         /\ \A s \in DOMAIN report : report'[s] = report[s]
    BY <2>2, <2>6 DEF PutAll
  <2>11. Allocated(r, n)
    BY <2>2, <2>3, <2>5, <2>7, <2>8, <2>9, <2>10 DEF Allocated, block
  <2> QED
    BY <2>3, <2>11
<1> QED
  BY <1>1, <1>2

-----------------------------------------------------------------------------
(* Type correctness *)

LEMMA TypeInit == Init => TypeInv
BY DEF Init, TypeInv, TypeOK, RunTypes, UnitTypes, ReportTypes, SummaryTypes, RequestTypes,
       RowsAreThere, Requests, RecordEolRequests, Serials, Serial, Results, Counts, NoCounts

LEMMA RunTypesStep ==
    TypeInv /\ [Next]_vars => RunTypes' /\ DOMAIN run \subseteq DOMAIN run'
<1> DEFINE Goal == RunTypes' /\ DOMAIN run \subseteq DOMAIN run'
<1> SUFFICES ASSUME TypeInv, [Next]_vars PROVE Goal
  OBVIOUS
<1>0. RunTypes
  BY DEF TypeInv, TypeOK
<1>1. CASE UNCHANGED run
  BY <1>0, <1>1 DEF RunTypes
<1>2. ASSUME NEW r \in Runs, CreateRun(r) PROVE Goal
  <2>1. PICK c \in Codes : run' = PutAll(run, {r}, NewRun(c))
    BY <1>2 DEF CreateRun, Put
  <2>2. NewRun(c) \in RunRows
    BY DEF NewRun, RunRows, Counts, NoCounts
  <2>3. /\ DOMAIN run' = DOMAIN run \cup {r}
        /\ run'[r] = NewRun(c)
        /\ \A x \in DOMAIN run \ {r} : run'[x] = run[x]
    BY <2>1 DEF PutAll
  <2> QED
    BY <1>0, <2>2, <2>3 DEF RunTypes
<1>3. ASSUME NEW t \in Testers, CommitReport(t) PROVE Goal
  <2> DEFINE r == unit[test[t].unit].run
  <2>1. /\ r \in DOMAIN run /\ run'[r] \in RunRows
        /\ DOMAIN run' = DOMAIN run
        /\ \A x \in DOMAIN run \ {r} : run'[x] = run[x]
    BY <1>3, CommitReportFacts
  <2> QED
    BY <1>0, <2>1 DEF RunTypes
<1>4. ASSUME NEW b \in Builders, CommitUnits(b) PROVE Goal
  <2>1. ASSUME NEW n \in Nat, Allocated(row[b], n) PROVE Goal
    BY <1>0, <2>1 DEF Allocated, RunTypes
  <2> QED
    BY <1>1, <1>4, <2>1, CommitUnitsFacts
<1>5. ASSUME NEW e \in Editors, PatchRun(e) PROVE Goal
  <2>1. ASSUME NEW c \in Codes,
               run' = [run EXCEPT ![row[e]].code = c, ![row[e]].version = @ + 1]
        PROVE  Goal
    BY <1>0, <2>1 DEF RunTypes, RunRows
  <2> QED
    BY <1>1, <1>5, <2>1 DEF PatchRun, UpdateRun
<1> QED
  BY <1>1, <1>2, <1>3, <1>4, <1>5, RunWriters

LEMMA UnitTypesStep ==
    TypeInv /\ [Next]_vars => UnitTypes' /\ DOMAIN unit \subseteq DOMAIN unit'
<1> DEFINE Goal == UnitTypes' /\ DOMAIN unit \subseteq DOMAIN unit'
<1> SUFFICES ASSUME TypeInv, [Next]_vars PROVE Goal
  OBVIOUS
<1>0. UnitTypes /\ DOMAIN run \subseteq DOMAIN run'
  BY RunTypesStep DEF TypeInv, TypeOK
<1>1. CASE UNCHANGED unit
  BY <1>0, <1>1 DEF UnitTypes, UnitRows
<1>2. ASSUME NEW b \in Builders, CommitUnits(b) PROVE Goal
  <2>1. ASSUME NEW n \in Nat, Allocated(row[b], n) PROVE Goal
    BY <1>0, <2>1 DEF Allocated, UnitTypes, UnitRows
  <2> QED
    BY <1>1, <1>2, <2>1, CommitUnitsFacts
<1>3. ASSUME NEW e \in Editors, PatchUnit(e) PROVE Goal
  <2>1. CASE unit' = [unit EXCEPT ![row[e]].version = @ + 1]
    BY <1>0, <2>1 DEF UnitTypes, UnitRows
  <2> QED
    BY <1>1, <1>3, <2>1 DEF PatchUnit, UpdateUnit
<1> QED
  BY <1>1, <1>2, <1>3, UnitWriters

LEMMA ReportTypesStep ==
    TypeInv /\ [Next]_vars => ReportTypes' /\ clock <= clock'
<1> DEFINE Goal == ReportTypes' /\ clock <= clock'
<1> SUFFICES ASSUME TypeInv, [Next]_vars PROVE Goal
  OBVIOUS
<1>0. ReportTypes /\ clock \in Nat
  BY DEF TypeInv, TypeOK, ReportTypes
<1>1. CASE UNCHANGED <<report, clock>>
  <2>1. \/ UNCHANGED unit
        \/ \E e \in Editors : PatchUnit(e)
        \/ \E b \in Builders : CommitUnits(b)
    BY UnitWriters
  <2>2. ASSUME NEW b \in Builders, CommitUnits(b) PROVE DOMAIN unit' = DOMAIN unit
    <3>1. CASE UNCHANGED unit
      BY <3>1
    <3>2. ASSUME NEW n \in Nat, Allocated(row[b], n) PROVE DOMAIN unit' = DOMAIN unit
      BY <1>0, <1>1, <3>2 DEF Allocated, ReportTypes
    <3> QED
      BY <2>2, <3>1, <3>2, CommitUnitsFacts
  <2>3. ASSUME NEW e \in Editors, PatchUnit(e) PROVE DOMAIN unit' = DOMAIN unit
    BY <2>3 DEF PatchUnit, UpdateUnit
  <2>4. DOMAIN unit' = DOMAIN unit
    BY <2>1, <2>2, <2>3
  <2>5. Reports' = Reports
    BY <1>1 DEF Reports
  <2> QED
    BY <1>0, <1>1, <2>4, <2>5 DEF ReportTypes
<1>2. ASSUME NEW t \in Testers, RecordEol(t) PROVE Goal
  <2>1. clock' = clock + 1 /\ UNCHANGED <<unit, report>>
    BY <1>2 DEF RecordEol, rows
  <2>2. Reports \subseteq Reports'
    BY <1>0, <2>1 DEF Reports
  <2>3. \A s \in DOMAIN report : report[s] \in Seq(Reports')
    BY <1>0, <2>2, SeqMonotonic DEF ReportTypes
  <2> QED
    BY <1>0, <2>1, <2>3 DEF ReportTypes
<1>3. ASSUME NEW t \in Testers, CommitReport(t) PROVE Goal
  <2> DEFINE s == test[t].unit
             new == [at |-> test[t].at, result |-> test[t].result]
  <2>1. /\ s \in DOMAIN report /\ new \in Reports
        /\ DOMAIN report' = DOMAIN report
        /\ report'[s] = Append(report[s], new)
        /\ \A x \in DOMAIN report \ {s} : report'[x] = report[x]
    BY <1>3, CommitReportFacts
  <2>2. UNCHANGED <<unit, clock>>
    BY <1>3 DEF CommitReport
  <2> HIDE DEF s, new
  <2>3. report'[s] \in Seq(Reports)
    BY <1>0, <2>1, AppendProperties DEF ReportTypes
  <2>4. \A x \in DOMAIN report' : report'[x] \in Seq(Reports)
    BY <1>0, <2>1, <2>3 DEF ReportTypes
  <2>5. Reports' = Reports
    BY <2>2 DEF Reports
  <2> QED
    BY <1>0, <2>1, <2>2, <2>4, <2>5 DEF ReportTypes
<1>4. ASSUME NEW b \in Builders, CommitUnits(b) PROVE Goal
  <2>1. UNCHANGED clock
    BY <1>4 DEF CommitUnits
  <2>2. ASSUME NEW n \in Nat, Allocated(row[b], n) PROVE Goal
    <3>1. \A s \in DOMAIN report' : report'[s] \in Seq(Reports)
      <4>1. \A s \in DOMAIN report' :
               IF s \in DOMAIN report THEN report'[s] = report[s] ELSE report'[s] = <<>>
        BY <2>2 DEF Allocated
      <4>2. <<>> \in Seq(Reports)
        BY EmptySeq
      <4> QED
        BY <1>0, <4>1, <4>2 DEF ReportTypes
    <3>2. Reports' = Reports
      BY <2>1 DEF Reports
    <3>3. DOMAIN report' = DOMAIN unit'
      BY <1>0, <2>2 DEF Allocated, ReportTypes
    <3> QED
      BY <1>0, <2>1, <3>1, <3>2, <3>3 DEF ReportTypes
  <2> QED
    BY <1>1, <1>4, <2>1, <2>2, CommitUnitsFacts
<1> QED
  BY <1>1, <1>2, <1>3, <1>4, ReportWriters

LEMMA SummaryTypesStep ==
    TypeInv /\ [Next]_vars => SummaryTypes'
<1> SUFFICES ASSUME TypeInv, [Next]_vars PROVE SummaryTypes'
  OBVIOUS
<1>0. SummaryTypes /\ DOMAIN run \subseteq DOMAIN run'
  BY RunTypesStep DEF TypeInv, TypeOK
<1>1. CASE UNCHANGED summary
  BY <1>0, <1>1 DEF SummaryTypes
<1>2. ASSUME NEW q \in Signers, UpsertSummary(q) PROVE SummaryTypes'
  <2>1. row[q] \in DOMAIN run /\ counts[q] \in Counts
    BY <1>2 DEF UpsertSummary, TypeInv, TypeOK, RequestTypes, RowsAreThere
  <2>2. /\ DOMAIN summary' = DOMAIN summary \cup {row[q]}
        /\ summary'[row[q]] = counts[q]
        /\ \A x \in DOMAIN summary \ {row[q]} : summary'[x] = summary[x]
    BY <1>2 DEF UpsertSummary, Put, PutAll
  <2> QED
    BY <1>0, <2>1, <2>2 DEF SummaryTypes
<1> QED
  BY <1>1, <1>2, SummaryWriters

\* Where a request is, and what it carries.
LEMMA RequestTypesStep ==
    TypeInv /\ [Next]_vars => RequestTypes'
<1> SUFFICES ASSUME TypeInv, [Next]_vars PROVE RequestTypes'
  OBVIOUS
<1>0. RequestTypes
  BY DEF TypeInv, TypeOK
<1>1. CASE UNCHANGED <<pc, local>>
  BY <1>0, <1>1 DEF RequestTypes, local, formVars
<1>2. CASE /\ UNCHANGED local
           /\ \E q \in Requests :
                 \E how \in {"done", "stale", "taken", "rejected", "failed"} : End(q, how)
  BY <1>0, <1>2 DEF RequestTypes, local, formVars, End
<1>3. ASSUME NEW t \in Testers, RecordEol(t) PROVE RequestTypes'
  <2>1. PICK s \in DOMAIN unit, res \in Results :
           test' = [test EXCEPT ![t] = [unit |-> s, at |-> clock, result |-> res,
                                        prior |-> "none"]]
    BY <1>3 DEF RecordEol
  <2>2. [unit |-> s, at |-> clock, result |-> res, prior |-> "none"] \in RecordEolRequests
    BY DEF RecordEolRequests, TypeInv, TypeOK, UnitTypes, ReportTypes
  <2>3. test' \in [Testers -> RecordEolRequests]
    BY <1>0, <2>1, <2>2 DEF RequestTypes
  <2>4. UNCHANGED <<row, formVars, counts>> /\ pc' = [pc EXCEPT ![t] = "waiting"]
    BY <1>3 DEF RecordEol, End
  <2> QED
    BY <1>0, <2>3, <2>4 DEF RequestTypes, formVars
<1>4. ASSUME NEW t \in Testers, LockUnit(t) PROVE RequestTypes'
  <2>1. Outcome(test[t].unit) \in Results \cup {"none"}
    BY <1>4, OutcomeFacts DEF LockUnit, TypeInv, RowsAreThere
  <2>2. test' \in [Testers -> RecordEolRequests]
    BY <1>0, <1>4, <2>1 DEF LockUnit, RequestTypes, RecordEolRequests
  <2>3. UNCHANGED <<row, formVars, counts>> /\ pc' = [pc EXCEPT ![t] = "testing"]
    BY <1>4 DEF LockUnit, End
  <2> QED
    BY <1>0, <2>2, <2>3 DEF RequestTypes, formVars
<1>5. ASSUME NEW b \in Builders, LockRun(b) PROVE RequestTypes'
  <2>1. PICK r \in Runs : row' = [row EXCEPT ![b] = r]
    BY <1>5 DEF LockRun, TypeInv, TypeOK, RunTypes
  <2>2. UNCHANGED <<test, formVars, counts>> /\ pc' = [pc EXCEPT ![b] = "allocating"]
    BY <1>5 DEF LockRun, End
  <2> QED
    BY <1>0, <2>1, <2>2 DEF RequestTypes, formVars
<1>6. ASSUME NEW e \in Editors, OpenRun(e) \/ OpenUnit(e) PROVE RequestTypes'
  <2>1. PICK x \in Runs \cup Serials, v \in Nat : OpenForm(e, [row |-> x, version |-> v])
    BY <1>6 DEF OpenRun, OpenUnit, RunDto, UnitDto, TypeInv, TypeOK, RunTypes, UnitTypes,
       RunRows, UnitRows
  <2>2. /\ UNCHANGED <<test, counts>> /\ pc' = [pc EXCEPT ![e] = "open"]
        /\ row' = [row EXCEPT ![e] = x] /\ version' = [version EXCEPT ![e] = v]
        /\ known' = [known EXCEPT ![e] = EditsOf(x)]
    BY <2>1 DEF OpenForm, End
  <2>3. EditsOf(x) \subseteq Editors
    BY DEF EditsOf
  <2> QED
    BY <1>0, <2>2, <2>3 DEF RequestTypes
<1>7. ASSUME NEW q \in Signers, SignOff(q) PROVE RequestTypes'
  <2>1. PICK r \in DOMAIN run : /\ row' = [row EXCEPT ![q] = r]
                                /\ counts' = [counts EXCEPT ![q] = run[r].counts]
    BY <1>7 DEF SignOff, ReadCounters
  <2>2. UNCHANGED <<test, formVars>> /\ pc' = [pc EXCEPT ![q] = "signing"]
    BY <1>7 DEF SignOff, End
  <2>3. r \in Runs /\ run[r].counts \in Counts
    BY DEF TypeInv, TypeOK, RunTypes, RunRows
  <2> QED
    BY <1>0, <2>1, <2>2, <2>3 DEF RequestTypes, formVars
<1>8. ASSUME NEW q \in Requests, Proceed(q), ~\E t \in Testers : LockUnit(t)
      PROVE  /\ UNCHANGED local
             /\ \E how \in {"done", "stale", "taken", "rejected", "failed"} : End(q, how)
  BY <1>8 DEF Proceed, CommitReport, RejectReport, CommitUnits, Insert, Refuse, PatchRun,
     UpdateRun, PatchUnit, UpdateUnit, UpsertSummary, local, formVars
<1>9. ASSUME NEW q \in Requests, Abort(q) PROVE UNCHANGED local /\ End(q, "failed")
  BY <1>9 DEF Abort
<1>10. ASSUME NEW r \in Runs, CreateRun(r) PROVE UNCHANGED <<pc, local>>
  BY <1>10 DEF CreateRun
<1> QED
  BY <1>1, <1>2, <1>3, <1>4, <1>5, <1>6, <1>7, <1>8, <1>9, <1>10 DEF Next, vars

LEMMA RowsStayThere ==
    TypeInv /\ [Next]_vars => RowsAreThere'
<1> SUFFICES ASSUME TypeInv, [Next]_vars PROVE RowsAreThere'
  OBVIOUS
<1>0. /\ DOMAIN run \subseteq DOMAIN run' /\ DOMAIN unit \subseteq DOMAIN unit'
      /\ clock \in Nat /\ clock' \in Nat /\ clock <= clock'
  BY RunTypesStep, UnitTypesStep, ReportTypesStep DEF TypeInv, TypeOK, ReportTypes
<1>1. RowsAreThere /\ RequestTypes
  BY DEF TypeInv, TypeOK
<1>2. \A t \in Testers : test[t].at \in Nat
  BY <1>1 DEF RequestTypes, RecordEolRequests
<1>3. CASE UNCHANGED <<pc, test, row>>
  BY <1>0, <1>1, <1>2, <1>3 DEF RowsAreThere
<1>4. ASSUME NEW q \in Requests, NEW how \in {"done", "stale", "taken", "rejected", "failed"},
             End(q, how), UNCHANGED <<test, row>>
      PROVE  RowsAreThere'
  <2>1. \A p \in Requests : pc'[p] = how \/ pc'[p] = pc[p]
    BY <1>1, <1>4 DEF End, RequestTypes
  <2> QED
    BY <1>0, <1>1, <1>2, <1>4, <2>1 DEF RowsAreThere, Requests
<1>5. ASSUME NEW t \in Testers, RecordEol(t) PROVE RowsAreThere'
  <2>1. PICK s \in DOMAIN unit, res \in Results :
           test' = [test EXCEPT ![t] = [unit |-> s, at |-> clock, result |-> res,
                                        prior |-> "none"]]
    BY <1>5 DEF RecordEol
  <2>2. UNCHANGED row /\ pc' = [pc EXCEPT ![t] = "waiting"] /\ clock' = clock + 1
    BY <1>5 DEF RecordEol, End
  <2>3. test'[t].unit \in DOMAIN unit /\ test'[t].at = clock
    BY <1>1, <2>1 DEF RequestTypes
  <2>4. \A q \in Testers \ {t} : test'[q] = test[q] /\ pc'[q] = pc[q]
    BY <1>1, <2>1, <2>2 DEF RequestTypes, Requests
  <2>5. \A q \in Requests \ Testers : pc'[q] = pc[q]
    BY <1>1, <2>2 DEF RequestTypes
  <2>6. \A q \in Testers : pc'[q] \in {"waiting", "testing"} =>
           test'[q].unit \in DOMAIN unit' /\ test'[q].at < clock'
    BY <1>0, <1>1, <1>2, <2>2, <2>3, <2>4 DEF RowsAreThere
  <2> QED
    BY <1>0, <1>1, <2>2, <2>5, <2>6 DEF RowsAreThere, Requests
<1>6. ASSUME NEW t \in Testers, LockUnit(t) PROVE RowsAreThere'
  <2>1. /\ pc[t] = "waiting" /\ UNCHANGED row /\ pc' = [pc EXCEPT ![t] = "testing"]
        /\ test' = [test EXCEPT ![t].prior = Outcome(test[t].unit)]
    BY <1>6 DEF LockUnit, End
  <2>2. \A q \in Testers : test'[q].unit = test[q].unit /\ test'[q].at = test[q].at
    BY <1>1, <2>1 DEF RequestTypes, RecordEolRequests
  <2>3. \A q \in Requests \ {t} : pc'[q] = pc[q]
    BY <1>1, <2>1 DEF RequestTypes
  <2>4. \A q \in Testers : pc'[q] \in {"waiting", "testing"} =>
           test'[q].unit \in DOMAIN unit' /\ test'[q].at < clock'
    BY <1>0, <1>1, <1>2, <2>1, <2>2, <2>3 DEF RowsAreThere, Requests
  <2> QED
    BY <1>0, <1>1, <2>1, <2>3, <2>4 DEF RowsAreThere, Requests
<1>7. ASSUME NEW q \in Requests \ Testers, NEW x, UNCHANGED test,
             NEW how \in {"allocating", "open", "signing"},
             row' = [row EXCEPT ![q] = x], pc' = [pc EXCEPT ![q] = how],
             how = "allocating" => q \in Builders /\ x \in DOMAIN run,
             how = "open" => q \in Editors /\ IF x \in Runs THEN x \in DOMAIN run
                                              ELSE x \in DOMAIN unit,
             how = "signing" => q \in Signers /\ x \in DOMAIN run
      PROVE  RowsAreThere'
  <2>1. pc'[q] = how /\ row'[q] = x
    BY <1>1, <1>7 DEF RequestTypes
  <2>2. \A p \in Requests \ {q} : pc'[p] = pc[p] /\ (p \notin Testers => row'[p] = row[p])
    BY <1>1, <1>7 DEF RequestTypes
  <2>3. \A t \in Testers : pc'[t] \in {"waiting", "testing"} =>
           test'[t].unit \in DOMAIN unit' /\ test'[t].at < clock'
    BY <1>0, <1>1, <1>2, <1>7, <2>2 DEF RowsAreThere, Requests
  <2>4. \A b \in Builders : pc'[b] = "allocating" => row'[b] \in DOMAIN run'
    BY <1>0, <1>1, <1>7, <2>1, <2>2 DEF RowsAreThere, Requests
  <2>5. \A e \in Editors : pc'[e] = "open" =>
           IF row'[e] \in Runs THEN row'[e] \in DOMAIN run' ELSE row'[e] \in DOMAIN unit'
    BY <1>0, <1>1, <1>7, <2>1, <2>2 DEF RowsAreThere, Requests
  <2>6. \A p \in Signers : pc'[p] = "signing" => row'[p] \in DOMAIN run'
    BY <1>0, <1>1, <1>7, <2>1, <2>2 DEF RowsAreThere, Requests
  <2> QED
    BY <2>3, <2>4, <2>5, <2>6 DEF RowsAreThere
<1>8. ASSUME NEW b \in Builders, LockRun(b) PROVE RowsAreThere'
  <2>1. \E r \in DOMAIN run : row' = [row EXCEPT ![b] = r]
    BY <1>8 DEF LockRun
  <2>2. UNCHANGED test /\ pc' = [pc EXCEPT ![b] = "allocating"] /\ b \in Requests \ Testers
    BY <1>8 DEF LockRun, End, Requests
  <2> QED
    BY <1>7, <2>1, <2>2
<1>9. ASSUME NEW e \in Editors, OpenRun(e) \/ OpenUnit(e) PROVE RowsAreThere'
  <2>1. PICK x : /\ x \in DOMAIN run \/ x \in DOMAIN unit
                 /\ row' = [row EXCEPT ![e] = x] /\ pc' = [pc EXCEPT ![e] = "open"]
                 /\ UNCHANGED test
    BY <1>9 DEF OpenRun, OpenUnit, OpenForm, RunDto, UnitDto, End
  <2>2. IF x \in Runs THEN x \in DOMAIN run ELSE x \in DOMAIN unit
    BY <2>1 DEF TypeInv, TypeOK, RunTypes, UnitTypes
  <2>3. e \in Requests \ Testers
    BY DEF Requests
  <2> QED
    BY <1>7, <2>1, <2>2, <2>3
<1>10. ASSUME NEW q \in Signers, SignOff(q) PROVE RowsAreThere'
  <2>1. \E r \in DOMAIN run : row' = [row EXCEPT ![q] = r]
    BY <1>10 DEF SignOff
  <2>2. UNCHANGED test /\ pc' = [pc EXCEPT ![q] = "signing"] /\ q \in Requests \ Testers
    BY <1>10 DEF SignOff, End, Requests
  <2> QED
    BY <1>7, <2>1, <2>2
<1>11. ASSUME NEW q \in Requests, Proceed(q), ~\E t \in Testers : LockUnit(t)
       PROVE  /\ UNCHANGED <<test, row>>
              /\ \E how \in {"done", "stale", "taken", "rejected", "failed"} : End(q, how)
  BY <1>11 DEF Proceed, CommitReport, RejectReport, CommitUnits, Insert, Refuse, PatchRun,
     UpdateRun, PatchUnit, UpdateUnit, UpsertSummary, local, formVars
<1>12. ASSUME NEW q \in Requests, Abort(q) PROVE UNCHANGED <<test, row>> /\ End(q, "failed")
  BY <1>12 DEF Abort, local
<1>13. ASSUME NEW r \in Runs, CreateRun(r) PROVE UNCHANGED <<pc, test, row>>
  BY <1>13 DEF CreateRun, local
<1> QED
  BY <1>3, <1>4, <1>5, <1>6, <1>8, <1>9, <1>10, <1>11, <1>12, <1>13 DEF Next, vars, local

LEMMA TypeStep == TypeInv /\ [Next]_vars => TypeInv'
BY RunTypesStep, UnitTypesStep, ReportTypesStep, SummaryTypesStep, RequestTypesStep,
   RowsStayThere DEF TypeInv, TypeOK

LEMMA TypesKept == Spec => []TypeInv
<1> QED
  BY TypeInit, TypeStep, PTL DEF Spec

\* The rows and the requests keep their types, and a report is filed for a unit
\* and a serial number is on a run that exist: the foreign keys of 0053.
THEOREM RowsAreTyped == Spec => []TypeOK
<1>1. TypeInv => TypeOK
  BY DEF TypeInv
<1> QED
  BY <1>1, TypesKept, PTL

-----------------------------------------------------------------------------
(* The counters *)

\* A tester in its transaction is alone with its unit, whose outcome it found.
LocksHold ==
    /\ \A t \in Testers : pc[t] = "testing" => test[t].prior = Outcome(test[t].unit)
    /\ \A t, u \in Testers :
          pc[t] = "testing" /\ pc[u] = "testing" /\ test[t].unit = test[u].unit => t = u

\* The units of a run carry the numbers given out so far, each once.
NumbersHold ==
    \A r \in DOMAIN run :
       /\ run[r].counts.built = run[r].next - 1
       /\ {s.seq : s \in UnitsOf(r)} = 1..(run[r].next - 1)
       /\ \A s, u \in UnitsOf(r) : s.seq = u.seq => s = u

\* A tested unit is in one bucket.
BucketsHold ==
    \A r \in DOMAIN run :
       run[r].counts.passed + run[r].counts.failed = Cardinality(Tested(r))

\* What has been signed off, or is about to be, adds up.
AddsUp(c) == c.passed + c.failed <= c.built
SignedHold == /\ \A r \in DOMAIN summary : AddsUp(summary[r])
              /\ \A q \in Signers : pc[q] = "signing" => AddsUp(counts[q])

CountersInv == /\ TypeInv
               /\ LocksHold /\ NumbersHold /\ BucketsHold /\ CountersMatchLatest
               /\ SignedHold

LEMMA CountersInit == Init => CountersInv
<1> SUFFICES ASSUME Init PROVE CountersInv
  OBVIOUS
<1>1. TypeInv
  BY TypeInit
<1>2. /\ DOMAIN run = {} /\ DOMAIN summary = {}
      /\ \A q \in Requests : pc[q] = "idle"
  BY DEF Init
<1> QED
  BY <1>1, <1>2 DEF CountersInv, LocksHold, NumbersHold, BucketsHold, CountersMatchLatest,
     SignedHold, Requests

\* The reports of a unit change by the commit of one about it.
LEMMA ReportsKept ==
    ASSUME TypeInv, [Next]_vars, NEW s \in DOMAIN unit,
           \A t \in Testers : CommitReport(t) => test[t].unit # s
    PROVE  report'[s] = report[s] /\ Outcome(s)' = Outcome(s)
<1>1. s \in DOMAIN report
  BY DEF TypeInv, TypeOK, ReportTypes
<1>2. UNCHANGED report => report'[s] = report[s]
  OBVIOUS
<1>3. ASSUME NEW t \in Testers, CommitReport(t) PROVE report'[s] = report[s]
  BY <1>1, <1>3, CommitReportFacts
<1>4. ASSUME NEW b \in Builders, CommitUnits(b) PROVE report'[s] = report[s]
  <2>1. ASSUME NEW n \in Nat, Allocated(row[b], n) PROVE report'[s] = report[s]
    BY <1>1, <2>1 DEF Allocated
  <2> QED
    BY <1>4, <2>1, CommitUnitsFacts
<1>5. ASSUME NEW t \in Testers, RecordEol(t) PROVE UNCHANGED report
  BY <1>5 DEF RecordEol, rows
<1>6. report'[s] = report[s]
  BY <1>2, <1>3, <1>4, <1>5, ReportWriters
<1> QED
  BY <1>6 DEF Outcome

\* A tester is in its transaction because it was, or because it locked the unit.
LEMMA InTransaction ==
    ASSUME TypeInv, [Next]_vars, NEW t \in Testers, pc'[t] = "testing"
    PROVE  \/ LockUnit(t)
           \/ pc[t] = "testing" /\ test'[t] = test[t] /\ ~CommitReport(t)
<1>0. /\ DOMAIN pc = Requests /\ DOMAIN test = Testers
      /\ t \in Requests /\ \A q \in Builders \cup Editors \cup Signers : q # t
  BY DEF TypeInv, TypeOK, RequestTypes, Requests
<1>1. CASE pc'[t] = pc[t] /\ test'[t] = test[t]
  <2>1. CommitReport(t) => pc'[t] = "done"
    BY <1>0 DEF CommitReport, End
  <2> QED
    BY <1>1, <2>1
<1>2. ASSUME NEW u \in Testers, RecordEol(u) PROVE pc'[t] = pc[t] /\ test'[t] = test[t]
  BY <1>0, <1>2 DEF RecordEol, End
<1>3. ASSUME NEW u \in Testers, LockUnit(u), ~LockUnit(t)
      PROVE  pc'[t] = pc[t] /\ test'[t] = test[t]
  BY <1>0, <1>3 DEF LockUnit, End
<1>4. ASSUME NEW u \in Testers, CommitReport(u) \/ RejectReport(u)
      PROVE  pc'[t] = pc[t] /\ test'[t] = test[t]
  BY <1>0, <1>4 DEF CommitReport, RejectReport, End, local
<1>5. ASSUME NEW q \in Requests, Abort(q) PROVE pc'[t] = pc[t] /\ test'[t] = test[t]
  BY <1>0, <1>5 DEF Abort, End, local
<1>6. ASSUME NEW q \in Builders \cup Editors \cup Signers,
             \/ LockRun(q) \/ CommitUnits(q) \/ OpenRun(q) \/ OpenUnit(q) \/ PatchRun(q)
             \/ PatchUnit(q) \/ SignOff(q) \/ UpsertSummary(q)
      PROVE  pc'[t] = pc[t] /\ test'[t] = test[t]
  BY <1>0, <1>6 DEF LockRun, CommitUnits, Insert, OpenRun, OpenUnit, OpenForm, PatchRun,
     UpdateRun, PatchUnit, UpdateUnit, SignOff, UpsertSummary, Refuse, End, local
<1>7. ASSUME NEW r \in Runs, CreateRun(r) PROVE pc'[t] = pc[t] /\ test'[t] = test[t]
  BY <1>7 DEF CreateRun, local
<1>8. CASE UNCHANGED vars
  BY <1>1, <1>8 DEF vars, local
<1> QED
  BY <1>1, <1>2, <1>3, <1>4, <1>5, <1>6, <1>7, <1>8 DEF Next, Proceed

LEMMA LocksStep ==
    ASSUME TypeInv, LocksHold, [Next]_vars
    PROVE  LocksHold'
<1>0. DOMAIN pc = Requests /\ test \in [Testers -> RecordEolRequests] /\ Testers \subseteq Requests
  BY DEF TypeInv, TypeOK, RequestTypes, Requests
<1>1. ASSUME NEW t \in Testers, LockUnit(t)
      PROVE  /\ pc[t] = "waiting" /\ UNCHANGED report
             /\ test'[t].unit = test[t].unit /\ test'[t].prior = Outcome(test[t].unit)
             /\ \A u \in Testers : pc[u] = "testing" => test[u].unit # test[t].unit
             /\ \A u \in Testers \ {t} : test'[u] = test[u] /\ pc'[u] = pc[u]
  BY <1>0, <1>1 DEF LockUnit, End, UnitLocked, rows, RecordEolRequests
<1>2. ASSUME NEW t \in Testers, pc'[t] = "testing"
      PROVE  test'[t].prior = OutcomeOf(report'[test'[t].unit])
  <2>1. CASE LockUnit(t)
    BY <1>1, <2>1 DEF Outcome
  <2>2. CASE pc[t] = "testing" /\ test'[t] = test[t] /\ ~CommitReport(t)
    <3>1. test[t].unit \in DOMAIN unit
      BY <2>2 DEF TypeInv, RowsAreThere
    <3>2. \A u \in Testers : CommitReport(u) => test[u].unit # test[t].unit
      BY <2>2 DEF LocksHold, CommitReport
    <3>3. report'[test[t].unit] = report[test[t].unit]
      BY <3>1, <3>2, ReportsKept
    <3> QED
      BY <2>2, <3>3 DEF LocksHold, Outcome
  <2> QED
    BY <1>2, <2>1, <2>2, InTransaction
<1>3. ASSUME NEW t \in Testers, NEW u \in Testers, pc'[t] = "testing", pc'[u] = "testing",
             test'[t].unit = test'[u].unit
      PROVE  t = u
  <2>1. CASE LockUnit(t)
    BY <1>1, <1>3, <2>1
  <2>2. CASE LockUnit(u)
    BY <1>1, <1>3, <2>2
  <2>3. CASE pc[t] = "testing" /\ test'[t] = test[t] /\ pc[u] = "testing" /\ test'[u] = test[u]
    BY <1>3, <2>3 DEF LocksHold
  <2> QED
    BY <1>3, <2>1, <2>2, <2>3, InTransaction
<1> QED
  BY <1>2, <1>3 DEF LocksHold, Outcome

\* The units of a run are as many as it has built.
LEMMA BuiltCountsUnits ==
    ASSUME TypeInv, NumbersHold, NEW r \in DOMAIN run
    PROVE  IsFiniteSet(UnitsOf(r)) /\ Cardinality(UnitsOf(r)) = run[r].counts.built
<1> DEFINE n == run[r].next - 1
           U == UnitsOf(r)
           seq == [s \in U |-> s.seq]
<1>1. n \in Nat /\ run[r].counts.built = n
  BY DEF TypeInv, TypeOK, RunTypes, RunRows, NumbersHold
<1>2. {s.seq : s \in U} = 1..n /\ \A s, u \in U : s.seq = u.seq => s = u
  BY DEF NumbersHold
<1> HIDE DEF n, U
<1>3. seq \in Surjection(U, 1..n) /\ seq \in Injection(U, 1..n)
  BY <1>2 DEF Surjection, Injection, IsInjective
<1>4. IsFiniteSet(1..n) /\ Cardinality(1..n) = n
  BY <1>1, FS_Interval
<1> HIDE DEF seq
<1>5. IsFiniteSet(U) /\ Cardinality(U) = n
  BY <1>3, <1>4, FS_Injection
<1> QED
  BY <1>1, <1>5 DEF U

\* A step files a report, allocates units, or leaves the counters, the numbers,
\* the units and their reports alone.
Still ==
    /\ DOMAIN run \subseteq DOMAIN run'
    /\ \A r \in DOMAIN run : run'[r].counts = run[r].counts /\ run'[r].next = run[r].next
    /\ \A r \in DOMAIN run' \ DOMAIN run : run'[r].counts = NoCounts /\ run'[r].next = 1
    /\ DOMAIN unit' = DOMAIN unit
    /\ \A s \in DOMAIN unit : unit'[s].run = unit[s].run
    /\ UNCHANGED report

LEMMA CounterWriters ==
    ASSUME TypeInv, [Next]_vars
    PROVE  \/ Still
           \/ \E t \in Testers : CommitReport(t)
           \/ \E b \in Builders, n \in Nat : CommitUnits(b) /\ Allocated(row[b], n)
<1>1. ASSUME UNCHANGED <<run, unit, report>> PROVE Still
  BY <1>1 DEF Still
<1>2. ASSUME NEW r \in Runs, CreateRun(r) PROVE Still
  <2>1. PICK c \in Codes : run' = PutAll(run, {r}, NewRun(c))
    BY <1>2 DEF CreateRun, Put
  <2>2. UNCHANGED <<unit, report>> /\ r \notin DOMAIN run
    BY <1>2 DEF CreateRun
  <2> QED
    BY <2>1, <2>2 DEF PutAll, NewRun, Still
<1>3. ASSUME NEW e \in Editors, PatchRun(e) PROVE Still
  <2>1. CASE UNCHANGED run
    BY <1>1, <1>3, <2>1 DEF PatchRun
  <2>2. ASSUME NEW c \in Codes,
               run' = [run EXCEPT ![row[e]].code = c, ![row[e]].version = @ + 1]
        PROVE  Still
    <3>1. UNCHANGED <<unit, report>> /\ \A r \in DOMAIN run : run[r] \in RunRows
      BY <1>3 DEF PatchRun, TypeInv, TypeOK, RunTypes
    <3> QED
      BY <2>2, <3>1 DEF Still, RunRows
  <2> QED
    BY <1>3, <2>1, <2>2 DEF PatchRun, UpdateRun
<1>4. ASSUME NEW e \in Editors, PatchUnit(e) PROVE Still
  <2>1. CASE UNCHANGED unit
    BY <1>1, <1>4, <2>1 DEF PatchUnit
  <2>2. CASE unit' = [unit EXCEPT ![row[e]].version = @ + 1]
    <3>1. UNCHANGED <<run, report>> /\ \A s \in DOMAIN unit : unit[s] \in UnitRows
      BY <1>4 DEF PatchUnit, TypeInv, TypeOK, UnitTypes
    <3> QED
      BY <2>2, <3>1 DEF Still, UnitRows
  <2> QED
    BY <1>4, <2>1, <2>2 DEF PatchUnit, UpdateUnit
<1>5. ASSUME NEW b \in Builders, CommitUnits(b)
      PROVE  Still \/ \E n \in Nat : Allocated(row[b], n)
  BY <1>1, <1>5, CommitUnitsFacts
<1>6. \/ UNCHANGED <<run, unit, report>>
      \/ \E r \in Runs : CreateRun(r)
      \/ \E t \in Testers : CommitReport(t)
      \/ \E b \in Builders : CommitUnits(b)
      \/ \E e \in Editors : PatchRun(e) \/ PatchUnit(e)
  <2>1. ASSUME NEW t \in Testers, RecordEol(t) PROVE UNCHANGED <<run, unit, report>>
    BY <2>1 DEF RecordEol, rows
  <2> QED
    BY <2>1, RunWriters, UnitWriters, ReportWriters
<1> QED
  BY <1>1, <1>2, <1>3, <1>4, <1>5, <1>6

\* What the three do to the units of a run.
LEMMA UnitsStill ==
    ASSUME TypeInv, Still, NEW r \in DOMAIN run'
    PROVE  /\ r \in DOMAIN run => UnitsOf(r)' = UnitsOf(r)
           /\ r \notin DOMAIN run => UnitsOf(r)' = {}
<1>1. UnitsOf(r)' = UnitsOf(r)
  BY DEF UnitsOf, Still
<1>2. r \notin DOMAIN run => UnitsOf(r) = {}
  BY DEF UnitsOf, TypeInv, TypeOK, UnitTypes, UnitRows
<1> QED
  BY <1>1, <1>2

LEMMA UnitsAllocated ==
    ASSUME TypeInv, NEW r, NEW n \in Nat, Allocated(r, n), NEW x \in DOMAIN run
    PROVE  UnitsOf(x)' = IF x = r THEN UnitsOf(x) \cup Block(r, n) ELSE UnitsOf(x)
<1> DEFINE block == Block(r, n)
<1>1. /\ DOMAIN unit' = DOMAIN unit \cup block
      /\ \A s \in block : unit'[s].run = r /\ s \notin DOMAIN unit
      /\ \A s \in DOMAIN unit : unit'[s] = unit[s]
  BY DEF Allocated
<1> HIDE DEF block
<1>2. UnitsOf(x)' = {s \in DOMAIN unit' : unit'[s].run = x}
  BY DEF UnitsOf
<1>3. UnitsOf(x) = {s \in DOMAIN unit : unit[s].run = x}
  BY DEF UnitsOf
<1> QED
  BY <1>1, <1>2, <1>3 DEF block

LEMMA NumbersStep ==
    ASSUME TypeInv, NumbersHold, [Next]_vars
    PROVE  NumbersHold'
<1> DEFINE Holds(r) == /\ run'[r].counts.built = run'[r].next - 1
                       /\ {s.seq : s \in UnitsOf(r)'} = 1..(run'[r].next - 1)
                       /\ \A s, u \in UnitsOf(r)' : s.seq = u.seq => s = u
<1>0. \A r \in DOMAIN run : run[r].next \in Nat \ {0} /\ run[r].counts.built \in Nat
  BY DEF TypeInv, TypeOK, RunTypes, RunRows, Counts
<1>1. ASSUME Still, NEW r \in DOMAIN run' PROVE Holds(r)
  <2>1. CASE r \in DOMAIN run
    BY <1>1, <2>1, UnitsStill DEF Still, NumbersHold
  <2>2. CASE r \notin DOMAIN run
    <3>1. UnitsOf(r)' = {} /\ run'[r].counts = NoCounts /\ run'[r].next = 1
      BY <1>1, <2>2, UnitsStill DEF Still
    <3> QED
      BY <3>1 DEF NoCounts
  <2> QED
    BY <2>1, <2>2
<1>2. ASSUME NEW t \in Testers, CommitReport(t), NEW r \in DOMAIN run' PROVE Holds(r)
  <2>1. UNCHANGED unit
    BY <1>2 DEF CommitReport
  <2>2. UnitsOf(r)' = UnitsOf(r)
    BY <2>1 DEF UnitsOf
  <2>3. r \in DOMAIN run /\ run'[r].counts.built = run[r].counts.built
        /\ run'[r].next = run[r].next
    BY <1>2, CommitReportFacts
  <2> QED
    BY <2>2, <2>3 DEF NumbersHold
<1>3. ASSUME NEW q, NEW n \in Nat, Allocated(q, n), NEW r \in DOMAIN run' PROVE Holds(r)
  <2>0. DOMAIN run' = DOMAIN run /\ q \in DOMAIN run /\ n \in Nat \ {0}
    BY <1>3 DEF Allocated
  <2>1. CASE r # q
    <3>1. r \in DOMAIN run /\ UnitsOf(r)' = UnitsOf(r)
      BY <1>3, <2>0, <2>1, UnitsAllocated
    <3>2. run'[r] = run[r]
      BY <1>3, <2>1, <3>1 DEF Allocated
    <3> QED
      BY <3>1, <3>2 DEF NumbersHold
  <2>2. CASE r = q
    <3> DEFINE next == run[r].next
               block == Block(r, n)
    <3>1. UnitsOf(r)' = UnitsOf(r) \cup block
      BY <1>3, <2>0, <2>2, UnitsAllocated
    <3>2. run'[r].next = next + n /\ run'[r].counts.built = run[r].counts.built + n
      BY <1>3, <2>2 DEF Allocated
    <3>3. /\ \A s \in block : s.seq \in next..(next + n - 1)
          /\ \A i \in next..(next + n - 1) : \E s \in block : s.seq = i
          /\ \A s, u \in block : s.seq = u.seq => s = u
      <4>1. block = {Serial(run[r].code, i) : i \in next..(next + n - 1)}
        BY DEF Block
      <4>2. \A i : Serial(run[r].code, i).seq = i
        BY DEF Serial
      <4> DEFINE N == next..(next + n - 1)
                 ser(i) == Serial(run[r].code, i)
      <4> HIDE DEF next, block, N, ser
      <4>3. block = {ser(i) : i \in N} /\ \A i : ser(i).seq = i
        BY <4>1, <4>2 DEF N, ser
      <4>4. \A s \in block : \E i \in N : s = ser(i)
        BY <4>3
      <4>5. \A i \in N : ser(i) \in block
        BY <4>3
      <4>6. /\ \A s \in block : s.seq \in N
            /\ \A i \in N : \E s \in block : s.seq = i
            /\ \A s, u \in block : s.seq = u.seq => s = u
        BY <4>3, <4>4, <4>5
      <4> QED
        BY <4>6 DEF N
    <3>4. /\ \A s \in UnitsOf(r) : s.seq \in 1..(next - 1)
          /\ \A i \in 1..(next - 1) : \E s \in UnitsOf(r) : s.seq = i
          /\ \A s, u \in UnitsOf(r) : s.seq = u.seq => s = u
          /\ run[r].counts.built = next - 1
      BY <2>0, <2>2 DEF NumbersHold
    <3>5. next \in Nat \ {0}
      BY <1>0, <2>0, <2>2
    <3> HIDE DEF next, block
    <3>6. run'[r].counts.built = run'[r].next - 1
      BY <3>2, <3>4, <3>5
    <3>7. \A s \in UnitsOf(r)' : s.seq \in 1..(next + n - 1)
      BY <3>1, <3>3, <3>4, <3>5
    <3>8. \A i \in 1..(next + n - 1) : \E s \in UnitsOf(r)' : s.seq = i
      BY <3>1, <3>3, <3>4, <3>5
    <3>9. \A s, u \in UnitsOf(r)' : s.seq = u.seq => s = u
      BY <3>1, <3>3, <3>4, <3>5
    <3>10. run'[r].next - 1 = next + n - 1
      BY <3>2, <3>5
    <3>11. {s.seq : s \in UnitsOf(r)'} = 1..(run'[r].next - 1)
      BY <3>7, <3>8, <3>10
    <3> QED
      BY <3>6, <3>9, <3>11
  <2> QED
    BY <2>1, <2>2
<1>4. \A r \in DOMAIN run' : Holds(r)
  BY <1>1, <1>2, <1>3, CounterWriters
<1> QED
  BY <1>4 DEF NumbersHold

\* Where a report goes: the buckets of its unit, before and after.
LEMMA ReportFiled ==
    ASSUME TypeInv, LocksHold, NEW t \in Testers, CommitReport(t)
    PROVE  LET s == test[t].unit IN
           /\ test[t].prior = Outcome(s)
           /\ test[t].prior = "none" <=> report[s] = <<>>
           /\ report'[s] # <<>>
           /\ Gain(t, "pass") + Gain(t, "fail") = IF report[s] = <<>> THEN 1 ELSE 0
           /\ \A x : UnitsOf(x)' = UnitsOf(x)
           /\ \A x : s \in UnitsOf(x) <=> x = unit[s].run
<1> DEFINE s == test[t].unit
           new == [at |-> test[t].at, result |-> test[t].result]
<1>1. /\ s \in DOMAIN unit /\ s \in DOMAIN report /\ new \in Reports
      /\ report'[s] = Append(report[s], new)
  BY CommitReportFacts
<1>2. test[t].prior = Outcome(s)
  BY DEF CommitReport, LocksHold
<1>3. /\ Outcome(s) \in Results \cup {"none"}
      /\ Outcome(s) = "none" <=> report[s] = <<>>
  BY <1>1, OutcomeFacts DEF TypeInv
<1>4. report[s] \in Seq(Reports)
  BY <1>1 DEF TypeInv, TypeOK, ReportTypes
<1> HIDE DEF new
<1>5. report'[s] # <<>>
  BY <1>1, <1>4, AppendProperties, EmptySeq
<1>6. test[t].result \in Results
  BY DEF TypeInv, TypeOK, RequestTypes, RecordEolRequests
<1>7. Gain(t, "pass") + Gain(t, "fail") = IF report[s] = <<>> THEN 1 ELSE 0
  <2>1. test[t].prior \in {"pass", "fail"} => Gain(t, "pass") + Gain(t, "fail") = 0
    BY <1>6 DEF Gain, Results
  <2>2. test[t].prior = "none" => Gain(t, "pass") + Gain(t, "fail") = 1
    BY <1>6 DEF Gain, Results
  <2> QED
    BY <1>2, <1>3, <2>1, <2>2 DEF Results
<1>8. UNCHANGED unit
  BY DEF CommitReport
<1>9. \A x : UnitsOf(x)' = UnitsOf(x)
  BY <1>8 DEF UnitsOf
<1>10. \A x : s \in UnitsOf(x) <=> x = unit[s].run
  BY <1>1 DEF UnitsOf
<1> QED
  BY <1>2, <1>3, <1>5, <1>7, <1>9, <1>10

LEMMA TestedIsFinite ==
    ASSUME TypeInv, NumbersHold, NEW r \in DOMAIN run
    PROVE  /\ IsFiniteSet(Tested(r)) /\ Cardinality(Tested(r)) \in Nat
           /\ Cardinality(Tested(r)) <= run[r].counts.built
<1>1. Tested(r) \subseteq UnitsOf(r)
  BY DEF Tested
<1> QED
  BY <1>1, BuiltCountsUnits, FS_Subset, FS_CardinalityType

\* Units that have just been made have no report, and the others keep theirs.
LEMMA AllocatedReports ==
    ASSUME TypeInv, NEW q, NEW n \in Nat, Allocated(q, n), NEW r \in DOMAIN run
    PROVE  /\ \A s \in UnitsOf(r) : s \in UnitsOf(r)' /\ report'[s] = report[s]
           /\ \A s \in UnitsOf(r)' \ UnitsOf(r) : report'[s] = <<>>
           /\ run'[r].counts.passed = run[r].counts.passed
           /\ run'[r].counts.failed = run[r].counts.failed
<1>1. \A s \in UnitsOf(r) : s \in DOMAIN report
  BY DEF UnitsOf, TypeInv, TypeOK, ReportTypes
<1>2. UnitsOf(r)' = IF r = q THEN UnitsOf(r) \cup Block(q, n) ELSE UnitsOf(r)
  BY UnitsAllocated
<1>3. /\ \A s \in Block(q, n) : report'[s] = <<>>
      /\ \A s \in DOMAIN report : report'[s] = report[s]
      /\ run'[r].counts.passed = run[r].counts.passed
      /\ run'[r].counts.failed = run[r].counts.failed
  BY DEF Allocated
<1> QED
  BY <1>1, <1>2, <1>3

LEMMA BucketsStep ==
    ASSUME TypeInv, LocksHold, NumbersHold, BucketsHold, [Next]_vars
    PROVE  BucketsHold'
<1> DEFINE Holds(r) == run'[r].counts.passed + run'[r].counts.failed = Cardinality(Tested(r)')
<1>1. ASSUME Still, NEW r \in DOMAIN run' PROVE Holds(r)
  <2>1. CASE r \in DOMAIN run
    <3>1. UnitsOf(r)' = UnitsOf(r) /\ report' = report /\ run'[r].counts = run[r].counts
      BY <1>1, <2>1, UnitsStill DEF Still
    <3>2. Tested(r)' = Tested(r)
      BY <3>1 DEF Tested
    <3> QED
      BY <2>1, <3>1, <3>2 DEF BucketsHold
  <2>2. CASE r \notin DOMAIN run
    <3>1. UnitsOf(r)' = {} /\ run'[r].counts = NoCounts
      BY <1>1, <2>2, UnitsStill DEF Still
    <3>2. Tested(r)' = {}
      BY <3>1 DEF Tested
    <3> QED
      BY <3>1, <3>2, FS_EmptySet DEF NoCounts
  <2> QED
    BY <2>1, <2>2
<1>2. ASSUME NEW t \in Testers, CommitReport(t), NEW r \in DOMAIN run' PROVE Holds(r)
  <2> DEFINE s == test[t].unit
  <2>1. /\ r \in DOMAIN run /\ s \in DOMAIN report
        /\ \A x \in DOMAIN report \ {s} : report'[x] = report[x]
        /\ Gain(t, "pass") \in Int /\ Gain(t, "fail") \in Int
    BY <1>2, CommitReportFacts
  <2>2. /\ report'[s] # <<>> /\ UnitsOf(r)' = UnitsOf(r)
        /\ Gain(t, "pass") + Gain(t, "fail") = IF report[s] = <<>> THEN 1 ELSE 0
        /\ s \in UnitsOf(r) <=> r = unit[s].run
    BY <1>2, ReportFiled
  <2>3. \A x \in UnitsOf(r) : x \in DOMAIN report
    BY DEF UnitsOf, TypeInv, TypeOK, ReportTypes
  <2>4. Tested(r)' = {x \in UnitsOf(r)' : report'[x] # <<>>}
    BY DEF Tested
  <2>5. IsFiniteSet(Tested(r)) /\ Cardinality(Tested(r)) \in Nat
    BY <2>1, TestedIsFinite
  <2>6. /\ run[r].counts.passed \in Nat /\ run[r].counts.failed \in Nat
        /\ run[r].counts.passed + run[r].counts.failed = Cardinality(Tested(r))
    BY <2>1 DEF TypeInv, TypeOK, RunTypes, RunRows, Counts, BucketsHold
  <2>7. CASE r = unit[s].run
    <3>1. Tested(r)' = Tested(r) \cup {s}
      BY <2>1, <2>2, <2>3, <2>4, <2>7 DEF Tested
    <3>2. s \in Tested(r) <=> report[s] # <<>>
      BY <2>2, <2>7 DEF Tested
    <3>3. Cardinality(Tested(r)') = Cardinality(Tested(r)) + (IF report[s] = <<>> THEN 1 ELSE 0)
      <4> HIDE DEF s
      <4>1. Cardinality(Tested(r) \cup {s})
               = IF s \in Tested(r) THEN Cardinality(Tested(r)) ELSE Cardinality(Tested(r)) + 1
        BY <2>5, FS_AddElement
      <4>2. CASE report[s] = <<>>
        BY <3>1, <3>2, <4>1, <4>2
      <4>3. CASE report[s] # <<>>
        BY <2>5, <3>1, <3>2, <4>1, <4>3
      <4> QED
        BY <4>2, <4>3
    <3>4. /\ run'[r].counts.passed = Passed(t) /\ run'[r].counts.failed = Failed(t)
          /\ Passed(t) = run[r].counts.passed + Gain(t, "pass")
          /\ Failed(t) = run[r].counts.failed + Gain(t, "fail")
      BY <1>2, <2>7, CommitReportFacts DEF Passed, Failed
    <3>5. PICK c, d, p, f, e : /\ c = Cardinality(Tested(r)) /\ d = Cardinality(Tested(r)')
                               /\ p = Gain(t, "pass") /\ f = Gain(t, "fail")
                               /\ e = IF report[s] = <<>> THEN 1 ELSE 0
      OBVIOUS
    <3>6. c \in Nat /\ p \in Int /\ f \in Int /\ p + f = e /\ d = c + e
      BY <2>1, <2>2, <2>5, <3>3, <3>5
    <3> HIDE DEF s
    <3>7. run'[r].counts.passed + run'[r].counts.failed = d
      <4>1. PICK x, y : x = run[r].counts.passed /\ y = run[r].counts.failed
        OBVIOUS
      <4>2. run'[r].counts.passed = x + p /\ run'[r].counts.failed = y + f
        BY <3>4, <3>5, <4>1
      <4>3. x \in Nat /\ y \in Nat /\ x + y = c
        BY <2>6, <3>5, <4>1
      <4>4. (x + p) + (y + f) = c + e
        BY <3>6, <4>3
      <4> QED
        BY <3>6, <4>2, <4>4
    <3> QED
      BY <2>1, <3>4, <3>5, <3>6, <3>7
  <2>8. CASE r # unit[s].run
    <3>1. Tested(r)' = Tested(r)
      BY <2>1, <2>2, <2>3, <2>4, <2>8 DEF Tested
    <3>2. run'[r] = run[r]
      BY <1>2, <2>1, <2>8, CommitReportFacts
    <3> QED
      BY <2>6, <3>1, <3>2
  <2> QED
    BY <2>7, <2>8
<1>3. ASSUME NEW q, NEW n \in Nat, Allocated(q, n), NEW r \in DOMAIN run' PROVE Holds(r)
  <2>1. r \in DOMAIN run
    BY <1>3 DEF Allocated
  <2>2. /\ \A s \in UnitsOf(r) : s \in UnitsOf(r)' /\ report'[s] = report[s]
        /\ \A s \in UnitsOf(r)' \ UnitsOf(r) : report'[s] = <<>>
        /\ run'[r].counts.passed = run[r].counts.passed
        /\ run'[r].counts.failed = run[r].counts.failed
    BY <1>3, <2>1, AllocatedReports
  <2>3. Tested(r)' = {x \in UnitsOf(r)' : report'[x] # <<>>}
    BY DEF Tested
  <2>4. Tested(r)' = Tested(r)
    BY <2>2, <2>3 DEF Tested
  <2> QED
    BY <2>1, <2>2, <2>4 DEF BucketsHold
<1>4. \A r \in DOMAIN run' : Holds(r)
  BY <1>1, <1>2, <1>3, CounterWriters
<1> QED
  BY <1>4 DEF BucketsHold

\* Of reports that were stored in the order of their dates, the last is the latest.
LEMMA LatestIsLast ==
    ASSUME NEW q \in Seq(Reports), q # <<>>, InOrder(q), clock \in Nat
    PROVE  OutcomeOf(q) = q[Len(q)].result
<1> DEFINE n == Len(q)
           i == CHOOSE i \in DOMAIN q : IsLatest(q, i)
<1>1. n \in Nat /\ n # 0 /\ DOMAIN q = 1..n
  BY LenProperties, EmptySeq
<1>2. \A j \in 1..n : q[j].at \in Int
  <2>1. \A j \in 1..n : q[j] \in Reports
    BY <1>1, ElementOfSeq
  <2> QED
    BY <2>1 DEF Reports
<1> HIDE DEF n
<1>3. IsLatest(q, n)
  BY <1>1, <1>2 DEF IsLatest, InOrder
<1>4. \A j \in DOMAIN q : IsLatest(q, j) => j = n
  BY <1>1, <1>2 DEF IsLatest, InOrder
<1>5. i = n
  BY <1>1, <1>3, <1>4
<1>6. OutcomeOf(q) = q[i].result
  BY DEF OutcomeOf
<1> QED
  BY <1>5, <1>6 DEF n

\* The unit of a report that came in order has its result for an outcome.
LEMMA OutcomeReplaced ==
    ASSUME TypeInv, NEW t \in Testers, CommitReport(t), InOrder(report'[test[t].unit])
    PROVE  Outcome(test[t].unit)' = test[t].result /\ InOrder(report[test[t].unit])
<1> DEFINE s == test[t].unit
           new == [at |-> test[t].at, result |-> test[t].result]
           old == report[s]
<1>1. s \in DOMAIN report /\ new \in Reports /\ report'[s] = Append(old, new)
  BY CommitReportFacts
<1>2. old \in Seq(Reports) /\ clock \in Nat
  BY <1>1 DEF TypeInv, TypeOK, ReportTypes
<1>3. new.result = test[t].result
  OBVIOUS
<1> HIDE DEF new, old
<1>4. /\ Append(old, new) \in Seq(Reports) /\ Append(old, new) # <<>>
      /\ Len(old) \in Nat /\ Len(Append(old, new)) = Len(old) + 1
      /\ Append(old, new)[Len(old) + 1] = new
      /\ \A j \in 1..Len(old) : Append(old, new)[j] = old[j]
      /\ DOMAIN Append(old, new) = 1..(Len(old) + 1) /\ DOMAIN old = 1..Len(old)
  BY <1>1, <1>2, AppendProperties, LenProperties, EmptySeq
<1>5. OutcomeOf(report'[s]) = test[t].result
  BY <1>1, <1>2, <1>3, <1>4, LatestIsLast
<1>6. InOrder(old)
  BY <1>1, <1>4 DEF InOrder
<1>7. test' = test
  BY DEF CommitReport, local
<1> QED
  BY <1>5, <1>6, <1>7 DEF Outcome, old

LEMMA MatchStep ==
    ASSUME TypeInv, LocksHold, NumbersHold, CountersMatchLatest, [Next]_vars
    PROVE  CountersMatchLatest'
<1> DEFINE Ordered(r) == \A s \in UnitsOf(r)' : InOrder(report'[s])
           With(r, res) == {s \in UnitsOf(r)' : OutcomeOf(report'[s]) = res}
           Holds(r) == /\ run'[r].counts.passed = Cardinality(With(r, "pass"))
                       /\ run'[r].counts.failed = Cardinality(With(r, "fail"))
<1>1. ASSUME Still, NEW r \in DOMAIN run', Ordered(r) PROVE Holds(r)
  <2>1. CASE r \in DOMAIN run
    <3>1. UnitsOf(r)' = UnitsOf(r) /\ report' = report /\ run'[r].counts = run[r].counts
      BY <1>1, <2>1, UnitsStill DEF Still
    <3>2. \A res : With(r, res) = WithOutcome(r, res)
      BY <3>1 DEF WithOutcome, Outcome
    <3> QED
      BY <1>1, <2>1, <3>1, <3>2 DEF CountersMatchLatest
  <2>2. CASE r \notin DOMAIN run
    <3>1. UnitsOf(r)' = {} /\ run'[r].counts = NoCounts
      BY <1>1, <2>2, UnitsStill DEF Still
    <3>2. \A res : With(r, res) = {}
      BY <3>1
    <3> HIDE DEF With
    <3> QED
      BY <3>1, <3>2, FS_EmptySet DEF NoCounts
  <2> QED
    BY <2>1, <2>2
<1>2. ASSUME NEW t \in Testers, CommitReport(t), NEW r \in DOMAIN run', Ordered(r) PROVE Holds(r)
  <2> DEFINE s == test[t].unit
  <2>1. /\ r \in DOMAIN run /\ s \in DOMAIN report
        /\ \A x \in DOMAIN report \ {s} : report'[x] = report[x]
        /\ Gain(t, "pass") \in Int /\ Gain(t, "fail") \in Int
    BY <1>2, CommitReportFacts
  <2>2. /\ UnitsOf(r)' = UnitsOf(r) /\ test[t].prior = Outcome(s)
        /\ s \in UnitsOf(r) <=> r = unit[s].run
    BY <1>2, ReportFiled
  <2>3. \A x \in UnitsOf(r) : x \in DOMAIN report
    BY DEF UnitsOf, TypeInv, TypeOK, ReportTypes
  <2>4. \A res : IsFiniteSet(WithOutcome(r, res)) /\ Cardinality(WithOutcome(r, res)) \in Nat
    <3>1. \A res : WithOutcome(r, res) \subseteq UnitsOf(r)
      BY DEF WithOutcome
    <3> QED
      BY <2>1, <3>1, BuiltCountsUnits, FS_Subset, FS_CardinalityType
  <2>5. CASE r = unit[s].run
    <3>1. OutcomeOf(report'[s]) = test[t].result /\ InOrder(report[s])
      <4>1. InOrder(report'[s])
        BY <1>2, <2>2, <2>5
      <4>2. test' = test
        BY <1>2 DEF CommitReport, local
      <4> QED
        BY <1>2, <4>1, <4>2, OutcomeReplaced DEF Outcome
    <3>2. \A x \in UnitsOf(r) : InOrder(report[x])
      BY <1>2, <2>1, <2>2, <2>3, <3>1
    <3>3. /\ run[r].counts.passed = Cardinality(WithOutcome(r, "pass"))
          /\ run[r].counts.failed = Cardinality(WithOutcome(r, "fail"))
      BY <2>1, <3>2 DEF CountersMatchLatest
    <3>4. /\ run'[r].counts.passed = run[r].counts.passed + Gain(t, "pass")
          /\ run'[r].counts.failed = run[r].counts.failed + Gain(t, "fail")
      BY <1>2, <2>5, CommitReportFacts DEF Passed, Failed
    <3>5. ASSUME NEW res
          PROVE  Cardinality(With(r, res)) = Cardinality(WithOutcome(r, res)) + Gain(t, res)
      <4> DEFINE W == WithOutcome(r, res)
      <4>1. With(r, res) = IF test[t].result = res THEN W \cup {s} ELSE W \ {s}
        BY <2>1, <2>2, <2>3, <2>5, <3>1 DEF WithOutcome, Outcome
      <4>2. s \in W <=> test[t].prior = res
        BY <2>2, <2>5 DEF WithOutcome
      <4>3. IsFiniteSet(W) /\ Cardinality(W) \in Nat
        BY <2>4
      <4> HIDE DEF W, With, s
      <4>4. /\ Cardinality(W \cup {s}) = IF s \in W THEN Cardinality(W) ELSE Cardinality(W) + 1
            /\ Cardinality(W \ {s}) = IF s \in W THEN Cardinality(W) - 1 ELSE Cardinality(W)
        BY <4>3, FS_AddElement, FS_RemoveElement
      <4>5. CASE test[t].result = res
        BY <4>1, <4>2, <4>3, <4>4, <4>5 DEF Gain, W
      <4>6. CASE test[t].result # res
        BY <4>1, <4>2, <4>3, <4>4, <4>6 DEF Gain, W
      <4> QED
        BY <4>5, <4>6
    <3> HIDE DEF With
    <3> QED
      BY <3>3, <3>4, <3>5
  <2>6. CASE r # unit[s].run
    <3>1. \A x \in UnitsOf(r) : report'[x] = report[x]
      BY <2>1, <2>2, <2>3, <2>6
    <3>2. \A res : With(r, res) = WithOutcome(r, res)
      BY <2>2, <3>1 DEF WithOutcome, Outcome
    <3>3. run'[r] = run[r]
      BY <1>2, <2>1, <2>6, CommitReportFacts
    <3> QED
      BY <1>2, <2>1, <2>2, <3>1, <3>2, <3>3 DEF CountersMatchLatest
  <2> QED
    BY <2>5, <2>6
<1>3. ASSUME NEW q, NEW n \in Nat, Allocated(q, n), NEW r \in DOMAIN run', Ordered(r) PROVE Holds(r)
  <2>1. r \in DOMAIN run
    BY <1>3 DEF Allocated
  <2>2. /\ \A s \in UnitsOf(r) : s \in UnitsOf(r)' /\ report'[s] = report[s]
        /\ \A s \in UnitsOf(r)' \ UnitsOf(r) : report'[s] = <<>>
        /\ run'[r].counts.passed = run[r].counts.passed
        /\ run'[r].counts.failed = run[r].counts.failed
    BY <1>3, <2>1, AllocatedReports
  <2>3. OutcomeOf(<<>>) = "none"
    BY DEF OutcomeOf
  <2>4. \A res \in Results : With(r, res) = WithOutcome(r, res)
    BY <2>2, <2>3 DEF WithOutcome, Outcome, Results
  <2>5. \A s \in UnitsOf(r) : InOrder(report[s])
    BY <1>3, <2>2
  <2> HIDE DEF With
  <2> QED
    BY <2>1, <2>2, <2>4, <2>5 DEF CountersMatchLatest, Results
<1>4. \A r \in DOMAIN run' : Ordered(r) => Holds(r)
  BY <1>1, <1>2, <1>3, CounterWriters
<1>5. \A r, res : WithOutcome(r, res)' = With(r, res)
  BY DEF WithOutcome, Outcome
<1> QED
  BY <1>4, <1>5 DEF CountersMatchLatest

LEMMA SignedStep ==
    ASSUME TypeInv, NumbersHold, BucketsHold, SignedHold, [Next]_vars
    PROVE  SignedHold'
<1>0. DOMAIN pc = Requests /\ DOMAIN counts = Signers /\ Signers \subseteq Requests
  BY DEF TypeInv, TypeOK, RequestTypes, Requests
<1>1. \A r \in DOMAIN summary' : AddsUp(summary'[r])
  <2>1. CASE UNCHANGED summary
    BY <2>1 DEF SignedHold
  <2>2. ASSUME NEW q \in Signers, UpsertSummary(q)
        PROVE  \A r \in DOMAIN summary' : AddsUp(summary'[r])
    <3>1. AddsUp(counts[q])
      BY <2>2 DEF UpsertSummary, SignedHold
    <3>2. summary' = PutAll(summary, {row[q]}, counts[q])
      BY <2>2 DEF UpsertSummary, Put
    <3> QED
      BY <3>1, <3>2 DEF PutAll, SignedHold
  <2> QED
    BY <2>1, <2>2, SummaryWriters
<1>2. ASSUME NEW q \in Signers, pc'[q] = "signing" PROVE AddsUp(counts'[q])
  <2>1. CASE pc[q] = "signing" /\ counts'[q] = counts[q]
    BY <2>1 DEF SignedHold
  <2>2. CASE SignOff(q)
    <3>1. PICK r \in DOMAIN run : counts' = [counts EXCEPT ![q] = run[r].counts]
      BY <2>2 DEF SignOff, ReadCounters
    <3>2. AddsUp(run[r].counts)
      <4>1. /\ Cardinality(Tested(r)) <= run[r].counts.built
            /\ run[r].counts.passed + run[r].counts.failed = Cardinality(Tested(r))
        BY TestedIsFinite DEF BucketsHold
      <4> QED
        BY <4>1 DEF AddsUp
    <3> QED
      BY <1>0, <3>1, <3>2
  <2>3. SignOff(q) \/ (pc'[q] = pc[q] /\ counts'[q] = counts[q])
    <3>1. ASSUME NEW p \in Signers, SignOff(p), ~SignOff(q)
          PROVE  pc'[q] = pc[q] /\ counts'[q] = counts[q]
      BY <1>0, <3>1 DEF SignOff, ReadCounters, End
    <3>2. ASSUME NEW p \in Requests, NEW how, End(p, how), how # "signing", UNCHANGED counts
          PROVE  pc'[q] = pc[q] /\ counts'[q] = counts[q]
      BY <1>0, <1>2, <3>2 DEF End
    <3>3. ASSUME NEW p \in Requests, Proceed(p) \/ Abort(p)
          PROVE  UNCHANGED counts /\ \E how : how # "signing" /\ End(p, how)
      BY <3>3 DEF Proceed, LockUnit, CommitReport, RejectReport, CommitUnits, Insert, Refuse,
         PatchRun, UpdateRun, PatchUnit, UpdateUnit, UpsertSummary, Abort, local
    <3>4. ASSUME NEW p \in Requests, RecordEol(p) \/ LockRun(p) \/ OpenRun(p) \/ OpenUnit(p)
          PROVE  UNCHANGED counts /\ \E how : how # "signing" /\ End(p, how)
      BY <3>4 DEF RecordEol, LockRun, OpenRun, OpenUnit, OpenForm
    <3>5. ASSUME NEW r \in Runs, CreateRun(r) PROVE UNCHANGED <<pc, counts>>
      BY <3>5 DEF CreateRun, local
    <3> QED
      BY <3>1, <3>2, <3>3, <3>4, <3>5 DEF Next, vars, local, Requests
  <2> QED
    BY <1>2, <2>1, <2>2, <2>3
<1> QED
  BY <1>1, <1>2 DEF SignedHold, AddsUp

LEMMA CountersStep == CountersInv /\ [Next]_vars => CountersInv'
BY TypeStep, LocksStep, NumbersStep, BucketsStep, MatchStep, SignedStep DEF CountersInv

LEMMA InvIsEnough == CountersInv => CountersHold
<1> SUFFICES ASSUME CountersInv PROVE CountersHold
  OBVIOUS
<1>1. ASSUME NEW r \in DOMAIN run
      PROVE  /\ run[r].counts.built = Cardinality(UnitsOf(r))
             /\ {s.seq : s \in UnitsOf(r)} = 1..(run[r].next - 1)
             /\ run[r].counts.passed + run[r].counts.failed = Cardinality(Tested(r))
  BY BuiltCountsUnits DEF CountersInv, NumbersHold, BucketsHold
<1>2. \A r \in DOMAIN summary : summary[r].passed + summary[r].failed <= summary[r].built
  BY DEF CountersInv, SignedHold, AddsUp
<1> QED
  BY <1>1, <1>2 DEF CountersHold, CountersAddUp, CountersInv

\* Whatever allocations, reports, edits and sign-offs of any number of requests
\* meet, the counters of a run summarise its rows: record_eol_report_impl's lock of
\* the unit, and the one UPDATE that moves it between buckets, are enough.
THEOREM CountersSummarise == Spec => []CountersHold
<1> QED
  BY CountersInit, CountersStep, InvIsEnough, PTL DEF Spec

-----------------------------------------------------------------------------
(* The edits *)

Current(x) == IF x \in Runs THEN run[x].version ELSE unit[x].version
Exists(x)  == IF x \in Runs THEN x \in DOMAIN run ELSE x \in DOMAIN unit

\* A form shows a version its row has had, one whose edit went through a version
\* that has passed, and no two the same; and whoever loaded a later version had
\* seen the edits that went into it.
EditsHold ==
    /\ \A e \in Editors : pc[e] \in {"open", "done"} => Exists(row[e])
    /\ \A e \in Editors : pc[e] = "open" => version[e] <= Current(row[e])
    /\ \A e \in Editors : pc[e] = "done" => version[e] < Current(row[e])
    /\ \A d, e \in Editors : d # e /\ row[d] = row[e] /\ pc[d] = "done" =>
          /\ pc[e] = "done" => version[d] # version[e]
          /\ pc[e] \in {"open", "done"} /\ version[d] < version[e] => d \in known[e]

EditsInv == TypeInv /\ EditsHold

LEMMA EditsInit == Init => EditsInv
<1>1. Init => \A e \in Editors : pc[e] = "idle"
  BY DEF Init, Requests
<1> QED
  BY <1>1, TypeInit DEF EditsInv, EditsHold

\* No step takes a row away or its version back; and only an edit of the row moves it.
LEMMA VersionsGrow ==
    ASSUME TypeInv, [Next]_vars, NEW x, Exists(x)
    PROVE  /\ Exists(x)' /\ Current(x) \in Nat /\ Current(x)' \in Nat
           /\ Current(x) <= Current(x)'
<1>1. DOMAIN run \subseteq DOMAIN run' /\ DOMAIN unit \subseteq DOMAIN unit'
  BY RunTypesStep, UnitTypesStep
<1>2. /\ \A r \in DOMAIN run : run[r].version \in Nat
      /\ \A s \in DOMAIN unit : unit[s].version \in Nat
  BY DEF TypeInv, TypeOK, RunTypes, UnitTypes, RunRows, UnitRows
<1>3. ASSUME NEW r \in DOMAIN run
      PROVE  run'[r].version \in Nat /\ run[r].version <= run'[r].version
  <2>1. ASSUME run'[r] = run[r] PROVE run'[r].version \in Nat /\ run[r].version <= run'[r].version
    BY <1>2, <2>1
  <2>2. ASSUME NEW q \in Runs, CreateRun(q) PROVE run'[r] = run[r]
    BY <2>2 DEF CreateRun, Put, PutAll
  <2>3. ASSUME NEW t \in Testers, CommitReport(t) PROVE run'[r].version = run[r].version
    BY <2>3, CommitReportFacts
  <2>4. ASSUME NEW b \in Builders, CommitUnits(b) PROVE run'[r].version = run[r].version
    <3>1. ASSUME NEW q, NEW n, Allocated(q, n) PROVE run'[r].version = run[r].version
      BY <3>1 DEF Allocated
    <3> QED
      BY <2>4, <3>1, CommitUnitsFacts
  <2>5. ASSUME NEW e \in Editors, PatchRun(e)
        PROVE  run'[r].version = run[r].version \/ run'[r].version = run[r].version + 1
    <3>1. run[r] \in RunRows
      BY DEF TypeInv, TypeOK, RunTypes
    <3>2. ASSUME NEW c \in Codes,
                 run' = [run EXCEPT ![row[e]].code = c, ![row[e]].version = @ + 1]
          PROVE  run'[r].version = run[r].version \/ run'[r].version = run[r].version + 1
      BY <3>1, <3>2 DEF RunRows
    <3> QED
      BY <2>5, <3>2 DEF PatchRun, UpdateRun
  <2> QED
    BY <1>2, <2>1, <2>2, <2>3, <2>4, <2>5, RunWriters
<1>4. ASSUME NEW s \in DOMAIN unit
      PROVE  unit'[s].version \in Nat /\ unit[s].version <= unit'[s].version
  <2>1. ASSUME NEW b \in Builders, CommitUnits(b) PROVE unit'[s] = unit[s]
    <3>1. ASSUME NEW q, NEW n, Allocated(q, n) PROVE unit'[s] = unit[s]
      BY <3>1 DEF Allocated
    <3> QED
      BY <2>1, <3>1, CommitUnitsFacts
  <2>2. ASSUME NEW e \in Editors, PatchUnit(e)
        PROVE  unit'[s].version = unit[s].version \/ unit'[s].version = unit[s].version + 1
    <3>1. unit[s] \in UnitRows
      BY DEF TypeInv, TypeOK, UnitTypes
    <3> QED
      BY <2>2, <3>1 DEF PatchUnit, UpdateUnit, UnitRows
  <2> QED
    BY <1>2, <2>1, <2>2, UnitWriters
<1> QED
  BY <1>1, <1>2, <1>3, <1>4 DEF Exists, Current

\* An edit goes through when the row still has the version the form shows, and
\* the row then has another.
LEMMA EditGoesThrough ==
    ASSUME TypeInv, NEW e \in Editors, PatchRun(e) \/ PatchUnit(e), pc'[e] = "done"
    PROVE  /\ pc[e] = "open" /\ Exists(row[e])
           /\ version[e] = Current(row[e]) /\ Current(row[e])' = version[e] + 1
<1>0. /\ DOMAIN pc = Requests /\ e \in Requests
      /\ \A r \in DOMAIN run : run[r] \in RunRows
      /\ \A s \in DOMAIN unit : unit[s] \in UnitRows
  BY DEF TypeInv, TypeOK, RunTypes, UnitTypes, RequestTypes, Requests
<1>1. pc[e] = "open" /\ Exists(row[e]) /\ UNCHANGED <<row, version>>
  BY DEF PatchRun, PatchUnit, TypeInv, RowsAreThere, Exists, local, formVars
<1>2. CASE PatchRun(e)
  <2>1. PICK c \in Codes : UpdateRun(e, c)
    BY <1>2 DEF PatchRun
  <2>2. /\ run[row[e]].version = version[e]
        /\ run' = [run EXCEPT ![row[e]].code = c, ![row[e]].version = @ + 1]
    BY <1>0, <2>1 DEF UpdateRun, Refuse, End
  <2>3. row[e] \in Runs /\ row[e] \in DOMAIN run
    BY <1>1, <1>2 DEF PatchRun, Exists
  <2>4. run'[row[e]].version = run[row[e]].version + 1
    BY <1>0, <2>2, <2>3 DEF RunRows
  <2> QED
    BY <1>1, <2>2, <2>3, <2>4 DEF Current
<1>3. CASE PatchUnit(e)
  <2>1. /\ unit[row[e]].version = version[e]
        /\ unit' = [unit EXCEPT ![row[e]].version = @ + 1]
    BY <1>0, <1>3 DEF PatchUnit, UpdateUnit, Refuse, End
  <2>2. row[e] \notin Runs /\ row[e] \in DOMAIN unit
    BY <1>1, <1>3 DEF PatchUnit, Exists
  <2>3. unit'[row[e]].version = unit[row[e]].version + 1
    BY <1>0, <2>1, <2>2 DEF UnitRows
  <2> QED
    BY <1>1, <2>1, <2>2, <2>3 DEF Current
<1> QED
  BY <1>2, <1>3

LEMMA FormIsSent ==
    ASSUME NEW e \in Editors, PatchRun(e) \/ PatchUnit(e)
    PROVE  UNCHANGED <<row, formVars>> /\ \E how \in {"done", "stale", "taken"} : End(e, how)
<1>1. CASE PatchRun(e)
  <2>1. PICK c \in Codes : UpdateRun(e, c)
    BY <1>1 DEF PatchRun
  <2>2. \E how \in {"done", "stale", "taken"} : End(e, how)
    BY <2>1 DEF UpdateRun, Refuse
  <2> QED
    BY <1>1, <2>2 DEF PatchRun, local
<1>2. CASE PatchUnit(e)
  <2>1. \E how \in {"done", "stale", "taken"} : End(e, how)
    BY <1>2 DEF PatchUnit, UpdateUnit, Refuse
  <2> QED
    BY <1>2, <2>1 DEF PatchUnit, local
<1> QED
  BY <1>1, <1>2

\* At most one form moves in a step: it is opened, or it is sent.
FormsRest ==
    \A e \in Editors :
       /\ row'[e] = row[e] /\ version'[e] = version[e] /\ known'[e] = known[e]
       /\ pc'[e] = pc[e] \/ pc'[e] \notin {"open", "done"}
OthersRest(e) == \A d \in Editors \ {e} :
                    /\ pc'[d] = pc[d] /\ row'[d] = row[d]
                    /\ version'[d] = version[d] /\ known'[d] = known[d]

LEMMA FormMoves ==
    ASSUME TypeInv, [Next]_vars
    PROVE  \/ FormsRest
           \/ \E e \in Editors : OpenRun(e) \/ OpenUnit(e)
           \/ \E e \in Editors : (PatchRun(e) \/ PatchUnit(e)) /\ pc'[e] = "done"
<1>0. /\ DOMAIN pc = Requests /\ DOMAIN row = Requests \ Testers
      /\ \A e \in Editors : e \in Requests \ Testers /\ e \notin Builders \cup Signers
  BY DEF TypeInv, TypeOK, RequestTypes, Requests
<1>1. ASSUME UNCHANGED <<pc, row, formVars>> PROVE FormsRest
  BY <1>1 DEF FormsRest, formVars
<1>2. ASSUME NEW q \in Requests, NEW how, End(q, how), UNCHANGED <<row, formVars>>,
             q \notin Editors \/ how \notin {"open", "done"}
      PROVE  FormsRest
  BY <1>0, <1>2 DEF End, FormsRest, formVars
<1>3. ASSUME NEW q \in Builders \cup Signers, LockRun(q) \/ SignOff(q) PROVE FormsRest
  <2>1. PICK r, how : /\ row' = [row EXCEPT ![q] = r] /\ pc' = [pc EXCEPT ![q] = how]
                      /\ UNCHANGED formVars
    BY <1>3 DEF LockRun, SignOff, End
  <2>2. \A e \in Editors : row'[e] = row[e] /\ pc'[e] = pc[e]
    BY <1>0, <1>3, <2>1
  <2> QED
    BY <2>1, <2>2 DEF FormsRest, formVars
<1>4. ASSUME NEW q \in Testers, \/ RecordEol(q) \/ LockUnit(q) \/ CommitReport(q)
                                \/ RejectReport(q)
      PROVE  UNCHANGED <<row, formVars>> /\ \E how : End(q, how)
  BY <1>4 DEF RecordEol, LockUnit, CommitReport, RejectReport, local
<1>5. ASSUME NEW q \in Builders \cup Signers, CommitUnits(q) \/ UpsertSummary(q)
      PROVE  UNCHANGED <<row, formVars>> /\ \E how : End(q, how)
  BY <1>5 DEF CommitUnits, Insert, UpsertSummary, Refuse, local
<1>6. ASSUME NEW q \in Requests, Abort(q)
      PROVE  UNCHANGED <<row, formVars>> /\ End(q, "failed")
  BY <1>6 DEF Abort, local
<1>7. ASSUME NEW e \in Editors, PatchRun(e) \/ PatchUnit(e), pc'[e] # "done" PROVE FormsRest
  <2>1. PICK how \in {"done", "stale", "taken"} : UNCHANGED <<row, formVars>> /\ End(e, how)
    BY <1>7, FormIsSent
  <2>2. pc'[e] = how
    BY <1>0, <2>1 DEF End
  <2> QED
    BY <1>0, <1>2, <1>7, <2>1, <2>2
<1>8. ASSUME NEW r \in Runs, CreateRun(r) PROVE UNCHANGED <<pc, row, formVars>>
  BY <1>8 DEF CreateRun, local
<1>9. Testers \cap Editors = {} /\ (Builders \cup Signers) \cap Editors = {}
      /\ Testers \cup Builders \cup Signers \subseteq Requests
  BY DEF Requests
<1>10. CASE UNCHANGED vars
  BY <1>1, <1>10 DEF vars, local
<1>11. ASSUME NEW q \in Requests, Proceed(q)
       PROVE  FormsRest \/ \E e \in Editors : (PatchRun(e) \/ PatchUnit(e)) /\ pc'[e] = "done"
  BY <1>2, <1>4, <1>5, <1>7, <1>9, <1>11 DEF Proceed
<1> QED
  BY <1>1, <1>2, <1>3, <1>4, <1>6, <1>8, <1>9, <1>10, <1>11 DEF Next

\* A form that is opened shows the row as it is.
LEMMA FormOpens ==
    ASSUME TypeInv, NEW e \in Editors, OpenRun(e) \/ OpenUnit(e)
    PROVE  /\ UNCHANGED <<run, unit>> /\ OthersRest(e)
           /\ pc'[e] = "open" /\ Exists(row'[e]) /\ version'[e] = Current(row'[e])
           /\ known'[e] = EditsOf(row'[e])
<1>0. /\ DOMAIN pc = Requests /\ DOMAIN row = Requests \ Testers
      /\ DOMAIN version = Editors /\ DOMAIN known = Editors
      /\ \A d \in Editors : d \in Requests \ Testers
  BY DEF TypeInv, TypeOK, RequestTypes, Requests
<1>1. PICK x, v : /\ OpenForm(e, [row |-> x, version |-> v])
                  /\ \/ x \in DOMAIN run /\ v = run[x].version
                     \/ x \in DOMAIN unit /\ v = unit[x].version
  BY DEF OpenRun, OpenUnit, RunDto, UnitDto
<1>2. Exists(x) /\ v = Current(x)
  BY <1>1 DEF Exists, Current, TypeInv, TypeOK, RunTypes, UnitTypes
<1>3. /\ UNCHANGED <<run, unit>>
      /\ row' = [row EXCEPT ![e] = x] /\ version' = [version EXCEPT ![e] = v]
      /\ known' = [known EXCEPT ![e] = EditsOf(x)] /\ pc' = [pc EXCEPT ![e] = "open"]
  BY <1>1 DEF OpenForm, End, rows
<1>4. row'[e] = x /\ version'[e] = v /\ known'[e] = EditsOf(x) /\ pc'[e] = "open"
  BY <1>0, <1>3
<1>5. OthersRest(e)
  BY <1>0, <1>3 DEF OthersRest
<1> QED
  BY <1>2, <1>3, <1>4, <1>5

LEMMA EditsStep == EditsInv /\ [Next]_vars => EditsInv'
<1> SUFFICES ASSUME EditsInv, [Next]_vars PROVE EditsHold'
  BY TypeStep DEF EditsInv
<1>0. /\ TypeInv /\ EditsHold
      /\ \A e \in Editors : version[e] \in Nat
  BY DEF EditsInv, TypeInv, TypeOK, RequestTypes
<1>1. \A x : Exists(x) => /\ Exists(x)' /\ Current(x) \in Nat /\ Current(x)' \in Nat
                          /\ Current(x) <= Current(x)'
  BY <1>0, VersionsGrow
<1> DEFINE Now(x) == IF x \in Runs THEN run'[x].version ELSE unit'[x].version
           There(x) == IF x \in Runs THEN x \in DOMAIN run' ELSE x \in DOMAIN unit'
<1>2. \A x : Exists(x)' = There(x) /\ Current(x)' = Now(x)
  BY DEF Exists, Current
<1>3. \A x : Exists(x) => /\ There(x) /\ Current(x) \in Nat /\ Now(x) \in Nat
                          /\ Current(x) <= Now(x)
  BY <1>1, <1>2
<1>4. \/ FormsRest
      \/ \E e \in Editors : OpenRun(e) \/ OpenUnit(e)
      \/ \E e \in Editors : (PatchRun(e) \/ PatchUnit(e)) /\ pc'[e] = "done"
  BY <1>0, FormMoves
<1> DEFINE Kept == EditsHold'
           FormsKept ==
              /\ \A e \in Editors : pc'[e] \in {"open", "done"} => There(row'[e])
              /\ \A e \in Editors : pc'[e] = "open" => version'[e] <= Now(row'[e])
              /\ \A e \in Editors : pc'[e] = "done" => version'[e] < Now(row'[e])
           SerialKept ==
              \A d, e \in Editors : d # e /\ row'[d] = row'[e] /\ pc'[d] = "done" =>
                 /\ pc'[e] = "done" => version'[d] # version'[e]
                 /\ pc'[e] \in {"open", "done"} /\ version'[d] < version'[e] =>
                       d \in known'[e]
<1>5. FormsKept /\ SerialKept => Kept
  BY DEF EditsHold, Exists, Current
<1> HIDE DEF Now, There
<1>6. ASSUME NEW e \in Editors, pc[e] \in {"open", "done"}
      PROVE  /\ There(row[e]) /\ Now(row[e]) \in Nat
             /\ pc[e] = "open" => version[e] <= Now(row[e])
             /\ pc[e] = "done" => version[e] < Now(row[e])
  <2>1. Exists(row[e]) /\ (pc[e] = "open" => version[e] <= Current(row[e]))
        /\ (pc[e] = "done" => version[e] < Current(row[e]))
    BY <1>0, <1>6 DEF EditsHold
  <2> QED
    BY <1>0, <1>3, <2>1
<1>7. CASE FormsRest
  <2>1. \A e \in Editors :
           /\ row'[e] = row[e] /\ version'[e] = version[e] /\ known'[e] = known[e]
           /\ pc'[e] = pc[e] \/ pc'[e] \notin {"open", "done"}
    BY <1>7 DEF FormsRest
  <2>2. FormsKept
    BY <1>6, <2>1
  <2>3. SerialKept
    BY <1>0, <2>1 DEF EditsHold
  <2> QED
    BY <1>5, <2>2, <2>3
<1>8. ASSUME NEW e \in Editors, OpenRun(e) \/ OpenUnit(e) PROVE Kept
  <2>1. /\ UNCHANGED <<run, unit>> /\ OthersRest(e)
        /\ pc'[e] = "open" /\ Exists(row'[e]) /\ version'[e] = Current(row'[e])
        /\ known'[e] = EditsOf(row'[e])
    BY <1>0, <1>8, FormOpens
  <2>2. Now(row'[e]) = Current(row'[e])
    BY <2>1 DEF Now, Current
  <2>3. \A d \in Editors \ {e} :
           /\ pc'[d] = pc[d] /\ row'[d] = row[d]
           /\ version'[d] = version[d] /\ known'[d] = known[d]
    BY <2>1 DEF OthersRest
  <2>4. FormsKept
    BY <1>3, <1>6, <2>1, <2>2, <2>3
  <2>5. \A d \in Editors \ {e} : row'[d] = row'[e] /\ pc'[d] = "done" => d \in known'[e]
    BY <2>1, <2>3 DEF EditsOf
  <2>6. SerialKept
    BY <1>0, <2>1, <2>3, <2>5 DEF EditsHold
  <2> QED
    BY <1>5, <2>4, <2>6
<1>9. ASSUME NEW e \in Editors, PatchRun(e) \/ PatchUnit(e), pc'[e] = "done" PROVE Kept
  <2>0. PICK how \in {"done", "stale", "taken"} : UNCHANGED <<row, formVars>> /\ End(e, how)
    BY <1>9, FormIsSent
  <2>1. /\ pc[e] = "open" /\ Exists(row[e])
        /\ version[e] = Current(row[e]) /\ Now(row[e]) = version[e] + 1
    <3>1. /\ pc[e] = "open" /\ Exists(row[e]) /\ version[e] = Current(row[e])
          /\ Current(row[e])' = version[e] + 1
      BY <1>0, <1>9, EditGoesThrough
    <3>2. Current(row[e])' = Now(row[e])
      BY <2>0 DEF Current, Now
    <3> QED
      BY <3>1, <3>2
  <2>2. /\ UNCHANGED <<row, version, known>>
        /\ \A d \in Editors \ {e} : pc'[d] = pc[d]
    BY <1>0, <2>0 DEF End, formVars, TypeInv, TypeOK, RequestTypes, Requests
  <2>3. FormsKept
    BY <1>0, <1>6, <1>3, <1>9, <2>1, <2>2
  <2>4. \A d \in Editors : pc[d] = "done" /\ row[d] = row[e] => version[d] < version[e]
    BY <1>0, <2>1 DEF EditsHold
  <2>5. \A d \in Editors : pc[d] = "open" /\ row[d] = row[e] => version[d] <= version[e]
    BY <1>0, <2>1 DEF EditsHold
  <2>6. ASSUME NEW d \in Editors, NEW f \in Editors, d # f, row[d] = row[f], pc'[d] = "done"
        PROVE  /\ pc'[f] = "done" => version[d] # version[f]
               /\ pc'[f] \in {"open", "done"} /\ version[d] < version[f] => d \in known[f]
    <3>1. CASE d = e
      BY <1>0, <2>2, <2>4, <2>5, <2>6, <3>1
    <3>2. CASE f = e
      BY <1>0, <2>1, <2>2, <2>4, <2>6, <3>2 DEF EditsHold
    <3>3. CASE d # e /\ f # e
      BY <1>0, <2>2, <2>6, <3>3 DEF EditsHold
    <3> QED
      BY <3>1, <3>2, <3>3
  <2>7. SerialKept
    BY <2>2, <2>6
  <2> QED
    BY <1>5, <2>3, <2>7
<1> QED
  BY <1>4, <1>7, <1>8, <1>9

\* Of two edits of a run or a unit that both went through, however many forms
\* are open, one author had seen the other's: the WHERE version = $2 of
\* update_run_impl and update_unit_impl is enough, since nothing else writes the
\* fields a form shows without a version.
THEOREM EditsAreSerialised == Spec => []EditsAreSerial
<1>1. EditsInv => EditsAreSerial
  <2> SUFFICES ASSUME EditsInv, NEW d \in Editors, NEW e \in Editors, d # e,
                      row[d] = row[e], pc[d] = "done", pc[e] = "done"
               PROVE  d \in known[e] \/ e \in known[d]
    BY DEF EditsAreSerial, EditsOf
  <2>1. version[d] \in Nat /\ version[e] \in Nat
    BY DEF EditsInv, TypeInv, TypeOK, RequestTypes
  <2> QED
    BY <2>1 DEF EditsInv, EditsHold
<1> QED
  BY <1>1, EditsInit, EditsStep, PTL DEF Spec
=============================================================================
