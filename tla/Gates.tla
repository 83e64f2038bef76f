--------------------------------- MODULE Gates ---------------------------------
(***************************************************************************)
(* The gates of build_candidate, in the order they are run, over a small   *)
(* candidate table; and beside them the tests that export_dbt_project      *)
(* writes for the same contract and spec, which stand in for the gates     *)
(* when the project moves to dbt.                                          *)
(***************************************************************************)
EXTENDS Integers, Sequences, FiniteSets

CONSTANTS
  Columns,      \* columns of the candidate
  Builds,       \* what may reach the gates: see BuildType
  Null,
  NotFinite,    \* NaN or an infinity
  NoCandidate

Numbers == 0..9
Values == Numbers \cup {Null}

\* One record for every kind of check; the fields a kind lacks are not read.
Checks == [check : {"not_null", "unique", "accepted_values", "range", "row_count"},
           columns : (SUBSET Columns) \ {{}}, values : SUBSET Numbers,
           min : Values, max : Values]

\* What a reconciliation's SQL returns: rows, and the value of the only one.
Scalars == [rows : {"none", "one", "many"}, value : Values \cup {NotFinite}]
Reconciliations == [expected : Scalars, actual : Scalars, tolerance : Numbers]

\* schema: how the columns of the candidate compare with the contract's.
BuildType ==
  [table : Seq([Columns -> Values]), schema : {"equal", "missing", "additional", "other_type"},
   required : SUBSET Columns, checks : Seq(Checks), reconciliations : Seq(Reconciliations)]

ASSUME GateConstants ==
  /\ Builds \subseteq BuildType
  /\ Null \notin Numbers \cup {NotFinite}
  /\ NoCandidate \notin Builds

VARIABLES
  candidate,   \* the candidate and what is asked of it
  gate,        \* where build_candidate is
  position,    \* checks or reconciliations it has been through
  failures     \* the gates that failed

gateVars == <<candidate, gate, position, failures>>

GatesTypeOK ==
  /\ candidate \in Builds \cup {NoCandidate}
  /\ gate \in {"none", "contract", "checks", "reconciliations", "built", "raised"}
  /\ position \in Nat
  /\ failures \subseteq {"contract", "checks", "reconciliations"}

GatesInit ==
  /\ candidate = NoCandidate
  /\ gate = "none" /\ position = 0
  /\ failures = {}

-----------------------------------------------------------------------------
\* The spec's SQL is guarded and the candidate created from it.
CreateCandidate ==
  /\ gate = "none"
  /\ candidate' \in Builds
  /\ gate' = "contract"
  /\ UNCHANGED <<position, failures>>

\* _contract_errors: columns, additive ones included, and types; what it may
\* not be null in is left to a check.
ContractErrors == candidate.schema # "equal"

CompareContract ==
  /\ gate = "contract"
  /\ IF ContractErrors
     THEN failures' = {"contract"} /\ gate' = "built"
     ELSE gate' = "checks" /\ UNCHANGED failures
  /\ UNCHANGED <<candidate, position>>

RequiredCheck ==
  [check |-> "not_null", columns |-> candidate.required, values |-> {}, min |-> Null, max |-> Null]

ChecksOfSpec == candidate.checks   \* a slip: the contract's own is not added

ChecksToRun ==
  IF candidate.required = {} THEN candidate.checks ELSE <<RequiredCheck>> \o candidate.checks

Rows == DOMAIN candidate.table
Cell(r, column) == candidate.table[r][column]
Key(r, columns) == [column \in columns |-> Cell(r, column)]
TheColumn(c) == CHOOSE column \in c.columns : TRUE

\* GROUP BY puts nulls in one group.
Duplicates(columns) == \E r, s \in Rows : r # s /\ Key(r, columns) = Key(s, columns)

\* A comparison with null selects no row.
Outside(v, c) ==
  /\ v # Null
  /\ \/ c.min # Null /\ v < c.min
     \/ c.max # Null /\ v > c.max

RowCountIn(c) == Len(candidate.table) >= c.min /\ (c.max # Null => Len(candidate.table) <= c.max)

\* _quality_check
Passes(c) ==
  CASE c.check = "not_null" -> \A r \in Rows, column \in c.columns : Cell(r, column) # Null
    [] c.check = "unique" -> ~Duplicates(c.columns)
    [] c.check = "accepted_values" -> \A r \in Rows : Cell(r, TheColumn(c)) \in c.values \cup {Null}
    [] c.check = "range" -> \A r \in Rows : ~Outside(Cell(r, TheColumn(c)), c)
    [] c.check = "row_count" -> RowCountIn(c)

RunCheck ==
  /\ gate = "checks"
  /\ IF position < Len(ChecksToRun)
     THEN /\ position' = position + 1
          /\ failures' = IF Passes(ChecksToRun[position + 1]) THEN failures ELSE failures \cup {"checks"}
          /\ UNCHANGED gate
     ELSE gate' = "reconciliations" /\ position' = 0 /\ UNCHANGED failures
  /\ UNCHANGED candidate

Distance(a, b) == IF a > b THEN a - b ELSE b - a

\* _reconcile: each SQL must give one scalar.
OneScalarEach(r) == r.expected.rows = "one" /\ r.actual.rows = "one"
Reconciles(r) ==
  LET e == r.expected.value  a == r.actual.value IN
    /\ NotFinite \notin {e, a}
    /\ IF Null \in {e, a} THEN e = a ELSE Distance(e, a) <= r.tolerance

RunReconciliation ==
  /\ gate = "reconciliations"
  /\ IF position = Len(candidate.reconciliations)
     THEN gate' = "built" /\ UNCHANGED <<position, failures>>
     ELSE LET r == candidate.reconciliations[position + 1] IN
          /\ gate' = IF OneScalarEach(r) THEN "reconciliations" ELSE "raised"
          /\ position' = position + 1
          /\ failures' = IF OneScalarEach(r) /\ Reconciles(r) THEN failures
                         ELSE failures \cup {"reconciliations"}
  /\ UNCHANGED candidate

GatesNext == CreateCandidate \/ CompareContract \/ RunCheck \/ RunReconciliation
GatesSpec == GatesInit /\ [][GatesNext]_gateVars

Passed == gate = "built" /\ failures = {}

-----------------------------------------------------------------------------
(* The tests export_dbt_project writes, as dbt and DuckDB read them.        *)

\* dbt's built-in unique test leaves nulls out; with several columns the
\* export writes the native query as a singular test.
DuplicatesInDbt(columns) ==
  \E r, s \in Rows :
    /\ r # s /\ Key(r, columns) = Key(s, columns)
    /\ Cardinality(columns) = 1 => \A column \in columns : Cell(r, column) # Null

TestAccepts(c) == IF c.check = "unique" THEN ~DuplicatesInDbt(c.columns) ELSE Passes(c)

\* A scalar subquery of no row is null, one of several rows an error;
\* coalesce makes the null a zero, and NaN is greater than any number.
OrZero(v) == IF v = Null THEN 0 ELSE v
ScalarOf(s) == IF s.rows = "one" THEN s.value ELSE Null
SingularTestAccepts(r) ==
  LET e == ScalarOf(r.expected)  a == ScalarOf(r.actual) IN
    /\ r.expected.rows # "many" /\ r.actual.rows # "many"
    /\ NotFinite \notin {e, a}
    /\ Distance(OrZero(e), OrZero(a)) <= r.tolerance
    /\ (e = Null) = (a = Null)

\* The contract is enforced when the model is built, not_null as a constraint.
DbtAccepts ==
  /\ ~ContractErrors
  /\ \A column \in candidate.required, r \in Rows : Cell(r, column) # Null
  /\ \A i \in DOMAIN candidate.checks : TestAccepts(candidate.checks[i])
  /\ \A i \in DOMAIN candidate.reconciliations : SingularTestAccepts(candidate.reconciliations[i])

-----------------------------------------------------------------------------
Decided == gate \in {"built", "raised"}

NullKeys ==
  \E i \in DOMAIN candidate.checks :
    LET c == candidate.checks[i] IN
      c.check = "unique" /\ Cardinality(c.columns) = 1 /\ Duplicates(c.columns)

EmptyScalar ==
  \E i \in DOMAIN candidate.reconciliations :
    LET r == candidate.reconciliations[i] IN "none" \in {r.expected.rows, r.actual.rows}

(* What passes the native gates passes dbt's tests; and what these let      *)
(* through, the gates stop only for two nulls in a key column, or for a     *)
(* reconciliation that returns no row at all (dbt.py writes single-column   *)
(* unique as a built-in test and reconciliations as coalesced subqueries).  *)
GatesCarryOverButForNulls ==
  Decided =>
    /\ Passed => DbtAccepts
    /\ DbtAccepts /\ ~Passed => NullKeys \/ EmptyScalar
=============================================================================
