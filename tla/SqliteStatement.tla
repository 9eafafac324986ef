---------------------------- MODULE SqliteStatement ----------------------------
(***************************************************************************)
(* One sdb::SqliteStatement (src/src/SqliteStatement.cpp) and the          *)
(* sqlite3_stmt it owns, seen from the single thread that uses it: step(), *)
(* reset() and the column getters by index and by name.  The engine side   *)
(* is the part of SQLite's virtual machine these calls observe: a          *)
(* statement is ready (prepared or reset), on a row, or halted after       *)
(* SQLITE_DONE or an error; sqlite3_step on a halted statement resets it   *)
(* and runs the SQL again; sqlite3_column_* without a current row returns  *)
(* a NULL value.  A call that only throws changes no state and has no      *)
(* action.  Also here: the compile-time dispatch of bindAll.               *)
(***************************************************************************)
EXTENDS Integers, Sequences

CONSTANTS
    Columns,   \* the result's column names: column i is Columns[i + 1]
    Names,     \* the names callers look columns up by
    Vals,      \* the non-null values a cell may hold
    NullV,     \* SQL NULL
    MaxExec,   \* bound on the executions (runs of the SQL) in one behaviour
    MaxRows,   \* bound on the rows one execution returns
    Platform   \* the data model: int64_t is long ("LP64") or long long ("LLP64")

ASSUME StatementAssumption ==
    /\ Columns \in Seq(Names)
    /\ NullV \notin Vals
    /\ MaxExec \in Nat /\ MaxRows \in Nat
    /\ Platform \in {"LP64", "LLP64"}

VARIABLES
    phase,     \* the engine's statement state: "ready", "row" or "halted"
    execs,     \* executions started so far
    rowNo,     \* rows the current execution has returned
    row,       \* the current result row, read by sqlite3_column_*
    lastRead   \* ghost: {} or {the last getter call that returned}

vars == <<phase, execs, rowNo, row, lastRead>>

ColIdx == 0 .. Len(Columns) - 1
Value == Vals \cup {NullV}
\* What each getter kind returns for a NULL cell, and the absent optional.
Zero == "zero"
Empty == "empty"
Absent == "absent"
Kinds == {"int", "int64", "double", "string", "blob", "isNull", "optional"}
Read == [kind : Kinds, col : -1 .. Len(Columns), name : Names \cup {"none"},
         onRow : BOOLEAN, at : Nat \X Nat,
         val : Value \cup {Zero, Empty, Absent, "null", "notnull"}]

TypeOK ==
    /\ phase \in {"ready", "row", "halted"}
    /\ execs \in 0 .. MaxExec
    /\ rowNo \in 0 .. MaxRows
    /\ row \in [ColIdx -> Value]
    /\ lastRead \in SUBSET Read

Init ==
    /\ phase = "ready"
    /\ execs = 0
    /\ rowNo = 0
    /\ row = [c \in ColIdx |-> NullV]
    /\ lastRead = {}

-----------------------------------------------------------------------------
(* Column access.                                                          *)

\* Mutant: the upper bound of checkColumnIndex is inclusive.
CheckColumnIndexInclusive(c) == c >= 0 /\ c <= Len(Columns)

(* checkColumnIndex: 0 <= column < getColumnCount(), else a               *)
(* SqliteStatementException.  Nothing checks that a row is current.        *)
CheckColumnIndex(c) == c >= 0 /\ c < Len(Columns)

\* Mutant: getColumnIndex keeps looking after a match and returns the last.
ColumnIndexOfLast(n) ==
    LET Search[i \in 0 .. Len(Columns)] ==
            IF i = Len(Columns) THEN -1
            ELSE IF Columns[Len(Columns) - i] = n THEN Len(Columns) - 1 - i
                 ELSE Search[i + 1]
    IN  Search[0]

(* getColumnIndex: the loop over 0 .. count - 1 comparing getColumnName(i) *)
(* with the name and returning at the first match; -1 stands for the       *)
(* "Column not found" exception.                                           *)
ColumnIndexOf(n) ==
    LET Search[i \in 0 .. Len(Columns)] ==
            IF i = Len(Columns) THEN -1
            ELSE IF Columns[i + 1] = n THEN i ELSE Search[i + 1]
    IN  Search[0]

(* sqlite3_column_*: the cell of the current row, or a NULL value when the *)
(* statement has no current row (its result row pointer is null) or the  *)
(* index is out of range.                                                 *)
EngineCell(c) == IF phase = "row" /\ c \in ColIdx THEN row[c] ELSE NullV

(* The conversion each getter applies: sqlite3_column_int/int64/double     *)
(* give 0 for NULL, getString gives "" for a null text pointer, getBlob an *)
(* empty vector for a null blob, isNull compares the type with SQLITE_NULL *)
(* and the optional getters test isNull first and return an empty optional.*)
Convert(kind, v) ==
    CASE kind \in {"int", "int64", "double"} -> IF v = NullV THEN Zero ELSE v
      [] kind \in {"string", "blob"}         -> IF v = NullV THEN Empty ELSE v
      [] kind = "isNull"                     -> IF v = NullV THEN "null" ELSE "notnull"
      [] kind = "optional"                   -> IF v = NullV THEN Absent ELSE v

(* getInt, getInt64, getDouble, getString, getBlob, isNull and the         *)
(* getOptional* of column c, looked up by name n or given directly.        *)
ReadColumn(kind, c, n) ==
    /\ CheckColumnIndex(c)
    /\ lastRead' = {[kind |-> kind, col |-> c, name |-> n,
                     onRow |-> phase = "row", at |-> <<execs, rowNo>>,
                     val |-> Convert(kind, EngineCell(c))]}
    /\ UNCHANGED <<phase, execs, rowNo, row>>

GetByIndex(kind, c) == ReadColumn(kind, c, "none")

(* The by-name overloads: getColumnIndex, then the by-index getter.        *)
GetByName(kind, n) ==
    /\ ColumnIndexOf(n) # -1
    /\ ReadColumn(kind, ColumnIndexOf(n), n)

-----------------------------------------------------------------------------
(* Execution.                                                              *)

\* What one sqlite3_step call can do after n rows of the execution:
\* SQLITE_ROW with the next row, or SQLITE_DONE or an error code, which
\* halt the statement.
StepOutcome(n) ==
    \/ /\ n < MaxRows
       /\ phase' = "row"
       /\ rowNo' = n + 1
       /\ \E r \in [ColIdx -> Value] : row' = r
    \/ /\ phase' = "halted"
       /\ rowNo' = n
       /\ UNCHANGED row

(* step(): SQLITE_ROW returns true, SQLITE_DONE false, any other code      *)
(* throws.  On a ready statement, or a halted one (which sqlite3_step      *)
(* resets by itself), the call starts a new execution of the SQL.          *)
Step ==
    /\ \/ /\ phase \in {"ready", "halted"}
          /\ execs < MaxExec
          /\ execs' = execs + 1
          /\ StepOutcome(0)
       \/ /\ phase = "row"
          /\ UNCHANGED execs
          /\ StepOutcome(rowNo)
    /\ UNCHANGED lastRead

(* reset(): sqlite3_reset puts the statement back to its start; its       *)
(* return code is ignored.  (clearBindings only touches parameter slots,  *)
(* which SqliteBatch models.)                                             *)
Reset ==
    /\ phase # "ready"
    /\ phase' = "ready"
    /\ rowNo' = 0
    /\ UNCHANGED <<execs, row, lastRead>>

Next ==
    \/ Step
    \/ Reset
    \/ \E kind \in Kinds :
          \/ \E c \in -1 .. Len(Columns) : GetByIndex(kind, c)
          \/ \E n \in Names : GetByName(kind, n)

(* A statement is used by one thread, which may stop using it at any time: *)
(* no fairness.                                                            *)
Spec == Init /\ [][Next]_vars

-----------------------------------------------------------------------------
(* bindAll (src/include/SqliteStatement.hpp): each argument goes through   *)
(* bindParameter, an if-constexpr chain on std::decay_t<T>; the branch     *)
(* that matches calls the bind overload for the argument, and an argument  *)
(* no branch takes fails the static_assert, so the call does not compile. *)
(* C++ types are represented by their names.                               *)

\* The typedef std::int64_t under the platform's data model.
Int64T == IF Platform = "LP64" THEN "long" ELSE "long long"

\* The argument type each bind/bindNull overload takes by exact match.
BindOverloads == {"int", Int64T, "double", "std::string", "const char*",
                  "std::vector<std::byte>"}

\* The branches of bindParameter, in order: the type tested, and the call.
BindBranches ==
    <<[test |-> "int", call |-> "bind"],
      [test |-> "long long", call |-> "bind"],
      [test |-> "double", call |-> "bind"],
      [test |-> "std::string", call |-> "bind"],
      [test |-> "const char*", call |-> "bind"],
      [test |-> "const std::vector<std::byte>&", call |-> "bind"],
      [test |-> "std::nullptr_t", call |-> "bindNull"]>>

(* bindParameter<T> compiles for decayed type t: some branch tests t, and  *)
(* its call resolves: bindNull always, bind(index, value) only with an     *)
(* exact match, since an arithmetic argument converts equally well to      *)
(* int, int64_t and double and the call is then ambiguous.                 *)
BindParameterCompiles(t) ==
    \E k \in DOMAIN BindBranches :
        /\ BindBranches[k].test = t
        /\ BindBranches[k].call = "bindNull" \/ t \in BindOverloads

\* The decayed C++ type of a value of each kind of the closed set of the spec.
CxxTypeOf == [null |-> "std::nullptr_t", int64 |-> Int64T, double |-> "double",
              text |-> "std::string", blob |-> "std::vector<std::byte>"]

-----------------------------------------------------------------------------
(* Properties                                                              *)

\* The spec's name lookup: the first column, in order, that carries name n.
FirstColumnNamed(n) ==
    IF \E i \in ColIdx : Columns[i + 1] = n
      THEN CHOOSE i \in ColIdx : Columns[i + 1] = n /\
                                 \A j \in ColIdx : Columns[j + 1] = n => i <= j
      ELSE -1

(* A getter that returned while a row was current read a column of the    *)
(* result and returned that row's cell, converted as the getter's kind    *)
(* says; one called by name read the first column with that name.         *)
ReadsReturnCurrentCell ==
    \A r \in lastRead :
        /\ r.col \in ColIdx
        /\ r.name # "none" => r.col = FirstColumnNamed(r.name)
        /\ r.onRow /\ r.at = <<execs, rowNo>> /\ phase = "row"
             => r.val = Convert(r.kind, row[r.col])

(* A getter returns a value only from the row the last step() returned     *)
(* true for: reading before the first step, after step() returned false or *)
(* after reset() is an error rather than a silent NULL, 0 or "".           *)
ReadsHaveCurrentRow == \A r \in lastRead : r.onRow

(* The spec's bindAll: on a ready statement (the only state in which      *)
(* SQLite accepts bindings), a value of each kind of the closed set (null, *)
(* 64-bit integer, double, text, blob) can be bound by its concrete kind;  *)
(* none is rejected as unsupported.                                        *)
BindAllCoversValueKinds ==
    phase = "ready" =>
        \A k \in DOMAIN CxxTypeOf : BindParameterCompiles(CxxTypeOf[k])

=============================================================================
