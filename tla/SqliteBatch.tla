------------------------------ MODULE SqliteBatch ------------------------------
(***************************************************************************)
(* SqliteDb::executeBatch (src/include/SqliteDb.hpp): prepare the SQL      *)
(* once, then for every row bind its values to the positions 1, 2, ...    *)
(* through SqliteValueBinder, step, reset and clear the bindings.  The     *)
(* statement is the sdb::SqliteStatement of src/src/SqliteStatement.cpp;   *)
(* its bindings are modelled slot by slot, and the SQLite statement's own  *)
(* rule that an unbound parameter is NULL is what sqlite3_step sees.       *)
(* An exception at any point leaves the loop; the SqliteStatement local    *)
(* is destroyed on the way out and its deleter finalizes the handle.       *)
(***************************************************************************)
EXTENDS Naturals, Sequences

CONSTANTS
    P,        \* placeholders in the SQL (sqlite3_bind_parameter_count)
    Vals,     \* the non-null values a row may carry
    NullV,    \* SQL NULL: std::monostate, and what an unbound slot reads as
    Inputs    \* the row ranges a caller may pass

ASSUME BatchAssumption ==
    /\ P \in Nat
    /\ NullV \notin Vals
    /\ Inputs \subseteq Seq(Seq(Vals \cup {NullV}))

VARIABLES
    rows,      \* the caller's input range
    pc,        \* where executeBatch is
    i,         \* the row being processed
    idx,       \* the next parameter index the binder uses
    bindings,  \* bindings[k]: the value bound to parameter k
    stmt,      \* the SqliteStatementPtr: "none", "live" or "finalized"
    executed   \* ghost: the parameter tuples sqlite3_step ran with, in order

vars == <<rows, pc, i, idx, bindings, stmt, executed>>

Params == 1..P
Value == Vals \cup {NullV}
\* A freshly prepared statement, and one after sqlite3_clear_bindings.
Cleared == [k \in Params |-> NullV]

TypeOK ==
    /\ rows \in Inputs
    /\ pc \in {"prepare", "bind", "step", "reset", "ok", "error"}
    /\ i \in Nat \ {0}
    /\ idx \in Nat \ {0}
    /\ bindings \in [Params -> Value]
    /\ stmt \in {"none", "live", "finalized"}
    /\ executed \in Seq([Params -> Value])

Init ==
    /\ rows \in Inputs
    /\ pc = "prepare"
    /\ i = 1
    /\ idx = 1
    /\ bindings = Cleared
    /\ stmt = "none"
    /\ executed = <<>>

(* SqliteStatement::checkParameterIndex: index >= 1, and index no greater *)
(* than getParameterCount(); otherwise a SqliteStatementException.         *)
ParamIndexValid(k) == k >= 1 /\ k <= P

(* SqliteValueBinder::bind: std::visit sends monostate to bindNull and    *)
(* int64, double, string and blob to the matching SqliteStatement::bind;   *)
(* each stores the value in parameter slot k.                              *)
BindSlot(b, k, v) == [b EXCEPT ![k] = v]

\* Leaving executeBatch by an exception: the statement, if any, is finalized.
Throw ==
    /\ pc' = "error"
    /\ stmt' = IF stmt = "live" THEN "finalized" ELSE stmt
    /\ UNCHANGED <<rows, i, idx, bindings, executed>>

-----------------------------------------------------------------------------
(* auto stmt = prepare(sql): SqliteDb::prepare; the mConnection check      *)
(* before it cannot fail, since an SqliteDb only exists with a handle.     *)
(* With an empty range the loop body never runs and the statement is      *)
(* finalized as executeBatch returns.                                      *)
Prepare ==
    /\ pc = "prepare"
    /\ \/ /\ Len(rows) > 0
          /\ stmt' = "live"
          /\ pc' = "bind"
          /\ UNCHANGED <<rows, i, idx, bindings, executed>>
       \/ /\ Len(rows) = 0
          /\ stmt' = "finalized"
          /\ pc' = "ok"
          /\ UNCHANGED <<rows, i, idx, bindings, executed>>
       \/ Throw    \* sqlite3_prepare_v2 != SQLITE_OK

(* binder.bind(idx++, v): SqliteValueBinder::bind dispatches on the kind   *)
(* to SqliteStatement::bind or bindNull, each of which first runs          *)
(* checkParameterIndex (1 <= idx <= getParameterCount()) and then the      *)
(* sqlite3_bind_* call, which may still fail (SQLITE_TOOBIG, NOMEM).       *)
Bind ==
    /\ pc = "bind"
    /\ idx <= Len(rows[i])
    /\ \/ /\ ParamIndexValid(idx)
          /\ bindings' = BindSlot(bindings, idx, rows[i][idx])
          /\ idx' = idx + 1
          /\ UNCHANGED <<rows, pc, i, stmt, executed>>
       \/ /\ ~ParamIndexValid(idx) \* "Parameter index ... out of range"
          /\ Throw
       \/ /\ ParamIndexValid(idx)  \* the sqlite3_bind_* call fails
          /\ Throw

\* The inner loop is over: every value of the row has been bound.
RowBound ==
    /\ pc = "bind"
    /\ idx > Len(rows[i])
    /\ pc' = "step"
    /\ UNCHANGED <<rows, i, idx, bindings, stmt, executed>>

(* stmt.step(): SQLITE_ROW and SQLITE_DONE return, any other code throws  *)
(* "Step failed with error code".  The row runs with the current bindings. *)
Step ==
    /\ pc = "step"
    /\ \/ /\ executed' = Append(executed, bindings)
          /\ pc' = "reset"
          /\ UNCHANGED <<rows, i, idx, bindings, stmt>>
       \/ Throw

\* Mutant: the loop resets the statement but does not clear its bindings.
ResetRowKeepsBindings ==
    /\ pc = "reset"
    /\ i' = i + 1
    /\ idx' = 1
    /\ IF i < Len(rows)
         THEN /\ pc' = "bind"
              /\ UNCHANGED stmt
         ELSE /\ pc' = "ok"
              /\ stmt' = "finalized"
    /\ UNCHANGED <<rows, bindings, executed>>

(* stmt.reset(); stmt.clearBindings(); then the next row, or the end of   *)
(* the loop, where the statement goes out of scope and is finalized.      *)
ResetRow ==
    /\ pc = "reset"
    /\ bindings' = Cleared
    /\ i' = i + 1
    /\ idx' = 1
    /\ IF i < Len(rows)
         THEN /\ pc' = "bind"
              /\ UNCHANGED stmt
         ELSE /\ pc' = "ok"
              /\ stmt' = "finalized"
    /\ UNCHANGED <<rows, executed>>

Next == Prepare \/ Bind \/ RowBound \/ Step \/ ResetRow

(* executeBatch is one synchronous call: once it has returned or thrown     *)
(* (pc is "ok" or "error") nothing is left to do.                          *)
Spec == Init /\ [][Next]_vars

-----------------------------------------------------------------------------
(* Properties                                                              *)

\* The parameters sqlite3_step sees for row r: its values, NULL after them.
Padded(r) == [k \in Params |-> IF k <= Len(r) THEN r[k] ELSE NullV]

(* The partial-failure contract of executeBatch: the k-th step ran with    *)
(* exactly the k-th row's values and nothing left over from an earlier     *)
(* row; a batch that returns ran every row once, in order; one that throws *)
(* ran only the rows before the failing one.                               *)
BatchOutcome ==
    /\ Len(executed) <= Len(rows)
    /\ \A k \in 1..Len(executed) : executed[k] = Padded(rows[k])
    /\ pc = "ok" => Len(executed) = Len(rows)
    /\ pc = "error" => Len(executed) < Len(rows) \/ Len(rows) = 0

(* What the header and the spec require of the input: a row is executed    *)
(* only if it has exactly one value per placeholder.                       *)
RowsMatchPlaceholders ==
    \A k \in 1..Len(executed) : Len(rows[k]) = P


(* Refinement of BatchContract.  The caller's range is the input, the     *)
(* tuples sqlite3_step ran with are the applied rows, and the call has an *)
(* outcome once pc is "ok" or "error".                                     *)
Outcome == IF pc \in {"ok", "error"} THEN pc ELSE "running"

Contract == INSTANCE BatchContract
    WITH input <- rows, applied <- executed, outcome <- Outcome

(* executeBatch implements its contract: each sqlite3_step runs the next  *)
(* row with exactly that row's values (the clearBindings of the loop      *)
(* leaves no value of an earlier row behind), and it returns only after   *)
(* the last row and throws only before one.                               *)
ImplementsBatchContract == Contract!ContractSpec

=============================================================================
