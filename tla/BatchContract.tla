----------------------------- MODULE BatchContract -----------------------------
(***************************************************************************)
(* What executeBatch promises its caller (spec.md, 4.1 and section 8):    *)
(* the rows are executed one at a time, in order, each with exactly its   *)
(* own values in positions 1, 2, ... and nothing left over from an        *)
(* earlier row; the call returns once every row has run, or fails after   *)
(* a prefix of them, which is not undone.  Nothing here says how:         *)
(* SqliteBatch is shown to implement it.                                   *)
(***************************************************************************)
EXTENDS Naturals, Sequences

CONSTANTS
    P,        \* placeholders in the SQL
    NullV,    \* what a parameter with no value reads as
    Inputs    \* the row ranges a caller may pass

VARIABLES
    input,    \* the caller's rows
    applied,  \* the parameter tuples executed so far, in order
    outcome   \* "running", then "ok" (returned) or "error" (thrown)

cvars == <<input, applied, outcome>>

\* The parameters one execution of row r sees: its values, NULL after them.
RowParams(r) == [k \in 1 .. P |-> IF k <= Len(r) THEN r[k] ELSE NullV]

ContractInit ==
    /\ input \in Inputs
    /\ applied = << >>
    /\ outcome = "running"

\* The next row runs, with its own parameters.
ApplyRow ==
    /\ outcome = "running"
    /\ Len(applied) < Len(input)
    /\ applied' = Append(applied, RowParams(input[Len(applied) + 1]))
    /\ UNCHANGED <<input, outcome>>

\* Every row has run: the call returns.
Succeed ==
    /\ outcome = "running"
    /\ Len(applied) = Len(input)
    /\ outcome' = "ok"
    /\ UNCHANGED <<input, applied>>

(* The call fails before some row has run, or before any work at all on   *)
(* an empty range (the prepare fails); the rows already run stay applied. *)
Fail ==
    /\ outcome = "running"
    /\ Len(applied) < Len(input) \/ Len(input) = 0
    /\ outcome' = "error"
    /\ UNCHANGED <<input, applied>>

ContractNext == ApplyRow \/ Succeed \/ Fail

ContractSpec == ContractInit /\ [][ContractNext]_cvars

=============================================================================
