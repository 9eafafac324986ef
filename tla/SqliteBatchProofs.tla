--------------------------- MODULE SqliteBatchProofs ---------------------------
(***************************************************************************)
(* Machine-checked proof of the partial-failure contract of executeBatch,  *)
(* for every number of placeholders and every set of input ranges.         *)
(***************************************************************************)
EXTENDS SqliteBatch, SequenceTheorems, TLAPS

(* BatchOutcome is not inductive: a Step appends the current bindings, so *)
(* the invariant must say what they are.  While row i is being bound, the *)
(* slots before idx hold its values and the rest are NULL (the clear of    *)
(* the previous row); at the step idx is past its last value, so the       *)
(* bindings are exactly Padded(rows[i]); and the steps run so far are one  *)
(* per row before i, or up to i once it has stepped.                       *)
BoundSoFar == [k \in Params |-> IF k < idx THEN rows[i][k] ELSE NullV]

BInv ==
    /\ TypeOK
    /\ Len(executed) <= Len(rows)
    /\ \A k \in 1 .. Len(executed) : executed[k] = Padded(rows[k])
    /\ pc = "prepare" => executed = << >> /\ i = 1 /\ idx = 1 /\ bindings = Cleared
    /\ pc \in {"bind", "step"} =>
          /\ i \in 1 .. Len(rows)
          /\ Len(executed) = i - 1
          /\ idx \in 1 .. Len(rows[i]) + 1
          /\ bindings = BoundSoFar
    /\ pc = "step" => idx = Len(rows[i]) + 1
    /\ pc = "reset" => i \in 1 .. Len(rows) /\ Len(executed) = i
    /\ pc = "ok" => Len(executed) = Len(rows)
    /\ pc = "error" => Len(executed) < Len(rows) \/ Len(rows) = 0

USE BatchAssumption DEF Value, Params

\* A row of the input is a sequence of values.
LEMMA RowIsSeq ==
    ASSUME TypeOK, NEW k \in 1 .. Len(rows)
    PROVE  rows[k] \in Seq(Value)
  BY ElementOfSeq DEF TypeOK

\* It holds initially.
LEMMA InitBInv == Init => BInv
  BY DEF Init, BInv, TypeOK, Cleared

\* Leaving by an exception from bind or step: fewer steps than rows.
LEMMA ThrowKeepsBInv ==
    ASSUME BInv, pc \in {"bind", "step"}, Throw
    PROVE  BInv'
  BY DEF BInv, TypeOK, Throw

\* Every step preserves it.
LEMMA NextBInv == BInv /\ [Next]_vars => BInv'
<1> SUFFICES ASSUME BInv, [Next]_vars PROVE BInv'
  OBVIOUS
<1>1. CASE Prepare
  <2>1. CASE Len(rows) > 0 /\ stmt' = "live" /\ pc' = "bind"
             /\ UNCHANGED <<rows, i, idx, bindings, executed>>
    BY <2>1, <1>1 DEF Prepare, BInv, TypeOK, BoundSoFar, Cleared
  <2>2. CASE Len(rows) = 0 /\ stmt' = "finalized" /\ pc' = "ok"
             /\ UNCHANGED <<rows, i, idx, bindings, executed>>
    BY <2>2, <1>1 DEF Prepare, BInv, TypeOK
  <2>3. CASE Throw
    BY <2>3, <1>1 DEF Prepare, BInv, TypeOK, Throw
  <2>4. QED
    BY <1>1, <2>1, <2>2, <2>3 DEF Prepare
<1>2. CASE Bind
  <2>1. i \in 1 .. Len(rows) /\ idx \in 1 .. Len(rows[i])
    BY <1>2 DEF Bind, BInv
  <2>2. rows[i] \in Seq(Value)
    BY <2>1, RowIsSeq DEF BInv
  <2>3. CASE ParamIndexValid(idx) /\ bindings' = BindSlot(bindings, idx, rows[i][idx])
             /\ idx' = idx + 1 /\ UNCHANGED <<rows, pc, i, stmt, executed>>
    <3>1. rows[i][idx] \in Value
      BY <2>1, <2>2, ElementOfSeq
    <3>2. bindings' = BoundSoFar'
      <4>1. bindings = BoundSoFar /\ idx \in Params
        BY <1>2, <2>3 DEF Bind, BInv, ParamIndexValid
      <4>2. BoundSoFar' = [k \in Params |-> IF k < idx + 1 THEN rows[i][k] ELSE NullV]
        BY <2>3 DEF BoundSoFar
      <4>3. bindings' = [BoundSoFar EXCEPT ![idx] = rows[i][idx]]
        BY <2>3, <4>1 DEF BindSlot
      <4>4. [BoundSoFar EXCEPT ![idx] = rows[i][idx]]
              = [k \in Params |-> IF k < idx + 1 THEN rows[i][k] ELSE NullV]
        BY <4>1 DEF BoundSoFar
      <4>5. QED
        BY <4>2, <4>3, <4>4
    <3>3. QED
      BY <1>2, <2>1, <2>3, <3>1, <3>2 DEF Bind, BInv, TypeOK, ParamIndexValid, BindSlot
  <2>4. CASE Throw
    BY <1>2, <2>4, ThrowKeepsBInv DEF Bind
  <2>5. QED
    BY <1>2, <2>3, <2>4 DEF Bind
<1>3. CASE RowBound
  BY <1>3 DEF RowBound, BInv, TypeOK, BoundSoFar
<1>4. CASE Step
  <2>1. CASE executed' = Append(executed, bindings) /\ pc' = "reset"
             /\ UNCHANGED <<rows, i, idx, bindings, stmt>>
    <3>1. bindings = Padded(rows[i])
      BY <1>4, <2>1 DEF Step, BInv, BoundSoFar, Padded
    <3>2. /\ Len(executed') = Len(executed) + 1
          /\ \A k \in 1 .. Len(executed) : executed'[k] = executed[k]
          /\ executed'[Len(executed) + 1] = bindings
          /\ executed' \in Seq([Params -> Value])
      BY <2>1, AppendProperties DEF BInv, TypeOK
    <3>3. QED
      BY <1>4, <2>1, <3>1, <3>2 DEF Step, BInv, TypeOK
  <2>2. CASE Throw
    BY <1>4, <2>2, ThrowKeepsBInv DEF Step
  <2>3. QED
    BY <1>4, <2>1, <2>2 DEF Step
<1>5. CASE ResetRow
  BY <1>5 DEF ResetRow, BInv, TypeOK, BoundSoFar, Cleared
<1>6. CASE UNCHANGED vars
  BY <1>6 DEF vars, BInv, TypeOK, BoundSoFar
<1>7. QED
  BY <1>1, <1>2, <1>3, <1>4, <1>5, <1>6 DEF Next

(* The partial-failure contract of executeBatch holds for every number of *)
(* placeholders and every input: each step ran with exactly its row's      *)
(* values padded with NULL, a returning batch ran every row in order, and  *)
(* a throwing one only the rows before the failing one.                    *)
THEOREM BatchOutcomeHolds == Spec => []BatchOutcome
<1>1. BInv => BatchOutcome
  BY DEF BInv, BatchOutcome
<1>2. QED
  BY InitBInv, NextBInv, <1>1, PTL DEF Spec


-----------------------------------------------------------------------------
(* Refinement of BatchContract.  Under BInv the mapping is a step of the  *)
(* contract exactly at sqlite3_step (ApplyRow: the bindings are the padded *)
(* row, and row i is the next one since i - 1 rows have run), at the      *)
(* return (Succeed: the last row has been reset, or the range is empty)    *)
(* and at a throw (Fail: before row i, or before anything).  Binding,      *)
(* resetting a row that is not the last and a prepare that succeeds on a   *)
(* non-empty range leave the contract's variables alone.                  *)

\* The contract's view of a row is the one the batch's properties use.
LEMMA RowParamsIsPadded ==
    ASSUME NEW r PROVE Contract!RowParams(r) = Padded(r)
  BY DEF Contract!RowParams, Padded

\* A throw from prepare, bind or step is the contract's Fail.
LEMMA ThrowRefines ==
    ASSUME BInv, pc \in {"prepare", "bind", "step"}, Throw
    PROVE  Contract!Fail
  BY DEF BInv, TypeOK, Throw, Contract!Fail, Outcome

\* Every step of executeBatch is a step of the contract or leaves it alone.
LEMMA NextRefines ==
    BInv /\ [Next]_vars => [Contract!ContractNext]_Contract!cvars
<1> SUFFICES ASSUME BInv, [Next]_vars
             PROVE  [Contract!ContractNext]_Contract!cvars
  OBVIOUS
<1>1. CASE Prepare
  <2>1. CASE Len(rows) > 0 /\ stmt' = "live" /\ pc' = "bind"
             /\ UNCHANGED <<rows, i, idx, bindings, executed>>
    BY <1>1, <2>1 DEF Prepare, Contract!cvars, Outcome
  <2>2. CASE Len(rows) = 0 /\ stmt' = "finalized" /\ pc' = "ok"
             /\ UNCHANGED <<rows, i, idx, bindings, executed>>
    <3>1. Contract!Succeed
      BY <1>1, <2>2 DEF Prepare, BInv, Contract!Succeed, Outcome
    <3>2. QED
      BY <3>1 DEF Contract!ContractNext
  <2>3. CASE Throw
    BY <1>1, <2>3, ThrowRefines DEF Prepare, Contract!ContractNext
  <2>4. QED
    BY <1>1, <2>1, <2>2, <2>3 DEF Prepare
<1>2. CASE Bind
  <2>1. CASE ParamIndexValid(idx) /\ bindings' = BindSlot(bindings, idx, rows[i][idx])
             /\ idx' = idx + 1 /\ UNCHANGED <<rows, pc, i, stmt, executed>>
    BY <1>2, <2>1 DEF Bind, Contract!cvars, Outcome
  <2>2. CASE Throw
    BY <1>2, <2>2, ThrowRefines DEF Bind, Contract!ContractNext
  <2>3. QED
    BY <1>2, <2>1, <2>2 DEF Bind
<1>3. CASE RowBound
  BY <1>3 DEF RowBound, Contract!cvars, Outcome
<1>4. CASE Step
  <2>1. CASE executed' = Append(executed, bindings) /\ pc' = "reset"
             /\ UNCHANGED <<rows, i, idx, bindings, stmt>>
    <3>1. i \in 1 .. Len(rows) /\ Len(executed) = i - 1
      BY <1>4 DEF Step, BInv
    <3>2. bindings = Padded(rows[i])
      BY <1>4 DEF Step, BInv, BoundSoFar, Padded
    <3>3. executed' = Append(executed, Contract!RowParams(rows[Len(executed) + 1]))
      BY <2>1, <3>1, <3>2, RowParamsIsPadded
    <3>4. Contract!ApplyRow
      BY <1>4, <2>1, <3>1, <3>3 DEF Step, Contract!ApplyRow, Outcome
    <3>5. QED
      BY <3>4 DEF Contract!ContractNext
  <2>2. CASE Throw
    BY <1>4, <2>2, ThrowRefines DEF Step, Contract!ContractNext
  <2>3. QED
    BY <1>4, <2>1, <2>2 DEF Step
<1>5. CASE ResetRow
  <2>1. CASE i < Len(rows)
    BY <1>5, <2>1 DEF ResetRow, Contract!cvars, Outcome
  <2>2. CASE ~(i < Len(rows))
    <3>1. Contract!Succeed
      BY <1>5, <2>2 DEF ResetRow, BInv, TypeOK, Contract!Succeed, Outcome
    <3>2. QED
      BY <3>1 DEF Contract!ContractNext
  <2>3. QED
    BY <2>1, <2>2
<1>6. CASE UNCHANGED vars
  BY <1>6 DEF vars, Contract!cvars, Outcome
<1>7. QED
  BY <1>1, <1>2, <1>3, <1>4, <1>5, <1>6 DEF Next

(* executeBatch implements BatchContract, for every number of             *)
(* placeholders and every set of input ranges: the steps it runs are the  *)
(* caller's rows in order, each with exactly its own values, and it       *)
(* returns only after all of them and throws only before one.             *)
THEOREM RefinesBatchContract == Spec => ImplementsBatchContract
<1>1. Init => Contract!ContractInit
  BY DEF Init, Contract!ContractInit, Outcome
<1>2. QED
  BY <1>1, InitBInv, NextBInv, NextRefines, PTL
     DEF Spec, ImplementsBatchContract, Contract!ContractSpec

=============================================================================
