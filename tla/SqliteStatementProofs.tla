-------------------------- MODULE SqliteStatementProofs --------------------------
(***************************************************************************)
(* Machine-checked proofs about SqliteStatement for every result shape,    *)
(* every set of values and every bound on executions and rows.             *)
(***************************************************************************)
EXTENDS SqliteStatement, WellFoundedInduction, TLAPS

(* ReadsReturnCurrentCell is not inductive: a step may put a new row in    *)
(* place, and the invariant must say that the last read can then no        *)
(* longer pass for a read of the current row.  A read made on a row is      *)
(* stamped with the execution and row number; executions only grow, and    *)
(* within the current execution the row number only grows until a reset,   *)
(* after which the next step starts a new execution.                       *)
ReadBefore(r) ==
    r.onRow => \/ r.at[1] < execs
               \/ r.at[1] = execs /\ (phase # "ready" => r.at[2] <= rowNo)

SInv ==
    /\ TypeOK
    /\ ReadsReturnCurrentCell
    /\ \A r \in lastRead : ReadBefore(r)

-----------------------------------------------------------------------------
(* getColumnIndex computes the first column with the name.  The recursive  *)
(* function Search of ColumnIndexOf is the CHOOSE of a function meeting    *)
(* its defining equation, SearchDef; the closed form FirstFrom(n, i), the  *)
(* least matching index at or after i, meets it, and any function that     *)
(* meets it agrees with FirstFrom, by a downward argument over the indices *)
(* (a least counterexample, from the well-foundedness of < on Nat).        *)

SearchDef(n, f) ==
    f = [i \in 0 .. Len(Columns) |->
            IF i = Len(Columns) THEN -1
            ELSE IF Columns[i + 1] = n THEN i ELSE f[i + 1]]

\* The indices at or after i whose column is named n.
MatchesFrom(n, i) == {j \in i .. Len(Columns) - 1 : Columns[j + 1] = n}

\* The least of them, or -1.
FirstFrom(n, i) ==
    IF MatchesFrom(n, i) # {}
      THEN CHOOSE j \in MatchesFrom(n, i) : \A k \in MatchesFrom(n, i) : j <= k
      ELSE -1

\* ColumnIndexOf is the first value of the function SearchDef describes.
LEMMA ColumnIndexOfIsSearch ==
    ASSUME NEW n
    PROVE  ColumnIndexOf(n) = (CHOOSE f : SearchDef(n, f))[0]
  BY DEF ColumnIndexOf, SearchDef

\* The number of columns is a natural number.
LEMMA LenColumns == Len(Columns) \in Nat
  BY StatementAssumption

\* FirstFrom meets the defining equation of the search at every index.
LEMMA FirstFromStep ==
    ASSUME NEW n, NEW i \in 0 .. Len(Columns)
    PROVE  FirstFrom(n, i) =
               IF i = Len(Columns) THEN -1
               ELSE IF Columns[i + 1] = n THEN i ELSE FirstFrom(n, i + 1)
<1>1. CASE i = Len(Columns)
  <2>1. MatchesFrom(n, i) = {}
    BY <1>1, LenColumns DEF MatchesFrom
  <2>2. QED
    BY <1>1, <2>1 DEF FirstFrom
<1>2. CASE i # Len(Columns) /\ Columns[i + 1] = n
  \* i itself is the least match, and the only element that is least.
  <2>1. i \in MatchesFrom(n, i) /\ \A k \in MatchesFrom(n, i) : i <= k
    BY <1>2, LenColumns DEF MatchesFrom
  <2>2. \A j \in MatchesFrom(n, i) :
            (\A k \in MatchesFrom(n, i) : j <= k) => j = i
    BY <2>1, LenColumns DEF MatchesFrom
  <2>3. QED
    BY <1>2, <2>1, <2>2 DEF FirstFrom
<1>3. CASE i # Len(Columns) /\ Columns[i + 1] # n
  \* Index i does not match, so the matches from i are those from i + 1.
  <2>1. MatchesFrom(n, i) = MatchesFrom(n, i + 1)
    BY <1>3, LenColumns DEF MatchesFrom
  <2>2. FirstFrom(n, i) = FirstFrom(n, i + 1)
    BY <2>1 DEF FirstFrom
  <2>3. QED
    BY <1>3, <2>2
<1>4. QED
  BY <1>1, <1>2, <1>3

\* A nonempty set of natural numbers has a least element (from the
\* well-foundedness of < on Nat).
LEMMA NatSetHasLeast ==
    ASSUME NEW T \in SUBSET Nat, T # {}
    PROVE  \E x \in T : \A y \in T : x <= y
<1>1. PICK x \in T : \A y \in T : ~(<<y, x>> \in OpToRel(<, Nat))
  BY NatLessThanWellFounded, WFMin
<1>2. \A y \in T : ~(y < x)
  BY <1>1 DEF OpToRel
<1>3. QED
  BY <1>2

\* The search is well defined: the table of FirstFrom meets its equation.
LEMMA SearchExists ==
    ASSUME NEW n
    PROVE  \E f : SearchDef(n, f)
<1> DEFINE g == [i \in 0 .. Len(Columns) |-> FirstFrom(n, i)]
<1>1. \A i \in 0 .. Len(Columns) :
          g[i] = IF i = Len(Columns) THEN -1
                 ELSE IF Columns[i + 1] = n THEN i ELSE g[i + 1]
  <2> TAKE i \in 0 .. Len(Columns)
  <2>1. i # Len(Columns) => i + 1 \in 0 .. Len(Columns)
    BY LenColumns
  <2>2. QED
    BY <2>1, FirstFromStep
<1>2. SearchDef(n, g)
  BY <1>1 DEF SearchDef
<1>3. QED
  BY <1>2

\* Any function meeting the equation is FirstFrom: otherwise take the
\* disagreeing index closest to the end; it is not the last index, and the
\* equation and FirstFromStep carry the agreement at the next index to it.
LEMMA SearchUnique ==
    ASSUME NEW n, NEW f, SearchDef(n, f)
    PROVE  \A i \in 0 .. Len(Columns) : f[i] = FirstFrom(n, i)
<1> DEFINE L == Len(Columns)
           Bad == {m \in 0 .. L : f[L - m] # FirstFrom(n, L - m)}
<1> USE DEF L, Bad
<1>1. L \in Nat
  BY LenColumns
<1> SUFFICES Bad = {}
  <2>1. ASSUME Bad = {}, NEW i \in 0 .. L PROVE f[i] = FirstFrom(n, i)
    <3>1. L - i \in 0 .. L /\ L - (L - i) = i
      BY <1>1
    <3>2. QED
      BY <2>1, <3>1
  <2>2. QED
    BY <2>1
<1>2. SUFFICES ASSUME Bad # {} PROVE FALSE
  OBVIOUS
<1>3. PICK m \in Bad : \A y \in Bad : m <= y
  <2>1. Bad \subseteq Nat
    BY <1>1
  <2>2. QED
    BY <1>2, <2>1, NatSetHasLeast
<1> DEFINE i == L - m
<1> USE DEF i
<1>4. i \in 0 .. L /\ f[i] # FirstFrom(n, i)
  BY <1>1, <1>3
<1>5. f[i] = IF i = L THEN -1 ELSE IF Columns[i + 1] = n THEN i ELSE f[i + 1]
  BY <1>4 DEF SearchDef
<1>6. FirstFrom(n, i) =
          IF i = L THEN -1 ELSE IF Columns[i + 1] = n THEN i ELSE FirstFrom(n, i + 1)
  BY <1>4, FirstFromStep
<1>7. CASE i = L \/ Columns[i + 1] = n
  BY <1>4, <1>5, <1>6, <1>7
<1>8. CASE i # L /\ Columns[i + 1] # n
  \* m - 1 is smaller than m, so not in Bad: f agrees with FirstFrom at i + 1.
  <2>1. m - 1 \in 0 .. L /\ ~(m <= m - 1) /\ L - (m - 1) = i + 1
    BY <1>1, <1>3, <1>8
  <2>2. m - 1 \notin Bad
    BY <1>3, <2>1
  <2>3. f[i + 1] = FirstFrom(n, i + 1)
    BY <2>1, <2>2
  <2>4. QED
    BY <1>4, <1>5, <1>6, <1>8, <2>3
<1>9. QED
  BY <1>7, <1>8

\* getColumnIndex returns the spec's first column of that name, or -1.
THEOREM ColumnIndexOfFirst ==
    ASSUME NEW n
    PROVE  /\ ColumnIndexOf(n) = FirstColumnNamed(n)
           /\ ColumnIndexOf(n) \in ColIdx \cup {-1}
<1> DEFINE M == MatchesFrom(n, 0)
<1>1. ColumnIndexOf(n) = FirstFrom(n, 0)
  <2>1. SearchDef(n, CHOOSE f : SearchDef(n, f))
    BY SearchExists
  <2>2. 0 \in 0 .. Len(Columns)
    BY LenColumns
  <2>3. QED
    BY <2>1, <2>2, SearchUnique, ColumnIndexOfIsSearch
<1>2. M = {i \in ColIdx : Columns[i + 1] = n}
  BY DEF MatchesFrom, ColIdx
<1>3. CASE M = {}
  BY <1>1, <1>2, <1>3 DEF FirstFrom, FirstColumnNamed, ColIdx
<1>4. CASE M # {}
  \* M has a least element, so both CHOOSEs pick a least element of M.
  <2>1. PICK m0 \in M : \A k \in M : m0 <= k
    <3>1. M \subseteq Nat
      BY LenColumns DEF MatchesFrom
    <3>2. QED
      BY <1>4, <3>1, NatSetHasLeast
  <2> DEFINE c1 == CHOOSE j \in M : \A k \in M : j <= k
             c2 == CHOOSE i \in ColIdx : Columns[i + 1] = n /\
                       \A j \in ColIdx : Columns[j + 1] = n => i <= j
  <2>3. c1 \in M /\ \A k \in M : c1 <= k
    BY <2>1
  <2>4. c2 \in M /\ \A k \in M : c2 <= k
    BY <1>2, <2>1
  <2>5. c1 = c2
    <3> HIDE DEF c1, c2
    <3>1. c1 \in Nat /\ c2 \in Nat /\ c1 <= c2 /\ c2 <= c1
      BY <2>3, <2>4, LenColumns DEF MatchesFrom
    <3>2. QED
      BY <3>1
  <2>6. FirstFrom(n, 0) = c1 /\ FirstColumnNamed(n) = c2
    BY <1>2, <1>4 DEF FirstFrom, FirstColumnNamed
  <2>7. QED
    <3>1. c1 \in ColIdx
      BY <1>2, <2>3
    <3>2. QED
      BY <1>1, <2>5, <2>6, <3>1
<1>5. QED
  BY <1>3, <1>4

-----------------------------------------------------------------------------
(* SInv is inductive.                                                      *)

USE StatementAssumption, LenColumns DEF ColIdx, Value, Kinds, Zero, Empty, Absent

\* What a getter returns is a value or one of the NULL stand-ins.
LEMMA ConvertType ==
    ASSUME NEW kind \in Kinds, NEW v \in Value
    PROVE  Convert(kind, v) \in Value \cup {Zero, Empty, Absent, "null", "notnull"}
  BY DEF Convert

LEMMA InitSInv == Init => SInv
  BY DEF Init, SInv, TypeOK, ReadsReturnCurrentCell

\* A getter call: the new read names an in-range column, the first of its
\* name when looked up by name, and the cell of the current row.
LEMMA ReadKeepsSInv ==
    ASSUME SInv, NEW kind \in Kinds, NEW c \in Int, NEW nm \in Names \cup {"none"},
           ReadColumn(kind, c, nm),
           nm # "none" => c = FirstColumnNamed(nm)
    PROVE  SInv'
<1> DEFINE r == [kind |-> kind, col |-> c, name |-> nm,
                 onRow |-> phase = "row", at |-> <<execs, rowNo>>,
                 val |-> Convert(kind, EngineCell(c))]
<1>1. lastRead' = {r}
  BY DEF ReadColumn
<1>2. c \in ColIdx
  BY DEF ReadColumn, CheckColumnIndex
<1>3. UNCHANGED <<phase, execs, rowNo, row>>
  BY DEF ReadColumn
<1>4. EngineCell(c) \in Value
  BY <1>2 DEF EngineCell, SInv, TypeOK
<1>5. r \in Read
  <2>1. Convert(kind, EngineCell(c)) \in Value \cup {Zero, Empty, Absent, "null", "notnull"}
    BY <1>4, ConvertType
  <2>2. <<execs, rowNo>> \in Nat \X Nat
    BY DEF SInv, TypeOK
  <2>3. QED
    BY <1>2, <2>1, <2>2 DEF Read
<1>6. TypeOK'
  BY <1>1, <1>3, <1>5 DEF SInv, TypeOK
<1>7. ReadsReturnCurrentCell'
  <2>1. phase = "row" => r.val = Convert(kind, row[c])
    BY <1>2 DEF EngineCell
  <2>2. QED
    BY <1>1, <1>2, <1>3, <2>1 DEF ReadsReturnCurrentCell
<1>8. \A q \in lastRead' : ReadBefore(q)'
  \* The read is stamped with the current execution and row.
  <2>1. r.at[1] = execs' /\ r.at[2] = rowNo' /\ rowNo' \in Nat
    BY <1>3 DEF SInv, TypeOK
  <2>2. r.at[1] = execs' /\ (phase' # "ready" => r.at[2] <= rowNo')
    BY <2>1
  <2>3. QED
    BY <1>1, <2>2 DEF ReadBefore
<1>9. QED
  BY <1>6, <1>7, <1>8 DEF SInv

\* Every step preserves SInv.
LEMMA NextSInv == SInv /\ [Next]_vars => SInv'
<1> SUFFICES ASSUME SInv, [Next]_vars PROVE SInv'
  OBVIOUS
<1>1. CASE Step
  <2>1. CASE phase \in {"ready", "halted"} /\ execs < MaxExec
             /\ execs' = execs + 1 /\ StepOutcome(0)
    \* A new execution: every earlier read is stamped with an older one.
    <3>1. TypeOK'
      BY <1>1, <2>1 DEF Step, StepOutcome, SInv, TypeOK
    <3>2. \A r \in lastRead' : r.onRow => r.at[1] < execs'
      BY <1>1, <2>1 DEF Step, SInv, TypeOK, ReadBefore, Read
    <3>3. QED
      BY <1>1, <2>1, <3>1, <3>2 DEF Step, SInv, ReadsReturnCurrentCell, ReadBefore
  <2>2. CASE phase = "row" /\ UNCHANGED execs /\ StepOutcome(rowNo)
    \* The same execution: a new row has a higher number, a halt no row.
    <3>1. TypeOK'
      BY <1>1, <2>2 DEF Step, StepOutcome, SInv, TypeOK
    <3>2. \A r \in lastRead' : ReadBefore(r)'
      BY <1>1, <2>2 DEF Step, StepOutcome, SInv, TypeOK, ReadBefore, Read
    <3>3. \A r \in lastRead' :
              r.onRow /\ r.at = <<execs', rowNo'>> /\ phase' = "row" => FALSE
      BY <1>1, <2>2 DEF Step, StepOutcome, SInv, TypeOK, ReadBefore, Read
    <3>4. QED
      BY <1>1, <2>2, <3>1, <3>2, <3>3 DEF Step, SInv, ReadsReturnCurrentCell
  <2>3. QED
    BY <1>1, <2>1, <2>2 DEF Step
<1>2. CASE Reset
  BY <1>2 DEF Reset, SInv, TypeOK, ReadsReturnCurrentCell, ReadBefore, Read
<1>3. ASSUME NEW kind \in Kinds, NEW c \in -1 .. Len(Columns), GetByIndex(kind, c)
      PROVE  SInv'
  BY <1>3, ReadKeepsSInv DEF GetByIndex
<1>4. ASSUME NEW kind \in Kinds, NEW n \in Names, GetByName(kind, n)
      PROVE  SInv'
  <2>1. ColumnIndexOf(n) \in Int /\ ColumnIndexOf(n) = FirstColumnNamed(n)
    BY ColumnIndexOfFirst
  <2>2. QED
    BY <1>4, <2>1, ReadKeepsSInv DEF GetByName
<1>5. CASE UNCHANGED vars
  BY <1>5 DEF vars, SInv, TypeOK, ReadsReturnCurrentCell, ReadBefore
<1>6. QED
  BY <1>1, <1>2, <1>3, <1>4, <1>5 DEF Next

(* A getter called while a row is current returns that row's cell of an    *)
(* in-range column, converted as its kind says, and a getter called by     *)
(* name reads the first column of that name: for every result shape,       *)
(* including duplicate column names, and every number of executions and   *)
(* rows, whatever steps, resets and reads came before.                     *)
THEOREM ReadsReturnCurrentCellHolds == Spec => []ReadsReturnCurrentCell
<1>1. SInv => ReadsReturnCurrentCell
  BY DEF SInv
<1>2. QED
  BY InitSInv, NextSInv, <1>1, PTL DEF Spec

=============================================================================
