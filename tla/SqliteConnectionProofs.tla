------------------------ MODULE SqliteConnectionProofs ------------------------
(***************************************************************************)
(* Machine-checked proofs about SqliteConnection, for every set of        *)
(* connection and statement handles: its type, and the scope of          *)
(* loadExtension's enable/disable.                                         *)
(***************************************************************************)
EXTENDS SqliteConnection, TLAPS

\* The sets and constants the type invariant uses, and the variable tuples.
USE DEF HState, PragmaValue, DefaultCacheSize, lifetime, config

\* The initial state is well typed.
LEMMA InitTypeOK == Init => TypeOK
  BY DEF Init, TypeOK, PragmaValue

\* A statement not yet finalized points to a real connection handle.
LiveParents == \A s \in Stmts : sstate[s] = "live" => parent[s] \in Handles

\* Every step keeps the state well typed; a finalize needs the parent of
\* its statement to be a real handle.
LEMMA NextTypeOK == TypeOK /\ LiveParents /\ [Next]_vars => TypeOK'
<1> SUFFICES ASSUME TypeOK, LiveParents, [Next]_vars PROVE TypeOK'
  OBVIOUS
<1>1. ASSUME NEW h \in Handles, Open(h) PROVE TypeOK'
  BY <1>1 DEF Open, TypeOK, HState
<1>2. ASSUME NEW h \in Handles, Close(h) PROVE TypeOK'
  BY <1>2 DEF Close, TypeOK, HState
<1>3. ASSUME NEW h \in Handles, NEW s \in Stmts, Prepare(h, s) PROVE TypeOK'
  BY <1>3 DEF Prepare, TypeOK
<1>4. ASSUME NEW s \in Stmts, Finalize(s) PROVE TypeOK'
  \* Whichever branch the deferred close takes, hstate stays a function.
  <2>1. hstate' \in [Handles -> HState]
    <3>1. CASE hstate[parent[s]] = "zombie" /\ LiveStmtsOf(parent[s]) = {s}
      BY <1>4, <3>1 DEF Finalize, TypeOK, LiveParents
    <3>2. CASE ~(hstate[parent[s]] = "zombie" /\ LiveStmtsOf(parent[s]) = {s})
      BY <1>4, <3>2 DEF Finalize, TypeOK
    <3>3. QED
      BY <3>1, <3>2
  <2>2. QED
    BY <1>4, <2>1 DEF Finalize, TypeOK
<1>5. ASSUME NEW h \in Handles, NEW p \in DOMAIN Pragmas, NEW v \in Pragmas[p],
             SetPragma(h, p, v)
      PROVE  TypeOK'
  BY <1>5 DEF SetPragma, TypeOK, PragmaValue
<1>6. ASSUME NEW h \in Handles, NEW n \in CacheSizes, SetCacheSize(h, n)
      PROVE  TypeOK'
  BY <1>6 DEF SetCacheSize, TypeOK
<1>7. ASSUME NEW h \in Handles, LoadExtensionEnable(h) PROVE TypeOK'
  BY <1>7 DEF LoadExtensionEnable, TypeOK
<1>8. ASSUME NEW h \in Handles, LoadExtensionFinish(h) PROVE TypeOK'
  BY <1>8 DEF LoadExtensionFinish, TypeOK
<1>9. ASSUME NEW h \in Handles, ExecuteLoadExtensionSql(h) PROVE TypeOK'
  BY <1>9 DEF ExecuteLoadExtensionSql, TypeOK
<1>10. CASE UNCHANGED vars
  BY <1>10 DEF vars, lifetime, config, TypeOK
<1>11. QED
  BY <1>1, <1>2, <1>3, <1>4, <1>5, <1>6, <1>7, <1>8, <1>9, <1>10 DEF Next

-----------------------------------------------------------------------------
(* ExtensionScoped.  With the type invariant and LiveParents it is         *)
(* inductive: LoadExtensionEnable turns extOn and loading on together,     *)
(* LoadExtensionFinish turns both off whatever the load's result, and no   *)
(* other step touches either.                                              *)

CInv ==
    /\ TypeOK
    /\ LiveParents
    /\ ExtensionScoped

\* It holds initially: no statement is live and extension loading is off.
LEMMA InitCInv == Init => CInv
  BY InitTypeOK DEF Init, CInv, LiveParents, ExtensionScoped

\* A step that leaves extOn, loading, sstate and parent alone keeps it.
LEMMA FrameKeepsCInv ==
    ASSUME CInv, TypeOK', UNCHANGED <<extOn, loading, sstate, parent>>
    PROVE  CInv'
  BY DEF CInv, LiveParents, ExtensionScoped

\* Every step preserves it.
LEMMA NextCInv == CInv /\ [Next]_vars => CInv'
<1> SUFFICES ASSUME CInv, [Next]_vars PROVE CInv'
  OBVIOUS
<1>0. TypeOK'
  BY NextTypeOK DEF CInv
<1>1. ASSUME NEW h \in Handles, Open(h) PROVE CInv'
  BY <1>0, <1>1, FrameKeepsCInv DEF Open
<1>2. ASSUME NEW h \in Handles, Close(h) PROVE CInv'
  BY <1>0, <1>2, FrameKeepsCInv DEF Close
<1>3. ASSUME NEW h \in Handles, NEW s \in Stmts, Prepare(h, s) PROVE CInv'
  \* The new statement's parent is the owned handle it was prepared on.
  BY <1>0, <1>3 DEF Prepare, CInv, LiveParents, ExtensionScoped, TypeOK
<1>4. ASSUME NEW s \in Stmts, Finalize(s) PROVE CInv'
  BY <1>0, <1>4 DEF Finalize, CInv, LiveParents, ExtensionScoped, TypeOK
<1>5. ASSUME NEW h \in Handles, NEW p \in DOMAIN Pragmas, NEW v \in Pragmas[p],
             SetPragma(h, p, v)
      PROVE  CInv'
  BY <1>0, <1>5, FrameKeepsCInv DEF SetPragma
<1>6. ASSUME NEW h \in Handles, NEW n \in CacheSizes, SetCacheSize(h, n)
      PROVE  CInv'
  BY <1>0, <1>6, FrameKeepsCInv DEF SetCacheSize
<1>7. ASSUME NEW h \in Handles, LoadExtensionEnable(h) PROVE CInv'
  BY <1>0, <1>7 DEF LoadExtensionEnable, CInv, LiveParents, ExtensionScoped, TypeOK
<1>8. ASSUME NEW h \in Handles, LoadExtensionFinish(h) PROVE CInv'
  BY <1>0, <1>8 DEF LoadExtensionFinish, CInv, LiveParents, ExtensionScoped, TypeOK
<1>9. ASSUME NEW h \in Handles, ExecuteLoadExtensionSql(h) PROVE CInv'
  BY <1>0, <1>9, FrameKeepsCInv DEF ExecuteLoadExtensionSql
<1>10. CASE UNCHANGED vars
  BY <1>0, <1>10, FrameKeepsCInv DEF vars
<1>11. QED
  BY <1>1, <1>2, <1>3, <1>4, <1>5, <1>6, <1>7, <1>8, <1>9, <1>10 DEF Next

(* The scope of loadExtension holds for every set of handles: extension    *)
(* loading is enabled on a connection only while a loadExtension call on  *)
(* it is in progress, because disableExtensionGuard() runs after the load *)
(* whether or not it succeeded.                                            *)
THEOREM ExtensionScopedHolds == Spec => []ExtensionScoped
<1>1. CInv => ExtensionScoped
  BY DEF CInv
<1>2. QED
  BY InitCInv, NextCInv, <1>1, PTL DEF Spec

=============================================================================
