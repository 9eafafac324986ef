------------------------ MODULE SqliteTransactionProofs ------------------------
(***************************************************************************)
(* Machine-checked proofs about the transaction guard of                   *)
(* SqliteTransaction, for every set of guards and writes.                  *)
(***************************************************************************)
EXTENDS SqliteTransaction, TLAPS

(* Each guard action, and the engine's own rollback, is one disjunct of    *)
(* Next; the proofs below go through them one by one.                      *)

\* The initial state is well typed.
LEMMA InitTypeOK == Init => TypeOK
  BY DEF Init, TypeOK

\* Every step, and every stutter, keeps the state well typed.
LEMMA NextTypeOK == TypeOK /\ [Next]_vars => TypeOK'
<1> SUFFICES ASSUME TypeOK, [Next]_vars PROVE TypeOK'
  OBVIOUS
<1>1. ASSUME NEW c \in Clients, Begin(c) PROVE TypeOK'
  BY <1>1 DEF Begin, TypeOK
<1>2. ASSUME NEW c \in Clients, Commit(c) PROVE TypeOK'
  BY <1>2 DEF Commit, ExecCommit, TypeOK
<1>3. ASSUME NEW c \in Clients, Rollback(c) PROVE TypeOK'
  BY <1>3 DEF Rollback, ExecRollback, TypeOK
<1>4. ASSUME NEW c \in Clients, Destroy(c) PROVE TypeOK'
  BY <1>4 DEF Destroy, ExecRollback, TypeOK, engine
<1>5. ASSUME NEW c \in Clients, NEW w \in Writes, Write(c, w) PROVE TypeOK'
  BY <1>5 DEF Write, TypeOK
<1>6. CASE WriteFailsRolledBack
  BY <1>6 DEF WriteFailsRolledBack, ExecRollback, TypeOK
<1>7. CASE UNCHANGED vars
  BY <1>7 DEF vars, engine, ghost, TypeOK
<1>8. QED
  BY <1>1, <1>2, <1>3, <1>4, <1>5, <1>6, <1>7 DEF Next

(* Type correctness of the model of SqliteTransaction and the engine's     *)
(* transaction state: every reachable state is well typed.                 *)
THEOREM TypeCorrect == Spec => []TypeOK
  BY InitTypeOK, NextTypeOK, PTL DEF Spec

-----------------------------------------------------------------------------
(* OpenerActive: the engine's open transaction always belongs to a live,   *)
(* active guard, so its destructor is still to run.  TypeOK /\             *)
(* OpenerActive is inductive as it stands, with or without automatic       *)
(* rollbacks: a stale guard can end another guard's transaction, but       *)
(* never leave one open without an owner.                                  *)

\* The invariant holds initially: no transaction is open.
LEMMA InitOpenerActive == Init => OpenerActive
  BY DEF Init, OpenerActive

\* Every step keeps the open transaction owned by a live, active guard.
LEMMA NextOpenerActive ==
    TypeOK /\ OpenerActive /\ [Next]_vars => OpenerActive'
<1> SUFFICES ASSUME TypeOK, OpenerActive, [Next]_vars PROVE OpenerActive'
  OBVIOUS
<1>1. ASSUME NEW c \in Clients, Begin(c) PROVE OpenerActive'
  BY <1>1 DEF Begin, OpenerActive, TypeOK
<1>2. ASSUME NEW c \in Clients, Commit(c) PROVE OpenerActive'
  BY <1>2 DEF Commit, ExecCommit, OpenerActive
<1>3. ASSUME NEW c \in Clients, Rollback(c) PROVE OpenerActive'
  BY <1>3 DEF Rollback, ExecRollback, OpenerActive
<1>4. ASSUME NEW c \in Clients, Destroy(c) PROVE OpenerActive'
  <2>1. CASE active[c] /\ dbInTxn
    BY <1>4, <2>1 DEF Destroy, ExecRollback, OpenerActive
  <2>2. CASE ~(active[c] /\ dbInTxn)
    \* The guard going away is not the opener, whose flag is set.
    <3>1. dbInTxn => opener # c
      BY <2>2 DEF OpenerActive
    <3>2. QED
      BY <1>4, <2>2, <3>1 DEF Destroy, OpenerActive, TypeOK, engine
  <2>3. QED
    BY <2>1, <2>2
<1>5. ASSUME NEW c \in Clients, NEW w \in Writes, Write(c, w) PROVE OpenerActive'
  BY <1>5 DEF Write, OpenerActive
<1>6. CASE WriteFailsRolledBack
  BY <1>6 DEF WriteFailsRolledBack, ExecRollback, OpenerActive
<1>7. CASE UNCHANGED vars
  BY <1>7 DEF vars, engine, ghost, OpenerActive
<1>8. QED
  BY <1>1, <1>2, <1>3, <1>4, <1>5, <1>6, <1>7 DEF Next

(* No transaction is ever orphaned: whenever the connection is inside a    *)
(* transaction, the SqliteTransaction that began it still exists and has   *)
(* mIntransaction set, so its commit(), rollback() or destructor ends it.  *)
THEOREM OpenerActiveHolds == Spec => []OpenerActive
  BY InitTypeOK, NextTypeOK, InitOpenerActive, NextOpenerActive, PTL DEF Spec

-----------------------------------------------------------------------------
(* OwnerConsistent: when no error makes SQLite roll back on its own, a     *)
(* guard with mIntransaction set is exactly the owner of the engine's      *)
(* open transaction.  It is not inductive alone: Begin must know that no   *)
(* other guard is still the opener, which OpenerActive gives through the   *)
(* closed engine transaction, and the destructor of an inactive guard must *)
(* know it is not the opener.                                              *)

\* The strengthened invariant.
IInv == TypeOK /\ OpenerActive /\ OwnerConsistent

\* It holds initially.
LEMMA InitIInv == Init => IInv
  BY InitTypeOK, InitOpenerActive DEF Init, IInv, OwnerConsistent

\* Without automatic rollbacks, every step preserves it.
LEMMA NextIInv ==
    ASSUME ~AutoRollback
    PROVE  IInv /\ [Next]_vars => IInv'
<1> SUFFICES ASSUME IInv, [Next]_vars PROVE OwnerConsistent'
  BY NextTypeOK, NextOpenerActive DEF IInv
<1> USE DEF IInv
<1>1. ASSUME NEW c \in Clients, Begin(c) PROVE OwnerConsistent'
  \* No guard is active: an active guard would mean an open transaction.
  <2>1. \A d \in Clients : ~(live[d] /\ active[d])
    BY <1>1 DEF Begin, OwnerConsistent
  <2>2. QED
    BY <1>1, <2>1 DEF Begin, OwnerConsistent, TypeOK
<1>2. ASSUME NEW c \in Clients, Commit(c) PROVE OwnerConsistent'
  \* c owned the transaction, so no other guard was active.
  <2>1. \A d \in Clients : d # c => ~(live[d] /\ active[d])
    BY <1>2 DEF Commit, OwnerConsistent
  <2>2. QED
    BY <1>2, <2>1 DEF Commit, ExecCommit, OwnerConsistent, TypeOK
<1>3. ASSUME NEW c \in Clients, Rollback(c) PROVE OwnerConsistent'
  <2>1. \A d \in Clients : d # c => ~(live[d] /\ active[d])
    BY <1>3 DEF Rollback, OwnerConsistent
  <2>2. QED
    BY <1>3, <2>1 DEF Rollback, ExecRollback, OwnerConsistent, TypeOK
<1>4. ASSUME NEW c \in Clients, Destroy(c) PROVE OwnerConsistent'
  <2>1. CASE active[c]
    <3>1. \A d \in Clients : d # c => ~(live[d] /\ active[d])
      BY <1>4, <2>1 DEF Destroy, OwnerConsistent
    <3>2. QED
      BY <1>4, <2>1, <3>1 DEF Destroy, ExecRollback, OwnerConsistent, TypeOK
  <2>2. CASE ~active[c]
    BY <1>4, <2>2 DEF Destroy, OwnerConsistent, TypeOK, engine
  <2>3. QED
    BY <2>1, <2>2
<1>5. ASSUME NEW c \in Clients, NEW w \in Writes, Write(c, w) PROVE OwnerConsistent'
  BY <1>5 DEF Write, OwnerConsistent
<1>6. CASE WriteFailsRolledBack
  BY <1>6 DEF WriteFailsRolledBack
<1>7. CASE UNCHANGED vars
  BY <1>7 DEF vars, engine, ghost, OwnerConsistent
<1>8. QED
  BY <1>1, <1>2, <1>3, <1>4, <1>5, <1>6, <1>7 DEF Next

(* When SQLite never rolls a transaction back by itself, inTransaction()   *)
(* of a live SqliteTransaction is true exactly for the guard whose BEGIN   *)
(* opened the connection's current transaction: two guards are never      *)
(* active at once and none is active over a closed transaction.           *)
THEOREM OwnerConsistentHolds ==
    ASSUME ~AutoRollback
    PROVE  Spec => []OwnerConsistent
<1>1. IInv /\ [Next]_vars => IInv'
  BY NextIInv
<1>2. IInv => OwnerConsistent
  BY DEF IInv
<1>3. QED
  BY InitIInv, <1>1, <1>2, PTL DEF Spec

-----------------------------------------------------------------------------
(* ScopeAtomicity.  Besides IInv it needs the bookkeeping of the writes:  *)
(* pending and committed writes are disjoint and already written, the     *)
(* writes of the active scope are pending, and an abandoned write is      *)
(* neither pending nor committed.  A fresh write is not yet written, so    *)
(* it can be none of these; that is what keeps the sets apart.            *)

WritesInv ==
    /\ pending \cup committed \subseteq written
    /\ pending \cap committed = {}
    /\ abandoned \subseteq written
    /\ abandoned \cap pending = {}
    /\ \A c \in Clients : live[c] /\ active[c] => mine[c] \subseteq pending

AInv == IInv /\ WritesInv /\ ScopeAtomicity

\* It holds initially.
LEMMA InitAInv == Init => AInv
  BY InitIInv DEF Init, AInv, WritesInv, ScopeAtomicity, AutoRollbackDiscardsWrites

\* Without automatic rollbacks, every step preserves it.
LEMMA NextAInv ==
    ASSUME ~AutoRollback
    PROVE  AInv /\ [Next]_vars => AInv'
<1> SUFFICES ASSUME AInv, [Next]_vars PROVE (WritesInv /\ ScopeAtomicity)'
  BY NextIInv DEF AInv
<1> USE DEF AInv, IInv, WritesInv, ScopeAtomicity, AutoRollbackDiscardsWrites
<1>1. ASSUME NEW c \in Clients, Begin(c) PROVE (WritesInv /\ ScopeAtomicity)'
  \* No other guard is active, since no transaction is open.
  <2>1. \A d \in Clients : ~(live[d] /\ active[d])
    BY <1>1 DEF Begin, OwnerConsistent
  <2>2. QED
    BY <1>1, <2>1 DEF Begin, TypeOK
<1>2. ASSUME NEW c \in Clients, Commit(c) PROVE (WritesInv /\ ScopeAtomicity)'
  <2>1. \A d \in Clients : d # c => ~(live[d] /\ active[d])
    BY <1>2 DEF Commit, OwnerConsistent
  <2>2. mine[c] \subseteq pending
    BY <1>2 DEF Commit
  <2>3. QED
    BY <1>2, <2>1, <2>2 DEF Commit, ExecCommit, TypeOK
<1>3. ASSUME NEW c \in Clients, Rollback(c) PROVE (WritesInv /\ ScopeAtomicity)'
  <2>1. \A d \in Clients : d # c => ~(live[d] /\ active[d])
    BY <1>3 DEF Rollback, OwnerConsistent
  <2>2. mine[c] \subseteq pending
    BY <1>3 DEF Rollback
  <2>3. QED
    BY <1>3, <2>1, <2>2 DEF Rollback, ExecRollback, TypeOK
<1>4. ASSUME NEW c \in Clients, Destroy(c) PROVE (WritesInv /\ ScopeAtomicity)'
  <2>1. CASE active[c]
    \* The guard owns the open transaction, which the destructor rolls back.
    <3>1. live[c] /\ dbInTxn
      BY <1>4, <2>1 DEF Destroy, OwnerConsistent
    <3>2. \A d \in Clients : d # c => ~(live[d] /\ active[d])
      BY <1>4, <2>1, <3>1 DEF OwnerConsistent
    <3>3. mine[c] \subseteq pending
      BY <3>1, <2>1
    <3>4. QED
      BY <1>4, <2>1, <3>1, <3>2, <3>3 DEF Destroy, ExecRollback, TypeOK
  <2>2. CASE ~active[c]
    BY <1>4, <2>2 DEF Destroy, TypeOK, engine
  <2>3. QED
    BY <2>1, <2>2
<1>5. ASSUME NEW c \in Clients, NEW w \in Writes, Write(c, w)
      PROVE (WritesInv /\ ScopeAtomicity)'
  <2>1. w \notin pending /\ w \notin committed /\ w \notin abandoned
    BY <1>5 DEF Write
  <2>2. live[c] /\ active[c] => dbInTxn
    BY DEF OwnerConsistent
  <2>3. QED
    BY <1>5, <2>1, <2>2 DEF Write, TypeOK
<1>6. CASE WriteFailsRolledBack
  BY <1>6 DEF WriteFailsRolledBack
<1>7. CASE UNCHANGED vars
  BY <1>7 DEF vars, engine, ghost
<1>8. QED
  BY <1>1, <1>2, <1>3, <1>4, <1>5, <1>6, <1>7 DEF Next

(* When SQLite never rolls a transaction back by itself, each guard's      *)
(* scope is all-or-nothing: the writes of a scope whose commit() returned  *)
(* are all durable, and none of a scope that ended by rollback() or by its *)
(* destructor is.                                                          *)
THEOREM ScopeAtomicityHolds ==
    ASSUME ~AutoRollback
    PROVE  Spec => []ScopeAtomicity
<1>1. AInv /\ [Next]_vars => AInv'
  BY NextAInv
<1>2. AInv => ScopeAtomicity
  BY DEF AInv
<1>3. QED
  BY InitAInv, <1>1, <1>2, PTL DEF Spec

-----------------------------------------------------------------------------
(* Refinement of AtomicScopes.  Under IInv the abstract owner, the live    *)
(* and active guard, is the opener of the open transaction, or None when   *)
(* none is open; with that, each guard action is the abstract action of    *)
(* the same name and the destructor of an inactive guard is a stutter.     *)

\* The owner of the mapping, for any flags that satisfy IInv's two parts.
LEMMA OwnerIsOpener ==
    ASSUME NEW l \in [Clients -> BOOLEAN], NEW a \in [Clients -> BOOLEAN],
           NEW d \in BOOLEAN, NEW o,
           d => o \in Clients /\ l[o] /\ a[o],
           \A c \in Clients : l[c] /\ a[c] => d /\ o = c
    PROVE  OwnerOf(l, a) = IF d THEN o ELSE None
<1>1. CASE d
  BY <1>1 DEF OwnerOf
<1>2. CASE ~d
  BY <1>2 DEF OwnerOf
<1>3. QED
  BY <1>1, <1>2

\* Every step of the guards is a step of AtomicScopes or leaves it alone.
LEMMA NextRefines ==
    ASSUME ~AutoRollback
    PROVE  IInv /\ IInv' /\ [Next]_vars => [Scopes!ScopesNext]_Scopes!avars
<1> SUFFICES ASSUME IInv, IInv', [Next]_vars
             PROVE  [Scopes!ScopesNext]_Scopes!avars
  OBVIOUS
<1>a. ScopeOwner = IF dbInTxn THEN opener ELSE None
  BY OwnerIsOpener DEF IInv, TypeOK, OpenerActive, OwnerConsistent, ScopeOwner
<1>b. ScopeOwner' = IF dbInTxn' THEN opener' ELSE None
  <2>1. /\ live' \in [Clients -> BOOLEAN] /\ active' \in [Clients -> BOOLEAN]
        /\ dbInTxn' \in BOOLEAN
        /\ dbInTxn' => opener' \in Clients /\ live'[opener'] /\ active'[opener']
        /\ \A c \in Clients : live'[c] /\ active'[c] => dbInTxn' /\ opener' = c
    BY DEF IInv, TypeOK, OpenerActive, OwnerConsistent
  <2>2. QED
    BY <2>1, OwnerIsOpener DEF ScopeOwner
<1> USE <1>a, <1>b
<1>1. ASSUME NEW c \in Clients, Begin(c) PROVE Scopes!OpenScope(c)
  BY <1>1 DEF Begin, Scopes!OpenScope
<1>2. ASSUME NEW c \in Clients, Commit(c) PROVE Scopes!CommitScope(c)
  <2>1. opener = c
    BY <1>2 DEF Commit, IInv, OwnerConsistent
  <2>2. QED
    BY <1>2, <2>1 DEF Commit, ExecCommit, Scopes!CommitScope
<1>3. ASSUME NEW c \in Clients, Rollback(c) PROVE Scopes!AbortScope(c)
  <2>1. opener = c
    BY <1>3 DEF Rollback, IInv, OwnerConsistent
  <2>2. QED
    BY <1>3, <2>1 DEF Rollback, ExecRollback, Scopes!AbortScope
<1>4. ASSUME NEW c \in Clients, Destroy(c)
      PROVE  [Scopes!ScopesNext]_Scopes!avars
  <2>1. CASE active[c]
    <3>1. dbInTxn /\ opener = c
      BY <1>4, <2>1 DEF Destroy, IInv, OwnerConsistent
    <3>2. Scopes!AbortScope(c)
      BY <1>4, <2>1, <3>1 DEF Destroy, ExecRollback, Scopes!AbortScope
    <3>3. QED
      BY <3>2 DEF Scopes!ScopesNext
  <2>2. CASE ~active[c]
    BY <1>4, <2>2 DEF Destroy, engine, Scopes!avars
  <2>3. QED
    BY <2>1, <2>2
<1>5. ASSUME NEW c \in Clients, NEW w \in Writes, Write(c, w)
      PROVE  Scopes!DoWrite(w)
  <2>1. dbInTxn => opener # None
    BY ConstantsAssumption DEF IInv, OpenerActive
  <2>2. ScopeOwner' = ScopeOwner /\ (ScopeOwner = None <=> ~dbInTxn)
    BY <1>5, <2>1 DEF Write
  <2>3. QED
    BY <1>5, <2>2 DEF Write, Scopes!DoWrite
<1>6. CASE WriteFailsRolledBack
  BY <1>6 DEF WriteFailsRolledBack
<1>7. CASE UNCHANGED vars
  BY <1>7 DEF vars, engine, ghost, Scopes!avars
<1>8. QED
  BY <1>1, <1>2, <1>3, <1>4, <1>5, <1>6, <1>7 DEF Next, Scopes!ScopesNext

(* When SQLite never rolls a transaction back by itself, the guard         *)
(* implements AtomicScopes under the mapping of SqliteTransaction: at most *)
(* one scope holds the transaction, only its commit() or its end finishes  *)
(* it, and its writes become durable together or not at all.               *)
THEOREM RefinesAtomicScopes ==
    ASSUME ~AutoRollback
    PROVE  Spec => ImplementsAtomicScopes
<1>1. Init => Scopes!ScopesInit
  BY DEF Init, ScopeOwner, OwnerOf, Scopes!ScopesInit
<1>2. Spec => []IInv
  BY InitIInv, NextIInv, PTL DEF Spec
<1>3. QED
  BY <1>1, <1>2, NextRefines, PTL DEF Spec, ImplementsAtomicScopes, Scopes!ScopesSpec

=============================================================================
