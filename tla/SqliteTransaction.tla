-------------------------- MODULE SqliteTransaction --------------------------
(***************************************************************************)
(* The RAII transaction guard sdb::SqliteTransaction (src/unnamed/part_000) *)
(* over one shared sdb::SqliteDb connection, together with the part of the *)
(* SQLite engine it relies on: the connection's transaction state (the     *)
(* negation of sqlite3_get_autocommit) and the writes that are pending in  *)
(* it or durable.                                                          *)
(*                                                                         *)
(* Every call below goes through SqliteDb::execute, which holds the        *)
(* connection's mutex for the whole sqlite3_exec call, so each one is a    *)
(* single atomic step.  Several guards (Clients) may exist at once: nested *)
(* scopes of one thread or scopes of threads sharing the connection.  A    *)
(* call that fails without changing any state (a BEGIN inside a            *)
(* transaction, a COMMIT or ROLLBACK outside one, a constraint error, a     *)
(* SQLITE_BUSY) only throws: it is a stuttering step and has no action.    *)
(***************************************************************************)
EXTENDS FiniteSets

CONSTANTS
    Clients,      \* the SqliteTransaction objects (scopes) that may exist
    Writes,       \* distinct data-changing statements callers may run
    AutoRollback, \* TRUE: errors such as SQLITE_FULL/IOERR/NOMEM may make
                  \* SQLite roll the open transaction back by itself
    None          \* no transaction is open in the engine

ASSUME ConstantsAssumption ==
    /\ IsFiniteSet(Clients)
    /\ IsFiniteSet(Writes)
    /\ AutoRollback \in BOOLEAN
    /\ None \notin Clients

VARIABLES
    live,       \* live[c]: the guard object c exists (is in scope)
    active,     \* active[c]: its member mIntransaction
    dbInTxn,    \* the engine has an open transaction on the connection
    pending,    \* writes done inside the engine's open transaction
    committed,  \* durable writes
    written,    \* writes applied so far (each statement runs once)
    opener,     \* ghost: the guard whose BEGIN opened the engine's transaction
    mine,       \* ghost: mine[c], writes c's scope made while c was active
    kept,       \* ghost: writes of scopes whose commit() succeeded
    abandoned   \* ghost: writes of scopes that ended without a commit

engine == <<dbInTxn, pending, committed, written>>
ghost == <<opener, mine, kept, abandoned>>
vars == <<live, active, engine, ghost>>

TypeOK ==
    /\ live \in [Clients -> BOOLEAN]
    /\ active \in [Clients -> BOOLEAN]
    /\ dbInTxn \in BOOLEAN
    /\ pending \subseteq Writes
    /\ committed \subseteq Writes
    /\ written \subseteq Writes
    /\ opener \in Clients \cup {None}
    /\ mine \in [Clients -> SUBSET Writes]
    /\ kept \subseteq Writes
    /\ abandoned \subseteq Writes

Init ==
    /\ live = [c \in Clients |-> FALSE]
    /\ active = [c \in Clients |-> FALSE]
    /\ dbInTxn = FALSE
    /\ pending = {}
    /\ committed = {}
    /\ written = {}
    /\ opener = None
    /\ mine = [c \in Clients |-> {}]
    /\ kept = {}
    /\ abandoned = {}

-----------------------------------------------------------------------------
(* Successful engine outcomes of the commands the guard sends.             *)

\* sqlite3_exec("COMMIT") succeeding: the pending writes become durable.
ExecCommit ==
    /\ dbInTxn
    /\ dbInTxn' = FALSE
    /\ committed' = committed \cup pending
    /\ pending' = {}
    /\ opener' = None
    /\ UNCHANGED written

\* sqlite3_exec("ROLLBACK") succeeding: the pending writes are discarded.
ExecRollback ==
    /\ dbInTxn
    /\ dbInTxn' = FALSE
    /\ pending' = {}
    /\ opener' = None
    /\ UNCHANGED <<committed, written>>

-----------------------------------------------------------------------------
(* SqliteTransaction::SqliteTransaction: the database is open (an SqliteDb *)
(* only exists with a non-null handle), BEGIN DEFERRED|IMMEDIATE|EXCLUSIVE *)
(* is executed and mIntransaction set.  BEGIN fails inside a transaction,  *)
(* and IMMEDIATE/EXCLUSIVE may fail with SQLITE_BUSY: the constructor then *)
(* throws and no object exists, so the mode adds no state of its own.      *)
Begin(c) ==
    /\ ~live[c]
    /\ ~dbInTxn
    /\ live' = [live EXCEPT ![c] = TRUE]
    /\ active' = [active EXCEPT ![c] = TRUE]
    /\ dbInTxn' = TRUE
    /\ opener' = c
    /\ mine' = [mine EXCEPT ![c] = {}]
    /\ UNCHANGED <<pending, committed, written, kept, abandoned>>

\* Mutant: commit() forgets to clear mIntransaction after COMMIT succeeds.
CommitKeepsFlag(c) ==
    /\ live[c]
    /\ active[c]
    /\ ExecCommit
    /\ kept' = kept \cup mine[c]
    /\ UNCHANGED <<live, active, mine, abandoned>>

(* SqliteTransaction::commit -> exec("COMMIT"): a no-op unless             *)
(* mIntransaction; mIntransaction is cleared only when execute returns.    *)
Commit(c) ==
    /\ live[c]
    /\ active[c]
    /\ ExecCommit
    /\ active' = [active EXCEPT ![c] = FALSE]
    /\ kept' = kept \cup mine[c]
    /\ UNCHANGED <<live, mine, abandoned>>

\* Mutant: rollback() passes "COMMIT" to exec.
RollbackSendsCommit(c) ==
    /\ live[c]
    /\ active[c]
    /\ ExecCommit
    /\ active' = [active EXCEPT ![c] = FALSE]
    /\ abandoned' = abandoned \cup mine[c]
    /\ UNCHANGED <<live, mine, kept>>

\* SqliteTransaction::rollback -> exec("ROLLBACK"), the same shape.
Rollback(c) ==
    /\ live[c]
    /\ active[c]
    /\ ExecRollback
    /\ active' = [active EXCEPT ![c] = FALSE]
    /\ abandoned' = abandoned \cup mine[c]
    /\ UNCHANGED <<live, mine, kept>>

\* Mutant: the destructor drops the object without sending ROLLBACK.
DestroyNoRollback(c) ==
    /\ live[c]
    /\ live' = [live EXCEPT ![c] = FALSE]
    /\ active' = [active EXCEPT ![c] = FALSE]
    /\ abandoned' = IF active[c] THEN abandoned \cup mine[c] ELSE abandoned
    /\ UNCHANGED <<engine, opener, mine, kept>>

(* SqliteTransaction::~SqliteTransaction: if mIntransaction, execute       *)
(* ROLLBACK and swallow any exception.  The object is gone afterwards.     *)
Destroy(c) ==
    /\ live[c]
    /\ live' = [live EXCEPT ![c] = FALSE]
    /\ active' = [active EXCEPT ![c] = FALSE]
    /\ IF active[c] /\ dbInTxn
         THEN ExecRollback
         ELSE UNCHANGED <<engine, opener>>
    /\ abandoned' = IF active[c] THEN abandoned \cup mine[c] ELSE abandoned
    /\ UNCHANGED <<mine, kept>>

(* A data-changing statement run on the shared connection by the thread   *)
(* of c (SqliteDb::execute, or SqliteStatement::step of a prepared         *)
(* statement), inside c's scope or outside any.  Success adds the write to *)
(* the open transaction, or makes it durable at once in autocommit mode.   *)
Write(c, w) ==
    /\ w \notin written
    /\ written' = written \cup {w}
    /\ IF dbInTxn
         THEN /\ pending' = pending \cup {w}
              /\ UNCHANGED committed
         ELSE /\ committed' = committed \cup {w}
              /\ UNCHANGED pending
    /\ mine' = IF live[c] /\ active[c]
                 THEN [mine EXCEPT ![c] = @ \cup {w}]
                 ELSE mine
    /\ UNCHANGED <<live, active, dbInTxn, opener, kept, abandoned>>

(* The same statement failing with an error after which SQLite has rolled  *)
(* the open transaction back by itself (SQLITE_FULL, SQLITE_IOERR,         *)
(* SQLITE_NOMEM...).  The statement exception reaches the caller; nothing  *)
(* tells the guard, whose mIntransaction stays as it was.                  *)
WriteFailsRolledBack ==
    /\ AutoRollback
    /\ ExecRollback
    /\ UNCHANGED <<live, active, mine, kept, abandoned>>

Next ==
    \/ \E c \in Clients :
        \/ Begin(c)
        \/ Commit(c)
        \/ Rollback(c)
        \/ Destroy(c)
        \/ \E w \in Writes : Write(c, w)
    \/ WriteFailsRolledBack

(* Every guard is a scoped C++ object: the thread that owns it eventually  *)
(* leaves the scope and runs the destructor.                               *)
Fairness == \A c \in Clients : WF_vars(Destroy(c))

Spec == Init /\ [][Next]_vars /\ Fairness

-----------------------------------------------------------------------------
(* Properties                                                              *)

(* A guard that believes it is in a transaction (inTransaction() is true)  *)
(* is the one whose BEGIN opened the connection's current transaction: no  *)
(* sequence of guards and writes leaves two guards active at once, or a    *)
(* guard active over a closed or foreign transaction.                      *)
OwnerConsistent ==
    \A c \in Clients :
        live[c] /\ active[c] => dbInTxn /\ opener = c

(* What the header documents for inTransaction(): true only while the      *)
(* database is inside a transaction.                                       *)
InTransactionMeansDbInTxn ==
    \A c \in Clients : live[c] /\ active[c] => dbInTxn

(* The scope exit rollback of the spec: no write a scope made while its    *)
(* guard was active survives a scope that ended without commit().          *)
AutoRollbackDiscardsWrites == abandoned \cap committed = {}

(* All-or-nothing per scope: the writes of a scope whose commit()          *)
(* returned are all durable, those of a scope that ended otherwise none.   *)
ScopeAtomicity ==
    /\ kept \subseteq committed
    /\ AutoRollbackDiscardsWrites

(* The engine's open transaction always belongs to a guard that is still  *)
(* in scope and active, so some destructor or commit() will end it: no     *)
(* transaction is orphaned, even after an automatic rollback has left a    *)
(* stale guard behind.                                                     *)
OpenerActive ==
    dbInTxn => opener \in Clients /\ live[opener] /\ active[opener]

(* Every transaction a guard opens is eventually closed, so the           *)
(* connection does not stay locked in a transaction after scopes exit.    *)
TxnEventuallyEnds == dbInTxn ~> ~dbInTxn

-----------------------------------------------------------------------------
(* Refinement of AtomicScopes.  The scope holding the transaction is the   *)
(* guard whose inTransaction() is true; its buffer is the engine's pending *)
(* writes and the durable writes are the committed ones.                   *)

\* The guard that is live and active under the flags l and a, or None.
OwnerOf(l, a) ==
    IF \E c \in Clients : l[c] /\ a[c]
      THEN CHOOSE c \in Clients : l[c] /\ a[c]
      ELSE None

ScopeOwner == OwnerOf(live, active)

Scopes == INSTANCE AtomicScopes
            WITH owner <- ScopeOwner, buffer <- pending,
                 durable <- committed, done <- written

(* The guard keeps the promise of a transaction scope: every step of       *)
(* guards, writes and the engine is a step of AtomicScopes (a scope opens, *)
(* its owner commits or abandons it, a write joins it or is durable) or    *)
(* leaves the abstract state alone; above all, a commit() or destructor    *)
(* ends the transaction of the guard that believes it holds it.            *)
ImplementsAtomicScopes == Scopes!ScopesSpec

=============================================================================
