---------------------------- MODULE SqliteConnection ----------------------------
(***************************************************************************)
(* Ownership of the native handles: SqliteDb::open allocates a sqlite3    *)
(* handle and wraps it in a SqliteConnectionPtr, SqliteDb::prepare wraps  *)
(* each compiled sqlite3_stmt in a SqliteStatementPtr, and the two         *)
(* deleters of src/include/SqliteTypes.hpp release them with               *)
(* sqlite3_close_v2 and sqlite3_finalize when the owning object dies, in   *)
(* either order.  The engine side is SQLite's documented lifetime rule:   *)
(* close_v2 on a handle that still has unfinalized statements turns it     *)
(* into a zombie that is freed when its last statement is finalized.      *)
(***************************************************************************)
EXTENDS Integers, FiniteSets

CONSTANTS
    Handles,     \* sqlite3 connection handles the engine may hand out
    Stmts,       \* sqlite3_stmt handles the engine may hand out
    NoHandle,    \* the parent of a statement not yet prepared
    CacheSizes,  \* std::size_t arguments callers pass to setCacheSize
    Pragmas      \* [pragma -> values] that the enum setters can render

\* setCacheSize's bounds (MIN_CACHE_KB, MAX_CACHE_KB), and SQLite's default
\* cache_size, whose negative sign makes it a size in KiB (2000 KiB).
MinCacheKb == 0
MaxCacheKb == 2000000
DefaultCacheSize == -2000

ASSUME ConnectionAssumption ==
    /\ IsFiniteSet(Handles)
    /\ IsFiniteSet(Stmts)
    /\ NoHandle \notin Handles
    /\ CacheSizes \subseteq Nat
    /\ \A p \in DOMAIN Pragmas : Pragmas[p] # {}

VARIABLES
    hstate,    \* engine state of each connection handle
    owned,     \* handles held by a live SqliteDb (its mConnection)
    sstate,    \* state of each statement handle, held by a SqliteStatement
    parent,    \* parent[s]: the connection s was prepared on
    extOn,     \* extOn[h]: sqlite3_enable_load_extension(h, 1) is in force
    loading,   \* loading[h]: a thread is inside h's loadExtension
    cacheSize, \* cacheSize[h]: the connection's cache_size pragma value
    settings,  \* settings[h][p]: the value of pragma p on h
    sqlLoaded  \* ghost: connections where SQL text ran load_extension()

lifetime == <<hstate, owned, sstate, parent>>
config == <<extOn, loading, cacheSize, settings, sqlLoaded>>
vars == <<lifetime, config>>

HState == {"unused", "open", "zombie", "released"}
\* A pragma's value: one a setter renders, or the engine's default.
PragmaValue == (UNION {Pragmas[p] : p \in DOMAIN Pragmas}) \cup {"default"}

TypeOK ==
    /\ hstate \in [Handles -> HState]
    /\ owned \subseteq Handles
    /\ sstate \in [Stmts -> {"unused", "live", "finalized"}]
    /\ parent \in [Stmts -> Handles \cup {NoHandle}]
    /\ extOn \in [Handles -> BOOLEAN]
    /\ loading \in [Handles -> BOOLEAN]
    /\ cacheSize \in [Handles -> {DefaultCacheSize} \cup CacheSizes]
    /\ settings \in [Handles -> [DOMAIN Pragmas -> PragmaValue]]
    /\ sqlLoaded \subseteq Handles

Init ==
    /\ hstate = [h \in Handles |-> "unused"]
    /\ owned = {}
    /\ sstate = [s \in Stmts |-> "unused"]
    /\ parent = [s \in Stmts |-> NoHandle]
    /\ extOn = [h \in Handles |-> FALSE]
    /\ loading = [h \in Handles |-> FALSE]
    /\ cacheSize = [h \in Handles |-> DefaultCacheSize]
    /\ settings = [h \in Handles |-> [p \in DOMAIN Pragmas |-> "default"]]
    /\ sqlLoaded = {}

\* The statements not yet finalized that were prepared on h.
LiveStmtsOf(h) == {s \in Stmts : sstate[s] = "live" /\ parent[s] = h}

-----------------------------------------------------------------------------
(* SqliteDb::open (and createInMemory, which calls it): sqlite3_open_v2    *)
(* allocates the handle whether or not it succeeds.  On SQLITE_OK it is    *)
(* wrapped in a SqliteConnectionPtr owned by the new SqliteDb; otherwise   *)
(* the error message is read from it and SqliteDbException is thrown with  *)
(* the raw pointer never wrapped.  (A NOMEM failure that returns no handle *)
(* changes nothing.)                                                       *)
Open(h) ==
    /\ hstate[h] = "unused"
    /\ hstate' = [hstate EXCEPT ![h] = "open"]
    /\ \/ owned' = owned \cup {h}    \* result == SQLITE_OK
       \/ UNCHANGED owned            \* result != SQLITE_OK: throw
    /\ UNCHANGED <<sstate, parent, config>>

(* SqliteDb::prepare: checkConnection, then sqlite3_prepare_v2 under the   *)
(* mutex; the handle it returns is owned by the SqliteStatement.  A failed *)
(* compilation throws and changes nothing.                                 *)
Prepare(h, s) ==
    /\ h \in owned
    /\ sstate[s] = "unused"
    /\ sstate' = [sstate EXCEPT ![s] = "live"]
    /\ parent' = [parent EXCEPT ![s] = h]
    /\ UNCHANGED <<hstate, owned, config>>

(* ~SqliteStatement: SqliteStatementDeleter calls sqlite3_finalize.  The   *)
(* last finalize on a zombie connection frees it.                          *)
Finalize(s) ==
    /\ sstate[s] = "live"
    /\ sstate' = [sstate EXCEPT ![s] = "finalized"]
    /\ hstate' = IF hstate[parent[s]] = "zombie" /\ LiveStmtsOf(parent[s]) = {s}
                   THEN [hstate EXCEPT ![parent[s]] = "released"]
                   ELSE hstate
    /\ UNCHANGED <<owned, parent, config>>

(* Mutant: the deleter calls sqlite3_close, which with statements still   *)
(* unfinalized returns SQLITE_BUSY (ignored by the deleter) and frees      *)
(* nothing.                                                                *)
CloseWithSqlite3Close(h) ==
    /\ h \in owned
    /\ ~loading[h]
    /\ owned' = owned \ {h}
    /\ hstate' = IF LiveStmtsOf(h) = {} THEN [hstate EXCEPT ![h] = "released"]
                                      ELSE hstate
    /\ UNCHANGED <<sstate, parent, config>>

(* ~SqliteDb: SqliteConnectionDeleter calls sqlite3_close_v2, which frees  *)
(* the handle now or, while statements are unfinalized, makes it a zombie. *)
Close(h) ==
    /\ h \in owned
    /\ ~loading[h]     \* no method of the SqliteDb is running
    /\ owned' = owned \ {h}
    /\ hstate' = [hstate EXCEPT ![h] =
                    IF LiveStmtsOf(h) = {} THEN "released" ELSE "zombie"]
    /\ UNCHANGED <<sstate, parent, config>>

-----------------------------------------------------------------------------
(* Configuration, run by any thread holding the SqliteDb.                  *)

(* setForeignKeyOn, setJournalMode, setSynchronous, setTempStore: the enum *)
(* value is rendered by a switch into "PRAGMA <p> = <v>" and passed to     *)
(* execute; a failing execute throws and changes nothing.                  *)
SetPragma(h, p, v) ==
    /\ h \in owned
    /\ settings' = [settings EXCEPT ![h][p] = v]
    /\ UNCHANGED <<lifetime, extOn, loading, cacheSize, sqlLoaded>>

(* setCacheSize: sizeKb < MIN_CACHE_KB never holds for a size_t; above     *)
(* MAX_CACHE_KB it throws invalid_argument before any SQL is run;          *)
(* otherwise "PRAGMA cache_size = n" is executed with n as it is, which    *)
(* SQLite reads as n pages, being non-negative (only a negative value is  *)
(* a size in KiB).                                                         *)
SetCacheSize(h, n) ==
    /\ h \in owned
    /\ n >= MinCacheKb
    /\ n <= MaxCacheKb
    /\ cacheSize' = [cacheSize EXCEPT ![h] = n]
    /\ UNCHANGED <<lifetime, extOn, loading, settings, sqlLoaded>>

(* loadExtension, first half: the library file exists (else it throws    *)
(* before touching the connection) and sqlite3_enable_load_extension(h,1) *)
(* succeeds (else it throws).  The call holds no lock.                    *)
LoadExtensionEnable(h) ==
    /\ h \in owned
    /\ ~loading[h]
    /\ loading' = [loading EXCEPT ![h] = TRUE]
    /\ extOn' = [extOn EXCEPT ![h] = TRUE]
    /\ UNCHANGED <<lifetime, cacheSize, settings, sqlLoaded>>

(* Mutant: a failed load throws before disableExtensionGuard() runs.      *)
LoadExtensionFinishKeepsOnFailure(h) ==
    /\ loading[h]
    /\ loading' = [loading EXCEPT ![h] = FALSE]
    /\ \/ extOn' = [extOn EXCEPT ![h] = FALSE]   \* loaded
       \/ UNCHANGED extOn                         \* failed: throw
    /\ UNCHANGED <<lifetime, cacheSize, settings, sqlLoaded>>

(* loadExtension, second half: sqlite3_load_extension, whatever its        *)
(* result, then disableExtensionGuard() turns extension loading off; a     *)
(* failed load throws only after that, so both outcomes are this step.    *)
LoadExtensionFinish(h) ==
    /\ loading[h]
    /\ loading' = [loading EXCEPT ![h] = FALSE]
    /\ extOn' = [extOn EXCEPT ![h] = FALSE]
    /\ UNCHANGED <<lifetime, cacheSize, settings, sqlLoaded>>

(* Another thread's SqliteDb::execute (or a prepared statement) whose SQL  *)
(* calls the load_extension() function: SQLite runs it only while          *)
(* extension loading is enabled on the connection, and fails it otherwise. *)
ExecuteLoadExtensionSql(h) ==
    /\ h \in owned
    /\ extOn[h]
    /\ sqlLoaded' = sqlLoaded \cup {h}
    /\ UNCHANGED <<lifetime, extOn, loading, cacheSize, settings>>

Next ==
    \E h \in Handles :
        \/ Open(h)
        \/ Close(h)
        \/ \E s \in Stmts : Prepare(h, s) \/ Finalize(s)
        \/ \E p \in DOMAIN Pragmas : \E v \in Pragmas[p] : SetPragma(h, p, v)
        \/ \E n \in CacheSizes : SetCacheSize(h, n)
        \/ LoadExtensionEnable(h)
        \/ LoadExtensionFinish(h)
        \/ ExecuteLoadExtensionSql(h)

(* SqliteDb and SqliteStatement are scoped objects: whoever holds one      *)
(* eventually destroys it.  A SqliteDb is destroyed between calls on it    *)
(* (Close waits while a loadExtension runs), so its destruction is only    *)
(* intermittently possible while threads keep calling it; the owner's     *)
(* scope still ends, which is strong fairness on Close.                   *)
Fairness ==
    /\ \A s \in Stmts : WF_vars(Finalize(s))
    /\ \A h \in Handles : SF_vars(Close(h))
    /\ \A h \in Handles : WF_vars(LoadExtensionFinish(h))

Spec == Init /\ [][Next]_vars /\ Fairness

-----------------------------------------------------------------------------
(* Properties                                                              *)

(* Every connection a SqliteDb has owned is eventually freed: the         *)
(* deleter's sqlite3_close_v2 frees it at once or defers the free to the  *)
(* last sqlite3_finalize of its statements, so destroying the SqliteDb    *)
(* before or after its statements leaks nothing.                          *)
DbHandleReleased == \A h \in Handles : h \in owned ~> hstate[h] = "released"

(* loadExtension's disableExtensionGuard: extension loading is enabled on *)
(* a connection only while a loadExtension call on it is in progress; a   *)
(* failed sqlite3_load_extension does not leave it on.                    *)
ExtensionScoped == \A h \in Handles : extOn[h] => loading[h]

(* The spec's scoped enable/disable: extension loading is enabled only for *)
(* the single sqlite3_load_extension call, so no SQL text run on the      *)
(* connection ever loads a library.                                       *)
NoSqlExtensionLoad == sqlLoaded = {}

(* Every allocated connection handle is owned by a SqliteDb, whose         *)
(* destructor will close it: none is leaked.                               *)
NoLeakedHandle == \A h \in Handles : hstate[h] = "open" => h \in owned

=============================================================================
