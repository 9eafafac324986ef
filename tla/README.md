# TLA+ verification of sqlitedb

These are TLA+ models of the C++ wrapper `sdb` over the SQLite C API (`src/`). Each module is checked with TLC on small instances, and the most important invariants of the transaction guard are proved with TLAPS.

## 1. Inventory

| Component | Source | State it keeps | Operations that change state |
|---|---|---|---|
| Connection `SqliteDb` | `src/src/SqliteDb.cpp`, `src/include/SqliteDb.hpp` | `mConnection` (owning `sqlite3*`), `mMutex` | `open`, `createInMemory`, `prepare`, `execute`, `executeBatch`, `loadExtension`, `optimize`, the four pragma setters, `setCacheSize`, destructor (via `SqliteConnectionDeleter`) |
| Statement `SqliteStatement` | `src/src/SqliteStatement.cpp`, `src/include/SqliteStatement.hpp` (first part) | `mStatement` (owning `sqlite3_stmt*`); in the engine, the bindings and the row cursor | `bind`×6, `bindNull`, `bindAll`, `step`, `reset`, `clearBindings`, destructor (via `SqliteStatementDeleter`); the getters are read-only |
| ValueBinder `SqliteValueBinder` | `src/unnamed/part_000` lines 60–83 | a reference to one statement | `bind(index, SqliteValue)` |
| Transaction `SqliteTransaction` | `src/unnamed/part_000` lines 1–59, class in `src/include/SqliteStatement.hpp` lines 279–366 | `mSqliteDb&`, `mIntransaction` | constructor (BEGIN), `commit`, `rollback`, destructor |
| Value, options | `src/include/SqliteTypes.hpp` | none (types, enums, the two deleters) | none |
| Errors | `src/include/SqliteException.hpp`, `src/unnamed/part_001` | message and code | none |

How the components interact:

- Calls:
  - `SqliteTransaction` calls `SqliteDb::execute` (`BEGIN …`, `COMMIT`, `ROLLBACK`).
  - `executeBatch` calls `prepare`. It then drives one `SqliteStatement` through a `SqliteValueBinder`.
  - The setters call `execute`.
- Shared state: everything shares the SQLite connection.
  - The connection's transaction state (autocommit or not) is shared by all guards and all threads using the `SqliteDb`.
  - Statement handles depend on their connection handle. SQLite frees a connection closed by `sqlite3_close_v2` only after its last statement is finalized.
- Concurrency:
  - `mMutex` serialises each `prepare` and `execute` call. It does not cover a guard's scope, statement operations, or `loadExtension`.
  - Nothing else runs concurrently: there are no callbacks or asynchronous calls.

What is hard:

- Several guards on one connection: nested scopes, or threads.
- The guard's flag can disagree with the engine's state. SQLite rolls a transaction back by itself after `SQLITE_FULL`, `SQLITE_IOERR` or `SQLITE_NOMEM`, and the guard is not told.
- The destructor's rollback failure is swallowed.
- A batch can fail part way.
- Bindings outlive `sqlite3_reset`.
- A connection and its statements can be destroyed in either order.
- Exception paths can leak handles.
- `loadExtension` opens a window while extension loading is enabled, and it holds no lock.

Properties that make each component correct:

- **Transaction:**
  - A guard with `mIntransaction` set owns the connection's open transaction.
  - Each scope is all-or-nothing.
  - Only the owner ends a transaction (with no automatic rollback this follows from the first; after one, finding 2 shows it fails).
  - Every transaction ends.
- **Batch:**
  - Step *k* runs with row *k*'s values and nothing else.
  - A batch that returns has run every row exactly once, in order.
  - A batch that throws has run exactly the rows before the failing one.
- **Connection and statements:**
  - Every connection a `SqliteDb` owned is freed, whichever of it and its statements is destroyed first. (That no statement then runs over a freed connection is SQLite's own `close_v2` rule, not the wrapper's, and is not checked.)
  - No handle is leaked.
  - Extension loading is enabled only for the library load.
- **Statement:**
  - Bind indices are in range.
  - Column reads are in range and happen on a current row.
  - Name lookup returns the first matching column.

The SQLite engine is not in this repository. Each module includes the documented engine behaviour the wrapper relies on as its environment:

- the transaction state and the errors that roll a transaction back automatically;
- unbound parameters read as NULL;
- `close_v2` zombies;
- `load_extension()` being enabled by `sqlite3_enable_load_extension`.

## 2. Modules

| Module | Models | State ↔ code |
|---|---|---|
| `SqliteTransaction` | the guards over one shared connection and the engine's transaction | `live[c]` is the object `c` in scope; `active[c]` is `mIntransaction`; `dbInTxn` is `!sqlite3_get_autocommit`; `pending`/`committed` are the writes in the open transaction and the durable ones. `Begin`, `Commit`, `Rollback`, `Destroy` are the constructor, `commit`, `rollback` and destructor; `Write` is any data-changing `execute` or `step` by the thread of `c`; `WriteFailsRolledBack` is a statement error after which SQLite rolled back by itself. The ghosts `opener`, `mine`, `kept`, `abandoned` record who began the transaction and which writes each scope made, kept or abandoned. |
| `SqliteBatch` | `SqliteDb::executeBatch` | `pc` is the position in the loop; `i` and `idx` are the row and the parameter index; `bindings` is the statement's parameter slots; `stmt` is the `SqliteStatementPtr`; `executed` (a ghost) is the tuples `sqlite3_step` ran with. `Bind` covers `SqliteValueBinder::bind`, `SqliteStatement::bind` and `checkParameterIndex` (`ParamIndexValid`, `BindSlot`); `Step` is `step`; `ResetRow` is `reset` + `clearBindings`; `Throw` is the exception exit that finalizes the statement. |
| `SqliteConnection` | handle ownership and connection configuration | `hstate[h]` is the engine's state of a `sqlite3*` (unused, open, zombie, released); `owned` is the handles held by a live `SqliteDb`; `sstate`/`parent` are the statement handles. `Open`, `Prepare`, `Finalize`, `Close` are `open`, `prepare` and the two deleters; `SetPragma`, `SetCacheSize`, `LoadExtensionEnable`/`LoadExtensionFinish` are the setters and the two halves of `loadExtension`; `ExecuteLoadExtensionSql` is another thread's SQL calling `load_extension()`. |
| `SqliteStatement` | one `SqliteStatement` and its `sqlite3_stmt`, used by one thread; `bindAll`'s dispatch | `phase` is the engine's statement state (`ready` after prepare or reset, `row`, `halted` after DONE or an error); `execs` and `rowNo` count executions and rows; `row` is the current result row. `Step` is `step` (a halted statement is reset by `sqlite3_step` itself and runs again); `Reset` is `reset`; `GetByIndex` and `GetByName` are the getters, including the optional ones, through `CheckColumnIndex` (`checkColumnIndex`), `ColumnIndexOf` (`getColumnIndex`), `EngineCell` (`sqlite3_column_*`, NULL without a current row) and `Convert` (0, `""`, empty blob, empty optional for NULL). The ghost `lastRead` is the last getter call. `BindBranches`, `BindOverloads` and `BindParameterCompiles` are the `if constexpr` chain of `bindParameter` and overload resolution of `bind`, over C++ type names; `Int64T` is `std::int64_t` under the `Platform` data model. |
| `AtomicScopes` | what a transaction scope promises, with no mechanism | `owner` is the scope holding the transaction; `buffer` its writes; `durable` the durable writes. `OpenScope`, `CommitScope`, `AbortScope`, `DoWrite`. |
| `BatchContract` | what `executeBatch` promises, with no mechanism | `input` is the caller's rows; `applied` the parameter tuples executed so far; `outcome` is `running`, `ok` or `error`. `ApplyRow` runs the next row with exactly its values (`RowParams`); `Succeed` returns after the last row; `Fail` throws before some row, or on an empty range. |
| `SqliteTransactionProofs`, `SqliteConnectionProofs`, `SqliteBatchProofs`, `SqliteStatementProofs` | TLAPS proofs about `SqliteTransaction`, `SqliteConnection`, `SqliteBatch` and `SqliteStatement` | |
| `MC*` | TLC instances: model values for guards, writes, handles and statements | |

Abstractions:

- A call that fails without changing state only throws, so it is a stuttering step and has no action of its own. Examples are a BEGIN inside a transaction, a COMMIT with SQLITE_BUSY, and a constraint error.
- Each `execute` holds the mutex for the whole `sqlite3_exec` call, so each guard operation is one atomic step.
- SQL text, messages and values are model values.

## 3. Runs

| Run | Config | Checks | Shows |
|---|---|---|---|
| `txn` (pass) | `MCSqliteTransaction.cfg`: 2 guards, 3 writes, no automatic rollback | `OwnerConsistent`, `ScopeAtomicity`, `ImplementsAtomicScopes` | For errors that leave the transaction open, the guard is sound, and it implements `AtomicScopes` under the mapping `owner <- ScopeOwner` (the live, active guard), `buffer <- pending`, `durable <- committed`, `done <- written`. |
| `txn_auto` (pass) | the same, automatic rollback on | `OpenerActive`, `TxnEventuallyEnds` | Even with stale guards, no transaction is orphaned and every transaction ends. |
| `txn_intxn` (violation) | automatic rollback on | `InTransactionMeansDbInTxn` | `inTransaction()` is not what the header documents (finding). |
| `txn_discard` (violation) | automatic rollback on | `AutoRollbackDiscardsWrites` | The spec's scope-exit rollback fails after an automatic rollback (finding). |
| `batch` (pass) | `MCSqliteBatch.cfg`: P = 2, every range of ≤3 rows of ≤3 values over {a, NULL} | `BatchOutcome`, `ImplementsBatchContract` | Partial-failure and no-residue contract of `executeBatch`, and that it implements `BatchContract` under `input <- rows`, `applied <- executed`, `outcome <- Outcome` (`pc` once it is `ok` or `error`, else `running`). |
| `batch_rowlen` (violation) | the same | `RowsMatchPlaceholders` | Short rows run with NULLs instead of failing (finding). |
| `conn` (pass) | `MCSqliteConnection.cfg`: 2 handles, 2 statements, cache sizes {0, 2000000, 2000001, huge} | `ExtensionScoped`, `DbHandleReleased` | Extension loading is on only while a `loadExtension` call runs, even when the load fails; every connection a `SqliteDb` owned is eventually freed, whether it is destroyed before or after its statements (the deleter's `close_v2`; `sqlite3_close` would leave it open for good). |
| `conn_leak` (violation) | the same | `NoLeakedHandle` | A failed open leaks its handle (code bug). |
| `stmt` (pass) | `MCSqliteStatement.cfg`: columns `<<id, name, id>>`, names {id, name, missing}, one value, 2 executions of ≤2 rows | `ReadsReturnCurrentCell` | A getter on a current row returns that row's cell, converted per kind, of an in-range column; by name, of the first column with that name. |
| `stmt_norow` (violation) | the same | `ReadsHaveCurrentRow` | Getters before the first `step`, after `step()` returned false or after `reset` return 0 / `""` / NULL silently (finding). |
| `stmt_bindall` (violation) | the same, `Platform = "LP64"` | `BindAllCoversValueKinds` | `bindAll` cannot bind a blob, nor an `std::int64_t` on LP64 (finding). |
| `conn_extsql` (violation) | the same | `NoSqlExtensionLoad` | SQL from another thread can load an extension during `loadExtension` (finding). |

Why the bounds are enough:

- **Two guards** are the fewest that let one guard be stale while the other owns the transaction. **Three writes** allow one write before, one during and one after an automatic rollback.
- **Two placeholders** with rows of length 0–3 give rows shorter than, equal to and longer than the placeholder count, in every order of up to three rows. That is enough for a short row to follow a long one, which is the case where stale bindings would show.
- **Columns `<<id, name, id>>`** contain a duplicate name, so first-match lookup differs from last-match, and a name that is absent; index −1 and 3 probe both ends of `checkColumnIndex`. **Two executions of up to two rows** reach a step after a halt (re-execution), a reset in mid-result and a read left over from an earlier row or execution.
- **Two handles and two statements** let a connection close with one or two statements outstanding, while the other connection fails to open.

Each pass run has a mutant (PROJECT.json `mutants`): a plausible bug in the mapped code that TLC must catch.

Fairness:

- `SqliteTransaction` has weak fairness on `Destroy`.
- `SqliteConnection` has weak fairness on `Finalize` and `LoadExtensionFinish`, and strong fairness on `Close`.
- All of these are C++ scoped objects or a single call already in progress: the owning thread eventually leaves the scope or returns. `Close` is strong because a `SqliteDb` is destroyed between calls on it: while threads keep calling `loadExtension` it is only intermittently destroyable, and weak fairness would let those calls postpone the end of its owner's scope for ever. Nothing else is assumed fair.
- The `txn` run checks only safety, so its fairness is unused there; `TxnEventuallyEnds` is checked in `txn_auto`, whose behaviours include those of `txn`.

`CHECK_DEADLOCK FALSE` is set only for `SqliteBatch` and `SqliteConnection`:

- In `SqliteBatch`, the call returns.
- In `SqliteConnection`, all objects have been destroyed.

## 4. Findings

1. **`inTransaction()`** (`src/unnamed/part_000:45`) returns the guard's flag, not the engine's state. After an automatic rollback it is true with no transaction open.
2. **After an automatic rollback** the guard stays active:
   - the caller's next writes autocommit;
   - the destructor's ROLLBACK fails silently, so those writes survive a scope that never committed;
   - a stale guard's ROLLBACK or COMMIT can end a transaction that a later guard began. This consequence follows from the stale flag of finding 1; no run replays it.
3. **`executeBatch`** runs a row shorter than the placeholder count, with NULLs for the missing parameters. The spec and the header say such a row must fail.
4. **`SqliteDb::open`** leaks the handle when `sqlite3_open_v2` fails (`src/src/SqliteDb.cpp:33`).
6. **Reading without a current row** (`src/src/SqliteStatement.cpp:130`): `checkColumnIndex` checks only the index, so the getters return SQLite's NULL-derived 0, `""` or empty blob when no row is current. The spec's extraction contract does not mention this case.
7. **`bindAll`** (`src/include/SqliteStatement.hpp:266`): the blob branch tests `std::is_same_v<std::decay_t<T>, const std::vector<std::byte>&>`, which is never true, so a blob hits the `static_assert`. On LP64, `std::int64_t` is `long` and no branch tests `long` either. The spec says `bindAll` accepts every value kind.
5. **`loadExtension`** enables extension loading connection-wide, including the SQL function `load_extension()`, without taking the mutex. Concurrent SQL can load a library in that window. The window is exactly the call (`ExtensionScoped`, proved).

Not a run of its own: **`setCacheSize(sizeKb)`** (`src/src/SqliteDb.cpp:209`) sends `PRAGMA cache_size = sizeKb`, which SQLite reads as `sizeKb` pages (only a negative value is KiB), while the header and the spec say kilobytes. `SetCacheSize` stores the value as sent (`cacheSize`); the hazard is listed.

## 5. Proofs

`SqliteTransactionProofs` proves the following for every finite set of guards and writes (`tlapm SqliteTransactionProofs.tla`):

- `TypeCorrect`: `Spec => []TypeOK`.
- `OpenerActiveHolds`: `Spec => []OpenerActive`. `TypeOK /\ OpenerActive` is inductive as it stands. Each action either closes the transaction or leaves the opener's `live` and `active` untouched. The proof of `Destroy` uses the fact that an inactive guard cannot be the opener.
- `OwnerConsistentHolds`: assuming `~AutoRollback`, `Spec => []OwnerConsistent`.
  - `OwnerConsistent` alone is not inductive. `Begin` needs to know that no other guard is active, and the inactive guard's `Destroy` needs to know it is not the opener.
  - The strengthening used is `IInv == TypeOK /\ OpenerActive /\ OwnerConsistent`.
  - Each of `Commit`, `Rollback` and `Destroy` first derives that no other guard is active, then checks the new state.

- `ScopeAtomicityHolds`: assuming `~AutoRollback`, `Spec => []ScopeAtomicity`. The inductive invariant is `AInv == IInv /\ WritesInv /\ ScopeAtomicity`. `WritesInv` says that `pending` and `committed` are disjoint subsets of `written`, that `abandoned` is disjoint from `pending`, and that an active guard's writes `mine[c]` are all still pending. Without the last fact, a `Commit` could not show that the committing scope's writes become durable together.
- `RefinesAtomicScopes`: assuming `~AutoRollback`, `Spec => ImplementsAtomicScopes`. `Init` maps to `ScopesInit`. `NextRefines` shows that, under `IInv`, every step maps to an `AtomicScopes` step or a stutter: `Begin` to `OpenScope`, `Commit` to `CommitScope`, `Rollback` and the owner's `Destroy` to `AbortScope`, `Write` to `DoWrite`, and everything else to a stutter. The lemma `OwnerIsOpener` computes `ScopeOwner` from `OwnerConsistent`: the only live, active guard is the opener.
- `ExtensionScopedHolds` (in `SqliteConnectionProofs`): `Spec => []ExtensionScoped`, for every set of handles. The inductive invariant is `CInv == TypeOK /\ LiveParents /\ ExtensionScoped`; `LiveParents` (a live statement's parent is a real handle) is needed only for `TypeOK`, since `Finalize` updates `hstate[parent[s]]`. `LoadExtensionEnable` sets `extOn` and `loading` together and `LoadExtensionFinish` clears both, whichever way the load went; the lemma `FrameKeepsCInv` handles every other step.

- `BatchOutcomeHolds` (in `SqliteBatchProofs`): `Spec => []BatchOutcome`, for every placeholder count `P` and every set of inputs. The inductive invariant is `BInv`:
  - while row `i` is bound, the slots before `idx` hold its values and the rest are NULL (`BoundSoFar`), so at the step the bindings are exactly `Padded(rows[i])`;
  - `Len(executed)` is `i - 1` before the step of row `i` and `i` after it;
  - `prepare` starts with nothing executed and cleared slots.

  `BatchOutcome` alone is not inductive: a `Step` appends the bindings, and only `BoundSoFar` says what they are. `SequenceTheorems`' `AppendProperties` and `ElementOfSeq` supply the sequence facts.
- `RefinesBatchContract` (in `SqliteBatchProofs`): `Spec => ImplementsBatchContract`, for every `P` and every set of inputs. `Init` maps to `ContractInit`. `NextRefines` shows that under `BInv` each `Step` is `ApplyRow` (the bindings are `Padded(rows[i])` and `i - 1` rows have run, so row `i` is the next one), the last `ResetRow` and the `prepare` of an empty range are `Succeed`, every `Throw` is `Fail` (lemma `ThrowRefines`), and binding, `RowBound`, a successful `prepare` and a non-final `ResetRow` are stutters.
- `ColumnIndexOfFirst` (in `SqliteStatementProofs`): for every column list and name, `ColumnIndexOf(n)`, the recursive function that models `getColumnIndex`, equals the reference `FirstColumnNamed(n)`, the least index with that name or -1, and is a valid column index or -1. No induction theorem with an operator parameter is needed: `SearchExists` exhibits a function meeting the recursive equation (`FirstFrom`), and `SearchUnique` shows that any function meeting it agrees with that one, by taking the least index where they would differ (`WFMin` over `NatLessThanWellFounded` from `WellFoundedInduction`, packaged as `NatSetHasLeast`).
- `ReadsReturnCurrentCellHolds` (in `SqliteStatementProofs`): `Spec => []ReadsReturnCurrentCell`. The inductive invariant `SInv` adds `ReadBefore` to `TypeOK /\ ReadsReturnCurrentCell`: a recorded read that hit a row was made in an earlier execution, or in this one at a row no later than the current one. Without it a `Step` that moves to the next row could not show the last read is now stale (and so no longer judged); `GetByName` relies on `ColumnIndexOfFirst`.

While proving `TypeOK` for `SqliteConnection`, the proof showed that `PragmaValue` was parsed as `UNION (S \cup {"default"})`, which made it smaller than intended. It was corrected to `(UNION S) \cup {"default"}`.

Out of the prover's reach, and left to TLC:

- the liveness properties (`TxnEventuallyEnds`, `DbHandleReleased`), which rely on fairness and ENABLED;
- what a RECURSIVE operator computes, and induction over data through the library's induction theorems (their operator parameter cannot be instantiated by the installed provers); the one recursive definition, `ColumnIndexOf`, is a recursive function, handled through its defining equation and a least counterexample instead;
- properties of modules a proof module does not reach.

No module reaches a RECURSIVE operator: `getColumnIndex` is written as a recursive function, so every module can be proved about. Every invariant of a passing run and both refinements are proved; only the liveness properties are model-checked alone.

## 6. Not modelled (yet)

- **The re-execution of a halted statement** by a second `step()` is in `SqliteStatement`. Neither the spec nor the header says what should happen, so no property judges it (hazard listed).
- **Copying a `SqliteTransaction`**: the implicit copy constructor makes a second active guard for the same transaction. The models have no copy action, because copying is not part of the documented use (hazard listed). Such a copy would behave like a stale guard.
- **`bind` while a statement is running** (SQLite returns `SQLITE_MISUSE` and the wrapper throws) only throws, so it changes no state.
- **A guard outliving its `SqliteDb`**: planned composition of the transaction and lifetime models.
- **`optimize` (VACUUM) and the read-only getters**: they change no modelled state.
- **Value marshalling and error types**: data only.

## 7. Plan

- Sitting 1: `SqliteTransaction`, `SqliteBatch` and `SqliteConnection`, with three proved theorems.
- Sitting 2: `SqliteStatement`; `AtomicScopes` with its refinement, checked and proved; `ScopeAtomicity` proved.
- Sitting 3: `BatchOutcome` proved (its proof had sat after the module's end line and was not checked before); `ColumnIndexOfFirst`, `ReadsReturnCurrentCell` and the `BatchContract` refinement proved.
- Sitting 4: `TxnEndsOnlyByOwner` and the repeated `TxnEventuallyEnds` of `txn` dropped (with automatic rollback off, the first follows from `OwnerConsistent`); `HandleLifetime` and `ZombieReleased`, which followed from SQLite's `close_v2` rule whatever the wrapper did, replaced by `DbHandleReleased` and `ExtensionScoped`, which the wrapper's own code can break; `ExtensionScoped` proved.

Next:

1. **`SqliteBatchTxn`.** Compose `SqliteBatch` into a `SqliteTransaction` scope, including raw `execute("COMMIT")`/`("BEGIN")` between chunks as the header suggests.
2. **`SqliteTxnLifetime`.** Compose the guard with `SqliteConnection` lifetimes, for the case where a guard outlives its `SqliteDb`.
3. **Proofs.** `TypeOK` theorems for `SqliteStatement`'s `bindAll` dispatch, and invariants of the compositions above once they exist.
