------------------------------ MODULE AtomicScopes ------------------------------
(***************************************************************************)
(* What a transaction scope promises its caller (spec.md, Transaction):   *)
(* at most one scope holds the connection's transaction at a time; the     *)
(* writes made while it holds it are kept apart and become durable         *)
(* together when its owner commits, or are all dropped when the scope ends *)
(* any other way; a write made while no scope holds the transaction is    *)
(* durable at once.  Nothing here says how: SqliteTransaction is shown to  *)
(* implement it.                                                           *)
(***************************************************************************)
CONSTANTS
    Clients,   \* the scopes that may hold the transaction
    Writes,    \* distinct data-changing statements
    None       \* no scope holds the transaction

VARIABLES
    owner,     \* the scope holding the transaction, or None
    buffer,    \* the writes of the holding scope, not yet durable
    durable,   \* the durable writes
    done       \* the writes made so far

avars == <<owner, buffer, durable, done>>

ScopesTypeOK ==
    /\ owner \in Clients \cup {None}
    /\ buffer \subseteq Writes
    /\ durable \subseteq Writes
    /\ done \subseteq Writes

ScopesInit ==
    /\ owner = None
    /\ buffer = {}
    /\ durable = {}
    /\ done = {}

\* Scope c takes the transaction; nobody else holds it.
OpenScope(c) ==
    /\ owner = None
    /\ owner' = c
    /\ UNCHANGED <<buffer, durable, done>>

\* The holder commits: its writes become durable together.
CommitScope(c) ==
    /\ owner = c
    /\ owner' = None
    /\ durable' = durable \cup buffer
    /\ buffer' = {}
    /\ UNCHANGED done

\* The holder's scope ends without a commit: its writes are all dropped.
AbortScope(c) ==
    /\ owner = c
    /\ owner' = None
    /\ buffer' = {}
    /\ UNCHANGED <<durable, done>>

\* A write joins the holder's scope, or is durable at once.
DoWrite(w) ==
    /\ w \notin done
    /\ done' = done \cup {w}
    /\ IF owner = None
         THEN /\ durable' = durable \cup {w}
              /\ UNCHANGED buffer
         ELSE /\ buffer' = buffer \cup {w}
              /\ UNCHANGED durable
    /\ UNCHANGED owner

ScopesNext ==
    \/ \E c \in Clients : OpenScope(c) \/ CommitScope(c) \/ AbortScope(c)
    \/ \E w \in Writes : DoWrite(w)

ScopesSpec == ScopesInit /\ [][ScopesNext]_avars

=============================================================================
