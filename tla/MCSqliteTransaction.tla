------------------------- MODULE MCSqliteTransaction -------------------------
(* Model-checking instance of SqliteTransaction: two guards, which is     *)
(* enough for one to be stale while the other owns the transaction, and   *)
(* three writes, enough for one write before, one inside and one after an *)
(* automatic rollback.                                                     *)
EXTENDS SqliteTransaction

CONSTANTS c1, c2, w1, w2, w3

MCClients == {c1, c2}
MCWrites == {w1, w2, w3}

=============================================================================
