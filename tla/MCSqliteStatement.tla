-------------------------- MODULE MCSqliteStatement --------------------------
(* SqliteStatement on a result of three columns, two of which share a name, *)
(* a name that no column has, and up to two executions of two rows each.  *)
EXTENDS SqliteStatement

CONSTANTS v, null

MCColumns == <<"id", "name", "id">>
MCNames == {"id", "name", "missing"}
MCVals == {v}
=============================================================================
