--------------------------- MODULE MCSqliteConnection ---------------------------
(* Model-checking instance of SqliteConnection: two connection handles     *)
(* (one may fail to open while the other succeeds) and two statements,    *)
(* so a connection can be closed with one or two statements outstanding.  *)
(* The cache sizes are the two ends of the accepted range, the first value *)
(* above it, and a huge value standing for (size_t)-1, what a caller     *)
(* passing -1 sends (TLC integers stop at 2^31 - 1; every value above the *)
(* maximum takes the same branch).                                         *)
(* One pragma with two values stands for the four enum setters.           *)
EXTENDS SqliteConnection

CONSTANTS h1, h2, s1, s2

MCHandles == {h1, h2}
MCStmts == {s1, s2}
MCCacheSizes == {MinCacheKb, MaxCacheKb, MaxCacheKb + 1, 2147483647}
MCPragmas == [journal_mode |-> {"WAL", "DELETE"}]

=============================================================================
