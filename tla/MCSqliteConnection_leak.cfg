CONSTANTS
    h1 = h1
    h2 = h2
    s1 = s1
    s2 = s2
    NoHandle = NoHandle
    Handles <- MCHandles
    Stmts <- MCStmts
    CacheSizes <- MCCacheSizes
    Pragmas <- MCPragmas
SPECIFICATION Spec
CHECK_DEADLOCK FALSE
INVARIANTS
    NoLeakedHandle
