CONSTANTS
    c1 = c1
    c2 = c2
    w1 = w1
    w2 = w2
    w3 = w3
    None = None
    Clients <- MCClients
    Writes <- MCWrites
    AutoRollback = FALSE
SPECIFICATION Spec
INVARIANTS
    OwnerConsistent
    ScopeAtomicity
PROPERTIES
    ImplementsAtomicScopes
