SPECIFICATION PartsSpec
CONSTANTS
    u1 = u1  k1 = k1  k2 = k2  w1 = w1  w2 = w2
    None = None
    Clusters = {c1}
    Users = {u1}
    Notes = {k1, k2}
    Problems = {p1, p2}
    MaxCalls = 1
    Namespaces = {1, 2}
    Denied = {}
    Workers = {w1, w2}
    AllNS = FALSE
    MaxWorld = 2
    Faults = {"events"}
INVARIANTS OneRun NoteMatches RegisteredIsLive OneWatches
PROPERTIES ImplementsPool CallResolves SlotReturns SweepCovers ShownCatchesUp
