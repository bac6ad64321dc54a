SPECIFICATION Spec
CONSTANTS
    n1 = n1  n2 = n2  k1 = k1  k2 = k2  p1 = p1
    NoPort = NoPort
    None = None
    Names = {n1, n2}
    Contexts = {k1}
    Ports = {p1}
    Definitions <- OneDefinition
    Runs = {r1, r2}
    Procs = {q1, q2}
    Clients = {c1}
    MaxGen = 1
    Faults = {"disk"}
    Inputs = {"edit", "delete"}
SYMMETRY Symmetry
INVARIANTS UniqueUse NoProcessLost
CHECK_DEADLOCK FALSE
