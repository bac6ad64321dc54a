SPECIFICATION Spec
CONSTANTS
    n1 = n1  n2 = n2  k1 = k1  k2 = k2  p1 = p1
    NoPort = NoPort
    None = None
    Names = {n1}
    Contexts = {k1, k2}
    Ports = {p1}
    Definitions <- OneDefinition
    Runs = {r1}
    Procs = {q1, q2}
    Clients = {c1, c2}
    MaxGen = 2
    Faults = {"start", "pipe"}
    Inputs = {"start", "stop", "open", "exit"}
SYMMETRY Symmetry
INVARIANTS RunningIsBacked
PROPERTIES ImplementsLife
CHECK_DEADLOCK FALSE
