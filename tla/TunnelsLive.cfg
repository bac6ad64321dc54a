SPECIFICATION FairSpec
CONSTANTS
    n1 = n1  n2 = n2  k1 = k1  k2 = k2  p1 = p1
    NoPort = NoPort
    None = None
    Names = {n1}
    Contexts = {k1, k2}
    Ports = {p1}
    Definitions <- PortAndVpn
    Runs = {r1}
    Procs = {q1, q2}
    Clients = {c1}
    MaxGen = 2
    Faults = {"start"}
    Inputs = {"start", "stop", "open", "outside"}


PROPERTIES StartResolves DropIsRestarted ToldEnds
CHECK_DEADLOCK FALSE
