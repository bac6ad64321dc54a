SPECIFICATION ClustersSpec
CONSTANTS
    None = None
    Contexts = {k1, k2}
    Routes = {direct, tunnel}
    ClusterStates = {o1, o2, o3, o4}
    Editors = {e1, e2}
    Faults = {"load"}
INVARIANTS ActivePolls
