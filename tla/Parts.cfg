SPECIFICATION Spec
CONSTANTS
    None = None
    Contexts = {k1, k2}
    Routes = {direct, tunnel}
    ClusterStates = {x1, x2, x3, x4}
    Editors = {e1, e2}
    Faults = {"load", "disk"}
    Servers = {l1, l2}
    Restarts = {t1, t2}
    Sizes = {0, 5}
    MinSize = 1
    MaxSize = 3
    Nobody = Nobody
    Keys = {a1, a2}
    Objects = {o1}
    States = {s1, s2}
    Requests = {c1, c2}
    MaxIter = 2
    Runaway = 1
    MaxTools = 2
    Trails <- SomeTrails
    NoState = NoState
    NoteSize = 2
    MaxMembers = 3
    TriedPods = 3
    Gathered <- SomeGathered
    Windows = {0, 5, 12, 20, 25, 30, 40, 60}
    NoPod = NoPod
    MaxPods = 2
    MaxServices = 2
    MaxNodes = 2
    Linkable <- SomeObjects
    Views <- SomeViews
    Buffer = 1
    Caches <- SomeCaches
    Now = 10
    NewMax = 5
    OngoingMax = 8
    IdleAfter = 5
    Window = 1
    Infra = {2}
    Homes <- SomeHomes
    PageEvents <- SomePages
    Scopes = {n1, all}
    ClusterScope = all
    Readers = {r1, r2}
    TTL = 2
    MaxItems = 3
    MaxTime = 3
    Found <- SomeFound
INVARIANTS OnlyActivePolls ClientsFollow OneOwner ServerKept SizeShown OneAgent TrailSound  PromptSound LinkedSound EventsNewest HomeSound PageOnce SnapshotFresh
PROPERTIES PollsAdvance RunEnds InsightSettles 
CHECK_DEADLOCK FALSE
