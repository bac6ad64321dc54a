SPECIFICATION FairSpec
CONSTANTS
    Worlds <- Clusters
    StaticKinds <- Kinds
    Resolvers = {r1, r2}
    Pages = {p1}
    QueueMax = 1
    MaxDepth = 4
INVARIANTS QueuedOnce ConfirmedIsReal SiblingsTogether
PROPERTIES GroupsSettle
