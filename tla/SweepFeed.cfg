SPECIFICATION SweepFairSpec
CONSTANTS
    Namespaces = {1, 2}
    Denied = {}
    Workers = {w1}
    AllNS = TRUE
    MaxWorld = 2
    Faults = {"list", "feed", "forbidden"}
PROPERTIES SweepShares FeedCovers
