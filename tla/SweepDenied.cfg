SPECIFICATION SweepFairSpec
CONSTANTS
    Namespaces = {1, 2}
    Denied = {1}
    Workers = {w1}
    AllNS = FALSE
    MaxWorld = 1
    Faults = {}
PROPERTIES SweepCovers
