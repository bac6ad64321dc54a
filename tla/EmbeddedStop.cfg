SPECIFICATION EmbSpec
CONSTANTS
    Servers = {l1, l2, l3}
    Restarts = {a, b}
    Sizes = {0, 5}
    MinSize = 1
    MaxSize = 3
    Nobody = Nobody
PROPERTIES ServerStops
CHECK_DEADLOCK FALSE
