SPECIFICATION AnSpec
CONSTANTS
    Keys = {k1}
INVARIANTS ReasoningHidden
CHECK_DEADLOCK FALSE
