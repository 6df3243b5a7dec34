CONSTANTS
    Client = {1, 2}
    Nil = Nil
    FirstLeader = 2
    FirstRank <- Directors
    Late = {1}
    MaxRound = 3
    MaxRetry = 1
    MaxCrashes = 0
SPECIFICATION Spec
INVARIANT NeverPanics
CHECK_DEADLOCK FALSE
