CONSTANTS
    Client = {1, 2}
    Nil = Nil
    FirstLeader = 2
    FirstRank <- Directors
    Late = {}
    MaxRound = 3
    MaxRetry = 3
    MaxCrashes = 1
SPECIFICATION FairSpec
PROPERTY LeaderReplaced
CHECK_DEADLOCK FALSE
