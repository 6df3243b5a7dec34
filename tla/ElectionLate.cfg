CONSTANTS
    Client = {1, 2}
    Nil = Nil
    FirstLeader = 2
    FirstRank <- Directors
    Late = {1}
    MaxRound = 3
    MaxRetry = 0
    MaxCrashes = 1
SPECIFICATION FairSpec
INVARIANTS
    CountedVotesWereCast
PROPERTIES
    RoundsGoUp
    DeadLeaderNoticed
CHECK_DEADLOCK FALSE
