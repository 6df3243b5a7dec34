CONSTANTS
    Client = {1, 2, 3}
    Nil = Nil
    FirstLeader = 1
    FirstRank <- ViewerTwo
    Late = {}
    MaxRound = 3
    MaxRetry = 1
    MaxCrashes = 1
SPECIFICATION Spec
INVARIANTS
    TypeOK
    LeaderNotPeer
    OneVotePerRound
    RoundAgreement
PROPERTIES
    ImplementsVoting
CHECK_DEADLOCK FALSE
