CONSTANTS
    q1 = q1
    q2 = q2
    v0 = v0
    Video = {v0}
    DefaultVideo = v0
    Second = {0}
    Peer = {q1}
    Invitation = {1, 2}
    Nil = Nil
    Offers <- TwoOffers
    PeerSets <- AllPeers
    Updates <- Plays
    Max <- JoinBounds
SPECIFICATION Spec
INVARIANTS
    TypeOK
    OneVideoHeartbeat
    RankAgrees
CHECK_DEADLOCK FALSE
