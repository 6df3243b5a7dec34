CONSTANTS
    q1 = q1
    q2 = q2
    v0 = v0
    Video = {v0}
    DefaultVideo = v0
    Second = {0}
    Peer = {q1}
    Invitation = {1, 2}
    Nil = Nil
    Offers <- NoOffers
    PeerSets <- AllPeers
    Updates <- Plays
    Max <- LossBounds
SPECIFICATION Spec
PROPERTIES
    ClientLossNoticed
    PageLossNoticed
CHECK_DEADLOCK FALSE
