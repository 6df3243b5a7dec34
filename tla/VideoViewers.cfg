CONSTANTS
    l = l
    m1 = m1
    v0 = v0
    v1 = v1
    Video = {v0, v1}
    DefaultVideo = v0
    Second = {0, 1}
    Peer = {}
    Invitation = {}
    Nil = Nil
    Member = {l, m1}
    Leader = l
    RankOf <- Viewers
    MaxActs = 2
    MaxDemotions = 0
    MaxUnblocks = 2
    MaxReports = 2
SPECIFICATION Spec
INVARIANTS
    TypeOK
    VideoIdTrue
    BlockLifted
PROPERTY ViewersFollow
CHECK_DEADLOCK FALSE
