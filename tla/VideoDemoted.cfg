CONSTANTS
    l = l
    m1 = m1
    v0 = v0
    v1 = v1
    Video = {v0, v1}
    DefaultVideo = v0
    Second = {0, 1}
    Peer = {}
    Invitation = {}
    Nil = Nil
    Member = {l, m1}
    Leader = l
    RankOf <- Editors
    MaxActs = 1
    MaxDemotions = 1
    MaxUnblocks = 2
    MaxReports = 1
SPECIFICATION Spec
PROPERTY ViewersFollow
CHECK_DEADLOCK FALSE
