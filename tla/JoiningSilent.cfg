CONSTANTS
    h1 = h1
    g1 = g1
    i1 = i1
    i2 = i2
    Nil = Nil
    Host = {h1}
    Guest = {g1}
    Invite = {i1}
    Inviter <- OneInviter
    Invitee <- OneInvitee
    RankOffered <- MixedRanks
    Random <- OwnRandom
    MaxRankChanges = 1
    MaxExits = 1
SPECIFICATION FairSpec
PROPERTY
    SilentDropped
CHECK_DEADLOCK FALSE
