CONSTANTS
    h1 = h1
    g1 = g1
    i1 = i1
    i2 = i2
    Nil = Nil
    Host = {h1}
    Guest = {g1}
    Invite = {i1, i2}
    Inviter <- OneInviter
    Invitee <- OneInvitee
    RankOffered <- MixedRanks
    Random <- OwnRandom
    MaxRankChanges = 0
    MaxExits = 0
SPECIFICATION Spec
INVARIANTS
    TypeOK
    JoinedInRoster
    RankSettles
CHECK_DEADLOCK FALSE
