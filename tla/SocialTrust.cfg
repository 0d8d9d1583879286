SPECIFICATION TrustSpec
CONSTANTS
    me = me
    friend = friend
    fan = fan
    far = far
    peer = peer
    Pubkeys = {me, friend, fan, far, peer}
    from = me
    to = peer
    FollowGraphs <- Graphs
    Superseded <- OldLists
    MaxChanges = 2
    MaxFailures = 1
    maxDepth = 3
    maxSocialDistance = 4
    maxMutualFollowers = 2
    socialDistanceWeight = 3
    mutualFollowersWeight = 2
    reputationWeight = 1
    minCredit = 100
    maxCredit = 7
    curve = "exponential"
CHECK_DEADLOCK FALSE
INVARIANTS
    DistanceBounded
    CreditJustified
