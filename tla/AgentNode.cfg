SPECIFICATION NodeSpec
CONSTANTS
    me = me
    alice = alice
    addr1 = addr1
    addr2 = addr2
    NoInfo = NoInfo
    Me = me
    Peers = {me, alice}
    Excluded = {me}
    Stamps = {1, 2, 3}
    Infos = {addr1, addr2}
    CanRemove = TRUE
    ConnectorFaults = TRUE
    SerialDelivery = FALSE
    Events <- NodeEvents
    Own <- OwnAnnouncement
    Sources <- NodeSources
    MaxLives = 2
CHECK_DEADLOCK FALSE
INVARIANTS
    SourcesMerged
    DeliveredSerially
    ChannelsKept
PROPERTY SnapshotServed
