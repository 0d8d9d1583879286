SPECIFICATION RelaySpec
CONSTANTS
    alice = alice
    bob = bob
    owner = owner
    client1 = client1
    client2 = client2
    NoTag = NoTag
    Authors = {alice, bob, owner}
    DTags = {}
    Events <- AllEvents
    Verified <- MoreEvents
    Like <- ExactLike
    Clients = {client1, client2}
    SubIds = {"a", "b"}
    FilterLists <- AskedLists
    MaxConnections = 1
    MaxSubscriptions = 1
    MaxFilters = 2
    Amounts = {15, 20}
    Bytes <- Lengths
    BasePricePerByte = 10
    KindOverrides <- NoOverrides
    SpspMinPrice = {20}
    Owner = owner
CHECK_DEADLOCK FALSE
INVARIANTS
    RelayTypeOK
    LimitsHold
    AcksKept
    QueryMatchesAny
