SPECIFICATION RelaySpec
CONSTANTS
    alice = alice
    bob = bob
    owner = owner
    client1 = client1
    client2 = client2
    NoTag = NoTag
    Authors = {alice, bob, owner}
    DTags = {}
    Events <- FewEvents
    Verified <- FewEvents
    Like <- ExactLike
    Clients = {client1}
    SubIds = {"a"}
    FilterLists <- OneList
    MaxConnections = 1
    MaxSubscriptions = 1
    MaxFilters = 3
    Amounts = {60}
    Bytes <- Lengths
    BasePricePerByte = 10
    KindOverrides <- NoOverrides
    SpspMinPrice = {}
    Owner = owner
CHECK_DEADLOCK FALSE
PROPERTY EventsArePushed
