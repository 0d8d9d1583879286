SPECIFICATION BlsSpec
CONSTANTS
    alice = alice
    bob = bob
    post = post
    draft = draft
    NoTag = NoTag
    Authors = {alice, bob}
    DTags = {post, draft}
    Events <- FewEvents
    Like <- ExactLike
    FilterLists <- Asked
    Environments <- Settings
    Amounts = {0, 20, 60}
    Bytes <- Lengths
    MaxVolatile = 2
INVARIANTS
    ReplaceableLatest
    ParameterizedLatest
    LostOnlyToNewer
    StoresAgree
    NewestServed
    PricesAsGiven
PROPERTY TableOutlivesProcess
