SPECIFICATION SocialSpec
CONSTANTS
    alice = alice
    bob = bob
    Contacts = {alice, bob}
    FollowLists <- OneOrBoth
    Given <- WithAndWithout
    MaxUpdates = 3
CHECK_DEADLOCK FALSE
INVARIANTS
    PeersAnswered
    FollowsTried
    UndisturbedAgree
PROPERTY UpdatesEnd
