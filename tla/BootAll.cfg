SPECIFICATION BootSpec
CONSTANTS
    alice = alice
    bob = bob
    carol = carol
    Queue <- SkipThenTwo
    BadPubkeys = {carol}
    Stamps = {1, 2}
    Unparseable = {2}
CHECK_DEADLOCK FALSE
INVARIANTS
    BootTypeOK
    QueryAnswered
    ConnectorMatchesResults
    OfferedOnce
PROPERTIES
    BootstrapEnds
