SPECIFICATION Spec
CONSTANTS
    alice = alice
    bob = bob
    addr1 = addr1
    addr2 = addr2
    NoInfo = NoInfo
    Peers = {alice, bob}
    Excluded = {bob}
    Stamps = {1, 2}
    Infos = {addr1, addr2}
    CanRemove = TRUE
    ConnectorFaults = TRUE
    SerialDelivery = FALSE
CHECK_DEADLOCK FALSE
INVARIANTS
    TypeOK
    ConnectorGrounded
    ChargesBounded
PROPERTY ProcessingEnds
