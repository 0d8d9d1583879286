SPECIFICATION Spec
CONSTANTS
    alice = alice
    bob = bob
    addr1 = addr1
    addr2 = addr2
    NoInfo = NoInfo
    Peers = {alice}
    Excluded = {}
    Stamps = {1, 2}
    Infos = {addr1}
    CanRemove = TRUE
    ConnectorFaults = FALSE
    SerialDelivery = FALSE
CHECK_DEADLOCK FALSE
INVARIANT NoDoubleRegistration
