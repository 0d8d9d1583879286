SPECIFICATION Spec
CONSTANTS
    alice = alice
    bob = bob
    addr1 = addr1
    addr2 = addr2
    NoInfo = NoInfo
    Peers = {alice}
    Excluded = {}
    Stamps = {1, 2, 3, 4}
    Infos = {addr1, addr2}
    CanRemove = TRUE
    ConnectorFaults = FALSE
    SerialDelivery = TRUE
CHECK_DEADLOCK FALSE
INVARIANTS
    RegisteredIsRouted
    NoDoubleRegistration
    LeaveObeyed
PROPERTY ImplementsDirectory
