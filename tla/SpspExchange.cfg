SPECIFICATION SpspSpec
CONSTANTS
    alice = alice
    first = first
    second = second
    anvil = anvil
    base = base
    usdc = usdc
    dai = dai
    NoChain = NoChain
    NoToken = NoToken
    Requests = {first, second}
    client <- ClientOf
    supported <- SupportedChains
    addresses <- SettlementAddresses
    preferred <- PreferredTokens
    Relays = {"own", "public"}
    relayUrls <- RelaysOf
    Pushing = {"public"}
    Chains = {anvil, base}
    Tokens = {usdc, dai}
    Configs <- ServerConfigs
    MaxLives = 2
    MaxChannels = 2
CHECK_DEADLOCK FALSE
INVARIANTS
    ChannelsNegotiated
    SettledOnOpenChannel
    OneChannelPerLife
PROPERTY ExchangesEnd
