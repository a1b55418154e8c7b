SPECIFICATION CosmosSpec
CONSTANTS
    owner = owner
    alice = alice
    h1 = h1
    h2 = h2
    s1 = s1
    s2 = s2
    e1 = e1
    CosmosAccount = {owner, alice}
    CosmosOwner = owner
    AxelarGateway = ""
    GmpConfigured = TRUE
    FeeRecipientConfigured = TRUE
    EmptyString = ""
    ClassId = {"1", "2"}
    TokenNumber <- MCTokenNumber
    IndicatorText = {"co2", "CO2"}
    IndicatorOf <- MCIndicatorOf
    HexIndicator = {"co2"}
    Secret = {s1}
    Hash = {h1, h2}
    HashOf <- MCHashOf
    NoSecret = none
    HashText = {"x1"}
    HashOfText <- MCHashOfText
    Address = {e1}
    Endpoint = {"polygon"}
    MIN_TIMELOCK_SECS = 2
    MAX_TIMELOCK_SECS = 2
    EVM_TIMEOUT_BUFFER_SECS = 1
    IBC_ACK_FEE = 1
    IBC_TIMEOUT_FEE = 1
    MinBounty = 1
    MaxUint128 = 4
    CosmosAmount = {1}
    Coins = {1, 2}
    RelayCoins = {0, 1}
    OwnerSparesBounties = TRUE
    MaxCosmosTime = 2
CHECK_DEADLOCK FALSE
INVARIANTS
    IndicatorBoundOnce
