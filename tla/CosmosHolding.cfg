SPECIFICATION FairHoldingSpec
CONSTANTS
    owner = owner
    alice = alice
    h1 = h1
    h2 = h2
    s1 = s1
    s2 = s2
    e1 = e1
    CosmosAccount = {owner, alice}
    CosmosOwner = owner
    AxelarGateway = ""
    GmpConfigured = TRUE
    FeeRecipientConfigured = TRUE
    EmptyString = ""
    ClassId = {"1"}
    TokenNumber <- MCTokenNumber
    IndicatorText = {"co2"}
    IndicatorOf <- MCIndicatorOf
    HexIndicator = {"co2"}
    Secret = {s1, s2}
    Hash = {h1, h2}
    HashOf <- MCHashOf
    NoSecret = none
    HashText = {"x1", "x2"}
    HashOfText <- MCHashOfText
    Address = {e1}
    Endpoint = {"polygon"}
    MIN_TIMELOCK_SECS = 2
    MAX_TIMELOCK_SECS = 2
    EVM_TIMEOUT_BUFFER_SECS = 1
    IBC_ACK_FEE = 1
    IBC_TIMEOUT_FEE = 1
    MinBounty = 0
    MaxUint128 = 6
    CosmosAmount = {2}
    Coins = {0, 1, 3}
    RelayCoins = {0, 1}
    OwnerSparesBounties = TRUE
    MaxCosmosTime = 2
CHECK_DEADLOCK FALSE
INVARIANTS
    SupplyMatchesHoldings
    StatsAccountForLocks
    BountiesBacked
    MessagesMatchLocks
PROPERTIES
    BountyPaidOnSettlement
    EveryHTLCDecides
