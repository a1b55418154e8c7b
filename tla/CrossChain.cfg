SPECIFICATION CrossSpec
CONSTANTS
    this = this
    alice = alice
    h0 = h0
    h1 = h1
    h2 = h2
    s1 = s1
    s2 = s2
    Address = {this, alice}
    ZeroAddress = zero
    This = this
    Contracts = {this}
    Secret = {s1, s2}
    Hash = {h1, h2}
    ZeroHash = h0
    NoSecret = none
    HashOf <- MCHashOf
    CosmosAccount = {"gw", "neutron1"}
    Endpoint = {"polygon", "neutron"}
    EmptyString = ""
    MIN_TIMELOCK_DURATION = 4
    MAX_TIMELOCK_DURATION = 4
    COSMOS_TIMEOUT_BUFFER = 2
    Wei = {1, 2}
    GenesisProfile = "co2"
    GenesisHolder = alice
    GenesisSupply = 1
    MaxSupply = 1
    MaxTime = 5
    MaxTokenId = 1
    ProfileHash = {"co2"}
    IndicatorId = {"none", "id_co2"}
    ZeroIndicator = "none"
    Keccak <- MCKeccak
    MaxUint256 = 4
    Amount = {1}
    CosmosOwner = "gw"
    AxelarGateway = "gw"
    GmpConfigured = TRUE
    FeeRecipientConfigured = TRUE
    ClassId = {"1"}
    TokenNumber <- MCTokenNumber
    IndicatorText = {"0xid_co2"}
    IndicatorOf <- MCIndicatorOf
    HexIndicator = {"id_co2"}
    HashText = {"x1", "x2"}
    HashOfText <- MCHashOfText
    MIN_TIMELOCK_SECS = 4
    MAX_TIMELOCK_SECS = 4
    EVM_TIMEOUT_BUFFER_SECS = 2
    IBC_ACK_FEE = 1
    IBC_TIMEOUT_FEE = 1
    MinBounty = 1
    MaxUint128 = 4
    CosmosAmount = {1}
    Coins = {1, 3}
    RelayCoins = {1}
    OwnerSparesBounties = TRUE
    MaxCosmosTime = 5
    EvmEndpoint = "polygon"
    CosmosEndpoint = "neutron"
    HexText <- MCHexText
    HexIndicatorText <- MCHexIndicatorText
    DecimalText <- MCDecimalText
    MaxSkew = 1
    Monitored = TRUE
    CarefulSenders = FALSE
INVARIANTS
    NoDoubleSpend
    UnitsConserved
    DestinationMatchesSource
PROPERTIES
    ClaimsCloseBeforeRefunds
    ImplementsAtomicTransfer
CHECK_DEADLOCK FALSE
