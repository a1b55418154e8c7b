SPECIFICATION FairEvmSpec
CONSTANTS
    this = this
    alice = alice
    bob = bob
    h0 = h0
    h1 = h1
    h2 = h2
    s1 = s1
    s2 = s2
    Address = {this, alice, bob}
    ZeroAddress = zero
    This = this
    Contracts = {this, bob}
    Secret = {s1}
    Hash = {h1}
    ZeroHash = h0
    NoSecret = none
    HashOf <- MCHashOf
    CosmosAccount = {"neutron1"}
    Endpoint = {"neutron"}
    EmptyString = ""
    MIN_TIMELOCK_DURATION = 2
    MAX_TIMELOCK_DURATION = 2
    COSMOS_TIMEOUT_BUFFER = 1
    Wei = {1, 2}
    GenesisProfile = "co2"
    GenesisHolder = alice
    GenesisSupply = 2
    MaxSupply = 2
    MaxTime = 2
    MaxTokenId = 1
    ProfileHash = {"co2"}
    IndicatorId = {"none", "id_co2"}
    ZeroIndicator = "none"
    Keccak <- MCKeccak
    MaxUint256 = 4
    Amount = {1}
INVARIANTS
    EvmTypeOK
    EscrowBacked
    SecretBehindSettlement
    MessageMatchesLock
    CallbackMatchesMint
PROPERTIES
    LockSettlesOnce
    OnlyBridgeHoldingsBurn
    EveryLockSettles
CHECK_DEADLOCK FALSE
