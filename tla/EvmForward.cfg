SPECIFICATION ForwardSpec
CONSTANTS
    this = this
    alice = alice
    bob = bob
    h0 = h0
    h1 = h1
    h2 = h2
    s1 = s1
    s2 = s2
    Address = {this, alice, bob}
    ZeroAddress = zero
    This = this
    Contracts = {this, bob}
    Secret = {s1, s2}
    Hash = {h0, h1, h2}
    ZeroHash = h0
    NoSecret = none
    HashOf <- MCHashOf
    CosmosAccount = {"neutron1"}
    Endpoint = {"neutron"}
    EmptyString = ""
    MIN_TIMELOCK_DURATION = 2
    MAX_TIMELOCK_DURATION = 3
    COSMOS_TIMEOUT_BUFFER = 1
    Wei = {0, 1, 2}
    GenesisProfile = "co2"
    GenesisHolder = alice
    GenesisSupply = 3
    MaxSupply = 2
    MaxTime = 3
    MaxTokenId = 1
    ProfileHash = {"co2"}
    IndicatorId = {"none", "id_co2"}
    ZeroIndicator = "none"
    Keccak <- MCKeccak
    MaxUint256 = 4
    Amount = {0, 1, 2}
INVARIANTS
    NativeBacked
    TotalsAccountForLocks
    UserLocksExact
CHECK_DEADLOCK FALSE
