SPECIFICATION ReverseSpec
CONSTANTS
    this = this
    alice = alice
    bob = bob
    h0 = h0
    h1 = h1
    h2 = h2
    s1 = s1
    s2 = s2
    Address = {this, alice}
    ZeroAddress = zero
    This = this
    Contracts = {this}
    Secret = {s1, s2}
    Hash = {h1, h2}
    ZeroHash = h0
    NoSecret = none
    HashOf <- MCHashOf
    CosmosAccount = {"neutron1"}
    Endpoint = {"neutron", "osmosis"}
    EmptyString = ""
    MIN_TIMELOCK_DURATION = 2
    MAX_TIMELOCK_DURATION = 2
    COSMOS_TIMEOUT_BUFFER = 1
    Wei = {0}
    GenesisProfile = "co2"
    GenesisHolder = alice
    GenesisSupply = 0
    MaxSupply = 1
    MaxTime = 1
    MaxTokenId = 2
    ProfileHash = {"co2", "kwh"}
    IndicatorId = {"none", "id_co2", "id_kwh"}
    ZeroIndicator = "none"
    Keccak <- MCKeccak
    MaxUint256 = 4
    Amount = {0, 1}
INVARIANTS
    RegistryConsistent
    MintsBoundToIndicator
PROPERTIES
    MintDecidedOnce
    BindingIsPermanent
CHECK_DEADLOCK FALSE
