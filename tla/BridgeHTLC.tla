------------------------------ MODULE BridgeHTLC ------------------------------
(***************************************************************************)
(* The EVM bridge contract (evm-contracts/BridgeHTLC.sol) together with the *)
(* ERC-1155 token it escrows and mints.                                     *)
(*                                                                          *)
(* Forward direction (this chain is the source): lockForBurn escrows units  *)
(* under a hashlock and asks the Cosmos contract to prepare a mint; whoever *)
(* knows the secret burns the escrow (claimBurn, or the GMP callback), and  *)
(* the sender takes it back once the timelock has expired.                  *)
(* Reverse direction (this chain is the destination): a GMP message prepares*)
(* a mint; the secret mints it before its timeout and sends a callback.     *)
(*                                                                          *)
(* One action is one successful transaction.  A revert is no step, and a    *)
(* GMP message that _execute ignores only emits an event, so it is none     *)
(* either.  GMP messages the contract emits are collected in evmCalls.      *)
(***************************************************************************)
EXTENDS IndicatorToken1155, Sequences

CONSTANTS
    This,                    \* address(this)
    Contracts,               \* accounts with code: paying them may fail
    Secret, Hash, ZeroHash,  \* 32-byte words; ZeroHash is bytes32(0)
    NoSecret,                \* revealedSecrets entry never written
    HashOf,                  \* HashOf[s] = keccak256(abi.encodePacked(s))
    CosmosAccount,           \* recipient strings lockForBurn accepts
    Endpoint,                \* (chain, contract address) pairs GMP can name
    EmptyString,             \* an unset string field
    MIN_TIMELOCK_DURATION,   \* 1 hour
    MAX_TIMELOCK_DURATION,   \* 7 days
    COSMOS_TIMEOUT_BUFFER,   \* 30 minutes
    Wei,                     \* native amounts: msg.value, bounties, floors
    GenesisProfile, GenesisHolder, GenesisSupply,  \* what the deployment set up
    MaxSupply,               \* bound of an instance: the owner mints no more
    MaxTime                  \* bound of an instance: the clock stops here

ASSUME BridgeAssumption ==
    /\ This \in Address /\ Contracts \subseteq Address
    /\ IsFiniteSet(Hash)        \* 256-bit words
    /\ ZeroHash \notin {HashOf[s] : s \in Secret}
    /\ NoSecret \notin Secret
    /\ HashOf \in [Secret -> Hash]
    /\ \A s, r \in Secret : HashOf[s] = HashOf[r] => s = r
    /\ EmptyString \notin CosmosAccount /\ EmptyString \notin Endpoint
    /\ COSMOS_TIMEOUT_BUFFER \in Nat \ {0}
    /\ MIN_TIMELOCK_DURATION \in Nat /\ COSMOS_TIMEOUT_BUFFER < MIN_TIMELOCK_DURATION
    /\ MAX_TIMELOCK_DURATION \in Nat
    /\ Wei \subseteq Nat
    /\ GenesisProfile \in ProfileHash /\ GenesisHolder \in Address
    /\ GenesisSupply \in 0..MaxUint256 /\ MaxTokenId > 0
    /\ MaxSupply \in Nat /\ MaxTime \in Nat

VARIABLES
    locks,                \* [Hash -> HTLCLock]: transfers leaving this chain
    userLocks,            \* [Address -> Seq(Hash)]
    revealedSecrets,      \* [Hash -> Secret or NoSecret]
    pendingWithdrawals,   \* [Address -> native units owed]
    pendingMints,         \* [Hash -> PendingMint]: transfers arriving here
    authorizedSource,     \* (authorizedSourceChain, authorizedSourceAddress)
    minBounty,
    totalLocked, totalClaimed, totalRefunded,
    nativeBalance,        \* address(this).balance
    evmCalls,             \* every gateway.callContract made by this contract
    evmNow                \* block.timestamp

totalVars == <<totalLocked, totalClaimed, totalRefunded>>
configVars == <<authorizedSource, minBounty>>
nativeVars == <<pendingWithdrawals, nativeBalance>>
bridgeVars == <<locks, userLocks, revealedSecrets, nativeVars, pendingMints,
                configVars, totalVars, evmCalls, evmNow>>
evmVars == <<tokenVars, bridgeVars>>

Timelock == 0..MaxTime + MAX_TIMELOCK_DURATION

EmptyLock ==
    [state |-> "EMPTY", sender |-> ZeroAddress, tokenId |-> 0, amount |-> 0,
     timelock |-> 0, cosmosRecipient |-> EmptyString,
     destination |-> EmptyString, bounty |-> 0]

LockRecord ==
    [state : {"LOCKED", "CLAIMED", "REFUNDED"}, sender : Address, tokenId : TokenId,
     amount : 1..MaxUint256, timelock : Timelock, cosmosRecipient : CosmosAccount,
     destination : Endpoint, bounty : Wei \cup {0}]

HTLCLock == {EmptyLock} \cup LockRecord

\* Mutants of Settled: the record is deleted; the bounty is not cleared; the amount
\* is cleared too; a claim is written as a refund.
SettledByDelete(lock, state) == EmptyLock
SettledKeepingBounty(lock, state) == [lock EXCEPT !.state = state]
SettledDroppingAmount(lock, state) == [lock EXCEPT !.state = state, !.bounty = 0, !.amount = 0]
SettledAsRefund(lock, state) == [lock EXCEPT !.state = "REFUNDED", !.bounty = 0]

\* The terms of a lock stay; its bounty leaves with the settlement.
Settled(lock, state) == [lock EXCEPT !.state = state, !.bounty = 0]

EmptyMint ==
    [state |-> "EMPTY", tokenId |-> 0, amount |-> 0, recipient |-> ZeroAddress,
     indicatorId |-> ZeroIndicator, timeout |-> 0, source |-> EmptyString]

MintRecord ==
    [state : {"PENDING", "MINTED", "REFUNDED"}, tokenId : TokenId,
     amount : 1..MaxUint256, recipient : Address, indicatorId : IndicatorId,
     timeout : Timelock, source : Endpoint]

PendingMint == {EmptyMint} \cup MintRecord

Decided(pm, state) == [pm EXCEPT !.state = state]

\* What the contract sends through the gateway.  Every forward message comes
\* with relay gas; a callback does only if the claimer attached some.
PrepareMintCall ==
    [type : {"prepare_mint"}, to : Endpoint, hashlock : Hash,
     indicatorId : IndicatorId, tokenId : TokenId, amount : 1..MaxUint256,
     recipient : CosmosAccount, timeout : Timelock]
ClaimBurnCall ==
    [type : {"claim_burn"}, to : Endpoint, hashlock : Hash,
     secret : Secret, gasPaid : BOOLEAN]

\* Payload of an inbound prepare-mint message (_handlePrepareMint decodes it).
PreparePayload ==
    [hashlock : Hash, indicatorId : IndicatorId, tokenId : TokenId,
     amount : Amount, recipient : Address \cup {ZeroAddress}, timeout : Timelock]

BridgeTypeOK ==
    /\ locks \in [Hash -> HTLCLock]
    /\ userLocks \in [Address -> Seq(Hash)]
    /\ revealedSecrets \in [Hash -> Secret \cup {NoSecret}]
    /\ pendingWithdrawals \in [Address -> Nat]
    /\ pendingMints \in [Hash -> PendingMint]
    /\ authorizedSource \in Endpoint \cup {EmptyString}
    /\ minBounty \in Wei
    /\ totalLocked \in 0..MaxUint256
    /\ totalClaimed \in 0..MaxUint256
    /\ totalRefunded \in 0..MaxUint256
    /\ nativeBalance \in Nat
    /\ evmCalls \subseteq PrepareMintCall \cup ClaimBurnCall
    /\ evmNow \in 0..MaxTime

EvmTypeOK == TokenTypeOK /\ BridgeTypeOK

----------------------------------------------------------------------------
\* The state the deployment leaves behind: both constructors ran, the bridge is
\* set on the token, one class exists with an initial supply, and the counterpart
\* is authorised or not yet.
EvmInit ==
    /\ balances = [t \in TokenId |-> [a \in Address |->
            IF t = 1 /\ a = GenesisHolder THEN GenesisSupply ELSE 0]]
    /\ tokenToIndicator = [t \in TokenId |->
            IF t = 1 THEN Keccak[GenesisProfile] ELSE ZeroIndicator]
    /\ indicatorToToken = [i \in IndicatorId |->
            IF i = Keccak[GenesisProfile] THEN 1 ELSE 0]
    /\ tokenBound = [t \in TokenId |-> t = 1]
    /\ nextTokenId = 2
    /\ bridge = This
    /\ locks = [h \in Hash |-> EmptyLock]
    /\ userLocks = [a \in Address |-> <<>>]
    /\ revealedSecrets = [h \in Hash |-> NoSecret]
    /\ pendingWithdrawals = [a \in Address |-> 0]
    /\ pendingMints = [h \in Hash |-> EmptyMint]
    /\ authorizedSource \in Endpoint \cup {EmptyString}
    /\ minBounty \in Wei
    /\ totalLocked = 0 /\ totalClaimed = 0 /\ totalRefunded = 0
    /\ nativeBalance = 0
    /\ evmCalls = {}
    /\ evmNow = 0

----------------------------------------------------------------------------
\* keccak256(abi.encodePacked(secret)) == hashlock
Unlocks(s, h) == HashOf[s] = h

\* The deadline the Cosmos side gets for a lock that refunds at timelock.
CosmosTimeoutUnbuffered(timelock) == timelock     \* mutant: no buffer
CosmosTimeout(timelock) == timelock - COSMOS_TIMEOUT_BUFFER

\* lockForBurn.  value is msg.value: what exceeds the bounty pays the gas service.
LockForBurn(caller, t, amount, h, timelock, recipient, dest, bounty, value) ==
    /\ amount > 0
    /\ h # ZeroHash
    /\ timelock >= evmNow + MIN_TIMELOCK_DURATION
    /\ timelock <= evmNow + MAX_TIMELOCK_DURATION
    /\ locks[h].state = "EMPTY"
    /\ bounty >= minBounty
    /\ value > bounty
    /\ totalLocked + amount <= MaxUint256
    /\ MoveTokens(caller, This, t, amount)
    /\ locks' = [locks EXCEPT ![h] =
            [state |-> "LOCKED", sender |-> caller, tokenId |-> t, amount |-> amount,
             timelock |-> timelock, cosmosRecipient |-> recipient,
             destination |-> dest, bounty |-> bounty]]
    /\ userLocks' = [userLocks EXCEPT ![caller] = Append(@, h)]
    /\ totalLocked' = totalLocked + amount
    /\ nativeBalance' = nativeBalance + value - (value - bounty)
    /\ evmCalls' = evmCalls \cup
            {[type |-> "prepare_mint", to |-> dest, hashlock |-> h,
              indicatorId |-> GetIndicatorId(t), tokenId |-> t, amount |-> amount,
              recipient |-> recipient, timeout |-> CosmosTimeout(timelock)]}
    /\ UNCHANGED <<registryVars, bridge, revealedSecrets, pendingWithdrawals,
                   pendingMints, configVars, totalClaimed, totalRefunded, evmNow>>

\* _payBounty: a transfer that fails is credited to pendingWithdrawals instead.
PayBounty(amount, recipient) ==
    \/ /\ amount = 0
       /\ UNCHANGED nativeVars
    \/ /\ amount > 0
       /\ nativeBalance >= amount
       /\ nativeBalance' = nativeBalance - amount
       /\ UNCHANGED pendingWithdrawals
    \/ /\ amount > 0
       /\ recipient \in Contracts \/ nativeBalance < amount
       /\ pendingWithdrawals' = [pendingWithdrawals EXCEPT ![recipient] = @ + amount]
       /\ UNCHANGED nativeBalance

\* What claimBurn and the GMP callback have in common: the secret settles the
\* lock, the token contract burns the escrow, the bounty goes to payee.
BurnEscrow(h, s, payee) ==
    LET lock == locks[h] IN
    /\ lock.state = "LOCKED"
    /\ Unlocks(s, h)
    /\ totalClaimed + lock.amount <= MaxUint256
    /\ locks' = [locks EXCEPT ![h] = Settled(@, "CLAIMED")]
    /\ revealedSecrets' = [revealedSecrets EXCEPT ![h] = s]
    /\ totalClaimed' = totalClaimed + lock.amount
    /\ This = bridge
    /\ BurnOf(bridge, lock.tokenId, lock.amount)
    /\ PayBounty(lock.bounty, payee)
    /\ UNCHANGED <<registryVars, bridge, userLocks, pendingMints, configVars,
                   totalLocked, totalRefunded, evmCalls, evmNow>>

\* No deadline: the secret burns the escrow for as long as it is not refunded.
ClaimBurn(caller, h, s) == BurnEscrow(h, s, caller)

\* _execute with a 64-byte payload: the burn callback, from any source.
ExecuteCallback(h, s) == BurnEscrow(h, s, locks[h].sender)

RefundBurn(caller, h) ==
    LET lock == locks[h] IN
    /\ lock.state = "LOCKED"
    /\ evmNow >= lock.timelock
    /\ caller = lock.sender
    /\ totalRefunded + lock.amount <= MaxUint256
    /\ locks' = [locks EXCEPT ![h] = Settled(@, "REFUNDED")]
    /\ totalRefunded' = totalRefunded + lock.amount
    /\ MoveTokens(This, lock.sender, lock.tokenId, lock.amount)
    /\ PayBounty(lock.bounty, lock.sender)
    /\ UNCHANGED <<registryVars, bridge, userLocks, revealedSecrets, pendingMints,
                   configVars, totalLocked, totalClaimed, evmCalls, evmNow>>

WithdrawPending(caller) ==
    LET amount == pendingWithdrawals[caller] IN
    /\ amount > 0
    /\ nativeBalance >= amount
    /\ pendingWithdrawals' = [pendingWithdrawals EXCEPT ![caller] = 0]
    /\ nativeBalance' = nativeBalance - amount
    /\ UNCHANGED <<tokenVars, locks, userLocks, revealedSecrets, pendingMints,
                   configVars, totalVars, evmCalls, evmNow>>

----------------------------------------------------------------------------
HashlockUnlocked(h) == locks[h].state = "EMPTY"     \* mutant: no replay check
HashlockUnused(h) == pendingMints[h].state = "EMPTY" /\ locks[h].state = "EMPTY"

ClassExists(t, i) == GetIndicatorId(t) # ZeroIndicator     \* mutant: any indicator
IndicatorMatches(t, i) == GetIndicatorId(t) # ZeroIndicator /\ GetIndicatorId(t) = i

\* _execute with a tagged 224-byte payload (_handlePrepareMint).
ExecutePrepareMint(source, m) ==
    /\ source = authorizedSource
    /\ HashlockUnused(m.hashlock)
    /\ m.amount # 0
    /\ m.recipient # ZeroAddress
    /\ m.timeout > evmNow
    /\ IndicatorMatches(m.tokenId, m.indicatorId)
    /\ pendingMints' = [pendingMints EXCEPT ![m.hashlock] =
            [state |-> "PENDING", tokenId |-> m.tokenId, amount |-> m.amount,
             recipient |-> m.recipient, indicatorId |-> m.indicatorId,
             timeout |-> m.timeout, source |-> source]]
    /\ UNCHANGED <<tokenVars, locks, userLocks, revealedSecrets, nativeVars,
                   configVars, totalVars, evmCalls, evmNow>>

\* Anyone with the secret, in time; the callback goes out with or without gas.
ClaimMint(h, s, value) ==
    LET pm == pendingMints[h] IN
    /\ pm.state = "PENDING"
    /\ evmNow < pm.timeout
    /\ Unlocks(s, h)
    /\ pendingMints' = [pendingMints EXCEPT ![h] = Decided(@, "MINTED")]
    /\ revealedSecrets' = [revealedSecrets EXCEPT ![h] = s]
    /\ Mint(This, pm.recipient, pm.tokenId, pm.amount)
    /\ evmCalls' = evmCalls \cup
            {[type |-> "claim_burn", to |-> pm.source, hashlock |-> h, secret |-> s,
              gasPaid |-> value > 0]}
    /\ UNCHANGED <<locks, userLocks, nativeVars, configVars, totalVars, evmNow>>

RefundMintAnyState(h) ==     \* mutant: the state is not checked
    /\ evmNow >= pendingMints[h].timeout
    /\ pendingMints' = [pendingMints EXCEPT ![h] = Decided(@, "REFUNDED")]
    /\ UNCHANGED <<tokenVars, locks, userLocks, revealedSecrets, nativeVars,
                   configVars, totalVars, evmCalls, evmNow>>

RefundMint(h) ==
    /\ pendingMints[h].state = "PENDING"
    /\ evmNow >= pendingMints[h].timeout
    /\ pendingMints' = [pendingMints EXCEPT ![h] = Decided(@, "REFUNDED")]
    /\ UNCHANGED <<tokenVars, locks, userLocks, revealedSecrets, nativeVars,
                   configVars, totalVars, evmCalls, evmNow>>

----------------------------------------------------------------------------
\* Owner's configuration.
SetMinBounty(floor) ==
    /\ minBounty' = floor
    /\ UNCHANGED <<tokenVars, locks, userLocks, revealedSecrets, nativeVars,
                   pendingMints, authorizedSource, totalVars, evmCalls, evmNow>>

SetAuthorizedSource(source) ==
    /\ authorizedSource' = source
    /\ UNCHANGED <<tokenVars, locks, userLocks, revealedSecrets, nativeVars,
                   pendingMints, minBounty, totalVars, evmCalls, evmNow>>

\* The token contract is live meanwhile: holders move their units (never the
\* bridge, which has no such call), the owner mints, adds classes or points the
\* token at another bridge, and such a bridge mints and burns its own units.
TokenActivity ==
    /\ \/ \E from \in Address \ {This}, to \in Address, t \in TokenId, amount \in Amount :
                SafeTransferFrom(from, to, t, amount)
       \/ \E to \in Address, t \in TokenId, amount \in Amount :
                /\ Supply(t) + amount <= MaxSupply     \* bound of an instance
                /\ \/ MintInitialSupply(to, t, amount)
                   \/ bridge \in Address \ {This} /\ Mint(bridge, to, t, amount)
       \/ \E t \in TokenId, amount \in Amount :
                /\ bridge \in Address \ {This}
                /\ BurnFromBridge(bridge, t, amount)
       \/ \E p \in ProfileHash : CreateTokenClass(p)
    /\ UNCHANGED bridgeVars

ChangeBridge(account) == SetBridge(account) /\ UNCHANGED bridgeVars

EvmTick ==
    /\ evmNow < MaxTime      \* bound of an instance
    /\ evmNow' = evmNow + 1
    /\ UNCHANGED <<tokenVars, locks, userLocks, revealedSecrets, nativeVars,
                   pendingMints, configVars, totalVars, evmCalls>>

EvmNext ==
    \/ \E caller \in Address \ {This}, t \in TokenId, amount \in Amount, h \in Hash,
          timelock \in Timelock, recipient \in CosmosAccount, dest \in Endpoint,
          bounty, value \in Wei :
            LockForBurn(caller, t, amount, h, timelock, recipient, dest, bounty, value)
    \/ \E caller \in Address \ {This}, h \in Hash, s \in Secret : ClaimBurn(caller, h, s)
    \/ \E h \in Hash, s \in Secret : ExecuteCallback(h, s)
    \/ \E caller \in Address \ {This}, h \in Hash : RefundBurn(caller, h)
    \/ \E caller \in Address : WithdrawPending(caller)
    \/ \E source \in Endpoint, m \in PreparePayload : ExecutePrepareMint(source, m)
    \/ \E h \in Hash, s \in Secret, value \in Wei : ClaimMint(h, s, value)
    \/ \E h \in Hash : RefundMint(h)
    \/ \E floor \in Wei : SetMinBounty(floor)
    \/ \E source \in Endpoint \cup {EmptyString} : SetAuthorizedSource(source)
    \/ \E account \in Address \cup {ZeroAddress} : ChangeBridge(account)
    \/ TokenActivity
    \/ EvmTick

EvmSpec == EvmInit /\ [][EvmNext]_evmVars
----------------------------------------------------------------------------
\* Units under the locks in a state; units of one class in open locks; bounties held.
AmountInState(state) ==
    SumFunctionOnSet([h \in Hash |-> IF locks[h].state = state THEN locks[h].amount ELSE 0], Hash)
EscrowOf(t) ==
    SumFunctionOnSet([h \in Hash |-> IF locks[h].state = "LOCKED" /\ locks[h].tokenId = t
                                     THEN locks[h].amount ELSE 0], Hash)
Bounties == SumFunctionOnSet([h \in Hash |-> locks[h].bounty], Hash)
Credits == SumFunctionOnSet(pendingWithdrawals, Address)

\* The bridge always holds, of every class, at least the units of its open locks:
\* no sequence of burns, refunds, mints and transfers lets one lock be paid out of
\* another one's escrow, even while the token points at another bridge.
EscrowBacked == \A t \in TokenId : balances[t][This] >= EscrowOf(t)

\* The contract's native balance is exactly what it owes: the bounties of the open
\* locks plus the credits of failed transfers (lockForBurn, _payBounty,
\* withdrawPending); so no payout can fail for want of funds.
NativeBacked == nativeBalance = Bounties + Credits

\* The statistics account for every lock exactly once, so the checked additions of
\* claimBurn and refundBurn (bounded by totalLocked) can never overflow and block
\* a settlement.
TotalsAccountForLocks ==
    /\ totalClaimed = AmountInState("CLAIMED")
    /\ totalRefunded = AmountInState("REFUNDED")
    /\ totalLocked = totalClaimed + totalRefunded + AmountInState("LOCKED")

\* A lock settles at most once and for good: after claimBurn, a callback or
\* refundBurn nothing about it changes again, and until then its terms are fixed.
LockSettlesOnce ==
    [][\A h \in Hash :
        /\ locks[h].state \in {"CLAIMED", "REFUNDED"} => locks'[h] = locks[h]
        /\ locks[h].state = "LOCKED" /\ locks'[h] # locks[h] =>
                /\ locks'[h] = Settled(locks[h], locks'[h].state)
                /\ locks'[h].state \in {"CLAIMED", "REFUNDED"}]_evmVars

\* A pending mint is decided at most once, and never by both claimMint and
\* refundMint; its terms are those of the accepted message for good.
MintDecidedOnce ==
    [][\A h \in Hash : pendingMints[h].state # "EMPTY" =>
        \/ pendingMints'[h] = pendingMints[h]
        \/ /\ pendingMints[h].state = "PENDING"
           /\ pendingMints'[h] = Decided(pendingMints[h], pendingMints'[h].state)
           /\ pendingMints'[h].state =
                (IF evmNow < pendingMints[h].timeout THEN "MINTED" ELSE "REFUNDED")]_evmVars

\* Supply on this chain is destroyed or created under a hashlock only once its
\* preimage is on this chain: CLAIMED and MINTED go with the revealed secret, and a
\* secret is revealed for no other reason.
SecretBehindSettlement ==
    \A h \in Hash :
        /\ revealedSecrets[h] # NoSecret <=>
                locks[h].state = "CLAIMED" \/ pendingMints[h].state = "MINTED"
        /\ revealedSecrets[h] # NoSecret => HashOf[revealedSecrets[h]] = h

\* Every prepare message sent carries the terms of a lock that really escrows them,
\* under the class's registered indicator, and a deadline that leaves the sender's
\* refund COSMOS_TIMEOUT_BUFFER later.
MessageMatchesLock ==
    \A m \in evmCalls : m.type = "prepare_mint" =>
        LET lock == locks[m.hashlock] IN
        /\ lock.state # "EMPTY"
        /\ lock.tokenId = m.tokenId /\ lock.amount = m.amount
        /\ lock.cosmosRecipient = m.recipient /\ lock.destination = m.to
        /\ m.indicatorId = tokenToIndicator[m.tokenId] /\ m.indicatorId # ZeroIndicator
        /\ lock.timelock = m.timeout + COSMOS_TIMEOUT_BUFFER

\* A burn callback leaves this chain exactly for the mints claimed here, to the
\* source the mint was prepared from, with the secret that claimed it.
CallbackMatchesMint ==
    /\ \A m \in evmCalls : m.type = "claim_burn" =>
        /\ pendingMints[m.hashlock].state = "MINTED"
        /\ pendingMints[m.hashlock].source = m.to
        /\ HashOf[m.secret] = m.hashlock
    /\ \A h \in Hash : pendingMints[h].state = "MINTED" =>
        \E m \in evmCalls : m.type = "claim_burn" /\ m.hashlock = h

\* No semantic mixing: what a pending mint has minted or will mint is units of the
\* class registered for the indicator its message named.
MintsBoundToIndicator ==
    \A h \in Hash : pendingMints[h].state # "EMPTY" =>
        /\ pendingMints[h].indicatorId # ZeroIndicator
        /\ tokenToIndicator[pendingMints[h].tokenId] = pendingMints[h].indicatorId

\* getUserLocks lists each of a sender's locks once, settled ones included, and
\* nobody else's.
UserLocksExact ==
    \A a \in Address :
        /\ {userLocks[a][i] : i \in 1..Len(userLocks[a])} =
                {h \in Hash : locks[h].state # "EMPTY" /\ locks[h].sender = a}
        /\ \A i, j \in 1..Len(userLocks[a]) : userLocks[a][i] = userLocks[a][j] => i = j

----------------------------------------------------------------------------
\* A block is eventually produced, and a sender whose timelock expired eventually
\* calls refundBurn; refundMint is permissionless, so somebody does.
EvmFairness ==
    /\ WF_evmVars(EvmTick)
    /\ \A a \in Address, h \in Hash : WF_evmVars(RefundBurn(a, h))
    /\ \A h \in Hash : WF_evmVars(RefundMint(h))

FairEvmSpec == EvmSpec /\ EvmFairness

\* No escrow and no pending mint is open for ever: even if the other chain and GMP
\* never answer, the local deadline decides.  (Deadlines past the instance's last
\* instant are left out.)
EveryLockSettles ==
    \A h \in Hash :
        /\ (locks[h].state = "LOCKED" /\ locks[h].timelock <= MaxTime)
                ~> locks[h].state # "LOCKED"
        /\ (pendingMints[h].state = "PENDING" /\ pendingMints[h].timeout <= MaxTime)
                ~> pendingMints[h].state # "PENDING"

\* test/reverse.test.js:16 says "refundMint frees the hashlock after timeout", and
\* BridgeHTLC.sol:661 that it "frees the hashlock state on this chain": afterwards
\* a message could prepare a mint under it again.
RefundMintFreesHashlock ==
    [][\A h \in Hash : RefundMint(h) => HashlockUnused(h)']_evmVars
=============================================================================
