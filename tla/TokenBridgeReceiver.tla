------------------------- MODULE TokenBridgeReceiver -------------------------
(***************************************************************************)
(* The CosmWasm contract on Neutron (cosmwasm-contract/src/contract.rs):    *)
(* destination of EVM -> Cosmos transfers (prepare_mint, claim_mint,        *)
(* refund_mint) and source of Cosmos -> EVM ones (lock_for_burn,            *)
(* claim_burn, refund_burn), with its token ledger and class registry.      *)
(*                                                                          *)
(* One action is one successful execute; an error or a panic rolls the      *)
(* transaction back and is no step.  Storage is keyed by TEXT: hashlocks and*)
(* indicator ids are hex strings that keep the case the caller typed, while *)
(* their comparison with a hash ignores case.  HashText and IndicatorText   *)
(* are such spellings.  STORED_MESSAGE (debugging) is left out.             *)
(***************************************************************************)
EXTENDS Integers, Sequences, FiniteSetsExt

CONSTANTS
    CosmosAccount, CosmosOwner,
    AxelarGateway,             \* config.axelar_gateway, or EmptyString
    GmpConfigured,             \* whether config.axelar_gmp_account is set
    FeeRecipientConfigured,    \* whether config.axelar_fee_recipient is set
    EmptyString,
    ClassId, TokenNumber,      \* token_id strings; their value as u128, -1 if none
    IndicatorText, IndicatorOf,\* indicator_id strings; the same in lower case
    HexIndicator,              \* the lower-case ones that spell a 32-byte word
    Secret, Hash, HashOf, NoSecret,
    HashText, HashOfText,      \* hashlock strings; the 32-byte word they spell
    Address,                   \* EVM recipients
    Endpoint,                  \* (chain, contract address) pairs GMP can name
    MIN_TIMELOCK_SECS, MAX_TIMELOCK_SECS, EVM_TIMEOUT_BUFFER_SECS,
    IBC_ACK_FEE, IBC_TIMEOUT_FEE,
    MinBounty,                 \* config.min_bounty: stored unchecked, 0 included
    MaxUint128,                \* the largest Uint128
    CosmosAmount,              \* token amounts a caller may pass
    Coins, RelayCoins,         \* untrn and relay-coin amounts a caller may name
    OwnerSparesBounties,       \* whether the owner leaves escrowed bounties alone
    MaxCosmosTime              \* bound of an instance: the clock stops here

IBC_MIN_FUNDS == IBC_ACK_FEE + IBC_TIMEOUT_FEE

\* What a transaction, whose size is limited, can spell are finitely many texts.
ASSUME ReceiverAssumption ==
    /\ IsFiniteSet(CosmosAccount) /\ IsFiniteSet(ClassId) /\ IsFiniteSet(HashText)
    /\ CosmosOwner \in CosmosAccount
    /\ EmptyString \notin CosmosAccount \cup ClassId \cup IndicatorText
    /\ AxelarGateway \in CosmosAccount \cup {EmptyString}
    /\ {GmpConfigured, FeeRecipientConfigured, OwnerSparesBounties} \subseteq BOOLEAN
    /\ TokenNumber \in [ClassId -> Nat \cup {-1}]
    /\ HexIndicator \subseteq {IndicatorOf[i] : i \in IndicatorText}
    /\ HashOf \in [Secret -> Hash] /\ HashOfText \in [HashText -> Hash]
    /\ NoSecret \notin Secret /\ EmptyString \notin Endpoint
    /\ EVM_TIMEOUT_BUFFER_SECS \in Nat \ {0} /\ MIN_TIMELOCK_SECS \in Nat
    /\ EVM_TIMEOUT_BUFFER_SECS < MIN_TIMELOCK_SECS
    /\ MAX_TIMELOCK_SECS \in Nat
    /\ IBC_ACK_FEE \in Nat \ {0} /\ IBC_TIMEOUT_FEE \in Nat \ {0}
    /\ MinBounty \in Nat /\ MaxUint128 \in Nat
    /\ CosmosAmount \subseteq 0..MaxUint128
    /\ Coins \subseteq Nat /\ RelayCoins \subseteq Nat
    /\ MaxCosmosTime \in Nat

VARIABLES
    htlcLocks,          \* HTLC_LOCKS: [HashText -> HTLCLock], state "None" if absent
    userHtlcLocks,      \* USER_HTLC_LOCKS
    outboundLocks,      \* OUTBOUND_LOCKS: [HashText -> OutboundLock]
    classes,            \* TOKEN_CLASSES: [ClassId -> IndicatorText, or EmptyString]
    indicatorClass,     \* INDICATOR_TO_TOKEN: [IndicatorText -> ClassId, or EmptyString]
    cosmosBalances,     \* BALANCES: [ClassId -> [CosmosAccount -> units]]
    tokenSupply,        \* TOKEN_SUPPLY
    totalSupply,        \* TOTAL_SUPPLY
    stats,              \* BRIDGE_STATS
    authorizedSenders,  \* AUTHORIZED_SENDERS
    bankUntrn, bankRelay,  \* coins the contract's bank account holds
    bankSent,           \* history: the untrn it paid out, by who called and who got it
    ibcInFlight,        \* GMP messages in an IBC packet not yet acknowledged
    cosmosCalls,        \* GMP messages Axelar has accepted
    cosmosNow           \* env.block.time

registryVarsC == <<classes, indicatorClass>>
ledgerVars == <<cosmosBalances, tokenSupply, totalSupply>>
bankVars == <<bankUntrn, bankRelay, bankSent>>
ibcVars == <<ibcInFlight, cosmosCalls>>
cosmosVars == <<htlcLocks, userHtlcLocks, outboundLocks, registryVarsC, ledgerVars,
                stats, authorizedSenders, bankVars, ibcVars, cosmosNow>>

CosmosTimelock == 0..MaxCosmosTime + MAX_TIMELOCK_SECS

NoInbound ==
    [state |-> "None", indicator |-> EmptyString, class |-> EmptyString, amount |-> 0,
     recipient |-> EmptyString, source |-> EmptyString, timeout |-> 0,
     secret |-> NoSecret]

HTLCLock == {NoInbound} \cup
    [state : {"Pending", "Claimed", "Refunded"}, indicator : IndicatorText,
     class : ClassId, amount : 1..MaxUint128, recipient : CosmosAccount,
     source : Endpoint, timeout : CosmosTimelock, secret : Secret \cup {NoSecret}]

NoOutbound ==
    [state |-> "None", sender |-> EmptyString, class |-> EmptyString, amount |-> 0,
     evmRecipient |-> EmptyString, destination |-> EmptyString, timelock |-> 0,
     bounty |-> 0, secret |-> NoSecret]

OutboundLock == {NoOutbound} \cup
    [state : {"Locked", "Claimed", "Refunded"}, sender : CosmosAccount,
     class : ClassId, amount : 1..MaxUint128, evmRecipient : Address,
     destination : Endpoint, timelock : CosmosTimelock,
     bounty : Nat, secret : Secret \cup {NoSecret}]

\* Arguments of prepare_mint, the JSON message of the EVM contract.
PrepareArgs ==
    [hashlock : HashText, indicator : IndicatorText, class : ClassId,
     amount : CosmosAmount, recipient : CosmosAccount, timeout : CosmosTimelock,
     source : Endpoint]

\* Messages that leave in the memo of an IBC transfer of the relay coin; "of" is the
\* lock whose packet it is, the payload carries the decoded word.
CallbackMsg ==
    [type : {"callback"}, of : HashText, to : Endpoint, hashlock : Hash,
     secret : Secret, relay : RelayCoins, feeInMemo : BOOLEAN]
PrepareMsg ==
    [type : {"prepare"}, of : HashText, to : Endpoint, hashlock : Hash,
     indicatorId : HexIndicator, tokenId : Nat,
     amount : CosmosAmount, recipient : Address, timeout : CosmosTimelock,
     relay : RelayCoins, feeInMemo : BOOLEAN]

CosmosTypeOK ==
    /\ htlcLocks \in [HashText -> HTLCLock]
    /\ userHtlcLocks \in [CosmosAccount -> Seq(HashText)]
    /\ outboundLocks \in [HashText -> OutboundLock]
    /\ classes \in [ClassId -> IndicatorText \cup {EmptyString}]
    /\ indicatorClass \in [IndicatorText -> ClassId \cup {EmptyString}]
    /\ cosmosBalances \in [ClassId -> [CosmosAccount -> 0..MaxUint128]]
    /\ tokenSupply \in [ClassId -> 0..MaxUint128]
    /\ totalSupply \in 0..MaxUint128
    /\ stats \in [locks : Nat, claimed : 0..MaxUint128, refunded : 0..MaxUint128,
                  pending : 0..MaxUint128]
    /\ authorizedSenders \subseteq CosmosAccount
    /\ bankUntrn \in Nat /\ bankRelay \in Nat
    /\ bankSent \in [CosmosAccount -> [CosmosAccount -> Nat]]
    /\ ibcInFlight \subseteq CallbackMsg \cup PrepareMsg
    /\ cosmosCalls \subseteq CallbackMsg \cup PrepareMsg
    /\ cosmosNow \in 0..MaxCosmosTime

----------------------------------------------------------------------------
\* instantiate, followed by the create_token_class calls that bind the classes of
\* "bound" (EmptyString for the others).
CosmosInitWith(bound) ==
    /\ htlcLocks = [x \in HashText |-> NoInbound]
    /\ userHtlcLocks = [a \in CosmosAccount |-> <<>>]
    /\ outboundLocks = [x \in HashText |-> NoOutbound]
    /\ classes = bound
    /\ indicatorClass = [i \in IndicatorText |->
            IF \E c \in ClassId : bound[c] = i THEN CHOOSE c \in ClassId : bound[c] = i
            ELSE EmptyString]
    /\ cosmosBalances = [c \in ClassId |-> [a \in CosmosAccount |-> 0]]
    /\ tokenSupply = [c \in ClassId |-> 0]
    /\ totalSupply = 0
    /\ stats = [locks |-> 0, claimed |-> 0, refunded |-> 0, pending |-> 0]
    /\ authorizedSenders = {}
    /\ bankUntrn = 0 /\ bankRelay = 0
    /\ bankSent = [caller \in CosmosAccount |-> [a \in CosmosAccount |-> 0]]
    /\ ibcInFlight = {} /\ cosmosCalls = {}
    /\ cosmosNow = 0

CosmosInit == CosmosInitWith([c \in ClassId |-> EmptyString])

\* execute_prepare_mint accepts the owner, the configured gateway and the list the
\* owner keeps; execute_claim_burn calls the same senders relayers.
IsAuthorized(sender) ==
    \/ sender = CosmosOwner
    \/ sender = AxelarGateway
    \/ sender \in authorizedSenders

InboundPending(x) == htlcLocks[x].state = "Pending"     \* mutant: decided ones forgotten
Inbound(x) == htlcLocks[x].state # "None"
Outbound(x) == outboundLocks[x].state # "None"

ClassExists(c, i) == classes[c] # EmptyString     \* mutant: any indicator
IndicatorMatches(c, i) ==
    classes[c] # EmptyString /\ IndicatorOf[classes[c]] = IndicatorOf[i]

\* prepare_mint: a GMP message from the EVM chain, or an authorised sender.
PrepareMint(sender, m) ==
    /\ IsAuthorized(sender)
    /\ m.amount > 0
    /\ ~Inbound(m.hashlock)
    /\ m.timeout > cosmosNow
    /\ IndicatorMatches(m.class, m.indicator)
    /\ stats.pending + m.amount <= MaxUint128
    /\ htlcLocks' = [htlcLocks EXCEPT ![m.hashlock] =
            [state |-> "Pending", indicator |-> m.indicator, class |-> m.class,
             amount |-> m.amount, recipient |-> m.recipient, source |-> m.source,
             timeout |-> m.timeout, secret |-> NoSecret]]
    /\ userHtlcLocks' = [userHtlcLocks EXCEPT ![m.recipient] = Append(@, m.hashlock)]
    /\ stats' = [stats EXCEPT !.locks = @ + 1, !.pending = @ + m.amount]
    /\ UNCHANGED <<outboundLocks, registryVarsC, ledgerVars, authorizedSenders,
                   bankVars, ibcVars, cosmosNow>>

\* Whether what was attached pays for the IBC packet of a GMP message: otherwise its
\* fees would come out of what the contract holds for others.
HasRelayCoin(untrn, relay) == relay > 0     \* mutant: the fees are not checked
PaysForPacket(untrn, relay) == relay > 0 /\ untrn >= IBC_MIN_FUNDS

\* The IBC transfer of build_ibc_transfer_stargate: the whole relay coin leaves with
\* the memo and the feerefunder keeps the ack and timeout fees.
SendThroughAxelar(m, untrn) ==
    /\ ibcInFlight' = ibcInFlight \cup {m}
    /\ bankUntrn + untrn >= IBC_MIN_FUNDS
    /\ bankUntrn' = bankUntrn + untrn - IBC_MIN_FUNDS
    /\ UNCHANGED <<bankRelay, bankSent, cosmosCalls>>

\* claim_mint with the coins the claimer attached.  The burn callback leaves only if
\* they pay for it; otherwise it is just an attribute (status READY) and the coins
\* stay with the contract.
ClaimMint(x, s, untrn, relay) ==
    LET htlc == htlcLocks[x] IN
    /\ htlc.state = "Pending"
    /\ cosmosNow < htlc.timeout
    /\ HashOf[s] = HashOfText[x]
    /\ classes[htlc.class] # EmptyString
    /\ totalSupply + htlc.amount <= MaxUint128
    /\ stats.claimed + htlc.amount <= MaxUint128
    /\ stats.pending >= htlc.amount
    /\ htlcLocks' = [htlcLocks EXCEPT ![x].state = "Claimed", ![x].secret = s]
    /\ cosmosBalances' = [cosmosBalances EXCEPT ![htlc.class][htlc.recipient] = @ + htlc.amount]
    /\ tokenSupply' = [tokenSupply EXCEPT ![htlc.class] = @ + htlc.amount]
    /\ totalSupply' = totalSupply + htlc.amount
    /\ stats' = [stats EXCEPT !.claimed = @ + htlc.amount, !.pending = @ - htlc.amount]
    /\ IF GmpConfigured /\ PaysForPacket(untrn, relay)
       THEN SendThroughAxelar(
                [type |-> "callback", of |-> x, to |-> htlc.source,
                 hashlock |-> HashOfText[x], secret |-> s, relay |-> relay,
                 feeInMemo |-> FeeRecipientConfigured], untrn)
       ELSE /\ bankUntrn' = bankUntrn + untrn
            /\ bankRelay' = bankRelay + relay
            /\ UNCHANGED <<bankSent, ibcVars>>
    /\ UNCHANGED <<userHtlcLocks, outboundLocks, registryVarsC, authorizedSenders, cosmosNow>>

\* Mutants of RefundMint: the state is not checked; total_pending is not reduced.
RefundMintAnyState(x) ==
    LET htlc == htlcLocks[x] IN
    /\ cosmosNow >= htlc.timeout
    /\ stats.pending >= htlc.amount
    /\ htlcLocks' = [htlcLocks EXCEPT ![x].state = "Refunded"]
    /\ stats' = [stats EXCEPT !.refunded = @ + htlc.amount, !.pending = @ - htlc.amount]
    /\ UNCHANGED <<userHtlcLocks, outboundLocks, registryVarsC, ledgerVars,
                   authorizedSenders, bankVars, ibcVars, cosmosNow>>
RefundMintStillPending(x) ==
    LET htlc == htlcLocks[x] IN
    /\ htlc.state = "Pending"
    /\ cosmosNow >= htlc.timeout
    /\ htlcLocks' = [htlcLocks EXCEPT ![x].state = "Refunded"]
    /\ stats' = [stats EXCEPT !.refunded = @ + htlc.amount]
    /\ UNCHANGED <<userHtlcLocks, outboundLocks, registryVarsC, ledgerVars,
                   authorizedSenders, bankVars, ibcVars, cosmosNow>>

\* Permissionless; nothing was minted, so only the record changes.
RefundMint(x) ==
    LET htlc == htlcLocks[x] IN
    /\ htlc.state = "Pending"
    /\ cosmosNow >= htlc.timeout
    /\ stats.refunded + htlc.amount <= MaxUint128
    /\ stats.pending >= htlc.amount
    /\ htlcLocks' = [htlcLocks EXCEPT ![x].state = "Refunded"]
    /\ stats' = [stats EXCEPT !.refunded = @ + htlc.amount, !.pending = @ - htlc.amount]
    /\ UNCHANGED <<userHtlcLocks, outboundLocks, registryVarsC, ledgerVars,
                   authorizedSenders, bankVars, ibcVars, cosmosNow>>

----------------------------------------------------------------------------
\* The deadline the EVM side gets for a lock that refunds at timelock.
EvmTimeoutUnbuffered(timelock) == timelock     \* mutant: no buffer
EvmTimeout(timelock) == timelock - EVM_TIMEOUT_BUFFER_SECS

\* lock_for_burn.  The freshness check compares the key as it was typed.
LockForBurn(sender, c, amount, x, timelock, evmRecipient, dest, bounty, untrn, relay) ==
    /\ amount > 0
    /\ timelock >= cosmosNow + MIN_TIMELOCK_SECS
    /\ timelock <= cosmosNow + MAX_TIMELOCK_SECS
    /\ ~Outbound(x) /\ ~Inbound(x)
    /\ classes[c] # EmptyString
    /\ bounty >= MinBounty
    /\ untrn >= bounty
    /\ GmpConfigured
    /\ PaysForPacket(untrn - bounty, relay)
    /\ cosmosBalances[c][sender] >= amount
    /\ IndicatorOf[classes[c]] \in HexIndicator
    /\ TokenNumber[c] # -1
    /\ cosmosBalances' = [cosmosBalances EXCEPT ![c][sender] = @ - amount]
    /\ outboundLocks' = [outboundLocks EXCEPT ![x] =
            [state |-> "Locked", sender |-> sender, class |-> c, amount |-> amount,
             evmRecipient |-> evmRecipient, destination |-> dest, timelock |-> timelock,
             bounty |-> bounty, secret |-> NoSecret]]
    /\ stats' = [stats EXCEPT !.locks = @ + 1]
    /\ SendThroughAxelar(
            [type |-> "prepare", of |-> x, to |-> dest, hashlock |-> HashOfText[x],
             indicatorId |-> IndicatorOf[classes[c]], tokenId |-> TokenNumber[c],
             amount |-> amount, recipient |-> evmRecipient,
             timeout |-> EvmTimeout(timelock), relay |-> relay,
             feeInMemo |-> FeeRecipientConfigured], untrn)
    /\ UNCHANGED <<htlcLocks, userHtlcLocks, registryVarsC, tokenSupply, totalSupply,
                   authorizedSenders, cosmosNow>>

\* checked_sub(..).unwrap_or_default(): an underflow would silently become zero.
SaturatingSub(a, b) == IF a >= b THEN a - b ELSE 0

\* BankMsg::Send out of the contract in caller's transaction.  A failing send rolls
\* everything back, and the bank refuses to send no coins: the "bounty.is_empty()"
\* before each send asks for an empty list, which one coin of 0 untrn is not.
SendUntrn(amount, caller, to) ==
    /\ amount > 0
    /\ bankUntrn >= amount
    /\ bankUntrn' = bankUntrn - amount
    /\ bankSent' = [bankSent EXCEPT ![caller][to] = @ + amount]
    /\ UNCHANGED bankRelay

\* A relayer's call returns the bounty to the locker.
CallerIsPayee(caller, lock) == caller     \* mutant: the gateway keeps the bounty
BountyPayee(caller, lock) == IF IsAuthorized(caller) THEN lock.sender ELSE caller

\* claim_burn: no deadline.
ClaimBurn(caller, x, s) ==
    LET lock == outboundLocks[x] IN
    /\ lock.state = "Locked"
    /\ HashOf[s] = HashOfText[x]
    /\ stats.claimed + lock.amount <= MaxUint128
    /\ outboundLocks' = [outboundLocks EXCEPT ![x].state = "Claimed", ![x].secret = s,
                                              ![x].bounty = 0]
    /\ tokenSupply' = [tokenSupply EXCEPT ![lock.class] = SaturatingSub(@, lock.amount)]
    /\ totalSupply' = SaturatingSub(totalSupply, lock.amount)
    /\ stats' = [stats EXCEPT !.claimed = @ + lock.amount]
    /\ SendUntrn(lock.bounty, caller, BountyPayee(caller, lock))
    /\ UNCHANGED <<htlcLocks, userHtlcLocks, registryVarsC, cosmosBalances,
                   authorizedSenders, ibcVars, cosmosNow>>

RefundBurn(caller, x) ==
    LET lock == outboundLocks[x] IN
    /\ lock.state = "Locked"
    /\ cosmosNow >= lock.timelock
    /\ caller = lock.sender
    /\ stats.refunded + lock.amount <= MaxUint128
    /\ outboundLocks' = [outboundLocks EXCEPT ![x].state = "Refunded", ![x].bounty = 0]
    /\ cosmosBalances' = [cosmosBalances EXCEPT ![lock.class][lock.sender] = @ + lock.amount]
    /\ stats' = [stats EXCEPT !.refunded = @ + lock.amount]
    /\ SendUntrn(lock.bounty, caller, lock.sender)
    /\ UNCHANGED <<htlcLocks, userHtlcLocks, registryVarsC, tokenSupply, totalSupply,
                   authorizedSenders, ibcVars, cosmosNow>>

----------------------------------------------------------------------------
\* create_token_class: the indicator id is stored and looked up as it was typed.
CreateTokenClass(c, i) ==
    /\ classes[c] = EmptyString
    /\ indicatorClass[i] = EmptyString
    /\ classes' = [classes EXCEPT ![c] = i]
    /\ indicatorClass' = [indicatorClass EXCEPT ![i] = c]
    /\ tokenSupply' = [tokenSupply EXCEPT ![c] = 0]
    /\ UNCHANGED <<htlcLocks, userHtlcLocks, outboundLocks, cosmosBalances, totalSupply,
                   stats, authorizedSenders, bankVars, ibcVars, cosmosNow>>

\* transfer: the recipient's balance is read after the sender's was written.
MovedOutOfStaleRead(held, from, to, amount) ==     \* mutant: both read first
    [held EXCEPT ![from] = held[from] - amount, ![to] = held[to] + amount]
Moved(held, from, to, amount) ==
    LET taken == [held EXCEPT ![from] = held[from] - amount]
    IN  [taken EXCEPT ![to] = taken[to] + amount]

Transfer(from, to, c, amount) ==
    /\ amount > 0
    /\ cosmosBalances[c][from] >= amount
    /\ cosmosBalances' = [cosmosBalances EXCEPT ![c] = Moved(@, from, to, amount)]
    /\ UNCHANGED <<htlcLocks, userHtlcLocks, outboundLocks, registryVarsC, tokenSupply,
                   totalSupply, stats, authorizedSenders, bankVars, ibcVars, cosmosNow>>

AddAuthorizedSender(sender) ==
    /\ authorizedSenders' = authorizedSenders \cup {sender}
    /\ UNCHANGED <<htlcLocks, userHtlcLocks, outboundLocks, registryVarsC, ledgerVars,
                   stats, bankVars, ibcVars, cosmosNow>>

RemoveAuthorizedSender(sender) ==
    /\ authorizedSenders' = authorizedSenders \ {sender}
    /\ UNCHANGED <<htlcLocks, userHtlcLocks, outboundLocks, registryVarsC, ledgerVars,
                   stats, bankVars, ibcVars, cosmosNow>>

EscrowedBounties == SumFunctionOnSet([x \in HashText |-> outboundLocks[x].bounty], HashText)

\* withdraw_funds, owner only: any amount of either coin.  OwnerSparesBounties is the
\* documented use, recovering what IBC refunds left behind and nothing else.
WithdrawFunds(untrn, relay, to) ==
    /\ untrn + relay > 0 /\ (untrn = 0 \/ relay = 0)
    /\ relay <= bankRelay
    /\ OwnerSparesBounties => untrn + EscrowedBounties <= bankUntrn
    /\ untrn <= bankUntrn
    /\ bankUntrn' = bankUntrn - untrn
    /\ bankRelay' = bankRelay - relay
    /\ bankSent' = [bankSent EXCEPT ![CosmosOwner][to] = @ + untrn]
    /\ UNCHANGED <<htlcLocks, userHtlcLocks, outboundLocks, registryVarsC, ledgerVars,
                   stats, authorizedSenders, ibcVars, cosmosNow>>

----------------------------------------------------------------------------
\* External, the IBC channel: Axelar acknowledges the transfer and owns the message,
\* or the transfer fails (error acknowledgement or timeout) and the relay coin comes
\* back to the contract.  Either way the feerefunder returns the unused fee.
IbcAccept(m) ==
    /\ m \in ibcInFlight
    /\ ibcInFlight' = ibcInFlight \ {m}
    /\ cosmosCalls' = cosmosCalls \cup {m}
    /\ bankUntrn' = bankUntrn + IBC_TIMEOUT_FEE
    /\ UNCHANGED <<htlcLocks, userHtlcLocks, outboundLocks, registryVarsC, ledgerVars,
                   stats, authorizedSenders, bankRelay, bankSent, cosmosNow>>

IbcReturn(m, refundedFee) ==
    /\ m \in ibcInFlight
    /\ ibcInFlight' = ibcInFlight \ {m}
    /\ bankUntrn' = bankUntrn + refundedFee
    /\ bankRelay' = bankRelay + m.relay
    /\ UNCHANGED <<htlcLocks, userHtlcLocks, outboundLocks, registryVarsC, ledgerVars,
                   stats, authorizedSenders, bankSent, cosmosCalls, cosmosNow>>

CosmosTick ==
    /\ cosmosNow < MaxCosmosTime      \* bound of an instance
    /\ cosmosNow' = cosmosNow + 1
    /\ UNCHANGED <<htlcLocks, userHtlcLocks, outboundLocks, registryVarsC, ledgerVars,
                   stats, authorizedSenders, bankVars, ibcVars>>

CosmosNext ==
    \/ \E sender \in CosmosAccount, m \in PrepareArgs : PrepareMint(sender, m)
    \/ \E x \in HashText, s \in Secret, untrn \in Coins, relay \in RelayCoins :
            ClaimMint(x, s, untrn, relay)
    \/ \E x \in HashText : RefundMint(x)
    \/ \E sender \in CosmosAccount, c \in ClassId, amount \in CosmosAmount, x \in HashText,
          timelock \in CosmosTimelock, evmRecipient \in Address, dest \in Endpoint,
          bounty, untrn \in Coins, relay \in RelayCoins :
            LockForBurn(sender, c, amount, x, timelock, evmRecipient, dest, bounty, untrn, relay)
    \/ \E caller \in CosmosAccount, x \in HashText, s \in Secret : ClaimBurn(caller, x, s)
    \/ \E caller \in CosmosAccount, x \in HashText : RefundBurn(caller, x)
    \/ \E c \in ClassId, i \in IndicatorText : CreateTokenClass(c, i)
    \/ \E from, to \in CosmosAccount, c \in ClassId, amount \in CosmosAmount :
            Transfer(from, to, c, amount)
    \/ \E sender \in CosmosAccount :
            AddAuthorizedSender(sender) \/ RemoveAuthorizedSender(sender)
    \/ \E untrn \in Coins, relay \in RelayCoins, to \in CosmosAccount :
            WithdrawFunds(untrn, relay, to)
    \/ \E m \in ibcInFlight :
            \/ IbcAccept(m)
            \/ \E fee \in {IBC_ACK_FEE, IBC_TIMEOUT_FEE} : IbcReturn(m, fee)
    \/ CosmosTick

CosmosSpec == CosmosInit /\ [][CosmosNext]_cosmosVars

----------------------------------------------------------------------------
\* Units of the locks in a state, inbound and outbound; units of a class in escrow.
InboundAmount(state) ==
    SumFunctionOnSet([x \in HashText |-> IF htlcLocks[x].state = state
                                         THEN htlcLocks[x].amount ELSE 0], HashText)
OutboundAmount(state) ==
    SumFunctionOnSet([x \in HashText |-> IF outboundLocks[x].state = state
                                         THEN outboundLocks[x].amount ELSE 0], HashText)
EscrowOf(c) ==
    SumFunctionOnSet([x \in HashText |-> IF outboundLocks[x].state = "Locked"
                                            /\ outboundLocks[x].class = c
                                         THEN outboundLocks[x].amount ELSE 0], HashText)

\* TOKEN_SUPPLY of a class is what its holders have plus what its open outbound locks
\* escrow (lock_for_burn takes the balance but not the supply), and TOTAL_SUPPLY is
\* their sum: so claim_burn's checked_sub(..).unwrap_or_default() never clamps.
SupplyMatchesHoldings ==
    /\ \A c \in ClassId :
            tokenSupply[c] = SumFunctionOnSet(cosmosBalances[c], CosmosAccount) + EscrowOf(c)
    /\ totalSupply = SumFunctionOnSet(tokenSupply, ClassId)

\* BRIDGE_STATS, one set of counters for both directions, accounts for every lock:
\* in particular total_pending covers each pending lock, so that neither claim_mint
\* nor refund_mint can panic on its subtraction and leave a lock stuck.
StatsAccountForLocks ==
    /\ stats.locks = Cardinality({x \in HashText : Inbound(x)})
                     + Cardinality({x \in HashText : Outbound(x)})
    /\ stats.pending = InboundAmount("Pending")
    /\ stats.claimed = InboundAmount("Claimed") + OutboundAmount("Claimed")
    /\ stats.refunded = InboundAmount("Refunded") + OutboundAmount("Refunded")

\* The bank account always covers the bounties of the open outbound locks (if the
\* owner withdraws only what IBC refunds orphaned): otherwise the Send in claim_burn
\* or refund_burn fails and takes the settlement down with it.
BountiesBacked == bankUntrn >= EscrowedBounties

\* A pending mint is decided once, claimed strictly before its deadline or refunded
\* from it on, and its terms never change.
InboundDecidedOnce ==
    [][\A x \in HashText : htlcLocks[x].state # "None" =>
        \/ htlcLocks'[x] = htlcLocks[x]
        \/ /\ htlcLocks[x].state = "Pending"
           /\ htlcLocks'[x] = [htlcLocks[x] EXCEPT !.state = htlcLocks'[x].state,
                                                   !.secret = htlcLocks'[x].secret]
           /\ htlcLocks'[x].state =
                (IF cosmosNow < htlcLocks[x].timeout THEN "Claimed" ELSE "Refunded")
           /\ htlcLocks'[x].secret # NoSecret => HashOf[htlcLocks'[x].secret] = HashOfText[x]
       ]_cosmosVars

\* A call of caller's settles the open lock of x and nothing else: with its secret, or
\* from its timelock on by the locker.  The bounty leaves in full, to a claimer who is
\* no relayer and otherwise back to the locker.
SettledBy(caller, x) ==
    LET lock == outboundLocks[x]
        settled == outboundLocks'[x]
        payee == IF settled.state = "Claimed" /\ ~IsAuthorized(caller) THEN caller
                 ELSE lock.sender IN
    /\ lock.state = "Locked"
    /\ \/ settled.state = "Claimed" /\ HashOf[settled.secret] = HashOfText[x]
       \/ settled.state = "Refunded" /\ caller = lock.sender /\ cosmosNow >= lock.timelock
    /\ outboundLocks' = [outboundLocks EXCEPT ![x] =
            [lock EXCEPT !.state = settled.state, !.secret = settled.secret, !.bounty = 0]]
    /\ bankUntrn' = bankUntrn - lock.bounty
    /\ bankSent' = [bankSent EXCEPT ![caller][payee] = @ + lock.bounty]

\* An outbound lock that changes is settled, once, and its bounty is paid in that very
\* step to the party claim_burn and refund_burn promise it; the contract's untrn
\* reaches an account in no other call but the owner's withdraw_funds.
BountyPaidOnSettlement ==
    [][/\ \A x \in HashText :
            outboundLocks[x].state # "None" /\ outboundLocks'[x] # outboundLocks[x] =>
                \E caller \in CosmosAccount : SettledBy(caller, x)
       /\ bankSent' # bankSent =>
            \/ \E x \in HashText : outboundLocks[x].state = "Locked"
                                   /\ outboundLocks'[x] # outboundLocks[x]
            \/ \A a \in CosmosAccount \ {CosmosOwner} : bankSent'[a] = bankSent[a]
      ]_cosmosVars

\* Every GMP message in flight or accepted stems from this contract's records: a
\* prepare message from a lock that escrowed the units, EVM_TIMEOUT_BUFFER_SECS
\* before its refund; a callback from a mint made here, with the secret behind it.
MessagesMatchLocks ==
    \A m \in ibcInFlight \cup cosmosCalls :
        /\ m.type = "prepare" =>
            LET lock == outboundLocks[m.of] IN
            /\ lock.state # "None"
            /\ m.amount = lock.amount /\ m.recipient = lock.evmRecipient
            /\ m.to = lock.destination /\ m.tokenId = TokenNumber[lock.class]
            /\ m.indicatorId = IndicatorOf[classes[lock.class]]
            /\ m.timeout + EVM_TIMEOUT_BUFFER_SECS = lock.timelock
        /\ m.type = "callback" =>
            /\ htlcLocks[m.of].state = "Claimed"
            /\ m.to = htlcLocks[m.of].source
            /\ m.secret = htlcLocks[m.of].secret /\ HashOf[m.secret] = m.hashlock

\* No semantic mixing: an inbound lock mints units of a class registered for the
\* indicator its message named, and no unit exists of a class never registered.
MintsMatchRegistry ==
    /\ \A x \in HashText : htlcLocks[x].state # "None" =>
        /\ classes[htlcLocks[x].class] # EmptyString
        /\ IndicatorOf[classes[htlcLocks[x].class]] = IndicatorOf[htlcLocks[x].indicator]
    /\ \A c \in ClassId : classes[c] = EmptyString => tokenSupply[c] = 0

----------------------------------------------------------------------------
\* Blocks are produced; refund_mint is permissionless; a locker whose timelock
\* expired eventually asks for its refund.
CosmosFairness ==
    /\ WF_cosmosVars(CosmosTick)
    /\ \A x \in HashText : WF_cosmosVars(RefundMint(x))
    /\ \A a \in CosmosAccount, x \in HashText : WF_cosmosVars(RefundBurn(a, x))

FairCosmosSpec == CosmosSpec /\ CosmosFairness

\* Nothing stays pending or escrowed for ever, even if every IBC packet is lost: the
\* local deadline decides, and the bounty send that is part of refund_burn always
\* finds its coins.  Not for a lock with a bounty of 0, which min_bounty = 0 admits:
\* neither claim_burn nor refund_burn can ever settle it.  (Deadlines past the
\* instance's last instant are left out too.)
EveryHTLCDecides ==
    \A x \in HashText :
        /\ (htlcLocks[x].state = "Pending" /\ htlcLocks[x].timeout <= MaxCosmosTime)
                ~> htlcLocks[x].state # "Pending"
        /\ (outboundLocks[x].state = "Locked" /\ outboundLocks[x].bounty > 0
              /\ outboundLocks[x].timelock <= MaxCosmosTime)
                ~> outboundLocks[x].state # "Locked"

----------------------------------------------------------------------------
\* contract.rs:701, "Hashlock freshness across BOTH directions": one hashlock never
\* serves a transfer in each direction.
FreshAcrossDirections ==
    \A x, y \in HashText : HashOfText[x] = HashOfText[y] => ~(Inbound(x) /\ Outbound(y))

\* contract.rs:1099, "Check if indicator is already bound": an indicator, the word
\* prepare_mint compares, is bound to one class only.
IndicatorBoundOnce ==
    \A c, d \in ClassId :
        classes[c] # EmptyString /\ classes[d] # EmptyString
            /\ IndicatorOf[classes[c]] = IndicatorOf[classes[d]] => c = d
=============================================================================
