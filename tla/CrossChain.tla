------------------------------ MODULE CrossChain ------------------------------
(***************************************************************************)
(* The whole bridge: the EVM contracts (BridgeHTLC, extended), the Cosmos    *)
(* contract (TokenBridgeReceiver, as Cosmos!) and Axelar GMP between them.   *)
(*                                                                          *)
(* GMP never forgets a message and may deliver it at any time, any number of*)
(* times, or never: loss, delay, duplication and reordering need no actions *)
(* of their own.  What it delivers was sent by the counterpart contract     *)
(* (the EVM gateway and the authorised sender vouch for that).              *)
(*                                                                          *)
(* Each chain has its own clock; they differ by at most MaxSkew.            *)
(* Administration and plain transfers are left to the modules of the two    *)
(* contracts; here the deployment is finished and stays as it is.           *)
(***************************************************************************)
EXTENDS BridgeHTLC

CONSTANTS
    \* what TokenBridgeReceiver declares beyond BridgeHTLC
    CosmosOwner, AxelarGateway, GmpConfigured, FeeRecipientConfigured, ClassId,
    TokenNumber, IndicatorText, IndicatorOf, HexIndicator, HashText, HashOfText,
    MIN_TIMELOCK_SECS, MAX_TIMELOCK_SECS, EVM_TIMEOUT_BUFFER_SECS, IBC_ACK_FEE,
    IBC_TIMEOUT_FEE, MinBounty, MaxUint128, CosmosAmount, Coins, RelayCoins,
    OwnerSparesBounties, MaxCosmosTime,
    \* the deployment and the environment
    EvmEndpoint, CosmosEndpoint,  \* where each contract lives
    HexText,         \* HexText[h]: what _bytes32ToHexString writes, lower case
    HexIndicatorText,\* the same for an indicator id
    DecimalText,     \* DecimalText[t]: what _uint256ToDecimalString writes
    MaxSkew,         \* how far apart the two block clocks may be
    Monitored,       \* whether a monitor finalises burns before a refund opens
    CarefulSenders   \* whether senders lock under hashlocks not in use anywhere and
                     \* keep their secret until they claim the mint with it

VARIABLES
    htlcLocks, userHtlcLocks, outboundLocks, classes, indicatorClass, cosmosBalances,
    tokenSupply, totalSupply, stats, authorizedSenders, bankUntrn, bankRelay, bankSent,
    ibcInFlight, cosmosCalls, cosmosNow

Cosmos == INSTANCE TokenBridgeReceiver

cosmosVars == <<htlcLocks, userHtlcLocks, outboundLocks, classes, indicatorClass,
                cosmosBalances, tokenSupply, totalSupply, stats, authorizedSenders,
                bankUntrn, bankRelay, bankSent, ibcInFlight, cosmosCalls, cosmosNow>>
crossVars == <<evmVars, cosmosVars>>

\* The keys of the Cosmos contract are the text its counterpart writes: hashlocks in
\* lower case, token ids in decimal.  (A hypothesis of the theorems; another spelling
\* is another key, see FreshAcrossDirections.)
OneSpelling ==
    /\ \A x \in HashText : HashOfText[x] \in Hash /\ HexText[HashOfText[x]] = x
    /\ \A c \in ClassId : TokenNumber[c] # -1 => DecimalText[TokenNumber[c]] = c

ASSUME CrossAssumption ==
    /\ EvmEndpoint \in Endpoint /\ CosmosEndpoint \in Endpoint
    /\ HexText \in [Hash -> HashText] /\ \A h \in Hash : HashOfText[HexText[h]] = h
    /\ HexIndicatorText \in [IndicatorId \ {ZeroIndicator} -> IndicatorText]
    /\ \A i \in IndicatorId \ {ZeroIndicator} : IndicatorOf[HexIndicatorText[i]] = i
    /\ DecimalText \in [TokenId -> ClassId]
    /\ \A t \in TokenId : TokenNumber[DecimalText[t]] = t
    /\ MaxSkew \in Nat \ {0} /\ MaxSkew < COSMOS_TIMEOUT_BUFFER
    /\ MaxSkew < EVM_TIMEOUT_BUFFER_SECS /\ EVM_TIMEOUT_BUFFER_SECS \in Nat
    /\ MAX_TIMELOCK_SECS \in Nat /\ MaxCosmosTime \in Nat
    /\ Monitored \in BOOLEAN /\ CarefulSenders \in BOOLEAN
    /\ GenesisHolder # This            \* the deployer's own account
    /\ IsFiniteSet(CosmosAccount) /\ CosmosAmount \subseteq Nat

\* Both deployments, the class mirrored under the same token id, and the counterpart
\* authorised on the EVM side.
CrossInit ==
    /\ EvmInit
    /\ authorizedSource = CosmosEndpoint
    /\ Cosmos!CosmosInitWith(
            [c \in ClassId |-> IF c = DecimalText[1]
                               THEN HexIndicatorText[Keccak[GenesisProfile]] ELSE EmptyString])

----------------------------------------------------------------------------
\* External, Axelar GMP: _encodePrepareMintPayload and _encodeClaimBurnJson turned
\* words and numbers into text; the JSON reaches the contract through the gateway
\* account.
RelayToCosmos(m) ==
    /\ m \in evmCalls /\ m.to = CosmosEndpoint
    /\ \/ /\ m.type = "prepare_mint"
          /\ Cosmos!PrepareMint(AxelarGateway,
                [hashlock |-> HexText[m.hashlock],
                 indicator |-> HexIndicatorText[m.indicatorId],
                 class |-> DecimalText[m.tokenId], amount |-> m.amount,
                 recipient |-> m.recipient, timeout |-> m.timeout, source |-> EvmEndpoint])
       \/ /\ m.type = "claim_burn"
          /\ Cosmos!ClaimBurn(AxelarGateway, HexText[m.hashlock], m.secret)
    /\ UNCHANGED evmVars

RelayToEvm(m) ==
    /\ m \in cosmosCalls /\ m.to = EvmEndpoint
    /\ \/ /\ m.type = "prepare"
          /\ ExecutePrepareMint(CosmosEndpoint,
                [hashlock |-> m.hashlock, indicatorId |-> m.indicatorId,
                 tokenId |-> m.tokenId, amount |-> m.amount, recipient |-> m.recipient,
                 timeout |-> m.timeout])
       \/ m.type = "callback" /\ ExecuteCallback(m.hashlock, m.secret)
    /\ UNCHANGED cosmosVars

----------------------------------------------------------------------------
\* A transfer is a direction and a hashlock; its two ends in uniform terms.
Transfers == {"forward", "reverse"} \X Hash
HashIn(tr) == tr[2]

Source(tr) ==
    IF tr[1] = "forward" THEN locks[HashIn(tr)].state
    ELSE CASE outboundLocks[HexText[HashIn(tr)]].state = "None" -> "EMPTY"
           [] outboundLocks[HexText[HashIn(tr)]].state = "Locked" -> "LOCKED"
           [] outboundLocks[HexText[HashIn(tr)]].state = "Claimed" -> "CLAIMED"
           [] outboundLocks[HexText[HashIn(tr)]].state = "Refunded" -> "REFUNDED"

Minted(tr) ==
    IF tr[1] = "forward" THEN htlcLocks[HexText[HashIn(tr)]].state = "Claimed"
    ELSE pendingMints[HashIn(tr)].state = "MINTED"

AmountIn(tr) ==
    IF tr[1] = "forward" THEN locks[HashIn(tr)].amount
    ELSE outboundLocks[HexText[HashIn(tr)]].amount

RefundOpens(tr) ==
    IF tr[1] = "forward" THEN locks[HashIn(tr)].timelock
    ELSE outboundLocks[HexText[HashIn(tr)]].timelock

\* A claim on either chain puts the secret in public state.
Public(s) ==
    \/ s \in {revealedSecrets[h] : h \in Hash}
    \/ s \in {htlcLocks[x].secret : x \in HashText}
    \/ s \in {outboundLocks[x].secret : x \in HashText}

MayBurn(s) == CarefulSenders => Public(s)
MayLock(h) == CarefulSenders =>
    /\ HashlockUnused(h)
    /\ ~Cosmos!Inbound(HexText[h]) /\ ~Cosmos!Outbound(HexText[h])

\* A Cosmos lock with a bounty of 0 can be settled by nobody (Cosmos!SendUntrn).
Payable(tr) ==
    tr[1] = "forward" \/ outboundLocks[HexText[HashIn(tr)]].bounty > 0

\* The assumption the bounty is there to pay for: whoever sees a mint whose source
\* escrow is still open burns it (claimBurn, claim_burn) before its refund opens.
MonitorInTime(direction, now) ==
    Monitored => \A tr \in {direction} \X Hash :
        Source(tr) = "LOCKED" /\ Minted(tr) /\ Payable(tr) => now < RefundOpens(tr)

\* One instant passes on the EVM chain, or on Cosmos.
EvmTime ==
    /\ EvmTick
    /\ evmNow + 1 <= cosmosNow + MaxSkew
    /\ MonitorInTime("forward", evmNow + 1)
    /\ UNCHANGED cosmosVars

CosmosTime ==
    /\ Cosmos!CosmosTick
    /\ cosmosNow + 1 <= evmNow + MaxSkew
    /\ MonitorInTime("reverse", cosmosNow + 1)
    /\ UNCHANGED evmVars

\* Somebody burns the escrow by hand, for its bounty.
ManualBurn(tr) ==
    \/ /\ tr[1] = "forward"
       /\ \E caller \in Address \ {This}, s \in Secret :
            MayBurn(s) /\ ClaimBurn(caller, HashIn(tr), s)
       /\ UNCHANGED cosmosVars
    \/ /\ tr[1] = "reverse"
       /\ \E caller \in CosmosAccount, s \in Secret :
            MayBurn(s) /\ Cosmos!ClaimBurn(caller, HexText[HashIn(tr)], s)
       /\ UNCHANGED evmVars

\* The sender takes an expired escrow back.
Refund(tr) ==
    \/ /\ tr[1] = "forward"
       /\ RefundBurn(locks[HashIn(tr)].sender, HashIn(tr))
       /\ UNCHANGED cosmosVars
    \/ /\ tr[1] = "reverse"
       /\ Cosmos!RefundBurn(outboundLocks[HexText[HashIn(tr)]].sender, HexText[HashIn(tr)])
       /\ UNCHANGED evmVars

EvmStep ==
    /\ \/ \E caller \in Address \ {This}, t \in TokenId, amount \in Amount, h \in Hash,
             timelock \in Timelock, recipient \in CosmosAccount \ {AxelarGateway},
             bounty, value \in Wei :
               /\ MayLock(h)
               /\ LockForBurn(caller, t, amount, h, timelock, recipient, CosmosEndpoint,
                              bounty, value)
       \/ \E h \in Hash, s \in Secret, value \in Wei : ClaimMint(h, s, value)
       \/ \E h \in Hash : RefundMint(h)
    /\ UNCHANGED cosmosVars

CosmosStep ==
    /\ \/ \E sender \in CosmosAccount, c \in ClassId, amount \in CosmosAmount,
             x \in HashText, timelock \in Cosmos!CosmosTimelock,
             evmRecipient \in Address \ {This}, bounty, untrn \in Coins, relay \in RelayCoins :
               /\ MayLock(HashOfText[x])
               /\ Cosmos!LockForBurn(sender, c, amount, x, timelock, evmRecipient,
                                     EvmEndpoint, bounty, untrn, relay)
       \/ \E x \in HashText, s \in Secret, untrn \in Coins, relay \in RelayCoins :
               Cosmos!ClaimMint(x, s, untrn, relay)
       \/ \E x \in HashText : Cosmos!RefundMint(x)
       \/ \E m \in ibcInFlight :
               \/ Cosmos!IbcAccept(m)
               \/ \E fee \in {IBC_ACK_FEE, IBC_TIMEOUT_FEE} : Cosmos!IbcReturn(m, fee)
    /\ UNCHANGED evmVars

CrossNext ==
    \/ EvmStep
    \/ CosmosStep
    \/ \E tr \in Transfers : ManualBurn(tr) \/ Refund(tr)
    \/ \E m \in evmCalls : RelayToCosmos(m)
    \/ \E m \in cosmosCalls : RelayToEvm(m)
    \/ EvmTime
    \/ CosmosTime

CrossSpec == CrossInit /\ [][CrossNext]_crossVars

----------------------------------------------------------------------------
\* Where a transfer stands, both chains taken together.
Phase(tr) ==
    CASE Source(tr) = "EMPTY" /\ ~Minted(tr) -> "idle"
      [] Source(tr) = "LOCKED" /\ ~Minted(tr) -> "escrowed"
      [] Source(tr) = "LOCKED" /\ Minted(tr) -> "delivered"
      [] Source(tr) = "CLAIMED" /\ Minted(tr) -> "completed"
      [] Source(tr) = "CLAIMED" /\ ~Minted(tr) -> "burned"
      [] Source(tr) = "REFUNDED" /\ ~Minted(tr) -> "returned"
      [] OTHER -> "doubled"

\* Units their holders can spend, on either chain: balances outside the escrow.
Spendable ==
    SumFunctionOnSet(balances[1], Address \ {This})
    + SumFunctionOnSet(cosmosBalances[DecimalText[1]], CosmosAccount)

\* No double spend: no transfer is both refunded at its source and minted at its
\* destination.
NoDoubleSpend == \A tr \in Transfers : Phase(tr) # "doubled"

\* Supply is conserved across the chains: what can be spent plus what is in escrow
\* or burned without a mint so far is always the initial supply.
UnitsConserved ==
    Spendable + SumFunctionOnSet([tr \in Transfers |->
        IF Phase(tr) \in {"escrowed", "burned"} THEN AmountIn(tr) ELSE 0], Transfers)
        = GenesisSupply

\* The claim window closes before the refund window opens, though each chain goes by
\* its own clock: no mint happens once its source escrow could be refunded.
ClaimsCloseBeforeRefunds ==
    [][\A tr \in Transfers : ~Minted(tr) /\ Minted(tr)' =>
        /\ Source(tr) \in {"LOCKED", "CLAIMED"}
        /\ (IF tr[1] = "forward" THEN evmNow ELSE cosmosNow) < RefundOpens(tr)]_crossVars

\* What is pending or minted at a destination is what its source escrowed: amount,
\* class, recipient, and a deadline the buffer earlier than the refund.
DestinationMatchesSource ==
    \A h \in Hash :
        LET in == htlcLocks[HexText[h]]
            out == outboundLocks[HexText[h]] IN
        /\ in.state # "None" =>
            /\ locks[h].state # "EMPTY"
            /\ in.amount = locks[h].amount /\ in.class = DecimalText[locks[h].tokenId]
            /\ in.recipient = locks[h].cosmosRecipient
            /\ in.timeout + COSMOS_TIMEOUT_BUFFER = locks[h].timelock
        /\ pendingMints[h].state # "EMPTY" =>
            /\ out.state # "None"
            /\ pendingMints[h].amount = out.amount
            /\ DecimalText[pendingMints[h].tokenId] = out.class
            /\ pendingMints[h].recipient = out.evmRecipient
            /\ pendingMints[h].timeout + EVM_TIMEOUT_BUFFER_SECS = out.timelock

\* The bridge implements the promise of AtomicTransfer, transfer by transfer, under
\* every loss, delay, duplication and reordering of messages; "doubled" is no phase
\* of it.
Atomic == INSTANCE AtomicTransfer WITH
    Transfer <- Transfers, Total <- GenesisSupply,
    phase <- [tr \in Transfers |-> Phase(tr)],
    amount <- [tr \in Transfers |-> AmountIn(tr)],
    spendable <- Spendable

ImplementsAtomicTransfer == Atomic!AtomicSpec

----------------------------------------------------------------------------
\* Both chains go on producing blocks; the bounty draws somebody to every burn whose
\* secret is public; a sender asks for its refund.  Nothing is assumed of GMP.
CrossFairness ==
    /\ WF_crossVars(EvmTime) /\ WF_crossVars(CosmosTime)
    /\ \A tr \in Transfers : WF_crossVars(ManualBurn(tr)) /\ WF_crossVars(Refund(tr))

FairCrossSpec == CrossSpec /\ CrossFairness

\* Without any help of GMP, every transfer whose bounty can be paid ends, minted and
\* burned or refunded and not minted.  (Deadlines past the instance's last instant are
\* left out.)
EveryTransferEnds ==
    \A tr \in Transfers :
        (Source(tr) = "LOCKED" /\ Payable(tr)
            /\ RefundOpens(tr) <= MaxTime /\ RefundOpens(tr) <= MaxCosmosTime)
        ~> Phase(tr) \in {"completed", "returned"}
=============================================================================
