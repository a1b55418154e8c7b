--------------------------- MODULE BridgeHTLCProofs ---------------------------
(***************************************************************************)
(* What holds of BridgeHTLC for every number of accounts, hashlocks, classes *)
(* and amounts, proved with TLAPS.                                           *)
(***************************************************************************)
EXTENDS BridgeHTLC, TLAPS

Holdings == [TokenId -> [Address -> 0..MaxUint256]]

LEMMA InitType == EvmInit => EvmTypeOK
  BY TokenAssumption, BridgeAssumption
  DEF EvmInit, EvmTypeOK, TokenTypeOK, BridgeTypeOK, HTLCLock, PendingMint,
      EmptyLock, EmptyMint, TokenId

----------------------------------------------------------------------------
(* The three ways the token contract changes balances keep them in range.   *)

LEMMA MintKeepsRange ==
  ASSUME balances \in Holdings, NEW to \in Address, NEW t \in TokenId,
         NEW n \in Nat, MintTo(to, t, n)
  PROVE  balances' \in Holdings
  BY TokenAssumption DEF MintTo, Holdings

LEMMA BurnKeepsRange ==
  ASSUME balances \in Holdings, NEW from \in Address, NEW t \in TokenId,
         NEW n \in Nat, BurnOf(from, t, n)
  PROVE  balances' \in Holdings
  BY TokenAssumption DEF BurnOf, Holdings

LEMMA MoveKeepsRange ==
  ASSUME balances \in Holdings, NEW from \in Address, NEW to \in Address,
         NEW t \in TokenId, NEW n \in Nat, MoveTokens(from, to, t, n)
  PROVE  balances' \in Holdings
<1> DEFINE old == balances[t]
           taken == [old EXCEPT ![from] = old[from] - n]
<1>1. old \in [Address -> 0..MaxUint256] /\ MaxUint256 \in Nat
  BY TokenAssumption DEF Holdings
<1>2. taken \in [Address -> 0..MaxUint256]
  BY <1>1 DEF MoveTokens
<1>3. taken[to] + n \in 0..MaxUint256
  BY <1>1 DEF MoveTokens
<1>4. Moved(old, from, to, n) \in [Address -> 0..MaxUint256]
  BY <1>2, <1>3 DEF Moved
<1> QED
  BY <1>4 DEF Holdings, MoveTokens

----------------------------------------------------------------------------
(* One lemma per action: the types are kept.                                *)

LEMMA LockForBurnType ==
  ASSUME EvmTypeOK,
         NEW caller \in Address, NEW t \in TokenId, NEW n \in Amount, NEW h \in Hash,
         NEW timelock \in Timelock, NEW recipient \in CosmosAccount, NEW dest \in Endpoint,
         NEW bounty \in Wei, NEW value \in Wei,
         LockForBurn(caller, t, n, h, timelock, recipient, dest, bounty, value)
  PROVE  EvmTypeOK'
<1> USE TokenAssumption, BridgeAssumption
<1>1. n \in 1..MaxUint256 /\ n \in Nat
  BY DEF LockForBurn
<1>2. balances' \in Holdings
  BY <1>1, MoveKeepsRange DEF LockForBurn, Holdings, EvmTypeOK, TokenTypeOK
<1>3. TokenTypeOK'
  BY <1>2 DEF LockForBurn, Holdings, EvmTypeOK, TokenTypeOK, registryVars
<1>4. locks' \in [Hash -> HTLCLock]
  BY <1>1 DEF LockForBurn, EvmTypeOK, BridgeTypeOK, HTLCLock, LockRecord
<1>5. evmCalls' \subseteq PrepareMintCall \cup ClaimBurnCall
  <2>1. timelock - COSMOS_TIMEOUT_BUFFER \in Timelock
    <3>1. evmNow \in Nat /\ timelock >= evmNow + MIN_TIMELOCK_DURATION
      BY DEF LockForBurn, EvmTypeOK, BridgeTypeOK
    <3> QED BY <3>1 DEF Timelock
  <2>2. GetIndicatorId(t) \in IndicatorId
    BY DEF GetIndicatorId, EvmTypeOK, TokenTypeOK
  <2> DEFINE sent == [type |-> "prepare_mint", to |-> dest, hashlock |-> h,
              indicatorId |-> GetIndicatorId(t), tokenId |-> t, amount |-> n,
              recipient |-> recipient, timeout |-> timelock - COSMOS_TIMEOUT_BUFFER]
  <2>3. sent \in PrepareMintCall
    BY <1>1, <2>1, <2>2 DEF PrepareMintCall
  <2>4. evmCalls' = evmCalls \cup {sent}
    BY DEF LockForBurn, CosmosTimeout
  <2> HIDE DEF sent
  <2> QED BY <2>3, <2>4 DEF EvmTypeOK, BridgeTypeOK
<1>6. nativeBalance' \in Nat
  <2>1. bounty \in Nat /\ value \in Nat /\ value > bounty /\ nativeBalance \in Nat
    BY DEF LockForBurn, EvmTypeOK, BridgeTypeOK
  <2> QED BY <2>1 DEF LockForBurn
<1>7. userLocks' \in [Address -> Seq(Hash)]
  BY DEF LockForBurn, EvmTypeOK, BridgeTypeOK
<1>8. totalLocked' \in 0..MaxUint256
  <2>1. totalLocked \in 0..MaxUint256 /\ totalLocked + n <= MaxUint256
        /\ totalLocked' = totalLocked + n
    BY DEF LockForBurn, EvmTypeOK, BridgeTypeOK
  <2> QED BY <1>1, <2>1
<1> QED
  BY <1>3, <1>4, <1>5, <1>6, <1>7, <1>8
  DEF LockForBurn, EvmTypeOK, BridgeTypeOK, configVars

LEMMA PayBountyType ==
  ASSUME nativeBalance \in Nat, pendingWithdrawals \in [Address -> Nat],
         NEW n \in Nat, NEW payee \in Address, PayBounty(n, payee)
  PROVE  nativeBalance' \in Nat /\ pendingWithdrawals' \in [Address -> Nat]
  BY DEF PayBounty, nativeVars

\* A lock, or a mint, that is not empty is a full record, and settling keeps it one.
LEMMA LockFields ==
  ASSUME EvmTypeOK, NEW h \in Hash, locks[h].state # "EMPTY"
  PROVE  locks[h] \in LockRecord
  BY DEF EvmTypeOK, BridgeTypeOK, HTLCLock, EmptyLock

LEMMA LockNumbers ==
  ASSUME NEW lock \in LockRecord
  PROVE  lock.sender \in Address /\ lock.tokenId \in TokenId
         /\ lock.amount \in 1..MaxUint256 /\ lock.amount \in Nat /\ lock.bounty \in Nat
<1>1. lock.sender \in Address /\ lock.tokenId \in TokenId
      /\ lock.amount \in 1..MaxUint256 /\ lock.bounty \in Wei \cup {0}
  BY DEF LockRecord
<1>2. MaxUint256 \in Nat /\ Wei \subseteq Nat
  BY TokenAssumption, BridgeAssumption
<1>3. \A x \in Wei \cup {0} : x \in Nat
  BY <1>2
<1>4. lock.amount \in Nat
  BY <1>1, <1>2
<1>5. lock.bounty \in Nat
  BY <1>1, <1>3, Zenon
<1> QED
  BY <1>1, <1>4, <1>5

LEMMA SettledIsLock ==
  ASSUME NEW lock \in LockRecord, NEW state \in {"CLAIMED", "REFUNDED"}
  PROVE  Settled(lock, state) \in LockRecord
  BY DEF Settled, LockRecord

LEMMA MintFields ==
  ASSUME EvmTypeOK, NEW h \in Hash, pendingMints[h].state # "EMPTY"
  PROVE  pendingMints[h] \in MintRecord
  BY DEF EvmTypeOK, BridgeTypeOK, PendingMint, EmptyMint

LEMMA MintNumbers ==
  ASSUME NEW pm \in MintRecord
  PROVE  pm.recipient \in Address /\ pm.tokenId \in TokenId /\ pm.source \in Endpoint
         /\ pm.amount \in 1..MaxUint256 /\ pm.amount \in Nat
  BY TokenAssumption DEF MintRecord

LEMMA MintTimeout ==
  ASSUME NEW pm \in MintRecord
  PROVE  pm.timeout \in Nat
  BY BridgeAssumption DEF MintRecord, Timelock

LEMMA DecidedIsMint ==
  ASSUME NEW pm \in MintRecord, NEW state \in {"MINTED", "REFUNDED"}
  PROVE  Decided(pm, state) \in MintRecord
  BY DEF Decided, MintRecord

LEMMA BurnEscrowType ==
  ASSUME EvmTypeOK, NEW h \in Hash, NEW s \in Secret, NEW payee \in Address,
         BurnEscrow(h, s, payee)
  PROVE  EvmTypeOK'
<1> USE TokenAssumption, BridgeAssumption
<1>1. locks[h] \in LockRecord
  BY LockFields DEF BurnEscrow
<1>n. locks[h].sender \in Address /\ locks[h].tokenId \in TokenId
      /\ locks[h].amount \in Nat /\ locks[h].bounty \in Nat
  BY <1>1, LockNumbers
<1>2. balances' \in Holdings
  BY <1>n, BurnKeepsRange DEF BurnEscrow, Holdings, EvmTypeOK, TokenTypeOK
<1>3. TokenTypeOK'
  BY <1>2 DEF BurnEscrow, Holdings, EvmTypeOK, TokenTypeOK, registryVars
<1>4. locks' \in [Hash -> HTLCLock]
  BY <1>1, SettledIsLock DEF BurnEscrow, EvmTypeOK, BridgeTypeOK, HTLCLock
<1>5. nativeBalance' \in Nat /\ pendingWithdrawals' \in [Address -> Nat]
  BY <1>n, PayBountyType DEF BurnEscrow, EvmTypeOK, BridgeTypeOK
<1>6. totalClaimed' \in 0..MaxUint256
  BY <1>n DEF BurnEscrow, EvmTypeOK, BridgeTypeOK
<1> QED
  BY <1>3, <1>4, <1>5, <1>6 DEF BurnEscrow, EvmTypeOK, BridgeTypeOK, configVars

LEMMA RefundBurnType ==
  ASSUME EvmTypeOK, NEW h \in Hash, NEW caller \in Address, RefundBurn(caller, h)
  PROVE  EvmTypeOK'
<1> USE TokenAssumption, BridgeAssumption
<1>1. locks[h] \in LockRecord
  BY LockFields DEF RefundBurn
<1>n. locks[h].sender \in Address /\ locks[h].tokenId \in TokenId
      /\ locks[h].amount \in Nat /\ locks[h].bounty \in Nat
  BY <1>1, LockNumbers
<1>2. balances' \in Holdings
  BY <1>n, MoveKeepsRange DEF RefundBurn, Holdings, EvmTypeOK, TokenTypeOK
<1>3. TokenTypeOK'
  BY <1>2 DEF RefundBurn, Holdings, EvmTypeOK, TokenTypeOK, registryVars
<1>4. locks' \in [Hash -> HTLCLock]
  BY <1>1, SettledIsLock DEF RefundBurn, EvmTypeOK, BridgeTypeOK, HTLCLock
<1>5. nativeBalance' \in Nat /\ pendingWithdrawals' \in [Address -> Nat]
  BY <1>n, PayBountyType DEF RefundBurn, EvmTypeOK, BridgeTypeOK
<1>6. totalRefunded' \in 0..MaxUint256
  BY <1>n DEF RefundBurn, EvmTypeOK, BridgeTypeOK
<1> QED
  BY <1>3, <1>4, <1>5, <1>6 DEF RefundBurn, EvmTypeOK, BridgeTypeOK, configVars

LEMMA WithdrawPendingType ==
  ASSUME EvmTypeOK, NEW caller \in Address, WithdrawPending(caller)
  PROVE  EvmTypeOK'
  BY DEF WithdrawPending, EvmTypeOK, TokenTypeOK, BridgeTypeOK, tokenVars, registryVars,
         configVars, totalVars

LEMMA ExecutePrepareMintType ==
  ASSUME EvmTypeOK, NEW source \in Endpoint, NEW m \in PreparePayload,
         ExecutePrepareMint(source, m)
  PROVE  EvmTypeOK'
<1>1. pendingMints' \in [Hash -> PendingMint]
  <2> DEFINE pm == [state |-> "PENDING", tokenId |-> m.tokenId, amount |-> m.amount,
             recipient |-> m.recipient, indicatorId |-> m.indicatorId,
             timeout |-> m.timeout, source |-> source]
  <2>1. m.amount \in 1..MaxUint256 /\ m.recipient \in Address
    <3>1. m.amount \in Amount /\ m.recipient \in Address \cup {ZeroAddress}
      BY DEF PreparePayload
    <3>2. m.amount # 0 /\ m.recipient # ZeroAddress
      BY DEF ExecutePrepareMint
    <3>3. Amount \subseteq 0..MaxUint256 /\ MaxUint256 \in Nat
      BY TokenAssumption
    <3>4. \A x \in Amount : x # 0 => x \in 1..MaxUint256
      BY <3>3
    <3> QED BY <3>1, <3>2, <3>4, Zenon
  <2>2. pm \in MintRecord
    BY <2>1 DEF PreparePayload, MintRecord
  <2>3. pendingMints' = [pendingMints EXCEPT ![m.hashlock] = pm]
    BY DEF ExecutePrepareMint
  <2> HIDE DEF pm
  <2> QED BY <2>2, <2>3 DEF EvmTypeOK, BridgeTypeOK, PendingMint
<1> QED
  BY <1>1
  DEF ExecutePrepareMint, EvmTypeOK, TokenTypeOK, BridgeTypeOK, tokenVars, registryVars,
      nativeVars, configVars, totalVars

LEMMA ClaimMintType ==
  ASSUME EvmTypeOK, NEW h \in Hash, NEW s \in Secret, NEW value \in Wei,
         ClaimMint(h, s, value)
  PROVE  EvmTypeOK'
<1> USE BridgeAssumption
<1>1. pendingMints[h] \in MintRecord
  BY MintFields DEF ClaimMint
<1>n. pendingMints[h].recipient \in Address /\ pendingMints[h].tokenId \in TokenId
      /\ pendingMints[h].source \in Endpoint /\ pendingMints[h].amount \in Nat
  BY <1>1, MintNumbers
<1>2. balances' \in Holdings
  BY <1>n, MintKeepsRange DEF ClaimMint, Mint, Holdings, EvmTypeOK, TokenTypeOK
<1>3. TokenTypeOK'
  BY <1>2 DEF ClaimMint, Mint, Holdings, EvmTypeOK, TokenTypeOK, registryVars
<1>4. pendingMints' \in [Hash -> PendingMint]
  BY <1>1, DecidedIsMint DEF ClaimMint, EvmTypeOK, BridgeTypeOK, PendingMint
<1>5. evmCalls' \subseteq PrepareMintCall \cup ClaimBurnCall
  <2> DEFINE sent == [type |-> "claim_burn", to |-> pendingMints[h].source,
              hashlock |-> h, secret |-> s, gasPaid |-> value > 0]
  <2>1. sent \in ClaimBurnCall
    BY <1>n DEF ClaimBurnCall
  <2>2. evmCalls' = evmCalls \cup {sent}
    BY DEF ClaimMint
  <2> HIDE DEF sent
  <2> QED BY <2>1, <2>2 DEF EvmTypeOK, BridgeTypeOK
<1> QED
  BY <1>3, <1>4, <1>5
  DEF ClaimMint, EvmTypeOK, BridgeTypeOK, nativeVars, configVars, totalVars

LEMMA RefundMintType ==
  ASSUME EvmTypeOK, NEW h \in Hash, RefundMint(h)
  PROVE  EvmTypeOK'
<1>1. pendingMints' \in [Hash -> PendingMint]
  BY MintFields, DecidedIsMint DEF RefundMint, EvmTypeOK, BridgeTypeOK, PendingMint
<1> QED
  BY <1>1
  DEF RefundMint, EvmTypeOK, TokenTypeOK, BridgeTypeOK, tokenVars, registryVars,
      nativeVars, configVars, totalVars

LEMMA TokenActivityType ==
  ASSUME EvmTypeOK, TokenActivity
  PROVE  EvmTypeOK'
<1> USE TokenAssumption, BridgeAssumption
<1>1. BridgeTypeOK'
  BY DEF TokenActivity, EvmTypeOK, BridgeTypeOK, bridgeVars, nativeVars, configVars, totalVars
<1>2. CASE \E from \in Address \ {This}, to \in Address, t \in TokenId, n \in Amount :
              SafeTransferFrom(from, to, t, n)
  <2>1. balances' \in Holdings
    BY <1>2, MoveKeepsRange DEF SafeTransferFrom, Holdings, EvmTypeOK, TokenTypeOK
  <2> QED BY <1>1, <1>2, <2>1
    DEF SafeTransferFrom, EvmTypeOK, TokenTypeOK, Holdings, registryVars
<1>3. CASE \E to \in Address, t \in TokenId, n \in Amount :
              MintInitialSupply(to, t, n) \/ Mint(bridge, to, t, n)
  <2>1. balances' \in Holdings
    BY <1>3, MintKeepsRange DEF MintInitialSupply, Mint, Holdings, EvmTypeOK, TokenTypeOK
  <2> QED BY <1>1, <1>3, <2>1
    DEF MintInitialSupply, Mint, EvmTypeOK, TokenTypeOK, Holdings, registryVars
<1>4. CASE \E t \in TokenId, n \in Amount :
              bridge \in Address \ {This} /\ BurnFromBridge(bridge, t, n)
  <2>0. Amount \subseteq Nat /\ balances \in Holdings
    BY DEF Holdings, EvmTypeOK, TokenTypeOK
  <2>1. balances' \in Holdings
    BY <1>4, <2>0, BurnKeepsRange DEF BurnFromBridge
  <2> QED BY <1>1, <1>4, <2>1
    DEF BurnFromBridge, EvmTypeOK, TokenTypeOK, Holdings, registryVars
<1>5. CASE \E p \in ProfileHash : CreateTokenClass(p)
  BY <1>1, <1>5 DEF CreateTokenClass, BindClass, EvmTypeOK, TokenTypeOK, TokenId
<1> QED
  BY <1>2, <1>3, <1>4, <1>5 DEF TokenActivity

----------------------------------------------------------------------------
LEMMA StepType == EvmTypeOK /\ [EvmNext]_evmVars => EvmTypeOK'
<1> SUFFICES ASSUME EvmTypeOK, [EvmNext]_evmVars PROVE EvmTypeOK'
  OBVIOUS
<1> USE BridgeAssumption
<1>1. ASSUME NEW caller \in Address \ {This}, NEW t \in TokenId, NEW n \in Amount,
             NEW h \in Hash, NEW timelock \in Timelock, NEW recipient \in CosmosAccount,
             NEW dest \in Endpoint, NEW bounty \in Wei, NEW value \in Wei,
             LockForBurn(caller, t, n, h, timelock, recipient, dest, bounty, value)
      PROVE  EvmTypeOK'
  BY <1>1, LockForBurnType
<1>2. ASSUME NEW caller \in Address \ {This}, NEW h \in Hash, NEW s \in Secret,
             ClaimBurn(caller, h, s)
      PROVE  EvmTypeOK'
  BY <1>2, BurnEscrowType DEF ClaimBurn
<1>3. ASSUME NEW h \in Hash, NEW s \in Secret, ExecuteCallback(h, s)
      PROVE  EvmTypeOK'
  <2>1. locks[h].sender \in Address
    BY <1>3, LockFields, LockNumbers DEF ExecuteCallback, BurnEscrow
  <2> QED BY <1>3, <2>1, BurnEscrowType DEF ExecuteCallback
<1>4. ASSUME NEW caller \in Address \ {This}, NEW h \in Hash, RefundBurn(caller, h)
      PROVE  EvmTypeOK'
  BY <1>4, RefundBurnType
<1>5. CASE \E caller \in Address : WithdrawPending(caller)
  BY <1>5, WithdrawPendingType
<1>6. CASE \E source \in Endpoint, m \in PreparePayload : ExecutePrepareMint(source, m)
  BY <1>6, ExecutePrepareMintType
<1>7. CASE \E h \in Hash, s \in Secret, value \in Wei : ClaimMint(h, s, value)
  BY <1>7, ClaimMintType
<1>8. CASE \E h \in Hash : RefundMint(h)
  BY <1>8, RefundMintType
<1>9. CASE \E floor \in Wei : SetMinBounty(floor)
  BY <1>9 DEF SetMinBounty, EvmTypeOK, TokenTypeOK, BridgeTypeOK, tokenVars, registryVars,
              nativeVars, totalVars
<1>10. CASE \E source \in Endpoint \cup {EmptyString} : SetAuthorizedSource(source)
  BY <1>10 DEF SetAuthorizedSource, EvmTypeOK, TokenTypeOK, BridgeTypeOK, tokenVars,
               registryVars, nativeVars, totalVars
<1>11. CASE \E account \in Address \cup {ZeroAddress} : ChangeBridge(account)
  BY <1>11 DEF ChangeBridge, SetBridge, EvmTypeOK, TokenTypeOK, BridgeTypeOK, registryVars,
               bridgeVars, nativeVars, configVars, totalVars
<1>12. CASE TokenActivity
  BY <1>12, TokenActivityType
<1>13. CASE EvmTick
  BY <1>13 DEF EvmTick, EvmTypeOK, TokenTypeOK, BridgeTypeOK, tokenVars, registryVars,
               nativeVars, configVars, totalVars
<1>14. CASE UNCHANGED evmVars
  BY <1>14 DEF evmVars, bridgeVars, EvmTypeOK, TokenTypeOK, BridgeTypeOK, tokenVars,
               registryVars, nativeVars, configVars, totalVars
<1> QED
  BY <1>1, <1>2, <1>3, <1>4, <1>5, <1>6, <1>7, <1>8, <1>9, <1>10, <1>11, <1>12, <1>13,
     <1>14 DEF EvmNext

\* The contracts' state keeps its types whatever is called: in particular no checked
\* addition or subtraction that a transaction passed has left its 256 bits.
THEOREM TypeCorrect == EvmSpec => []EvmTypeOK
<1>1. EvmInit => EvmTypeOK
  BY InitType
<1>2. EvmTypeOK /\ [EvmNext]_evmVars => EvmTypeOK'
  BY StepType
<1> QED
  BY <1>1, <1>2, PTL DEF EvmSpec

----------------------------------------------------------------------------
(* What a step does to one hashlock: to its lock, its mint and its secret.  *)

Reveals(h) == \E s \in Secret : HashOf[s] = h /\ revealedSecrets'[h] = s

LockStays(h) ==
  \/ locks'[h] = locks[h]
  \/ locks[h].state = "EMPTY" /\ locks'[h].state = "LOCKED"
  \/ locks[h].state = "LOCKED" /\ locks'[h] = Settled(locks[h], "REFUNDED")

MintStays(h) ==
  \/ pendingMints'[h] = pendingMints[h]
  \/ pendingMints[h].state = "EMPTY" /\ pendingMints'[h].state = "PENDING"
  \/ /\ pendingMints[h].state = "PENDING" /\ ~(evmNow < pendingMints[h].timeout)
     /\ pendingMints'[h] = Decided(pendingMints[h], "REFUNDED")

HashStep(h) ==
  \/ LockStays(h) /\ MintStays(h) /\ revealedSecrets'[h] = revealedSecrets[h]
  \/ /\ locks[h].state = "LOCKED" /\ locks'[h] = Settled(locks[h], "CLAIMED")
     /\ pendingMints'[h] = pendingMints[h] /\ Reveals(h)
  \/ /\ pendingMints[h].state = "PENDING" /\ evmNow < pendingMints[h].timeout
     /\ pendingMints'[h] = Decided(pendingMints[h], "MINTED")
     /\ locks'[h] = locks[h] /\ Reveals(h)

LEMMA BurnEscrowHashStep ==
  ASSUME EvmTypeOK, NEW h \in Hash, NEW s \in Secret, NEW payee,
         BurnEscrow(h, s, payee), NEW g \in Hash
  PROVE  HashStep(g)
<1>1. locks \in [Hash -> HTLCLock] /\ revealedSecrets \in [Hash -> Secret \cup {NoSecret}]
  BY DEF EvmTypeOK, BridgeTypeOK
<1> QED
  BY <1>1 DEF BurnEscrow, Unlocks, HashStep, LockStays, MintStays, Reveals

LEMMA StepOfHash ==
  ASSUME EvmTypeOK, [EvmNext]_evmVars, NEW g \in Hash
  PROVE  HashStep(g)
<1> USE DEF HashStep, LockStays, MintStays
<1>0. /\ locks \in [Hash -> HTLCLock] /\ pendingMints \in [Hash -> PendingMint]
      /\ revealedSecrets \in [Hash -> Secret \cup {NoSecret}]
      /\ evmNow \in Nat
  BY DEF EvmTypeOK, BridgeTypeOK
<1>1. ASSUME NEW caller \in Address \ {This}, NEW t \in TokenId, NEW n \in Amount,
             NEW h \in Hash, NEW timelock \in Timelock, NEW recipient \in CosmosAccount,
             NEW dest \in Endpoint, NEW bounty \in Wei, NEW value \in Wei,
             LockForBurn(caller, t, n, h, timelock, recipient, dest, bounty, value)
      PROVE  HashStep(g)
  BY <1>0, <1>1 DEF LockForBurn
<1>2. ASSUME NEW h \in Hash, NEW s \in Secret, NEW payee, BurnEscrow(h, s, payee)
      PROVE  HashStep(g)
  BY <1>2, BurnEscrowHashStep
<1>3. ASSUME NEW caller \in Address \ {This}, NEW h \in Hash, RefundBurn(caller, h)
      PROVE  HashStep(g)
  BY <1>0, <1>3 DEF RefundBurn
<1>4. CASE \E caller \in Address : WithdrawPending(caller)
  BY <1>4 DEF WithdrawPending
<1>5. ASSUME NEW source \in Endpoint, NEW m \in PreparePayload,
             ExecutePrepareMint(source, m)
      PROVE  HashStep(g)
  BY <1>0, <1>5 DEF ExecutePrepareMint, HashlockUnused
<1>6. ASSUME NEW h \in Hash, NEW s \in Secret, NEW value \in Wei, ClaimMint(h, s, value)
      PROVE  HashStep(g)
  BY <1>0, <1>6 DEF ClaimMint, Unlocks, Reveals
<1>7. ASSUME NEW h \in Hash, RefundMint(h)
      PROVE  HashStep(g)
  <2>1. pendingMints[h].state = "PENDING" /\ ~(evmNow < pendingMints[h].timeout)
    <3>1. pendingMints[h].timeout \in Nat
      BY <1>7, MintFields, MintTimeout, BridgeAssumption DEF RefundMint, Timelock
    <3> QED BY <1>0, <1>7, <3>1 DEF RefundMint
  <2> QED BY <1>0, <1>7, <2>1 DEF RefundMint
<1>8. CASE \E floor \in Wei : SetMinBounty(floor)
  BY <1>8 DEF SetMinBounty
<1>9. CASE \E source \in Endpoint \cup {EmptyString} : SetAuthorizedSource(source)
  BY <1>9 DEF SetAuthorizedSource
<1>10. CASE UNCHANGED bridgeVars
  BY <1>10 DEF bridgeVars
<1>11. CASE EvmTick
  BY <1>11 DEF EvmTick
<1> QED
  BY <1>1, <1>2, <1>3, <1>4, <1>5, <1>6, <1>7, <1>8, <1>9, <1>10, <1>11
  DEF EvmNext, ClaimBurn, ExecuteCallback, ChangeBridge, TokenActivity, evmVars

----------------------------------------------------------------------------
LEMMA SettledState ==
  ASSUME NEW lock \in LockRecord, NEW state
  PROVE  Settled(lock, state).state = state
  BY DEF Settled, LockRecord

LEMMA DecidedState ==
  ASSUME NEW pm \in MintRecord, NEW state
  PROVE  Decided(pm, state).state = state
  BY DEF Decided, MintRecord

\* claimBurn, the callback and refundBurn settle a lock at most once between them, and
\* no other call touches it while it is open.
THEOREM SettlesOnce == EvmSpec => LockSettlesOnce
<1>1. EvmTypeOK /\ [EvmNext]_evmVars =>
        [\A h \in Hash :
            /\ locks[h].state \in {"CLAIMED", "REFUNDED"} => locks'[h] = locks[h]
            /\ locks[h].state = "LOCKED" /\ locks'[h] # locks[h] =>
                /\ locks'[h] = Settled(locks[h], locks'[h].state)
                /\ locks'[h].state \in {"CLAIMED", "REFUNDED"}]_evmVars
  <2> SUFFICES ASSUME EvmTypeOK, [EvmNext]_evmVars, NEW h \in Hash
               PROVE  /\ locks[h].state \in {"CLAIMED", "REFUNDED"} => locks'[h] = locks[h]
                      /\ locks[h].state = "LOCKED" /\ locks'[h] # locks[h] =>
                            /\ locks'[h] = Settled(locks[h], locks'[h].state)
                            /\ locks'[h].state \in {"CLAIMED", "REFUNDED"}
    OBVIOUS
  <2>1. HashStep(h)
    BY StepOfHash
  <2>2. locks[h].state = "LOCKED" => locks[h] \in LockRecord
    BY LockFields
  <2>3. locks[h].state = "LOCKED" => \A state :
            Settled(locks[h], state).state = state
    BY <2>2, SettledState
  <2> QED
    BY <2>1, <2>3 DEF HashStep, LockStays
<1> QED
  BY <1>1, TypeCorrect, PTL DEF EvmSpec, LockSettlesOnce

\* claimMint decides a pending mint before its timeout, refundMint from it on, and never
\* both, whatever happens in between.
THEOREM MintsDecideOnce == EvmSpec => MintDecidedOnce
<1>1. EvmTypeOK /\ [EvmNext]_evmVars =>
        [\A h \in Hash : pendingMints[h].state # "EMPTY" =>
            \/ pendingMints'[h] = pendingMints[h]
            \/ /\ pendingMints[h].state = "PENDING"
               /\ pendingMints'[h] = Decided(pendingMints[h], pendingMints'[h].state)
               /\ pendingMints'[h].state =
                    (IF evmNow < pendingMints[h].timeout THEN "MINTED" ELSE "REFUNDED")]_evmVars
  <2> SUFFICES ASSUME EvmTypeOK, [EvmNext]_evmVars, NEW h \in Hash,
                      pendingMints[h].state # "EMPTY", pendingMints'[h] # pendingMints[h]
               PROVE  /\ pendingMints[h].state = "PENDING"
                      /\ pendingMints'[h] = Decided(pendingMints[h], pendingMints'[h].state)
                      /\ pendingMints'[h].state =
                            (IF evmNow < pendingMints[h].timeout THEN "MINTED" ELSE "REFUNDED")
    OBVIOUS
  <2>1. HashStep(h)
    BY StepOfHash
  <2>2. \A state : Decided(pendingMints[h], state).state = state
    BY MintFields, DecidedState
  <2> QED
    BY <2>1, <2>2 DEF HashStep, MintStays
<1> QED
  BY <1>1, TypeCorrect, PTL DEF EvmSpec, MintDecidedOnce

\* The secret is on this chain exactly when supply was burned or minted under its hash.
THEOREM SecretsSettle == EvmSpec => []SecretBehindSettlement
<1>1. EvmInit => SecretBehindSettlement
  BY DEF EvmInit, SecretBehindSettlement, EmptyLock, EmptyMint
<1>2. EvmTypeOK /\ SecretBehindSettlement /\ [EvmNext]_evmVars => SecretBehindSettlement'
  <2> SUFFICES ASSUME EvmTypeOK, SecretBehindSettlement, [EvmNext]_evmVars, NEW h \in Hash
               PROVE  /\ revealedSecrets'[h] # NoSecret <=>
                            locks'[h].state = "CLAIMED" \/ pendingMints'[h].state = "MINTED"
                      /\ revealedSecrets'[h] # NoSecret => HashOf[revealedSecrets'[h]] = h
    BY DEF SecretBehindSettlement
  <2>1. HashStep(h)
    BY StepOfHash
  <2>2. /\ revealedSecrets[h] # NoSecret <=>
              locks[h].state = "CLAIMED" \/ pendingMints[h].state = "MINTED"
        /\ revealedSecrets[h] # NoSecret => HashOf[revealedSecrets[h]] = h
    BY DEF SecretBehindSettlement
  <2>3. locks[h].state = "LOCKED" => \A state : Settled(locks[h], state).state = state
    BY LockFields, SettledState
  <2>4. pendingMints[h].state = "PENDING" =>
            \A state : Decided(pendingMints[h], state).state = state
    BY MintFields, DecidedState
  <2>5. Reveals(h) => revealedSecrets'[h] # NoSecret /\ HashOf[revealedSecrets'[h]] = h
    BY BridgeAssumption DEF Reveals
  <2> QED
    BY <2>1, <2>2, <2>3, <2>4, <2>5 DEF HashStep, LockStays, MintStays
<1> QED
  BY <1>1, <1>2, TypeCorrect, PTL DEF EvmSpec

----------------------------------------------------------------------------
(* The registry, and what rests on it.                                      *)

\* A step of the token contract as the registry sees it: unchanged, or one more class
\* for an indicator that had none.
RegistryStep ==
  \/ UNCHANGED registryVars
  \/ /\ UNCHANGED balances
     /\ \E p \in ProfileHash :
          /\ nextTokenId <= MaxTokenId /\ indicatorToToken[Keccak[p]] = 0
          /\ nextTokenId' = nextTokenId + 1
          /\ tokenToIndicator' = [tokenToIndicator EXCEPT ![nextTokenId] = Keccak[p]]
          /\ indicatorToToken' = [indicatorToToken EXCEPT ![Keccak[p]] = nextTokenId]
          /\ tokenBound' = [tokenBound EXCEPT ![nextTokenId] = TRUE]

\* No account holds units of a class that was never bound.
UnboundEmpty == \A t \in TokenId : ~tokenBound[t] => \A a \in Address : balances[t][a] = 0

LEMMA MoveKeepsUnboundEmpty ==
  ASSUME EvmTypeOK, UnboundEmpty, NEW from \in Address, NEW to \in Address,
         NEW t \in TokenId, NEW n \in Nat, MoveTokens(from, to, t, n)
  PROVE  \A u \in TokenId : ~tokenBound[u] => \A a \in Address : balances'[u][a] = 0
<1> SUFFICES ASSUME NEW u \in TokenId, ~tokenBound[u], NEW a \in Address
             PROVE  balances'[u][a] = 0
  OBVIOUS
<1>1. balances \in [TokenId -> [Address -> 0..MaxUint256]] /\ MaxUint256 \in Nat
  BY TokenAssumption DEF EvmTypeOK, TokenTypeOK
<1>2. CASE u # t
  BY <1>1, <1>2 DEF MoveTokens, UnboundEmpty
<1>3. CASE u = t
  <2>1. balances[t][from] = 0 /\ balances[t][a] = 0 /\ n = 0
    BY <1>1, <1>3 DEF MoveTokens, UnboundEmpty
  <2>2. balances[t] \in [Address -> Nat] /\ balances'[t] = Moved(balances[t], from, to, n)
    BY <1>1 DEF MoveTokens
  <2>3. balances[t][to] = 0
    BY <1>3 DEF UnboundEmpty
  <2> QED
    BY <1>3, <2>1, <2>2, <2>3 DEF Moved
<1> QED
  BY <1>2, <1>3

LEMMA BurnKeepsUnboundEmpty ==
  ASSUME EvmTypeOK, UnboundEmpty, NEW from \in Address, NEW t \in TokenId, NEW n \in Nat,
         BurnOf(from, t, n)
  PROVE  \A u \in TokenId : ~tokenBound[u] => \A a \in Address : balances'[u][a] = 0
<1>1. balances \in [TokenId -> [Address -> 0..MaxUint256]] /\ MaxUint256 \in Nat
  BY TokenAssumption DEF EvmTypeOK, TokenTypeOK
<1> QED
  BY <1>1 DEF BurnOf, UnboundEmpty

LEMMA MintKeepsUnboundEmpty ==
  ASSUME EvmTypeOK, UnboundEmpty, NEW to \in Address, NEW t \in TokenId, NEW n \in Nat,
         tokenBound[t], MintTo(to, t, n)
  PROVE  \A u \in TokenId : ~tokenBound[u] => \A a \in Address : balances'[u][a] = 0
<1>1. balances \in [TokenId -> [Address -> 0..MaxUint256]]
  BY DEF EvmTypeOK, TokenTypeOK
<1> QED
  BY <1>1 DEF MintTo, UnboundEmpty

LEMMA StepOfRegistry ==
  ASSUME EvmTypeOK, UnboundEmpty, [EvmNext]_evmVars
  PROVE  /\ RegistryStep
         /\ \A u \in TokenId : ~tokenBound[u] => \A a \in Address : balances'[u][a] = 0
<1> DEFINE StillEmpty ==
      \A u \in TokenId : ~tokenBound[u] => \A a \in Address : balances'[u][a] = 0
<1> USE DEF RegistryStep
<1>n. Amount \subseteq Nat /\ This \in Address
  BY TokenAssumption, BridgeAssumption
<1>0. UNCHANGED balances => StillEmpty
  BY DEF UnboundEmpty
<1>1. ASSUME NEW caller \in Address \ {This}, NEW t \in TokenId, NEW n \in Amount,
             NEW h \in Hash, NEW timelock \in Timelock, NEW recipient \in CosmosAccount,
             NEW dest \in Endpoint, NEW bounty \in Wei, NEW value \in Wei,
             LockForBurn(caller, t, n, h, timelock, recipient, dest, bounty, value)
      PROVE  RegistryStep /\ StillEmpty
  BY <1>n, <1>1, MoveKeepsUnboundEmpty DEF LockForBurn
<1>2. ASSUME NEW h \in Hash, NEW s \in Secret, NEW payee, BurnEscrow(h, s, payee)
      PROVE  RegistryStep /\ StillEmpty
  <2>1. locks[h].tokenId \in TokenId /\ locks[h].amount \in Nat
    BY <1>2, LockFields, LockNumbers DEF BurnEscrow
  <2>2. BurnOf(This, locks[h].tokenId, locks[h].amount) /\ UNCHANGED registryVars
    BY <1>2 DEF BurnEscrow
  <2> QED BY <1>n, <2>1, <2>2, BurnKeepsUnboundEmpty
<1>3. ASSUME NEW caller \in Address \ {This}, NEW h \in Hash, RefundBurn(caller, h)
      PROVE  RegistryStep /\ StillEmpty
  <2>1. locks[h].tokenId \in TokenId /\ locks[h].amount \in Nat /\ locks[h].sender \in Address
    BY <1>3, LockFields, LockNumbers DEF RefundBurn
  <2>2. /\ MoveTokens(This, locks[h].sender, locks[h].tokenId, locks[h].amount)
        /\ UNCHANGED registryVars
    BY <1>3 DEF RefundBurn
  <2> QED BY <1>n, <2>1, <2>2, MoveKeepsUnboundEmpty
<1>4. ASSUME NEW h \in Hash, NEW s \in Secret, NEW value \in Wei, ClaimMint(h, s, value)
      PROVE  RegistryStep /\ StillEmpty
  <2>1. /\ pendingMints[h].tokenId \in TokenId /\ pendingMints[h].amount \in Nat
        /\ pendingMints[h].recipient \in Address
    BY <1>4, MintFields, MintNumbers DEF ClaimMint
  <2>2. /\ tokenBound[pendingMints[h].tokenId] /\ UNCHANGED registryVars
        /\ MintTo(pendingMints[h].recipient, pendingMints[h].tokenId, pendingMints[h].amount)
    BY <1>4 DEF ClaimMint, Mint
  <2> QED BY <2>1, <2>2, MintKeepsUnboundEmpty
<1>5. CASE UNCHANGED tokenVars
  BY <1>0, <1>5 DEF tokenVars
<1>6. CASE \E account : SetBridge(account)
  BY <1>0, <1>6 DEF SetBridge
<1>7. CASE \E p \in ProfileHash : CreateTokenClass(p)
  BY <1>0, <1>7 DEF CreateTokenClass, BindClass
<1>8. ASSUME NEW from \in Address, NEW to \in Address, NEW t \in TokenId, NEW n \in Amount,
             SafeTransferFrom(from, to, t, n)
      PROVE  RegistryStep /\ StillEmpty
  BY <1>n, <1>8, MoveKeepsUnboundEmpty DEF SafeTransferFrom
<1>9. ASSUME NEW to \in Address, NEW t \in TokenId, NEW n \in Amount,
             MintInitialSupply(to, t, n) \/ Mint(bridge, to, t, n)
      PROVE  RegistryStep /\ StillEmpty
  BY <1>n, <1>9, MintKeepsUnboundEmpty DEF MintInitialSupply, Mint
<1>10. ASSUME NEW t \in TokenId, NEW n \in Amount, bridge \in Address,
              BurnFromBridge(bridge, t, n)
      PROVE  RegistryStep /\ StillEmpty
  BY <1>n, <1>10, BurnKeepsUnboundEmpty DEF BurnFromBridge
<1>11. CASE TokenActivity
  BY <1>7, <1>8, <1>9, <1>10, <1>11 DEF TokenActivity
<1>12. CASE \/ \E caller \in Address : WithdrawPending(caller)
            \/ \E source \in Endpoint, m \in PreparePayload : ExecutePrepareMint(source, m)
            \/ \E h \in Hash : RefundMint(h)
            \/ \E floor \in Wei : SetMinBounty(floor)
            \/ \E source \in Endpoint \cup {EmptyString} : SetAuthorizedSource(source)
            \/ EvmTick
            \/ UNCHANGED evmVars
  <2>1. UNCHANGED tokenVars
    BY <1>12 DEF WithdrawPending, ExecutePrepareMint, RefundMint, SetMinBounty,
                 SetAuthorizedSource, EvmTick, evmVars
  <2> QED BY <1>5, <2>1
<1> QED
  BY <1>1, <1>2, <1>3, <1>4, <1>6, <1>11, <1>12
  DEF EvmNext, ClaimBurn, ExecuteCallback, ChangeBridge

LEMMA RegistryConsistentStep ==
  ASSUME EvmTypeOK, RegistryConsistent, [EvmNext]_evmVars
  PROVE  RegistryConsistent'
<1>0. /\ tokenToIndicator \in [TokenId -> IndicatorId]
      /\ indicatorToToken \in [IndicatorId -> TokenId \cup {0}]
      /\ tokenBound \in [TokenId -> BOOLEAN]
      /\ nextTokenId \in 1..MaxTokenId + 1
      /\ MaxTokenId \in Nat /\ ZeroIndicator \in IndicatorId
      /\ Keccak \in [ProfileHash -> IndicatorId \ {ZeroIndicator}]
  BY TokenAssumption DEF EvmTypeOK, TokenTypeOK
<1>1. UnboundEmpty
  BY DEF RegistryConsistent, UnboundEmpty
<1>2. RegistryStep
  BY <1>1, StepOfRegistry
<1>3. \A u \in TokenId : ~tokenBound[u] => \A a \in Address : balances'[u][a] = 0
  BY <1>1, StepOfRegistry
<1>4. CASE UNCHANGED registryVars
  BY <1>3, <1>4 DEF registryVars, RegistryConsistent
<1>5. ASSUME NEW p \in ProfileHash,
             nextTokenId <= MaxTokenId, indicatorToToken[Keccak[p]] = 0,
             nextTokenId' = nextTokenId + 1,
             tokenToIndicator' = [tokenToIndicator EXCEPT ![nextTokenId] = Keccak[p]],
             indicatorToToken' = [indicatorToToken EXCEPT ![Keccak[p]] = nextTokenId],
             tokenBound' = [tokenBound EXCEPT ![nextTokenId] = TRUE]
      PROVE  RegistryConsistent'
  <2> DEFINE id == Keccak[p]
  <2>1. id \in IndicatorId /\ id # ZeroIndicator /\ nextTokenId \in TokenId
    BY <1>0, <1>5 DEF TokenId
  <2>2. ~tokenBound[nextTokenId]
    BY <1>0, <2>1 DEF RegistryConsistent
  <2>3. \A t \in TokenId : tokenBound[t] => tokenToIndicator[t] # id
    BY <1>5 DEF RegistryConsistent, TokenId
  <2>4. \A t \in TokenId : tokenBound'[t] <=> t < nextTokenId'
    <3>1. \A t \in TokenId : t < nextTokenId + 1 <=> t < nextTokenId \/ t = nextTokenId
      BY <1>0 DEF TokenId
    <3> QED BY <1>0, <1>5, <2>1, <3>1 DEF RegistryConsistent
  <2>5. \A t \in TokenId : tokenBound'[t] <=> tokenToIndicator'[t] # ZeroIndicator
    BY <1>0, <1>5, <2>1 DEF RegistryConsistent
  <2>6. \A t \in TokenId : tokenBound'[t] => indicatorToToken'[tokenToIndicator'[t]] = t
    BY <1>0, <1>5, <2>1, <2>2, <2>3 DEF RegistryConsistent
  <2>7. \A t \in TokenId : ~tokenBound'[t] => \A a \in Address : balances'[t][a] = 0
    BY <1>0, <1>3, <1>5, <2>1
  <2>8. \A i \in IndicatorId : indicatorToToken'[i] # 0 =>
            /\ tokenBound'[indicatorToToken'[i]]
            /\ tokenToIndicator'[indicatorToToken'[i]] = i
    <3> SUFFICES ASSUME NEW i \in IndicatorId, indicatorToToken'[i] # 0
                 PROVE  /\ tokenBound'[indicatorToToken'[i]]
                        /\ tokenToIndicator'[indicatorToToken'[i]] = i
      OBVIOUS
    <3>1. CASE i = id
      BY <1>0, <1>5, <2>1, <3>1
    <3>2. CASE i # id
      <4>1. indicatorToToken'[i] = indicatorToToken[i] /\ indicatorToToken[i] \in TokenId
        BY <1>0, <1>5, <3>2
      <4>2. tokenBound[indicatorToToken[i]] /\ tokenToIndicator[indicatorToToken[i]] = i
        BY <4>1, <1>5, <3>2 DEF RegistryConsistent
      <4> QED BY <1>0, <1>5, <2>2, <4>1, <4>2
    <3> QED BY <3>1, <3>2
  <2> QED
    BY <2>4, <2>5, <2>6, <2>7, <2>8 DEF RegistryConsistent
<1> QED
  BY <1>2, <1>4, <1>5 DEF RegistryStep

\* The registry stays a bijection, and units exist only of bound classes, through every
\* call on either contract.
THEOREM RegistryStaysConsistent == EvmSpec => []RegistryConsistent
<1>1. EvmInit => RegistryConsistent
  <2> SUFFICES ASSUME EvmInit PROVE RegistryConsistent
    OBVIOUS
  <2>1. /\ MaxTokenId \in Nat /\ GenesisProfile \in ProfileHash
        /\ Keccak \in [ProfileHash -> IndicatorId \ {ZeroIndicator}]
    BY TokenAssumption, BridgeAssumption
  <2>2. 1 \in TokenId /\ \A t \in TokenId : t < nextTokenId <=> t = 1
    BY <2>1, BridgeAssumption DEF EvmInit, TokenId
  <2> QED
    BY <2>1, <2>2 DEF EvmInit, RegistryConsistent
<1>2. EvmTypeOK /\ RegistryConsistent /\ [EvmNext]_evmVars => RegistryConsistent'
  BY RegistryConsistentStep
<1> QED
  BY <1>1, <1>2, TypeCorrect, PTL DEF EvmSpec

\* A class bound to an indicator keeps it.
LEMMA BindingKept ==
  ASSUME EvmTypeOK, RegistryConsistent, [EvmNext]_evmVars, NEW t \in TokenId,
         tokenToIndicator[t] # ZeroIndicator
  PROVE  tokenToIndicator'[t] = tokenToIndicator[t]
<1>1. UnboundEmpty
  BY DEF RegistryConsistent, UnboundEmpty
<1>2. RegistryStep
  BY <1>1, StepOfRegistry
<1>3. t # nextTokenId
  <2>1. t < nextTokenId /\ nextTokenId \in Nat /\ t \in Nat
    BY TokenAssumption DEF RegistryConsistent, EvmTypeOK, TokenTypeOK, TokenId
  <2> QED BY <2>1
<1>4. tokenToIndicator \in [TokenId -> IndicatorId]
  BY DEF EvmTypeOK, TokenTypeOK
<1> QED
  BY <1>2, <1>3, <1>4 DEF RegistryStep, registryVars

----------------------------------------------------------------------------
\* Only an accepted prepare message opens a mint, and it names the registered indicator.
LEMMA MintOpens ==
  ASSUME EvmTypeOK, [EvmNext]_evmVars, NEW h \in Hash, pendingMints[h].state = "EMPTY",
         pendingMints'[h] # pendingMints[h]
  PROVE  /\ pendingMints'[h] \in MintRecord /\ UNCHANGED tokenVars
         /\ tokenToIndicator[pendingMints'[h].tokenId] = pendingMints'[h].indicatorId
         /\ pendingMints'[h].indicatorId # ZeroIndicator
<1>0. pendingMints \in [Hash -> PendingMint]
  BY DEF EvmTypeOK, BridgeTypeOK
<1>1. PICK source \in Endpoint, m \in PreparePayload :
            ExecutePrepareMint(source, m) /\ m.hashlock = h
  <2>1. CASE UNCHANGED pendingMints
    BY <2>1
  <2>2. ASSUME NEW g \in Hash, NEW s \in Secret, NEW payee, BurnEscrow(g, s, payee)
        PROVE  UNCHANGED pendingMints
    BY <2>2 DEF BurnEscrow
  <2>3. ASSUME NEW g \in Hash, RefundMint(g) \/ \E s \in Secret, v \in Wei : ClaimMint(g, s, v)
        PROVE  FALSE
    <3>1. pendingMints[g].state = "PENDING" /\ \A k \in Hash \ {g} : pendingMints'[k] = pendingMints[k]
      BY <1>0, <2>3 DEF RefundMint, ClaimMint
    <3> QED BY <3>1
  <2>4. ASSUME NEW source \in Endpoint, NEW m \in PreparePayload, ExecutePrepareMint(source, m)
        PROVE  m.hashlock = h
    BY <1>0, <2>4 DEF ExecutePrepareMint
  <2>5. \/ UNCHANGED pendingMints
        \/ \E g \in Hash : RefundMint(g) \/ \E s \in Secret, v \in Wei : ClaimMint(g, s, v)
        \/ \E source \in Endpoint, m \in PreparePayload : ExecutePrepareMint(source, m)
    BY <2>2 DEF EvmNext, evmVars, bridgeVars, LockForBurn, ClaimBurn, ExecuteCallback,
       RefundBurn, WithdrawPending, SetMinBounty, SetAuthorizedSource, ChangeBridge,
       TokenActivity, EvmTick
  <2> QED
    BY <2>1, <2>3, <2>4, <2>5
<1>2. pendingMints'[h] = [state |-> "PENDING", tokenId |-> m.tokenId, amount |-> m.amount,
             recipient |-> m.recipient, indicatorId |-> m.indicatorId,
             timeout |-> m.timeout, source |-> source]
  BY <1>0, <1>1 DEF ExecutePrepareMint
<1>3. EvmTypeOK'
  BY StepType
<1>4. pendingMints'[h] \in MintRecord
  BY <1>2, <1>3 DEF EvmTypeOK, BridgeTypeOK, PendingMint, EmptyMint
<1> QED
  BY <1>1, <1>2, <1>4 DEF ExecutePrepareMint, IndicatorMatches, GetIndicatorId

\* No semantic mixing: a mint that is pending or done is of the class registered for the
\* indicator its message named; no later call can change that.
THEOREM MintsKeepTheirMeaning == EvmSpec => []MintsBoundToIndicator
<1>1. EvmInit => MintsBoundToIndicator
  BY DEF EvmInit, MintsBoundToIndicator, EmptyMint
<1>2. EvmTypeOK /\ RegistryConsistent /\ MintsBoundToIndicator /\ [EvmNext]_evmVars
        => MintsBoundToIndicator'
  <2> SUFFICES ASSUME EvmTypeOK, RegistryConsistent, MintsBoundToIndicator,
                      [EvmNext]_evmVars, NEW h \in Hash, pendingMints'[h].state # "EMPTY"
               PROVE  /\ pendingMints'[h].indicatorId # ZeroIndicator
                      /\ tokenToIndicator'[pendingMints'[h].tokenId] = pendingMints'[h].indicatorId
    BY DEF MintsBoundToIndicator
  <2>1. CASE pendingMints[h].state = "EMPTY"
    <3>1. pendingMints'[h] # pendingMints[h]
      BY <2>1
    <3> QED BY <2>1, <3>1, MintOpens DEF tokenVars, registryVars
  <2>2. CASE pendingMints[h].state # "EMPTY"
    <3>1. pendingMints[h] \in MintRecord
      BY <2>2, MintFields
    <3>2. /\ pendingMints'[h].tokenId = pendingMints[h].tokenId
          /\ pendingMints'[h].indicatorId = pendingMints[h].indicatorId
      <4>1. \A state : /\ Decided(pendingMints[h], state).tokenId = pendingMints[h].tokenId
                       /\ Decided(pendingMints[h], state).indicatorId = pendingMints[h].indicatorId
        BY <3>1 DEF Decided, MintRecord
      <4>2. HashStep(h)
        BY StepOfHash
      <4> QED BY <2>2, <4>1, <4>2 DEF HashStep, MintStays
    <3>3. tokenToIndicator[pendingMints[h].tokenId] = pendingMints[h].indicatorId
          /\ pendingMints[h].indicatorId # ZeroIndicator
      BY <2>2 DEF MintsBoundToIndicator
    <3>4. pendingMints[h].tokenId \in TokenId
      BY <3>1, MintNumbers
    <3> QED BY <3>2, <3>3, <3>4, BindingKept
  <2> QED BY <2>1, <2>2
<1> QED
  BY <1>1, <1>2, TypeCorrect, RegistryStaysConsistent, PTL DEF EvmSpec

----------------------------------------------------------------------------
\* A prepare message that was not there before carries the terms of the lock just opened.
LEMMA MessageSent ==
  ASSUME EvmTypeOK, RegistryConsistent, [EvmNext]_evmVars, NEW m \in evmCalls',
         m \notin evmCalls, m.type = "prepare_mint"
  PROVE  /\ locks'[m.hashlock].state # "EMPTY" /\ m.hashlock \in Hash
         /\ locks'[m.hashlock].tokenId = m.tokenId /\ locks'[m.hashlock].amount = m.amount
         /\ locks'[m.hashlock].cosmosRecipient = m.recipient
         /\ locks'[m.hashlock].destination = m.to
         /\ tokenToIndicator'[m.tokenId] = m.indicatorId /\ m.indicatorId # ZeroIndicator
         /\ locks'[m.hashlock].timelock = m.timeout + COSMOS_TIMEOUT_BUFFER
<1>1. ASSUME NEW h \in Hash, NEW s \in Secret, NEW payee, BurnEscrow(h, s, payee)
      PROVE  UNCHANGED evmCalls
  BY <1>1 DEF BurnEscrow
<1>2. ASSUME NEW h \in Hash, NEW s \in Secret, NEW value \in Wei, ClaimMint(h, s, value)
      PROVE  FALSE
  BY <1>2 DEF ClaimMint
<1>3. PICK caller \in Address \ {This}, t \in TokenId, n \in Amount, h \in Hash,
           timelock \in Timelock, recipient \in CosmosAccount, dest \in Endpoint,
           bounty \in Wei, value \in Wei :
             LockForBurn(caller, t, n, h, timelock, recipient, dest, bounty, value)
  BY <1>1, <1>2
  DEF EvmNext, evmVars, bridgeVars, ClaimBurn, ExecuteCallback, RefundBurn, WithdrawPending,
      ExecutePrepareMint, RefundMint, SetMinBounty, SetAuthorizedSource, ChangeBridge,
      TokenActivity, EvmTick
<1>4. m = [type |-> "prepare_mint", to |-> dest, hashlock |-> h,
           indicatorId |-> GetIndicatorId(t), tokenId |-> t, amount |-> n,
           recipient |-> recipient, timeout |-> timelock - COSMOS_TIMEOUT_BUFFER]
  BY <1>3 DEF LockForBurn, CosmosTimeout
<1>5. locks'[h] = [state |-> "LOCKED", sender |-> caller, tokenId |-> t, amount |-> n,
             timelock |-> timelock, cosmosRecipient |-> recipient,
             destination |-> dest, bounty |-> bounty]
  BY <1>3 DEF LockForBurn, EvmTypeOK, BridgeTypeOK
<1>6. timelock \in Nat /\ COSMOS_TIMEOUT_BUFFER \in Nat
  BY BridgeAssumption DEF Timelock
<1>7. tokenToIndicator[t] # ZeroIndicator /\ tokenToIndicator' = tokenToIndicator
  <2>1. balances[t][caller] # 0
    <3>1. balances[t][caller] >= n /\ n > 0
      BY <1>3 DEF LockForBurn, MoveTokens
    <3>2. n \in Nat /\ balances[t][caller] \in Nat
      BY TokenAssumption DEF EvmTypeOK, TokenTypeOK
    <3> QED BY <3>1, <3>2
  <2>2. tokenBound[t]
    BY <2>1 DEF RegistryConsistent
  <2> QED
    BY <1>3, <2>2 DEF RegistryConsistent, LockForBurn, registryVars
<1> QED
  BY <1>4, <1>5, <1>6, <1>7 DEF GetIndicatorId

\* Whatever GMP later delivers of this contract's prepare messages, it can only announce
\* what a lock here escrowed, under the class's registered indicator, with a deadline
\* COSMOS_TIMEOUT_BUFFER before the refund: lockForBurn itself never looks at the
\* registry, an unbound class simply has no units to lock.
THEOREM MessagesMatchLocks == EvmSpec => []MessageMatchesLock
<1>1. EvmInit => MessageMatchesLock
  BY DEF EvmInit, MessageMatchesLock
<1>2. EvmTypeOK /\ RegistryConsistent /\ MessageMatchesLock /\ [EvmNext]_evmVars
        => MessageMatchesLock'
  <2> SUFFICES ASSUME EvmTypeOK, RegistryConsistent, MessageMatchesLock,
                      [EvmNext]_evmVars, NEW m \in evmCalls', m.type = "prepare_mint"
               PROVE  /\ locks'[m.hashlock].state # "EMPTY"
                      /\ locks'[m.hashlock].tokenId = m.tokenId
                      /\ locks'[m.hashlock].amount = m.amount
                      /\ locks'[m.hashlock].cosmosRecipient = m.recipient
                      /\ locks'[m.hashlock].destination = m.to
                      /\ m.indicatorId = tokenToIndicator'[m.tokenId]
                      /\ m.indicatorId # ZeroIndicator
                      /\ locks'[m.hashlock].timelock = m.timeout + COSMOS_TIMEOUT_BUFFER
    BY DEF MessageMatchesLock
  <2>1. CASE m \notin evmCalls
    BY <2>1, MessageSent
  <2>2. CASE m \in evmCalls
    <3> DEFINE lock == locks[m.hashlock]
    <3>1. /\ lock.state # "EMPTY" /\ lock.tokenId = m.tokenId /\ lock.amount = m.amount
          /\ lock.cosmosRecipient = m.recipient /\ lock.destination = m.to
          /\ m.indicatorId = tokenToIndicator[m.tokenId] /\ m.indicatorId # ZeroIndicator
          /\ lock.timelock = m.timeout + COSMOS_TIMEOUT_BUFFER
      BY <2>2 DEF MessageMatchesLock
    <3>2. m.hashlock \in Hash /\ m.tokenId \in TokenId
      BY <2>2 DEF EvmTypeOK, BridgeTypeOK, PrepareMintCall, ClaimBurnCall
    <3>3. lock \in LockRecord
      BY <3>1, <3>2, LockFields
    <3>4. \A state :
            /\ Settled(lock, state).state = state
            /\ Settled(lock, state).tokenId = lock.tokenId
            /\ Settled(lock, state).amount = lock.amount
            /\ Settled(lock, state).cosmosRecipient = lock.cosmosRecipient
            /\ Settled(lock, state).destination = lock.destination
            /\ Settled(lock, state).timelock = lock.timelock
      BY <3>3 DEF Settled, LockRecord
    <3>5. locks'[m.hashlock] = lock
          \/ \E state \in {"CLAIMED", "REFUNDED"} : locks'[m.hashlock] = Settled(lock, state)
      BY <3>1, <3>2, StepOfHash DEF HashStep, LockStays
    <3>6. tokenToIndicator'[m.tokenId] = tokenToIndicator[m.tokenId]
      BY <3>1, <3>2, BindingKept
    <3> HIDE DEF lock
    <3> QED BY <3>1, <3>4, <3>5, <3>6
  <2> QED BY <2>1, <2>2
<1> QED
  BY <1>1, <1>2, TypeCorrect, RegistryStaysConsistent, PTL DEF EvmSpec
=============================================================================
