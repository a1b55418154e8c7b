-------------------------- MODULE BridgeRecordProofs --------------------------
(***************************************************************************)
(* The records BridgeHTLC and its token keep for others to rely on, for     *)
(* every number of accounts, hashlocks and classes: the bindings of the     *)
(* registry, the callbacks sent, the list of each sender's locks.           *)
(***************************************************************************)
EXTENDS BridgeHTLCProofs

LEMMA BindingsKept ==
  ASSUME EvmTypeOK, RegistryConsistent, [EvmNext]_evmVars, NEW t \in TokenId, tokenBound[t]
  PROVE  /\ tokenBound'[t]
         /\ tokenToIndicator'[t] = tokenToIndicator[t]
         /\ indicatorToToken'[tokenToIndicator[t]] = t
<1>1. RegistryStep
  <2>1. UnboundEmpty
    BY DEF RegistryConsistent, UnboundEmpty
  <2> QED BY <2>1, StepOfRegistry
<1>2. /\ tokenToIndicator[t] # ZeroIndicator /\ tokenToIndicator[t] \in IndicatorId
      /\ indicatorToToken[tokenToIndicator[t]] = t
  BY DEF RegistryConsistent, EvmTypeOK, TokenTypeOK
<1>3. tokenToIndicator'[t] = tokenToIndicator[t]
  BY <1>2, BindingKept
<1>4. CASE UNCHANGED registryVars
  BY <1>2, <1>4 DEF registryVars
<1>5. ASSUME NEW p \in ProfileHash, indicatorToToken[Keccak[p]] = 0,
             indicatorToToken' = [indicatorToToken EXCEPT ![Keccak[p]] = nextTokenId],
             tokenBound' = [tokenBound EXCEPT ![nextTokenId] = TRUE]
      PROVE  tokenBound'[t] /\ indicatorToToken'[tokenToIndicator[t]] = t
  <2>1. tokenToIndicator[t] # Keccak[p]
    BY <1>2, <1>5 DEF TokenId
  <2>2. tokenBound \in [TokenId -> BOOLEAN]
        /\ indicatorToToken \in [IndicatorId -> TokenId \cup {0}]
    BY DEF EvmTypeOK, TokenTypeOK
  <2> QED BY <1>2, <1>5, <2>1, <2>2
<1> QED
  BY <1>1, <1>3, <1>4, <1>5 DEF RegistryStep

\* A class keeps its indicator, and an indicator its class, through every call on the
\* token and on the bridge: createTokenClass, the only writer, never names either again.
THEOREM BindingsStay == EvmSpec => BindingIsPermanent
<1>1. EvmTypeOK /\ RegistryConsistent /\ [EvmNext]_evmVars =>
        [\A t \in TokenId : tokenBound[t] =>
            /\ tokenBound'[t]
            /\ tokenToIndicator'[t] = tokenToIndicator[t]
            /\ indicatorToToken'[tokenToIndicator[t]] = t]_tokenVars
  BY BindingsKept
<1> QED
  BY <1>1, TypeCorrect, RegistryStaysConsistent, PTL DEF EvmSpec, BindingIsPermanent

----------------------------------------------------------------------------
\* What is sent stays sent.
LEMMA CallsGrow ==
  ASSUME [EvmNext]_evmVars
  PROVE  evmCalls \subseteq evmCalls'
<1>1. ASSUME NEW h \in Hash, NEW s \in Secret, NEW payee, BurnEscrow(h, s, payee)
      PROVE  UNCHANGED evmCalls
  BY <1>1 DEF BurnEscrow
<1>2. ASSUME NEW h \in Hash, NEW s \in Secret, NEW value \in Wei, ClaimMint(h, s, value)
      PROVE  evmCalls \subseteq evmCalls'
  BY <1>2 DEF ClaimMint
<1>3. ASSUME NEW caller, NEW t, NEW n, NEW h, NEW timelock, NEW recipient, NEW dest,
             NEW bounty, NEW value,
             LockForBurn(caller, t, n, h, timelock, recipient, dest, bounty, value)
      PROVE  evmCalls \subseteq evmCalls'
  BY <1>3 DEF LockForBurn
<1> QED
  BY <1>1, <1>2, <1>3
  DEF EvmNext, evmVars, bridgeVars, ClaimBurn, ExecuteCallback, RefundBurn, WithdrawPending,
      ExecutePrepareMint, RefundMint, SetMinBounty, SetAuthorizedSource, ChangeBridge,
      TokenActivity, EvmTick

\* A callback that was not there before comes from the claim that decided its mint.
LEMMA CallbackSent ==
  ASSUME EvmTypeOK, [EvmNext]_evmVars, NEW m \in evmCalls', m \notin evmCalls,
         m.type = "claim_burn"
  PROVE  /\ m.hashlock \in Hash
         /\ pendingMints'[m.hashlock].state = "MINTED"
         /\ pendingMints'[m.hashlock].source = m.to
         /\ HashOf[m.secret] = m.hashlock
<1>1. ASSUME NEW h \in Hash, NEW s \in Secret, NEW payee, BurnEscrow(h, s, payee)
      PROVE  UNCHANGED evmCalls
  BY <1>1 DEF BurnEscrow
<1>2. ASSUME NEW caller, NEW t, NEW n, NEW h, NEW timelock, NEW recipient, NEW dest,
             NEW bounty, NEW value,
             LockForBurn(caller, t, n, h, timelock, recipient, dest, bounty, value)
      PROVE  FALSE
  BY <1>2 DEF LockForBurn
<1>3. PICK h \in Hash, s \in Secret, value \in Wei : ClaimMint(h, s, value)
  BY <1>1, <1>2
  DEF EvmNext, evmVars, bridgeVars, ClaimBurn, ExecuteCallback, RefundBurn, WithdrawPending,
      ExecutePrepareMint, RefundMint, SetMinBounty, SetAuthorizedSource, ChangeBridge,
      TokenActivity, EvmTick
<1>4. m = [type |-> "claim_burn", to |-> pendingMints[h].source, hashlock |-> h,
           secret |-> s, gasPaid |-> value > 0]
  BY <1>3 DEF ClaimMint
<1>5. pendingMints[h] \in MintRecord
  BY <1>3, MintFields DEF ClaimMint
<1>6. pendingMints'[h] = Decided(pendingMints[h], "MINTED")
  BY <1>3 DEF ClaimMint, EvmTypeOK, BridgeTypeOK
<1> QED
  BY <1>3, <1>4, <1>5, <1>6 DEF ClaimMint, Unlocks, Decided, MintRecord

\* A mint that becomes done announces it in the same transaction.
LEMMA MintAnnounced ==
  ASSUME EvmTypeOK, [EvmNext]_evmVars, NEW h \in Hash,
         pendingMints[h].state # "MINTED", pendingMints'[h].state = "MINTED"
  PROVE  \E m \in evmCalls' : m.type = "claim_burn" /\ m.hashlock = h
<1>0. pendingMints \in [Hash -> PendingMint]
  BY DEF EvmTypeOK, BridgeTypeOK
<1>1. ASSUME NEW g \in Hash, NEW s \in Secret, NEW payee, BurnEscrow(g, s, payee)
      PROVE  UNCHANGED pendingMints
  BY <1>1 DEF BurnEscrow
<1>2. ASSUME NEW g \in Hash, RefundMint(g)
      PROVE  FALSE
  <2>1. pendingMints[g] \in MintRecord
    BY <1>2, MintFields DEF RefundMint
  <2>2. g = h => pendingMints'[h].state = "REFUNDED"
    BY <1>0, <1>2, <2>1, DecidedState DEF RefundMint
  <2>3. g # h => pendingMints'[h] = pendingMints[h]
    BY <1>0, <1>2 DEF RefundMint
  <2> QED BY <2>2, <2>3
<1>3. ASSUME NEW source \in Endpoint, NEW m \in PreparePayload, ExecutePrepareMint(source, m)
      PROVE  FALSE
  BY <1>0, <1>3 DEF ExecutePrepareMint
<1>4. ASSUME NEW g \in Hash, NEW s \in Secret, NEW value \in Wei, ClaimMint(g, s, value)
      PROVE  \E m \in evmCalls' : m.type = "claim_burn" /\ m.hashlock = h
  <2>1. g = h
    BY <1>0, <1>4 DEF ClaimMint
  <2>2. [type |-> "claim_burn", to |-> pendingMints[h].source, hashlock |-> h,
         secret |-> s, gasPaid |-> value > 0] \in evmCalls'
    BY <1>4, <2>1 DEF ClaimMint
  <2> QED BY <2>2
<1> QED
  BY <1>1, <1>2, <1>3, <1>4
  DEF EvmNext, evmVars, bridgeVars, LockForBurn, ClaimBurn, ExecuteCallback, RefundBurn,
      WithdrawPending, SetMinBounty, SetAuthorizedSource, ChangeBridge, TokenActivity, EvmTick

\* The callbacks this chain sends are exactly those of the mints claimed here, each to the
\* source its mint was prepared from, with a secret that opens the hashlock.
THEOREM CallbacksMatchMints == EvmSpec => []CallbackMatchesMint
<1>1. EvmInit => CallbackMatchesMint
  BY DEF EvmInit, CallbackMatchesMint, EmptyMint
<1>2. EvmTypeOK /\ CallbackMatchesMint /\ [EvmNext]_evmVars => CallbackMatchesMint'
  <2> SUFFICES ASSUME EvmTypeOK, CallbackMatchesMint, [EvmNext]_evmVars
               PROVE  CallbackMatchesMint'
    OBVIOUS
  <2>1. ASSUME NEW m \in evmCalls', m.type = "claim_burn"
        PROVE  /\ pendingMints'[m.hashlock].state = "MINTED"
               /\ pendingMints'[m.hashlock].source = m.to
               /\ HashOf[m.secret] = m.hashlock
    <3>1. CASE m \notin evmCalls
      BY <2>1, <3>1, CallbackSent
    <3>2. CASE m \in evmCalls
      <4>1. /\ pendingMints[m.hashlock].state = "MINTED"
            /\ pendingMints[m.hashlock].source = m.to
            /\ HashOf[m.secret] = m.hashlock
        BY <2>1, <3>2 DEF CallbackMatchesMint
      <4>2. m.hashlock \in Hash
        BY <3>2 DEF EvmTypeOK, BridgeTypeOK, PrepareMintCall, ClaimBurnCall
      <4>3. pendingMints'[m.hashlock] = pendingMints[m.hashlock]
        BY <4>1, <4>2, StepOfHash DEF HashStep, MintStays
      <4> QED BY <4>1, <4>3
    <3> QED BY <3>1, <3>2
  <2>2. ASSUME NEW h \in Hash, pendingMints'[h].state = "MINTED"
        PROVE  \E m \in evmCalls' : m.type = "claim_burn" /\ m.hashlock = h
    <3>1. CASE pendingMints[h].state # "MINTED"
      BY <2>2, <3>1, MintAnnounced
    <3>2. CASE pendingMints[h].state = "MINTED"
      BY <3>2, CallsGrow DEF CallbackMatchesMint
    <3> QED BY <3>1, <3>2
  <2> QED BY <2>1, <2>2 DEF CallbackMatchesMint
<1> QED
  BY <1>1, <1>2, TypeCorrect, PTL DEF EvmSpec

----------------------------------------------------------------------------
\* The two ways a step may touch the list of a sender's locks: lockForBurn opens a lock
\* that was empty and appends it, or no lock appears and none changes its owner.
OwnersStay ==
  /\ UNCHANGED userLocks
  /\ \A h \in Hash :
        /\ locks'[h].state # "EMPTY" <=> locks[h].state # "EMPTY"
        /\ locks[h].state # "EMPTY" => locks'[h].sender = locks[h].sender

LockOpened(caller, h) ==
  /\ locks[h].state = "EMPTY" /\ locks'[h].state # "EMPTY" /\ locks'[h].sender = caller
  /\ \A g \in Hash \ {h} : locks'[g] = locks[g]
  /\ userLocks' = [userLocks EXCEPT ![caller] = Append(@, h)]

LEMMA SettlementKeepsOwners ==
  ASSUME EvmTypeOK, UNCHANGED userLocks, NEW g \in Hash, locks[g].state = "LOCKED",
         NEW state \in {"CLAIMED", "REFUNDED"},
         locks' = [locks EXCEPT ![g] = Settled(@, state)]
  PROVE  OwnersStay
<1>1. locks \in [Hash -> HTLCLock]
  BY DEF EvmTypeOK, BridgeTypeOK
<1>2. locks[g] \in LockRecord
  BY LockFields
<1>3. Settled(locks[g], state).state = state
      /\ Settled(locks[g], state).sender = locks[g].sender
  BY <1>2 DEF Settled, LockRecord
<1>4. locks'[g] = Settled(locks[g], state) /\ \A h \in Hash \ {g} : locks'[h] = locks[h]
  BY <1>1
<1> QED
  BY <1>3, <1>4 DEF OwnersStay

LEMMA StepOfOwners ==
  ASSUME EvmTypeOK, [EvmNext]_evmVars
  PROVE  OwnersStay \/ \E caller \in Address, h \in Hash : LockOpened(caller, h)
<1>0. locks \in [Hash -> HTLCLock]
  BY DEF EvmTypeOK, BridgeTypeOK
<1>1. ASSUME NEW caller \in Address \ {This}, NEW t \in TokenId, NEW n \in Amount,
             NEW h \in Hash, NEW timelock \in Timelock, NEW recipient \in CosmosAccount,
             NEW dest \in Endpoint, NEW bounty \in Wei, NEW value \in Wei,
             LockForBurn(caller, t, n, h, timelock, recipient, dest, bounty, value)
      PROVE  LockOpened(caller, h)
  BY <1>0, <1>1 DEF LockForBurn, LockOpened
<1>2. ASSUME NEW h \in Hash, NEW s \in Secret, NEW payee, BurnEscrow(h, s, payee)
      PROVE  OwnersStay
  BY <1>2, SettlementKeepsOwners DEF BurnEscrow
<1>3. ASSUME NEW caller \in Address \ {This}, NEW h \in Hash, RefundBurn(caller, h)
      PROVE  OwnersStay
  BY <1>3, SettlementKeepsOwners DEF RefundBurn
<1>4. UNCHANGED <<locks, userLocks>> => OwnersStay
  BY DEF OwnersStay
<1> QED
  BY <1>1, <1>2, <1>3, <1>4
  DEF EvmNext, evmVars, bridgeVars, ClaimBurn, ExecuteCallback, WithdrawPending, ClaimMint,
      ExecutePrepareMint, RefundMint, SetMinBounty, SetAuthorizedSource, ChangeBridge,
      TokenActivity, EvmTick

\* Appending an element a list without repetitions does not have.
LEMMA AppendDistinct ==
  ASSUME NEW S, NEW list \in Seq(S), NEW x \in S,
         x \notin {list[i] : i \in 1..Len(list)},
         \A i, j \in 1..Len(list) : list[i] = list[j] => i = j
  PROVE  /\ {Append(list, x)[i] : i \in 1..Len(Append(list, x))}
              = {list[i] : i \in 1..Len(list)} \cup {x}
         /\ \A i, j \in 1..Len(Append(list, x)) :
              Append(list, x)[i] = Append(list, x)[j] => i = j
<1> DEFINE longer == Append(list, x)
           n == Len(list)
<1>1. /\ n \in Nat /\ Len(longer) = n + 1 /\ longer[n + 1] = x
      /\ \A i \in 1..n : longer[i] = list[i]
      /\ 1..n + 1 = 1..n \cup {n + 1}
  BY DEF longer
<1> HIDE DEF longer
<1>2. \A i \in 1..n : longer[i] # x
  BY <1>1
<1>3. {longer[i] : i \in 1..Len(longer)} = {list[i] : i \in 1..n} \cup {x}
  BY <1>1
<1>4. \A i, j \in 1..Len(longer) : longer[i] = longer[j] => i = j
  BY <1>1, <1>2
<1> QED
  BY <1>3, <1>4 DEF longer

\* getUserLocks answers with each of a sender's locks exactly once, settled ones included,
\* whatever was locked, claimed, refunded or arrived in between.
THEOREM UserLocksStayExact == EvmSpec => []UserLocksExact
<1>1. EvmInit => UserLocksExact
  BY DEF EvmInit, UserLocksExact, EmptyLock
<1>2. EvmTypeOK /\ UserLocksExact /\ [EvmNext]_evmVars => UserLocksExact'
  <2> SUFFICES ASSUME EvmTypeOK, UserLocksExact, [EvmNext]_evmVars, NEW a \in Address
               PROVE  /\ {userLocks'[a][i] : i \in 1..Len(userLocks'[a])} =
                            {h \in Hash : locks'[h].state # "EMPTY" /\ locks'[h].sender = a}
                      /\ \A i, j \in 1..Len(userLocks'[a]) :
                            userLocks'[a][i] = userLocks'[a][j] => i = j
    BY DEF UserLocksExact
  <2>0. userLocks \in [Address -> Seq(Hash)]
    BY DEF EvmTypeOK, BridgeTypeOK
  <2>1. /\ {userLocks[a][i] : i \in 1..Len(userLocks[a])} =
                {h \in Hash : locks[h].state # "EMPTY" /\ locks[h].sender = a}
        /\ \A i, j \in 1..Len(userLocks[a]) : userLocks[a][i] = userLocks[a][j] => i = j
    BY DEF UserLocksExact
  <2>2. CASE OwnersStay
    <3>1. {h \in Hash : locks'[h].state # "EMPTY" /\ locks'[h].sender = a} =
          {h \in Hash : locks[h].state # "EMPTY" /\ locks[h].sender = a}
      BY <2>2 DEF OwnersStay
    <3> QED BY <2>1, <2>2, <3>1 DEF OwnersStay
  <2>3. ASSUME NEW caller \in Address, NEW g \in Hash, LockOpened(caller, g), caller # a
        PROVE  /\ userLocks'[a] = userLocks[a]
               /\ {h \in Hash : locks'[h].state # "EMPTY" /\ locks'[h].sender = a} =
                  {h \in Hash : locks[h].state # "EMPTY" /\ locks[h].sender = a}
    BY <2>0, <2>3 DEF LockOpened
  <2>4. ASSUME NEW g \in Hash, LockOpened(a, g)
        PROVE  /\ userLocks'[a] = Append(userLocks[a], g)
               /\ g \notin {userLocks[a][i] : i \in 1..Len(userLocks[a])}
               /\ {h \in Hash : locks'[h].state # "EMPTY" /\ locks'[h].sender = a} =
                  {h \in Hash : locks[h].state # "EMPTY" /\ locks[h].sender = a} \cup {g}
    BY <2>0, <2>1, <2>4 DEF LockOpened
  <2>5. ASSUME NEW g \in Hash, LockOpened(a, g)
        PROVE  /\ {userLocks'[a][i] : i \in 1..Len(userLocks'[a])} =
                     {h \in Hash : locks'[h].state # "EMPTY" /\ locks'[h].sender = a}
               /\ \A i, j \in 1..Len(userLocks'[a]) :
                     userLocks'[a][i] = userLocks'[a][j] => i = j
    <3>1. userLocks[a] \in Seq(Hash)
      BY <2>0
    <3> DEFINE list == userLocks[a]
               longer == Append(list, g)
    <3>2. /\ list \in Seq(Hash) /\ g \notin {list[i] : i \in 1..Len(list)}
          /\ \A i, j \in 1..Len(list) : list[i] = list[j] => i = j
      BY <2>1, <2>4, <2>5, <3>1
    <3>3. /\ {longer[i] : i \in 1..Len(longer)} = {list[i] : i \in 1..Len(list)} \cup {g}
          /\ \A i, j \in 1..Len(longer) : longer[i] = longer[j] => i = j
      <4> HIDE DEF list
      <4> QED BY <3>2, AppendDistinct DEF longer
    <3>4. userLocks'[a] = longer
      BY <2>4, <2>5
    <3> QED BY <2>1, <2>4, <2>5, <3>3, <3>4
  <2> QED
    BY <2>1, <2>2, <2>3, <2>5, StepOfOwners
<1> QED
  BY <1>1, <1>2, TypeCorrect, PTL DEF EvmSpec
=============================================================================
