--------------------------- MODULE CrossChainProofs ---------------------------
(***************************************************************************)
(* The safety of a transfer across both chains, for every number of         *)
(* transfers, accounts and messages, every buffer and every skew of the two  *)
(* clocks below it; then the units on both chains (Books), how each action   *)
(* moves one transfer (TransferMoves), and from these that units are         *)
(* conserved and that the bridge implements AtomicTransfer.                  *)
(***************************************************************************)
EXTENDS CrossChain, BridgeSumProofs

----------------------------------------------------------------------------
(* Records, by their fields.                                                 *)

LockShape(r) ==
    r \in [state : {"EMPTY", "LOCKED", "CLAIMED", "REFUNDED"}, sender : {r.sender},
           tokenId : {r.tokenId}, amount : {r.amount}, timelock : Int,
           cosmosRecipient : {r.cosmosRecipient}, destination : {r.destination},
           bounty : {r.bounty}]

MintShape(r) ==
    r \in [state : {"EMPTY", "PENDING", "MINTED", "REFUNDED"}, tokenId : {r.tokenId},
           amount : {r.amount}, recipient : {r.recipient}, indicatorId : {r.indicatorId},
           timeout : Int, source : {r.source}]

InboundShape(r) ==
    r \in [state : {"None", "Pending", "Claimed", "Refunded"}, indicator : {r.indicator},
           class : {r.class}, amount : {r.amount}, recipient : {r.recipient},
           source : {r.source}, timeout : Int, secret : {r.secret}]

OutboundShape(r) ==
    r \in [state : {"None", "Locked", "Claimed", "Refunded"}, sender : {r.sender},
           class : {r.class}, amount : {r.amount}, evmRecipient : {r.evmRecipient},
           destination : {r.destination}, timelock : Int, bounty : {r.bounty},
           secret : {r.secret}]

Shapes ==
    /\ locks = [h \in Hash |-> locks[h]] /\ \A h \in Hash : LockShape(locks[h])
    /\ pendingMints = [h \in Hash |-> pendingMints[h]]
    /\ \A h \in Hash : MintShape(pendingMints[h])
    /\ htlcLocks = [x \in HashText |-> htlcLocks[x]]
    /\ \A x \in HashText : InboundShape(htlcLocks[x])
    /\ outboundLocks = [x \in HashText |-> outboundLocks[x]]
    /\ \A x \in HashText : OutboundShape(outboundLocks[x])

Clocks ==
    /\ evmNow \in Nat /\ cosmosNow \in Nat
    /\ evmNow <= cosmosNow + MaxSkew /\ cosmosNow <= evmNow + MaxSkew

\* What a prepare message on its way says is what its lock says.
EvmAnnounced ==
    \A m \in evmCalls : m.type = "prepare_mint" =>
        /\ m.hashlock \in Hash /\ m.timeout \in Int
        /\ locks[m.hashlock].state # "EMPTY"
        /\ locks[m.hashlock].tokenId = m.tokenId /\ locks[m.hashlock].amount = m.amount
        /\ locks[m.hashlock].cosmosRecipient = m.recipient
        /\ locks[m.hashlock].timelock = m.timeout + COSMOS_TIMEOUT_BUFFER

CosmosAnnounced ==
    \A m \in ibcInFlight \cup cosmosCalls : m.type = "prepare" =>
        LET x == HexText[m.hashlock] IN
        /\ m.hashlock \in Hash /\ m.timeout \in Int
        /\ outboundLocks[x].state # "None"
        /\ outboundLocks[x].class = DecimalText[m.tokenId] /\ outboundLocks[x].amount = m.amount
        /\ outboundLocks[x].evmRecipient = m.recipient
        /\ outboundLocks[x].timelock = m.timeout + EVM_TIMEOUT_BUFFER_SECS

\* The two ends of a transfer agree (DestinationMatchesSource), and a refund was no
\* earlier than its timelock.
ForwardAgrees(h) ==
    LET lock == locks[h]
        in == htlcLocks[HexText[h]] IN
    /\ in.state # "None" =>
        /\ lock.state # "EMPTY"
        /\ in.amount = lock.amount /\ in.class = DecimalText[lock.tokenId]
        /\ in.recipient = lock.cosmosRecipient
        /\ in.timeout + COSMOS_TIMEOUT_BUFFER = lock.timelock
    /\ lock.state = "REFUNDED" => evmNow >= lock.timelock

ReverseAgrees(h) ==
    LET lock == outboundLocks[HexText[h]]
        pm == pendingMints[h] IN
    /\ pm.state # "EMPTY" =>
        /\ lock.state # "None"
        /\ pm.amount = lock.amount /\ DecimalText[pm.tokenId] = lock.class
        /\ pm.recipient = lock.evmRecipient
        /\ pm.timeout + EVM_TIMEOUT_BUFFER_SECS = lock.timelock
    /\ lock.state = "Refunded" => cosmosNow >= lock.timelock

Agreement ==
    /\ Shapes /\ Clocks /\ EvmAnnounced /\ CosmosAnnounced
    /\ \A h \in Hash : ForwardAgrees(h) /\ ReverseAgrees(h)

----------------------------------------------------------------------------
(* What a step does to the four records of one hashlock.                     *)

\* The terms of a record stay.
SameTerms(l, k) ==
    /\ l.tokenId = k.tokenId /\ l.amount = k.amount /\ l.timelock = k.timelock
    /\ l.cosmosRecipient = k.cosmosRecipient
SameMintTerms(l, k) ==
    /\ l.tokenId = k.tokenId /\ l.amount = k.amount /\ l.timeout = k.timeout
    /\ l.recipient = k.recipient
SameInboundTerms(l, k) ==
    /\ l.class = k.class /\ l.amount = k.amount /\ l.timeout = k.timeout
    /\ l.recipient = k.recipient
SameOutboundTerms(l, k) ==
    /\ l.class = k.class /\ l.amount = k.amount /\ l.timelock = k.timelock
    /\ l.evmRecipient = k.evmRecipient

LockMoves(h) ==
    /\ LockShape(locks'[h])
    /\ \/ locks'[h] = locks[h]
       \/ locks[h].state = "EMPTY" /\ locks'[h].state = "LOCKED"
       \/ /\ locks[h].state = "LOCKED" /\ SameTerms(locks'[h], locks[h])
          /\ \/ locks'[h].state = "CLAIMED"
             \/ locks'[h].state = "REFUNDED" /\ evmNow >= locks[h].timelock

MintMoves(h) ==
    /\ MintShape(pendingMints'[h])
    /\ \/ pendingMints'[h] = pendingMints[h]
       \/ /\ pendingMints[h].state = "EMPTY" /\ pendingMints'[h].state = "PENDING"
          /\ \E m \in cosmosCalls :
                /\ m.type = "prepare" /\ m.hashlock = h
                /\ SameMintTerms(pendingMints'[h], m)
       \/ /\ pendingMints[h].state = "PENDING"
          /\ SameMintTerms(pendingMints'[h], pendingMints[h])
          /\ \/ pendingMints'[h].state = "MINTED" /\ evmNow < pendingMints[h].timeout
             \/ pendingMints'[h].state = "REFUNDED"

InboundMoves(x) ==
    /\ InboundShape(htlcLocks'[x])
    /\ \/ htlcLocks'[x] = htlcLocks[x]
       \/ /\ htlcLocks[x].state = "None" /\ htlcLocks'[x].state = "Pending"
          /\ \E m \in evmCalls :
                /\ m.type = "prepare_mint" /\ HexText[m.hashlock] = x
                /\ htlcLocks'[x].class = DecimalText[m.tokenId]
                /\ htlcLocks'[x].amount = m.amount /\ htlcLocks'[x].timeout = m.timeout
                /\ htlcLocks'[x].recipient = m.recipient
       \/ /\ htlcLocks[x].state = "Pending" /\ SameInboundTerms(htlcLocks'[x], htlcLocks[x])
          /\ \/ htlcLocks'[x].state = "Claimed" /\ cosmosNow < htlcLocks[x].timeout
             \/ htlcLocks'[x].state = "Refunded"

OutboundMoves(x) ==
    /\ OutboundShape(outboundLocks'[x])
    /\ \/ outboundLocks'[x] = outboundLocks[x]
       \/ outboundLocks[x].state = "None" /\ outboundLocks'[x].state = "Locked"
       \/ /\ outboundLocks[x].state = "Locked"
          /\ SameOutboundTerms(outboundLocks'[x], outboundLocks[x])
          /\ \/ outboundLocks'[x].state = "Claimed"
             \/ /\ outboundLocks'[x].state = "Refunded"
                /\ cosmosNow >= outboundLocks[x].timelock /\ outboundLocks[x].bounty > 0

EvmRecords == <<locks, pendingMints, evmCalls, evmNow>>
CosmosRecords == <<htlcLocks, outboundLocks, ibcInFlight, cosmosCalls, cosmosNow>>

\* A step of one chain, as the other end and the messages see it.
EvmMove ==
    /\ UNCHANGED CosmosRecords /\ UNCHANGED evmNow
    /\ locks' = [h \in Hash |-> locks'[h]] /\ pendingMints' = [h \in Hash |-> pendingMints'[h]]
    /\ \A h \in Hash : LockMoves(h) /\ MintMoves(h)
    /\ EvmAnnounced'

CosmosMove ==
    /\ UNCHANGED EvmRecords /\ UNCHANGED cosmosNow
    /\ htlcLocks' = [x \in HashText |-> htlcLocks'[x]]
    /\ outboundLocks' = [x \in HashText |-> outboundLocks'[x]]
    /\ \A x \in HashText : InboundMoves(x) /\ OutboundMoves(x)
    /\ CosmosAnnounced'

----------------------------------------------------------------------------
(* Each action is such a step.                                               *)

LEMMA SpellingsDiffer ==
    /\ \A h \in Hash : HexText[h] \in HashText
    /\ \A h, g \in Hash : HexText[h] = HexText[g] => h = g
  BY CrossAssumption

\* What was announced stays true of a lock that moves.
LEMMA EvmMessagesKeep ==
    ASSUME EvmAnnounced, \A h \in Hash : LockMoves(h), evmCalls' = evmCalls
    PROVE  EvmAnnounced'
  BY DEF EvmAnnounced, LockMoves, SameTerms

LEMMA CosmosMessagesKeep ==
    ASSUME CosmosAnnounced, \A x \in HashText : OutboundMoves(x),
           (ibcInFlight \cup cosmosCalls)' \subseteq ibcInFlight \cup cosmosCalls
    PROVE  CosmosAnnounced'
<1> SUFFICES ASSUME NEW m \in (ibcInFlight \cup cosmosCalls)', m.type = "prepare"
             PROVE  /\ m.hashlock \in Hash /\ m.timeout \in Int
                    /\ outboundLocks'[HexText[m.hashlock]].state # "None"
                    /\ outboundLocks'[HexText[m.hashlock]].class = DecimalText[m.tokenId]
                    /\ outboundLocks'[HexText[m.hashlock]].amount = m.amount
                    /\ outboundLocks'[HexText[m.hashlock]].evmRecipient = m.recipient
                    /\ outboundLocks'[HexText[m.hashlock]].timelock
                            = m.timeout + EVM_TIMEOUT_BUFFER_SECS
  BY DEF CosmosAnnounced
<1>1. m.hashlock \in Hash /\ HexText[m.hashlock] \in HashText
  BY SpellingsDiffer DEF CosmosAnnounced
<1> QED
  BY <1>1 DEF CosmosAnnounced, OutboundMoves, SameOutboundTerms

LEMMA EvmLocksMove ==
    ASSUME Agreement, NEW caller, NEW t, NEW amount, NEW h \in Hash,
           NEW timelock \in Timelock, NEW recipient, NEW dest, NEW bounty, NEW value,
           LockForBurn(caller, t, amount, h, timelock, recipient, dest, bounty, value),
           UNCHANGED CosmosRecords
    PROVE  EvmMove
<1> DEFINE lock == [state |-> "LOCKED", sender |-> caller, tokenId |-> t, amount |-> amount,
                    timelock |-> timelock, cosmosRecipient |-> recipient,
                    destination |-> dest, bounty |-> bounty]
           call == [type |-> "prepare_mint", to |-> dest, hashlock |-> h,
                    indicatorId |-> GetIndicatorId(t), tokenId |-> t, amount |-> amount,
                    recipient |-> recipient, timeout |-> CosmosTimeout(timelock)]
<1>1. /\ locks' = [locks EXCEPT ![h] = lock] /\ locks[h].state = "EMPTY"
      /\ evmCalls' = evmCalls \cup {call}
      /\ UNCHANGED <<pendingMints, evmNow>>
  BY DEF LockForBurn, configVars
<1>2. timelock \in Int /\ COSMOS_TIMEOUT_BUFFER \in Int
  BY BridgeAssumption DEF Timelock
<1>3. LockShape(lock)
  BY <1>2 DEF LockShape
<1>4. \A g \in Hash : LockMoves(g) /\ MintMoves(g)
  BY <1>1, <1>3 DEF LockMoves, MintMoves, Agreement, Shapes
<1>5. /\ locks' = [g \in Hash |-> locks'[g]]
      /\ pendingMints' = [g \in Hash |-> pendingMints'[g]]
  BY <1>1 DEF Agreement, Shapes
<1>6. locks'[h] = lock
  BY <1>1 DEF Agreement, Shapes
<1>7. ASSUME NEW m \in evmCalls', m.type = "prepare_mint"
      PROVE  /\ m.hashlock \in Hash /\ m.timeout \in Int
             /\ locks'[m.hashlock].state # "EMPTY"
             /\ locks'[m.hashlock].tokenId = m.tokenId
             /\ locks'[m.hashlock].amount = m.amount
             /\ locks'[m.hashlock].cosmosRecipient = m.recipient
             /\ locks'[m.hashlock].timelock = m.timeout + COSMOS_TIMEOUT_BUFFER
  <2>1. CASE m \in evmCalls
    BY <2>1, <1>4, <1>7 DEF Agreement, EvmAnnounced, LockMoves, SameTerms
  <2>2. CASE m = call
    BY <2>2, <1>2, <1>6 DEF CosmosTimeout
  <2> QED
    BY <1>1, <2>1, <2>2
<1>8. EvmAnnounced'
  BY <1>7 DEF EvmAnnounced
<1> QED
  BY <1>1, <1>4, <1>5, <1>8 DEF EvmMove

LEMMA SettledKeepsTerms ==
    ASSUME NEW l, LockShape(l), NEW state \in {"CLAIMED", "REFUNDED"}
    PROVE  /\ LockShape(Settled(l, state)) /\ SameTerms(Settled(l, state), l)
           /\ Settled(l, state).state = state
  BY DEF LockShape, SameTerms, Settled

LEMMA EvmSettlesMove ==
    ASSUME Agreement, NEW h, NEW state \in {"CLAIMED", "REFUNDED"},
           locks[h].state = "LOCKED", locks' = [locks EXCEPT ![h] = Settled(@, state)],
           state = "REFUNDED" => evmNow >= locks[h].timelock,
           UNCHANGED <<pendingMints, evmCalls, evmNow>>, UNCHANGED CosmosRecords
    PROVE  EvmMove
<1>1. ASSUME NEW g \in Hash
      PROVE  LockMoves(g)
  <2>1. LockShape(locks[g])
    BY DEF Agreement, Shapes
  <2>2. CASE g = h
    <3>1. locks'[g] = Settled(locks[g], state)
      BY <2>2 DEF Agreement, Shapes
    <3>2. /\ LockShape(locks'[g]) /\ SameTerms(locks'[g], locks[g])
          /\ locks'[g].state = state
      BY <2>1, <3>1, SettledKeepsTerms
    <3> QED
      BY <2>2, <3>2 DEF LockMoves
  <2>3. CASE g # h
    BY <2>1, <2>3 DEF Agreement, Shapes, LockMoves
  <2> QED
    BY <2>2, <2>3
<1>2. \A g \in Hash : MintMoves(g)
  BY DEF MintMoves, Agreement, Shapes
<1>3. locks' = [g \in Hash |-> locks'[g]] /\ pendingMints' = [g \in Hash |-> pendingMints'[g]]
  BY DEF Agreement, Shapes
<1>4. EvmAnnounced'
  BY <1>1, EvmMessagesKeep DEF Agreement
<1> QED
  BY <1>1, <1>2, <1>3, <1>4 DEF EvmMove

LEMMA EvmBurnsMove ==
    ASSUME Agreement, NEW h, NEW s, NEW payee, BurnEscrow(h, s, payee),
           UNCHANGED CosmosRecords
    PROVE  EvmMove
<1>1. /\ locks[h].state = "LOCKED" /\ locks' = [locks EXCEPT ![h] = Settled(@, "CLAIMED")]
      /\ UNCHANGED <<pendingMints, evmCalls, evmNow>>
  BY DEF BurnEscrow
<1> QED
  BY <1>1, EvmSettlesMove

LEMMA EvmRefundsMove ==
    ASSUME Agreement, NEW caller, NEW h, RefundBurn(caller, h), UNCHANGED CosmosRecords
    PROVE  EvmMove
<1>1. /\ locks[h].state = "LOCKED" /\ locks' = [locks EXCEPT ![h] = Settled(@, "REFUNDED")]
      /\ evmNow >= locks[h].timelock
      /\ UNCHANGED <<pendingMints, evmCalls, evmNow>>
  BY DEF RefundBurn
<1> QED
  BY <1>1, EvmSettlesMove

\* claimMint and refundMint.
LEMMA EvmDecidesMove ==
    ASSUME Agreement, NEW h, NEW state \in {"MINTED", "REFUNDED"},
           pendingMints[h].state = "PENDING",
           pendingMints' = [pendingMints EXCEPT ![h] = Decided(@, state)],
           state = "MINTED" => evmNow < pendingMints[h].timeout,
           \A m \in evmCalls' \ evmCalls : m.type # "prepare_mint",
           UNCHANGED <<locks, evmNow>>, UNCHANGED CosmosRecords
    PROVE  EvmMove
<1>1. ASSUME NEW g \in Hash
      PROVE  MintMoves(g)
  <2>1. MintShape(pendingMints[g])
    BY DEF Agreement, Shapes
  <2>2. CASE g = h
    <3>1. pendingMints'[g] = [pendingMints[g] EXCEPT !.state = state]
      BY <2>2 DEF Agreement, Shapes, Decided
    <3>2. /\ MintShape(pendingMints'[g]) /\ SameMintTerms(pendingMints'[g], pendingMints[g])
          /\ pendingMints'[g].state = state
      BY <2>1, <3>1 DEF MintShape, SameMintTerms
    <3> QED
      BY <2>2, <3>2 DEF MintMoves
  <2>3. CASE g # h
    BY <2>1, <2>3 DEF Agreement, Shapes, MintMoves
  <2> QED
    BY <2>2, <2>3
<1>2. \A g \in Hash : LockMoves(g)
  BY DEF LockMoves, Agreement, Shapes
<1>3. locks' = [g \in Hash |-> locks'[g]] /\ pendingMints' = [g \in Hash |-> pendingMints'[g]]
  BY DEF Agreement, Shapes
<1>4. EvmAnnounced'
  BY DEF Agreement, EvmAnnounced
<1> QED
  BY <1>1, <1>2, <1>3, <1>4 DEF EvmMove

LEMMA EvmClaimsMove ==
    ASSUME Agreement, NEW h, NEW s, NEW value, ClaimMint(h, s, value),
           UNCHANGED CosmosRecords
    PROVE  EvmMove
<1> DEFINE call == [type |-> "claim_burn", to |-> pendingMints[h].source, hashlock |-> h,
                    secret |-> s, gasPaid |-> value > 0]
<1>1. /\ pendingMints[h].state = "PENDING" /\ evmNow < pendingMints[h].timeout
      /\ pendingMints' = [pendingMints EXCEPT ![h] = Decided(@, "MINTED")]
      /\ evmCalls' = evmCalls \cup {call}
      /\ UNCHANGED <<locks, evmNow>>
  BY DEF ClaimMint
<1>2. \A m \in evmCalls' \ evmCalls : m.type # "prepare_mint"
  BY <1>1
<1> QED
  BY <1>1, <1>2, EvmDecidesMove

LEMMA EvmExpiresMove ==
    ASSUME Agreement, NEW h, RefundMint(h), UNCHANGED CosmosRecords
    PROVE  EvmMove
<1>1. /\ pendingMints[h].state = "PENDING"
      /\ pendingMints' = [pendingMints EXCEPT ![h] = Decided(@, "REFUNDED")]
      /\ UNCHANGED <<locks, evmCalls, evmNow>>
  BY DEF RefundMint
<1> QED
  BY <1>1, EvmDecidesMove

\* _execute with a prepare message that the Cosmos contract sent.
LEMMA EvmPreparesMove ==
    ASSUME Agreement, NEW m \in cosmosCalls, m.type = "prepare",
           ExecutePrepareMint(CosmosEndpoint,
                [hashlock |-> m.hashlock, indicatorId |-> m.indicatorId,
                 tokenId |-> m.tokenId, amount |-> m.amount, recipient |-> m.recipient,
                 timeout |-> m.timeout]),
           UNCHANGED CosmosRecords
    PROVE  EvmMove
<1> DEFINE pm == [state |-> "PENDING", tokenId |-> m.tokenId, amount |-> m.amount,
                  recipient |-> m.recipient, indicatorId |-> m.indicatorId,
                  timeout |-> m.timeout, source |-> CosmosEndpoint]
<1>1. /\ pendingMints[m.hashlock].state = "EMPTY"
      /\ pendingMints' = [pendingMints EXCEPT ![m.hashlock] = pm]
      /\ UNCHANGED <<locks, evmCalls, evmNow>>
  BY DEF ExecutePrepareMint, HashlockUnused
<1>2. m.hashlock \in Hash /\ m.timeout \in Int
  BY DEF Agreement, CosmosAnnounced
<1>3. MintShape(pm) /\ SameMintTerms(pm, m)
  BY <1>2 DEF MintShape, SameMintTerms
<1>4. ASSUME NEW g \in Hash
      PROVE  MintMoves(g)
  <2>1. CASE g = m.hashlock
    <3>1. pendingMints'[g] = pm
      BY <1>1, <2>1 DEF Agreement, Shapes
    <3> HIDE DEF pm
    <3>2. pm.state = "PENDING"
      BY DEF pm
    <3> QED
      BY <1>1, <1>3, <2>1, <3>1, <3>2 DEF MintMoves
  <2>2. CASE g # m.hashlock
    BY <1>1, <2>2 DEF Agreement, Shapes, MintMoves
  <2> QED
    BY <2>1, <2>2
<1>5. \A g \in Hash : LockMoves(g)
  BY <1>1 DEF LockMoves, Agreement, Shapes
<1>6. locks' = [g \in Hash |-> locks'[g]] /\ pendingMints' = [g \in Hash |-> pendingMints'[g]]
  BY <1>1 DEF Agreement, Shapes
<1>7. EvmAnnounced'
  BY <1>1, <1>5, EvmMessagesKeep DEF Agreement
<1> QED
  BY <1>1, <1>4, <1>5, <1>6, <1>7 DEF EvmMove

\* lock_for_burn.
LEMMA CosmosLocksMove ==
    ASSUME OneSpelling, Agreement, NEW sender, NEW c \in ClassId, NEW amount,
           NEW x \in HashText, NEW timelock \in Cosmos!CosmosTimelock, NEW evmRecipient,
           NEW dest, NEW bounty, NEW untrn, NEW relay,
           Cosmos!LockForBurn(sender, c, amount, x, timelock, evmRecipient, dest, bounty,
                              untrn, relay),
           UNCHANGED EvmRecords
    PROVE  CosmosMove
<1> DEFINE lock == [state |-> "Locked", sender |-> sender, class |-> c, amount |-> amount,
                    evmRecipient |-> evmRecipient, destination |-> dest,
                    timelock |-> timelock, bounty |-> bounty, secret |-> NoSecret]
           msg == [type |-> "prepare", of |-> x, to |-> dest, hashlock |-> HashOfText[x],
                   indicatorId |-> IndicatorOf[classes[c]], tokenId |-> TokenNumber[c],
                   amount |-> amount, recipient |-> evmRecipient,
                   timeout |-> Cosmos!EvmTimeout(timelock), relay |-> relay,
                   feeInMemo |-> FeeRecipientConfigured]
<1>1. /\ outboundLocks[x].state = "None" /\ TokenNumber[c] # -1
      /\ outboundLocks' = [outboundLocks EXCEPT ![x] = lock]
      /\ ibcInFlight' = ibcInFlight \cup {msg} /\ cosmosCalls' = cosmosCalls
      /\ UNCHANGED <<htlcLocks, cosmosNow>>
  BY DEF Cosmos!LockForBurn, Cosmos!SendThroughAxelar, Cosmos!Outbound
<1>2. timelock \in Int /\ EVM_TIMEOUT_BUFFER_SECS \in Int
  BY CrossAssumption DEF Cosmos!CosmosTimelock
<1>3. HashOfText[x] \in Hash /\ HexText[HashOfText[x]] = x /\ DecimalText[TokenNumber[c]] = c
  BY <1>1, CrossAssumption DEF OneSpelling
<1>4. OutboundShape(lock) /\ lock.state = "Locked"
  BY <1>2 DEF OutboundShape
<1>5. outboundLocks'[x] = lock
  BY <1>1 DEF Agreement, Shapes
<1>6. \A y \in HashText : y # x => outboundLocks'[y] = outboundLocks[y]
  BY <1>1 DEF Agreement, Shapes
<1> HIDE DEF lock
<1>7. ASSUME NEW y \in HashText
      PROVE  OutboundMoves(y)
  <2>1. CASE y = x
    BY <1>1, <1>4, <1>5, <2>1 DEF OutboundMoves
  <2>2. CASE y # x
    BY <1>6, <2>2 DEF Agreement, Shapes, OutboundMoves
  <2> QED
    BY <2>1, <2>2
<1>8. \A y \in HashText : InboundMoves(y)
  BY <1>1 DEF InboundMoves, Agreement, Shapes
<1>9. /\ outboundLocks' = [y \in HashText |-> outboundLocks'[y]]
      /\ htlcLocks' = [y \in HashText |-> htlcLocks'[y]]
  BY <1>1 DEF Agreement, Shapes
<1>10. ASSUME NEW m \in (ibcInFlight \cup cosmosCalls)', m.type = "prepare"
       PROVE  /\ m.hashlock \in Hash /\ m.timeout \in Int
              /\ outboundLocks'[HexText[m.hashlock]].state # "None"
              /\ outboundLocks'[HexText[m.hashlock]].class = DecimalText[m.tokenId]
              /\ outboundLocks'[HexText[m.hashlock]].amount = m.amount
              /\ outboundLocks'[HexText[m.hashlock]].evmRecipient = m.recipient
              /\ outboundLocks'[HexText[m.hashlock]].timelock
                    = m.timeout + EVM_TIMEOUT_BUFFER_SECS
  <2>1. CASE m \in ibcInFlight \cup cosmosCalls
    <3>1. m.hashlock \in Hash /\ HexText[m.hashlock] \in HashText
      BY <1>10, <2>1, SpellingsDiffer DEF Agreement, CosmosAnnounced
    <3> QED
      BY <1>7, <1>10, <2>1, <3>1
         DEF Agreement, CosmosAnnounced, OutboundMoves, SameOutboundTerms
  <2>2. CASE m = msg
    <3>1. /\ m.hashlock = HashOfText[x] /\ m.tokenId = TokenNumber[c]
          /\ m.amount = amount /\ m.recipient = evmRecipient
          /\ m.timeout = timelock - EVM_TIMEOUT_BUFFER_SECS
      BY <2>2 DEF Cosmos!EvmTimeout
    <3>2. /\ lock.state = "Locked" /\ lock.class = c /\ lock.amount = amount
          /\ lock.evmRecipient = evmRecipient /\ lock.timelock = timelock
      BY DEF lock
    <3> QED
      BY <1>2, <1>3, <1>5, <3>1, <3>2
  <2> QED
    BY <1>1, <2>1, <2>2
<1>11. CosmosAnnounced'
  BY <1>10 DEF CosmosAnnounced
<1> QED
  BY <1>1, <1>7, <1>8, <1>9, <1>11 DEF CosmosMove

\* claim_burn and refund_burn.
LEMMA CosmosSettlesMove ==
    ASSUME Agreement, NEW x, NEW lock,
           outboundLocks[x].state = "Locked",
           outboundLocks' = [outboundLocks EXCEPT ![x] = lock],
           OutboundShape(outboundLocks[x]) =>
                /\ OutboundShape(lock) /\ SameOutboundTerms(lock, outboundLocks[x])
                /\ \/ lock.state = "Claimed"
                   \/ /\ lock.state = "Refunded"
                      /\ cosmosNow >= outboundLocks[x].timelock /\ outboundLocks[x].bounty > 0,
           UNCHANGED <<htlcLocks, ibcInFlight, cosmosCalls, cosmosNow>>,
           UNCHANGED EvmRecords
    PROVE  CosmosMove
<1>1. ASSUME NEW y \in HashText
      PROVE  OutboundMoves(y)
  <2>1. OutboundShape(outboundLocks[y])
    BY DEF Agreement, Shapes
  <2>2. CASE y = x
    <3>1. outboundLocks'[y] = lock
      BY <2>2 DEF Agreement, Shapes
    <3> QED
      BY <2>1, <2>2, <3>1 DEF OutboundMoves
  <2>3. CASE y # x
    BY <2>1, <2>3 DEF Agreement, Shapes, OutboundMoves
  <2> QED
    BY <2>2, <2>3
<1>2. \A y \in HashText : InboundMoves(y)
  BY DEF InboundMoves, Agreement, Shapes
<1>3. /\ outboundLocks' = [y \in HashText |-> outboundLocks'[y]]
      /\ htlcLocks' = [y \in HashText |-> htlcLocks'[y]]
  BY DEF Agreement, Shapes
<1>4. CosmosAnnounced'
  BY <1>1, CosmosMessagesKeep DEF Agreement
<1> QED
  BY <1>1, <1>2, <1>3, <1>4 DEF CosmosMove

LEMMA CosmosBurnsMove ==
    ASSUME Agreement, NEW caller, NEW x, NEW s, Cosmos!ClaimBurn(caller, x, s),
           UNCHANGED EvmRecords
    PROVE  CosmosMove
<1> DEFINE lock == [outboundLocks[x] EXCEPT !.state = "Claimed", !.secret = s, !.bounty = 0]
<1>1. outboundLocks[x].state = "Locked"
  BY DEF Cosmos!ClaimBurn
<1>2. outboundLocks' = [outboundLocks EXCEPT ![x] = lock]
  BY DEF Cosmos!ClaimBurn
<1>3. UNCHANGED <<htlcLocks, ibcInFlight, cosmosCalls, cosmosNow>>
  BY DEF Cosmos!ClaimBurn, Cosmos!ibcVars
<1>4. ASSUME OutboundShape(outboundLocks[x])
      PROVE  /\ OutboundShape(lock) /\ SameOutboundTerms(lock, outboundLocks[x])
             /\ lock.state = "Claimed"
  BY <1>4 DEF OutboundShape, SameOutboundTerms
<1> QED
  BY <1>1, <1>2, <1>3, <1>4, CosmosSettlesMove

LEMMA CosmosRefundsMove ==
    ASSUME Agreement, NEW caller, NEW x, Cosmos!RefundBurn(caller, x), UNCHANGED EvmRecords
    PROVE  CosmosMove
<1> DEFINE lock == [outboundLocks[x] EXCEPT !.state = "Refunded", !.bounty = 0]
<1>1. /\ outboundLocks[x].state = "Locked" /\ cosmosNow >= outboundLocks[x].timelock
      /\ outboundLocks[x].bounty > 0
  BY DEF Cosmos!RefundBurn, Cosmos!SendUntrn
<1>2. outboundLocks' = [outboundLocks EXCEPT ![x] = lock]
  BY DEF Cosmos!RefundBurn
<1>3. UNCHANGED <<htlcLocks, ibcInFlight, cosmosCalls, cosmosNow>>
  BY DEF Cosmos!RefundBurn, Cosmos!ibcVars
<1>4. ASSUME OutboundShape(outboundLocks[x])
      PROVE  /\ OutboundShape(lock) /\ SameOutboundTerms(lock, outboundLocks[x])
             /\ lock.state = "Refunded"
  BY <1>4 DEF OutboundShape, SameOutboundTerms
<1> QED
  BY <1>1, <1>2, <1>3, <1>4, CosmosSettlesMove

\* claim_mint and refund_mint.
LEMMA CosmosDecidesMove ==
    ASSUME Agreement, NEW x, NEW htlc,
           htlcLocks[x].state = "Pending",
           htlcLocks' = [htlcLocks EXCEPT ![x] = htlc],
           InboundShape(htlcLocks[x]) =>
                /\ InboundShape(htlc) /\ SameInboundTerms(htlc, htlcLocks[x])
                /\ \/ htlc.state = "Claimed" /\ cosmosNow < htlcLocks[x].timeout
                   \/ htlc.state = "Refunded",
           \A m \in ibcInFlight' \ ibcInFlight : m.type # "prepare",
           UNCHANGED <<outboundLocks, cosmosCalls, cosmosNow>>,
           UNCHANGED EvmRecords
    PROVE  CosmosMove
<1>1. ASSUME NEW y \in HashText
      PROVE  InboundMoves(y)
  <2>1. InboundShape(htlcLocks[y])
    BY DEF Agreement, Shapes
  <2>2. CASE y = x
    <3>1. htlcLocks'[y] = htlc
      BY <2>2 DEF Agreement, Shapes
    <3> QED
      BY <2>1, <2>2, <3>1 DEF InboundMoves
  <2>3. CASE y # x
    BY <2>1, <2>3 DEF Agreement, Shapes, InboundMoves
  <2> QED
    BY <2>2, <2>3
<1>2. \A y \in HashText : OutboundMoves(y)
  BY DEF OutboundMoves, Agreement, Shapes
<1>3. /\ outboundLocks' = [y \in HashText |-> outboundLocks'[y]]
      /\ htlcLocks' = [y \in HashText |-> htlcLocks'[y]]
  BY DEF Agreement, Shapes
<1>4. CosmosAnnounced'
  BY DEF Agreement, CosmosAnnounced
<1> QED
  BY <1>1, <1>2, <1>3, <1>4 DEF CosmosMove

LEMMA CosmosClaimsMove ==
    ASSUME Agreement, NEW x, NEW s, NEW untrn, NEW relay,
           Cosmos!ClaimMint(x, s, untrn, relay), UNCHANGED EvmRecords
    PROVE  CosmosMove
<1> DEFINE htlc == [htlcLocks[x] EXCEPT !.state = "Claimed", !.secret = s]
           msg == [type |-> "callback", of |-> x, to |-> htlcLocks[x].source,
                   hashlock |-> HashOfText[x], secret |-> s, relay |-> relay,
                   feeInMemo |-> FeeRecipientConfigured]
<1>1. htlcLocks[x].state = "Pending" /\ cosmosNow < htlcLocks[x].timeout
  BY DEF Cosmos!ClaimMint
<1>2. htlcLocks' = [htlcLocks EXCEPT ![x] = htlc]
  BY DEF Cosmos!ClaimMint
<1>3. UNCHANGED <<outboundLocks, cosmosCalls, cosmosNow>>
  BY DEF Cosmos!ClaimMint, Cosmos!SendThroughAxelar, Cosmos!ibcVars
<1>4. ASSUME InboundShape(htlcLocks[x])
      PROVE  /\ InboundShape(htlc) /\ SameInboundTerms(htlc, htlcLocks[x])
             /\ htlc.state = "Claimed"
  BY <1>4 DEF InboundShape, SameInboundTerms
<1>5. ibcInFlight' = ibcInFlight \/ ibcInFlight' = ibcInFlight \cup {msg}
  BY DEF Cosmos!ClaimMint, Cosmos!SendThroughAxelar, Cosmos!ibcVars
<1>6. \A m \in ibcInFlight' \ ibcInFlight : m.type # "prepare"
  BY <1>5
<1> QED
  BY <1>1, <1>2, <1>3, <1>4, <1>6, CosmosDecidesMove

LEMMA CosmosExpiresMove ==
    ASSUME Agreement, NEW x, Cosmos!RefundMint(x), UNCHANGED EvmRecords
    PROVE  CosmosMove
<1> DEFINE htlc == [htlcLocks[x] EXCEPT !.state = "Refunded"]
<1>1. htlcLocks[x].state = "Pending"
  BY DEF Cosmos!RefundMint
<1>2. htlcLocks' = [htlcLocks EXCEPT ![x] = htlc]
  BY DEF Cosmos!RefundMint
<1>3. UNCHANGED <<outboundLocks, ibcInFlight, cosmosCalls, cosmosNow>>
  BY DEF Cosmos!RefundMint, Cosmos!ibcVars
<1>4. ASSUME InboundShape(htlcLocks[x])
      PROVE  /\ InboundShape(htlc) /\ SameInboundTerms(htlc, htlcLocks[x])
             /\ htlc.state = "Refunded"
  BY <1>4 DEF InboundShape, SameInboundTerms
<1> QED
  BY <1>1, <1>2, <1>3, <1>4, CosmosDecidesMove

\* prepare_mint with a message that the EVM contract sent.
LEMMA CosmosPreparesMove ==
    ASSUME Agreement, NEW m \in evmCalls, m.type = "prepare_mint",
           Cosmos!PrepareMint(AxelarGateway,
                [hashlock |-> HexText[m.hashlock],
                 indicator |-> HexIndicatorText[m.indicatorId],
                 class |-> DecimalText[m.tokenId], amount |-> m.amount,
                 recipient |-> m.recipient, timeout |-> m.timeout, source |-> EvmEndpoint]),
           UNCHANGED EvmRecords
    PROVE  CosmosMove
<1> DEFINE x == HexText[m.hashlock]
           htlc == [state |-> "Pending", indicator |-> HexIndicatorText[m.indicatorId],
                    class |-> DecimalText[m.tokenId], amount |-> m.amount,
                    recipient |-> m.recipient, source |-> EvmEndpoint,
                    timeout |-> m.timeout, secret |-> NoSecret]
<1>1. /\ htlcLocks[x].state = "None"
      /\ htlcLocks' = [htlcLocks EXCEPT ![x] = htlc]
      /\ UNCHANGED <<outboundLocks, ibcInFlight, cosmosCalls, cosmosNow>>
  BY DEF Cosmos!PrepareMint, Cosmos!Inbound, Cosmos!ibcVars
<1>2. m.hashlock \in Hash /\ m.timeout \in Int /\ x \in HashText
  BY SpellingsDiffer DEF Agreement, EvmAnnounced
<1>3. /\ InboundShape(htlc) /\ htlc.state = "Pending"
      /\ htlc.class = DecimalText[m.tokenId] /\ htlc.amount = m.amount
      /\ htlc.timeout = m.timeout /\ htlc.recipient = m.recipient
  BY <1>2 DEF InboundShape
<1>4. htlcLocks'[x] = htlc /\ \A y \in HashText : y # x => htlcLocks'[y] = htlcLocks[y]
  BY <1>1, <1>2 DEF Agreement, Shapes
<1> HIDE DEF htlc
<1>5. ASSUME NEW y \in HashText
      PROVE  InboundMoves(y)
  <2>1. CASE y = x
    BY <1>1, <1>3, <1>4, <2>1 DEF InboundMoves
  <2>2. CASE y # x
    BY <1>4, <2>2 DEF Agreement, Shapes, InboundMoves
  <2> QED
    BY <2>1, <2>2
<1>6. \A y \in HashText : OutboundMoves(y)
  BY <1>1 DEF OutboundMoves, Agreement, Shapes
<1>7. /\ outboundLocks' = [y \in HashText |-> outboundLocks'[y]]
      /\ htlcLocks' = [y \in HashText |-> htlcLocks'[y]]
  BY <1>1 DEF Agreement, Shapes
<1>8. CosmosAnnounced'
  BY <1>1, <1>6, CosmosMessagesKeep DEF Agreement
<1> QED
  BY <1>1, <1>5, <1>6, <1>7, <1>8 DEF CosmosMove

\* The channel's answers to the packets.
LEMMA PacketsMove ==
    ASSUME Agreement, NEW m,
           Cosmos!IbcAccept(m) \/ \E fee : Cosmos!IbcReturn(m, fee), UNCHANGED EvmRecords
    PROVE  CosmosMove
<1>1. /\ (ibcInFlight \cup cosmosCalls)' \subseteq ibcInFlight \cup cosmosCalls
      /\ UNCHANGED <<htlcLocks, outboundLocks, cosmosNow>>
  BY DEF Cosmos!IbcAccept, Cosmos!IbcReturn
<1>2. \A y \in HashText : InboundMoves(y) /\ OutboundMoves(y)
  BY <1>1 DEF InboundMoves, OutboundMoves, Agreement, Shapes
<1>3. /\ outboundLocks' = [y \in HashText |-> outboundLocks'[y]]
      /\ htlcLocks' = [y \in HashText |-> htlcLocks'[y]]
  BY <1>1 DEF Agreement, Shapes
<1>4. CosmosAnnounced'
  BY <1>1, <1>2, CosmosMessagesKeep DEF Agreement
<1> QED
  BY <1>1, <1>2, <1>3, <1>4 DEF CosmosMove

----------------------------------------------------------------------------
(* Every step of the bridge.                                                 *)

ClockMove ==
    /\ UNCHANGED <<locks, pendingMints, evmCalls, htlcLocks, outboundLocks, ibcInFlight,
                   cosmosCalls>>
    /\ \/ /\ evmNow' = evmNow + 1 /\ cosmosNow' = cosmosNow
          /\ evmNow + 1 <= cosmosNow + MaxSkew
          /\ MonitorInTime("forward", evmNow + 1)
       \/ /\ cosmosNow' = cosmosNow + 1 /\ evmNow' = evmNow
          /\ cosmosNow + 1 <= evmNow + MaxSkew
          /\ MonitorInTime("reverse", cosmosNow + 1)

Still == UNCHANGED EvmRecords /\ UNCHANGED CosmosRecords

LEMMA EveryStepMoves ==
    ASSUME OneSpelling, Agreement, [CrossNext]_crossVars
    PROVE  EvmMove \/ CosmosMove \/ ClockMove \/ Still
<1> USE DEF cosmosVars, EvmRecords, CosmosRecords
<1>e. UNCHANGED evmVars => UNCHANGED EvmRecords
  BY DEF evmVars, bridgeVars
<1>1. CASE EvmStep
  BY <1>1, EvmLocksMove, EvmClaimsMove, EvmExpiresMove DEF EvmStep
<1>2. CASE CosmosStep
  BY <1>2, <1>e, CosmosLocksMove, CosmosClaimsMove, CosmosExpiresMove, PacketsMove
     DEF CosmosStep
<1>3. ASSUME NEW tr \in Transfers, ManualBurn(tr)
      PROVE  EvmMove \/ CosmosMove
  BY <1>3, <1>e, EvmBurnsMove, CosmosBurnsMove DEF ManualBurn, ClaimBurn
<1>4. ASSUME NEW tr \in Transfers, Refund(tr)
      PROVE  EvmMove \/ CosmosMove
  BY <1>4, <1>e, EvmRefundsMove, CosmosRefundsMove DEF Refund
<1>5. ASSUME NEW m \in evmCalls, RelayToCosmos(m)
      PROVE  CosmosMove
  BY <1>5, <1>e, CosmosPreparesMove, CosmosBurnsMove DEF RelayToCosmos
<1>6. ASSUME NEW m \in cosmosCalls, RelayToEvm(m)
      PROVE  EvmMove
  BY <1>6, EvmPreparesMove, EvmBurnsMove DEF RelayToEvm, ExecuteCallback
<1>7. CASE EvmTime
  BY <1>7 DEF EvmTime, EvmTick, ClockMove
<1>8. CASE CosmosTime
  BY <1>8, <1>e DEF CosmosTime, Cosmos!CosmosTick, Cosmos!ibcVars, ClockMove
<1>9. CASE UNCHANGED crossVars
  BY <1>9, <1>e DEF crossVars, Still
<1> QED
  BY <1>1, <1>2, <1>3, <1>4, <1>5, <1>6, <1>7, <1>8, <1>9 DEF CrossNext

----------------------------------------------------------------------------
(* The agreement of the two ends is inductive.                               *)

LEMMA AgreementHolds == CrossInit => Agreement
<1> SUFFICES ASSUME CrossInit
             PROVE  Agreement
  OBVIOUS
<1>1. /\ locks = [h \in Hash |-> EmptyLock] /\ pendingMints = [h \in Hash |-> EmptyMint]
      /\ evmCalls = {} /\ evmNow = 0
  BY DEF CrossInit, EvmInit
<1>2. /\ htlcLocks = [x \in HashText |-> Cosmos!NoInbound]
      /\ outboundLocks = [x \in HashText |-> Cosmos!NoOutbound]
      /\ ibcInFlight = {} /\ cosmosCalls = {} /\ cosmosNow = 0
  BY DEF CrossInit, Cosmos!CosmosInitWith
<1>3. LockShape(EmptyLock) /\ MintShape(EmptyMint)
  BY DEF LockShape, MintShape, EmptyLock, EmptyMint
<1>4. InboundShape(Cosmos!NoInbound) /\ OutboundShape(Cosmos!NoOutbound)
  BY DEF InboundShape, OutboundShape, Cosmos!NoInbound, Cosmos!NoOutbound
<1>5. Shapes
  BY <1>1, <1>2, <1>3, <1>4 DEF Shapes
<1>6. Clocks
  BY <1>1, <1>2, CrossAssumption DEF Clocks
<1>7. EvmAnnounced /\ CosmosAnnounced
  BY <1>1, <1>2 DEF EvmAnnounced, CosmosAnnounced
<1>8. ASSUME NEW h \in Hash
      PROVE  ForwardAgrees(h) /\ ReverseAgrees(h)
  BY <1>1, <1>2, SpellingsDiffer
     DEF ForwardAgrees, ReverseAgrees, EmptyLock, EmptyMint, Cosmos!NoInbound,
         Cosmos!NoOutbound
<1> QED
  BY <1>5, <1>6, <1>7, <1>8 DEF Agreement

LEMMA EvmMoveKeepsAgreement ==
    ASSUME Agreement, EvmMove
    PROVE  Agreement'
<1> USE DEF CosmosRecords
<1>1. Shapes'
  BY DEF Agreement, Shapes, EvmMove, LockMoves, MintMoves
<1>2. Clocks' /\ EvmAnnounced' /\ CosmosAnnounced'
  BY DEF Agreement, Clocks, CosmosAnnounced, EvmMove
<1>3. ASSUME NEW h \in Hash
      PROVE  ForwardAgrees(h)'
  <2>1. ForwardAgrees(h) /\ LockMoves(h) /\ UNCHANGED <<htlcLocks, evmNow>>
    BY DEF Agreement, EvmMove
  <2> QED
    BY <2>1 DEF ForwardAgrees, LockMoves, SameTerms
<1>4. ASSUME NEW h \in Hash
      PROVE  ReverseAgrees(h)'
  <2>1. ReverseAgrees(h) /\ MintMoves(h) /\ UNCHANGED <<outboundLocks, cosmosNow>>
    BY DEF Agreement, EvmMove
  <2>2. \A m \in cosmosCalls : m.type = "prepare" /\ m.hashlock = h =>
            /\ outboundLocks[HexText[h]].state # "None"
            /\ outboundLocks[HexText[h]].class = DecimalText[m.tokenId]
            /\ outboundLocks[HexText[h]].amount = m.amount
            /\ outboundLocks[HexText[h]].evmRecipient = m.recipient
            /\ outboundLocks[HexText[h]].timelock = m.timeout + EVM_TIMEOUT_BUFFER_SECS
    BY DEF Agreement, CosmosAnnounced
  <2> QED
    BY <2>1, <2>2 DEF ReverseAgrees, MintMoves, SameMintTerms
<1> QED
  BY <1>1, <1>2, <1>3, <1>4 DEF Agreement

LEMMA CosmosMoveKeepsAgreement ==
    ASSUME Agreement, CosmosMove
    PROVE  Agreement'
<1> USE DEF EvmRecords
<1>1. Shapes'
  BY DEF Agreement, Shapes, CosmosMove, InboundMoves, OutboundMoves
<1>2. Clocks' /\ EvmAnnounced' /\ CosmosAnnounced'
  BY DEF Agreement, Clocks, EvmAnnounced, CosmosMove
<1>3. ASSUME NEW h \in Hash
      PROVE  ForwardAgrees(h)'
  <2>1. ForwardAgrees(h) /\ InboundMoves(HexText[h]) /\ UNCHANGED <<locks, evmNow>>
    BY SpellingsDiffer DEF Agreement, CosmosMove
  <2>2. \A m \in evmCalls : m.type = "prepare_mint" /\ HexText[m.hashlock] = HexText[h] =>
            /\ locks[h].state # "EMPTY"
            /\ locks[h].tokenId = m.tokenId /\ locks[h].amount = m.amount
            /\ locks[h].cosmosRecipient = m.recipient
            /\ locks[h].timelock = m.timeout + COSMOS_TIMEOUT_BUFFER
    BY SpellingsDiffer DEF Agreement, EvmAnnounced
  <2> QED
    BY <2>1, <2>2 DEF ForwardAgrees, InboundMoves, SameInboundTerms
<1>4. ASSUME NEW h \in Hash
      PROVE  ReverseAgrees(h)'
  <2>1. ReverseAgrees(h) /\ OutboundMoves(HexText[h]) /\ UNCHANGED <<pendingMints, cosmosNow>>
    BY SpellingsDiffer DEF Agreement, CosmosMove
  <2> QED
    BY <2>1 DEF ReverseAgrees, OutboundMoves, SameOutboundTerms
<1> QED
  BY <1>1, <1>2, <1>3, <1>4 DEF Agreement

LEMMA TimeKeepsAgreement ==
    ASSUME Agreement, ClockMove \/ Still
    PROVE  Agreement'
<1> USE DEF EvmRecords, CosmosRecords, ClockMove, Still
<1>1. Shapes' /\ EvmAnnounced' /\ CosmosAnnounced'
  BY DEF Agreement, Shapes, EvmAnnounced, CosmosAnnounced
<1>2. Clocks'
  BY CrossAssumption DEF Agreement, Clocks
<1>3. evmNow \in Int /\ cosmosNow \in Int /\ evmNow' >= evmNow /\ cosmosNow' >= cosmosNow
      /\ evmNow' \in Int /\ cosmosNow' \in Int
  BY DEF Agreement, Clocks
<1>4. ASSUME NEW h \in Hash
      PROVE  ForwardAgrees(h)' /\ ReverseAgrees(h)'
  <2>1. locks[h].timelock \in Int /\ outboundLocks[HexText[h]].timelock \in Int
    BY SpellingsDiffer DEF Agreement, Shapes, LockShape, OutboundShape
  <2> QED
    BY <1>3, <2>1 DEF Agreement, ForwardAgrees, ReverseAgrees
<1> QED
  BY <1>1, <1>2, <1>4 DEF Agreement

\* What the two contracts store and what is on its way between them agree.
THEOREM EndsAgree ==
    ASSUME OneSpelling
    PROVE  CrossSpec => []Agreement
<1>1. Agreement /\ [CrossNext]_crossVars => Agreement'
  BY EveryStepMoves, EvmMoveKeepsAgreement, CosmosMoveKeepsAgreement, TimeKeepsAgreement
<1> QED
  BY <1>1, AgreementHolds, PTL DEF CrossSpec

----------------------------------------------------------------------------
(* Consequences.                                                             *)

\* What a destination holds as pending or minted is what the source escrowed: amount,
\* class, recipient, and a deadline the buffer earlier than the refund
\* (_encodePrepareMintPayload with prepare_mint; lock_for_burn with _handlePrepareMint).
THEOREM DestinationsMatch ==
    ASSUME OneSpelling
    PROVE  CrossSpec => []DestinationMatchesSource
<1>1. Agreement => DestinationMatchesSource
  <2> SUFFICES ASSUME Agreement, NEW h \in Hash
               PROVE  /\ ForwardAgrees(h) /\ ReverseAgrees(h)
    BY DEF DestinationMatchesSource, ForwardAgrees, ReverseAgrees
  <2> QED
    BY DEF Agreement
<1> QED
  BY <1>1, EndsAgree, PTL

LEMMA SourceStates ==
    ASSUME Agreement, NEW h \in Hash
    PROVE  /\ Source(<<"forward", h>>) = locks[h].state
           /\ Minted(<<"forward", h>>) <=> htlcLocks[HexText[h]].state = "Claimed"
           /\ RefundOpens(<<"forward", h>>) = locks[h].timelock
           /\ LET state == outboundLocks[HexText[h]].state IN
              /\ state = "None" <=> Source(<<"reverse", h>>) = "EMPTY"
              /\ state = "Locked" <=> Source(<<"reverse", h>>) = "LOCKED"
              /\ state = "Claimed" <=> Source(<<"reverse", h>>) = "CLAIMED"
              /\ state = "Refunded" <=> Source(<<"reverse", h>>) = "REFUNDED"
           /\ Minted(<<"reverse", h>>) <=> pendingMints[h].state = "MINTED"
           /\ RefundOpens(<<"reverse", h>>) = outboundLocks[HexText[h]].timelock
<1>1. outboundLocks[HexText[h]].state \in {"None", "Locked", "Claimed", "Refunded"}
  BY SpellingsDiffer DEF Agreement, Shapes, OutboundShape
<1> QED
  BY <1>1 DEF Source, Minted, RefundOpens, HashIn

\* A mint happens while the escrow behind it cannot be refunded yet.
LEMMA ClaimsBeforeRefund ==
    ASSUME Agreement, EvmMove \/ CosmosMove \/ ClockMove \/ Still, NEW h \in Hash
    PROVE  /\ htlcLocks[HexText[h]].state # "Claimed" /\ htlcLocks'[HexText[h]].state = "Claimed"
                => /\ locks[h].state \in {"LOCKED", "CLAIMED"} /\ evmNow < locks[h].timelock
                   /\ UNCHANGED <<locks, evmNow>>
           /\ pendingMints[h].state # "MINTED" /\ pendingMints'[h].state = "MINTED"
                => /\ outboundLocks[HexText[h]].state \in {"Locked", "Claimed"}
                   /\ cosmosNow < outboundLocks[HexText[h]].timelock
                   /\ UNCHANGED <<outboundLocks, cosmosNow>>
<1> DEFINE x == HexText[h]
<1>0. x \in HashText
  BY SpellingsDiffer
<1>n. /\ evmNow \in Int /\ cosmosNow \in Int
      /\ evmNow <= cosmosNow + MaxSkew /\ cosmosNow <= evmNow + MaxSkew
      /\ MaxSkew \in Int /\ COSMOS_TIMEOUT_BUFFER \in Int /\ EVM_TIMEOUT_BUFFER_SECS \in Int
      /\ MaxSkew < COSMOS_TIMEOUT_BUFFER /\ MaxSkew < EVM_TIMEOUT_BUFFER_SECS
  BY CrossAssumption, BridgeAssumption DEF Agreement, Clocks
<1>t. /\ htlcLocks[x].timeout \in Int /\ locks[h].timelock \in Int
      /\ pendingMints[h].timeout \in Int /\ outboundLocks[x].timelock \in Int
      /\ locks[h].state \in {"EMPTY", "LOCKED", "CLAIMED", "REFUNDED"}
      /\ outboundLocks[x].state \in {"None", "Locked", "Claimed", "Refunded"}
  BY <1>0 DEF Agreement, Shapes, LockShape, MintShape, InboundShape, OutboundShape
<1>1. ASSUME htlcLocks[x].state # "Claimed", htlcLocks'[x].state = "Claimed"
      PROVE  /\ locks[h].state \in {"LOCKED", "CLAIMED"} /\ evmNow < locks[h].timelock
             /\ UNCHANGED <<locks, evmNow>>
  <2>1. CosmosMove
    BY <1>1 DEF EvmMove, ClockMove, Still, CosmosRecords
  <2>2. htlcLocks[x].state = "Pending" /\ cosmosNow < htlcLocks[x].timeout
    BY <1>0, <1>1, <2>1 DEF CosmosMove, InboundMoves
  <2>3. /\ locks[h].state # "EMPTY"
        /\ htlcLocks[x].timeout + COSMOS_TIMEOUT_BUFFER = locks[h].timelock
        /\ locks[h].state = "REFUNDED" => evmNow >= locks[h].timelock
    BY <2>2 DEF Agreement, ForwardAgrees
  <2>4. evmNow < locks[h].timelock
    BY <1>n, <1>t, <2>2, <2>3
  <2> QED
    BY <1>n, <1>t, <2>1, <2>3, <2>4 DEF CosmosMove, EvmRecords
<1>2. ASSUME pendingMints[h].state # "MINTED", pendingMints'[h].state = "MINTED"
      PROVE  /\ outboundLocks[x].state \in {"Locked", "Claimed"}
             /\ cosmosNow < outboundLocks[x].timelock
             /\ UNCHANGED <<outboundLocks, cosmosNow>>
  <2>1. EvmMove
    BY <1>2 DEF CosmosMove, ClockMove, Still, EvmRecords
  <2>2. pendingMints[h].state = "PENDING" /\ evmNow < pendingMints[h].timeout
    BY <1>2, <2>1 DEF EvmMove, MintMoves
  <2>3. /\ outboundLocks[x].state # "None"
        /\ pendingMints[h].timeout + EVM_TIMEOUT_BUFFER_SECS = outboundLocks[x].timelock
        /\ outboundLocks[x].state = "Refunded" => cosmosNow >= outboundLocks[x].timelock
    BY <2>2 DEF Agreement, ReverseAgrees
  <2>4. cosmosNow < outboundLocks[x].timelock
    BY <1>n, <1>t, <2>2, <2>3
  <2> QED
    BY <1>n, <1>t, <2>1, <2>3, <2>4 DEF EvmMove, CosmosRecords
<1> QED
  BY <1>1, <1>2

\* On two clocks that differ by less than either buffer, a claim (claim_mint, claimMint)
\* comes before the refund of its source can, so a refunded source never mints.
THEOREM ClaimsCloseFirst ==
    ASSUME OneSpelling
    PROVE  CrossSpec => ClaimsCloseBeforeRefunds
<1>1. ASSUME Agreement, [CrossNext]_crossVars, NEW tr \in Transfers,
             ~Minted(tr), Minted(tr)'
      PROVE  /\ Source(tr) \in {"LOCKED", "CLAIMED"}
             /\ (IF tr[1] = "forward" THEN evmNow ELSE cosmosNow) < RefundOpens(tr)
  <2>1. EvmMove \/ CosmosMove \/ ClockMove \/ Still
    BY <1>1, EveryStepMoves
  <2>2. PICK h \in Hash : tr = <<"forward", h>> \/ tr = <<"reverse", h>>
    BY DEF Transfers
  <2>3. CASE tr = <<"forward", h>>
    <3>1. htlcLocks[HexText[h]].state # "Claimed" /\ htlcLocks'[HexText[h]].state = "Claimed"
      BY <1>1, <2>3 DEF Minted, HashIn
    <3> QED
      BY <1>1, <2>1, <2>3, <3>1, ClaimsBeforeRefund, SourceStates
  <2>4. CASE tr = <<"reverse", h>>
    <3>1. pendingMints[h].state # "MINTED" /\ pendingMints'[h].state = "MINTED"
      BY <1>1, <2>4 DEF Minted, HashIn
    <3> QED
      BY <1>1, <2>1, <2>4, <3>1, ClaimsBeforeRefund, SourceStates
  <2> QED
    BY <2>2, <2>3, <2>4
<1>2. Agreement /\ [CrossNext]_crossVars =>
        [\A tr \in Transfers : ~Minted(tr) /\ Minted(tr)' =>
            /\ Source(tr) \in {"LOCKED", "CLAIMED"}
            /\ (IF tr[1] = "forward" THEN evmNow ELSE cosmosNow) < RefundOpens(tr)]_crossVars
  BY <1>1
<1> QED
  BY <1>2, EndsAgree, PTL DEF CrossSpec, ClaimsCloseBeforeRefunds

----------------------------------------------------------------------------
\* While monitors are in time, a mint leaves its source burned, or locked with the
\* refund still closed or impossible.
MintsHoldTheirSource ==
    \A h \in Hash :
        /\ htlcLocks[HexText[h]].state = "Claimed" =>
            \/ locks[h].state = "CLAIMED"
            \/ locks[h].state = "LOCKED" /\ evmNow < locks[h].timelock
        /\ pendingMints[h].state = "MINTED" =>
            \/ outboundLocks[HexText[h]].state = "Claimed"
            \/ /\ outboundLocks[HexText[h]].state = "Locked"
               /\ outboundLocks[HexText[h]].bounty > 0 =>
                    cosmosNow < outboundLocks[HexText[h]].timelock

LEMMA MintsKeepTheirSource ==
    ASSUME Monitored, Agreement, MintsHoldTheirSource,
           EvmMove \/ CosmosMove \/ ClockMove \/ Still
    PROVE  MintsHoldTheirSource'
<1> SUFFICES ASSUME NEW h \in Hash
    PROVE  /\ htlcLocks'[HexText[h]].state = "Claimed" =>
                \/ locks'[h].state = "CLAIMED"
                \/ locks'[h].state = "LOCKED" /\ evmNow' < locks'[h].timelock
           /\ pendingMints'[h].state = "MINTED" =>
                \/ outboundLocks'[HexText[h]].state = "Claimed"
                \/ /\ outboundLocks'[HexText[h]].state = "Locked"
                   /\ outboundLocks'[HexText[h]].bounty > 0 =>
                        cosmosNow' < outboundLocks'[HexText[h]].timelock
  BY DEF MintsHoldTheirSource
<1> DEFINE x == HexText[h]
<1>0. x \in HashText /\ evmNow \in Int /\ cosmosNow \in Int
      /\ locks[h].timelock \in Int /\ outboundLocks[x].timelock \in Int
  BY SpellingsDiffer DEF Agreement, Clocks, Shapes, LockShape, OutboundShape
<1>1. ASSUME htlcLocks'[x].state = "Claimed"
      PROVE  \/ locks'[h].state = "CLAIMED"
             \/ locks'[h].state = "LOCKED" /\ evmNow' < locks'[h].timelock
  <2>1. CASE htlcLocks[x].state # "Claimed"
    BY <1>1, <2>1, ClaimsBeforeRefund
  <2>2. CASE htlcLocks[x].state = "Claimed"
    <3>1. \/ locks[h].state = "CLAIMED"
          \/ locks[h].state = "LOCKED" /\ evmNow < locks[h].timelock
      BY <2>2 DEF MintsHoldTheirSource
    <3>2. CASE EvmMove
      BY <1>0, <3>1, <3>2 DEF EvmMove, LockMoves, SameTerms
    <3>3. CASE CosmosMove \/ Still
      BY <3>1, <3>3 DEF CosmosMove, Still, EvmRecords
    <3>4. CASE ClockMove
      <4>1. locks[h].state = "LOCKED" /\ MonitorInTime("forward", evmNow + 1)
                => evmNow + 1 < locks[h].timelock
        <5>1. <<"forward", h>> \in {"forward"} \X Hash /\ Payable(<<"forward", h>>)
          BY DEF Payable
        <5> QED
          BY <2>2, <5>1, SourceStates DEF MonitorInTime
      <4> QED
        BY <3>1, <3>4, <4>1 DEF ClockMove
    <3> QED
      BY <3>2, <3>3, <3>4
  <2> QED
    BY <2>1, <2>2
<1>2. ASSUME pendingMints'[h].state = "MINTED"
      PROVE  \/ outboundLocks'[x].state = "Claimed"
             \/ /\ outboundLocks'[x].state = "Locked"
                /\ outboundLocks'[x].bounty > 0 => cosmosNow' < outboundLocks'[x].timelock
  <2>1. CASE pendingMints[h].state # "MINTED"
    BY <1>2, <2>1, ClaimsBeforeRefund
  <2>2. CASE pendingMints[h].state = "MINTED"
    <3>1. \/ outboundLocks[x].state = "Claimed"
          \/ /\ outboundLocks[x].state = "Locked"
             /\ outboundLocks[x].bounty > 0 => cosmosNow < outboundLocks[x].timelock
      BY <2>2 DEF MintsHoldTheirSource
    <3>2. CASE CosmosMove
      BY <1>0, <3>1, <3>2 DEF CosmosMove, OutboundMoves, SameOutboundTerms
    <3>3. CASE EvmMove \/ Still
      BY <3>1, <3>3 DEF EvmMove, Still, CosmosRecords
    <3>4. CASE ClockMove
      <4>1. outboundLocks[x].state = "Locked" /\ outboundLocks[x].bounty > 0
              /\ MonitorInTime("reverse", cosmosNow + 1)
                => cosmosNow + 1 < outboundLocks[x].timelock
        <5>1. <<"reverse", h>> \in {"reverse"} \X Hash
          OBVIOUS
        <5>2. outboundLocks[x].bounty > 0 => Payable(<<"reverse", h>>)
          BY DEF Payable, HashIn
        <5> QED
          BY <2>2, <5>1, <5>2, SourceStates DEF MonitorInTime
      <4> QED
        BY <3>1, <3>4, <4>1 DEF ClockMove
    <3> QED
      BY <3>2, <3>3, <3>4
  <2> QED
    BY <2>1, <2>2
<1> QED
  BY <1>1, <1>2

\* While monitors burn in time, the escrow behind a mint is never given back.
THEOREM MintsBehindSources ==
    ASSUME OneSpelling, Monitored
    PROVE  CrossSpec => []MintsHoldTheirSource
<1>1. CrossInit => MintsHoldTheirSource
  <2> SUFFICES ASSUME CrossInit
               PROVE  MintsHoldTheirSource
    OBVIOUS
  <2>1. /\ pendingMints = [h \in Hash |-> EmptyMint]
        /\ htlcLocks = [x \in HashText |-> Cosmos!NoInbound]
    BY DEF CrossInit, EvmInit, Cosmos!CosmosInitWith
  <2> QED
    BY <2>1, SpellingsDiffer DEF MintsHoldTheirSource, EmptyMint, Cosmos!NoInbound
<1>2. Agreement /\ MintsHoldTheirSource /\ [CrossNext]_crossVars => MintsHoldTheirSource'
  BY EveryStepMoves, MintsKeepTheirSource
<1> QED
  BY <1>1, <1>2, EndsAgree, PTL DEF CrossSpec

\* No double spend: while monitors burn in time, no transfer in either direction is
\* both returned to its sender (refundBurn, refund_burn) and minted (claim_mint,
\* claimMint), whatever is lost, delayed, repeated or reordered between the chains.
THEOREM NoTransferDoubles ==
    ASSUME OneSpelling, Monitored
    PROVE  CrossSpec => []NoDoubleSpend
<1>1. Agreement /\ MintsHoldTheirSource => NoDoubleSpend
  <2> SUFFICES ASSUME Agreement, MintsHoldTheirSource, NEW tr \in Transfers
               PROVE  Phase(tr) # "doubled"
    BY DEF NoDoubleSpend
  <2>1. PICK h \in Hash : tr = <<"forward", h>> \/ tr = <<"reverse", h>>
    BY DEF Transfers
  <2>2. /\ locks[h].state \in {"EMPTY", "LOCKED", "CLAIMED", "REFUNDED"}
        /\ outboundLocks[HexText[h]].state \in {"None", "Locked", "Claimed", "Refunded"}
    BY SpellingsDiffer DEF Agreement, Shapes, LockShape, OutboundShape
  <2>3. Source(tr) \in {"EMPTY", "LOCKED", "CLAIMED", "REFUNDED"}
    BY <2>1, <2>2, SourceStates
  <2>4. Minted(tr) => Source(tr) \in {"LOCKED", "CLAIMED"}
    <3>1. CASE tr = <<"forward", h>>
      <4>1. htlcLocks[HexText[h]].state = "Claimed" => locks[h].state \in {"LOCKED", "CLAIMED"}
        BY DEF MintsHoldTheirSource
      <4> QED
        BY <3>1, <4>1, SourceStates
    <3>2. CASE tr = <<"reverse", h>>
      <4>1. pendingMints[h].state = "MINTED" =>
                outboundLocks[HexText[h]].state \in {"Locked", "Claimed"}
        BY DEF MintsHoldTheirSource
      <4> QED
        BY <3>2, <4>1, SourceStates
    <3> QED
      BY <2>1, <3>1, <3>2
  <2> QED
    BY <2>3, <2>4 DEF Phase
<1> QED
  BY <1>1, MintsBehindSources, EndsAgree, PTL

----------------------------------------------------------------------------
(* The phases of AtomicTransfer.                                             *)

\* Where a transfer may go next, as Escrow, Deliver, Settle and Return say; its amount
\* is set when it is escrowed and stays.
Edges == {<<"idle", "escrowed">>, <<"escrowed", "delivered">>, <<"escrowed", "burned">>,
          <<"escrowed", "returned">>, <<"delivered", "completed">>, <<"burned", "completed">>}

FollowsEdges(tr) ==
    /\ <<Phase(tr), Phase(tr)'>> \in Edges \/ Phase(tr)' = Phase(tr)
    /\ Phase(tr) # "idle" => AmountIn(tr)' = AmountIn(tr)

\* The two ends of a transfer move one at a time.
LEMMA EndsMove ==
    ASSUME Agreement, MintsHoldTheirSource, Agreement', MintsHoldTheirSource',
           EvmMove \/ CosmosMove \/ ClockMove \/ Still, NEW tr \in Transfers
    PROVE  /\ Source(tr) \in {"EMPTY", "LOCKED", "CLAIMED", "REFUNDED"}
           /\ \/ Source(tr)' = Source(tr)
              \/ Source(tr) = "EMPTY" /\ Source(tr)' = "LOCKED"
              \/ Source(tr) = "LOCKED" /\ Source(tr)' \in {"CLAIMED", "REFUNDED"}
           /\ Minted(tr) => Minted(tr)' /\ Source(tr) \in {"LOCKED", "CLAIMED"}
           /\ Minted(tr)' => Source(tr)' \in {"LOCKED", "CLAIMED"}
           /\ ~Minted(tr) /\ Minted(tr)' => Source(tr)' = Source(tr)
           /\ Source(tr) # "EMPTY" => AmountIn(tr)' = AmountIn(tr)
<1> USE DEF EvmRecords, CosmosRecords
<1>1. PICK h \in Hash : tr = <<"forward", h>> \/ tr = <<"reverse", h>>
  BY DEF Transfers
<1> DEFINE x == HexText[h]
<1>2. x \in HashText
  BY SpellingsDiffer
<1>3. CASE tr = <<"forward", h>>
  <2>1. /\ Source(tr) = locks[h].state /\ Source(tr)' = locks'[h].state
        /\ Minted(tr) <=> htlcLocks[x].state = "Claimed"
        /\ Minted(tr)' <=> htlcLocks'[x].state = "Claimed"
        /\ AmountIn(tr) = locks[h].amount /\ AmountIn(tr)' = locks'[h].amount
    BY <1>3 DEF Source, Minted, AmountIn, HashIn
  <2>2. locks[h].state \in {"EMPTY", "LOCKED", "CLAIMED", "REFUNDED"}
    BY DEF Agreement, Shapes, LockShape
  <2>3. locks'[h] = locks[h] \/ LockMoves(h)
    BY DEF EvmMove, CosmosMove, ClockMove, Still
  <2>4. htlcLocks'[x] = htlcLocks[x] \/ InboundMoves(x)
    BY <1>2 DEF EvmMove, CosmosMove, ClockMove, Still
  <2>5. /\ htlcLocks[x].state = "Claimed" => locks[h].state \in {"LOCKED", "CLAIMED"}
        /\ htlcLocks'[x].state = "Claimed" => locks'[h].state \in {"LOCKED", "CLAIMED"}
    BY DEF MintsHoldTheirSource
  <2>6. /\ \/ locks'[h].state = locks[h].state
           \/ locks[h].state = "EMPTY" /\ locks'[h].state = "LOCKED"
           \/ locks[h].state = "LOCKED" /\ locks'[h].state \in {"CLAIMED", "REFUNDED"}
        /\ locks[h].state # "EMPTY" => locks'[h].amount = locks[h].amount
    BY <2>3 DEF LockMoves, SameTerms
  <2>7. htlcLocks[x].state = "Claimed" => htlcLocks'[x].state = "Claimed"
    BY <2>4 DEF InboundMoves
  <2>8. htlcLocks[x].state # "Claimed" /\ htlcLocks'[x].state = "Claimed"
            => locks'[h].state = locks[h].state
    BY ClaimsBeforeRefund
  <2> QED
    BY <2>1, <2>2, <2>5, <2>6, <2>7, <2>8
<1>4. CASE tr = <<"reverse", h>>
  <2>1. /\ outboundLocks[x].state \in {"None", "Locked", "Claimed", "Refunded"}
        /\ outboundLocks'[x].state \in {"None", "Locked", "Claimed", "Refunded"}
    BY <1>2 DEF Agreement, Shapes, OutboundShape
  <2>2. /\ outboundLocks[x].state = "None" <=> Source(tr) = "EMPTY"
        /\ outboundLocks[x].state = "Locked" <=> Source(tr) = "LOCKED"
        /\ outboundLocks[x].state = "Claimed" <=> Source(tr) = "CLAIMED"
        /\ outboundLocks[x].state = "Refunded" <=> Source(tr) = "REFUNDED"
    BY <1>4, <2>1 DEF Source, HashIn
  <2>3. /\ outboundLocks'[x].state = "None" <=> Source(tr)' = "EMPTY"
        /\ outboundLocks'[x].state = "Locked" <=> Source(tr)' = "LOCKED"
        /\ outboundLocks'[x].state = "Claimed" <=> Source(tr)' = "CLAIMED"
        /\ outboundLocks'[x].state = "Refunded" <=> Source(tr)' = "REFUNDED"
    BY <1>4, <2>1 DEF Source, HashIn
  <2>4. /\ Minted(tr) <=> pendingMints[h].state = "MINTED"
        /\ Minted(tr)' <=> pendingMints'[h].state = "MINTED"
        /\ AmountIn(tr) = outboundLocks[x].amount /\ AmountIn(tr)' = outboundLocks'[x].amount
    BY <1>4 DEF Minted, AmountIn, HashIn
  <2>5. outboundLocks'[x] = outboundLocks[x] \/ OutboundMoves(x)
    BY <1>2 DEF EvmMove, CosmosMove, ClockMove, Still
  <2>6. pendingMints'[h] = pendingMints[h] \/ MintMoves(h)
    BY DEF EvmMove, CosmosMove, ClockMove, Still
  <2>7. /\ pendingMints[h].state = "MINTED" => outboundLocks[x].state \in {"Locked", "Claimed"}
        /\ pendingMints'[h].state = "MINTED" => outboundLocks'[x].state \in {"Locked", "Claimed"}
    BY DEF MintsHoldTheirSource
  <2>8. /\ \/ outboundLocks'[x].state = outboundLocks[x].state
           \/ outboundLocks[x].state = "None" /\ outboundLocks'[x].state = "Locked"
           \/ /\ outboundLocks[x].state = "Locked"
              /\ outboundLocks'[x].state \in {"Claimed", "Refunded"}
        /\ outboundLocks[x].state # "None" => outboundLocks'[x].amount = outboundLocks[x].amount
    BY <2>5 DEF OutboundMoves, SameOutboundTerms
  <2>9. pendingMints[h].state = "MINTED" => pendingMints'[h].state = "MINTED"
    BY <2>6 DEF MintMoves
  <2>10. pendingMints[h].state # "MINTED" /\ pendingMints'[h].state = "MINTED"
            => outboundLocks'[x].state = outboundLocks[x].state
    BY ClaimsBeforeRefund
  <2>11. Source(tr) \in {"EMPTY", "LOCKED", "CLAIMED", "REFUNDED"}
    BY <2>1, <2>2
  <2> QED
    BY <2>1, <2>2, <2>3, <2>4, <2>7, <2>8, <2>9, <2>10, <2>11
<1> QED
  BY <1>1, <1>3, <1>4

\* Every step takes every transfer along the edges of AtomicTransfer, and changes no
\* amount in escrow: the two contracts, two clocks and GMP implement its phases.
THEOREM PhasesFollow ==
    ASSUME OneSpelling, Monitored
    PROVE  CrossSpec => [][\A tr \in Transfers : FollowsEdges(tr)]_crossVars
<1>1. ASSUME Agreement, MintsHoldTheirSource, Agreement', MintsHoldTheirSource',
             [CrossNext]_crossVars, NEW tr \in Transfers
      PROVE  FollowsEdges(tr)
  <2>1. /\ Source(tr) \in {"EMPTY", "LOCKED", "CLAIMED", "REFUNDED"}
        /\ \/ Source(tr)' = Source(tr)
           \/ Source(tr) = "EMPTY" /\ Source(tr)' = "LOCKED"
           \/ Source(tr) = "LOCKED" /\ Source(tr)' \in {"CLAIMED", "REFUNDED"}
        /\ Minted(tr) => Minted(tr)' /\ Source(tr) \in {"LOCKED", "CLAIMED"}
        /\ Minted(tr)' => Source(tr)' \in {"LOCKED", "CLAIMED"}
        /\ ~Minted(tr) /\ Minted(tr)' => Source(tr)' = Source(tr)
        /\ Source(tr) # "EMPTY" => AmountIn(tr)' = AmountIn(tr)
    BY <1>1, EveryStepMoves, EndsMove
  <2>2. CASE Source(tr) = "EMPTY"
    BY <2>1, <2>2 DEF FollowsEdges, Phase, Edges
  <2>3. CASE Source(tr) = "LOCKED"
    BY <2>1, <2>3 DEF FollowsEdges, Phase, Edges
  <2>4. CASE Source(tr) = "CLAIMED"
    BY <2>1, <2>4 DEF FollowsEdges, Phase, Edges
  <2>5. CASE Source(tr) = "REFUNDED"
    BY <2>1, <2>5 DEF FollowsEdges, Phase, Edges
  <2> QED
    BY <2>1, <2>2, <2>3, <2>4, <2>5
<1>2. Agreement /\ MintsHoldTheirSource /\ Agreement' /\ MintsHoldTheirSource'
        /\ [CrossNext]_crossVars => [\A tr \in Transfers : FollowsEdges(tr)]_crossVars
  BY <1>1
<1> QED
  BY <1>2, MintsBehindSources, EndsAgree, PTL DEF CrossSpec

----------------------------------------------------------------------------
(* The units on both chains.  One class is mirrored, so all units are of it. *)

OneClass == DecimalText[1]
EvmUnits == SumFunctionOnSet(balances[1], Address \ {This})
CosmosUnits == SumFunctionOnSet(cosmosBalances[OneClass], CosmosAccount)

OnlyOneClass ==
    /\ balances \in Holdings
    /\ \A t \in TokenId, a \in Address : t # 1 => balances[t][a] = 0
    /\ \A t \in TokenId : tokenToIndicator[t] # ZeroIndicator => t = 1
    /\ bridge = This
    /\ cosmosBalances \in [ClassId -> [CosmosAccount -> Nat]]
    /\ \A c \in ClassId : classes[c] # EmptyString => c = OneClass

\* What the records hold is units of that class, owed to somebody who can spend them.
LockOwed(l) == l.state # "EMPTY" =>
    /\ l.sender \in Address \ {This} /\ l.cosmosRecipient \in CosmosAccount
    /\ l.tokenId = 1 /\ l.amount \in Nat \ {0}
MintOwed(pm) == pm.state # "EMPTY" =>
    pm.recipient \in Address \ {This} /\ pm.tokenId = 1 /\ pm.amount \in Nat \ {0}
InboundOwed(l) == l.state # "None" =>
    l.recipient \in CosmosAccount /\ l.class = OneClass /\ l.amount \in Nat \ {0}
OutboundOwed(l) == l.state # "None" =>
    /\ l.sender \in CosmosAccount /\ l.evmRecipient \in Address \ {This}
    /\ l.class = OneClass /\ l.amount \in Nat \ {0}

Books ==
    /\ OnlyOneClass
    /\ \A h \in Hash : LockOwed(locks[h]) /\ MintOwed(pendingMints[h])
    /\ \A x \in HashText : InboundOwed(htlcLocks[x]) /\ OutboundOwed(outboundLocks[x])

LEMMA HoldersAreFinite ==
    /\ IsFiniteSet(Address \ {This}) /\ IsFiniteSet(CosmosAccount)
    /\ 1 \in TokenId /\ OneClass \in ClassId /\ MaxUint256 \in Nat /\ This \in Address
<1>1. IsFiniteSet(Address) /\ This \in Address /\ MaxTokenId \in Nat /\ MaxTokenId > 0
      /\ MaxUint256 \in Nat
  BY TokenAssumption, BridgeAssumption
<1>2. IsFiniteSet(CosmosAccount)
  BY CrossAssumption
<1>3. 1 \in TokenId
  BY <1>1 DEF TokenId
<1>4. OneClass \in ClassId
  BY <1>3, CrossAssumption DEF OneClass
<1>5. IsFiniteSet(Address \ {This})
  BY <1>1, FS_RemoveElement
<1> QED BY <1>1, <1>2, <1>3, <1>4, <1>5

LEMMA SpendableIsUnits == Spendable = EvmUnits + CosmosUnits
  BY DEF Spendable, EvmUnits, CosmosUnits, OneClass

LEMMA EvmUnitsMove ==
    ASSUME NEW a \in Address \ {This}, \A b \in Address \ {This} : balances[1][b] \in Int,
           balances'[1][a] \in Int,
           \A b \in (Address \ {This}) \ {a} : balances'[1][b] = balances[1][b]
    PROVE  EvmUnits' = EvmUnits - balances[1][a] + balances'[1][a]
<1>1. \A f, g : (/\ \A b \in Address \ {This} : f[b] \in Int
                 /\ g[a] \in Int /\ \A b \in (Address \ {This}) \ {a} : g[b] = f[b])
            => SumFunctionOnSet(g, Address \ {This})
                    = SumFunctionOnSet(f, Address \ {This}) - f[a] + g[a]
  BY SumChanges, HoldersAreFinite
<1> QED BY <1>1 DEF EvmUnits

LEMMA EvmUnitsStay ==
    ASSUME \A b \in Address \ {This} : balances'[1][b] = balances[1][b]
    PROVE  EvmUnits' = EvmUnits
<1>1. \A f, g : (\A b \in Address \ {This} : g[b] = f[b])
            => SumFunctionOnSet(g, Address \ {This}) = SumFunctionOnSet(f, Address \ {This})
  BY SumsAgree, HoldersAreFinite
<1> QED BY <1>1 DEF EvmUnits

LEMMA CosmosUnitsMove ==
    ASSUME NEW a \in CosmosAccount,
           \A b \in CosmosAccount : cosmosBalances[OneClass][b] \in Int,
           cosmosBalances'[OneClass][a] \in Int,
           \A b \in CosmosAccount \ {a} :
                cosmosBalances'[OneClass][b] = cosmosBalances[OneClass][b]
    PROVE  CosmosUnits' = CosmosUnits - cosmosBalances[OneClass][a] + cosmosBalances'[OneClass][a]
<1>1. \A f, g : (/\ \A b \in CosmosAccount : f[b] \in Int
                 /\ g[a] \in Int /\ \A b \in CosmosAccount \ {a} : g[b] = f[b])
            => SumFunctionOnSet(g, CosmosAccount)
                    = SumFunctionOnSet(f, CosmosAccount) - f[a] + g[a]
  BY SumChanges, HoldersAreFinite
<1> QED BY <1>1 DEF CosmosUnits, OneClass

LEMMA UnitsAreNat ==
    ASSUME OnlyOneClass
    PROVE  /\ EvmUnits \in Nat /\ CosmosUnits \in Nat
           /\ \A a \in Address : balances[1][a] \in Nat
           /\ \A a \in CosmosAccount : cosmosBalances[OneClass][a] \in Nat
           /\ \A a \in Address \ {This} : balances[1][a] <= EvmUnits
           /\ \A a \in CosmosAccount : cosmosBalances[OneClass][a] <= CosmosUnits
<1>1. \A a \in Address : balances[1][a] \in Nat
  BY HoldersAreFinite DEF OnlyOneClass, Holdings
<1>2. \A a \in CosmosAccount : cosmosBalances[OneClass][a] \in Nat
  BY HoldersAreFinite DEF OnlyOneClass
<1>3. \A S, f : IsFiniteSet(S) /\ (\A y \in S : f[y] \in Nat) =>
            SumFunctionOnSet(f, S) \in Nat /\ \A x \in S : f[x] <= SumFunctionOnSet(f, S)
  BY SumIsNat, SumBounds
<1>4. EvmUnits \in Nat /\ \A a \in Address \ {This} : balances[1][a] <= EvmUnits
  BY <1>1, <1>3, HoldersAreFinite DEF EvmUnits
<1>5. CosmosUnits \in Nat /\ \A a \in CosmosAccount : cosmosBalances[OneClass][a] <= CosmosUnits
  BY <1>2, <1>3, HoldersAreFinite DEF CosmosUnits
<1> QED BY <1>1, <1>2, <1>4, <1>5
----------------------------------------------------------------------------
(* How one transfer moves, and the units with it.                            *)

Kept(tr) ==
    /\ Source(tr)' = Source(tr) /\ (Minted(tr)' <=> Minted(tr))
    /\ AmountIn(tr)' = AmountIn(tr)
Only(tr) == \A u \in Transfers \ {tr} : Kept(u)

Opens(tr) ==
    /\ Source(tr) = "EMPTY" /\ Source(tr)' = "LOCKED" /\ (Minted(tr)' <=> Minted(tr))
    /\ AmountIn(tr)' \in 1..Spendable /\ Spendable' = Spendable - AmountIn(tr)'
Burns(tr) ==
    /\ Source(tr) = "LOCKED" /\ Source(tr)' = "CLAIMED" /\ (Minted(tr)' <=> Minted(tr))
    /\ AmountIn(tr)' = AmountIn(tr) /\ Spendable' = Spendable
Returns(tr) ==
    /\ Source(tr) = "LOCKED" /\ Source(tr)' = "REFUNDED" /\ (Minted(tr)' <=> Minted(tr))
    /\ AmountIn(tr)' = AmountIn(tr) /\ Spendable' = Spendable + AmountIn(tr)
Mints(tr) ==
    /\ ~Minted(tr) /\ Minted(tr)' /\ Source(tr)' = Source(tr)
    /\ AmountIn(tr)' = AmountIn(tr) /\ Spendable' = Spendable + AmountIn(tr)

TransferMoves ==
    \/ Spendable' = Spendable /\ \A tr \in Transfers : Kept(tr)
    \/ \E tr \in Transfers : Only(tr) /\ (Opens(tr) \/ Burns(tr) \/ Returns(tr) \/ Mints(tr))

LEMMA OutboundStates ==
    ASSUME Shapes, NEW h \in Hash
    PROVE  outboundLocks[HexText[h]].state \in {"None", "Locked", "Claimed", "Refunded"}
  BY SpellingsDiffer DEF Shapes, OutboundShape

LEMMA ForwardKept ==
    ASSUME NEW g \in Hash, locks'[g].state = locks[g].state, locks'[g].amount = locks[g].amount,
           htlcLocks'[HexText[g]].state = "Claimed" <=> htlcLocks[HexText[g]].state = "Claimed"
    PROVE  Kept(<<"forward", g>>)
  BY DEF Kept, Source, Minted, AmountIn, HashIn

LEMMA ReverseKept ==
    ASSUME Shapes, NEW g \in Hash, outboundLocks'[HexText[g]] = outboundLocks[HexText[g]],
           pendingMints'[g].state = "MINTED" <=> pendingMints[g].state = "MINTED"
    PROVE  Kept(<<"reverse", g>>)
<1> DEFINE tr == <<"reverse", g>>
<1>1. tr[1] # "forward" /\ HashIn(tr) = g
  BY DEF HashIn
<1>2. Source(tr)' = Source(tr)
  BY <1>1, OutboundStates DEF Source
<1>3. Minted(tr)' <=> Minted(tr)
  BY <1>1 DEF Minted
<1>4. AmountIn(tr)' = AmountIn(tr)
  BY <1>1 DEF AmountIn
<1> QED BY <1>2, <1>3, <1>4 DEF Kept

LEMMA OnlyForward ==
    ASSUME Shapes, NEW h \in Hash, \A g \in Hash \ {h} : locks'[g] = locks[g],
           \A x \in HashText \ {HexText[h]} : htlcLocks'[x] = htlcLocks[x],
           UNCHANGED <<outboundLocks, pendingMints>>
    PROVE  Only(<<"forward", h>>)
<1> SUFFICES ASSUME NEW u \in Transfers \ {<<"forward", h>>} PROVE Kept(u)
  BY DEF Only
<1>1. PICK g \in Hash : u = <<"forward", g>> \/ u = <<"reverse", g>>
  BY DEF Transfers
<1>2. CASE u = <<"reverse", g>>
  BY <1>2, ReverseKept
<1>3. CASE u = <<"forward", g>>
  <2>1. g # h /\ HexText[g] \in HashText \ {HexText[h]}
    BY <1>3, SpellingsDiffer
  <2> QED BY <1>3, <2>1, ForwardKept
<1> QED BY <1>1, <1>2, <1>3

LEMMA OnlyReverse ==
    ASSUME Shapes, NEW h \in Hash, \A g \in Hash \ {h} : pendingMints'[g] = pendingMints[g],
           \A x \in HashText \ {HexText[h]} : outboundLocks'[x] = outboundLocks[x],
           UNCHANGED <<locks, htlcLocks>>
    PROVE  Only(<<"reverse", h>>)
<1> SUFFICES ASSUME NEW u \in Transfers \ {<<"reverse", h>>} PROVE Kept(u)
  BY DEF Only
<1>1. PICK g \in Hash : u = <<"forward", g>> \/ u = <<"reverse", g>>
  BY DEF Transfers
<1>2. CASE u = <<"forward", g>>
  BY <1>2, ForwardKept
<1>3. CASE u = <<"reverse", g>>
  <2>1. g # h /\ HexText[g] \in HashText \ {HexText[h]}
    BY <1>3, SpellingsDiffer
  <2> QED BY <1>3, <2>1, ReverseKept
<1> QED BY <1>1, <1>2, <1>3

\* The two ends of a transfer, read from their records before and after a step.
LEMMA ForwardEnds ==
    ASSUME NEW h \in Hash
    PROVE  LET tr == <<"forward", h>> IN
           /\ tr \in Transfers
           /\ Source(tr) = locks[h].state /\ Source(tr)' = locks'[h].state
           /\ Minted(tr) <=> htlcLocks[HexText[h]].state = "Claimed"
           /\ Minted(tr)' <=> htlcLocks'[HexText[h]].state = "Claimed"
           /\ AmountIn(tr) = locks[h].amount /\ AmountIn(tr)' = locks'[h].amount
  BY DEF Source, Minted, AmountIn, HashIn, Transfers

LEMMA ReverseEnds ==
    ASSUME Shapes, NEW h \in Hash
    PROVE  LET tr == <<"reverse", h>>
               x == HexText[h] IN
           /\ tr \in Transfers
           /\ outboundLocks[x].state = "None" => Source(tr) = "EMPTY"
           /\ outboundLocks[x].state = "Locked" => Source(tr) = "LOCKED"
           /\ outboundLocks'[x].state = "Locked" => Source(tr)' = "LOCKED"
           /\ outboundLocks'[x].state = "Claimed" => Source(tr)' = "CLAIMED"
           /\ outboundLocks'[x].state = "Refunded" => Source(tr)' = "REFUNDED"
           /\ outboundLocks'[x] = outboundLocks[x] => Source(tr)' = Source(tr)
           /\ Minted(tr) <=> pendingMints[h].state = "MINTED"
           /\ Minted(tr)' <=> pendingMints'[h].state = "MINTED"
           /\ AmountIn(tr) = outboundLocks[x].amount /\ AmountIn(tr)' = outboundLocks'[x].amount
<1> DEFINE tr == <<"reverse", h>>
           x == HexText[h]
<1>1. tr \in Transfers /\ tr[1] # "forward" /\ HashIn(tr) = h
  BY DEF HashIn, Transfers
<1>2. /\ outboundLocks[x].state = "None" => Source(tr) = "EMPTY"
      /\ outboundLocks[x].state = "Locked" => Source(tr) = "LOCKED"
  BY <1>1 DEF Source
<1>3. /\ outboundLocks'[x].state = "Locked" => Source(tr)' = "LOCKED"
      /\ outboundLocks'[x].state = "Claimed" => Source(tr)' = "CLAIMED"
      /\ outboundLocks'[x].state = "Refunded" => Source(tr)' = "REFUNDED"
  BY <1>1 DEF Source
<1>4. outboundLocks'[x] = outboundLocks[x] => Source(tr)' = Source(tr)
  BY <1>1, OutboundStates DEF Source
<1>5. /\ Minted(tr) <=> pendingMints[h].state = "MINTED"
      /\ Minted(tr)' <=> pendingMints'[h].state = "MINTED"
  BY <1>1 DEF Minted
<1>6. AmountIn(tr) = outboundLocks[x].amount /\ AmountIn(tr)' = outboundLocks'[x].amount
  BY <1>1 DEF AmountIn
<1> QED BY <1>1, <1>2, <1>3, <1>4, <1>5, <1>6

----------------------------------------------------------------------------
(* The EVM transactions.                                                     *)

LEMMA EvmPays ==
    ASSUME OnlyOneClass, NEW a \in Address \ {This}, NEW d \in Int,
           balances'[1][a] = balances[1][a] + d,
           \A b \in (Address \ {This}) \ {a} : balances'[1][b] = balances[1][b],
           UNCHANGED cosmosBalances
    PROVE  Spendable' = Spendable + d
<1>1. /\ \A b \in Address : balances[1][b] \in Nat
      /\ EvmUnits \in Nat /\ CosmosUnits \in Nat
  BY UnitsAreNat
<1>2. EvmUnits' = EvmUnits - balances[1][a] + balances'[1][a]
  BY <1>1, EvmUnitsMove
<1>3. CosmosUnits' = CosmosUnits
  BY DEF CosmosUnits
<1>4. Spendable = EvmUnits + CosmosUnits /\ Spendable' = EvmUnits' + CosmosUnits'
  BY DEF Spendable, EvmUnits, CosmosUnits, OneClass
<1> QED BY <1>1, <1>2, <1>3, <1>4

LEMMA CosmosPays ==
    ASSUME OnlyOneClass, NEW a \in CosmosAccount, NEW d \in Int,
           cosmosBalances'[OneClass][a] = cosmosBalances[OneClass][a] + d,
           \A b \in CosmosAccount \ {a} :
                cosmosBalances'[OneClass][b] = cosmosBalances[OneClass][b],
           UNCHANGED balances
    PROVE  Spendable' = Spendable + d
<1>1. /\ \A b \in CosmosAccount : cosmosBalances[OneClass][b] \in Nat
      /\ EvmUnits \in Nat /\ CosmosUnits \in Nat
  BY UnitsAreNat
<1>2. CosmosUnits' = CosmosUnits - cosmosBalances[OneClass][a] + cosmosBalances'[OneClass][a]
  BY <1>1, CosmosUnitsMove
<1>3. EvmUnits' = EvmUnits
  BY DEF EvmUnits
<1>4. Spendable = EvmUnits + CosmosUnits /\ Spendable' = EvmUnits' + CosmosUnits'
  BY DEF Spendable, EvmUnits, CosmosUnits, OneClass
<1> QED BY <1>1, <1>2, <1>3, <1>4

\* Only one lock changes: the books of the others stay.
LEMMA BooksOfLock ==
    ASSUME Books, OnlyOneClass', NEW h \in Hash, LockOwed(locks'[h]),
           \A g \in Hash \ {h} : locks'[g] = locks[g],
           UNCHANGED <<pendingMints, htlcLocks, outboundLocks>>
    PROVE  Books'
  BY DEF Books

LEMMA EvmOpens ==
    ASSUME Books, Shapes, NEW caller \in Address \ {This}, NEW t \in TokenId,
           NEW amount \in Amount, NEW h \in Hash, NEW timelock,
           NEW recipient \in CosmosAccount, NEW dest, NEW bounty, NEW value,
           LockForBurn(caller, t, amount, h, timelock, recipient, dest, bounty, value),
           UNCHANGED cosmosVars
    PROVE  Books' /\ TransferMoves
<1> DEFINE lock == [state |-> "LOCKED", sender |-> caller, tokenId |-> t, amount |-> amount,
                    timelock |-> timelock, cosmosRecipient |-> recipient,
                    destination |-> dest, bounty |-> bounty]
           tr == <<"forward", h>>
<1>0. /\ UNCHANGED <<pendingMints, tokenToIndicator, bridge>>
      /\ UNCHANGED <<htlcLocks, outboundLocks, classes, cosmosBalances>>
      /\ locks[h].state = "EMPTY" /\ amount > 0 /\ MoveTokens(caller, This, t, amount)
  BY DEF LockForBurn, registryVars, cosmosVars
<1>1. locks'[h] = lock /\ \A g \in Hash \ {h} : locks'[g] = locks[g]
  BY DEF LockForBurn, Shapes
<1>2. amount \in Nat \ {0} /\ This \in Address /\ caller # This
  BY <1>0, TokenAssumption, HoldersAreFinite
<1>3. t = 1 /\ amount <= balances[1][caller]
  BY <1>0, <1>2 DEF MoveTokens, Books, OnlyOneClass
<1>4. \A u \in TokenId, a \in Address :
        balances'[u][a] = IF u # 1 \/ a \notin {caller, This} THEN balances[u][a]
                          ELSE IF a = caller THEN balances[u][a] - amount
                          ELSE balances[u][a] + amount
  BY <1>0, <1>2, <1>3, MoveOfHolding DEF Books, OnlyOneClass
<1>5. balances' \in Holdings
  BY <1>0, <1>2, <1>3, MoveKeepsRange DEF Books, OnlyOneClass
<1>6. OnlyOneClass'
  BY <1>0, <1>2, <1>4, <1>5, HoldersAreFinite DEF Books, OnlyOneClass
<1>7. Spendable' = Spendable + (-amount)
  <2>1. /\ balances'[1][caller] = balances[1][caller] + (-amount)
        /\ \A b \in (Address \ {This}) \ {caller} : balances'[1][b] = balances[1][b]
    BY <1>2, <1>4, HoldersAreFinite, UnitsAreNat DEF Books
  <2>2. -amount \in Int
    BY <1>2
  <2> QED BY <1>0, <2>1, <2>2, EvmPays DEF Books
<1>8. amount \in 1..Spendable /\ Spendable' = Spendable - amount
  <2>1. EvmUnits \in Nat /\ CosmosUnits \in Nat /\ balances[1][caller] <= EvmUnits
        /\ balances[1][caller] \in Nat
    BY UnitsAreNat DEF Books
  <2> QED BY <1>2, <1>3, <1>7, <2>1, SpendableIsUnits
<1>9. LockOwed(locks'[h])
  BY <1>1, <1>2, <1>3 DEF LockOwed
<1>10. Books'
  BY <1>0, <1>1, <1>6, <1>9, BooksOfLock
<1>11. Only(tr)
  BY <1>0, <1>1, OnlyForward
<1>12. Opens(tr) /\ tr \in Transfers
  BY <1>0, <1>1, <1>8, ForwardEnds DEF Opens
<1> QED BY <1>10, <1>11, <1>12 DEF TransferMoves

\* claimBurn by hand, or the callback: the bridge burns what it holds itself.
LEMMA EvmBurns ==
    ASSUME Books, Shapes, NEW h \in Hash, NEW s, NEW payee, BurnEscrow(h, s, payee),
           UNCHANGED cosmosVars
    PROVE  Books' /\ TransferMoves
<1> DEFINE tr == <<"forward", h>>
<1>0. /\ UNCHANGED <<pendingMints, tokenToIndicator, bridge>>
      /\ UNCHANGED <<htlcLocks, outboundLocks, classes, cosmosBalances>>
      /\ locks[h].state = "LOCKED" /\ bridge = This
      /\ BurnOf(This, locks[h].tokenId, locks[h].amount)
  BY DEF BurnEscrow, registryVars, cosmosVars, Books, OnlyOneClass
<1>1. locks'[h] = Settled(locks[h], "CLAIMED") /\ \A g \in Hash \ {h} : locks'[g] = locks[g]
  BY DEF BurnEscrow, Shapes
<1>2. locks[h].amount \in Nat \ {0} /\ locks[h].tokenId = 1 /\ This \in Address
  BY <1>0, HoldersAreFinite DEF Books, LockOwed
<1>3. \A u \in TokenId, a \in Address : balances'[u][a] =
        IF u = 1 /\ a = This THEN balances[u][a] - locks[h].amount ELSE balances[u][a]
  BY <1>0, <1>2, HoldersAreFinite, BurnOfHolding DEF Books, OnlyOneClass
<1>4. balances' \in Holdings
  BY <1>0, <1>2, HoldersAreFinite, BurnKeepsRange DEF Books, OnlyOneClass
<1>5. OnlyOneClass'
  BY <1>0, <1>3, <1>4, HoldersAreFinite DEF Books, OnlyOneClass
<1>6. Spendable' = Spendable
  <2>1. EvmUnits' = EvmUnits
    BY <1>3, HoldersAreFinite, EvmUnitsStay
  <2> QED BY <1>0, <2>1 DEF Spendable, EvmUnits
<1>7. /\ locks'[h].state = "CLAIMED" /\ SameTerms(locks'[h], locks[h])
      /\ locks'[h].sender = locks[h].sender
  BY <1>1 DEF Settled, SameTerms, Shapes, LockShape
<1>8. Books'
  <2>1. LockOwed(locks'[h])
    BY <1>0, <1>7 DEF LockOwed, SameTerms, Books
  <2> QED BY <1>0, <1>1, <1>5, <2>1, BooksOfLock
<1>9. Only(tr)
  BY <1>0, <1>1, OnlyForward
<1>10. Burns(tr) /\ tr \in Transfers
  BY <1>0, <1>6, <1>7, ForwardEnds DEF Burns, SameTerms
<1> QED BY <1>8, <1>9, <1>10 DEF TransferMoves

LEMMA EvmReturns ==
    ASSUME Books, Shapes, NEW h \in Hash, RefundBurn(locks[h].sender, h),
           UNCHANGED cosmosVars
    PROVE  Books' /\ TransferMoves
<1> DEFINE tr == <<"forward", h>>
           sender == locks[h].sender
<1>0. /\ UNCHANGED <<pendingMints, tokenToIndicator, bridge>>
      /\ UNCHANGED <<htlcLocks, outboundLocks, classes, cosmosBalances>>
      /\ locks[h].state = "LOCKED"
      /\ MoveTokens(This, sender, locks[h].tokenId, locks[h].amount)
  BY DEF RefundBurn, registryVars, cosmosVars
<1>1. locks'[h] = Settled(locks[h], "REFUNDED") /\ \A g \in Hash \ {h} : locks'[g] = locks[g]
  BY DEF RefundBurn, Shapes
<1>2. /\ locks[h].amount \in Nat \ {0} /\ locks[h].tokenId = 1
      /\ This \in Address /\ sender \in Address \ {This}
  BY <1>0, HoldersAreFinite DEF Books, LockOwed
<1>3. \A u \in TokenId, a \in Address :
        balances'[u][a] = IF u # 1 \/ a \notin {sender, This} THEN balances[u][a]
                          ELSE IF a = This THEN balances[u][a] - locks[h].amount
                          ELSE balances[u][a] + locks[h].amount
  BY <1>0, <1>2, HoldersAreFinite, MoveOfHolding DEF Books, OnlyOneClass
<1>4. balances' \in Holdings
  BY <1>0, <1>2, HoldersAreFinite, MoveKeepsRange DEF Books, OnlyOneClass
<1>5. OnlyOneClass'
  BY <1>0, <1>3, <1>4, HoldersAreFinite DEF Books, OnlyOneClass
<1>6. Spendable' = Spendable + locks[h].amount
  <2>1. /\ balances'[1][sender] = balances[1][sender] + locks[h].amount
        /\ \A b \in (Address \ {This}) \ {sender} : balances'[1][b] = balances[1][b]
    BY <1>2, <1>3, HoldersAreFinite
  <2>2. locks[h].amount \in Int
    BY <1>2
  <2> QED BY <1>0, <1>2, <2>1, <2>2, EvmPays DEF Books
<1>7. /\ locks'[h].state = "REFUNDED" /\ SameTerms(locks'[h], locks[h])
      /\ locks'[h].sender = locks[h].sender
  BY <1>1 DEF Settled, SameTerms, Shapes, LockShape
<1>8. Books'
  <2>1. LockOwed(locks'[h])
    BY <1>0, <1>7 DEF LockOwed, SameTerms, Books
  <2> QED BY <1>0, <1>1, <1>5, <2>1, BooksOfLock
<1>9. Only(tr)
  BY <1>0, <1>1, OnlyForward
<1>10. Returns(tr) /\ tr \in Transfers
  BY <1>0, <1>6, <1>7, ForwardEnds DEF Returns, SameTerms
<1> QED BY <1>8, <1>9, <1>10 DEF TransferMoves

\* Only one pending mint changes.
LEMMA BooksOfMint ==
    ASSUME Books, OnlyOneClass', NEW h \in Hash, MintOwed(pendingMints'[h]),
           \A g \in Hash \ {h} : pendingMints'[g] = pendingMints[g],
           UNCHANGED <<locks, htlcLocks, outboundLocks>>
    PROVE  Books'
  BY DEF Books

LEMMA EvmMints ==
    ASSUME Books, Agreement, NEW h \in Hash, NEW s, NEW value, ClaimMint(h, s, value),
           UNCHANGED cosmosVars
    PROVE  Books' /\ TransferMoves
<1> DEFINE tr == <<"reverse", h>>
           pm == pendingMints[h]
<1>0. /\ UNCHANGED <<locks, tokenToIndicator, bridge>>
      /\ UNCHANGED <<htlcLocks, outboundLocks, classes, cosmosBalances>>
      /\ pm.state = "PENDING" /\ MintTo(pm.recipient, pm.tokenId, pm.amount)
  BY DEF ClaimMint, Mint, registryVars, cosmosVars
<1>s. Shapes
  BY DEF Agreement
<1>1. /\ pendingMints'[h] = Decided(pm, "MINTED")
      /\ \A g \in Hash \ {h} : pendingMints'[g] = pendingMints[g]
  BY <1>s DEF ClaimMint, Shapes
<1>2. pm.amount \in Nat \ {0} /\ pm.tokenId = 1 /\ pm.recipient \in Address \ {This}
  BY <1>0 DEF Books, MintOwed
<1>3. \A u \in TokenId, a \in Address : balances'[u][a] =
        IF u = 1 /\ a = pm.recipient THEN balances[u][a] + pm.amount ELSE balances[u][a]
  BY <1>0, <1>2, HoldersAreFinite, MintOfHolding DEF Books, OnlyOneClass
<1>4. balances' \in Holdings
  BY <1>0, <1>2, HoldersAreFinite, MintKeepsRange DEF Books, OnlyOneClass
<1>5. OnlyOneClass'
  BY <1>0, <1>3, <1>4, HoldersAreFinite DEF Books, OnlyOneClass
<1>6. Spendable' = Spendable + pm.amount
  <2>1. /\ balances'[1][pm.recipient] = balances[1][pm.recipient] + pm.amount
        /\ \A b \in (Address \ {This}) \ {pm.recipient} : balances'[1][b] = balances[1][b]
    BY <1>2, <1>3, HoldersAreFinite
  <2>2. pm.amount \in Int
    BY <1>2
  <2> QED BY <1>0, <1>2, <2>1, <2>2, EvmPays DEF Books
<1>7. /\ pendingMints'[h].state = "MINTED"
      /\ pendingMints'[h].recipient = pm.recipient /\ pendingMints'[h].tokenId = pm.tokenId
      /\ pendingMints'[h].amount = pm.amount
  BY <1>1, <1>s DEF Decided, Shapes, MintShape
<1>8. Books'
  <2>1. MintOwed(pendingMints'[h])
    BY <1>0, <1>2, <1>7 DEF MintOwed
  <2> QED BY <1>0, <1>1, <1>5, <2>1, BooksOfMint
<1>9. Only(tr)
  BY <1>0, <1>1, <1>s, OnlyReverse
<1>10. pm.amount = outboundLocks[HexText[h]].amount
  BY <1>0 DEF Agreement, ReverseAgrees
<1>11. Mints(tr) /\ tr \in Transfers
  BY <1>0, <1>s, <1>6, <1>7, <1>10, ReverseEnds DEF Mints
<1> QED BY <1>8, <1>9, <1>11 DEF TransferMoves

\* A pending mint that is prepared or expires moves no units.
LEMMA EvmMintIdles ==
    ASSUME Books, Shapes, NEW h \in Hash, MintOwed(pendingMints'[h]),
           pendingMints[h].state # "MINTED", pendingMints'[h].state # "MINTED",
           \A g \in Hash \ {h} : pendingMints'[g] = pendingMints[g],
           UNCHANGED <<locks, tokenVars>>, UNCHANGED cosmosVars
    PROVE  Books' /\ TransferMoves
<1>1. UNCHANGED <<locks, balances, tokenToIndicator, bridge, htlcLocks, outboundLocks, classes,
                  cosmosBalances>>
  BY DEF tokenVars, registryVars, cosmosVars
<1>2. Books'
  BY <1>1, BooksOfMint DEF Books, OnlyOneClass
<1>3. Spendable' = Spendable
  BY <1>1 DEF Spendable
<1>4. ASSUME NEW u \in Transfers PROVE Kept(u)
  <2>1. PICK g \in Hash : u = <<"forward", g>> \/ u = <<"reverse", g>>
    BY DEF Transfers
  <2>2. pendingMints'[g].state = "MINTED" <=> pendingMints[g].state = "MINTED"
    OBVIOUS
  <2> QED BY <1>1, <2>1, <2>2, ForwardKept, ReverseKept
<1> QED BY <1>2, <1>3, <1>4 DEF TransferMoves

----------------------------------------------------------------------------
(* The Cosmos messages.                                                      *)

EvmBooks == <<balances, tokenToIndicator, bridge, locks, pendingMints>>

LEMMA EvmStays == ASSUME UNCHANGED evmVars PROVE UNCHANGED EvmBooks
  BY DEF evmVars, tokenVars, registryVars, bridgeVars, EvmBooks

\* Only one outbound lock, or one inbound lock, changes.
LEMMA BooksOfOutbound ==
    ASSUME Books, OnlyOneClass', NEW x \in HashText, OutboundOwed(outboundLocks'[x]),
           \A y \in HashText \ {x} : outboundLocks'[y] = outboundLocks[y],
           UNCHANGED <<locks, pendingMints, htlcLocks>>
    PROVE  Books'
  BY DEF Books

LEMMA BooksOfInbound ==
    ASSUME Books, OnlyOneClass', NEW x \in HashText, InboundOwed(htlcLocks'[x]),
           \A y \in HashText \ {x} : htlcLocks'[y] = htlcLocks[y],
           UNCHANGED <<locks, pendingMints, outboundLocks>>
    PROVE  Books'
  BY DEF Books

\* Cosmos balances change in one account of the one class.
LEMMA CosmosKeepsClass ==
    ASSUME OnlyOneClass, UNCHANGED <<balances, tokenToIndicator, bridge, classes>>,
           NEW a \in CosmosAccount, NEW n \in Nat,
           cosmosBalances' = [cosmosBalances EXCEPT ![OneClass][a] = n]
    PROVE  /\ OnlyOneClass'
           /\ cosmosBalances'[OneClass][a] = n
           /\ \A b \in CosmosAccount \ {a} :
                cosmosBalances'[OneClass][b] = cosmosBalances[OneClass][b]
<1>1. cosmosBalances[OneClass] \in [CosmosAccount -> Nat] /\ OneClass \in ClassId
  BY HoldersAreFinite DEF OnlyOneClass
<1>2. cosmosBalances'[OneClass] = [cosmosBalances[OneClass] EXCEPT ![a] = n]
  BY <1>1 DEF OnlyOneClass
<1>3. cosmosBalances' \in [ClassId -> [CosmosAccount -> Nat]]
  BY <1>1 DEF OnlyOneClass
<1>4. OnlyOneClass'
  BY <1>3 DEF OnlyOneClass, OneClass
<1> QED BY <1>1, <1>2, <1>4

LEMMA CosmosOpens ==
    ASSUME OneSpelling, Books, Shapes, NEW sender \in CosmosAccount, NEW c \in ClassId,
           NEW amount \in CosmosAmount, NEW x \in HashText, NEW timelock,
           NEW evmRecipient \in Address \ {This}, NEW dest, NEW bounty, NEW untrn, NEW relay,
           Cosmos!LockForBurn(sender, c, amount, x, timelock, evmRecipient, dest, bounty,
                              untrn, relay),
           UNCHANGED evmVars
    PROVE  Books' /\ TransferMoves
<1> DEFINE lock == [state |-> "Locked", sender |-> sender, class |-> c, amount |-> amount,
                    evmRecipient |-> evmRecipient, destination |-> dest,
                    timelock |-> timelock, bounty |-> bounty, secret |-> NoSecret]
           h == HashOfText[x]
           tr == <<"reverse", h>>
<1>0. /\ UNCHANGED EvmBooks /\ UNCHANGED <<htlcLocks, classes>>
      /\ outboundLocks[x].state = "None" /\ amount > 0 /\ classes[c] # EmptyString
      /\ cosmosBalances[c][sender] >= amount
      /\ cosmosBalances' = [cosmosBalances EXCEPT ![c][sender] = @ - amount]
  BY EvmStays DEF Cosmos!LockForBurn, Cosmos!Outbound, Cosmos!registryVarsC
<1>h. h \in Hash /\ HexText[h] = x
  BY DEF OneSpelling
<1>1. outboundLocks'[x] = lock /\ \A y \in HashText \ {x} : outboundLocks'[y] = outboundLocks[y]
  BY DEF Cosmos!LockForBurn, Shapes
<1>2. amount \in Nat \ {0}
  BY <1>0, CrossAssumption
<1>3. c = OneClass
  BY <1>0 DEF Books, OnlyOneClass
<1> HIDE DEF h
<1>4. /\ EvmUnits \in Nat /\ CosmosUnits \in Nat
      /\ cosmosBalances[OneClass][sender] \in Nat
      /\ cosmosBalances[OneClass][sender] <= CosmosUnits
  BY UnitsAreNat DEF Books
<1>5. cosmosBalances' =
        [cosmosBalances EXCEPT ![OneClass][sender] = cosmosBalances[OneClass][sender] - amount]
  BY <1>0, <1>3
<1>6. cosmosBalances[OneClass][sender] - amount \in Nat
  BY <1>0, <1>2, <1>3, <1>4
<1>7. /\ OnlyOneClass'
      /\ cosmosBalances'[OneClass][sender] = cosmosBalances[OneClass][sender] - amount
      /\ \A b \in CosmosAccount \ {sender} :
            cosmosBalances'[OneClass][b] = cosmosBalances[OneClass][b]
  <2>1. OnlyOneClass /\ UNCHANGED <<balances, tokenToIndicator, bridge, classes>>
    BY <1>0 DEF Books, EvmBooks
  <2> QED BY <1>5, <1>6, <2>1, CosmosKeepsClass
<1>8. Spendable' = Spendable + (-amount)
  <2>1. -amount \in Int
        /\ cosmosBalances'[OneClass][sender] = cosmosBalances[OneClass][sender] + (-amount)
    BY <1>2, <1>4, <1>7
  <2>2. OnlyOneClass /\ UNCHANGED balances
    BY <1>0 DEF Books, EvmBooks
  <2> QED BY <1>7, <2>1, <2>2, CosmosPays
<1>9. amount \in 1..Spendable /\ Spendable' = Spendable - amount
  BY <1>0, <1>2, <1>3, <1>4, <1>8, SpendableIsUnits
<1>10. Books'
  <2>1. OutboundOwed(outboundLocks'[x])
    BY <1>1, <1>2, <1>3 DEF OutboundOwed
  <2> QED BY <1>0, <1>1, <1>7, <2>1, BooksOfOutbound DEF EvmBooks
<1>11. Only(tr)
  BY <1>0, <1>1, <1>h, OnlyReverse DEF EvmBooks
<1>12. Opens(tr) /\ tr \in Transfers
  <2>1. outboundLocks'[x].state = "Locked" /\ outboundLocks'[x].amount = amount
        /\ UNCHANGED pendingMints
    BY <1>0, <1>1 DEF EvmBooks
  <2> QED BY <1>0, <1>9, <1>h, <2>1, ReverseEnds DEF Opens
<1> QED BY <1>10, <1>11, <1>12 DEF TransferMoves

\* claim_burn by hand or through the gateway: the escrow, no balance, goes.
LEMMA CosmosBurns ==
    ASSUME OneSpelling, Books, Shapes, NEW caller, NEW h \in Hash, NEW s,
           Cosmos!ClaimBurn(caller, HexText[h], s), UNCHANGED evmVars
    PROVE  Books' /\ TransferMoves
<1> DEFINE x == HexText[h]
           tr == <<"reverse", h>>
           lock == outboundLocks[x]
<1>0. /\ UNCHANGED EvmBooks /\ UNCHANGED <<htlcLocks, classes, cosmosBalances>>
      /\ lock.state = "Locked" /\ x \in HashText
  BY EvmStays, SpellingsDiffer DEF Cosmos!ClaimBurn, Cosmos!registryVarsC
<1>1. /\ outboundLocks'[x] = [lock EXCEPT !.state = "Claimed", !.secret = s, !.bounty = 0]
      /\ \A y \in HashText \ {x} : outboundLocks'[y] = outboundLocks[y]
  BY <1>0 DEF Cosmos!ClaimBurn, Shapes
<1>2. /\ outboundLocks'[x].state = "Claimed" /\ SameOutboundTerms(outboundLocks'[x], lock)
      /\ outboundLocks'[x].sender = lock.sender
  BY <1>0, <1>1 DEF SameOutboundTerms, Shapes, OutboundShape
<1> HIDE DEF x
<1>3. OnlyOneClass' /\ Spendable' = Spendable
  BY <1>0 DEF Books, OnlyOneClass, OneClass, Spendable, EvmBooks
<1>4. Books'
  <2>1. OutboundOwed(outboundLocks'[x])
    BY <1>0, <1>2 DEF OutboundOwed, SameOutboundTerms, Books
  <2> QED BY <1>0, <1>1, <1>3, <2>1, BooksOfOutbound DEF EvmBooks
<1>5. Only(tr)
  BY <1>0, <1>1, OnlyReverse DEF EvmBooks, x
<1>6. Burns(tr) /\ tr \in Transfers
  <2>1. UNCHANGED pendingMints /\ outboundLocks'[x].amount = lock.amount
    BY <1>0, <1>2 DEF EvmBooks, SameOutboundTerms
  <2> QED BY <1>0, <1>2, <1>3, <2>1, ReverseEnds DEF Burns, x
<1> QED BY <1>4, <1>5, <1>6 DEF TransferMoves

LEMMA CosmosReturns ==
    ASSUME OneSpelling, Books, Shapes, NEW h \in Hash,
           Cosmos!RefundBurn(outboundLocks[HexText[h]].sender, HexText[h]), UNCHANGED evmVars
    PROVE  Books' /\ TransferMoves
<1> DEFINE x == HexText[h]
           tr == <<"reverse", h>>
           lock == outboundLocks[x]
<1>0. /\ UNCHANGED EvmBooks /\ UNCHANGED <<htlcLocks, classes>>
      /\ lock.state = "Locked" /\ x \in HashText
      /\ cosmosBalances' = [cosmosBalances EXCEPT ![lock.class][lock.sender] = @ + lock.amount]
  BY EvmStays, SpellingsDiffer DEF Cosmos!RefundBurn, Cosmos!registryVarsC
<1>1. /\ outboundLocks'[x] = [lock EXCEPT !.state = "Refunded", !.bounty = 0]
      /\ \A y \in HashText \ {x} : outboundLocks'[y] = outboundLocks[y]
  BY <1>0 DEF Cosmos!RefundBurn, Shapes
<1>2. /\ outboundLocks'[x].state = "Refunded" /\ SameOutboundTerms(outboundLocks'[x], lock)
      /\ outboundLocks'[x].sender = lock.sender
  BY <1>0, <1>1 DEF SameOutboundTerms, Shapes, OutboundShape
<1> HIDE DEF x
<1>3. lock.sender \in CosmosAccount /\ lock.class = OneClass /\ lock.amount \in Nat \ {0}
  BY <1>0 DEF Books, OutboundOwed
<1>4. /\ OnlyOneClass'
      /\ cosmosBalances'[OneClass][lock.sender]
            = cosmosBalances[OneClass][lock.sender] + lock.amount
      /\ \A b \in CosmosAccount \ {lock.sender} :
            cosmosBalances'[OneClass][b] = cosmosBalances[OneClass][b]
  <2>1. OnlyOneClass /\ UNCHANGED <<balances, tokenToIndicator, bridge, classes>>
    BY <1>0 DEF Books, EvmBooks
  <2>2. cosmosBalances[OneClass][lock.sender] \in Nat
    BY <1>3, <2>1, UnitsAreNat
  <2>3. cosmosBalances[OneClass][lock.sender] + lock.amount \in Nat
    BY <1>3, <2>2
  <2>4. cosmosBalances' = [cosmosBalances EXCEPT ![OneClass][lock.sender]
                                = cosmosBalances[OneClass][lock.sender] + lock.amount]
    BY <1>0, <1>3
  <2> QED BY <1>3, <2>1, <2>3, <2>4, CosmosKeepsClass
<1>5. Spendable' = Spendable + lock.amount
  <2>1. lock.amount \in Int /\ OnlyOneClass /\ UNCHANGED balances
    BY <1>0, <1>3 DEF Books, EvmBooks
  <2> QED BY <1>3, <1>4, <2>1, CosmosPays
<1>6. Books'
  <2>1. OutboundOwed(outboundLocks'[x])
    BY <1>0, <1>2 DEF OutboundOwed, SameOutboundTerms, Books
  <2> QED BY <1>0, <1>1, <1>4, <2>1, BooksOfOutbound DEF EvmBooks
<1>7. Only(tr)
  BY <1>0, <1>1, OnlyReverse DEF EvmBooks, x
<1>8. Returns(tr) /\ tr \in Transfers
  <2>1. UNCHANGED pendingMints /\ outboundLocks'[x].amount = lock.amount
    BY <1>0, <1>2 DEF EvmBooks, SameOutboundTerms
  <2> QED BY <1>0, <1>2, <1>5, <2>1, ReverseEnds DEF Returns, x
<1> QED BY <1>6, <1>7, <1>8 DEF TransferMoves

LEMMA CosmosMints ==
    ASSUME OneSpelling, Books, Agreement, NEW x \in HashText, NEW s, NEW untrn, NEW relay,
           Cosmos!ClaimMint(x, s, untrn, relay), UNCHANGED evmVars
    PROVE  Books' /\ TransferMoves
<1> DEFINE h == HashOfText[x]
           tr == <<"forward", h>>
           htlc == htlcLocks[x]
<1>s. Shapes
  BY DEF Agreement
<1>0. /\ UNCHANGED EvmBooks /\ UNCHANGED <<outboundLocks, classes>>
      /\ htlc.state = "Pending"
      /\ cosmosBalances' = [cosmosBalances EXCEPT ![htlc.class][htlc.recipient] = @ + htlc.amount]
  BY EvmStays DEF Cosmos!ClaimMint, Cosmos!registryVarsC
<1>h. h \in Hash /\ HexText[h] = x
  BY DEF OneSpelling
<1>1. /\ htlcLocks'[x] = [htlc EXCEPT !.state = "Claimed", !.secret = s]
      /\ \A y \in HashText \ {x} : htlcLocks'[y] = htlcLocks[y]
  BY <1>s DEF Cosmos!ClaimMint, Shapes
<1>2. /\ htlcLocks'[x].state = "Claimed" /\ SameInboundTerms(htlcLocks'[x], htlc)
  BY <1>1, <1>s DEF SameInboundTerms, Shapes, InboundShape
<1> HIDE DEF h
<1>3. htlc.recipient \in CosmosAccount /\ htlc.class = OneClass /\ htlc.amount \in Nat \ {0}
  BY <1>0 DEF Books, InboundOwed
<1>4. /\ OnlyOneClass'
      /\ cosmosBalances'[OneClass][htlc.recipient]
            = cosmosBalances[OneClass][htlc.recipient] + htlc.amount
      /\ \A b \in CosmosAccount \ {htlc.recipient} :
            cosmosBalances'[OneClass][b] = cosmosBalances[OneClass][b]
  <2>1. OnlyOneClass /\ UNCHANGED <<balances, tokenToIndicator, bridge, classes>>
    BY <1>0 DEF Books, EvmBooks
  <2>2. cosmosBalances[OneClass][htlc.recipient] \in Nat
    BY <1>3, <2>1, UnitsAreNat
  <2>3. cosmosBalances[OneClass][htlc.recipient] + htlc.amount \in Nat
    BY <1>3, <2>2
  <2>4. cosmosBalances' = [cosmosBalances EXCEPT ![OneClass][htlc.recipient]
                                = cosmosBalances[OneClass][htlc.recipient] + htlc.amount]
    BY <1>0, <1>3
  <2> QED BY <1>3, <2>1, <2>3, <2>4, CosmosKeepsClass
<1>5. Spendable' = Spendable + htlc.amount
  <2>1. htlc.amount \in Int /\ OnlyOneClass /\ UNCHANGED balances
    BY <1>0, <1>3 DEF Books, EvmBooks
  <2> QED BY <1>3, <1>4, <2>1, CosmosPays
<1>6. Books'
  <2>1. InboundOwed(htlcLocks'[x])
    BY <1>0, <1>2, <1>3 DEF InboundOwed, SameInboundTerms
  <2> QED BY <1>0, <1>1, <1>4, <2>1, BooksOfInbound DEF EvmBooks
<1>7. Only(tr)
  BY <1>0, <1>1, <1>h, <1>s, OnlyForward DEF EvmBooks
<1>8. htlc.amount = locks[h].amount /\ locks' = locks
  BY <1>0, <1>h DEF Agreement, ForwardAgrees, EvmBooks
<1>9. Mints(tr) /\ tr \in Transfers
  BY <1>0, <1>2, <1>5, <1>8, <1>h, ForwardEnds DEF Mints
<1> QED BY <1>6, <1>7, <1>9 DEF TransferMoves

\* A mint prepared or expired, and whatever leaves records and balances alone.
LEMMA CosmosMintIdles ==
    ASSUME OneSpelling, Books, Shapes, NEW x \in HashText, InboundOwed(htlcLocks'[x]),
           htlcLocks[x].state # "Claimed", htlcLocks'[x].state # "Claimed",
           \A y \in HashText \ {x} : htlcLocks'[y] = htlcLocks[y],
           UNCHANGED EvmBooks, UNCHANGED <<outboundLocks, classes, cosmosBalances>>
    PROVE  Books' /\ TransferMoves
<1>1. Books'
  BY BooksOfInbound DEF Books, OnlyOneClass, OneClass, EvmBooks
<1>2. Spendable' = Spendable
  BY DEF Spendable, EvmBooks
<1>3. ASSUME NEW u \in Transfers PROVE Kept(u)
  <2>1. PICK g \in Hash : u = <<"forward", g>> \/ u = <<"reverse", g>>
    BY DEF Transfers
  <2>2. /\ htlcLocks'[HexText[g]].state = "Claimed" <=> htlcLocks[HexText[g]].state = "Claimed"
        /\ UNCHANGED <<locks, pendingMints>>
    BY SpellingsDiffer DEF EvmBooks
  <2> QED BY <2>1, <2>2, ForwardKept, ReverseKept
<1> QED BY <1>1, <1>2, <1>3 DEF TransferMoves

LEMMA NothingMoves ==
    ASSUME Books, Shapes, UNCHANGED EvmBooks,
           UNCHANGED <<htlcLocks, outboundLocks, classes, cosmosBalances>>
    PROVE  Books' /\ TransferMoves
<1>1. Books' /\ Spendable' = Spendable
  BY DEF Books, OnlyOneClass, OneClass, Spendable, EvmBooks
<1>2. ASSUME NEW u \in Transfers PROVE Kept(u)
  <2>1. PICK g \in Hash : u = <<"forward", g>> \/ u = <<"reverse", g>>
    BY DEF Transfers
  <2>2. UNCHANGED <<locks, pendingMints>>
    BY DEF EvmBooks
  <2> QED BY <2>1, <2>2, ForwardKept, ReverseKept
<1> QED BY <1>1, <1>2 DEF TransferMoves

----------------------------------------------------------------------------
(* Every step.                                                               *)

\* What the messages on their way name.
Sent ==
    /\ \A m \in evmCalls : m.hashlock \in Hash
    /\ \A m \in ibcInFlight \cup cosmosCalls :
            m.hashlock \in Hash /\ (m.type = "prepare" => m.tokenId = 1)

LEMMA EvmPrepares ==
    ASSUME Books, Agreement, Sent, NEW m \in cosmosCalls, m.type = "prepare",
           ExecutePrepareMint(CosmosEndpoint,
                [hashlock |-> m.hashlock, indicatorId |-> m.indicatorId,
                 tokenId |-> m.tokenId, amount |-> m.amount, recipient |-> m.recipient,
                 timeout |-> m.timeout]),
           UNCHANGED cosmosVars
    PROVE  Books' /\ TransferMoves
<1> DEFINE h == m.hashlock
           pm == [state |-> "PENDING", tokenId |-> m.tokenId, amount |-> m.amount,
                  recipient |-> m.recipient, indicatorId |-> m.indicatorId,
                  timeout |-> m.timeout, source |-> CosmosEndpoint]
<1>1. /\ pendingMints[h].state = "EMPTY"
      /\ pendingMints' = [pendingMints EXCEPT ![h] = pm]
      /\ UNCHANGED <<locks, tokenVars>>
  BY DEF ExecutePrepareMint, HashlockUnused
<1>2. /\ h \in Hash /\ HexText[h] \in HashText /\ m.tokenId = 1
      /\ outboundLocks[HexText[h]].state # "None"
      /\ m.amount = outboundLocks[HexText[h]].amount
      /\ m.recipient = outboundLocks[HexText[h]].evmRecipient
  BY SpellingsDiffer DEF Agreement, CosmosAnnounced, Sent
<1>3. m.amount \in Nat \ {0} /\ m.recipient \in Address \ {This}
  BY <1>2 DEF Books, OutboundOwed
<1>4. MintOwed(pm) /\ pm.state = "PENDING"
  BY <1>2, <1>3 DEF MintOwed
<1> HIDE DEF pm
<1>5. pendingMints'[h] = pm /\ \A g \in Hash \ {h} : pendingMints'[g] = pendingMints[g]
  BY <1>1, <1>2 DEF Agreement, Shapes
<1> QED BY <1>1, <1>2, <1>4, <1>5, EvmMintIdles DEF Agreement

LEMMA EvmExpires ==
    ASSUME Books, Shapes, NEW h \in Hash, RefundMint(h), UNCHANGED cosmosVars
    PROVE  Books' /\ TransferMoves
<1>1. /\ pendingMints[h].state = "PENDING" /\ UNCHANGED <<locks, tokenVars>>
      /\ pendingMints'[h] = [pendingMints[h] EXCEPT !.state = "REFUNDED"]
      /\ \A g \in Hash \ {h} : pendingMints'[g] = pendingMints[g]
  BY DEF RefundMint, Decided, Shapes
<1>2. /\ pendingMints'[h].state = "REFUNDED"
      /\ pendingMints'[h].recipient = pendingMints[h].recipient
      /\ pendingMints'[h].tokenId = pendingMints[h].tokenId
      /\ pendingMints'[h].amount = pendingMints[h].amount
  BY <1>1 DEF Shapes, MintShape
<1>3. MintOwed(pendingMints'[h])
  BY <1>1, <1>2 DEF MintOwed, Books
<1> QED BY <1>1, <1>2, <1>3, EvmMintIdles

LEMMA CosmosPrepares ==
    ASSUME OneSpelling, Books, Agreement, NEW sender, NEW m \in evmCalls,
           m.type = "prepare_mint",
           Cosmos!PrepareMint(sender,
                [hashlock |-> HexText[m.hashlock],
                 indicator |-> HexIndicatorText[m.indicatorId],
                 class |-> DecimalText[m.tokenId], amount |-> m.amount,
                 recipient |-> m.recipient, timeout |-> m.timeout, source |-> EvmEndpoint]),
           UNCHANGED evmVars
    PROVE  Books' /\ TransferMoves
<1> DEFINE x == HexText[m.hashlock]
           htlc == [state |-> "Pending", indicator |-> HexIndicatorText[m.indicatorId],
                    class |-> DecimalText[m.tokenId], amount |-> m.amount,
                    recipient |-> m.recipient, source |-> EvmEndpoint,
                    timeout |-> m.timeout, secret |-> NoSecret]
<1>1. /\ htlcLocks[x].state = "None"
      /\ htlcLocks' = [htlcLocks EXCEPT ![x] = htlc]
      /\ UNCHANGED <<outboundLocks, classes, cosmosBalances>> /\ UNCHANGED EvmBooks
  BY EvmStays DEF Cosmos!PrepareMint, Cosmos!Inbound, Cosmos!registryVarsC, Cosmos!ledgerVars
<1>2. /\ m.hashlock \in Hash /\ x \in HashText /\ locks[m.hashlock].state # "EMPTY"
      /\ m.tokenId = locks[m.hashlock].tokenId /\ m.amount = locks[m.hashlock].amount
      /\ m.recipient = locks[m.hashlock].cosmosRecipient
  BY SpellingsDiffer DEF Agreement, EvmAnnounced
<1>3. m.tokenId = 1 /\ m.amount \in Nat \ {0} /\ m.recipient \in CosmosAccount
  BY <1>2 DEF Books, LockOwed
<1>4. InboundOwed(htlc) /\ htlc.state = "Pending"
  BY <1>3 DEF InboundOwed, OneClass
<1> HIDE DEF htlc
<1>5. htlcLocks'[x] = htlc /\ \A y \in HashText \ {x} : htlcLocks'[y] = htlcLocks[y]
  BY <1>1, <1>2 DEF Agreement, Shapes
<1>6. htlcLocks[x].state # "Claimed" /\ htlcLocks'[x].state # "Claimed"
  BY <1>1, <1>4, <1>5
<1>7. InboundOwed(htlcLocks'[x]) /\ Shapes
  BY <1>4, <1>5 DEF Agreement
<1> HIDE DEF x
<1> QED BY <1>1, <1>2, <1>5, <1>6, <1>7, CosmosMintIdles

LEMMA CosmosExpires ==
    ASSUME OneSpelling, Books, Shapes, NEW x \in HashText, Cosmos!RefundMint(x),
           UNCHANGED evmVars
    PROVE  Books' /\ TransferMoves
<1>1. /\ htlcLocks[x].state = "Pending" /\ UNCHANGED EvmBooks
      /\ UNCHANGED <<outboundLocks, classes, cosmosBalances>>
      /\ htlcLocks'[x] = [htlcLocks[x] EXCEPT !.state = "Refunded"]
      /\ \A y \in HashText \ {x} : htlcLocks'[y] = htlcLocks[y]
  BY EvmStays DEF Cosmos!RefundMint, Cosmos!registryVarsC, Cosmos!ledgerVars, Shapes
<1>2. htlcLocks'[x].state = "Refunded" /\ SameInboundTerms(htlcLocks'[x], htlcLocks[x])
  BY <1>1 DEF Shapes, InboundShape, SameInboundTerms
<1>3. InboundOwed(htlcLocks'[x])
  BY <1>1, <1>2 DEF InboundOwed, Books, SameInboundTerms
<1> QED BY <1>1, <1>2, <1>3, CosmosMintIdles

LEMMA TransferOfStep ==
    ASSUME OneSpelling, Books, Agreement, Sent, [CrossNext]_crossVars
    PROVE  Books' /\ TransferMoves
<1>s. Shapes
  BY DEF Agreement
<1>1. CASE EvmStep
  <2>1. UNCHANGED cosmosVars
    BY <1>1 DEF EvmStep
  <2>2. ASSUME NEW caller \in Address \ {This}, NEW t \in TokenId, NEW amount \in Amount,
               NEW h \in Hash, NEW timelock \in Timelock,
               NEW recipient \in CosmosAccount \ {AxelarGateway}, NEW bounty \in Wei,
               NEW value \in Wei,
               LockForBurn(caller, t, amount, h, timelock, recipient, CosmosEndpoint,
                           bounty, value)
        PROVE  Books' /\ TransferMoves
    BY <1>s, <2>1, <2>2, EvmOpens
  <2>3. ASSUME NEW h \in Hash, NEW s \in Secret, NEW value \in Wei, ClaimMint(h, s, value)
        PROVE  Books' /\ TransferMoves
    BY <2>1, <2>3, EvmMints
  <2>4. ASSUME NEW h \in Hash, RefundMint(h) PROVE Books' /\ TransferMoves
    BY <1>s, <2>1, <2>4, EvmExpires
  <2> QED BY <1>1, <2>2, <2>3, <2>4 DEF EvmStep
<1>2. CASE CosmosStep
  <2>1. UNCHANGED evmVars /\ UNCHANGED EvmBooks
    BY <1>2, EvmStays DEF CosmosStep
  <2>2. ASSUME NEW sender \in CosmosAccount, NEW c \in ClassId, NEW amount \in CosmosAmount,
               NEW x \in HashText, NEW timelock \in Cosmos!CosmosTimelock,
               NEW evmRecipient \in Address \ {This}, NEW bounty \in Coins,
               NEW untrn \in Coins, NEW relay \in RelayCoins,
               Cosmos!LockForBurn(sender, c, amount, x, timelock, evmRecipient, EvmEndpoint,
                                  bounty, untrn, relay)
        PROVE  Books' /\ TransferMoves
    BY <1>s, <2>1, <2>2, CosmosOpens
  <2>3. ASSUME NEW x \in HashText, NEW s \in Secret, NEW untrn \in Coins,
               NEW relay \in RelayCoins, Cosmos!ClaimMint(x, s, untrn, relay)
        PROVE  Books' /\ TransferMoves
    BY <2>1, <2>3, CosmosMints
  <2>4. ASSUME NEW x \in HashText, Cosmos!RefundMint(x) PROVE Books' /\ TransferMoves
    BY <1>s, <2>1, <2>4, CosmosExpires
  <2>5. ASSUME NEW m, Cosmos!IbcAccept(m) \/ \E fee : Cosmos!IbcReturn(m, fee)
        PROVE  Books' /\ TransferMoves
    <3>1. UNCHANGED <<htlcLocks, outboundLocks, classes, cosmosBalances>>
      BY <2>5 DEF Cosmos!IbcAccept, Cosmos!IbcReturn, Cosmos!registryVarsC, Cosmos!ledgerVars
    <3> QED BY <1>s, <2>1, <3>1, NothingMoves
  <2> QED BY <1>2, <2>2, <2>3, <2>4, <2>5 DEF CosmosStep
<1>3. ASSUME NEW tr \in Transfers, ManualBurn(tr) PROVE Books' /\ TransferMoves
  <2>1. HashIn(tr) \in Hash
    BY DEF Transfers, HashIn
  <2>2. CASE \E caller, s : ClaimBurn(caller, HashIn(tr), s) /\ UNCHANGED cosmosVars
    BY <1>s, <2>1, <2>2, EvmBurns DEF ClaimBurn
  <2>3. CASE \E caller, s : Cosmos!ClaimBurn(caller, HexText[HashIn(tr)], s) /\ UNCHANGED evmVars
    BY <1>s, <2>1, <2>3, CosmosBurns
  <2> QED BY <1>3, <2>2, <2>3 DEF ManualBurn
<1>4. ASSUME NEW tr \in Transfers, Refund(tr) PROVE Books' /\ TransferMoves
  <2>1. HashIn(tr) \in Hash
    BY DEF Transfers, HashIn
  <2> QED BY <1>4, <1>s, <2>1, EvmReturns, CosmosReturns DEF Refund
<1>5. ASSUME NEW m \in evmCalls, RelayToCosmos(m) PROVE Books' /\ TransferMoves
  <2>1. CASE m.type = "prepare_mint"
    BY <1>5, <2>1, CosmosPrepares DEF RelayToCosmos
  <2>2. CASE m.type = "claim_burn"
    <3>1. /\ Cosmos!ClaimBurn(AxelarGateway, HexText[m.hashlock], m.secret)
          /\ UNCHANGED evmVars
      BY <1>5, <2>2 DEF RelayToCosmos
    <3>2. m.hashlock \in Hash
      BY <1>5 DEF Sent
    <3> QED BY <1>s, <3>1, <3>2, CosmosBurns
  <2> QED BY <1>5, <2>1, <2>2 DEF RelayToCosmos
<1>6. ASSUME NEW m \in cosmosCalls, RelayToEvm(m) PROVE Books' /\ TransferMoves
  <2>1. CASE m.type = "prepare"
    BY <1>6, <2>1, EvmPrepares DEF RelayToEvm
  <2>2. CASE m.type = "callback"
    <3>1. BurnEscrow(m.hashlock, m.secret, locks[m.hashlock].sender) /\ UNCHANGED cosmosVars
      BY <1>6, <2>2 DEF RelayToEvm, ExecuteCallback
    <3>2. m.hashlock \in Hash
      BY <1>6 DEF Sent
    <3> QED BY <1>s, <3>1, <3>2, EvmBurns
  <2> QED BY <1>6, <2>1, <2>2 DEF RelayToEvm
<1>7. CASE EvmTime
  <2>1. UNCHANGED EvmBooks /\ UNCHANGED cosmosVars
    BY <1>7 DEF EvmTime, EvmTick, EvmBooks, tokenVars, registryVars
  <2> QED BY <1>s, <2>1, NothingMoves DEF cosmosVars
<1>8. CASE CosmosTime
  <2>1. UNCHANGED EvmBooks
    BY <1>8, EvmStays DEF CosmosTime
  <2>2. UNCHANGED <<htlcLocks, outboundLocks, classes, cosmosBalances>>
    BY <1>8 DEF CosmosTime, Cosmos!CosmosTick, Cosmos!registryVarsC, Cosmos!ledgerVars
  <2> QED BY <1>s, <2>1, <2>2, NothingMoves
<1>9. CASE UNCHANGED crossVars
  <2>1. UNCHANGED EvmBooks /\ UNCHANGED cosmosVars
    BY <1>9, EvmStays DEF crossVars
  <2> QED BY <1>s, <2>1, NothingMoves DEF cosmosVars
<1> QED BY <1>1, <1>2, <1>3, <1>4, <1>5, <1>6, <1>7, <1>8, <1>9 DEF CrossNext

\* A step adds a message that names a hashlock, and a prepare message only for a lock of
\* a registered class.
LEMMA SentOfStep ==
    ASSUME OneSpelling, Books, Sent, [CrossNext]_crossVars
    PROVE  Sent'
<1>c. UNCHANGED cosmosVars => UNCHANGED <<ibcInFlight, cosmosCalls>>
  BY DEF cosmosVars
<1>e. UNCHANGED evmVars => UNCHANGED evmCalls
  BY DEF evmVars, bridgeVars
<1>1. CASE EvmStep
  <2>1. UNCHANGED <<ibcInFlight, cosmosCalls>>
    BY <1>1, <1>c DEF EvmStep
  <2>2. ASSUME NEW m \in evmCalls' PROVE m.hashlock \in Hash
    BY <1>1 DEF EvmStep, LockForBurn, ClaimMint, RefundMint, Sent
  <2> QED BY <2>1, <2>2 DEF Sent
<1>2. CASE CosmosStep
  <2>1. UNCHANGED evmCalls
    BY <1>2, <1>e DEF CosmosStep
  <2>2. ASSUME NEW c \in ClassId, classes[c] # EmptyString PROVE TokenNumber[c] = 1
    BY <2>2, HoldersAreFinite, CrossAssumption DEF Books, OnlyOneClass, OneClass
  <2>3. ASSUME NEW m \in (ibcInFlight \cup cosmosCalls)'
        PROVE  m.hashlock \in Hash /\ (m.type = "prepare" => m.tokenId = 1)
    <3>1. CASE m \in ibcInFlight \cup cosmosCalls
      BY <3>1 DEF Sent
    <3>2. CASE m \notin ibcInFlight \cup cosmosCalls
      <4>1. ASSUME NEW sender, NEW c \in ClassId, NEW amount, NEW x \in HashText,
                   NEW timelock, NEW evmRecipient, NEW bounty, NEW untrn, NEW relay,
                   Cosmos!LockForBurn(sender, c, amount, x, timelock, evmRecipient,
                                      EvmEndpoint, bounty, untrn, relay)
            PROVE  m.hashlock = HashOfText[x] /\ m.tokenId = 1 /\ x \in HashText
        BY <2>2, <2>3, <3>2, <4>1 DEF Cosmos!LockForBurn, Cosmos!SendThroughAxelar
      <4>2. ASSUME NEW x \in HashText, NEW s, NEW untrn, NEW relay,
                   Cosmos!ClaimMint(x, s, untrn, relay)
            PROVE  m.hashlock = HashOfText[x] /\ m.type = "callback" /\ x \in HashText
        BY <2>3, <3>2, <4>2 DEF Cosmos!ClaimMint, Cosmos!SendThroughAxelar, Cosmos!ibcVars
      <4>3. ASSUME NEW x, Cosmos!RefundMint(x) PROVE FALSE
        BY <2>3, <3>2, <4>3 DEF Cosmos!RefundMint, Cosmos!ibcVars
      <4>4. ASSUME NEW p, Cosmos!IbcAccept(p) \/ \E fee : Cosmos!IbcReturn(p, fee) PROVE FALSE
        BY <2>3, <3>2, <4>4 DEF Cosmos!IbcAccept, Cosmos!IbcReturn
      <4> QED BY <1>2, <4>1, <4>2, <4>3, <4>4 DEF CosmosStep, OneSpelling
    <3> QED BY <3>1, <3>2
  <2> QED BY <2>1, <2>3 DEF Sent
<1>3. CASE UNCHANGED <<evmCalls, ibcInFlight, cosmosCalls>>
  BY <1>3 DEF Sent
<1>4. ASSUME NEW tr \in Transfers, ManualBurn(tr) \/ Refund(tr)
      PROVE  UNCHANGED <<evmCalls, ibcInFlight, cosmosCalls>>
  BY <1>4, <1>c, <1>e DEF ManualBurn, Refund, ClaimBurn, BurnEscrow, RefundBurn,
     Cosmos!ClaimBurn, Cosmos!RefundBurn, Cosmos!ibcVars
<1>5. ASSUME NEW m, RelayToCosmos(m) \/ RelayToEvm(m)
      PROVE  UNCHANGED <<evmCalls, ibcInFlight, cosmosCalls>>
  BY <1>5, <1>c, <1>e DEF RelayToCosmos, RelayToEvm, ExecutePrepareMint, ExecuteCallback,
     BurnEscrow, Cosmos!PrepareMint, Cosmos!ClaimBurn, Cosmos!ibcVars
<1>6. EvmTime \/ CosmosTime \/ UNCHANGED crossVars
            => UNCHANGED <<evmCalls, ibcInFlight, cosmosCalls>>
  BY <1>c, <1>e DEF EvmTime, EvmTick, CosmosTime, Cosmos!CosmosTick, Cosmos!ibcVars, crossVars
<1> QED BY <1>1, <1>2, <1>3, <1>4, <1>5, <1>6 DEF CrossNext

LEMMA BooksStart == CrossInit => Books /\ Sent
<1> SUFFICES ASSUME CrossInit PROVE Books /\ Sent
  OBVIOUS
<1>1. /\ locks = [h \in Hash |-> EmptyLock] /\ pendingMints = [h \in Hash |-> EmptyMint]
      /\ htlcLocks = [x \in HashText |-> Cosmos!NoInbound]
      /\ outboundLocks = [x \in HashText |-> Cosmos!NoOutbound]
      /\ evmCalls = {} /\ ibcInFlight = {} /\ cosmosCalls = {} /\ bridge = This
  BY DEF CrossInit, EvmInit, Cosmos!CosmosInitWith
<1>2. /\ balances = [t \in TokenId |-> [a \in Address |->
            IF t = 1 /\ a = GenesisHolder THEN GenesisSupply ELSE 0]]
      /\ tokenToIndicator = [t \in TokenId |->
            IF t = 1 THEN Keccak[GenesisProfile] ELSE ZeroIndicator]
  BY DEF CrossInit, EvmInit
<1>3. /\ cosmosBalances = [c \in ClassId |-> [a \in CosmosAccount |-> 0]]
      /\ \A c \in ClassId : classes[c] # EmptyString => c = OneClass
  BY DEF CrossInit, Cosmos!CosmosInitWith, OneClass
<1>4. balances \in Holdings
  <2>1. GenesisSupply \in 0..MaxUint256 /\ 0 \in 0..MaxUint256
    BY BridgeAssumption, TokenAssumption
  <2> QED BY <1>2, <2>1 DEF Holdings
<1>5. OnlyOneClass
  BY <1>1, <1>2, <1>3, <1>4 DEF OnlyOneClass
<1>6. LockOwed(EmptyLock) /\ MintOwed(EmptyMint) /\ InboundOwed(Cosmos!NoInbound)
      /\ OutboundOwed(Cosmos!NoOutbound)
  BY DEF LockOwed, MintOwed, InboundOwed, OutboundOwed, EmptyLock, EmptyMint,
         Cosmos!NoInbound, Cosmos!NoOutbound
<1> QED BY <1>1, <1>5, <1>6 DEF Books, Sent

----------------------------------------------------------------------------
(* Supply across the chains, and AtomicTransfer.                             *)

\* Units taken out of circulation by a transfer whose mint has not happened.
HeldBy(tr) == IF Phase(tr) \in {"escrowed", "burned"} THEN AmountIn(tr) ELSE 0

\* What the records of one transfer can say together.
Lawful == \A tr \in Transfers :
    /\ Source(tr) \in {"EMPTY", "LOCKED", "CLAIMED", "REFUNDED"}
    /\ Minted(tr) => Source(tr) \in {"LOCKED", "CLAIMED"}
    /\ Source(tr) # "EMPTY" => AmountIn(tr) \in Nat \ {0}

LEMMA RecordsAreLawful == ASSUME Agreement, MintsHoldTheirSource, Books PROVE Lawful
<1> SUFFICES ASSUME NEW tr \in Transfers
             PROVE  /\ Source(tr) \in {"EMPTY", "LOCKED", "CLAIMED", "REFUNDED"}
                    /\ Minted(tr) => Source(tr) \in {"LOCKED", "CLAIMED"}
                    /\ Source(tr) # "EMPTY" => AmountIn(tr) \in Nat \ {0}
  BY DEF Lawful
<1>1. PICK h \in Hash : tr = <<"forward", h>> \/ tr = <<"reverse", h>>
  BY DEF Transfers
<1> DEFINE x == HexText[h]
<1>2. x \in HashText
  BY SpellingsDiffer
<1>3. CASE tr = <<"forward", h>>
  <2>1. /\ Source(tr) = locks[h].state /\ AmountIn(tr) = locks[h].amount
        /\ Minted(tr) <=> htlcLocks[x].state = "Claimed"
    BY <1>3, ForwardEnds
  <2>2. locks[h].state \in {"EMPTY", "LOCKED", "CLAIMED", "REFUNDED"}
    BY DEF Agreement, Shapes, LockShape
  <2>3. htlcLocks[x].state = "Claimed" => locks[h].state \in {"LOCKED", "CLAIMED"}
    BY DEF MintsHoldTheirSource
  <2>4. locks[h].state # "EMPTY" => locks[h].amount \in Nat \ {0}
    BY DEF Books, LockOwed
  <2> QED BY <2>1, <2>2, <2>3, <2>4
<1>4. CASE tr = <<"reverse", h>>
  <2>1. /\ outboundLocks[x].state \in {"None", "Locked", "Claimed", "Refunded"}
        /\ outboundLocks[x].state = "None" <=> Source(tr) = "EMPTY"
        /\ outboundLocks[x].state = "Locked" <=> Source(tr) = "LOCKED"
        /\ outboundLocks[x].state = "Claimed" <=> Source(tr) = "CLAIMED"
        /\ outboundLocks[x].state = "Refunded" <=> Source(tr) = "REFUNDED"
    BY <1>2, <1>4, SourceStates DEF Agreement, Shapes, OutboundShape
  <2>2. /\ AmountIn(tr) = outboundLocks[x].amount
        /\ Minted(tr) <=> pendingMints[h].state = "MINTED"
    BY <1>4, ReverseEnds DEF Agreement
  <2>3. pendingMints[h].state = "MINTED" => outboundLocks[x].state \in {"Locked", "Claimed"}
    BY DEF MintsHoldTheirSource
  <2>4. outboundLocks[x].state # "None" => outboundLocks[x].amount \in Nat \ {0}
    BY <1>2 DEF Books, OutboundOwed
  <2> QED BY <2>1, <2>2, <2>3, <2>4
<1> QED BY <1>1, <1>3, <1>4

\* How a transfer moves, in the phases of AtomicTransfer.
LEMMA PhaseMoves ==
    ASSUME Lawful, Lawful', NEW tr \in Transfers
    PROVE  /\ Kept(tr) => Phase(tr)' = Phase(tr)
           /\ Opens(tr) => Phase(tr) = "idle" /\ Phase(tr)' = "escrowed"
           /\ Burns(tr) => <<Phase(tr), Phase(tr)'>> \in
                {<<"escrowed", "burned">>, <<"delivered", "completed">>}
           /\ Returns(tr) => Phase(tr) = "escrowed" /\ Phase(tr)' = "returned"
           /\ Mints(tr) => <<Phase(tr), Phase(tr)'>> \in
                {<<"escrowed", "delivered">>, <<"burned", "completed">>}
           /\ Phase(tr) # "idle" => AmountIn(tr) \in Nat \ {0}
<1>1. /\ Source(tr) \in {"EMPTY", "LOCKED", "CLAIMED", "REFUNDED"}
      /\ Minted(tr) => Source(tr) \in {"LOCKED", "CLAIMED"}
      /\ Source(tr) # "EMPTY" => AmountIn(tr) \in Nat \ {0}
  BY DEF Lawful
<1>2. /\ Source(tr)' \in {"EMPTY", "LOCKED", "CLAIMED", "REFUNDED"}
      /\ Minted(tr)' => Source(tr)' \in {"LOCKED", "CLAIMED"}
  BY DEF Lawful
<1>3. Kept(tr) => Phase(tr)' = Phase(tr)
  BY <1>1, <1>2 DEF Kept, Phase
<1>4. Opens(tr) => Phase(tr) = "idle" /\ Phase(tr)' = "escrowed"
  BY <1>1, <1>2 DEF Opens, Phase
<1>5. Burns(tr) => <<Phase(tr), Phase(tr)'>> \in
                {<<"escrowed", "burned">>, <<"delivered", "completed">>}
  BY <1>1, <1>2 DEF Burns, Phase
<1>6. Returns(tr) => Phase(tr) = "escrowed" /\ Phase(tr)' = "returned"
  BY <1>1, <1>2 DEF Returns, Phase
<1>7. Mints(tr) => <<Phase(tr), Phase(tr)'>> \in
                {<<"escrowed", "delivered">>, <<"burned", "completed">>}
  BY <1>1, <1>2 DEF Mints, Phase
<1>8. Phase(tr) # "idle" => AmountIn(tr) \in Nat \ {0}
  BY <1>1 DEF Phase
<1> QED BY <1>3, <1>4, <1>5, <1>6, <1>7, <1>8

LEMMA TransfersAreFinite == IsFiniteSet(Transfers)
<1>1. IsFiniteSet({"forward"}) /\ {"forward", "reverse"} = {"forward"} \cup {"reverse"}
  BY FS_Singleton
<1>2. IsFiniteSet({"forward", "reverse"})
  BY <1>1, FS_AddElement
<1>3. IsFiniteSet(Hash)
  BY BridgeAssumption
<1> QED BY <1>2, <1>3, FS_Product DEF Transfers

\* The units held by transfers move by what one transfer's move.
LEMMA HeldMoves ==
    ASSUME NEW tr \in Transfers, \A u \in Transfers : HeldBy(u) \in Int, HeldBy(tr)' \in Int,
           \A u \in Transfers \ {tr} : HeldBy(u)' = HeldBy(u)
    PROVE  SumFunctionOnSet([u \in Transfers |-> HeldBy(u)], Transfers)' =
                SumFunctionOnSet([u \in Transfers |-> HeldBy(u)], Transfers)
                - HeldBy(tr) + HeldBy(tr)'
<1> DEFINE f == [u \in Transfers |-> HeldBy(u)]
           g == [u \in Transfers |-> HeldBy(u)']
<1>1. /\ \A u \in Transfers : f[u] \in Int
      /\ g[tr] = HeldBy(tr)' /\ f[tr] = HeldBy(tr) /\ g[tr] \in Int
      /\ \A u \in Transfers \ {tr} : g[u] = f[u]
  OBVIOUS
<1>2. SumFunctionOnSet(f, Transfers)' = SumFunctionOnSet(g, Transfers)
  BY DEF Transfers
<1> HIDE DEF f, g
<1>3. SumFunctionOnSet(g, Transfers) = SumFunctionOnSet(f, Transfers) - f[tr] + g[tr]
  BY <1>1, TransfersAreFinite, SumChanges
<1> QED BY <1>1, <1>2, <1>3 DEF f

HeldUnits == SumFunctionOnSet([tr \in Transfers |-> HeldBy(tr)], Transfers)

LEMMA ConservedByHeld == UnitsConserved <=> Spendable + HeldUnits = GenesisSupply
  BY DEF UnitsConserved, HeldUnits, HeldBy

LEMMA UnitsStart ==
    ASSUME CrossInit
    PROVE  /\ Spendable = GenesisSupply /\ UnitsConserved
           /\ \A tr \in Transfers : Phase(tr) = "idle" /\ AmountIn(tr) = 0
<1>1. /\ locks = [h \in Hash |-> EmptyLock] /\ pendingMints = [h \in Hash |-> EmptyMint]
      /\ htlcLocks = [x \in HashText |-> Cosmos!NoInbound]
      /\ outboundLocks = [x \in HashText |-> Cosmos!NoOutbound]
      /\ cosmosBalances = [c \in ClassId |-> [a \in CosmosAccount |-> 0]]
      /\ balances = [t \in TokenId |-> [a \in Address |->
            IF t = 1 /\ a = GenesisHolder THEN GenesisSupply ELSE 0]]
  BY DEF CrossInit, EvmInit, Cosmos!CosmosInitWith
<1>2. /\ GenesisHolder \in Address \ {This} /\ GenesisSupply \in Nat
      /\ OneClass \in ClassId /\ 1 \in TokenId
  BY BridgeAssumption, TokenAssumption, CrossAssumption, HoldersAreFinite
<1>3. CosmosUnits = 0
  <2>1. \A a \in CosmosAccount : cosmosBalances[OneClass][a] = 0
    BY <1>1, <1>2
  <2>2. \A f : (\A a \in CosmosAccount : f[a] = 0) => SumFunctionOnSet(f, CosmosAccount) = 0
    BY SumOfZeros, HoldersAreFinite
  <2> QED BY <2>1, <2>2 DEF CosmosUnits
<1>4. EvmUnits = GenesisSupply
  <2> DEFINE S == Address \ {This}
  <2>1. /\ \A a \in S : balances[1][a] \in Int
        /\ \A a \in S \ {GenesisHolder} : balances[1][a] = 0
        /\ balances[1][GenesisHolder] = GenesisSupply
    BY <1>1, <1>2
  <2>2. IsFiniteSet(S) /\ GenesisHolder \in S
    BY <1>2, HoldersAreFinite
  <2>3. EvmUnits = SumFunctionOnSet(balances[1], S)
    BY DEF EvmUnits
  <2> HIDE DEF S
  <2>4. IsFiniteSet(S \ {GenesisHolder})
    BY <2>2, FS_RemoveElement
  <2>5. SumFunctionOnSet(balances[1], S \ {GenesisHolder}) = 0
    BY <2>1, <2>4, SumOfZeros
  <2>6. SumFunctionOnSet(balances[1], S)
            = balances[1][GenesisHolder] + SumFunctionOnSet(balances[1], S \ {GenesisHolder})
    BY <2>1, <2>2, SumWithout
  <2> QED BY <1>2, <2>1, <2>3, <2>5, <2>6
<1>5. ASSUME NEW tr \in Transfers
      PROVE  Phase(tr) = "idle" /\ AmountIn(tr) = 0
  <2>1. HashIn(tr) \in Hash /\ HexText[HashIn(tr)] \in HashText
    BY SpellingsDiffer DEF Transfers, HashIn
  <2>2. /\ locks[HashIn(tr)].state = "EMPTY" /\ locks[HashIn(tr)].amount = 0
        /\ pendingMints[HashIn(tr)].state = "EMPTY"
    BY <1>1, <2>1 DEF EmptyLock, EmptyMint
  <2>3. /\ htlcLocks[HexText[HashIn(tr)]].state = "None"
        /\ outboundLocks[HexText[HashIn(tr)]].state = "None"
        /\ outboundLocks[HexText[HashIn(tr)]].amount = 0
    BY <1>1, <2>1 DEF Cosmos!NoInbound, Cosmos!NoOutbound
  <2>4. Source(tr) = "EMPTY" /\ ~Minted(tr) /\ AmountIn(tr) = 0
    BY <2>2, <2>3 DEF Source, Minted, AmountIn
  <2> QED BY <2>4 DEF Phase
<1>6. HeldUnits = 0
  <2> DEFINE held == [tr \in Transfers |-> HeldBy(tr)]
  <2>1. \A tr \in Transfers : held[tr] = 0
    BY <1>5 DEF HeldBy
  <2>2. HeldUnits = SumFunctionOnSet(held, Transfers)
    BY DEF HeldUnits
  <2> HIDE DEF held
  <2> QED BY <2>1, <2>2, TransfersAreFinite, SumOfZeros
<1>7. Spendable = GenesisSupply
  BY <1>2, <1>3, <1>4, SpendableIsUnits
<1> QED BY <1>2, <1>5, <1>6, <1>7, ConservedByHeld

LEMMA HeldIsNat ==
    ASSUME Lawful
    PROVE  HeldUnits \in Nat /\ \A tr \in Transfers : HeldBy(tr) \in Nat
<1>1. ASSUME NEW tr \in Transfers PROVE HeldBy(tr) \in Nat
  BY DEF HeldBy, Phase, Lawful
<1> DEFINE held == [tr \in Transfers |-> HeldBy(tr)]
<1>2. \A tr \in Transfers : held[tr] \in Nat
  BY <1>1
<1>3. HeldUnits = SumFunctionOnSet(held, Transfers)
  BY DEF HeldUnits
<1> HIDE DEF held
<1>4. HeldUnits \in Nat
  BY <1>2, <1>3, TransfersAreFinite, SumIsNat
<1> QED BY <1>1, <1>4

LEMMA SpendableIsNat == ASSUME Books PROVE Spendable \in Nat
<1>1. EvmUnits \in Nat /\ CosmosUnits \in Nat
  BY UnitsAreNat DEF Books
<1> QED BY <1>1, SpendableIsUnits

\* What a step takes out of circulation one transfer holds, and what it puts back one
\* transfer held.
LEMMA StepKeepsUnits ==
    ASSUME Lawful, Lawful', Books, UnitsConserved, TransferMoves
    PROVE  UnitsConserved'
<1>1. Spendable + HeldUnits = GenesisSupply
  BY ConservedByHeld
<1>2. Spendable \in Nat /\ HeldUnits \in Nat
  BY SpendableIsNat, HeldIsNat
<1>3. (\A tr \in Transfers : HeldBy(tr) \in Nat) /\ \A tr \in Transfers : HeldBy(tr)' \in Nat
  <2>1. \A tr \in Transfers : HeldBy(tr) \in Nat
    BY HeldIsNat
  <2>2. ASSUME NEW tr \in Transfers PROVE HeldBy(tr)' \in Nat
    BY DEF HeldBy, Phase, Lawful
  <2> QED BY <2>1, <2>2
<1>4. ASSUME NEW tr \in Transfers, Kept(tr) PROVE HeldBy(tr)' = HeldBy(tr)
  <2>1. Phase(tr)' = Phase(tr)
    BY <1>4, PhaseMoves
  <2> QED BY <1>4, <2>1 DEF HeldBy, Kept
<1>5. CASE Spendable' = Spendable /\ \A tr \in Transfers : Kept(tr)
  <2>1. \A tr \in Transfers : HeldBy(tr)' = HeldBy(tr)
    BY <1>4, <1>5
  <2>2. [tr \in Transfers |-> HeldBy(tr)]' = [tr \in Transfers |-> HeldBy(tr)]
    BY <2>1 DEF Transfers
  <2>3. HeldUnits' = HeldUnits
    BY <2>2 DEF HeldUnits, Transfers
  <2>4. Spendable' + HeldUnits' = GenesisSupply
    BY <1>1, <1>5, <2>3
  <2> QED BY <2>4 DEF UnitsConserved, HeldUnits, HeldBy
<1>6. ASSUME NEW tr \in Transfers, Only(tr), Opens(tr) \/ Burns(tr) \/ Returns(tr) \/ Mints(tr)
      PROVE  UnitsConserved'
  <2>1. \A u \in Transfers \ {tr} : HeldBy(u)' = HeldBy(u)
    BY <1>4, <1>6 DEF Only
  <2>2. HeldUnits' = HeldUnits - HeldBy(tr) + HeldBy(tr)'
    BY <1>3, <2>1, HeldMoves DEF HeldUnits
  <2>3. CASE Opens(tr)
    <3>1. Phase(tr) = "idle" /\ Phase(tr)' = "escrowed"
      BY <2>3, PhaseMoves
    <3>2. HeldBy(tr) = 0 /\ HeldBy(tr)' = AmountIn(tr)'
      BY <3>1 DEF HeldBy
    <3>3. AmountIn(tr)' \in Nat /\ Spendable' = Spendable - AmountIn(tr)'
      BY <1>2, <2>3 DEF Opens
    <3> QED BY <1>1, <1>2, <2>2, <3>2, <3>3 DEF UnitsConserved, HeldUnits, HeldBy
  <2>4. CASE Burns(tr)
    <3>1. <<Phase(tr), Phase(tr)'>> \in
                {<<"escrowed", "burned">>, <<"delivered", "completed">>}
      BY <2>4, PhaseMoves
    <3>2. HeldBy(tr)' = HeldBy(tr) /\ Spendable' = Spendable
      BY <2>4, <3>1 DEF HeldBy, Burns
    <3> QED BY <1>1, <1>2, <1>3, <2>2, <3>2 DEF UnitsConserved, HeldUnits, HeldBy
  <2>5. CASE Returns(tr) \/ Mints(tr)
    <3>1. /\ Phase(tr) \in {"escrowed", "burned"}
          /\ Phase(tr)' \in {"returned", "delivered", "completed"}
      BY <2>5, PhaseMoves
    <3>2. HeldBy(tr) = AmountIn(tr) /\ HeldBy(tr)' = 0
      BY <3>1 DEF HeldBy
    <3>3. Spendable' = Spendable + AmountIn(tr)
      BY <2>5 DEF Returns, Mints
    <3> QED BY <1>1, <1>2, <1>3, <2>2, <3>2, <3>3 DEF UnitsConserved, HeldUnits, HeldBy
  <2> QED BY <1>6, <2>3, <2>4, <2>5
<1> QED BY <1>5, <1>6 DEF TransferMoves

\* The same step, as AtomicTransfer takes it.
LEMMA StepIsAtomic ==
    ASSUME Lawful, Lawful', Books, UnitsConserved, TransferMoves
    PROVE  [Atomic!AtomicNext]_(Atomic!atomicVars)
<1> DEFINE phases == [tr \in Transfers |-> Phase(tr)]
           amounts == [tr \in Transfers |-> AmountIn(tr)]
<1>1. CASE Spendable' = Spendable /\ \A tr \in Transfers : Kept(tr)
  <2>1. \A tr \in Transfers : Phase(tr)' = Phase(tr) /\ AmountIn(tr)' = AmountIn(tr)
    BY <1>1, PhaseMoves DEF Kept
  <2>2. phases' = phases /\ amounts' = amounts
    BY <2>1 DEF Transfers
  <2> QED BY <1>1, <2>2 DEF Atomic!atomicVars
<1>2. ASSUME NEW tr \in Transfers, Only(tr), Opens(tr) \/ Burns(tr) \/ Returns(tr) \/ Mints(tr)
      PROVE  Atomic!AtomicNext
  <2>1. \A u \in Transfers \ {tr} : Phase(u)' = Phase(u) /\ AmountIn(u)' = AmountIn(u)
    BY <1>2, PhaseMoves DEF Only, Kept
  <2>2. /\ phases' = [phases EXCEPT ![tr] = Phase(tr)']
        /\ amounts' = [amounts EXCEPT ![tr] = AmountIn(tr)']
    BY <2>1 DEF Transfers
  <2>3. phases[tr] = Phase(tr) /\ amounts[tr] = AmountIn(tr)
    OBVIOUS
  <2>4. AmountIn(tr)' = AmountIn(tr) => amounts' = amounts
    BY <2>1 DEF Transfers
  <2>5. CASE Opens(tr)
    <3>1. Phase(tr) = "idle" /\ Phase(tr)' = "escrowed"
      BY <2>5, PhaseMoves
    <3>2. Spendable \in Nat /\ Spendable <= GenesisSupply /\ GenesisSupply \in Nat
      <4>1. Spendable \in Nat /\ HeldUnits \in Nat /\ Spendable + HeldUnits = GenesisSupply
        BY SpendableIsNat, HeldIsNat, ConservedByHeld
      <4> QED BY <4>1
    <3>3. /\ AmountIn(tr)' \in 1..GenesisSupply /\ AmountIn(tr)' <= Spendable
          /\ Spendable' = Spendable - AmountIn(tr)'
      BY <2>5, <3>2 DEF Opens
    <3>4. Atomic!Escrow(tr, AmountIn(tr)')
      BY <2>2, <2>3, <3>1, <3>3 DEF Atomic!Escrow, Atomic!Become
    <3> QED BY <3>3, <3>4 DEF Atomic!AtomicNext
  <2>6. CASE Burns(tr)
    <3>1. <<Phase(tr), Phase(tr)'>> \in
                {<<"escrowed", "burned">>, <<"delivered", "completed">>}
      BY <2>6, PhaseMoves
    <3>2. Spendable' = Spendable /\ amounts' = amounts
      BY <2>4, <2>6 DEF Burns
    <3>3. Atomic!Settle(tr)
      BY <2>2, <2>3, <3>1, <3>2 DEF Atomic!Settle, Atomic!Become
    <3> QED BY <3>3 DEF Atomic!AtomicNext
  <2>7. CASE Returns(tr)
    <3>1. Phase(tr) = "escrowed" /\ Phase(tr)' = "returned"
      BY <2>7, PhaseMoves
    <3>2. Spendable' = Spendable + amounts[tr] /\ amounts' = amounts
      BY <2>3, <2>4, <2>7 DEF Returns
    <3>3. Atomic!Return(tr)
      BY <2>2, <2>3, <3>1, <3>2 DEF Atomic!Return, Atomic!Become
    <3> QED BY <3>3 DEF Atomic!AtomicNext
  <2>8. CASE Mints(tr)
    <3>1. <<Phase(tr), Phase(tr)'>> \in
                {<<"escrowed", "delivered">>, <<"burned", "completed">>}
      BY <2>8, PhaseMoves
    <3>2. Spendable' = Spendable + amounts[tr] /\ amounts' = amounts
      BY <2>3, <2>4, <2>8 DEF Mints
    <3>3. Atomic!Deliver(tr)
      BY <2>2, <2>3, <3>1, <3>2 DEF Atomic!Deliver, Atomic!Become
    <3> QED BY <3>3 DEF Atomic!AtomicNext
  <2> QED BY <1>2, <2>5, <2>6, <2>7, <2>8
<1> QED BY <1>1, <1>2 DEF TransferMoves

\* What UnitsConserved and the refinement rest on.
LawfulBooks == Books /\ Sent /\ Lawful

LEMMA BooksStayLawful ==
    ASSUME OneSpelling, Monitored
    PROVE  CrossSpec => [](LawfulBooks /\ UnitsConserved)
<1>1. CrossInit => Books /\ Sent /\ UnitsConserved
  BY BooksStart, UnitsStart
<1>2. ASSUME Agreement, Agreement', MintsHoldTheirSource, MintsHoldTheirSource',
             Books, Sent, UnitsConserved, [CrossNext]_crossVars
      PROVE  Books' /\ Sent' /\ UnitsConserved'
  <2>1. Books' /\ TransferMoves /\ Sent'
    BY <1>2, TransferOfStep, SentOfStep
  <2>2. Lawful
    BY <1>2, RecordsAreLawful
  <2>3. Lawful'
    BY <1>2, <2>1, RecordsAreLawful, PTL
  <2> QED BY <1>2, <2>1, <2>2, <2>3, StepKeepsUnits
<1>3. Agreement /\ MintsHoldTheirSource /\ Books => Lawful
  BY RecordsAreLawful
<1> QED BY <1>1, <1>2, <1>3, EndsAgree, MintsBehindSources, PTL DEF CrossSpec, LawfulBooks

\* Units are conserved across the chains: through every lock, burn, refund, mint and
\* message, what holders can spend plus what transfers hold is the initial supply.
THEOREM UnitsStayConserved ==
    ASSUME OneSpelling, Monitored
    PROVE  CrossSpec => []UnitsConserved
  BY BooksStayLawful, PTL

\* The bridge implements AtomicTransfer: each step of the two contracts, their clocks and
\* GMP is one step of one transfer there, or none.
THEOREM BridgeIsAtomic ==
    ASSUME OneSpelling, Monitored
    PROVE  CrossSpec => ImplementsAtomicTransfer
<1>1. CrossInit => Atomic!AtomicInit
  BY UnitsStart DEF Atomic!AtomicInit
<1>2. ASSUME LawfulBooks, LawfulBooks', UnitsConserved, Agreement, [CrossNext]_crossVars
      PROVE  [Atomic!AtomicNext]_(Atomic!atomicVars)
  <2>1. TransferMoves
    BY <1>2, TransferOfStep DEF LawfulBooks
  <2> QED BY <1>2, <2>1, StepIsAtomic DEF LawfulBooks
<1> QED
  BY <1>1, <1>2, BooksStayLawful, EndsAgree, PTL
  DEF CrossSpec, ImplementsAtomicTransfer, Atomic!AtomicSpec
=============================================================================
