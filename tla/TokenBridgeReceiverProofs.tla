---------------------- MODULE TokenBridgeReceiverProofs ----------------------
(***************************************************************************)
(* What holds of the Cosmos contract for every number of accounts, keys,    *)
(* classes and amounts, proved with TLAPS: first the records of the locks,  *)
(* then the accounts kept beside them.  STATS, TOKEN_SUPPLY and the bank's   *)
(* untrn are sums over the records and the balances, so each action is       *)
(* followed by what it does to those sums.                                   *)
(***************************************************************************)
EXTENDS TokenBridgeReceiver, SumTheorems

InboundRecord ==
    [state : {"Pending", "Claimed", "Refunded"}, indicator : IndicatorText,
     class : ClassId, amount : 1..MaxUint128, recipient : CosmosAccount,
     source : Endpoint, timeout : CosmosTimelock, secret : Secret \cup {NoSecret}]

OutboundRecord ==
    [state : {"Locked", "Claimed", "Refunded"}, sender : CosmosAccount,
     class : ClassId, amount : 1..MaxUint128, evmRecipient : Address,
     destination : Endpoint, timelock : CosmosTimelock,
     bounty : Nat, secret : Secret \cup {NoSecret}]

Stored ==
    /\ htlcLocks \in [HashText -> HTLCLock]
    /\ outboundLocks \in [HashText -> OutboundLock]
    /\ classes \in [ClassId -> IndicatorText \cup {EmptyString}]
    /\ tokenSupply \in [ClassId -> Nat]
    /\ bankSent \in [CosmosAccount -> [CosmosAccount -> Nat]]
    /\ \A m \in ibcInFlight \cup cosmosCalls : m.of \in HashText
    /\ cosmosNow \in Nat

\* An open mint has no secret yet, an open outbound lock has the bounty min_bounty asks
\* for, and the class of every outbound lock is registered.
OpenRecords ==
    /\ \A x \in HashText : htlcLocks[x].state = "Pending" => htlcLocks[x].secret = NoSecret
    /\ \A x \in HashText :
            outboundLocks[x].state = "Locked" => outboundLocks[x].bounty >= MinBounty
    /\ \A x \in HashText : outboundLocks[x].state # "None" =>
            classes[outboundLocks[x].class] # EmptyString

RecordInv == Stored /\ OpenRecords

LEMMA InboundFields ==
  ASSUME Stored, NEW x \in HashText, htlcLocks[x].state # "None"
  PROVE  htlcLocks[x] \in InboundRecord
  BY DEF Stored, HTLCLock, NoInbound, InboundRecord

LEMMA OutboundFields ==
  ASSUME Stored, NEW x \in HashText, outboundLocks[x].state # "None"
  PROVE  outboundLocks[x] \in OutboundRecord
  BY DEF Stored, OutboundLock, NoOutbound, OutboundRecord

----------------------------------------------------------------------------
(* The calls, by name.                                                      *)

Prepares == \E sender \in CosmosAccount, m \in PrepareArgs : PrepareMint(sender, m)
RefundsMint == \E x \in HashText : RefundMint(x)
Moves == \E from, to \in CosmosAccount, c \in ClassId, amount \in CosmosAmount :
            Transfer(from, to, c, amount)
Authorizes == \E sender \in CosmosAccount :
                 AddAuthorizedSender(sender) \/ RemoveAuthorizedSender(sender)
ClaimsMint == \E x \in HashText, s \in Secret, untrn \in Coins, relay \in RelayCoins :
                 ClaimMint(x, s, untrn, relay)
LocksForBurn ==
  \E sender \in CosmosAccount, c \in ClassId, amount \in CosmosAmount, x \in HashText,
     timelock \in CosmosTimelock, evmRecipient \in Address, dest \in Endpoint,
     bounty, untrn \in Coins, relay \in RelayCoins :
        LockForBurn(sender, c, amount, x, timelock, evmRecipient, dest, bounty, untrn, relay)
ClaimsBurn == \E caller \in CosmosAccount, x \in HashText, s \in Secret : ClaimBurn(caller, x, s)
RefundsBurn == \E caller \in CosmosAccount, x \in HashText : RefundBurn(caller, x)
Creates == \E c \in ClassId, i \in IndicatorText : CreateTokenClass(c, i)
Withdraws == \E untrn \in Coins, relay \in RelayCoins, to \in CosmosAccount :
                WithdrawFunds(untrn, relay, to)
Answers == \E m \in ibcInFlight :
              IbcAccept(m) \/ \E fee \in {IBC_ACK_FEE, IBC_TIMEOUT_FEE} : IbcReturn(m, fee)

LEMMA Steps ==
  ASSUME [CosmosNext]_cosmosVars
  PROVE  \/ Prepares \/ ClaimsMint \/ RefundsMint
         \/ LocksForBurn \/ ClaimsBurn \/ RefundsBurn
         \/ Creates \/ Moves \/ Authorizes \/ Withdraws \/ Answers
         \/ CosmosTick \/ UNCHANGED cosmosVars
  BY Zenon
  DEF CosmosNext, Prepares, ClaimsMint, RefundsMint, LocksForBurn, ClaimsBurn, RefundsBurn,
      Creates, Moves, Authorizes, Withdraws, Answers

\* The steps that touch neither direction's records.
OtherStep == Creates \/ Moves \/ Authorizes \/ Withdraws \/ Answers \/ CosmosTick
             \/ UNCHANGED cosmosVars

LEMMA OtherStepKeepsRecords ==
  ASSUME OtherStep
  PROVE  UNCHANGED <<htlcLocks, outboundLocks>>
  BY DEF OtherStep, Creates, Moves, Authorizes, Withdraws, Answers, CreateTokenClass,
         Transfer, AddAuthorizedSender, RemoveAuthorizedSender, WithdrawFunds, IbcAccept, IbcReturn, CosmosTick, cosmosVars

----------------------------------------------------------------------------
(* What a step does to one key, in each direction.                          *)

InboundStep(x) ==
  \/ htlcLocks'[x] = htlcLocks[x]
  \/ /\ htlcLocks[x].state = "None" /\ htlcLocks'[x] \in InboundRecord
     /\ htlcLocks'[x].state = "Pending" /\ htlcLocks'[x].secret = NoSecret
     /\ IndicatorMatches(htlcLocks'[x].class, htlcLocks'[x].indicator)
     /\ UNCHANGED classes
  \/ /\ htlcLocks[x].state = "Pending" /\ cosmosNow < htlcLocks[x].timeout
     /\ \E s \in Secret : /\ HashOf[s] = HashOfText[x]
                          /\ htlcLocks'[x] = [htlcLocks[x] EXCEPT !.state = "Claimed",
                                                                  !.secret = s]
  \/ /\ htlcLocks[x].state = "Pending" /\ cosmosNow >= htlcLocks[x].timeout
     /\ htlcLocks'[x] = [htlcLocks[x] EXCEPT !.state = "Refunded"]

OutboundStep(x) ==
  \/ outboundLocks'[x] = outboundLocks[x]
  \/ /\ outboundLocks[x].state = "None" /\ outboundLocks'[x] \in OutboundRecord
     /\ outboundLocks'[x].state = "Locked" /\ outboundLocks'[x].bounty >= MinBounty
     /\ classes[outboundLocks'[x].class] # EmptyString /\ UNCHANGED classes
  \/ /\ outboundLocks[x].state = "Locked"
     /\ \E s \in Secret : outboundLocks'[x] =
            [outboundLocks[x] EXCEPT !.state = "Claimed", !.secret = s, !.bounty = 0]
  \/ /\ outboundLocks[x].state = "Locked" /\ cosmosNow >= outboundLocks[x].timelock
     /\ outboundLocks'[x] = [outboundLocks[x] EXCEPT !.state = "Refunded", !.bounty = 0]

LEMMA InboundOfStep ==
  ASSUME Stored, [CosmosNext]_cosmosVars, NEW y \in HashText
  PROVE  InboundStep(y)
<1> USE DEF InboundStep
<1>0. htlcLocks \in [HashText -> HTLCLock]
  BY DEF Stored
<1>1. ASSUME NEW sender \in CosmosAccount, NEW m \in PrepareArgs, PrepareMint(sender, m)
      PROVE  InboundStep(y)
  <2> DEFINE opened == [state |-> "Pending", indicator |-> m.indicator, class |-> m.class,
             amount |-> m.amount, recipient |-> m.recipient, source |-> m.source,
             timeout |-> m.timeout, secret |-> NoSecret]
  <2>1. m.hashlock \in HashText /\ m.indicator \in IndicatorText /\ m.class \in ClassId
        /\ m.amount \in CosmosAmount /\ m.recipient \in CosmosAccount
        /\ m.source \in Endpoint /\ m.timeout \in CosmosTimelock
    BY DEF PrepareArgs
  <2>2. m.amount \in 1..MaxUint128
    BY <1>1, <2>1, ReceiverAssumption DEF PrepareMint
  <2>3. opened \in InboundRecord
    BY <2>1, <2>2 DEF InboundRecord
  <2>4. htlcLocks' = [htlcLocks EXCEPT ![m.hashlock] = opened]
        /\ htlcLocks[m.hashlock].state = "None" /\ UNCHANGED classes
        /\ IndicatorMatches(m.class, m.indicator)
    BY <1>1 DEF PrepareMint, Inbound, registryVarsC
  <2>5. opened.state = "Pending" /\ opened.secret = NoSecret /\ opened.class = m.class
        /\ opened.indicator = m.indicator
    OBVIOUS
  <2> HIDE DEF opened
  <2> QED BY <1>0, <2>1, <2>3, <2>4, <2>5
<1>2. ASSUME NEW x \in HashText, NEW s \in Secret, NEW untrn \in Coins,
             NEW relay \in RelayCoins, ClaimMint(x, s, untrn, relay)
      PROVE  InboundStep(y)
  BY <1>0, <1>2 DEF ClaimMint
<1>3. ASSUME NEW x \in HashText, RefundMint(x)
      PROVE  InboundStep(y)
  BY <1>0, <1>3 DEF RefundMint
<1>4. ASSUME NEW sender, NEW c, NEW amount, NEW x, NEW timelock, NEW evmRecipient,
             NEW dest, NEW bounty, NEW untrn, NEW relay,
             LockForBurn(sender, c, amount, x, timelock, evmRecipient, dest, bounty, untrn, relay)
      PROVE  InboundStep(y)
  BY <1>4 DEF LockForBurn
<1>5. ASSUME NEW caller, NEW x, NEW s, ClaimBurn(caller, x, s) \/ RefundBurn(caller, x)
      PROVE  InboundStep(y)
  BY <1>5 DEF ClaimBurn, RefundBurn
<1>6. CASE OtherStep
  BY <1>6, OtherStepKeepsRecords
<1> QED
  BY <1>1, <1>2, <1>3, <1>4, <1>5, <1>6, Steps
  DEF OtherStep, Prepares, ClaimsMint, RefundsMint, LocksForBurn, ClaimsBurn, RefundsBurn

LEMMA OutboundOfStep ==
  ASSUME Stored, [CosmosNext]_cosmosVars, NEW y \in HashText
  PROVE  OutboundStep(y)
<1> USE DEF OutboundStep
<1>0. outboundLocks \in [HashText -> OutboundLock]
  BY DEF Stored
<1>1. ASSUME NEW sender \in CosmosAccount, NEW m \in PrepareArgs, PrepareMint(sender, m)
      PROVE  OutboundStep(y)
  BY <1>1 DEF PrepareMint
<1>2. ASSUME NEW x \in HashText, NEW s \in Secret, NEW untrn \in Coins,
             NEW relay \in RelayCoins, ClaimMint(x, s, untrn, relay)
      PROVE  OutboundStep(y)
  BY <1>2 DEF ClaimMint
<1>3. CASE RefundsMint
  BY <1>3 DEF RefundsMint, RefundMint
<1>4. ASSUME NEW sender \in CosmosAccount, NEW c \in ClassId, NEW amount \in CosmosAmount,
             NEW x \in HashText, NEW timelock \in CosmosTimelock, NEW evmRecipient \in Address,
             NEW dest \in Endpoint, NEW bounty \in Coins, NEW untrn \in Coins,
             NEW relay \in RelayCoins,
             LockForBurn(sender, c, amount, x, timelock, evmRecipient, dest, bounty, untrn, relay)
      PROVE  OutboundStep(y)
  <2> DEFINE opened == [state |-> "Locked", sender |-> sender, class |-> c, amount |-> amount,
             evmRecipient |-> evmRecipient, destination |-> dest, timelock |-> timelock,
             bounty |-> bounty, secret |-> NoSecret]
  <2>1. amount \in 1..MaxUint128 /\ bounty \in Nat /\ bounty >= MinBounty
    BY <1>4, ReceiverAssumption DEF LockForBurn
  <2>2. opened \in OutboundRecord
    BY <2>1 DEF OutboundRecord
  <2>3. outboundLocks' = [outboundLocks EXCEPT ![x] = opened]
        /\ outboundLocks[x].state = "None" /\ UNCHANGED classes
        /\ classes[c] # EmptyString
    BY <1>4 DEF LockForBurn, Outbound, registryVarsC
  <2>4. opened.state = "Locked" /\ opened.bounty = bounty /\ opened.class = c
    OBVIOUS
  <2> HIDE DEF opened
  <2> QED BY <1>0, <2>1, <2>2, <2>3, <2>4
<1>5. ASSUME NEW caller \in CosmosAccount, NEW x \in HashText, NEW s \in Secret,
             ClaimBurn(caller, x, s)
      PROVE  OutboundStep(y)
  BY <1>0, <1>5 DEF ClaimBurn
<1>6. ASSUME NEW caller \in CosmosAccount, NEW x \in HashText, RefundBurn(caller, x)
      PROVE  OutboundStep(y)
  BY <1>0, <1>6 DEF RefundBurn
<1>7. CASE OtherStep
  BY <1>7, OtherStepKeepsRecords
<1> QED
  BY <1>1, <1>2, <1>3, <1>4, <1>5, <1>6, <1>7, Steps
  DEF OtherStep, Prepares, ClaimsMint, RefundsMint, LocksForBurn, ClaimsBurn, RefundsBurn

----------------------------------------------------------------------------
(* Who writes what: each variable the records rest on, and its writers.     *)

LEMMA Writers ==
  ASSUME [CosmosNext]_cosmosVars
  PROVE  /\ UNCHANGED classes \/ Creates
         /\ UNCHANGED tokenSupply \/ ClaimsMint \/ ClaimsBurn \/ Creates
         /\ UNCHANGED bankSent \/ ClaimsBurn \/ RefundsBurn \/ Withdraws
         /\ UNCHANGED ibcVars \/ ClaimsMint \/ LocksForBurn \/ Answers
         /\ UNCHANGED cosmosNow \/ CosmosTick
<1>1. CASE Prepares
  BY <1>1 DEF Prepares, PrepareMint, registryVarsC, ledgerVars, bankVars
<1>2. CASE ClaimsMint
  <2>1. UNCHANGED <<classes, bankSent, cosmosNow>>
    BY <1>2 DEF ClaimsMint, ClaimMint, registryVarsC, SendThroughAxelar
  <2> QED BY <1>2, <2>1
<1>3. CASE RefundsMint
  BY <1>3 DEF RefundsMint, RefundMint, registryVarsC, ledgerVars, bankVars
<1>4. CASE LocksForBurn
  <2>1. UNCHANGED <<classes, tokenSupply, bankSent, cosmosNow>>
    BY <1>4 DEF LocksForBurn, LockForBurn, registryVarsC, SendThroughAxelar
  <2> QED BY <1>4, <2>1
<1>5. CASE ClaimsBurn
  <2>1. UNCHANGED <<classes, ibcVars, cosmosNow>>
    BY <1>5 DEF ClaimsBurn, ClaimBurn, registryVarsC
  <2> QED BY <1>5, <2>1
<1>6. CASE RefundsBurn
  <2>1. UNCHANGED <<classes, tokenSupply, ibcVars, cosmosNow>>
    BY <1>6 DEF RefundsBurn, RefundBurn, registryVarsC
  <2> QED BY <1>6, <2>1
<1>7. CASE Creates
  <2>1. UNCHANGED <<bankSent, ibcVars, cosmosNow>>
    BY <1>7 DEF Creates, CreateTokenClass, bankVars
  <2> QED BY <1>7, <2>1
<1>8. CASE Moves
  BY <1>8 DEF Moves, Transfer, registryVarsC, bankVars
<1>9. CASE Authorizes
  BY <1>9 DEF Authorizes, AddAuthorizedSender, RemoveAuthorizedSender, registryVarsC, ledgerVars, bankVars
<1>10. CASE Withdraws
  <2>1. UNCHANGED <<classes, tokenSupply, ibcVars, cosmosNow>>
    BY <1>10 DEF Withdraws, WithdrawFunds, registryVarsC, ledgerVars
  <2> QED BY <1>10, <2>1
<1>11. CASE Answers
  <2>1. UNCHANGED <<classes, tokenSupply, bankSent, cosmosNow>>
    BY <1>11 DEF Answers, IbcAccept, IbcReturn, registryVarsC, ledgerVars
  <2> QED BY <1>11, <2>1
<1>12. CASE CosmosTick
  BY <1>12 DEF CosmosTick, registryVarsC, ledgerVars, bankVars
<1>13. CASE UNCHANGED cosmosVars
  BY <1>13 DEF cosmosVars, registryVarsC, ledgerVars, bankVars
<1> QED
  BY <1>1, <1>2, <1>3, <1>4, <1>5, <1>6, <1>7, <1>8, <1>9, <1>10, <1>11, <1>12, <1>13, Steps

LEMMA BoundClassesStay ==
  ASSUME Stored, [CosmosNext]_cosmosVars, NEW c \in ClassId, classes[c] # EmptyString
  PROVE  classes'[c] = classes[c]
<1>1. CASE Creates
  BY <1>1 DEF Creates, CreateTokenClass, Stored
<1> QED
  BY <1>1, Writers

\* Only an IBC packet that a claim or a lock sends is new.
NewMessage(m) ==
  \/ \E x \in HashText, s \in Secret, untrn \in Coins, relay \in RelayCoins :
        /\ ClaimMint(x, s, untrn, relay)
        /\ m = [type |-> "callback", of |-> x, to |-> htlcLocks[x].source,
                hashlock |-> HashOfText[x], secret |-> s, relay |-> relay,
                feeInMemo |-> FeeRecipientConfigured]
  \/ \E sender \in CosmosAccount, c \in ClassId, amount \in CosmosAmount, x \in HashText,
        timelock \in CosmosTimelock, evmRecipient \in Address, dest \in Endpoint,
        bounty, untrn \in Coins, relay \in RelayCoins :
        /\ LockForBurn(sender, c, amount, x, timelock, evmRecipient, dest, bounty, untrn, relay)
        /\ m = [type |-> "prepare", of |-> x, to |-> dest, hashlock |-> HashOfText[x],
                indicatorId |-> IndicatorOf[classes[c]], tokenId |-> TokenNumber[c],
                amount |-> amount, recipient |-> evmRecipient,
                timeout |-> EvmTimeout(timelock), relay |-> relay,
                feeInMemo |-> FeeRecipientConfigured]

LEMMA MessagesOfStep ==
  ASSUME [CosmosNext]_cosmosVars, NEW m \in (ibcInFlight \cup cosmosCalls)',
         m \notin ibcInFlight \cup cosmosCalls
  PROVE  NewMessage(m)
<1>1. ASSUME NEW x \in HashText, NEW s \in Secret, NEW untrn \in Coins,
             NEW relay \in RelayCoins, ClaimMint(x, s, untrn, relay)
      PROVE  NewMessage(m)
  <2> DEFINE sent == [type |-> "callback", of |-> x, to |-> htlcLocks[x].source,
                hashlock |-> HashOfText[x], secret |-> s, relay |-> relay,
                feeInMemo |-> FeeRecipientConfigured]
  <2>1. \/ ibcInFlight' = ibcInFlight \cup {sent} /\ UNCHANGED cosmosCalls
        \/ UNCHANGED ibcVars
    BY <1>1 DEF ClaimMint, SendThroughAxelar
  <2>2. m = sent
    BY <2>1 DEF ibcVars
  <2> QED BY <1>1, <2>2 DEF NewMessage
<1>2. ASSUME NEW sender \in CosmosAccount, NEW c \in ClassId, NEW amount \in CosmosAmount,
             NEW x \in HashText, NEW timelock \in CosmosTimelock, NEW evmRecipient \in Address,
             NEW dest \in Endpoint, NEW bounty \in Coins, NEW untrn \in Coins,
             NEW relay \in RelayCoins,
             LockForBurn(sender, c, amount, x, timelock, evmRecipient, dest, bounty, untrn, relay)
      PROVE  NewMessage(m)
  <2> DEFINE sent == [type |-> "prepare", of |-> x, to |-> dest, hashlock |-> HashOfText[x],
                indicatorId |-> IndicatorOf[classes[c]], tokenId |-> TokenNumber[c],
                amount |-> amount, recipient |-> evmRecipient,
                timeout |-> EvmTimeout(timelock), relay |-> relay,
                feeInMemo |-> FeeRecipientConfigured]
  <2>1. ibcInFlight' = ibcInFlight \cup {sent} /\ UNCHANGED cosmosCalls
    BY <1>2 DEF LockForBurn, SendThroughAxelar
  <2>2. m = sent
    BY <2>1
  <2> QED BY <1>2, <2>2 DEF NewMessage
<1>3. CASE Answers
  BY <1>3 DEF Answers, IbcAccept, IbcReturn
<1>4. CASE UNCHANGED ibcVars
  BY <1>4 DEF ibcVars
<1> QED
  BY <1>1, <1>2, <1>3, <1>4, Writers DEF ClaimsMint, LocksForBurn

\* Supplies and payments stay natural numbers, and a class that is not bound keeps the
\* supply it has.
LEMMA SupplyOfStep ==
  ASSUME Stored, [CosmosNext]_cosmosVars
  PROVE  /\ tokenSupply' \in [ClassId -> Nat]
         /\ \A c \in ClassId : classes[c] = EmptyString /\ tokenSupply[c] = 0
                => tokenSupply'[c] = 0
<1>0. tokenSupply \in [ClassId -> Nat] /\ MaxUint128 \in Nat
  BY ReceiverAssumption DEF Stored
<1>1. ASSUME NEW x \in HashText, NEW s \in Secret, NEW untrn \in Coins,
             NEW relay \in RelayCoins, ClaimMint(x, s, untrn, relay)
      PROVE  /\ tokenSupply' \in [ClassId -> Nat]
             /\ \A c \in ClassId : classes[c] = EmptyString => tokenSupply'[c] = tokenSupply[c]
  <2>1. htlcLocks[x] \in InboundRecord
    BY <1>1, InboundFields DEF ClaimMint
  <2>2. htlcLocks[x].class \in ClassId /\ htlcLocks[x].amount \in Nat
    BY <1>0, <2>1 DEF InboundRecord
  <2> QED BY <1>0, <1>1, <2>2 DEF ClaimMint
<1>2. ASSUME NEW caller \in CosmosAccount, NEW x \in HashText, NEW s \in Secret,
             ClaimBurn(caller, x, s)
      PROVE  /\ tokenSupply' \in [ClassId -> Nat]
             /\ \A c \in ClassId : tokenSupply[c] = 0 => tokenSupply'[c] = 0
  <2>1. outboundLocks[x] \in OutboundRecord
    BY <1>2, OutboundFields DEF ClaimBurn
  <2>2. outboundLocks[x].class \in ClassId /\ outboundLocks[x].amount \in Nat
    BY <1>0, <2>1 DEF OutboundRecord
  <2>3. tokenSupply' = [tokenSupply EXCEPT ![outboundLocks[x].class] =
                            SaturatingSub(@, outboundLocks[x].amount)]
    BY <1>2 DEF ClaimBurn
  <2>4. \A a, b \in Nat : SaturatingSub(a, b) \in Nat /\ SaturatingSub(0, b) = 0
    BY DEF SaturatingSub
  <2> QED BY <1>0, <2>2, <2>3, <2>4
<1>3. ASSUME NEW c \in ClassId, NEW i \in IndicatorText, CreateTokenClass(c, i)
      PROVE  /\ tokenSupply' \in [ClassId -> Nat]
             /\ \A d \in ClassId : tokenSupply[d] = 0 => tokenSupply'[d] = 0
  BY <1>0, <1>3 DEF CreateTokenClass
<1>4. CASE UNCHANGED tokenSupply
  BY <1>0, <1>4
<1> QED
  BY <1>1, <1>2, <1>3, <1>4, Writers DEF ClaimsMint, ClaimsBurn, Creates

LEMMA PaymentsAreNat ==
  ASSUME bankSent \in [CosmosAccount -> [CosmosAccount -> Nat]],
         NEW caller \in CosmosAccount, NEW to \in CosmosAccount, NEW n \in Nat,
         bankSent' = [bankSent EXCEPT ![caller][to] = @ + n]
  PROVE  bankSent' \in [CosmosAccount -> [CosmosAccount -> Nat]]
<1>1. bankSent[caller] \in [CosmosAccount -> Nat]
  OBVIOUS
<1>2. [bankSent[caller] EXCEPT ![to] = @ + n] \in [CosmosAccount -> Nat]
  BY <1>1
<1>3. bankSent' = [bankSent EXCEPT ![caller] = [bankSent[caller] EXCEPT ![to] = @ + n]]
  OBVIOUS
<1> QED
  BY <1>2, <1>3

LEMMA BankSentOfStep ==
  ASSUME Stored, [CosmosNext]_cosmosVars
  PROVE  bankSent' \in [CosmosAccount -> [CosmosAccount -> Nat]]
<1> DEFINE Goal == bankSent' \in [CosmosAccount -> [CosmosAccount -> Nat]]
<1>0. bankSent \in [CosmosAccount -> [CosmosAccount -> Nat]]
  BY DEF Stored
<1>1. ASSUME NEW caller \in CosmosAccount, NEW x \in HashText, NEW s \in Secret,
             ClaimBurn(caller, x, s)
      PROVE  Goal
  <2>1. outboundLocks[x] \in OutboundRecord
    BY <1>1, OutboundFields DEF ClaimBurn
  <2>2. outboundLocks[x].bounty \in Nat /\ outboundLocks[x].sender \in CosmosAccount
    BY <2>1 DEF OutboundRecord
  <2>3. BountyPayee(caller, outboundLocks[x]) \in CosmosAccount
    BY <2>2 DEF BountyPayee
  <2> QED BY <1>0, <1>1, <2>2, <2>3, PaymentsAreNat DEF ClaimBurn, SendUntrn
<1>2. ASSUME NEW caller \in CosmosAccount, NEW x \in HashText, RefundBurn(caller, x)
      PROVE  Goal
  <2>1. outboundLocks[x] \in OutboundRecord
    BY <1>2, OutboundFields DEF RefundBurn
  <2>2. outboundLocks[x].bounty \in Nat /\ outboundLocks[x].sender \in CosmosAccount
    BY <2>1 DEF OutboundRecord
  <2> QED BY <1>0, <1>2, <2>2, PaymentsAreNat DEF RefundBurn, SendUntrn
<1>3. ASSUME NEW untrn \in Coins, NEW relay \in RelayCoins, NEW to \in CosmosAccount,
             WithdrawFunds(untrn, relay, to)
      PROVE  Goal
  <2>1. untrn \in Nat /\ CosmosOwner \in CosmosAccount
    BY ReceiverAssumption
  <2> QED BY <1>0, <1>3, <2>1, PaymentsAreNat DEF WithdrawFunds
<1>4. CASE UNCHANGED bankSent
  BY <1>0, <1>4
<1> QED
  BY <1>1, <1>2, <1>3, <1>4, Writers DEF ClaimsBurn, RefundsBurn, Withdraws

LEMMA InboundTypeKept ==
  ASSUME Stored, NEW x \in HashText, InboundStep(x)
  PROVE  htlcLocks'[x] \in HTLCLock
<1>1. CASE htlcLocks'[x] = htlcLocks[x] \/ htlcLocks'[x] \in InboundRecord
  BY <1>1 DEF Stored, HTLCLock, InboundRecord
<1>2. CASE htlcLocks[x].state = "Pending"
  <2>1. htlcLocks[x] \in InboundRecord
    BY <1>2, InboundFields
  <2>2. \A s \in Secret : [htlcLocks[x] EXCEPT !.state = "Claimed", !.secret = s] \in InboundRecord
    BY <2>1 DEF InboundRecord
  <2>3. [htlcLocks[x] EXCEPT !.state = "Refunded"] \in InboundRecord
    BY <2>1 DEF InboundRecord
  <2> QED BY <1>1, <1>2, <2>2, <2>3 DEF InboundStep
<1> QED
  BY <1>1, <1>2 DEF InboundStep

LEMMA OutboundTypeKept ==
  ASSUME Stored, NEW x \in HashText, OutboundStep(x)
  PROVE  outboundLocks'[x] \in OutboundLock
<1>1. CASE outboundLocks'[x] = outboundLocks[x] \/ outboundLocks'[x] \in OutboundRecord
  BY <1>1 DEF Stored, OutboundLock, OutboundRecord
<1>2. CASE outboundLocks[x].state = "Locked"
  <2>1. outboundLocks[x] \in OutboundRecord
    BY <1>2, OutboundFields
  <2>2. \A s \in Secret :
          [outboundLocks[x] EXCEPT !.state = "Claimed", !.secret = s, !.bounty = 0] \in OutboundRecord
    BY <2>1 DEF OutboundRecord
  <2>3. [outboundLocks[x] EXCEPT !.state = "Refunded", !.bounty = 0] \in OutboundRecord
    BY <2>1 DEF OutboundRecord
  <2> QED BY <1>1, <1>2, <2>2, <2>3 DEF OutboundStep
<1> QED
  BY <1>1, <1>2 DEF OutboundStep

\* The records stay functions on their keys.
LEMMA DomainsKept ==
  ASSUME Stored, [CosmosNext]_cosmosVars
  PROVE  /\ htlcLocks' = [x \in HashText |-> htlcLocks'[x]]
         /\ outboundLocks' = [x \in HashText |-> outboundLocks'[x]]
<1>0. /\ htlcLocks = [x \in HashText |-> htlcLocks[x]]
      /\ outboundLocks = [x \in HashText |-> outboundLocks[x]]
  BY DEF Stored
<1>1. CASE Prepares
  BY <1>0, <1>1 DEF Prepares, PrepareMint
<1>2. CASE ClaimsMint
  BY <1>0, <1>2 DEF ClaimsMint, ClaimMint
<1>3. CASE RefundsMint
  BY <1>0, <1>3 DEF RefundsMint, RefundMint
<1>4. CASE LocksForBurn
  BY <1>0, <1>4 DEF LocksForBurn, LockForBurn
<1>5. CASE ClaimsBurn
  BY <1>0, <1>5 DEF ClaimsBurn, ClaimBurn
<1>6. CASE RefundsBurn
  BY <1>0, <1>6 DEF RefundsBurn, RefundBurn
<1>7. CASE OtherStep
  BY <1>0, <1>7, OtherStepKeepsRecords
<1> QED
  BY <1>1, <1>2, <1>3, <1>4, <1>5, <1>6, <1>7, Steps DEF OtherStep

----------------------------------------------------------------------------
LEMMA StoredStep == Stored /\ [CosmosNext]_cosmosVars => Stored'
<1> SUFFICES ASSUME Stored, [CosmosNext]_cosmosVars PROVE Stored'
  OBVIOUS
<1>1. htlcLocks' \in [HashText -> HTLCLock] /\ outboundLocks' \in [HashText -> OutboundLock]
  <2>1. \A x \in HashText : htlcLocks'[x] \in HTLCLock
    BY InboundOfStep, InboundTypeKept
  <2>2. \A x \in HashText : outboundLocks'[x] \in OutboundLock
    BY OutboundOfStep, OutboundTypeKept
  <2> QED BY <2>1, <2>2, DomainsKept
<1>2. classes' \in [ClassId -> IndicatorText \cup {EmptyString}]
  BY Writers DEF Stored, Creates, CreateTokenClass
<1>3. /\ tokenSupply' \in [ClassId -> Nat]
      /\ bankSent' \in [CosmosAccount -> [CosmosAccount -> Nat]]
  BY SupplyOfStep, BankSentOfStep
<1>4. \A m \in (ibcInFlight \cup cosmosCalls)' : m.of \in HashText
  <2>1. \A m : NewMessage(m) => m.of \in HashText
    BY DEF NewMessage
  <2> QED BY <2>1, MessagesOfStep DEF Stored
<1>5. cosmosNow' \in Nat
  BY Writers DEF Stored, CosmosTick
<1> QED
  BY <1>1, <1>2, <1>3, <1>4, <1>5 DEF Stored

LEMMA OpenRecordsStep ==
  ASSUME Stored, OpenRecords, [CosmosNext]_cosmosVars
  PROVE  OpenRecords'
<1>1. ASSUME NEW x \in HashText, htlcLocks'[x].state = "Pending"
      PROVE  htlcLocks'[x].secret = NoSecret
  <2>1. InboundStep(x)
    BY InboundOfStep
  <2>2. htlcLocks[x].state = "Pending" =>
          /\ \A s : [htlcLocks[x] EXCEPT !.state = "Claimed", !.secret = s].state = "Claimed"
          /\ [htlcLocks[x] EXCEPT !.state = "Refunded"].state = "Refunded"
    BY InboundFields DEF InboundRecord
  <2> QED BY <1>1, <2>1, <2>2 DEF InboundStep, OpenRecords
<1>2. ASSUME NEW x \in HashText, outboundLocks'[x].state # "None"
      PROVE  /\ outboundLocks'[x].state = "Locked" => outboundLocks'[x].bounty >= MinBounty
             /\ classes'[outboundLocks'[x].class] # EmptyString
  <2> DEFINE lock == outboundLocks[x]
  <2>1. OutboundStep(x)
    BY OutboundOfStep
  <2>2. lock.state # "None" =>
          /\ lock.class \in ClassId /\ classes'[lock.class] # EmptyString
          /\ lock.state = "Locked" => lock.bounty >= MinBounty
    BY OutboundFields, BoundClassesStay DEF OutboundRecord, OpenRecords
  <2>3. lock.state = "Locked" =>
          /\ \A s : LET claimed == [lock EXCEPT !.state = "Claimed", !.secret = s, !.bounty = 0]
                    IN claimed.state = "Claimed" /\ claimed.class = lock.class
          /\ LET refunded == [lock EXCEPT !.state = "Refunded", !.bounty = 0]
             IN refunded.state = "Refunded" /\ refunded.class = lock.class
    BY OutboundFields DEF OutboundRecord
  <2> HIDE DEF lock
  <2>4. CASE outboundLocks'[x] = lock
    BY <1>2, <2>2, <2>4
  <2>5. CASE /\ outboundLocks'[x].bounty >= MinBounty
             /\ classes[outboundLocks'[x].class] # EmptyString /\ UNCHANGED classes
    BY <2>5
  <2>6. CASE /\ lock.state = "Locked"
             /\ \E s \in Secret : outboundLocks'[x] =
                    [lock EXCEPT !.state = "Claimed", !.secret = s, !.bounty = 0]
    BY <2>2, <2>3, <2>6
  <2>7. CASE /\ lock.state = "Locked"
             /\ outboundLocks'[x] = [lock EXCEPT !.state = "Refunded", !.bounty = 0]
    BY <2>2, <2>3, <2>7
  <2> QED BY <2>1, <2>4, <2>5, <2>6, <2>7 DEF OutboundStep, lock
<1> QED
  BY <1>1, <1>2 DEF OpenRecords

LEMMA RecordsInit == CosmosInit => RecordInv
  BY ReceiverAssumption
  DEF CosmosInit, CosmosInitWith, RecordInv, Stored, OpenRecords, HTLCLock, OutboundLock,
      NoInbound, NoOutbound

LEMMA RecordsStep == RecordInv /\ [CosmosNext]_cosmosVars => RecordInv'
  BY StoredStep, OpenRecordsStep DEF RecordInv

\* The inductive invariant: the contract's records stay of their shape, a pending mint
\* has no secret yet, an open outbound lock has the bounty lock_for_burn asked for, and
\* every class that was locked is registered.
THEOREM RecordsKeep == CosmosSpec => []RecordInv
  BY RecordsInit, RecordsStep, PTL DEF CosmosSpec

----------------------------------------------------------------------------
\* claim_mint and refund_mint decide a pending mint once between them, the one strictly
\* before its deadline with the right secret, the other from it on; no replayed
\* prepare_mint, no outbound transfer and no packet that comes back touches it again.
THEOREM InboundDecides == CosmosSpec => InboundDecidedOnce
<1>1. RecordInv /\ [CosmosNext]_cosmosVars =>
        [\A x \in HashText : htlcLocks[x].state # "None" =>
          \/ htlcLocks'[x] = htlcLocks[x]
          \/ /\ htlcLocks[x].state = "Pending"
             /\ htlcLocks'[x] = [htlcLocks[x] EXCEPT !.state = htlcLocks'[x].state,
                                                     !.secret = htlcLocks'[x].secret]
             /\ htlcLocks'[x].state =
                  (IF cosmosNow < htlcLocks[x].timeout THEN "Claimed" ELSE "Refunded")
             /\ htlcLocks'[x].secret # NoSecret => HashOf[htlcLocks'[x].secret] = HashOfText[x]
         ]_cosmosVars
  <2> SUFFICES ASSUME RecordInv, [CosmosNext]_cosmosVars, NEW x \in HashText,
                      htlcLocks[x].state # "None", htlcLocks'[x] # htlcLocks[x]
               PROVE  /\ htlcLocks[x].state = "Pending"
                      /\ htlcLocks'[x] = [htlcLocks[x] EXCEPT !.state = htlcLocks'[x].state,
                                                              !.secret = htlcLocks'[x].secret]
                      /\ htlcLocks'[x].state =
                           (IF cosmosNow < htlcLocks[x].timeout THEN "Claimed" ELSE "Refunded")
                      /\ htlcLocks'[x].secret # NoSecret =>
                           HashOf[htlcLocks'[x].secret] = HashOfText[x]
    OBVIOUS
  <2>1. Stored /\ InboundStep(x)
    BY InboundOfStep DEF RecordInv
  <2>2. htlcLocks[x] \in InboundRecord /\ htlcLocks[x].timeout \in Nat /\ cosmosNow \in Nat
    BY <2>1, InboundFields, ReceiverAssumption DEF InboundRecord, CosmosTimelock, Stored
  <2>3. CASE /\ htlcLocks[x].state = "Pending" /\ cosmosNow < htlcLocks[x].timeout
             /\ \E s \in Secret : /\ HashOf[s] = HashOfText[x]
                                  /\ htlcLocks'[x] = [htlcLocks[x] EXCEPT !.state = "Claimed",
                                                                          !.secret = s]
    BY <2>2, <2>3 DEF InboundRecord
  <2>4. CASE /\ htlcLocks[x].state = "Pending" /\ cosmosNow >= htlcLocks[x].timeout
             /\ htlcLocks'[x] = [htlcLocks[x] EXCEPT !.state = "Refunded"]
    <3>1. htlcLocks[x].secret = NoSecret
      BY <2>4 DEF RecordInv, OpenRecords
    <3>2. /\ htlcLocks'[x].state = "Refunded" /\ htlcLocks'[x].secret = htlcLocks[x].secret
          /\ htlcLocks'[x] = [htlcLocks[x] EXCEPT !.state = "Refunded",
                                                  !.secret = htlcLocks[x].secret]
      BY <2>2, <2>4 DEF InboundRecord
    <3>3. ~(cosmosNow < htlcLocks[x].timeout)
      BY <2>2, <2>4
    <3> QED BY <2>4, <3>1, <3>2, <3>3
  <2> QED BY <2>1, <2>3, <2>4 DEF InboundStep
<1> QED
  BY <1>1, RecordsKeep, PTL DEF CosmosSpec, InboundDecidedOnce

\* What an inbound transfer has minted or will mint is units of a class registered for
\* the indicator its message named, and a class never registered has no supply.
THEOREM MintsKeepRegistry == CosmosSpec => []MintsMatchRegistry
<1>1. CosmosInit => MintsMatchRegistry
  BY DEF CosmosInit, CosmosInitWith, MintsMatchRegistry, NoInbound
<1>2. RecordInv /\ MintsMatchRegistry /\ [CosmosNext]_cosmosVars => MintsMatchRegistry'
  <2> SUFFICES ASSUME Stored, MintsMatchRegistry, [CosmosNext]_cosmosVars
               PROVE  MintsMatchRegistry'
    BY DEF RecordInv
  <2>1. ASSUME NEW x \in HashText, htlcLocks'[x].state # "None"
        PROVE  /\ classes'[htlcLocks'[x].class] # EmptyString
               /\ IndicatorOf[classes'[htlcLocks'[x].class]] =
                        IndicatorOf[htlcLocks'[x].indicator]
    <3>1. CASE htlcLocks[x].state = "None"
      BY <2>1, <3>1, InboundOfStep DEF InboundStep, IndicatorMatches
    <3>2. CASE htlcLocks[x].state # "None"
      <4>1. htlcLocks[x] \in InboundRecord
        BY <3>2, InboundFields
      <4>2. /\ htlcLocks'[x].class = htlcLocks[x].class
            /\ htlcLocks'[x].indicator = htlcLocks[x].indicator
        <5>1. \/ htlcLocks'[x] = htlcLocks[x]
              \/ \E s \in Secret : htlcLocks'[x] = [htlcLocks[x] EXCEPT !.state = "Claimed",
                                                                        !.secret = s]
              \/ htlcLocks'[x] = [htlcLocks[x] EXCEPT !.state = "Refunded"]
          BY <3>2, InboundOfStep DEF InboundStep
        <5> QED BY <4>1, <5>1 DEF InboundRecord
      <4>3. htlcLocks[x].class \in ClassId
        BY <4>1 DEF InboundRecord
      <4>4. /\ classes[htlcLocks[x].class] # EmptyString
            /\ IndicatorOf[classes[htlcLocks[x].class]] = IndicatorOf[htlcLocks[x].indicator]
        BY <3>2 DEF MintsMatchRegistry
      <4> QED BY <4>2, <4>3, <4>4, BoundClassesStay
    <3> QED BY <3>1, <3>2
  <2>2. ASSUME NEW c \in ClassId, classes'[c] = EmptyString
        PROVE  tokenSupply'[c] = 0
    <3>1. classes[c] = EmptyString
      BY <2>2, BoundClassesStay
    <3> QED BY <3>1, SupplyOfStep DEF MintsMatchRegistry
  <2> QED BY <2>1, <2>2 DEF MintsMatchRegistry
<1> QED
  BY <1>1, <1>2, RecordsKeep, PTL DEF CosmosSpec

----------------------------------------------------------------------------
\* The terms of an outbound lock, settled or not.
Terms(lock) == <<lock.class, lock.amount, lock.evmRecipient, lock.destination, lock.timelock>>

LEMMA TermsStay ==
  ASSUME Stored, [CosmosNext]_cosmosVars, NEW x \in HashText, outboundLocks[x].state # "None"
  PROVE  outboundLocks'[x].state # "None" /\ Terms(outboundLocks'[x]) = Terms(outboundLocks[x])
<1>1. outboundLocks[x] \in OutboundRecord
  BY OutboundFields
<1>2. \/ outboundLocks'[x] = outboundLocks[x]
      \/ \E s \in Secret : outboundLocks'[x] =
            [outboundLocks[x] EXCEPT !.state = "Claimed", !.secret = s, !.bounty = 0]
      \/ outboundLocks'[x] = [outboundLocks[x] EXCEPT !.state = "Refunded", !.bounty = 0]
  BY OutboundOfStep DEF OutboundStep
<1> QED
  BY <1>1, <1>2 DEF OutboundRecord, Terms

\* What MessagesMatchLocks says of one message.
PrepareMatches(m) ==
  LET lock == outboundLocks[m.of] IN
  /\ lock.state # "None"
  /\ m.amount = lock.amount /\ m.recipient = lock.evmRecipient
  /\ m.to = lock.destination /\ m.tokenId = TokenNumber[lock.class]
  /\ m.indicatorId = IndicatorOf[classes[lock.class]]
  /\ m.timeout + EVM_TIMEOUT_BUFFER_SECS = lock.timelock

CallbackMatches(m) ==
  /\ htlcLocks[m.of].state = "Claimed"
  /\ m.to = htlcLocks[m.of].source
  /\ m.secret = htlcLocks[m.of].secret /\ HashOf[m.secret] = m.hashlock

LEMMA NewMessageMatches ==
  ASSUME Stored, NEW m, NewMessage(m)
  PROVE  /\ m.type = "prepare" => PrepareMatches(m)'
         /\ m.type = "callback" => CallbackMatches(m)'
<1>0. htlcLocks \in [HashText -> HTLCLock] /\ outboundLocks \in [HashText -> OutboundLock]
  BY DEF Stored
<1>1. ASSUME NEW x \in HashText, NEW s \in Secret, NEW untrn \in Coins,
             NEW relay \in RelayCoins, ClaimMint(x, s, untrn, relay),
             m = [type |-> "callback", of |-> x, to |-> htlcLocks[x].source,
                  hashlock |-> HashOfText[x], secret |-> s, relay |-> relay,
                  feeInMemo |-> FeeRecipientConfigured]
      PROVE  m.type = "callback" /\ CallbackMatches(m)'
  <2>1. htlcLocks[x] \in InboundRecord /\ HashOf[s] = HashOfText[x]
    BY <1>1, InboundFields DEF ClaimMint
  <2>2. htlcLocks'[x] = [htlcLocks[x] EXCEPT !.state = "Claimed", !.secret = s]
    BY <1>0, <1>1 DEF ClaimMint
  <2>3. /\ htlcLocks'[x].state = "Claimed" /\ htlcLocks'[x].secret = s
        /\ htlcLocks'[x].source = htlcLocks[x].source
    BY <2>1, <2>2 DEF InboundRecord
  <2>4. m.type = "callback" /\ m.of = x /\ m.to = htlcLocks[x].source
        /\ m.hashlock = HashOfText[x] /\ m.secret = s
    BY <1>1
  <2> QED BY <2>1, <2>3, <2>4 DEF CallbackMatches
<1>2. ASSUME NEW sender \in CosmosAccount, NEW c \in ClassId, NEW amount \in CosmosAmount,
             NEW x \in HashText, NEW timelock \in CosmosTimelock, NEW evmRecipient \in Address,
             NEW dest \in Endpoint, NEW bounty \in Coins, NEW untrn \in Coins,
             NEW relay \in RelayCoins,
             LockForBurn(sender, c, amount, x, timelock, evmRecipient, dest, bounty, untrn, relay),
             m = [type |-> "prepare", of |-> x, to |-> dest, hashlock |-> HashOfText[x],
                  indicatorId |-> IndicatorOf[classes[c]], tokenId |-> TokenNumber[c],
                  amount |-> amount, recipient |-> evmRecipient,
                  timeout |-> EvmTimeout(timelock), relay |-> relay,
                  feeInMemo |-> FeeRecipientConfigured]
      PROVE  m.type = "prepare" /\ PrepareMatches(m)'
  <2>1. outboundLocks'[x] =
            [state |-> "Locked", sender |-> sender, class |-> c, amount |-> amount,
             evmRecipient |-> evmRecipient, destination |-> dest, timelock |-> timelock,
             bounty |-> bounty, secret |-> NoSecret]
        /\ classes' = classes
    BY <1>0, <1>2 DEF LockForBurn, registryVarsC
  <2>2. EvmTimeout(timelock) + EVM_TIMEOUT_BUFFER_SECS = timelock
    BY ReceiverAssumption DEF EvmTimeout, CosmosTimelock
  <2>3. m.type = "prepare" /\ m.of = x /\ m.to = dest /\ m.amount = amount
        /\ m.recipient = evmRecipient /\ m.tokenId = TokenNumber[c]
        /\ m.indicatorId = IndicatorOf[classes[c]] /\ m.timeout = EvmTimeout(timelock)
    BY <1>2
  <2> QED BY <2>1, <2>2, <2>3 DEF PrepareMatches
<1> QED
  BY <1>1, <1>2 DEF NewMessage

\* Whatever Axelar later delivers of this contract's messages stems from its records: a
\* prepare message from a lock that escrowed the units, with a deadline
\* EVM_TIMEOUT_BUFFER_SECS before its refund, a callback from a mint made here.
THEOREM MessagesStemFromLocks == CosmosSpec => []MessagesMatchLocks
<1>1. CosmosInit => MessagesMatchLocks
  BY DEF CosmosInit, CosmosInitWith, MessagesMatchLocks
<1>2. RecordInv /\ MessagesMatchLocks /\ [CosmosNext]_cosmosVars => MessagesMatchLocks'
  <2> SUFFICES ASSUME Stored, OpenRecords, MessagesMatchLocks, [CosmosNext]_cosmosVars,
                      NEW m \in (ibcInFlight \cup cosmosCalls)'
               PROVE  /\ m.type = "prepare" => PrepareMatches(m)'
                      /\ m.type = "callback" => CallbackMatches(m)'
    BY DEF RecordInv, MessagesMatchLocks, PrepareMatches, CallbackMatches
  <2>1. CASE m \notin ibcInFlight \cup cosmosCalls
    BY <2>1, MessagesOfStep, NewMessageMatches
  <2>2. CASE m \in ibcInFlight \cup cosmosCalls
    <3>1. m.of \in HashText
      BY <2>2 DEF Stored
    <3>2. ASSUME m.type = "prepare"
          PROVE  PrepareMatches(m)'
      <4>1. PrepareMatches(m)
        BY <2>2, <3>2 DEF MessagesMatchLocks, PrepareMatches
      <4>2. /\ outboundLocks'[m.of].state # "None"
            /\ Terms(outboundLocks'[m.of]) = Terms(outboundLocks[m.of])
        BY <3>1, <4>1, TermsStay DEF PrepareMatches
      <4>3. classes'[outboundLocks[m.of].class] = classes[outboundLocks[m.of].class]
        <5>1. outboundLocks[m.of] \in OutboundRecord
          BY <3>1, <4>1, OutboundFields DEF PrepareMatches
        <5>2. outboundLocks[m.of].class \in ClassId
          BY <5>1 DEF OutboundRecord
        <5> QED BY <3>1, <4>1, <5>2, BoundClassesStay DEF PrepareMatches, OpenRecords
      <4> QED BY <4>1, <4>2, <4>3 DEF PrepareMatches, Terms
    <3>3. ASSUME m.type = "callback"
          PROVE  CallbackMatches(m)'
      <4>1. CallbackMatches(m)
        BY <2>2, <3>3 DEF MessagesMatchLocks, CallbackMatches
      <4>2. htlcLocks'[m.of] = htlcLocks[m.of]
        BY <3>1, <4>1, InboundOfStep DEF InboundStep, CallbackMatches
      <4> QED BY <4>1, <4>2 DEF CallbackMatches
    <3> QED BY <3>2, <3>3
  <2> QED BY <2>1, <2>2
<1> QED
  BY <1>1, <1>2, RecordsKeep, PTL DEF CosmosSpec

----------------------------------------------------------------------------
\* What claim_burn and refund_burn do to a lock.
LEMMA ClaimBurnSettles ==
  ASSUME Stored, NEW caller \in CosmosAccount, NEW x \in HashText, NEW s \in Secret,
         ClaimBurn(caller, x, s)
  PROVE  SettledBy(caller, x) /\ outboundLocks'[x] # outboundLocks[x]
<1> DEFINE lock == outboundLocks[x]
           settled == [lock EXCEPT !.state = "Claimed", !.secret = s, !.bounty = 0]
<1>1. /\ lock.state = "Locked" /\ HashOf[s] = HashOfText[x]
      /\ outboundLocks' = [outboundLocks EXCEPT ![x] = settled]
      /\ outboundLocks \in [HashText -> OutboundLock]
  BY DEF ClaimBurn, Stored
<1>2. lock \in OutboundRecord
  BY <1>1, OutboundFields
<1>3. settled.state = "Claimed" /\ settled.secret = s
  BY <1>2 DEF OutboundRecord
<1>4. outboundLocks'[x] = settled
  BY <1>1
<1>5. /\ bankUntrn' = bankUntrn - lock.bounty
      /\ bankSent' = [bankSent EXCEPT ![caller][BountyPayee(caller, lock)] = @ + lock.bounty]
  BY DEF ClaimBurn, SendUntrn
<1>6. BountyPayee(caller, lock) =
        IF outboundLocks'[x].state = "Claimed" /\ ~IsAuthorized(caller) THEN caller
        ELSE lock.sender
  BY <1>3, <1>4 DEF BountyPayee
<1>7. settled = [lock EXCEPT !.state = outboundLocks'[x].state,
                             !.secret = outboundLocks'[x].secret, !.bounty = 0]
  BY <1>3, <1>4
<1> HIDE DEF lock, settled
<1>8. outboundLocks'[x] # outboundLocks[x]
  BY <1>1, <1>3, <1>4 DEF lock
<1> QED
  BY <1>1, <1>3, <1>4, <1>5, <1>6, <1>7, <1>8 DEF SettledBy, lock

LEMMA RefundBurnSettles ==
  ASSUME Stored, NEW caller \in CosmosAccount, NEW x \in HashText, RefundBurn(caller, x)
  PROVE  SettledBy(caller, x) /\ outboundLocks'[x] # outboundLocks[x]
<1> DEFINE lock == outboundLocks[x]
           settled == [lock EXCEPT !.state = "Refunded", !.bounty = 0]
<1>1. /\ lock.state = "Locked" /\ caller = lock.sender /\ cosmosNow >= lock.timelock
      /\ outboundLocks' = [outboundLocks EXCEPT ![x] = settled]
      /\ outboundLocks \in [HashText -> OutboundLock]
  BY DEF RefundBurn, Stored
<1>2. lock \in OutboundRecord
  BY <1>1, OutboundFields
<1>3. settled.state = "Refunded" /\ settled.secret = lock.secret
      /\ settled = [lock EXCEPT !.state = "Refunded", !.secret = lock.secret, !.bounty = 0]
  BY <1>2 DEF OutboundRecord
<1>4. outboundLocks'[x] = settled
  BY <1>1
<1>5. /\ bankUntrn' = bankUntrn - lock.bounty
      /\ bankSent' = [bankSent EXCEPT ![caller][lock.sender] = @ + lock.bounty]
  BY DEF RefundBurn, SendUntrn
<1>6. lock.sender = IF outboundLocks'[x].state = "Claimed" /\ ~IsAuthorized(caller) THEN caller
                    ELSE lock.sender
  BY <1>3, <1>4
<1>7. settled = [lock EXCEPT !.state = outboundLocks'[x].state,
                             !.secret = outboundLocks'[x].secret, !.bounty = 0]
  BY <1>3, <1>4
<1> HIDE DEF lock, settled
<1>8. outboundLocks'[x] # outboundLocks[x]
  BY <1>1, <1>3, <1>4 DEF lock
<1> QED
  BY <1>1, <1>3, <1>4, <1>5, <1>6, <1>7, <1>8 DEF SettledBy, lock

\* claim_burn and refund_burn settle an outbound lock once between them and pay its
\* bounty in that very step: to a claimer who is no relayer, else back to the locker.
\* In no other call but withdraw_funds, the owner's, does untrn reach an account.
THEOREM BountiesArePaid == CosmosSpec => BountyPaidOnSettlement
<1>1. ASSUME Stored, [CosmosNext]_cosmosVars, NEW x \in HashText,
             outboundLocks[x].state # "None", outboundLocks'[x] # outboundLocks[x]
      PROVE  \E caller \in CosmosAccount : SettledBy(caller, x)
  <2>0. outboundLocks \in [HashText -> OutboundLock]
    BY <1>1 DEF Stored
  <2>1. CASE Prepares \/ ClaimsMint \/ RefundsMint
    BY <1>1, <2>1
    DEF Prepares, PrepareMint, ClaimsMint, ClaimMint, RefundsMint, RefundMint
  <2>2. ASSUME NEW sender, NEW c, NEW amount, NEW z \in HashText, NEW timelock,
               NEW evmRecipient, NEW dest, NEW bounty, NEW untrn, NEW relay,
               LockForBurn(sender, c, amount, z, timelock, evmRecipient, dest, bounty, untrn,
                           relay)
        PROVE  FALSE
    <3>1. z # x
      BY <1>1, <2>2 DEF LockForBurn, Outbound
    <3>2. outboundLocks'[x] = outboundLocks[x]
      BY <2>0, <2>2, <3>1 DEF LockForBurn
    <3> QED BY <1>1, <3>2
  <2>3. ASSUME NEW caller \in CosmosAccount, NEW z \in HashText, NEW s \in Secret,
               ClaimBurn(caller, z, s)
        PROVE  SettledBy(caller, x)
    <3>1. z = x
      BY <1>1, <2>0, <2>3 DEF ClaimBurn
    <3> QED BY <1>1, <2>3, <3>1, ClaimBurnSettles
  <2>4. ASSUME NEW caller \in CosmosAccount, NEW z \in HashText, RefundBurn(caller, z)
        PROVE  SettledBy(caller, x)
    <3>1. z = x
      BY <1>1, <2>0, <2>4 DEF RefundBurn
    <3> QED BY <1>1, <2>4, <3>1, RefundBurnSettles
  <2>5. CASE OtherStep
    BY <1>1, <2>5, OtherStepKeepsRecords
  <2> QED
    BY <1>1, <2>1, <2>2, <2>3, <2>4, <2>5, Steps
    DEF OtherStep, LocksForBurn, ClaimsBurn, RefundsBurn
<1>2. ASSUME Stored, [CosmosNext]_cosmosVars, bankSent' # bankSent
      PROVE  \/ \E x \in HashText : outboundLocks[x].state = "Locked"
                                    /\ outboundLocks'[x] # outboundLocks[x]
             \/ \A a \in CosmosAccount \ {CosmosOwner} : bankSent'[a] = bankSent[a]
  <2>1. CASE ClaimsBurn
    BY <1>2, <2>1, ClaimBurnSettles DEF ClaimsBurn, SettledBy
  <2>2. CASE RefundsBurn
    BY <1>2, <2>2, RefundBurnSettles DEF RefundsBurn, SettledBy
  <2>3. CASE Withdraws
    <3>1. PICK untrn, to : bankSent' = [bankSent EXCEPT ![CosmosOwner][to] = @ + untrn]
      BY <2>3 DEF Withdraws, WithdrawFunds
    <3> QED BY <1>2, <3>1 DEF Stored
  <2> QED BY <1>2, <2>1, <2>2, <2>3, Writers
<1>3. RecordInv /\ [CosmosNext]_cosmosVars =>
        [/\ \A x \in HashText :
              outboundLocks[x].state # "None" /\ outboundLocks'[x] # outboundLocks[x] =>
                  \E caller \in CosmosAccount : SettledBy(caller, x)
         /\ bankSent' # bankSent =>
              \/ \E x \in HashText : outboundLocks[x].state = "Locked"
                                     /\ outboundLocks'[x] # outboundLocks[x]
              \/ \A a \in CosmosAccount \ {CosmosOwner} : bankSent'[a] = bankSent[a]
        ]_cosmosVars
  BY <1>1, <1>2 DEF RecordInv
<1> QED
  BY <1>3, RecordsKeep, PTL DEF CosmosSpec, BountyPaidOnSettlement

----------------------------------------------------------------------------
(* The types the records leave open; that balances and supplies also keep    *)
(* within 128 bits comes with the accounts, below.                           *)

StatsType == [locks : Nat, claimed : 0..MaxUint128, refunded : 0..MaxUint128,
              pending : 0..MaxUint128]

AccountsType ==
    /\ userHtlcLocks \in [CosmosAccount -> Seq(HashText)]
    /\ indicatorClass \in [IndicatorText -> ClassId \cup {EmptyString}]
    /\ cosmosBalances \in [ClassId -> [CosmosAccount -> Nat]]
    /\ totalSupply \in 0..MaxUint128
    /\ stats \in StatsType
    /\ authorizedSenders \subseteq CosmosAccount
    /\ bankUntrn \in Nat /\ bankRelay \in Nat
    /\ ibcInFlight \subseteq CallbackMsg \cup PrepareMsg
    /\ cosmosCalls \subseteq CallbackMsg \cup PrepareMsg
    /\ cosmosNow \in 0..MaxCosmosTime

LEMMA InboundNumbers ==
  ASSUME Stored, NEW x \in HashText, htlcLocks[x].state # "None"
  PROVE  /\ htlcLocks[x].class \in ClassId /\ htlcLocks[x].recipient \in CosmosAccount
         /\ htlcLocks[x].amount \in 1..MaxUint128 /\ htlcLocks[x].amount \in Nat
         /\ htlcLocks[x].source \in Endpoint
<1>1. htlcLocks[x] \in InboundRecord /\ MaxUint128 \in Nat
  BY InboundFields, ReceiverAssumption
<1> QED BY <1>1 DEF InboundRecord

LEMMA OutboundNumbers ==
  ASSUME Stored, NEW x \in HashText, outboundLocks[x].state # "None"
  PROVE  /\ outboundLocks[x].class \in ClassId /\ outboundLocks[x].sender \in CosmosAccount
         /\ outboundLocks[x].amount \in 1..MaxUint128 /\ outboundLocks[x].amount \in Nat
         /\ outboundLocks[x].bounty \in Nat
<1>1. outboundLocks[x] \in OutboundRecord /\ MaxUint128 \in Nat
  BY OutboundFields, ReceiverAssumption
<1> QED BY <1>1 DEF OutboundRecord

LEMMA FeesAreNat == IBC_MIN_FUNDS \in Nat /\ IBC_ACK_FEE \in Nat /\ IBC_TIMEOUT_FEE \in Nat
  BY ReceiverAssumption DEF IBC_MIN_FUNDS

LEMMA AmountsAreNat ==
  /\ CosmosAmount \subseteq Nat /\ Coins \subseteq Nat /\ RelayCoins \subseteq Nat
  /\ MaxUint128 \in Nat
<1>1. CosmosAmount \subseteq 0..MaxUint128 /\ MaxUint128 \in Nat
  BY ReceiverAssumption
<1> QED BY <1>1, ReceiverAssumption

LEMMA StatsChange ==
  ASSUME NEW old \in StatsType, NEW l \in Nat, NEW a \in 0..MaxUint128, NEW b \in 0..MaxUint128
  PROVE  /\ [old EXCEPT !.locks = l] \in StatsType
         /\ [old EXCEPT !.locks = l, !.pending = a] \in StatsType
         /\ [old EXCEPT !.claimed = a, !.pending = b] \in StatsType
         /\ [old EXCEPT !.refunded = a, !.pending = b] \in StatsType
         /\ [old EXCEPT !.claimed = a] \in StatsType
         /\ [old EXCEPT !.refunded = a] \in StatsType
  BY DEF StatsType

LEMMA StatsNumbers ==
  ASSUME stats \in StatsType
  PROVE  /\ stats.locks \in Nat /\ stats.claimed \in 0..MaxUint128
         /\ stats.refunded \in 0..MaxUint128 /\ stats.pending \in 0..MaxUint128
  BY DEF StatsType

\* A balance that grows or shrinks.
LEMMA BalanceChange ==
  ASSUME NEW held \in [ClassId -> [CosmosAccount -> Nat]], NEW c \in ClassId,
         NEW a \in CosmosAccount, NEW n \in Nat
  PROVE  [held EXCEPT ![c][a] = n] \in [ClassId -> [CosmosAccount -> Nat]]
  OBVIOUS

LEMMA PrepareMintAccounts ==
  ASSUME Stored, AccountsType, NEW sender \in CosmosAccount, NEW m \in PrepareArgs,
         PrepareMint(sender, m)
  PROVE  AccountsType'
<1>0. m.hashlock \in HashText /\ m.recipient \in CosmosAccount /\ m.amount \in CosmosAmount
  BY DEF PrepareArgs
<1>1. m.hashlock \in HashText /\ m.recipient \in CosmosAccount /\ m.amount \in Nat
      /\ MaxUint128 \in Nat
  BY <1>0, AmountsAreNat
<1>2. stats' \in StatsType
  <2> DEFINE l == stats.locks + 1
             p == stats.pending + m.amount
  <2>1. stats \in StatsType /\ stats' = [stats EXCEPT !.locks = l, !.pending = p]
    BY DEF PrepareMint, AccountsType
  <2>2. l \in Nat /\ p \in 0..MaxUint128
    BY <1>1, <2>1, StatsNumbers DEF PrepareMint
  <2> HIDE DEF l, p
  <2> QED BY <2>1, <2>2, StatsChange
<1>3. userHtlcLocks' \in [CosmosAccount -> Seq(HashText)]
  BY <1>1 DEF PrepareMint, AccountsType
<1> QED
  BY <1>2, <1>3 DEF PrepareMint, AccountsType, registryVarsC, ledgerVars, bankVars, ibcVars

LEMMA SendThroughAxelarAccounts ==
  ASSUME AccountsType, NEW m \in CallbackMsg \cup PrepareMsg, NEW untrn \in Nat,
         SendThroughAxelar(m, untrn)
  PROVE  /\ bankUntrn' \in Nat /\ bankRelay' \in Nat
         /\ ibcInFlight' \subseteq CallbackMsg \cup PrepareMsg
         /\ cosmosCalls' \subseteq CallbackMsg \cup PrepareMsg
  BY FeesAreNat DEF SendThroughAxelar, AccountsType

LEMMA ClaimMintAccounts ==
  ASSUME Stored, AccountsType, NEW x \in HashText, NEW s \in Secret, NEW untrn \in Coins,
         NEW relay \in RelayCoins, ClaimMint(x, s, untrn, relay)
  PROVE  AccountsType'
<1> DEFINE n == htlcLocks[x].amount
<1>1. /\ htlcLocks[x].class \in ClassId /\ htlcLocks[x].recipient \in CosmosAccount
      /\ n \in Nat /\ htlcLocks[x].source \in Endpoint
      /\ MaxUint128 \in Nat /\ untrn \in Nat /\ relay \in Nat
  BY InboundNumbers, ReceiverAssumption DEF ClaimMint
<1>2. stats' \in StatsType
  <2> DEFINE a == stats.claimed + n
             b == stats.pending - n
  <2>1. /\ stats \in StatsType /\ stats' = [stats EXCEPT !.claimed = a, !.pending = b]
        /\ a <= MaxUint128 /\ stats.pending >= n
    BY DEF ClaimMint, AccountsType
  <2> HIDE DEF n
  <2>2. a \in 0..MaxUint128 /\ b \in 0..MaxUint128
    BY <1>1, <2>1, StatsNumbers
  <2> HIDE DEF a, b
  <2> QED BY <2>1, <2>2, StatsChange
<1>3. cosmosBalances' \in [ClassId -> [CosmosAccount -> Nat]]
  <2> DEFINE c == htlcLocks[x].class
             a == htlcLocks[x].recipient
             m == cosmosBalances[c][a] + n
  <2>1. /\ cosmosBalances \in [ClassId -> [CosmosAccount -> Nat]]
        /\ cosmosBalances' = [cosmosBalances EXCEPT ![c][a] = m]
    BY DEF ClaimMint, AccountsType
  <2>2. c \in ClassId /\ a \in CosmosAccount
    BY <1>1
  <2> HIDE DEF c, a, n
  <2>3. m \in Nat
    BY <1>1, <2>1, <2>2
  <2> HIDE DEF m
  <2> QED BY <2>1, <2>2, <2>3, BalanceChange
<1>4. totalSupply' \in 0..MaxUint128
  <2>1. totalSupply \in 0..MaxUint128 /\ totalSupply' = totalSupply + n
        /\ totalSupply + n <= MaxUint128
    BY DEF ClaimMint, AccountsType
  <2> HIDE DEF n
  <2> QED BY <1>1, <2>1
<1>5. /\ bankUntrn' \in Nat /\ bankRelay' \in Nat
      /\ ibcInFlight' \subseteq CallbackMsg \cup PrepareMsg
      /\ cosmosCalls' \subseteq CallbackMsg \cup PrepareMsg
  <2> DEFINE sent == [type |-> "callback", of |-> x, to |-> htlcLocks[x].source,
                hashlock |-> HashOfText[x], secret |-> s, relay |-> relay,
                feeInMemo |-> FeeRecipientConfigured]
  <2>1. sent \in CallbackMsg
    BY <1>1, ReceiverAssumption DEF CallbackMsg
  <2>2. \/ SendThroughAxelar(sent, untrn)
        \/ bankUntrn' = bankUntrn + untrn /\ bankRelay' = bankRelay + relay
           /\ UNCHANGED <<bankSent, ibcVars>>
    BY DEF ClaimMint
  <2> HIDE DEF sent
  <2> QED BY <1>1, <2>1, <2>2, SendThroughAxelarAccounts DEF AccountsType, ibcVars
<1> QED
  BY <1>2, <1>3, <1>4, <1>5 DEF ClaimMint, AccountsType, registryVarsC

LEMMA RefundMintAccounts ==
  ASSUME Stored, AccountsType, NEW x \in HashText, RefundMint(x)
  PROVE  AccountsType'
<1> DEFINE n == htlcLocks[x].amount
<1>1. n \in Nat /\ MaxUint128 \in Nat
  BY InboundNumbers, ReceiverAssumption DEF RefundMint
<1>2. stats' \in StatsType
  <2> DEFINE a == stats.refunded + n
             b == stats.pending - n
  <2>1. /\ stats \in StatsType /\ stats' = [stats EXCEPT !.refunded = a, !.pending = b]
        /\ a <= MaxUint128 /\ stats.pending >= n
    BY DEF RefundMint, AccountsType
  <2> HIDE DEF n
  <2>2. a \in 0..MaxUint128 /\ b \in 0..MaxUint128
    BY <1>1, <2>1, StatsNumbers
  <2> HIDE DEF a, b
  <2> QED BY <2>1, <2>2, StatsChange
<1> QED
  BY <1>2 DEF RefundMint, AccountsType, registryVarsC, ledgerVars, bankVars, ibcVars

LEMMA LockForBurnAccounts ==
  ASSUME Stored, AccountsType,
         NEW sender \in CosmosAccount, NEW c \in ClassId, NEW amount \in CosmosAmount,
         NEW x \in HashText, NEW timelock \in CosmosTimelock, NEW evmRecipient \in Address,
         NEW dest \in Endpoint, NEW bounty \in Coins, NEW untrn \in Coins,
         NEW relay \in RelayCoins,
         LockForBurn(sender, c, amount, x, timelock, evmRecipient, dest, bounty, untrn, relay)
  PROVE  AccountsType'
<1>1. amount \in Nat /\ MaxUint128 \in Nat /\ untrn \in Nat
  BY ReceiverAssumption
<1>2. stats' \in StatsType
  <2> DEFINE l == stats.locks + 1
  <2>1. stats \in StatsType /\ stats' = [stats EXCEPT !.locks = l]
    BY DEF LockForBurn, AccountsType
  <2>2. l \in Nat
    BY <2>1, StatsNumbers
  <2> HIDE DEF l
  <2> QED BY <2>1, <2>2, StatsChange, ReceiverAssumption
<1>3. cosmosBalances' \in [ClassId -> [CosmosAccount -> Nat]]
  BY <1>1 DEF LockForBurn, AccountsType
<1>4. /\ bankUntrn' \in Nat /\ bankRelay' \in Nat
      /\ ibcInFlight' \subseteq CallbackMsg \cup PrepareMsg
      /\ cosmosCalls' \subseteq CallbackMsg \cup PrepareMsg
  <2> DEFINE sent == [type |-> "prepare", of |-> x, to |-> dest, hashlock |-> HashOfText[x],
                indicatorId |-> IndicatorOf[classes[c]], tokenId |-> TokenNumber[c],
                amount |-> amount, recipient |-> evmRecipient,
                timeout |-> EvmTimeout(timelock), relay |-> relay,
                feeInMemo |-> FeeRecipientConfigured]
  <2>1. EvmTimeout(timelock) \in CosmosTimelock
    <3>1. cosmosNow \in Nat /\ timelock >= cosmosNow + MIN_TIMELOCK_SECS
          /\ MAX_TIMELOCK_SECS \in Nat /\ MaxCosmosTime \in Nat
      BY ReceiverAssumption DEF LockForBurn, Stored
    <3> QED BY <3>1, ReceiverAssumption DEF CosmosTimelock, EvmTimeout
  <2>2. TokenNumber[c] \in Nat /\ IndicatorOf[classes[c]] \in HexIndicator
        /\ HashOfText[x] \in Hash /\ FeeRecipientConfigured \in BOOLEAN
    BY ReceiverAssumption DEF LockForBurn
  <2>3. sent \in PrepareMsg
    BY <2>1, <2>2 DEF PrepareMsg
  <2>4. SendThroughAxelar(sent, untrn)
    BY DEF LockForBurn
  <2> HIDE DEF sent
  <2> QED BY <1>1, <2>3, <2>4, SendThroughAxelarAccounts
<1> QED
  BY <1>2, <1>3, <1>4 DEF LockForBurn, AccountsType, registryVarsC

LEMMA ClaimBurnAccounts ==
  ASSUME Stored, AccountsType, NEW caller \in CosmosAccount, NEW x \in HashText,
         NEW s \in Secret, ClaimBurn(caller, x, s)
  PROVE  AccountsType'
<1> DEFINE n == outboundLocks[x].amount
<1>1. n \in Nat /\ MaxUint128 \in Nat /\ outboundLocks[x].bounty \in Nat
  BY OutboundNumbers, ReceiverAssumption DEF ClaimBurn
<1>2. stats' \in StatsType
  <2> DEFINE a == stats.claimed + n
  <2>1. stats \in StatsType /\ stats' = [stats EXCEPT !.claimed = a] /\ a <= MaxUint128
    BY DEF ClaimBurn, AccountsType
  <2> HIDE DEF n
  <2>2. a \in 0..MaxUint128
    BY <1>1, <2>1, StatsNumbers
  <2> HIDE DEF a
  <2> QED BY <2>1, <2>2, StatsChange, ReceiverAssumption
<1>3. totalSupply' \in 0..MaxUint128
  BY <1>1 DEF ClaimBurn, AccountsType, SaturatingSub
<1>4. bankUntrn' \in Nat /\ UNCHANGED bankRelay
  BY <1>1 DEF ClaimBurn, AccountsType, SendUntrn
<1> QED
  BY <1>2, <1>3, <1>4 DEF ClaimBurn, AccountsType, registryVarsC, ibcVars

LEMMA RefundBurnAccounts ==
  ASSUME Stored, AccountsType, NEW caller \in CosmosAccount, NEW x \in HashText,
         RefundBurn(caller, x)
  PROVE  AccountsType'
<1> DEFINE n == outboundLocks[x].amount
<1>1. /\ n \in Nat /\ MaxUint128 \in Nat /\ outboundLocks[x].bounty \in Nat
      /\ outboundLocks[x].class \in ClassId /\ outboundLocks[x].sender \in CosmosAccount
  BY OutboundNumbers, ReceiverAssumption DEF RefundBurn
<1>2. stats' \in StatsType
  <2> DEFINE a == stats.refunded + n
  <2>1. stats \in StatsType /\ stats' = [stats EXCEPT !.refunded = a] /\ a <= MaxUint128
    BY DEF RefundBurn, AccountsType
  <2> HIDE DEF n
  <2>2. a \in 0..MaxUint128
    BY <1>1, <2>1, StatsNumbers
  <2> HIDE DEF a
  <2> QED BY <2>1, <2>2, StatsChange, ReceiverAssumption
<1>3. cosmosBalances' \in [ClassId -> [CosmosAccount -> Nat]]
  <2> DEFINE c == outboundLocks[x].class
             a == outboundLocks[x].sender
             m == cosmosBalances[c][a] + n
  <2>1. /\ cosmosBalances \in [ClassId -> [CosmosAccount -> Nat]]
        /\ cosmosBalances' = [cosmosBalances EXCEPT ![c][a] = m]
    BY DEF RefundBurn, AccountsType
  <2>2. c \in ClassId /\ a \in CosmosAccount
    BY <1>1
  <2> HIDE DEF c, a, n
  <2>3. m \in Nat
    BY <1>1, <2>1, <2>2
  <2> HIDE DEF m
  <2> QED BY <2>1, <2>2, <2>3, BalanceChange
<1>4. bankUntrn' \in Nat /\ UNCHANGED bankRelay
  <2>1. /\ bankUntrn \in Nat /\ bankUntrn >= outboundLocks[x].bounty
        /\ bankUntrn' = bankUntrn - outboundLocks[x].bounty /\ UNCHANGED bankRelay
    BY DEF RefundBurn, AccountsType, SendUntrn
  <2> QED BY <1>1, <2>1
<1> QED
  BY <1>2, <1>3, <1>4 DEF RefundBurn, AccountsType, registryVarsC, ibcVars

\* transfer, also to oneself.
LEMMA TransferBalances ==
  ASSUME cosmosBalances \in [ClassId -> [CosmosAccount -> Nat]],
         NEW from \in CosmosAccount, NEW to \in CosmosAccount, NEW c \in ClassId,
         NEW amount \in Nat, Transfer(from, to, c, amount), NEW d \in ClassId
  PROVE  /\ cosmosBalances' \in [ClassId -> [CosmosAccount -> Nat]]
         /\ \A a \in CosmosAccount : cosmosBalances'[d][a] =
                IF d # c \/ a \notin {from, to} \/ from = to THEN cosmosBalances[d][a]
                ELSE IF a = from THEN cosmosBalances[d][a] - amount
                     ELSE cosmosBalances[d][a] + amount
<1> DEFINE held == cosmosBalances[c]
<1>1. held \in [CosmosAccount -> Nat] /\ held[from] >= amount
  BY DEF Transfer
<1>2. cosmosBalances' = [cosmosBalances EXCEPT ![c] = Moved(held, from, to, amount)]
  BY DEF Transfer
<1> HIDE DEF held
<1>3. /\ Moved(held, from, to, amount) \in [CosmosAccount -> Nat]
      /\ \A a \in CosmosAccount : Moved(held, from, to, amount)[a] =
            IF a \notin {from, to} \/ from = to THEN held[a]
            ELSE IF a = from THEN held[a] - amount ELSE held[a] + amount
  BY <1>1 DEF Moved
<1> QED BY <1>2, <1>3 DEF held

LEMMA AccountsOfStep ==
  ASSUME Stored, AccountsType, [CosmosNext]_cosmosVars
  PROVE  AccountsType'
<1>1. CASE Creates
  BY <1>1 DEF Creates, CreateTokenClass, AccountsType, bankVars, ibcVars
<1>2. CASE Moves
  <2>1. cosmosBalances' \in [ClassId -> [CosmosAccount -> Nat]]
    BY <1>2, TransferBalances, ReceiverAssumption DEF Moves, AccountsType
  <2> QED BY <1>2, <2>1 DEF Moves, Transfer, AccountsType, registryVarsC, bankVars, ibcVars
<1>3. CASE Authorizes
  BY <1>3 DEF Authorizes, AddAuthorizedSender, RemoveAuthorizedSender, AccountsType,
              registryVarsC, ledgerVars, bankVars, ibcVars
<1>4. CASE Withdraws
  <2>1. bankUntrn' \in Nat /\ bankRelay' \in Nat
    BY <1>4, ReceiverAssumption DEF Withdraws, WithdrawFunds, AccountsType
  <2> QED BY <1>4, <2>1 DEF Withdraws, WithdrawFunds, AccountsType, registryVarsC, ledgerVars, ibcVars
<1>5. CASE Answers
  <2> SUFFICES ASSUME NEW m \in ibcInFlight,
                      IbcAccept(m) \/ \E fee \in {IBC_ACK_FEE, IBC_TIMEOUT_FEE} : IbcReturn(m, fee)
               PROVE  AccountsType'
    BY <1>5 DEF Answers
  <2>1. m \in CallbackMsg \cup PrepareMsg /\ m.relay \in Nat
    BY ReceiverAssumption DEF AccountsType, CallbackMsg, PrepareMsg
  <2>2. bankUntrn' \in Nat /\ bankRelay' \in Nat
    BY <2>1, FeesAreNat DEF IbcAccept, IbcReturn, AccountsType
  <2>3. /\ ibcInFlight' \subseteq CallbackMsg \cup PrepareMsg
        /\ cosmosCalls' \subseteq CallbackMsg \cup PrepareMsg
    BY <2>1 DEF IbcAccept, IbcReturn, AccountsType
  <2> QED BY <2>2, <2>3 DEF IbcAccept, IbcReturn, AccountsType, registryVarsC, ledgerVars
<1>6. CASE CosmosTick
  BY <1>6, ReceiverAssumption
  DEF CosmosTick, AccountsType, registryVarsC, ledgerVars, bankVars, ibcVars
<1>7. CASE UNCHANGED cosmosVars
  BY <1>7 DEF cosmosVars, AccountsType, registryVarsC, ledgerVars, bankVars, ibcVars
<1> QED
  BY <1>1, <1>2, <1>3, <1>4, <1>5, <1>6, <1>7, Steps, PrepareMintAccounts, ClaimMintAccounts,
     RefundMintAccounts, LockForBurnAccounts, ClaimBurnAccounts, RefundBurnAccounts
  DEF Prepares, ClaimsMint, RefundsMint, LocksForBurn, ClaimsBurn, RefundsBurn

LEMMA AccountsInit == CosmosInit => AccountsType
  BY ReceiverAssumption DEF CosmosInit, CosmosInitWith, AccountsType, StatsType

----------------------------------------------------------------------------
(* The sums over the records, when one record changes.                      *)

CountedIn(lock, state) == IF lock.state = state THEN lock.amount ELSE 0
EscrowedIn(lock, c) == IF lock.state = "Locked" /\ lock.class = c THEN lock.amount ELSE 0

LEMMA SetsAreFinite ==
  IsFiniteSet(HashText) /\ IsFiniteSet(CosmosAccount) /\ IsFiniteSet(ClassId)
  BY ReceiverAssumption

LEMMA InboundAmounts == ASSUME NEW lock \in HTLCLock PROVE lock.amount \in Nat
<1>1. \A k \in InboundRecord : k.amount \in Nat
  BY AmountsAreNat DEF InboundRecord
<1>2. NoInbound.amount = 0
  BY DEF NoInbound
<1> QED BY <1>1, <1>2 DEF HTLCLock, InboundRecord

LEMMA OutboundAmounts ==
  ASSUME NEW lock \in OutboundLock PROVE lock.amount \in Nat /\ lock.bounty \in Nat
<1>1. \A k \in OutboundRecord : k.amount \in Nat /\ k.bounty \in Nat
  BY AmountsAreNat DEF OutboundRecord
<1>2. NoOutbound.amount = 0 /\ NoOutbound.bounty = 0
  BY DEF NoOutbound
<1> QED BY <1>1, <1>2 DEF OutboundLock, OutboundRecord

\* A sum over the records moves by what one record moves.
LEMMA RecordSumChanges ==
  ASSUME NEW f, NEW n, NEW x \in HashText, \A y \in HashText : f[y] \in Int,
         n[x] \in Int, \A y \in HashText \ {x} : n[y] = f[y]
  PROVE  SumFunctionOnSet(n, HashText) = SumFunctionOnSet(f, HashText) - f[x] + n[x]
  BY SetsAreFinite, SumChanges

LEMMA InboundChanges ==
  ASSUME htlcLocks \in [HashText -> HTLCLock], NEW x \in HashText, NEW lock \in HTLCLock,
         htlcLocks' = [htlcLocks EXCEPT ![x] = lock], NEW state
  PROVE  InboundAmount(state)' =
            InboundAmount(state) - CountedIn(htlcLocks[x], state) + CountedIn(lock, state)
<1> DEFINE f == [y \in HashText |-> CountedIn(htlcLocks[y], state)]
           n == [y \in HashText |-> CountedIn(htlcLocks'[y], state)]
<1>1. \A k \in HTLCLock : CountedIn(k, state) \in Int
  BY InboundAmounts DEF CountedIn
<1>2. /\ \A y \in HashText : f[y] \in Int
      /\ n[x] = CountedIn(lock, state) /\ n[x] \in Int
      /\ \A y \in HashText \ {x} : n[y] = f[y]
  BY <1>1
<1>3. InboundAmount(state) = SumFunctionOnSet(f, HashText)
      /\ InboundAmount(state)' = SumFunctionOnSet(n, HashText)
  BY DEF InboundAmount, CountedIn
<1>4. f[x] = CountedIn(htlcLocks[x], state)
  OBVIOUS
<1> HIDE DEF f, n
<1>5. SumFunctionOnSet(n, HashText) = SumFunctionOnSet(f, HashText) - f[x] + n[x]
  BY <1>2, RecordSumChanges
<1>6. n[x] = CountedIn(lock, state)
  BY <1>2
<1> QED BY <1>3, <1>4, <1>5, <1>6

LEMMA OutboundChanges ==
  ASSUME outboundLocks \in [HashText -> OutboundLock], NEW x \in HashText,
         NEW lock \in OutboundLock,
         outboundLocks' = [outboundLocks EXCEPT ![x] = lock], NEW state
  PROVE  OutboundAmount(state)' =
            OutboundAmount(state) - CountedIn(outboundLocks[x], state) + CountedIn(lock, state)
<1> DEFINE f == [y \in HashText |-> CountedIn(outboundLocks[y], state)]
           n == [y \in HashText |-> CountedIn(outboundLocks'[y], state)]
<1>1. \A k \in OutboundLock : CountedIn(k, state) \in Int
  BY OutboundAmounts DEF CountedIn
<1>2. /\ \A y \in HashText : f[y] \in Int
      /\ n[x] = CountedIn(lock, state) /\ n[x] \in Int
      /\ \A y \in HashText \ {x} : n[y] = f[y]
  BY <1>1
<1>3. OutboundAmount(state) = SumFunctionOnSet(f, HashText)
      /\ OutboundAmount(state)' = SumFunctionOnSet(n, HashText)
  BY DEF OutboundAmount, CountedIn
<1>4. f[x] = CountedIn(outboundLocks[x], state)
  OBVIOUS
<1> HIDE DEF f, n
<1>5. SumFunctionOnSet(n, HashText) = SumFunctionOnSet(f, HashText) - f[x] + n[x]
  BY <1>2, RecordSumChanges
<1> QED BY <1>2, <1>3, <1>4, <1>5

LEMMA EscrowChanges ==
  ASSUME outboundLocks \in [HashText -> OutboundLock], NEW x \in HashText,
         NEW lock \in OutboundLock,
         outboundLocks' = [outboundLocks EXCEPT ![x] = lock], NEW c
  PROVE  EscrowOf(c)' = EscrowOf(c) - EscrowedIn(outboundLocks[x], c) + EscrowedIn(lock, c)
<1> DEFINE f == [y \in HashText |-> EscrowedIn(outboundLocks[y], c)]
           n == [y \in HashText |-> EscrowedIn(outboundLocks'[y], c)]
<1>1. \A k \in OutboundLock : EscrowedIn(k, c) \in Int
  BY OutboundAmounts DEF EscrowedIn
<1>2. /\ \A y \in HashText : f[y] \in Int
      /\ n[x] = EscrowedIn(lock, c) /\ n[x] \in Int
      /\ \A y \in HashText \ {x} : n[y] = f[y]
  BY <1>1
<1>3. EscrowOf(c) = SumFunctionOnSet(f, HashText) /\ EscrowOf(c)' = SumFunctionOnSet(n, HashText)
  BY DEF EscrowOf, EscrowedIn
<1>4. f[x] = EscrowedIn(outboundLocks[x], c)
  OBVIOUS
<1> HIDE DEF f, n
<1>5. SumFunctionOnSet(n, HashText) = SumFunctionOnSet(f, HashText) - f[x] + n[x]
  BY <1>2, RecordSumChanges
<1> QED BY <1>2, <1>3, <1>4, <1>5

LEMMA BountiesChange ==
  ASSUME outboundLocks \in [HashText -> OutboundLock], NEW x \in HashText,
         NEW lock \in OutboundLock,
         outboundLocks' = [outboundLocks EXCEPT ![x] = lock]
  PROVE  EscrowedBounties' = EscrowedBounties - outboundLocks[x].bounty + lock.bounty
<1> DEFINE f == [y \in HashText |-> outboundLocks[y].bounty]
           n == [y \in HashText |-> outboundLocks'[y].bounty]
<1>1. \A k \in OutboundLock : k.bounty \in Int
  BY OutboundAmounts
<1>2. /\ \A y \in HashText : f[y] \in Int
      /\ n[x] = lock.bounty /\ n[x] \in Int
      /\ \A y \in HashText \ {x} : n[y] = f[y]
  BY <1>1
<1>3. /\ EscrowedBounties = SumFunctionOnSet(f, HashText)
      /\ EscrowedBounties' = SumFunctionOnSet(n, HashText)
  BY DEF EscrowedBounties
<1>4. f[x] = outboundLocks[x].bounty
  OBVIOUS
<1> HIDE DEF f, n
<1>5. SumFunctionOnSet(n, HashText) = SumFunctionOnSet(f, HashText) - f[x] + n[x]
  BY <1>2, RecordSumChanges
<1> QED BY <1>2, <1>3, <1>4, <1>5

LEMMA CosmosSumsAreNat ==
  ASSUME Stored
  PROVE  /\ EscrowedBounties \in Nat
         /\ \A state : InboundAmount(state) \in Nat /\ OutboundAmount(state) \in Nat
         /\ \A c : EscrowOf(c) \in Nat
         /\ \A x \in HashText : outboundLocks[x].state = "Locked" =>
                outboundLocks[x].amount <= EscrowOf(outboundLocks[x].class)
         /\ \A x \in HashText : outboundLocks[x].bounty <= EscrowedBounties
         /\ \A x \in HashText : htlcLocks[x].amount <= InboundAmount(htlcLocks[x].state)
<1>1. /\ \A x \in HashText : /\ htlcLocks[x].amount \in Nat
                             /\ outboundLocks[x].amount \in Nat /\ outboundLocks[x].bounty \in Nat
      /\ IsFiniteSet(HashText)
  BY InboundAmounts, OutboundAmounts, ReceiverAssumption DEF Stored
<1>2. EscrowedBounties \in Nat /\ \A x \in HashText : outboundLocks[x].bounty <= EscrowedBounties
  <2> DEFINE f == [x \in HashText |-> outboundLocks[x].bounty]
  <2>1. \A x \in HashText : f[x] \in Nat /\ f[x] = outboundLocks[x].bounty
    BY <1>1
  <2>2. EscrowedBounties = SumFunctionOnSet(f, HashText)
    BY DEF EscrowedBounties
  <2> HIDE DEF f
  <2>3. SumFunctionOnSet(f, HashText) \in Nat
        /\ \A x \in HashText : f[x] <= SumFunctionOnSet(f, HashText)
    BY <1>1, <2>1, SumIsNat, SumBounds
  <2> QED BY <2>1, <2>2, <2>3
<1>3. ASSUME NEW state
      PROVE  /\ InboundAmount(state) \in Nat
             /\ \A x \in HashText : CountedIn(htlcLocks[x], state) <= InboundAmount(state)
  <2> DEFINE f == [x \in HashText |-> CountedIn(htlcLocks[x], state)]
  <2>1. \A x \in HashText : f[x] \in Nat /\ f[x] = CountedIn(htlcLocks[x], state)
    BY <1>1 DEF CountedIn
  <2>2. InboundAmount(state) = SumFunctionOnSet(f, HashText)
    BY DEF InboundAmount, CountedIn
  <2> HIDE DEF f
  <2>3. SumFunctionOnSet(f, HashText) \in Nat
        /\ \A x \in HashText : f[x] <= SumFunctionOnSet(f, HashText)
    BY <1>1, <2>1, SumIsNat, SumBounds
  <2> QED BY <2>1, <2>2, <2>3
<1>4. ASSUME NEW state PROVE OutboundAmount(state) \in Nat
  <2> DEFINE f == [x \in HashText |-> CountedIn(outboundLocks[x], state)]
  <2>1. \A x \in HashText : f[x] \in Nat
    BY <1>1 DEF CountedIn
  <2>2. OutboundAmount(state) = SumFunctionOnSet(f, HashText)
    BY DEF OutboundAmount, CountedIn
  <2> HIDE DEF f
  <2> QED BY <1>1, <2>1, <2>2, SumIsNat
<1>5. ASSUME NEW c
      PROVE  /\ EscrowOf(c) \in Nat
             /\ \A x \in HashText : EscrowedIn(outboundLocks[x], c) <= EscrowOf(c)
  <2> DEFINE f == [x \in HashText |-> EscrowedIn(outboundLocks[x], c)]
  <2>1. \A x \in HashText : f[x] \in Nat /\ f[x] = EscrowedIn(outboundLocks[x], c)
    BY <1>1 DEF EscrowedIn
  <2>2. EscrowOf(c) = SumFunctionOnSet(f, HashText)
    BY DEF EscrowOf, EscrowedIn
  <2> HIDE DEF f
  <2>3. SumFunctionOnSet(f, HashText) \in Nat
        /\ \A x \in HashText : f[x] <= SumFunctionOnSet(f, HashText)
    BY <1>1, <2>1, SumIsNat, SumBounds
  <2> QED BY <2>1, <2>2, <2>3
<1>6. \A x \in HashText : outboundLocks[x].state = "Locked" =>
          EscrowedIn(outboundLocks[x], outboundLocks[x].class) = outboundLocks[x].amount
  BY DEF EscrowedIn
<1>7. \A x \in HashText : CountedIn(htlcLocks[x], htlcLocks[x].state) = htlcLocks[x].amount
  BY DEF CountedIn
<1> QED BY <1>2, <1>3, <1>4, <1>5, <1>6, <1>7

----------------------------------------------------------------------------
(* A record opened or decided, as the accounts see it.                      *)

MintOpened(x, lock) ==
  /\ htlcLocks[x].state = "None" /\ lock \in InboundRecord /\ lock.state = "Pending"
  /\ htlcLocks' = [htlcLocks EXCEPT ![x] = lock] /\ UNCHANGED outboundLocks

MintDecided(x, lock) ==
  /\ htlcLocks[x].state = "Pending" /\ lock \in InboundRecord
  /\ lock.state \in {"Claimed", "Refunded"}
  /\ lock.amount = htlcLocks[x].amount
  /\ htlcLocks' = [htlcLocks EXCEPT ![x] = lock] /\ UNCHANGED outboundLocks

BurnOpened(x, lock) ==
  /\ outboundLocks[x].state = "None" /\ lock \in OutboundRecord /\ lock.state = "Locked"
  /\ outboundLocks' = [outboundLocks EXCEPT ![x] = lock] /\ UNCHANGED htlcLocks

BurnDecided(x, lock) ==
  /\ outboundLocks[x].state = "Locked" /\ lock \in OutboundRecord
  /\ lock.state \in {"Claimed", "Refunded"}
  /\ lock.amount = outboundLocks[x].amount /\ lock.bounty = 0
  /\ outboundLocks' = [outboundLocks EXCEPT ![x] = lock] /\ UNCHANGED htlcLocks

RecordsStay == UNCHANGED <<htlcLocks, outboundLocks>>

LEMMA PrepareMintRecord ==
  ASSUME Stored, NEW sender \in CosmosAccount, NEW m \in PrepareArgs, PrepareMint(sender, m)
  PROVE  \E x \in HashText, lock \in InboundRecord :
            MintOpened(x, lock) /\ lock.amount = m.amount
<1> DEFINE lock == [state |-> "Pending", indicator |-> m.indicator, class |-> m.class,
             amount |-> m.amount, recipient |-> m.recipient, source |-> m.source,
             timeout |-> m.timeout, secret |-> NoSecret]
<1>1. m.hashlock \in HashText /\ m.indicator \in IndicatorText /\ m.class \in ClassId
      /\ m.amount \in CosmosAmount /\ m.recipient \in CosmosAccount
      /\ m.source \in Endpoint /\ m.timeout \in CosmosTimelock
  BY DEF PrepareArgs
<1>2. m.amount \in 1..MaxUint128
  BY <1>1, ReceiverAssumption DEF PrepareMint
<1>3. lock \in InboundRecord
  BY <1>1, <1>2 DEF InboundRecord
<1>4. /\ htlcLocks' = [htlcLocks EXCEPT ![m.hashlock] = lock]
      /\ htlcLocks[m.hashlock].state = "None" /\ UNCHANGED outboundLocks
  BY DEF PrepareMint, Inbound
<1>5. lock.state = "Pending" /\ lock.amount = m.amount
  OBVIOUS
<1> HIDE DEF lock
<1> QED BY <1>1, <1>3, <1>4, <1>5 DEF MintOpened

LEMMA ClaimMintRecord ==
  ASSUME Stored, NEW x \in HashText, NEW s \in Secret, NEW untrn, NEW relay,
         ClaimMint(x, s, untrn, relay)
  PROVE  \E lock \in InboundRecord : MintDecided(x, lock) /\ lock.state = "Claimed"
<1> DEFINE lock == [htlcLocks[x] EXCEPT !.state = "Claimed", !.secret = s]
<1>1. htlcLocks[x] \in InboundRecord /\ htlcLocks[x].state = "Pending"
  BY InboundFields DEF ClaimMint
<1>2. lock \in InboundRecord /\ lock.state = "Claimed" /\ lock.amount = htlcLocks[x].amount
  BY <1>1 DEF InboundRecord
<1>3. htlcLocks' = [htlcLocks EXCEPT ![x] = lock] /\ UNCHANGED outboundLocks
  BY DEF ClaimMint, Stored
<1> HIDE DEF lock
<1> QED BY <1>1, <1>2, <1>3 DEF MintDecided

LEMMA RefundMintRecord ==
  ASSUME Stored, NEW x \in HashText, RefundMint(x)
  PROVE  \E lock \in InboundRecord : MintDecided(x, lock) /\ lock.state = "Refunded"
<1> DEFINE lock == [htlcLocks[x] EXCEPT !.state = "Refunded"]
<1>1. htlcLocks[x] \in InboundRecord /\ htlcLocks[x].state = "Pending"
  BY InboundFields DEF RefundMint
<1>2. lock \in InboundRecord /\ lock.state = "Refunded" /\ lock.amount = htlcLocks[x].amount
  BY <1>1 DEF InboundRecord
<1>3. htlcLocks' = [htlcLocks EXCEPT ![x] = lock] /\ UNCHANGED outboundLocks
  BY DEF RefundMint, Stored
<1> HIDE DEF lock
<1> QED BY <1>1, <1>2, <1>3 DEF MintDecided

LEMMA LockForBurnRecord ==
  ASSUME Stored,
         NEW sender \in CosmosAccount, NEW c \in ClassId, NEW amount \in CosmosAmount,
         NEW x \in HashText, NEW timelock \in CosmosTimelock, NEW evmRecipient \in Address,
         NEW dest \in Endpoint, NEW bounty \in Coins, NEW untrn \in Coins,
         NEW relay \in RelayCoins,
         LockForBurn(sender, c, amount, x, timelock, evmRecipient, dest, bounty, untrn, relay)
  PROVE  \E lock \in OutboundRecord :
            BurnOpened(x, lock) /\ lock.class = c /\ lock.amount = amount /\ lock.bounty = bounty
<1> DEFINE lock == [state |-> "Locked", sender |-> sender, class |-> c, amount |-> amount,
             evmRecipient |-> evmRecipient, destination |-> dest, timelock |-> timelock,
             bounty |-> bounty, secret |-> NoSecret]
<1>1. amount \in 1..MaxUint128 /\ bounty \in Nat
  BY ReceiverAssumption DEF LockForBurn
<1>2. lock \in OutboundRecord
  BY <1>1 DEF OutboundRecord
<1>3. /\ outboundLocks' = [outboundLocks EXCEPT ![x] = lock]
      /\ outboundLocks[x].state = "None" /\ UNCHANGED htlcLocks
  BY DEF LockForBurn, Outbound
<1>4. lock.state = "Locked" /\ lock.bounty = bounty /\ lock.class = c /\ lock.amount = amount
  OBVIOUS
<1> HIDE DEF lock
<1> QED BY <1>2, <1>3, <1>4 DEF BurnOpened

LEMMA ClaimBurnRecord ==
  ASSUME Stored, NEW caller, NEW x \in HashText, NEW s \in Secret, ClaimBurn(caller, x, s)
  PROVE  \E lock \in OutboundRecord : BurnDecided(x, lock) /\ lock.state = "Claimed"
<1> DEFINE lock == [outboundLocks[x] EXCEPT !.state = "Claimed", !.secret = s, !.bounty = 0]
<1>1. outboundLocks[x] \in OutboundRecord /\ outboundLocks[x].state = "Locked"
  BY OutboundFields DEF ClaimBurn
<1>2. lock \in OutboundRecord /\ lock.state = "Claimed" /\ lock.bounty = 0
      /\ lock.amount = outboundLocks[x].amount
  BY <1>1 DEF OutboundRecord
<1>3. outboundLocks' = [outboundLocks EXCEPT ![x] = lock] /\ UNCHANGED htlcLocks
  BY DEF ClaimBurn, Stored
<1> HIDE DEF lock
<1> QED BY <1>1, <1>2, <1>3 DEF BurnDecided

LEMMA RefundBurnRecord ==
  ASSUME Stored, NEW caller, NEW x \in HashText, RefundBurn(caller, x)
  PROVE  \E lock \in OutboundRecord : BurnDecided(x, lock) /\ lock.state = "Refunded"
<1> DEFINE lock == [outboundLocks[x] EXCEPT !.state = "Refunded", !.bounty = 0]
<1>1. outboundLocks[x] \in OutboundRecord /\ outboundLocks[x].state = "Locked"
  BY OutboundFields DEF RefundBurn
<1>2. lock \in OutboundRecord /\ lock.state = "Refunded" /\ lock.bounty = 0
      /\ lock.amount = outboundLocks[x].amount
  BY <1>1 DEF OutboundRecord
<1>3. outboundLocks' = [outboundLocks EXCEPT ![x] = lock] /\ UNCHANGED htlcLocks
  BY DEF RefundBurn, Stored
<1> HIDE DEF lock
<1> QED BY <1>1, <1>2, <1>3 DEF BurnDecided

\* What that makes of the sums.
LEMMA MintOpenedSums ==
  ASSUME Stored, NEW x \in HashText, NEW lock \in InboundRecord, MintOpened(x, lock)
  PROVE  /\ InboundAmount("Pending")' = InboundAmount("Pending") + lock.amount
         /\ InboundAmount("Claimed")' = InboundAmount("Claimed")
         /\ InboundAmount("Refunded")' = InboundAmount("Refunded")
<1>1. \A k : InboundAmount(k)' =
            InboundAmount(k) - CountedIn(htlcLocks[x], k) + CountedIn(lock, k)
  BY InboundChanges DEF MintOpened, Stored, HTLCLock, InboundRecord
<1>2. CountedIn(htlcLocks[x], "Pending") = 0 /\ CountedIn(htlcLocks[x], "Claimed") = 0
      /\ CountedIn(htlcLocks[x], "Refunded") = 0
  BY DEF MintOpened, CountedIn
<1>3. CountedIn(lock, "Pending") = lock.amount /\ CountedIn(lock, "Claimed") = 0
      /\ CountedIn(lock, "Refunded") = 0 
  BY DEF MintOpened, CountedIn
<1>4. lock.amount \in Nat /\ \A k : InboundAmount(k) \in Nat
  BY CosmosSumsAreNat, InboundAmounts DEF HTLCLock, InboundRecord
<1> QED BY <1>1, <1>2, <1>3, <1>4

LEMMA MintDecidedSums ==
  ASSUME Stored, NEW x \in HashText, NEW lock \in InboundRecord, MintDecided(x, lock)
  PROVE  /\ lock.amount \in Nat
         /\ InboundAmount("Pending")' = InboundAmount("Pending") - lock.amount
         /\ InboundAmount("Claimed")' =
                InboundAmount("Claimed") + (IF lock.state = "Claimed" THEN lock.amount ELSE 0)
         /\ InboundAmount("Refunded")' =
                InboundAmount("Refunded") + (IF lock.state = "Refunded" THEN lock.amount ELSE 0)
<1>1. \A k : InboundAmount(k)' =
            InboundAmount(k) - CountedIn(htlcLocks[x], k) + CountedIn(lock, k)
  BY InboundChanges DEF MintDecided, Stored, HTLCLock, InboundRecord
<1>2. CountedIn(htlcLocks[x], "Pending") = lock.amount /\ CountedIn(htlcLocks[x], "Claimed") = 0
      /\ CountedIn(htlcLocks[x], "Refunded") = 0
  BY DEF MintDecided, CountedIn
<1>3. \A k : CountedIn(lock, k) = IF lock.state = k THEN lock.amount ELSE 0
  BY DEF CountedIn
<1>4. lock.amount \in Nat /\ \A k : InboundAmount(k) \in Nat
  BY CosmosSumsAreNat, InboundAmounts DEF HTLCLock, InboundRecord
<1>5. lock.state # "Pending"
  BY DEF MintDecided
<1> QED BY <1>1, <1>2, <1>3, <1>4, <1>5

LEMMA BurnOpenedSums ==
  ASSUME Stored, NEW x \in HashText, NEW lock \in OutboundRecord, BurnOpened(x, lock)
  PROVE  /\ OutboundAmount("Claimed")' = OutboundAmount("Claimed")
         /\ OutboundAmount("Refunded")' = OutboundAmount("Refunded")
         /\ EscrowedBounties' = EscrowedBounties + lock.bounty
         /\ lock.amount \in Nat /\ lock.bounty \in Nat
         /\ \A c : EscrowOf(c)' = EscrowOf(c) + (IF lock.class = c THEN lock.amount ELSE 0)
<1>0. /\ outboundLocks \in [HashText -> OutboundLock] /\ lock \in OutboundLock
      /\ outboundLocks' = [outboundLocks EXCEPT ![x] = lock]
  BY DEF BurnOpened, Stored, OutboundLock, OutboundRecord
<1>1. lock.amount \in Nat /\ lock.bounty \in Nat /\ EscrowedBounties \in Nat
      /\ \A k : OutboundAmount(k) \in Nat /\ EscrowOf(k) \in Nat
  BY <1>0, CosmosSumsAreNat, OutboundAmounts
<1>2. \A k : OutboundAmount(k)' =
            OutboundAmount(k) - CountedIn(outboundLocks[x], k) + CountedIn(lock, k)
  BY <1>0, OutboundChanges
<1>3. /\ CountedIn(outboundLocks[x], "Claimed") = 0
      /\ CountedIn(outboundLocks[x], "Refunded") = 0
      /\ CountedIn(lock, "Claimed") = 0 /\ CountedIn(lock, "Refunded") = 0
  BY DEF BurnOpened, CountedIn
<1>4. \A c : EscrowOf(c)' = EscrowOf(c) - EscrowedIn(outboundLocks[x], c) + EscrowedIn(lock, c)
  BY <1>0, EscrowChanges
<1>5. \A c : /\ EscrowedIn(outboundLocks[x], c) = 0
             /\ EscrowedIn(lock, c) = IF lock.class = c THEN lock.amount ELSE 0
  BY DEF BurnOpened, EscrowedIn
<1>6. EscrowedBounties' = EscrowedBounties - outboundLocks[x].bounty + lock.bounty
  BY <1>0, BountiesChange
<1>7. outboundLocks[x].bounty = 0
  BY DEF BurnOpened, Stored, OutboundLock, OutboundRecord, NoOutbound
<1>8. \A c : EscrowOf(c)' = EscrowOf(c) + (IF lock.class = c THEN lock.amount ELSE 0)
  BY <1>1, <1>4, <1>5
<1>9. EscrowedBounties' = EscrowedBounties + lock.bounty
  BY <1>1, <1>6, <1>7
<1> QED BY <1>1, <1>2, <1>3, <1>8, <1>9

LEMMA BurnDecidedSums ==
  ASSUME Stored, NEW x \in HashText, NEW lock \in OutboundRecord, BurnDecided(x, lock)
  PROVE  /\ lock.amount \in Nat /\ lock.amount = outboundLocks[x].amount
         /\ outboundLocks[x].bounty \in Nat
         /\ OutboundAmount("Claimed")' =
                OutboundAmount("Claimed") + (IF lock.state = "Claimed" THEN lock.amount ELSE 0)
         /\ OutboundAmount("Refunded")' =
                OutboundAmount("Refunded") + (IF lock.state = "Refunded" THEN lock.amount ELSE 0)
         /\ EscrowedBounties' = EscrowedBounties - outboundLocks[x].bounty
         /\ \A c : EscrowOf(c)' = EscrowOf(c)
                        - (IF outboundLocks[x].class = c THEN lock.amount ELSE 0)
<1>0. /\ outboundLocks \in [HashText -> OutboundLock] /\ lock \in OutboundLock
      /\ outboundLocks' = [outboundLocks EXCEPT ![x] = lock]
  BY DEF BurnDecided, Stored, OutboundLock, OutboundRecord
<1>1. lock.amount \in Nat /\ EscrowedBounties \in Nat
      /\ outboundLocks[x].bounty \in Nat /\ lock.amount = outboundLocks[x].amount
      /\ \A k : OutboundAmount(k) \in Nat /\ EscrowOf(k) \in Nat
  BY <1>0, CosmosSumsAreNat, OutboundAmounts DEF BurnDecided
<1>2. \A k : OutboundAmount(k)' =
            OutboundAmount(k) - CountedIn(outboundLocks[x], k) + CountedIn(lock, k)
  BY <1>0, OutboundChanges
<1>3. /\ CountedIn(outboundLocks[x], "Claimed") = 0
      /\ CountedIn(outboundLocks[x], "Refunded") = 0
      /\ \A k : CountedIn(lock, k) = IF lock.state = k THEN lock.amount ELSE 0
  BY DEF BurnDecided, CountedIn
<1>4. \A c : EscrowOf(c)' = EscrowOf(c) - EscrowedIn(outboundLocks[x], c) + EscrowedIn(lock, c)
  BY <1>0, EscrowChanges
<1>5. \A c : /\ EscrowedIn(lock, c) = 0
             /\ EscrowedIn(outboundLocks[x], c) =
                    IF outboundLocks[x].class = c THEN lock.amount ELSE 0
  BY DEF BurnDecided, EscrowedIn
<1>6. EscrowedBounties' = EscrowedBounties - outboundLocks[x].bounty + lock.bounty
  BY <1>0, BountiesChange
<1>7. lock.bounty = 0
  BY DEF BurnDecided
<1>8. \A c : EscrowOf(c)' = EscrowOf(c)
                        - (IF outboundLocks[x].class = c THEN lock.amount ELSE 0)
  BY <1>1, <1>4, <1>5
<1>9. EscrowedBounties' = EscrowedBounties - outboundLocks[x].bounty
  BY <1>1, <1>6, <1>7
<1> QED BY <1>1, <1>2, <1>3, <1>8, <1>9

----------------------------------------------------------------------------
(* BRIDGE_STATS.                                                            *)

InboundKeys == {x \in HashText : Inbound(x)}
OutboundKeys == {x \in HashText : Outbound(x)}

LEMMA MintOpenedKeys ==
  ASSUME htlcLocks \in [HashText -> HTLCLock], NEW x \in HashText, NEW lock, MintOpened(x, lock)
  PROVE  /\ Cardinality(InboundKeys') = Cardinality(InboundKeys) + 1
         /\ OutboundKeys' = OutboundKeys
<1>1. InboundKeys' = InboundKeys \cup {x} /\ x \notin InboundKeys /\ OutboundKeys' = OutboundKeys
  BY DEF MintOpened, InboundKeys, OutboundKeys, Inbound, Outbound
<1>2. IsFiniteSet(InboundKeys)
  BY SetsAreFinite, FS_Subset DEF InboundKeys
<1> QED BY <1>1, <1>2, FS_AddElement

LEMMA BurnOpenedKeys ==
  ASSUME outboundLocks \in [HashText -> OutboundLock], NEW x \in HashText, NEW lock,
         BurnOpened(x, lock)
  PROVE  /\ Cardinality(OutboundKeys') = Cardinality(OutboundKeys) + 1
         /\ InboundKeys' = InboundKeys
<1>1. OutboundKeys' = OutboundKeys \cup {x} /\ x \notin OutboundKeys /\ InboundKeys' = InboundKeys
  BY DEF BurnOpened, InboundKeys, OutboundKeys, Inbound, Outbound
<1>2. IsFiniteSet(OutboundKeys)
  BY SetsAreFinite, FS_Subset DEF OutboundKeys
<1> QED BY <1>1, <1>2, FS_AddElement

LEMMA DecidedKeys ==
  ASSUME Stored, NEW x \in HashText, NEW lock, MintDecided(x, lock) \/ BurnDecided(x, lock)
  PROVE  InboundKeys' = InboundKeys /\ OutboundKeys' = OutboundKeys
  BY DEF Stored, MintDecided, BurnDecided, InboundKeys, OutboundKeys, Inbound, Outbound

LEMMA KeysAreCounted ==
  Cardinality(InboundKeys) \in Nat /\ Cardinality(OutboundKeys) \in Nat
<1>1. IsFiniteSet(InboundKeys) /\ IsFiniteSet(OutboundKeys)
  BY SetsAreFinite, FS_Subset DEF InboundKeys, OutboundKeys
<1> QED BY <1>1, FS_CardinalityType

\* What a step enters in the counters.
StatsStep ==
  \/ RecordsStay /\ UNCHANGED stats
  \/ \E x \in HashText, lock \in InboundRecord :
        /\ MintOpened(x, lock)
        /\ stats' = [stats EXCEPT !.locks = @ + 1, !.pending = @ + lock.amount]
  \/ \E x \in HashText, lock \in InboundRecord :
        /\ MintDecided(x, lock)
        /\ \/ lock.state = "Claimed" /\ stats' = [stats EXCEPT !.claimed = @ + lock.amount,
                                                               !.pending = @ - lock.amount]
           \/ lock.state = "Refunded" /\ stats' = [stats EXCEPT !.refunded = @ + lock.amount,
                                                                !.pending = @ - lock.amount]
  \/ \E x \in HashText, lock \in OutboundRecord :
        BurnOpened(x, lock) /\ stats' = [stats EXCEPT !.locks = @ + 1]
  \/ \E x \in HashText, lock \in OutboundRecord :
        /\ BurnDecided(x, lock)
        /\ \/ lock.state = "Claimed" /\ stats' = [stats EXCEPT !.claimed = @ + lock.amount]
           \/ lock.state = "Refunded" /\ stats' = [stats EXCEPT !.refunded = @ + lock.amount]

LEMMA StatsOfStep ==
  ASSUME Stored, [CosmosNext]_cosmosVars
  PROVE  StatsStep
<1>1. ASSUME NEW sender \in CosmosAccount, NEW m \in PrepareArgs, PrepareMint(sender, m)
      PROVE  StatsStep
  <2>1. PICK x \in HashText, lock \in InboundRecord :
            MintOpened(x, lock) /\ lock.amount = m.amount
    BY <1>1, PrepareMintRecord
  <2>2. stats' = [stats EXCEPT !.locks = @ + 1, !.pending = @ + lock.amount]
    BY <1>1, <2>1 DEF PrepareMint
  <2> QED BY <2>1, <2>2 DEF StatsStep
<1>2. ASSUME NEW x \in HashText, NEW s \in Secret, NEW untrn \in Coins,
             NEW relay \in RelayCoins, ClaimMint(x, s, untrn, relay)
      PROVE  StatsStep
  <2>1. PICK lock \in InboundRecord : MintDecided(x, lock) /\ lock.state = "Claimed"
    BY <1>2, ClaimMintRecord
  <2>2. stats' = [stats EXCEPT !.claimed = @ + lock.amount, !.pending = @ - lock.amount]
    BY <1>2, <2>1 DEF ClaimMint, MintDecided
  <2> QED BY <2>1, <2>2 DEF StatsStep
<1>3. ASSUME NEW x \in HashText, RefundMint(x) PROVE StatsStep
  <2>1. PICK lock \in InboundRecord : MintDecided(x, lock) /\ lock.state = "Refunded"
    BY <1>3, RefundMintRecord
  <2>2. stats' = [stats EXCEPT !.refunded = @ + lock.amount, !.pending = @ - lock.amount]
    BY <1>3, <2>1 DEF RefundMint, MintDecided
  <2> QED BY <2>1, <2>2 DEF StatsStep
<1>4. ASSUME NEW sender \in CosmosAccount, NEW c \in ClassId, NEW amount \in CosmosAmount,
             NEW x \in HashText, NEW timelock \in CosmosTimelock, NEW evmRecipient \in Address,
             NEW dest \in Endpoint, NEW bounty \in Coins, NEW untrn \in Coins,
             NEW relay \in RelayCoins,
             LockForBurn(sender, c, amount, x, timelock, evmRecipient, dest, bounty, untrn, relay)
      PROVE  StatsStep
  <2>1. PICK lock \in OutboundRecord : BurnOpened(x, lock)
    BY <1>4, LockForBurnRecord
  <2>2. stats' = [stats EXCEPT !.locks = @ + 1]
    BY <1>4 DEF LockForBurn
  <2> QED BY <2>1, <2>2 DEF StatsStep
<1>5. ASSUME NEW caller \in CosmosAccount, NEW x \in HashText, NEW s \in Secret,
             ClaimBurn(caller, x, s)
      PROVE  StatsStep
  <2>1. PICK lock \in OutboundRecord : BurnDecided(x, lock) /\ lock.state = "Claimed"
    BY <1>5, ClaimBurnRecord
  <2>2. stats' = [stats EXCEPT !.claimed = @ + lock.amount]
    BY <1>5, <2>1 DEF ClaimBurn, BurnDecided
  <2> QED BY <2>1, <2>2 DEF StatsStep
<1>6. ASSUME NEW caller \in CosmosAccount, NEW x \in HashText, RefundBurn(caller, x)
      PROVE  StatsStep
  <2>1. PICK lock \in OutboundRecord : BurnDecided(x, lock) /\ lock.state = "Refunded"
    BY <1>6, RefundBurnRecord
  <2>2. stats' = [stats EXCEPT !.refunded = @ + lock.amount]
    BY <1>6, <2>1 DEF RefundBurn, BurnDecided
  <2> QED BY <2>1, <2>2 DEF StatsStep
<1>7. CASE OtherStep
  <2>1. UNCHANGED stats
    BY <1>7 DEF OtherStep, Creates, Moves, Authorizes, Withdraws, Answers, CreateTokenClass,
       Transfer, AddAuthorizedSender, RemoveAuthorizedSender, WithdrawFunds, IbcAccept, IbcReturn,
       CosmosTick, cosmosVars
  <2> QED BY <1>7, <2>1, OtherStepKeepsRecords DEF StatsStep, RecordsStay
<1> QED
  BY <1>1, <1>2, <1>3, <1>4, <1>5, <1>6, <1>7, Steps
  DEF OtherStep, Prepares, ClaimsMint, RefundsMint, LocksForBurn, ClaimsBurn, RefundsBurn

LEMMA StatsStepKeeps ==
  ASSUME Stored, AccountsType, StatsAccountForLocks, StatsStep
  PROVE  StatsAccountForLocks'
<1>0. stats \in StatsType
  BY DEF AccountsType
<1>1. /\ stats.locks = Cardinality(InboundKeys) + Cardinality(OutboundKeys)
      /\ stats.pending = InboundAmount("Pending")
      /\ stats.claimed = InboundAmount("Claimed") + OutboundAmount("Claimed")
      /\ stats.refunded = InboundAmount("Refunded") + OutboundAmount("Refunded")
  BY DEF StatsAccountForLocks, InboundKeys, OutboundKeys
<1>2. /\ \A k : InboundAmount(k) \in Nat /\ OutboundAmount(k) \in Nat
      /\ Cardinality(InboundKeys) \in Nat /\ Cardinality(OutboundKeys) \in Nat
  BY CosmosSumsAreNat, KeysAreCounted
<1> SUFFICES
      /\ stats'.locks = Cardinality(InboundKeys') + Cardinality(OutboundKeys')
      /\ stats'.pending = InboundAmount("Pending")'
      /\ stats'.claimed = InboundAmount("Claimed")' + OutboundAmount("Claimed")'
      /\ stats'.refunded = InboundAmount("Refunded")' + OutboundAmount("Refunded")'
  BY DEF StatsAccountForLocks, InboundKeys, OutboundKeys
<1>3. CASE RecordsStay /\ UNCHANGED stats
  <2>1. /\ InboundKeys' = InboundKeys /\ OutboundKeys' = OutboundKeys
        /\ \A k : InboundAmount(k)' = InboundAmount(k) /\ OutboundAmount(k)' = OutboundAmount(k)
    BY <1>3 DEF RecordsStay, InboundKeys, OutboundKeys, Inbound, Outbound, InboundAmount,
                OutboundAmount
  <2> QED BY <1>1, <1>3, <2>1
<1>4. ASSUME NEW x \in HashText, NEW lock \in InboundRecord, MintOpened(x, lock),
             stats' = [stats EXCEPT !.locks = @ + 1, !.pending = @ + lock.amount]
      PROVE  /\ stats'.locks = Cardinality(InboundKeys') + Cardinality(OutboundKeys')
             /\ stats'.pending = InboundAmount("Pending")'
             /\ stats'.claimed = InboundAmount("Claimed")' + OutboundAmount("Claimed")'
             /\ stats'.refunded = InboundAmount("Refunded")' + OutboundAmount("Refunded")'
  <2>1. /\ stats'.locks = stats.locks + 1 /\ stats'.pending = stats.pending + lock.amount
        /\ stats'.claimed = stats.claimed /\ stats'.refunded = stats.refunded
    BY <1>0, <1>4 DEF StatsType
  <2>2. OutboundAmount("Claimed")' = OutboundAmount("Claimed")
        /\ OutboundAmount("Refunded")' = OutboundAmount("Refunded")
    BY <1>4 DEF MintOpened, OutboundAmount
  <2>3. /\ InboundAmount("Pending")' = InboundAmount("Pending") + lock.amount
        /\ InboundAmount("Claimed")' = InboundAmount("Claimed")
        /\ InboundAmount("Refunded")' = InboundAmount("Refunded")
    BY <1>4, MintOpenedSums
  <2>4. /\ Cardinality(InboundKeys') = Cardinality(InboundKeys) + 1
        /\ OutboundKeys' = OutboundKeys
    BY <1>4, MintOpenedKeys DEF Stored
  <2>5. stats'.locks = Cardinality(InboundKeys') + Cardinality(OutboundKeys')
    BY <1>1, <1>2, <2>1, <2>4
  <2> QED BY <1>1, <2>1, <2>2, <2>3, <2>5
<1>5. ASSUME NEW x \in HashText, NEW lock \in InboundRecord, MintDecided(x, lock),
             \/ lock.state = "Claimed" /\ stats' = [stats EXCEPT !.claimed = @ + lock.amount,
                                                                 !.pending = @ - lock.amount]
             \/ lock.state = "Refunded" /\ stats' = [stats EXCEPT !.refunded = @ + lock.amount,
                                                                  !.pending = @ - lock.amount]
      PROVE  /\ stats'.locks = Cardinality(InboundKeys') + Cardinality(OutboundKeys')
             /\ stats'.pending = InboundAmount("Pending")'
             /\ stats'.claimed = InboundAmount("Claimed")' + OutboundAmount("Claimed")'
             /\ stats'.refunded = InboundAmount("Refunded")' + OutboundAmount("Refunded")'
  <2> DEFINE c == IF lock.state = "Claimed" THEN lock.amount ELSE 0
             r == IF lock.state = "Refunded" THEN lock.amount ELSE 0
  <2>0. lock.amount \in Nat /\ c \in Nat /\ r \in Nat
    BY <1>5, MintDecidedSums
  <2>1. /\ stats'.locks = stats.locks /\ stats'.pending = stats.pending - lock.amount
        /\ stats'.claimed = stats.claimed + c /\ stats'.refunded = stats.refunded + r
    <3>1. stats.claimed \in Int /\ stats.refunded \in Int
      BY <1>1, <1>2
    <3>2. CASE lock.state = "Claimed"
      <4>1. stats' = [stats EXCEPT !.claimed = @ + lock.amount, !.pending = @ - lock.amount]
        BY <1>5, <3>2
      <4>2. c = lock.amount /\ r = 0
        BY <3>2
      <4> QED BY <1>0, <2>0, <3>1, <4>1, <4>2 DEF StatsType
    <3>3. CASE lock.state = "Refunded"
      <4>1. stats' = [stats EXCEPT !.refunded = @ + lock.amount, !.pending = @ - lock.amount]
        BY <1>5, <3>3
      <4>2. c = 0 /\ r = lock.amount
        BY <3>3
      <4> QED BY <1>0, <2>0, <3>1, <4>1, <4>2 DEF StatsType
    <3> QED BY <1>5, <3>2, <3>3
  <2>2. OutboundAmount("Claimed")' = OutboundAmount("Claimed")
        /\ OutboundAmount("Refunded")' = OutboundAmount("Refunded")
    BY <1>5 DEF MintDecided, OutboundAmount
  <2>3. /\ InboundAmount("Pending")' = InboundAmount("Pending") - lock.amount
        /\ InboundAmount("Claimed")' = InboundAmount("Claimed") + c
        /\ InboundAmount("Refunded")' = InboundAmount("Refunded") + r
    BY <1>5, MintDecidedSums
  <2>4. InboundKeys' = InboundKeys /\ OutboundKeys' = OutboundKeys
    BY <1>5, DecidedKeys
  <2> HIDE DEF c, r
  <2> QED BY <1>1, <1>2, <2>0, <2>1, <2>2, <2>3, <2>4
<1>6. ASSUME NEW x \in HashText, NEW lock \in OutboundRecord, BurnOpened(x, lock),
             stats' = [stats EXCEPT !.locks = @ + 1]
      PROVE  /\ stats'.locks = Cardinality(InboundKeys') + Cardinality(OutboundKeys')
             /\ stats'.pending = InboundAmount("Pending")'
             /\ stats'.claimed = InboundAmount("Claimed")' + OutboundAmount("Claimed")'
             /\ stats'.refunded = InboundAmount("Refunded")' + OutboundAmount("Refunded")'
  <2>1. /\ stats'.locks = stats.locks + 1 /\ stats'.pending = stats.pending
        /\ stats'.claimed = stats.claimed /\ stats'.refunded = stats.refunded
    BY <1>0, <1>6 DEF StatsType
  <2>2. \A k : InboundAmount(k)' = InboundAmount(k)
    BY <1>6 DEF BurnOpened, InboundAmount
  <2>3. /\ OutboundAmount("Claimed")' = OutboundAmount("Claimed")
        /\ OutboundAmount("Refunded")' = OutboundAmount("Refunded")
    BY <1>6, BurnOpenedSums
  <2>4. /\ Cardinality(OutboundKeys') = Cardinality(OutboundKeys) + 1
        /\ InboundKeys' = InboundKeys
    BY <1>6, BurnOpenedKeys DEF Stored
  <2>5. stats'.locks = Cardinality(InboundKeys') + Cardinality(OutboundKeys')
    BY <1>1, <1>2, <2>1, <2>4
  <2> QED BY <1>1, <2>1, <2>2, <2>3, <2>5
<1>7. ASSUME NEW x \in HashText, NEW lock \in OutboundRecord, BurnDecided(x, lock),
             \/ lock.state = "Claimed" /\ stats' = [stats EXCEPT !.claimed = @ + lock.amount]
             \/ lock.state = "Refunded" /\ stats' = [stats EXCEPT !.refunded = @ + lock.amount]
      PROVE  /\ stats'.locks = Cardinality(InboundKeys') + Cardinality(OutboundKeys')
             /\ stats'.pending = InboundAmount("Pending")'
             /\ stats'.claimed = InboundAmount("Claimed")' + OutboundAmount("Claimed")'
             /\ stats'.refunded = InboundAmount("Refunded")' + OutboundAmount("Refunded")'
  <2> DEFINE c == IF lock.state = "Claimed" THEN lock.amount ELSE 0
             r == IF lock.state = "Refunded" THEN lock.amount ELSE 0
  <2>0. lock.amount \in Nat /\ c \in Nat /\ r \in Nat
    BY <1>7, BurnDecidedSums
  <2>1. /\ stats'.locks = stats.locks /\ stats'.pending = stats.pending
        /\ stats'.claimed = stats.claimed + c /\ stats'.refunded = stats.refunded + r
    <3>1. stats.claimed \in Int /\ stats.refunded \in Int
      BY <1>1, <1>2
    <3>2. CASE lock.state = "Claimed"
      <4>1. stats' = [stats EXCEPT !.claimed = @ + lock.amount]
        BY <1>7, <3>2
      <4>2. c = lock.amount /\ r = 0
        BY <3>2
      <4> QED BY <1>0, <2>0, <3>1, <4>1, <4>2 DEF StatsType
    <3>3. CASE lock.state = "Refunded"
      <4>1. stats' = [stats EXCEPT !.refunded = @ + lock.amount]
        BY <1>7, <3>3
      <4>2. c = 0 /\ r = lock.amount
        BY <3>3
      <4> QED BY <1>0, <2>0, <3>1, <4>1, <4>2 DEF StatsType
    <3> QED BY <1>7, <3>2, <3>3
  <2>2. \A k : InboundAmount(k)' = InboundAmount(k)
    BY <1>7 DEF BurnDecided, InboundAmount
  <2>3. /\ OutboundAmount("Claimed")' = OutboundAmount("Claimed") + c
        /\ OutboundAmount("Refunded")' = OutboundAmount("Refunded") + r
    BY <1>7, BurnDecidedSums
  <2>4. InboundKeys' = InboundKeys /\ OutboundKeys' = OutboundKeys
    BY <1>7, DecidedKeys
  <2> HIDE DEF c, r
  <2> QED BY <1>1, <1>2, <2>0, <2>1, <2>2, <2>3, <2>4
<1> QED BY <1>3, <1>4, <1>5, <1>6, <1>7 DEF StatsStep

\* The counters of BRIDGE_STATS account for every lock of both directions: total_pending
\* covers each pending mint, so that neither claim_mint nor refund_mint can panic on it.
THEOREM StatsStayExact == CosmosSpec => []StatsAccountForLocks
<1> DEFINE Inv == RecordInv /\ AccountsType /\ StatsAccountForLocks
<1>1. CosmosInit => Inv
  <2> SUFFICES ASSUME CosmosInit PROVE Inv
    OBVIOUS
  <2>1. RecordInv /\ AccountsType
    BY RecordsInit, AccountsInit
  <2>2. ASSUME NEW state \in {"Pending", "Claimed", "Refunded"}
        PROVE  InboundAmount(state) = 0 /\ OutboundAmount(state) = 0
    <3> DEFINE f == [x \in HashText |-> IF htlcLocks[x].state = state
                                        THEN htlcLocks[x].amount ELSE 0]
               g == [x \in HashText |-> IF outboundLocks[x].state = state
                                        THEN outboundLocks[x].amount ELSE 0]
    <3>1. \A x \in HashText : f[x] = 0 /\ g[x] = 0
      BY DEF CosmosInit, CosmosInitWith, NoInbound, NoOutbound
    <3>2. InboundAmount(state) = SumFunctionOnSet(f, HashText)
          /\ OutboundAmount(state) = SumFunctionOnSet(g, HashText)
      BY DEF InboundAmount, OutboundAmount
    <3> HIDE DEF f, g
    <3> QED BY <3>1, <3>2, SumOfZeros, SetsAreFinite
  <2>3. InboundKeys = {} /\ OutboundKeys = {}
    BY DEF CosmosInit, CosmosInitWith, NoInbound, NoOutbound, InboundKeys, OutboundKeys,
           Inbound, Outbound
  <2>4. Cardinality(InboundKeys) = 0 /\ Cardinality(OutboundKeys) = 0
    BY <2>3, FS_EmptySet
  <2>5. stats.locks = 0 /\ stats.pending = 0 /\ stats.claimed = 0 /\ stats.refunded = 0
    BY DEF CosmosInit, CosmosInitWith
  <2>6. StatsAccountForLocks
    BY <2>2, <2>4, <2>5 DEF StatsAccountForLocks, InboundKeys, OutboundKeys
  <2> QED BY <2>1, <2>6
<1>2. Inv /\ [CosmosNext]_cosmosVars => Inv'
  BY RecordsStep, AccountsOfStep, StatsOfStep, StatsStepKeeps DEF RecordInv
<1>3. Inv => StatsAccountForLocks
  OBVIOUS
<1> HIDE DEF Inv
<1> QED BY <1>1, <1>2, <1>3, PTL DEF CosmosSpec

----------------------------------------------------------------------------
(* The ledger.                                                              *)

Held(c) == SumFunctionOnSet(cosmosBalances[c], CosmosAccount)
Issued == SumFunctionOnSet(tokenSupply, ClassId)

LEMMA RowChanges ==
  ASSUME NEW f, NEW g, NEW a \in CosmosAccount, \A b \in CosmosAccount : f[b] \in Int,
         g[a] \in Int, \A b \in CosmosAccount \ {a} : g[b] = f[b]
  PROVE  SumFunctionOnSet(g, CosmosAccount) = SumFunctionOnSet(f, CosmosAccount) - f[a] + g[a]
  BY SumChanges, SetsAreFinite

LEMMA RowOfHeld ==
  ASSUME NEW c, NEW a \in CosmosAccount, \A b \in CosmosAccount : cosmosBalances[c][b] \in Int,
         cosmosBalances'[c][a] \in Int,
         \A b \in CosmosAccount \ {a} : cosmosBalances'[c][b] = cosmosBalances[c][b]
  PROVE  Held(c)' = Held(c) - cosmosBalances[c][a] + cosmosBalances'[c][a]
<1> DEFINE f == cosmosBalances[c]
           g == cosmosBalances'[c]
<1>1. SumFunctionOnSet(g, CosmosAccount) = SumFunctionOnSet(f, CosmosAccount) - f[a] + g[a]
   <2>1. \A b \in CosmosAccount : f[b] \in Int
     OBVIOUS
   <2>2. g[a] \in Int
     OBVIOUS
   <2>3. \A b \in CosmosAccount \ {a} : g[b] = f[b]
     OBVIOUS
   <2> HIDE DEF f, g
   <2> QED BY <2>1, <2>2, <2>3, RowChanges
<1> QED BY <1>1 DEF Held

LEMMA RowMoves ==
  ASSUME NEW f, NEW g, NEW from \in CosmosAccount, NEW to \in CosmosAccount, from # to,
         \A b \in CosmosAccount : f[b] \in Int /\ g[b] \in Int,
         \A b \in CosmosAccount \ {from, to} : g[b] = f[b]
  PROVE  SumFunctionOnSet(g, CosmosAccount) =
            SumFunctionOnSet(f, CosmosAccount) - f[from] - f[to] + g[from] + g[to]
<1> DEFINE h == [b \in CosmosAccount |-> IF b = from THEN g[from] ELSE f[b]]
<1>1. /\ \A b \in CosmosAccount : h[b] \in Int
      /\ h[from] = g[from] /\ h[to] = f[to]
  OBVIOUS
<1>2. SumFunctionOnSet(h, CosmosAccount) = SumFunctionOnSet(f, CosmosAccount) - f[from] + h[from]
  <2>1. h[from] \in Int /\ \A b \in CosmosAccount \ {from} : h[b] = f[b]
    OBVIOUS
  <2> HIDE DEF h
  <2> QED BY <2>1, RowChanges
<1>3. SumFunctionOnSet(g, CosmosAccount) = SumFunctionOnSet(h, CosmosAccount) - h[to] + g[to]
  <2>1. \A b \in CosmosAccount : h[b] \in Int
    BY <1>1
  <2>2. \A b \in CosmosAccount \ {to} : g[b] = h[b]
    OBVIOUS
  <2>3. g[to] \in Int
    OBVIOUS
  <2> HIDE DEF h
  <2> QED BY <2>1, <2>2, <2>3, RowChanges
<1>4. SumFunctionOnSet(f, CosmosAccount) \in Int
  BY SumIsInt, SetsAreFinite
<1>5. f[from] \in Int /\ g[from] \in Int /\ f[to] \in Int /\ g[to] \in Int
  OBVIOUS
<1> HIDE DEF h
<1> QED BY <1>1, <1>2, <1>3, <1>4, <1>5

LEMMA HeldChanges ==
  ASSUME cosmosBalances \in [ClassId -> [CosmosAccount -> Nat]], NEW c \in ClassId,
         NEW a \in CosmosAccount, NEW n \in Nat,
         cosmosBalances' = [cosmosBalances EXCEPT ![c][a] = n], NEW d \in ClassId
  PROVE  Held(d)' = Held(d) + (IF d = c THEN n - cosmosBalances[c][a] ELSE 0)
<1>1. \A e \in ClassId, b \in CosmosAccount : cosmosBalances[e][b] \in Int
  OBVIOUS
<1>2. SumFunctionOnSet(cosmosBalances[d], CosmosAccount) \in Int
  BY <1>1, SumIsInt, SetsAreFinite
<1>3. CASE d # c
  <2>1. cosmosBalances'[d] = cosmosBalances[d]
    BY <1>3
  <2>2. Held(d)' = Held(d)
    BY <2>1 DEF Held
  <2> QED BY <1>2, <1>3, <2>2 DEF Held
<1>4. CASE d = c
  <2>1. \A b \in CosmosAccount : cosmosBalances[c][b] \in Int
    OBVIOUS
  <2>2. cosmosBalances'[c][a] = n /\ cosmosBalances'[c][a] \in Int
    OBVIOUS
  <2>3. \A b \in CosmosAccount \ {a} : cosmosBalances'[c][b] = cosmosBalances[c][b]
    OBVIOUS
  <2>4. Held(c)' = Held(c) - cosmosBalances[c][a] + cosmosBalances'[c][a]
    BY <2>1, <2>2, <2>3, RowOfHeld
  <2> QED BY <1>1, <1>2, <1>4, <2>2, <2>4 DEF Held
<1> QED BY <1>3, <1>4

LEMMA IssuedChanges ==
  ASSUME tokenSupply \in [ClassId -> Nat], NEW c \in ClassId, NEW n \in Nat,
         tokenSupply' = [tokenSupply EXCEPT ![c] = n]
  PROVE  Issued' = Issued - tokenSupply[c] + n
<1> DEFINE f == tokenSupply
           g == tokenSupply'
<1>1. /\ \A b \in ClassId : f[b] \in Int
      /\ g[c] = n /\ g[c] \in Int
      /\ \A b \in ClassId \ {c} : g[b] = f[b]
  OBVIOUS
<1>2. Issued = SumFunctionOnSet(f, ClassId) /\ Issued' = SumFunctionOnSet(g, ClassId)
      /\ f[c] = tokenSupply[c]
  BY DEF Issued
<1> HIDE DEF f, g
<1>3. SumFunctionOnSet(g, ClassId) = SumFunctionOnSet(f, ClassId) - f[c] + g[c]
  BY <1>1, SumChanges, SetsAreFinite
<1>4. g[c] = n
  BY <1>1
<1> QED BY <1>2, <1>3, <1>4

LEMMA TransferKeepsHeld ==
  ASSUME cosmosBalances \in [ClassId -> [CosmosAccount -> Nat]],
         NEW from \in CosmosAccount, NEW to \in CosmosAccount, NEW c \in ClassId,
         NEW amount \in Nat, Transfer(from, to, c, amount), NEW d \in ClassId
  PROVE  Held(d)' = Held(d)
<1> DEFINE f == cosmosBalances[d]
           g == cosmosBalances'[d]
<1>1. /\ Held(d) = SumFunctionOnSet(f, CosmosAccount)
      /\ Held(d)' = SumFunctionOnSet(g, CosmosAccount)
  BY DEF Held
<1>2. /\ \A a \in CosmosAccount : f[a] \in Nat /\ g[a] \in Nat
      /\ \A a \in CosmosAccount : g[a] =
            IF d # c \/ a \notin {from, to} \/ from = to THEN f[a]
            ELSE IF a = from THEN f[a] - amount ELSE f[a] + amount
  BY TransferBalances
<1> HIDE DEF f, g
<1>3. CASE d # c \/ from = to
  <2>1. \A a \in CosmosAccount : g[a] = f[a]
    BY <1>2, <1>3
  <2> QED BY <1>1, <2>1, SumsAgree, SetsAreFinite
<1>4. CASE d = c /\ from # to
  <2>1. \A a \in CosmosAccount : f[a] \in Int /\ g[a] \in Int
    BY <1>2
  <2>2. \A a \in CosmosAccount \ {from, to} : g[a] = f[a]
    BY <1>2, <1>4
  <2>3. g[from] = f[from] - amount /\ g[to] = f[to] + amount
    BY <1>2, <1>4
  <2>4. f[from] \in Int /\ f[to] \in Int
    BY <2>1
  <2>5. SumFunctionOnSet(f, CosmosAccount) \in Int
    BY <2>1, SumIsInt, SetsAreFinite
  <2>6. from # to
    BY <1>4
  <2>7. SumFunctionOnSet(g, CosmosAccount) =
            SumFunctionOnSet(f, CosmosAccount) - f[from] - f[to] + g[from] + g[to]
    BY <2>1, <2>2, <2>6, RowMoves
  <2> QED BY <1>1, <2>3, <2>4, <2>5, <2>7
<1> QED BY <1>3, <1>4

\* What a step enters in the ledger.
LedgerStep ==
  \/ UNCHANGED <<outboundLocks, ledgerVars>>
  \/ \E c \in ClassId, a \in CosmosAccount, n \in Nat :
        /\ UNCHANGED outboundLocks
        /\ cosmosBalances' = [cosmosBalances EXCEPT ![c][a] = @ + n]
        /\ tokenSupply' = [tokenSupply EXCEPT ![c] = @ + n]
        /\ totalSupply' = totalSupply + n
  \/ \E from, to \in CosmosAccount, c \in ClassId, amount \in CosmosAmount :
        Transfer(from, to, c, amount)
  \/ \E x \in HashText, lock \in OutboundRecord, a \in CosmosAccount :
        /\ BurnOpened(x, lock)
        /\ cosmosBalances[lock.class][a] >= lock.amount
        /\ cosmosBalances' = [cosmosBalances EXCEPT ![lock.class][a] = @ - lock.amount]
        /\ UNCHANGED <<tokenSupply, totalSupply>>
  \/ \E x \in HashText, lock \in OutboundRecord :
        /\ BurnDecided(x, lock) /\ UNCHANGED cosmosBalances
        /\ tokenSupply' = [tokenSupply EXCEPT ![outboundLocks[x].class] =
                                SaturatingSub(@, lock.amount)]
        /\ totalSupply' = SaturatingSub(totalSupply, lock.amount)
  \/ \E x \in HashText, lock \in OutboundRecord, a \in CosmosAccount :
        /\ BurnDecided(x, lock) /\ UNCHANGED <<tokenSupply, totalSupply>>
        /\ cosmosBalances' = [cosmosBalances EXCEPT ![outboundLocks[x].class][a] =
                                  @ + lock.amount]

LEMMA LedgerOfStep ==
  ASSUME Stored, MintsMatchRegistry, [CosmosNext]_cosmosVars
  PROVE  LedgerStep
<1>1. ASSUME NEW x \in HashText, NEW s \in Secret, NEW untrn \in Coins,
             NEW relay \in RelayCoins, ClaimMint(x, s, untrn, relay)
      PROVE  LedgerStep
  <2>1. /\ htlcLocks[x].class \in ClassId /\ htlcLocks[x].recipient \in CosmosAccount
        /\ htlcLocks[x].amount \in Nat
    BY <1>1, InboundNumbers DEF ClaimMint
  <2>2. /\ UNCHANGED outboundLocks
        /\ cosmosBalances' = [cosmosBalances EXCEPT
                ![htlcLocks[x].class][htlcLocks[x].recipient] = @ + htlcLocks[x].amount]
        /\ tokenSupply' = [tokenSupply EXCEPT ![htlcLocks[x].class] = @ + htlcLocks[x].amount]
        /\ totalSupply' = totalSupply + htlcLocks[x].amount
    BY <1>1 DEF ClaimMint
  <2> QED BY <2>1, <2>2 DEF LedgerStep
<1>2. ASSUME NEW sender \in CosmosAccount, NEW c \in ClassId, NEW amount \in CosmosAmount,
             NEW x \in HashText, NEW timelock \in CosmosTimelock, NEW evmRecipient \in Address,
             NEW dest \in Endpoint, NEW bounty \in Coins, NEW untrn \in Coins,
             NEW relay \in RelayCoins,
             LockForBurn(sender, c, amount, x, timelock, evmRecipient, dest, bounty, untrn, relay)
      PROVE  LedgerStep
  <2>1. PICK lock \in OutboundRecord :
            BurnOpened(x, lock) /\ lock.class = c /\ lock.amount = amount
    BY <1>2, LockForBurnRecord
  <2>2. /\ cosmosBalances[lock.class][sender] >= lock.amount
        /\ cosmosBalances' = [cosmosBalances EXCEPT ![lock.class][sender] = @ - lock.amount]
        /\ UNCHANGED <<tokenSupply, totalSupply>>
    BY <1>2, <2>1 DEF LockForBurn
  <2> QED BY <2>1, <2>2 DEF LedgerStep
<1>3. ASSUME NEW caller \in CosmosAccount, NEW x \in HashText, NEW s \in Secret,
             ClaimBurn(caller, x, s)
      PROVE  LedgerStep
  <2>1. PICK lock \in OutboundRecord : BurnDecided(x, lock) /\ lock.state = "Claimed"
    BY <1>3, ClaimBurnRecord
  <2>2. /\ UNCHANGED cosmosBalances
        /\ tokenSupply' = [tokenSupply EXCEPT ![outboundLocks[x].class] =
                                SaturatingSub(@, lock.amount)]
        /\ totalSupply' = SaturatingSub(totalSupply, lock.amount)
    BY <1>3, <2>1 DEF ClaimBurn, BurnDecided
  <2> QED BY <2>1, <2>2 DEF LedgerStep
<1>4. ASSUME NEW caller \in CosmosAccount, NEW x \in HashText, RefundBurn(caller, x)
      PROVE  LedgerStep
  <2>1. PICK lock \in OutboundRecord : BurnDecided(x, lock) /\ lock.state = "Refunded"
    BY <1>4, RefundBurnRecord
  <2>2. /\ UNCHANGED <<tokenSupply, totalSupply>>
        /\ cosmosBalances' = [cosmosBalances EXCEPT ![outboundLocks[x].class][caller] =
                                  @ + lock.amount]
    BY <1>4, <2>1 DEF RefundBurn, BurnDecided
  <2> QED BY <2>1, <2>2 DEF LedgerStep
<1>5. CASE Moves
  BY <1>5 DEF Moves, LedgerStep
<1>6. ASSUME NEW c \in ClassId, NEW i \in IndicatorText, CreateTokenClass(c, i)
      PROVE  LedgerStep
  <2>1. tokenSupply[c] = 0 /\ tokenSupply \in [ClassId -> Nat]
    BY <1>6 DEF CreateTokenClass, MintsMatchRegistry, Stored
  <2>2. tokenSupply' = tokenSupply
    BY <1>6, <2>1 DEF CreateTokenClass
  <2> QED BY <1>6, <2>2 DEF CreateTokenClass, LedgerStep, ledgerVars
<1>7. CASE Prepares \/ RefundsMint
  BY <1>7 DEF Prepares, RefundsMint, PrepareMint, RefundMint, LedgerStep
<1>8. CASE Authorizes \/ Withdraws \/ Answers \/ CosmosTick \/ UNCHANGED cosmosVars
  BY <1>8 DEF Authorizes, Withdraws, Answers, AddAuthorizedSender, RemoveAuthorizedSender,
     WithdrawFunds, IbcAccept, IbcReturn, CosmosTick, cosmosVars, LedgerStep
<1> QED
  BY <1>1, <1>2, <1>3, <1>4, <1>5, <1>6, <1>7, <1>8, Steps
  DEF ClaimsMint, LocksForBurn, ClaimsBurn, RefundsBurn, Creates

LEMMA LedgerNumbers ==
  ASSUME Stored, AccountsType
  PROVE  /\ Issued \in Nat /\ totalSupply \in Nat
         /\ \A c \in ClassId : Held(c) \in Nat /\ EscrowOf(c) \in Nat /\ tokenSupply[c] \in Nat
         /\ \A c \in ClassId : tokenSupply[c] <= Issued
         /\ \A c \in ClassId, a \in CosmosAccount : cosmosBalances[c][a] <= Held(c)
<1>0. /\ \A c \in ClassId, a \in CosmosAccount : cosmosBalances[c][a] \in Nat
      /\ \A c \in ClassId : tokenSupply[c] \in Nat
      /\ totalSupply \in Nat
  BY AmountsAreNat DEF Stored, AccountsType
<1>1. /\ Issued \in Nat /\ \A c \in ClassId : tokenSupply[c] <= Issued
  BY <1>0, SetsAreFinite, SumIsNat, SumBounds DEF Issued
<1>2. ASSUME NEW c \in ClassId
      PROVE  Held(c) \in Nat /\ \A a \in CosmosAccount : cosmosBalances[c][a] <= Held(c)
  <2> DEFINE f == cosmosBalances[c]
  <2>1. \A a \in CosmosAccount : f[a] \in Nat
    BY <1>0
  <2>2. Held(c) = SumFunctionOnSet(f, CosmosAccount)
    BY DEF Held
  <2>3. \A a \in CosmosAccount : f[a] = cosmosBalances[c][a]
    OBVIOUS
  <2> HIDE DEF f
  <2>4. /\ SumFunctionOnSet(f, CosmosAccount) \in Nat
        /\ \A a \in CosmosAccount : f[a] <= SumFunctionOnSet(f, CosmosAccount)
    BY <2>1, SetsAreFinite, SumIsNat, SumBounds
  <2> QED BY <2>2, <2>3, <2>4
<1> QED BY <1>0, <1>1, <1>2, CosmosSumsAreNat

LEMMA LedgerStepKeeps ==
  ASSUME Stored, AccountsType, SupplyMatchesHoldings, LedgerStep
  PROVE  SupplyMatchesHoldings'
<1>0. /\ cosmosBalances \in [ClassId -> [CosmosAccount -> Nat]]
      /\ tokenSupply \in [ClassId -> Nat]
  BY DEF Stored, AccountsType
<1>1. /\ totalSupply = Issued /\ Issued \in Nat
      /\ \A c \in ClassId : /\ tokenSupply[c] = Held(c) + EscrowOf(c)
                            /\ Held(c) \in Nat /\ EscrowOf(c) \in Nat /\ tokenSupply[c] \in Nat
                            /\ tokenSupply[c] <= Issued
  BY LedgerNumbers DEF SupplyMatchesHoldings, Held, Issued
<1> SUFFICES /\ \A c \in ClassId : tokenSupply'[c] = Held(c)' + EscrowOf(c)'
             /\ totalSupply' = Issued'
  BY DEF SupplyMatchesHoldings, Held, Issued
<1>2. CASE UNCHANGED <<outboundLocks, ledgerVars>>
  BY <1>1, <1>2 DEF ledgerVars, Held, EscrowOf, Issued
<1>3. ASSUME NEW c \in ClassId, NEW a \in CosmosAccount, NEW n \in Nat,
             UNCHANGED outboundLocks,
             cosmosBalances' = [cosmosBalances EXCEPT ![c][a] = @ + n],
             tokenSupply' = [tokenSupply EXCEPT ![c] = @ + n],
             totalSupply' = totalSupply + n
      PROVE  /\ \A d \in ClassId : tokenSupply'[d] = Held(d)' + EscrowOf(d)'
             /\ totalSupply' = Issued'
  <2> DEFINE held == cosmosBalances[c][a] + n
             supply == tokenSupply[c] + n
  <2>1. /\ held \in Nat /\ supply \in Nat
        /\ cosmosBalances' = [cosmosBalances EXCEPT ![c][a] = held]
        /\ tokenSupply' = [tokenSupply EXCEPT ![c] = supply]
        /\ cosmosBalances[c][a] \in Nat
    BY <1>0, <1>3
  <2>2. held - cosmosBalances[c][a] = n
    BY <2>1
  <2> HIDE DEF held
  <2>3. \A d \in ClassId : Held(d)' = Held(d) + (IF d = c THEN n ELSE 0)
    BY <1>0, <2>1, <2>2, HeldChanges
  <2>4. \A d \in ClassId : tokenSupply'[d] = tokenSupply[d] + (IF d = c THEN n ELSE 0)
    BY <1>0, <1>1, <1>3
  <2>5. \A d : EscrowOf(d)' = EscrowOf(d)
    BY <1>3 DEF EscrowOf
  <2>6. supply = tokenSupply[c] + n
    OBVIOUS
  <2> HIDE DEF supply
  <2>7. Issued' = Issued - tokenSupply[c] + supply
    BY <1>0, <2>1, IssuedChanges
  <2>8. totalSupply' = Issued'
    BY <1>1, <1>3, <2>6, <2>7
  <2> QED BY <1>1, <2>3, <2>4, <2>5, <2>8
<1>4. ASSUME NEW from \in CosmosAccount, NEW to \in CosmosAccount, NEW c \in ClassId,
             NEW amount \in CosmosAmount, Transfer(from, to, c, amount)
      PROVE  /\ \A d \in ClassId : tokenSupply'[d] = Held(d)' + EscrowOf(d)'
             /\ totalSupply' = Issued'
  <2>1. \A d \in ClassId : Held(d)' = Held(d)
    BY <1>0, <1>4, TransferKeepsHeld, AmountsAreNat
  <2>2. UNCHANGED <<outboundLocks, tokenSupply, totalSupply>>
    BY <1>4 DEF Transfer
  <2> QED BY <1>1, <2>1, <2>2 DEF EscrowOf, Issued
<1>5. ASSUME NEW x \in HashText, NEW lock \in OutboundRecord, NEW a \in CosmosAccount,
             BurnOpened(x, lock), cosmosBalances[lock.class][a] >= lock.amount,
             cosmosBalances' = [cosmosBalances EXCEPT ![lock.class][a] = @ - lock.amount],
             UNCHANGED <<tokenSupply, totalSupply>>
      PROVE  /\ \A d \in ClassId : tokenSupply'[d] = Held(d)' + EscrowOf(d)'
             /\ totalSupply' = Issued'
  <2> DEFINE n == lock.amount
             c == lock.class
             held == cosmosBalances[c][a] - n
  <2>1. /\ n \in Nat /\ \A d : EscrowOf(d)' = EscrowOf(d) + (IF c = d THEN n ELSE 0)
    BY <1>5, BurnOpenedSums
  <2>2. c \in ClassId
    BY DEF OutboundRecord
  <2>3. /\ cosmosBalances[c][a] >= n
        /\ cosmosBalances' = [cosmosBalances EXCEPT ![c][a] = held]
    BY <1>5
  <2> HIDE DEF n, c
  <2>4. held \in Nat /\ held - cosmosBalances[c][a] = 0 - n
    BY <1>0, <2>1, <2>2, <2>3
  <2> HIDE DEF held
  <2>5. \A d \in ClassId : Held(d)' = Held(d) + (IF d = c THEN 0 - n ELSE 0)
    <3>1. held \in Nat /\ cosmosBalances' = [cosmosBalances EXCEPT ![c][a] = held]
      BY <2>3, <2>4
    <3>2. \A d \in ClassId :
            Held(d)' = Held(d) + (IF d = c THEN held - cosmosBalances[c][a] ELSE 0)
      BY <1>0, <2>2, <3>1, HeldChanges
    <3> QED BY <2>4, <3>2
  <2>6. tokenSupply' = tokenSupply /\ totalSupply' = totalSupply /\ Issued' = Issued
    BY <1>5 DEF Issued
  <2>7. ASSUME NEW d \in ClassId PROVE tokenSupply'[d] = Held(d)' + EscrowOf(d)'
    <3>1. Held(d)' + EscrowOf(d)' = Held(d) + EscrowOf(d)
      BY <1>1, <2>1, <2>5
    <3> QED BY <1>1, <2>6, <3>1
  <2> QED BY <1>1, <2>6, <2>7
<1>6. ASSUME NEW x \in HashText, NEW lock \in OutboundRecord,
             BurnDecided(x, lock), UNCHANGED cosmosBalances,
             tokenSupply' = [tokenSupply EXCEPT ![outboundLocks[x].class] =
                                SaturatingSub(@, lock.amount)],
             totalSupply' = SaturatingSub(totalSupply, lock.amount)
      PROVE  /\ \A d \in ClassId : tokenSupply'[d] = Held(d)' + EscrowOf(d)'
             /\ totalSupply' = Issued'
  <2> DEFINE n == lock.amount
             c == outboundLocks[x].class
             supply == tokenSupply[c] - n
  <2>1. /\ n \in Nat /\ n = outboundLocks[x].amount
        /\ \A d : EscrowOf(d)' = EscrowOf(d) - (IF c = d THEN n ELSE 0)
    BY <1>6, BurnDecidedSums
  <2>2. c \in ClassId /\ outboundLocks[x].state = "Locked"
    BY <1>6, OutboundNumbers DEF BurnDecided
  <2>3. n <= EscrowOf(c)
    BY <2>1, <2>2, CosmosSumsAreNat
  <2>4. /\ tokenSupply' = [tokenSupply EXCEPT ![c] = SaturatingSub(tokenSupply[c], n)]
        /\ totalSupply' = SaturatingSub(totalSupply, n)
    BY <1>6
  <2>5. \A d \in ClassId : Held(d)' = Held(d)
    BY <1>6 DEF Held
  <2> HIDE DEF n, c
  <2>6. tokenSupply[c] >= n /\ totalSupply >= n /\ supply \in Nat
    BY <1>1, <2>1, <2>2, <2>3
  <2>7. SaturatingSub(tokenSupply[c], n) = supply /\ SaturatingSub(totalSupply, n) = totalSupply - n
    BY <2>6 DEF SaturatingSub
  <2>8. \A d \in ClassId : tokenSupply'[d] = tokenSupply[d] - (IF d = c THEN n ELSE 0)
    BY <1>0, <1>1, <2>4, <2>7
  <2>9. supply = tokenSupply[c] - n
    OBVIOUS
  <2> HIDE DEF supply
  <2>10. Issued' = Issued - tokenSupply[c] + supply
    BY <1>0, <2>2, <2>4, <2>6, <2>7, IssuedChanges
  <2>11. totalSupply' = Issued'
    BY <1>1, <2>1, <2>2, <2>4, <2>7, <2>9, <2>10
  <2>12. ASSUME NEW d \in ClassId PROVE tokenSupply'[d] = Held(d)' + EscrowOf(d)'
    BY <1>1, <2>1, <2>5, <2>8
  <2> QED BY <2>11, <2>12
<1>7. ASSUME NEW x \in HashText, NEW lock \in OutboundRecord, NEW a \in CosmosAccount,
             BurnDecided(x, lock), UNCHANGED <<tokenSupply, totalSupply>>,
             cosmosBalances' = [cosmosBalances EXCEPT ![outboundLocks[x].class][a] =
                                  @ + lock.amount]
      PROVE  /\ \A d \in ClassId : tokenSupply'[d] = Held(d)' + EscrowOf(d)'
             /\ totalSupply' = Issued'
  <2> DEFINE n == lock.amount
             c == outboundLocks[x].class
             held == cosmosBalances[c][a] + n
  <2>1. /\ n \in Nat
        /\ \A d : EscrowOf(d)' = EscrowOf(d) - (IF c = d THEN n ELSE 0)
    BY <1>7, BurnDecidedSums
  <2>2. c \in ClassId
    BY <1>7, OutboundNumbers DEF BurnDecided
  <2>3. cosmosBalances' = [cosmosBalances EXCEPT ![c][a] = held]
    BY <1>7
  <2> HIDE DEF n, c
  <2>4. held \in Nat /\ held - cosmosBalances[c][a] = n
    BY <1>0, <2>1, <2>2
  <2> HIDE DEF held
  <2>5. \A d \in ClassId : Held(d)' = Held(d) + (IF d = c THEN n ELSE 0)
    BY <1>0, <2>2, <2>3, <2>4, HeldChanges
  <2>6. tokenSupply' = tokenSupply /\ totalSupply' = totalSupply /\ Issued' = Issued
    BY <1>7 DEF Issued
  <2>7. ASSUME NEW d \in ClassId PROVE tokenSupply'[d] = Held(d)' + EscrowOf(d)'
    <3>1. Held(d)' + EscrowOf(d)' = Held(d) + EscrowOf(d)
      BY <1>1, <2>1, <2>5
    <3> QED BY <1>1, <2>6, <3>1
  <2> QED BY <1>1, <2>6, <2>7
<1> QED BY <1>2, <1>3, <1>4, <1>5, <1>6, <1>7 DEF LedgerStep

\* The ledger's invariant: supplies, with the types and the records they are sums over.
LEMMA LedgerKeeps ==
  CosmosSpec => [](MintsMatchRegistry /\ RecordInv /\ AccountsType /\ SupplyMatchesHoldings)
<1> DEFINE Inv == RecordInv /\ AccountsType /\ SupplyMatchesHoldings
<1>1. CosmosInit => Inv
  <2> SUFFICES ASSUME CosmosInit PROVE Inv
    OBVIOUS
  <2>1. RecordInv /\ AccountsType
    BY RecordsInit, AccountsInit
  <2>2. ASSUME NEW c \in ClassId
        PROVE  Held(c) = 0 /\ EscrowOf(c) = 0 /\ tokenSupply[c] = 0
    <3> DEFINE f == [x \in HashText |-> IF outboundLocks[x].state = "Locked"
                                           /\ outboundLocks[x].class = c
                                        THEN outboundLocks[x].amount ELSE 0]
               g == cosmosBalances[c]
    <3>1. (\A x \in HashText : f[x] = 0) /\ \A a \in CosmosAccount : g[a] = 0
      BY DEF CosmosInit, CosmosInitWith, NoOutbound
    <3>2. EscrowOf(c) = SumFunctionOnSet(f, HashText) /\ Held(c) = SumFunctionOnSet(g, CosmosAccount)
      BY DEF EscrowOf, Held
    <3>3. tokenSupply[c] = 0
      BY DEF CosmosInit, CosmosInitWith
    <3> HIDE DEF f, g
    <3> QED BY <3>1, <3>2, <3>3, SumOfZeros, SetsAreFinite
  <2>3. Issued = 0
    <3>1. \A c \in ClassId : tokenSupply[c] = 0
      BY <2>2
    <3> QED BY <3>1, SumOfZeros, SetsAreFinite DEF Issued
  <2>4. totalSupply = 0
    BY DEF CosmosInit, CosmosInitWith
  <2> QED BY <2>1, <2>2, <2>3, <2>4 DEF SupplyMatchesHoldings, Held, Issued
<1>2. Inv /\ MintsMatchRegistry /\ [CosmosNext]_cosmosVars => Inv'
  BY RecordsStep, AccountsOfStep, LedgerOfStep, LedgerStepKeeps DEF RecordInv
<1> HIDE DEF Inv
<1>3. CosmosSpec => [](Inv /\ MintsMatchRegistry)
  BY <1>1, <1>2, MintsKeepRegistry, PTL DEF CosmosSpec
<1>4. Inv /\ MintsMatchRegistry =>
        MintsMatchRegistry /\ RecordInv /\ AccountsType /\ SupplyMatchesHoldings
  BY DEF Inv
<1> QED BY <1>3, <1>4, PTL

\* TOKEN_SUPPLY of a class is what its holders have and its open outbound locks escrow,
\* and TOTAL_SUPPLY their sum, whatever is minted, burned, refunded or transferred.
THEOREM SupplyStaysExact == CosmosSpec => []SupplyMatchesHoldings
  BY LedgerKeeps, PTL

\* Every variable keeps its type, and no balance or supply leaves 128 bits: balances are
\* bounded by the supply of their class, that one by the total, which claim_mint checks.
THEOREM CosmosTypeCorrect == CosmosSpec => []CosmosTypeOK
<1>1. RecordInv /\ AccountsType /\ SupplyMatchesHoldings => CosmosTypeOK
  <2> SUFFICES ASSUME Stored, AccountsType, SupplyMatchesHoldings PROVE CosmosTypeOK
    BY DEF RecordInv
  <2>1. /\ cosmosBalances \in [ClassId -> [CosmosAccount -> Nat]]
        /\ tokenSupply \in [ClassId -> Nat] /\ totalSupply \in 0..MaxUint128
        /\ MaxUint128 \in Nat
    BY AmountsAreNat DEF Stored, AccountsType
  <2>2. /\ totalSupply = Issued
        /\ \A c \in ClassId : /\ tokenSupply[c] = Held(c) + EscrowOf(c)
                              /\ Held(c) \in Nat /\ EscrowOf(c) \in Nat
                              /\ tokenSupply[c] <= Issued
        /\ \A c \in ClassId, a \in CosmosAccount : cosmosBalances[c][a] <= Held(c)
    BY LedgerNumbers DEF SupplyMatchesHoldings, Held, Issued
  <2>3. tokenSupply \in [ClassId -> 0..MaxUint128]
    <3>1. \A c \in ClassId : tokenSupply[c] \in 0..MaxUint128
      BY <2>1, <2>2
    <3> QED BY <2>1, <3>1
  <2>4. cosmosBalances \in [ClassId -> [CosmosAccount -> 0..MaxUint128]]
    <3>1. \A c \in ClassId, a \in CosmosAccount : cosmosBalances[c][a] \in 0..MaxUint128
      BY <2>1, <2>2
    <3> QED BY <2>1, <3>1
  <2> QED BY <2>3, <2>4 DEF CosmosTypeOK, Stored, AccountsType, StatsType
<1> QED BY <1>1, LedgerKeeps, PTL

----------------------------------------------------------------------------
(* The bounties.                                                            *)

BankStep ==
  \/ UNCHANGED outboundLocks /\ bankUntrn' >= bankUntrn
  \/ UNCHANGED outboundLocks /\ (OwnerSparesBounties => bankUntrn' >= EscrowedBounties)
  \/ \E x \in HashText, lock \in OutboundRecord :
        BurnOpened(x, lock) /\ bankUntrn' >= bankUntrn + lock.bounty
  \/ \E x \in HashText, lock \in OutboundRecord :
        BurnDecided(x, lock) /\ bankUntrn' = bankUntrn - outboundLocks[x].bounty

LEMMA BankOfStep ==
  ASSUME Stored, AccountsType, [CosmosNext]_cosmosVars
  PROVE  BankStep
<1>0. /\ bankUntrn \in Nat /\ Coins \subseteq Nat /\ EscrowedBounties \in Nat
      /\ IBC_MIN_FUNDS \in Nat /\ IBC_ACK_FEE \in Nat /\ IBC_TIMEOUT_FEE \in Nat
  BY AmountsAreNat, FeesAreNat, CosmosSumsAreNat DEF AccountsType
<1>1. ASSUME NEW x \in HashText, NEW s \in Secret, NEW untrn \in Coins,
             NEW relay \in RelayCoins, ClaimMint(x, s, untrn, relay)
      PROVE  BankStep
  <2>1. untrn \in Nat
    BY <1>0
  <2>2. \/ untrn >= IBC_MIN_FUNDS /\ bankUntrn' = bankUntrn + untrn - IBC_MIN_FUNDS
        \/ bankUntrn' = bankUntrn + untrn
    BY <1>1 DEF ClaimMint, PaysForPacket, SendThroughAxelar
  <2>3. bankUntrn' >= bankUntrn
    BY <1>0, <2>1, <2>2
  <2>4. UNCHANGED outboundLocks
    BY <1>1 DEF ClaimMint
  <2> QED BY <2>3, <2>4 DEF BankStep
<1>2. ASSUME NEW sender \in CosmosAccount, NEW c \in ClassId, NEW amount \in CosmosAmount,
             NEW x \in HashText, NEW timelock \in CosmosTimelock, NEW evmRecipient \in Address,
             NEW dest \in Endpoint, NEW bounty \in Coins, NEW untrn \in Coins,
             NEW relay \in RelayCoins,
             LockForBurn(sender, c, amount, x, timelock, evmRecipient, dest, bounty, untrn, relay)
      PROVE  BankStep
  <2>1. PICK lock \in OutboundRecord : BurnOpened(x, lock) /\ lock.bounty = bounty
    BY <1>2, LockForBurnRecord
  <2>2. /\ untrn - bounty >= IBC_MIN_FUNDS
        /\ bankUntrn' = bankUntrn + untrn - IBC_MIN_FUNDS
    BY <1>2 DEF LockForBurn, PaysForPacket, SendThroughAxelar
  <2>3. untrn \in Nat /\ bounty \in Nat
    BY <1>0
  <2>4. bankUntrn' >= bankUntrn + lock.bounty
    BY <1>0, <2>1, <2>2, <2>3
  <2> QED BY <2>1, <2>4 DEF BankStep
<1>3. ASSUME NEW caller \in CosmosAccount, NEW x \in HashText, NEW s \in Secret,
             ClaimBurn(caller, x, s)
      PROVE  BankStep
  <2>1. PICK lock \in OutboundRecord : BurnDecided(x, lock) /\ lock.state = "Claimed"
    BY <1>3, ClaimBurnRecord
  <2>2. bankUntrn' = bankUntrn - outboundLocks[x].bounty
    BY <1>3 DEF ClaimBurn, SendUntrn
  <2> QED BY <2>1, <2>2 DEF BankStep
<1>4. ASSUME NEW caller \in CosmosAccount, NEW x \in HashText, RefundBurn(caller, x)
      PROVE  BankStep
  <2>1. PICK lock \in OutboundRecord : BurnDecided(x, lock) /\ lock.state = "Refunded"
    BY <1>4, RefundBurnRecord
  <2>2. bankUntrn' = bankUntrn - outboundLocks[x].bounty
    BY <1>4 DEF RefundBurn, SendUntrn
  <2> QED BY <2>1, <2>2 DEF BankStep
<1>5. ASSUME NEW untrn \in Coins, NEW relay \in RelayCoins, NEW to \in CosmosAccount,
             WithdrawFunds(untrn, relay, to)
      PROVE  BankStep
  <2>1. /\ UNCHANGED outboundLocks /\ bankUntrn' = bankUntrn - untrn
        /\ OwnerSparesBounties => untrn + EscrowedBounties <= bankUntrn
    BY <1>5 DEF WithdrawFunds
  <2>2. OwnerSparesBounties => bankUntrn' >= EscrowedBounties
    BY <1>0, <2>1
  <2> QED BY <2>1, <2>2 DEF BankStep
<1>6. CASE Answers
  <2>1. UNCHANGED outboundLocks
    BY <1>6 DEF Answers, IbcAccept, IbcReturn
  <2>2. \E fee \in {IBC_ACK_FEE, IBC_TIMEOUT_FEE} : bankUntrn' = bankUntrn + fee
    BY <1>6 DEF Answers, IbcAccept, IbcReturn
  <2>3. bankUntrn' >= bankUntrn
    BY <1>0, <2>2
  <2> QED BY <2>1, <2>3 DEF BankStep
<1>7. CASE \/ Prepares \/ RefundsMint \/ Creates \/ Moves \/ Authorizes \/ CosmosTick
           \/ UNCHANGED cosmosVars
  <2>1. UNCHANGED <<outboundLocks, bankUntrn>>
    BY <1>7 DEF Prepares, PrepareMint, RefundsMint, RefundMint, Creates, CreateTokenClass, Moves,
       Transfer, Authorizes, AddAuthorizedSender, RemoveAuthorizedSender, CosmosTick, cosmosVars, bankVars
  <2> QED BY <1>0, <2>1 DEF BankStep
<1> QED
  BY <1>1, <1>2, <1>3, <1>4, <1>5, <1>6, <1>7, Steps
  DEF ClaimsMint, LocksForBurn, ClaimsBurn, RefundsBurn, Withdraws

LEMMA BankStepKeeps ==
  ASSUME Stored, AccountsType, AccountsType', OwnerSparesBounties, BountiesBacked, BankStep
  PROVE  BountiesBacked'
<1>0. /\ bankUntrn \in Nat /\ bankUntrn' \in Nat /\ EscrowedBounties \in Nat
      /\ bankUntrn >= EscrowedBounties
  BY CosmosSumsAreNat DEF AccountsType, BountiesBacked
<1> SUFFICES bankUntrn' >= EscrowedBounties'
  BY DEF BountiesBacked
<1>1. CASE UNCHANGED outboundLocks /\ (bankUntrn' >= bankUntrn \/ bankUntrn' >= EscrowedBounties)
  <2>1. EscrowedBounties' = EscrowedBounties
    BY <1>1 DEF EscrowedBounties
  <2> QED BY <1>0, <1>1, <2>1
<1>2. ASSUME NEW x \in HashText, NEW lock \in OutboundRecord,
             BurnOpened(x, lock), bankUntrn' >= bankUntrn + lock.bounty
      PROVE  bankUntrn' >= EscrowedBounties'
  <2>1. EscrowedBounties' = EscrowedBounties + lock.bounty /\ lock.bounty \in Nat
    BY <1>2, BurnOpenedSums
  <2> QED BY <1>0, <1>2, <2>1
<1>3. ASSUME NEW x \in HashText, NEW lock \in OutboundRecord,
             BurnDecided(x, lock), bankUntrn' = bankUntrn - outboundLocks[x].bounty
      PROVE  bankUntrn' >= EscrowedBounties'
  <2>1. /\ EscrowedBounties' = EscrowedBounties - outboundLocks[x].bounty
        /\ outboundLocks[x].bounty \in Nat
    BY <1>3, BurnDecidedSums
  <2> QED BY <1>0, <1>3, <2>1
<1> QED BY <1>1, <1>2, <1>3 DEF BankStep

\* If the owner withdraws only what IBC refunds orphaned, the bank account covers the
\* bounties of the open outbound locks: claim_burn and refund_burn find theirs.
THEOREM BountiesStayBacked ==
  ASSUME OwnerSparesBounties
  PROVE  CosmosSpec => []BountiesBacked
<1> DEFINE Inv == RecordInv /\ AccountsType /\ BountiesBacked
<1>1. CosmosInit => Inv
  <2> SUFFICES ASSUME CosmosInit PROVE Inv
    OBVIOUS
  <2> DEFINE f == [x \in HashText |-> outboundLocks[x].bounty]
  <2>1. \A x \in HashText : f[x] = 0
    BY DEF CosmosInit, CosmosInitWith, NoOutbound
  <2>2. EscrowedBounties = SumFunctionOnSet(f, HashText)
    BY DEF EscrowedBounties
  <2> HIDE DEF f
  <2>3. EscrowedBounties = 0
    BY <2>1, <2>2, SumOfZeros, SetsAreFinite
  <2>4. bankUntrn = 0
    BY DEF CosmosInit, CosmosInitWith
  <2>5. BountiesBacked
    BY <2>3, <2>4 DEF BountiesBacked
  <2> QED BY <2>5, RecordsInit, AccountsInit
<1>2. Inv /\ [CosmosNext]_cosmosVars => Inv'
  BY RecordsStep, AccountsOfStep, BankOfStep, BankStepKeeps DEF RecordInv
<1>3. Inv => BountiesBacked
  OBVIOUS
<1> HIDE DEF Inv
<1> QED BY <1>1, <1>2, <1>3, PTL DEF CosmosSpec

\* What the subtractions of a settlement need: a pending mint is within
\* total_pending; an open outbound lock is within its class's supply, the total supply
\* and, where the owner spares bounties, its bounty within the bank account.
SubtractionsFit ==
  /\ \A x \in HashText : htlcLocks[x].state = "Pending" => htlcLocks[x].amount <= stats.pending
  /\ \A x \in HashText : outboundLocks[x].state = "Locked" =>
        /\ outboundLocks[x].amount <= tokenSupply[outboundLocks[x].class]
        /\ outboundLocks[x].amount <= totalSupply
        /\ OwnerSparesBounties => outboundLocks[x].bounty <= bankUntrn

\* No subtraction of claim_mint, refund_mint, claim_burn or refund_burn panics or
\* saturates: each takes off what was added when the transfer was opened.
THEOREM SettlementsSubtractExactly == CosmosSpec => []SubtractionsFit
<1>1. ASSUME Stored, AccountsType, SupplyMatchesHoldings, StatsAccountForLocks,
             OwnerSparesBounties => BountiesBacked
      PROVE  SubtractionsFit
  <2>1. ASSUME NEW x \in HashText, htlcLocks[x].state = "Pending"
        PROVE  htlcLocks[x].amount <= stats.pending
    BY <1>1, <2>1, CosmosSumsAreNat DEF StatsAccountForLocks
  <2>2. ASSUME NEW x \in HashText, outboundLocks[x].state = "Locked"
        PROVE  /\ outboundLocks[x].amount <= tokenSupply[outboundLocks[x].class]
               /\ outboundLocks[x].amount <= totalSupply
    <3> DEFINE c == outboundLocks[x].class
               n == outboundLocks[x].amount
    <3>1. c \in ClassId /\ n \in Nat /\ n <= EscrowOf(c)
      BY <1>1, <2>2, OutboundNumbers, CosmosSumsAreNat
    <3> HIDE DEF c, n
    <3>2. /\ totalSupply = Issued /\ Issued \in Nat
          /\ tokenSupply[c] = Held(c) + EscrowOf(c) /\ tokenSupply[c] \in Nat
          /\ Held(c) \in Nat /\ EscrowOf(c) \in Nat /\ tokenSupply[c] <= Issued
      BY <1>1, <3>1, LedgerNumbers DEF SupplyMatchesHoldings, Held, Issued
    <3>3. n <= tokenSupply[c] /\ n <= totalSupply
      BY <3>1, <3>2
    <3> QED BY <3>3 DEF c, n
  <2>3. ASSUME NEW x \in HashText, outboundLocks[x].state = "Locked", OwnerSparesBounties
        PROVE  outboundLocks[x].bounty <= bankUntrn
    <3>1. outboundLocks[x].bounty \in Nat /\ outboundLocks[x].bounty <= EscrowedBounties
          /\ EscrowedBounties \in Nat
      BY <1>1, <2>3, OutboundNumbers, CosmosSumsAreNat
    <3>2. bankUntrn \in Nat /\ bankUntrn >= EscrowedBounties
      BY <1>1, <2>3 DEF AccountsType, BountiesBacked
    <3> QED BY <3>1, <3>2
  <2> QED BY <2>1, <2>2, <2>3 DEF SubtractionsFit
<1>2. CosmosSpec => [](OwnerSparesBounties => BountiesBacked)
  <2>1. CASE OwnerSparesBounties
    BY <2>1, BountiesStayBacked, PTL
  <2>2. CASE ~OwnerSparesBounties
    <3>1. OwnerSparesBounties => BountiesBacked
      BY <2>2
    <3> QED BY <3>1, PTL
  <2> QED BY <2>1, <2>2
<1>3. RecordInv /\ AccountsType /\ SupplyMatchesHoldings /\ StatsAccountForLocks
        /\ (OwnerSparesBounties => BountiesBacked) => SubtractionsFit
  BY <1>1 DEF RecordInv
<1> QED BY <1>2, <1>3, LedgerKeeps, StatsStayExact, PTL
====
