---------------------------- MODULE BridgeSumProofs ----------------------------
(***************************************************************************)
(* The accounts of the EVM bridge balance, for every number of accounts,    *)
(* hashlocks, classes and amounts: escrow covers the open locks, the native *)
(* balance is what is owed, the totals count every lock once, and units are *)
(* burned out of the bridge's own holding only.                             *)
(***************************************************************************)
EXTENDS BridgeHTLCProofs, SumTheorems

Holding(t) == balances[t][This]

\* A step as the books see it.  Nothing entered: no other holder's call takes units
\* from the bridge.
NothingEntered ==
  /\ UNCHANGED <<locks, nativeVars, totalVars>>
  /\ \A t \in TokenId : Holding(t)' >= Holding(t)

LockEntered(h, lock) ==
  /\ locks[h].state = "EMPTY" /\ lock.state = "LOCKED" /\ lock.sender # This
  /\ locks' = [locks EXCEPT ![h] = lock]
  /\ nativeBalance' = nativeBalance + lock.bounty
  /\ totalLocked' = totalLocked + lock.amount
  /\ UNCHANGED <<pendingWithdrawals, totalClaimed, totalRefunded>>
  /\ \A t \in TokenId : Holding(t)' = Holding(t) + (IF t = lock.tokenId THEN lock.amount ELSE 0)

SettlementEntered(h, state, payee) ==
  /\ locks[h].state = "LOCKED"
  /\ locks' = [locks EXCEPT ![h] = Settled(locks[h], state)]
  /\ PayBounty(locks[h].bounty, payee)
  /\ UNCHANGED totalLocked
  /\ totalClaimed' = totalClaimed + (IF state = "CLAIMED" THEN locks[h].amount ELSE 0)
  /\ totalRefunded' = totalRefunded + (IF state = "REFUNDED" THEN locks[h].amount ELSE 0)
  /\ \A t \in TokenId :
        Holding(t)' = Holding(t) - (IF t = locks[h].tokenId THEN locks[h].amount ELSE 0)

WithdrawalEntered(a) ==
  /\ pendingWithdrawals' = [pendingWithdrawals EXCEPT ![a] = 0]
  /\ nativeBalance' = nativeBalance - pendingWithdrawals[a]
  /\ UNCHANGED <<balances, locks, totalVars>>

BooksStep ==
  \/ NothingEntered
  \/ \E h \in Hash, lock \in LockRecord : LockEntered(h, lock)
  \/ \E h \in Hash, state \in {"CLAIMED", "REFUNDED"}, payee \in Address :
        SettlementEntered(h, state, payee)
  \/ \E a \in Address : WithdrawalEntered(a)

----------------------------------------------------------------------------
(* What the token contract's changes of balances do to one holder.          *)

LEMMA MoveOfHolding ==
  ASSUME balances \in Holdings, NEW from \in Address, NEW to \in Address, from # to,
         NEW t \in TokenId, NEW n \in Nat, MoveTokens(from, to, t, n),
         NEW u \in TokenId, NEW a \in Address
  PROVE  balances'[u][a] = IF u # t \/ a \notin {from, to} THEN balances[u][a]
                           ELSE IF a = from THEN balances[u][a] - n ELSE balances[u][a] + n
<1>1. balances[t] \in [Address -> 0..MaxUint256] /\ MaxUint256 \in Nat
  BY TokenAssumption DEF Holdings
<1>2. balances'[u] = IF u = t THEN Moved(balances[t], from, to, n) ELSE balances[u]
  BY DEF MoveTokens, Holdings
<1>3. Moved(balances[t], from, to, n)[a] =
        IF a \notin {from, to} THEN balances[t][a]
        ELSE IF a = from THEN balances[t][a] - n ELSE balances[t][a] + n
  BY <1>1 DEF Moved
<1> QED BY <1>2, <1>3

LEMMA MoveToSelf ==
  ASSUME balances \in Holdings, NEW from \in Address,
         NEW t \in TokenId, NEW n \in Nat, MoveTokens(from, from, t, n)
  PROVE  balances' = balances
<1>1. balances[t] \in [Address -> 0..MaxUint256] /\ MaxUint256 \in Nat
  BY TokenAssumption DEF Holdings
<1>2. Moved(balances[t], from, from, n) = balances[t]
  <2>1. Moved(balances[t], from, from, n) = [balances[t] EXCEPT ![from] = (@ - n) + n]
    BY <1>1 DEF Moved
  <2> QED BY <1>1, <2>1
<1> QED BY <1>2 DEF MoveTokens, Holdings

LEMMA BurnOfHolding ==
  ASSUME balances \in Holdings, NEW from \in Address, NEW t \in TokenId, NEW n \in Nat,
         BurnOf(from, t, n), NEW u \in TokenId, NEW a \in Address
  PROVE  balances'[u][a] = IF u = t /\ a = from THEN balances[u][a] - n ELSE balances[u][a]
  BY DEF BurnOf, Holdings

LEMMA MintOfHolding ==
  ASSUME balances \in Holdings, NEW to \in Address, NEW t \in TokenId, NEW n \in Nat,
         MintTo(to, t, n), NEW u \in TokenId, NEW a \in Address
  PROVE  balances'[u][a] = IF u = t /\ a = to THEN balances[u][a] + n ELSE balances[u][a]
  BY DEF MintTo, Holdings

----------------------------------------------------------------------------
LEMMA HoldingsAre == EvmTypeOK => balances \in Holdings
  BY DEF EvmTypeOK, TokenTypeOK, Holdings

LEMMA HoldingIsNat ==
  ASSUME EvmTypeOK, NEW t \in TokenId, NEW a \in Address
  PROVE  balances[t][a] \in Nat
  BY TokenAssumption DEF EvmTypeOK, TokenTypeOK

LEMMA LockForBurnBooks ==
  ASSUME EvmTypeOK,
         NEW caller \in Address \ {This}, NEW t \in TokenId, NEW n \in Amount, NEW h \in Hash,
         NEW timelock \in Timelock, NEW recipient \in CosmosAccount, NEW dest \in Endpoint,
         NEW bounty \in Wei, NEW value \in Wei,
         LockForBurn(caller, t, n, h, timelock, recipient, dest, bounty, value)
  PROVE  BooksStep
<1> DEFINE lock == [state |-> "LOCKED", sender |-> caller, tokenId |-> t, amount |-> n,
                    timelock |-> timelock, cosmosRecipient |-> recipient,
                    destination |-> dest, bounty |-> bounty]
<1>1. n \in 1..MaxUint256 /\ n \in Nat /\ This \in Address /\ bounty \in Nat /\ value \in Nat
  BY TokenAssumption, BridgeAssumption DEF LockForBurn
<1>2. lock \in LockRecord
  BY <1>1 DEF LockRecord
<1>3. \A u \in TokenId : Holding(u)' = Holding(u) + (IF u = t THEN n ELSE 0)
  <2> SUFFICES ASSUME NEW u \in TokenId
               PROVE  Holding(u)' = Holding(u) + (IF u = t THEN n ELSE 0)
    OBVIOUS
  <2>1. MoveTokens(caller, This, t, n) /\ caller # This
    BY DEF LockForBurn
  <2>2. balances'[u][This] = IF u # t THEN balances[u][This] ELSE balances[u][This] + n
    BY <1>1, <2>1, HoldingsAre, MoveOfHolding
  <2>3. balances[u][This] \in Nat
    BY <1>1, HoldingIsNat
  <2> QED BY <2>2, <2>3 DEF Holding
<1>4. nativeBalance' = nativeBalance + bounty
  <2>1. nativeBalance \in Nat /\ nativeBalance' = nativeBalance + value - (value - bounty)
    BY DEF LockForBurn, EvmTypeOK, BridgeTypeOK
  <2> QED BY <1>1, <2>1
<1>5. LockEntered(h, lock)
  BY <1>3, <1>4 DEF LockForBurn, LockEntered    \* no call comes from the bridge itself
<1> QED BY <1>2, <1>5 DEF BooksStep

LEMMA BurnEscrowBooks ==
  ASSUME EvmTypeOK, NEW h \in Hash, NEW s \in Secret, NEW payee \in Address,
         BurnEscrow(h, s, payee)
  PROVE  BooksStep
<1>1. /\ locks[h].tokenId \in TokenId /\ locks[h].amount \in Nat
      /\ This \in Address /\ This = bridge
  BY LockFields, LockNumbers, BridgeAssumption DEF BurnEscrow
<1>2. \A u \in TokenId :
        Holding(u)' = Holding(u) - (IF u = locks[h].tokenId THEN locks[h].amount ELSE 0)
  <2> SUFFICES ASSUME NEW u \in TokenId
               PROVE  Holding(u)' = Holding(u)
                            - (IF u = locks[h].tokenId THEN locks[h].amount ELSE 0)
    OBVIOUS
  <2>1. BurnOf(This, locks[h].tokenId, locks[h].amount)
    BY <1>1 DEF BurnEscrow
  <2>2. balances'[u][This] = IF u = locks[h].tokenId THEN balances[u][This] - locks[h].amount
                             ELSE balances[u][This]
    BY <1>1, <2>1, HoldingsAre, BurnOfHolding
  <2>3. balances[u][This] \in Nat
    BY <1>1, HoldingIsNat
  <2> QED BY <1>1, <2>2, <2>3 DEF Holding
<1>3. totalRefunded \in Nat
  BY TokenAssumption DEF EvmTypeOK, BridgeTypeOK
<1>4. SettlementEntered(h, "CLAIMED", payee)
  BY <1>2, <1>3 DEF BurnEscrow, SettlementEntered
<1> QED BY <1>4 DEF BooksStep

LEMMA RefundBurnBooks ==
  ASSUME EvmTypeOK, NEW h \in Hash, NEW caller \in Address \ {This}, RefundBurn(caller, h)
  PROVE  BooksStep
<1>1. /\ locks[h].tokenId \in TokenId /\ locks[h].amount \in Nat
      /\ locks[h].sender \in Address /\ locks[h].sender # This /\ This \in Address
  BY LockFields, LockNumbers, BridgeAssumption DEF RefundBurn
<1>2. \A u \in TokenId :
        Holding(u)' = Holding(u) - (IF u = locks[h].tokenId THEN locks[h].amount ELSE 0)
  <2> SUFFICES ASSUME NEW u \in TokenId
               PROVE  Holding(u)' = Holding(u)
                            - (IF u = locks[h].tokenId THEN locks[h].amount ELSE 0)
    OBVIOUS
  <2>1. MoveTokens(This, locks[h].sender, locks[h].tokenId, locks[h].amount)
    BY DEF RefundBurn
  <2>2. balances'[u][This] = IF u # locks[h].tokenId THEN balances[u][This]
                             ELSE balances[u][This] - locks[h].amount
    BY <1>1, <2>1, HoldingsAre, MoveOfHolding
  <2>3. balances[u][This] \in Nat
    BY <1>1, HoldingIsNat
  <2> QED BY <1>1, <2>2, <2>3 DEF Holding
<1>3. totalClaimed \in Nat
  BY TokenAssumption DEF EvmTypeOK, BridgeTypeOK
<1>4. SettlementEntered(h, "REFUNDED", locks[h].sender)
  BY <1>2, <1>3 DEF RefundBurn, SettlementEntered
<1> QED BY <1>1, <1>4 DEF BooksStep

\* claimMint mints to anyone; at worst the bridge itself holds more.
LEMMA ClaimMintBooks ==
  ASSUME EvmTypeOK, NEW h \in Hash, NEW s \in Secret, NEW value \in Wei,
         ClaimMint(h, s, value)
  PROVE  BooksStep
<1>1. /\ pendingMints[h].recipient \in Address /\ pendingMints[h].tokenId \in TokenId
      /\ pendingMints[h].amount \in Nat /\ This \in Address
  BY MintFields, MintNumbers, BridgeAssumption DEF ClaimMint
<1>2. \A u \in TokenId : Holding(u)' >= Holding(u)
  <2> SUFFICES ASSUME NEW u \in TokenId PROVE Holding(u)' >= Holding(u)
    OBVIOUS
  <2>1. MintTo(pendingMints[h].recipient, pendingMints[h].tokenId, pendingMints[h].amount)
    BY DEF ClaimMint, Mint
  <2>2. \/ balances'[u][This] = balances[u][This]
        \/ balances'[u][This] = balances[u][This] + pendingMints[h].amount
    BY <1>1, <2>1, HoldingsAre, MintOfHolding
  <2>3. balances[u][This] \in Nat
    BY <1>1, HoldingIsNat
  <2> QED BY <1>1, <2>2, <2>3 DEF Holding
<1> QED BY <1>2 DEF ClaimMint, BooksStep, NothingEntered

LEMMA TokenActivityBooks ==
  ASSUME EvmTypeOK, TokenActivity
  PROVE  BooksStep
<1>0. Amount \subseteq Nat /\ This \in Address /\ balances \in Holdings
  BY TokenAssumption, BridgeAssumption, HoldingsAre
<1>1. ASSUME NEW u \in TokenId PROVE Holding(u)' >= Holding(u)
  <2>0. balances[u][This] \in Nat
    BY <1>0, HoldingIsNat
  <2>1. ASSUME NEW from \in Address \ {This}, NEW to \in Address, NEW t \in TokenId,
               NEW n \in Amount, SafeTransferFrom(from, to, t, n)
        PROVE  Holding(u)' >= Holding(u)
    <3>1. n \in Nat /\ MoveTokens(from, to, t, n)
      BY <1>0, <2>1 DEF SafeTransferFrom
    <3>2. CASE from = to
      BY <1>0, <2>0, <3>1, <3>2, MoveToSelf DEF Holding
    <3>3. CASE from # to
      <4>1. \/ balances'[u][This] = balances[u][This]
            \/ balances'[u][This] = balances[u][This] + n
        BY <1>0, <3>1, <3>3, MoveOfHolding
      <4> QED BY <2>0, <3>1, <4>1 DEF Holding
    <3> QED BY <3>2, <3>3
  <2>2. ASSUME NEW to \in Address, NEW t \in TokenId, NEW n \in Amount, MintTo(to, t, n)
        PROVE  Holding(u)' >= Holding(u)
    <3>1. n \in Nat
      BY <1>0
    <3>2. \/ balances'[u][This] = balances[u][This]
          \/ balances'[u][This] = balances[u][This] + n
      BY <1>0, <2>2, <3>1, MintOfHolding
    <3> QED BY <2>0, <3>1, <3>2 DEF Holding
  <2>3. ASSUME NEW t \in TokenId, NEW n \in Amount, bridge \in Address \ {This},
               BurnFromBridge(bridge, t, n)
        PROVE  Holding(u)' >= Holding(u)
    <3>1. n \in Nat /\ BurnOf(bridge, t, n)
      BY <1>0, <2>3 DEF BurnFromBridge
    <3>2. balances'[u][This] = balances[u][This]
      BY <1>0, <2>3, <3>1, BurnOfHolding
    <3> QED BY <2>0, <3>2 DEF Holding
  <2>4. CASE \E p \in ProfileHash : CreateTokenClass(p)
    BY <2>0, <2>4 DEF CreateTokenClass, BindClass, Holding
  <2> QED BY <2>1, <2>2, <2>3, <2>4 DEF TokenActivity, MintInitialSupply, Mint
<1> QED BY <1>1 DEF TokenActivity, bridgeVars, BooksStep, NothingEntered

LEMMA StepOfBooks ==
  ASSUME EvmTypeOK, [EvmNext]_evmVars
  PROVE  BooksStep
<1>1. ASSUME UNCHANGED <<balances, locks, nativeVars, totalVars>> PROVE BooksStep
  <2>1. \A t \in TokenId : Holding(t) \in Nat
    BY HoldingIsNat, BridgeAssumption DEF Holding
  <2> QED BY <1>1, <2>1 DEF BooksStep, NothingEntered, Holding
<1>2. ASSUME NEW h \in Hash, NEW s \in Secret, ExecuteCallback(h, s) PROVE BooksStep
  <2>1. locks[h].sender \in Address
    BY <1>2, LockFields, LockNumbers DEF ExecuteCallback, BurnEscrow
  <2> QED BY <1>2, <2>1, BurnEscrowBooks DEF ExecuteCallback
<1>3. ASSUME NEW caller \in Address, WithdrawPending(caller) PROVE BooksStep
  BY <1>3 DEF WithdrawPending, tokenVars, BooksStep, WithdrawalEntered
<1>4. CASE \/ \E source \in Endpoint, m \in PreparePayload : ExecutePrepareMint(source, m)
           \/ \E h \in Hash : RefundMint(h)
           \/ \E floor \in Wei : SetMinBounty(floor)
           \/ \E source \in Endpoint \cup {EmptyString} : SetAuthorizedSource(source)
           \/ \E account \in Address \cup {ZeroAddress} : ChangeBridge(account)
           \/ EvmTick
           \/ UNCHANGED evmVars
  <2>1. UNCHANGED <<balances, locks, nativeVars, totalVars>>
    BY <1>4 DEF ExecutePrepareMint, RefundMint, SetMinBounty, SetAuthorizedSource,
                ChangeBridge, SetBridge, EvmTick, evmVars, tokenVars, bridgeVars
  <2> QED BY <1>1, <2>1
<1> QED
  BY <1>2, <1>3, <1>4, LockForBurnBooks, BurnEscrowBooks, RefundBurnBooks, ClaimMintBooks,
     TokenActivityBooks
  DEF EvmNext, ClaimBurn

----------------------------------------------------------------------------
(* The sums over the locks, when one lock changes.                          *)

CountedIn(lock, state) == IF lock.state = state THEN lock.amount ELSE 0
EscrowedIn(lock, t) == IF lock.state = "LOCKED" /\ lock.tokenId = t THEN lock.amount ELSE 0

LEMMA LockIsNumbers ==
  ASSUME NEW lock \in HTLCLock
  PROVE  lock.amount \in Nat /\ lock.bounty \in Nat
  BY LockNumbers DEF HTLCLock, EmptyLock

LEMMA AmountChanges ==
  ASSUME locks \in [Hash -> HTLCLock], NEW h \in Hash, NEW lock \in HTLCLock,
         locks' = [locks EXCEPT ![h] = lock], NEW state
  PROVE  AmountInState(state)' =
            AmountInState(state) - CountedIn(locks[h], state) + CountedIn(lock, state)
<1> DEFINE f == [g \in Hash |-> CountedIn(locks[g], state)]
           n == [g \in Hash |-> CountedIn(locks'[g], state)]
<1>1. \A k \in HTLCLock : CountedIn(k, state) \in Int
  BY LockIsNumbers DEF CountedIn
<1>2. /\ \A g \in Hash : f[g] \in Int
      /\ n[h] = CountedIn(lock, state) /\ n[h] \in Int
      /\ \A g \in Hash \ {h} : n[g] = f[g]
  BY <1>1
<1>3. AmountInState(state) = SumFunctionOnSet(f, Hash)
      /\ AmountInState(state)' = SumFunctionOnSet(n, Hash)
  BY DEF AmountInState, CountedIn
<1>4. f[h] = CountedIn(locks[h], state)
  OBVIOUS
<1> HIDE DEF f, n
<1>5. SumFunctionOnSet(n, Hash) = SumFunctionOnSet(f, Hash) - f[h] + n[h]
  BY <1>2, SumChanges, BridgeAssumption
<1> QED BY <1>2, <1>3, <1>4, <1>5

LEMMA EscrowChanges ==
  ASSUME locks \in [Hash -> HTLCLock], NEW h \in Hash, NEW lock \in HTLCLock,
         locks' = [locks EXCEPT ![h] = lock], NEW t
  PROVE  EscrowOf(t)' = EscrowOf(t) - EscrowedIn(locks[h], t) + EscrowedIn(lock, t)
<1> DEFINE f == [g \in Hash |-> EscrowedIn(locks[g], t)]
           n == [g \in Hash |-> EscrowedIn(locks'[g], t)]
<1>1. \A k \in HTLCLock : EscrowedIn(k, t) \in Int
  BY LockIsNumbers DEF EscrowedIn
<1>2. /\ \A g \in Hash : f[g] \in Int
      /\ n[h] = EscrowedIn(lock, t) /\ n[h] \in Int
      /\ \A g \in Hash \ {h} : n[g] = f[g]
  BY <1>1
<1>3. EscrowOf(t) = SumFunctionOnSet(f, Hash) /\ EscrowOf(t)' = SumFunctionOnSet(n, Hash)
  BY DEF EscrowOf, EscrowedIn
<1>4. f[h] = EscrowedIn(locks[h], t)
  OBVIOUS
<1> HIDE DEF f, n
<1>5. SumFunctionOnSet(n, Hash) = SumFunctionOnSet(f, Hash) - f[h] + n[h]
  BY <1>2, SumChanges, BridgeAssumption
<1> QED BY <1>2, <1>3, <1>4, <1>5

LEMMA BountiesChange ==
  ASSUME locks \in [Hash -> HTLCLock], NEW h \in Hash, NEW lock \in HTLCLock,
         locks' = [locks EXCEPT ![h] = lock]
  PROVE  Bounties' = Bounties - locks[h].bounty + lock.bounty
<1> DEFINE f == [g \in Hash |-> locks[g].bounty]
           n == [g \in Hash |-> locks'[g].bounty]
<1>1. \A k \in HTLCLock : k.bounty \in Int
  BY LockIsNumbers
<1>2. /\ \A g \in Hash : f[g] \in Int
      /\ n[h] = lock.bounty /\ n[h] \in Int
      /\ \A g \in Hash \ {h} : n[g] = f[g]
  BY <1>1
<1>3. Bounties = SumFunctionOnSet(f, Hash) /\ Bounties' = SumFunctionOnSet(n, Hash)
  BY DEF Bounties
<1>4. f[h] = locks[h].bounty
  OBVIOUS
<1> HIDE DEF f, n
<1>5. SumFunctionOnSet(n, Hash) = SumFunctionOnSet(f, Hash) - f[h] + n[h]
  BY <1>2, SumChanges, BridgeAssumption
<1> QED BY <1>2, <1>3, <1>4, <1>5

LEMMA CreditsChange ==
  ASSUME pendingWithdrawals \in [Address -> Nat], NEW a \in Address, NEW n \in Nat,
         pendingWithdrawals' = [pendingWithdrawals EXCEPT ![a] = n]
  PROVE  Credits' = Credits - pendingWithdrawals[a] + n
<1> DEFINE f == pendingWithdrawals
           g == pendingWithdrawals'
<1>1. /\ IsFiniteSet(Address) /\ g[a] = n /\ g[a] \in Int
      /\ \A b \in Address : f[b] \in Int
      /\ \A b \in Address \ {a} : g[b] = f[b]
  BY TokenAssumption
<1>2. Credits = SumFunctionOnSet(f, Address) /\ Credits' = SumFunctionOnSet(g, Address)
  BY DEF Credits
<1>3. f[a] = pendingWithdrawals[a]
  OBVIOUS
<1> HIDE DEF f, g
<1>4. SumFunctionOnSet(g, Address) = SumFunctionOnSet(f, Address) - f[a] + g[a]
  BY <1>1, SumChanges
<1> QED BY <1>1, <1>2, <1>3, <1>4

LEMMA SumsAreNat ==
  ASSUME EvmTypeOK
  PROVE  /\ Bounties \in Nat /\ Credits \in Nat
         /\ \A state : AmountInState(state) \in Nat
         /\ \A t : EscrowOf(t) \in Nat
<1>1. /\ \A g \in Hash : locks[g].amount \in Nat /\ locks[g].bounty \in Nat
      /\ IsFiniteSet(Hash) /\ IsFiniteSet(Address)
      /\ \A a \in Address : pendingWithdrawals[a] \in Nat
  BY LockIsNumbers, TokenAssumption, BridgeAssumption DEF EvmTypeOK, BridgeTypeOK
<1>2. Bounties \in Nat
  <2>1. \A g \in Hash : [k \in Hash |-> locks[k].bounty][g] \in Nat
    BY <1>1
  <2> QED BY <1>1, <2>1, SumIsNat DEF Bounties
<1>3. Credits \in Nat
  BY <1>1, SumIsNat DEF Credits
<1>4. ASSUME NEW state PROVE AmountInState(state) \in Nat
  <2>1. \A g \in Hash : [k \in Hash |->
            IF locks[k].state = state THEN locks[k].amount ELSE 0][g] \in Nat
    BY <1>1
  <2> QED BY <1>1, <2>1, SumIsNat DEF AmountInState
<1>5. ASSUME NEW t PROVE EscrowOf(t) \in Nat
  <2>1. \A g \in Hash : [k \in Hash |-> IF locks[k].state = "LOCKED" /\ locks[k].tokenId = t
                                       THEN locks[k].amount ELSE 0][g] \in Nat
    BY <1>1
  <2> QED BY <1>1, <2>1, SumIsNat DEF EscrowOf
<1> QED BY <1>2, <1>3, <1>4, <1>5

\* Fields of a lock before and after it is opened or settled.
LEMMA SettledFields ==
  ASSUME NEW lock \in LockRecord, NEW state
  PROVE  /\ Settled(lock, state).state = state /\ Settled(lock, state).bounty = 0
         /\ Settled(lock, state).amount = lock.amount
         /\ Settled(lock, state).tokenId = lock.tokenId
  BY DEF Settled, LockRecord

LEMMA EmptyFields ==
  ASSUME locks \in [Hash -> HTLCLock], NEW h \in Hash, locks[h].state = "EMPTY"
  PROVE  locks[h].amount = 0 /\ locks[h].bounty = 0
  BY DEF HTLCLock, LockRecord, EmptyLock

----------------------------------------------------------------------------
\* The invariant behind all three accounts is the accounts themselves: a step of the
\* books keeps each of them.
LEMMA EscrowBackedStep ==
  ASSUME EvmTypeOK, EscrowBacked, [EvmNext]_evmVars
  PROVE  EscrowBacked'
<1>0. BooksStep /\ locks \in [Hash -> HTLCLock]
  BY StepOfBooks DEF EvmTypeOK, BridgeTypeOK
<1> SUFFICES ASSUME NEW t \in TokenId PROVE Holding(t)' >= EscrowOf(t)'
  BY DEF EscrowBacked, Holding
<1>1. Holding(t) >= EscrowOf(t) /\ EscrowOf(t) \in Nat /\ Holding(t) \in Nat
  BY SumsAreNat, HoldingIsNat, BridgeAssumption DEF EscrowBacked, Holding
<1>2. CASE NothingEntered
  <2>1. EscrowOf(t)' = EscrowOf(t)
    BY <1>2 DEF NothingEntered, EscrowOf
  <2>2. Holding(t)' >= Holding(t)
    BY <1>2 DEF NothingEntered
  <2>3. Holding(t)' \in Nat
    BY StepType, HoldingIsNat, BridgeAssumption DEF Holding, EvmTypeOK, TokenTypeOK
  <2> QED BY <1>1, <2>1, <2>2, <2>3
<1>3. ASSUME NEW h \in Hash, NEW lock \in LockRecord, LockEntered(h, lock)
      PROVE  Holding(t)' >= EscrowOf(t)'
  <2>1. EscrowOf(t)' = EscrowOf(t) - EscrowedIn(locks[h], t) + EscrowedIn(lock, t)
    BY <1>0, <1>3, EscrowChanges DEF LockEntered, HTLCLock
  <2>2. EscrowedIn(locks[h], t) = 0
    BY <1>3 DEF LockEntered, EscrowedIn
  <2>3. Holding(t)' = Holding(t) + EscrowedIn(lock, t)
    BY <1>3 DEF LockEntered, EscrowedIn
  <2>4. EscrowedIn(lock, t) \in Nat
    BY LockNumbers DEF EscrowedIn
  <2> QED BY <1>1, <2>1, <2>2, <2>3, <2>4
<1>4. ASSUME NEW h \in Hash, NEW state \in {"CLAIMED", "REFUNDED"}, NEW payee \in Address,
             SettlementEntered(h, state, payee)
      PROVE  Holding(t)' >= EscrowOf(t)'
  <2>1. locks[h] \in LockRecord
    BY <1>4, LockFields DEF SettlementEntered
  <2>2. EscrowOf(t)' = EscrowOf(t) - EscrowedIn(locks[h], t)
                                   + EscrowedIn(Settled(locks[h], state), t)
    BY <1>0, <1>4, <2>1, SettledIsLock, EscrowChanges DEF SettlementEntered, HTLCLock
  <2>3. EscrowedIn(Settled(locks[h], state), t) = 0
    BY <1>4, <2>1, SettledFields DEF EscrowedIn
  <2>4. Holding(t)' = Holding(t) - EscrowedIn(locks[h], t)
    BY <1>4 DEF SettlementEntered, EscrowedIn
  <2>5. EscrowedIn(locks[h], t) \in Nat
    BY <2>1, LockNumbers DEF EscrowedIn
  <2> QED BY <1>1, <2>2, <2>3, <2>4, <2>5
<1>5. ASSUME NEW a \in Address, WithdrawalEntered(a)
      PROVE  Holding(t)' >= EscrowOf(t)'
  BY <1>1, <1>5 DEF WithdrawalEntered, Holding, EscrowOf
<1> QED BY <1>0, <1>2, <1>3, <1>4, <1>5 DEF BooksStep

\* The escrow of every open lock is there: claimBurn and refundBurn find its units,
\* whatever was burned, refunded, minted or transferred in between, and whichever bridge
\* the token points at.
THEOREM EscrowStaysBacked == EvmSpec => []EscrowBacked
<1>1. EvmInit => EscrowBacked
  <2> SUFFICES ASSUME EvmInit, NEW t \in TokenId PROVE balances[t][This] >= EscrowOf(t)
    BY DEF EscrowBacked
  <2>1. EvmTypeOK
    BY InitType
  <2>2. EscrowOf(t) = 0
    <3> DEFINE f == [h \in Hash |-> IF locks[h].state = "LOCKED" /\ locks[h].tokenId = t
                                    THEN locks[h].amount ELSE 0]
    <3>1. \A h \in Hash : f[h] = 0
      BY DEF EvmInit, EmptyLock
    <3>2. EscrowOf(t) = SumFunctionOnSet(f, Hash)
      BY DEF EscrowOf
    <3> HIDE DEF f
    <3> QED BY <3>1, <3>2, SumOfZeros, BridgeAssumption
  <2>3. balances[t][This] \in Nat
    BY <2>1, HoldingIsNat, BridgeAssumption
  <2> QED BY <2>2, <2>3
<1>2. EvmTypeOK /\ EscrowBacked /\ [EvmNext]_evmVars => EscrowBacked'
  BY EscrowBackedStep
<1> QED BY <1>1, <1>2, TypeCorrect, PTL DEF EvmSpec

----------------------------------------------------------------------------
LEMMA NativeBackedStep ==
  ASSUME EvmTypeOK, NativeBacked, [EvmNext]_evmVars
  PROVE  NativeBacked'
<1>0. /\ BooksStep /\ locks \in [Hash -> HTLCLock]
      /\ pendingWithdrawals \in [Address -> Nat] /\ nativeBalance \in Nat
  BY StepOfBooks DEF EvmTypeOK, BridgeTypeOK
<1>1. nativeBalance = Bounties + Credits /\ Bounties \in Nat /\ Credits \in Nat
  BY SumsAreNat DEF NativeBacked
<1> SUFFICES nativeBalance' = Bounties' + Credits'
  BY DEF NativeBacked
<1>2. CASE NothingEntered
  BY <1>1, <1>2 DEF NothingEntered, nativeVars, Bounties, Credits
<1>3. ASSUME NEW h \in Hash, NEW lock \in LockRecord, LockEntered(h, lock)
      PROVE  nativeBalance' = Bounties' + Credits'
  <2>1. Bounties' = Bounties - locks[h].bounty + lock.bounty
    BY <1>0, <1>3, BountiesChange DEF LockEntered, HTLCLock
  <2>2. locks[h].bounty = 0 /\ lock.bounty \in Nat
    BY <1>0, <1>3, EmptyFields, LockNumbers DEF LockEntered
  <2>3. nativeBalance' = nativeBalance + lock.bounty /\ Credits' = Credits
    BY <1>3 DEF LockEntered, Credits
  <2> QED BY <1>1, <2>1, <2>2, <2>3
<1>4. ASSUME NEW h \in Hash, NEW state \in {"CLAIMED", "REFUNDED"}, NEW payee \in Address,
             SettlementEntered(h, state, payee)
      PROVE  nativeBalance' = Bounties' + Credits'
  <2> DEFINE paid == locks[h].bounty
  <2>1. locks[h] \in LockRecord /\ paid \in Nat
    BY <1>4, LockFields, LockNumbers DEF SettlementEntered
  <2>2. Bounties' = Bounties - paid + Settled(locks[h], state).bounty
    BY <1>0, <1>4, <2>1, SettledIsLock, BountiesChange DEF SettlementEntered, HTLCLock
  <2>3. Bounties' = Bounties - paid
    BY <1>1, <2>1, <2>2, SettledFields
  <2>4. PayBounty(paid, payee)
    BY <1>4 DEF SettlementEntered
  <2> HIDE DEF paid
  <2>5. CASE paid = 0 /\ UNCHANGED nativeVars
    BY <1>1, <2>3, <2>5 DEF nativeVars, Credits
  <2>6. CASE nativeBalance' = nativeBalance - paid /\ UNCHANGED pendingWithdrawals
    BY <1>1, <2>1, <2>3, <2>6 DEF Credits
  <2>7. CASE /\ pendingWithdrawals' = [pendingWithdrawals EXCEPT ![payee] = @ + paid]
             /\ UNCHANGED nativeBalance
    <3>1. pendingWithdrawals[payee] \in Nat /\ pendingWithdrawals[payee] + paid \in Nat
      BY <1>0, <2>1
    <3>2. Credits' = Credits - pendingWithdrawals[payee] + (pendingWithdrawals[payee] + paid)
      BY <1>0, <2>7, <3>1, CreditsChange
    <3> QED BY <1>1, <2>1, <2>3, <2>7, <3>1, <3>2
  <2> QED BY <2>4, <2>5, <2>6, <2>7 DEF PayBounty
<1>5. ASSUME NEW a \in Address, WithdrawalEntered(a)
      PROVE  nativeBalance' = Bounties' + Credits'
  <2>1. Credits' = Credits - pendingWithdrawals[a] + 0
    BY <1>0, <1>5, CreditsChange DEF WithdrawalEntered
  <2>2. Bounties' = Bounties /\ nativeBalance' = nativeBalance - pendingWithdrawals[a]
        /\ pendingWithdrawals[a] \in Nat
    BY <1>0, <1>5 DEF WithdrawalEntered, Bounties
  <2> QED BY <1>1, <2>1, <2>2
<1> QED BY <1>0, <1>2, <1>3, <1>4, <1>5 DEF BooksStep

\* The contract's native balance is what it owes, to the unit: lockForBurn keeps exactly
\* the bounty, _payBounty pays it or credits it, withdrawPending pays a credit once.
THEOREM NativeStaysBacked == EvmSpec => []NativeBacked
<1>1. EvmInit => NativeBacked
  <2> SUFFICES ASSUME EvmInit PROVE nativeBalance = Bounties + Credits
    BY DEF NativeBacked
  <2>1. Bounties = 0
    <3> DEFINE f == [h \in Hash |-> locks[h].bounty]
    <3>1. \A h \in Hash : f[h] = 0
      BY DEF EvmInit, EmptyLock
    <3>2. Bounties = SumFunctionOnSet(f, Hash)
      BY DEF Bounties
    <3> HIDE DEF f
    <3> QED BY <3>1, <3>2, SumOfZeros, BridgeAssumption
  <2>2. Credits = 0
    <3>1. \A a \in Address : pendingWithdrawals[a] = 0
      BY DEF EvmInit
    <3> QED BY <3>1, SumOfZeros, TokenAssumption DEF Credits
  <2> QED BY <2>1, <2>2 DEF EvmInit
<1>2. EvmTypeOK /\ NativeBacked /\ [EvmNext]_evmVars => NativeBacked'
  BY NativeBackedStep
<1> QED BY <1>1, <1>2, TypeCorrect, PTL DEF EvmSpec

----------------------------------------------------------------------------
LEMMA TotalsStep ==
  ASSUME EvmTypeOK, TotalsAccountForLocks, [EvmNext]_evmVars
  PROVE  TotalsAccountForLocks'
<1>0. BooksStep /\ locks \in [Hash -> HTLCLock]
  BY StepOfBooks DEF EvmTypeOK, BridgeTypeOK
<1>1. /\ totalClaimed = AmountInState("CLAIMED") /\ AmountInState("CLAIMED") \in Nat
      /\ totalRefunded = AmountInState("REFUNDED") /\ AmountInState("REFUNDED") \in Nat
      /\ totalLocked = totalClaimed + totalRefunded + AmountInState("LOCKED")
      /\ AmountInState("LOCKED") \in Nat
  BY SumsAreNat DEF TotalsAccountForLocks
<1>2. ASSUME UNCHANGED <<locks, totalVars>>
      PROVE  TotalsAccountForLocks'
  BY <1>1, <1>2 DEF TotalsAccountForLocks, totalVars, AmountInState
<1>3. ASSUME NEW h \in Hash, NEW lock \in LockRecord, LockEntered(h, lock)
      PROVE  TotalsAccountForLocks'
  <2>1. \A state : AmountInState(state)' =
            AmountInState(state) - CountedIn(locks[h], state) + CountedIn(lock, state)
    BY <1>0, <1>3, AmountChanges DEF LockEntered, HTLCLock
  <2>2. \A state : CountedIn(locks[h], state) = 0
    BY <1>0, <1>3, EmptyFields DEF LockEntered, CountedIn
  <2>3. /\ CountedIn(lock, "LOCKED") = lock.amount /\ lock.amount \in Nat
        /\ CountedIn(lock, "CLAIMED") = 0 /\ CountedIn(lock, "REFUNDED") = 0
    BY <1>3, LockNumbers DEF LockEntered, CountedIn
  <2>4. /\ AmountInState("LOCKED")' = AmountInState("LOCKED") + lock.amount
        /\ AmountInState("CLAIMED")' = AmountInState("CLAIMED")
        /\ AmountInState("REFUNDED")' = AmountInState("REFUNDED")
    BY <1>1, <2>1, <2>2, <2>3
  <2>5. totalLocked' = totalLocked + lock.amount /\ totalClaimed' = totalClaimed
        /\ totalRefunded' = totalRefunded
    BY <1>3 DEF LockEntered
  <2> QED BY <1>1, <2>3, <2>4, <2>5 DEF TotalsAccountForLocks
<1>4. ASSUME NEW h \in Hash, NEW state \in {"CLAIMED", "REFUNDED"}, NEW payee \in Address,
             SettlementEntered(h, state, payee)
      PROVE  TotalsAccountForLocks'
  <2> DEFINE n == locks[h].amount
             old == locks[h]
             new == Settled(locks[h], state)
  <2>1. locks[h] \in LockRecord /\ n \in Nat
    BY <1>4, LockFields, LockNumbers DEF SettlementEntered
  <2>2. \A k : AmountInState(k)' = AmountInState(k) - CountedIn(old, k) + CountedIn(new, k)
    BY <1>0, <1>4, <2>1, SettledIsLock, AmountChanges DEF SettlementEntered, HTLCLock
  <2>3. /\ CountedIn(old, "LOCKED") = n
        /\ CountedIn(old, "CLAIMED") = 0 /\ CountedIn(old, "REFUNDED") = 0
    BY <1>4 DEF SettlementEntered, CountedIn
  <2>4. \A k : CountedIn(new, k) = IF state = k THEN n ELSE 0
    BY <2>1, SettledFields DEF CountedIn
  <2>5. /\ UNCHANGED totalLocked
        /\ totalClaimed' = totalClaimed + (IF state = "CLAIMED" THEN n ELSE 0)
        /\ totalRefunded' = totalRefunded + (IF state = "REFUNDED" THEN n ELSE 0)
    BY <1>4 DEF SettlementEntered
  <2> HIDE DEF n, old, new
  <2>6. AmountInState("LOCKED")' = AmountInState("LOCKED") - n
    BY <1>1, <2>1, <2>2, <2>3, <2>4
  <2>7. AmountInState("CLAIMED")' =
            AmountInState("CLAIMED") + (IF state = "CLAIMED" THEN n ELSE 0)
    BY <1>1, <2>1, <2>2, <2>3, <2>4
  <2>8. AmountInState("REFUNDED")' =
            AmountInState("REFUNDED") + (IF state = "REFUNDED" THEN n ELSE 0)
    BY <1>1, <2>1, <2>2, <2>3, <2>4
  <2> QED BY <1>1, <2>1, <2>5, <2>6, <2>7, <2>8 DEF TotalsAccountForLocks
<1> QED BY <1>0, <1>2, <1>3, <1>4 DEF BooksStep, NothingEntered, WithdrawalEntered

\* totalLocked, totalClaimed and totalRefunded count every lock once, in the state it is
\* in: so the checked additions of a settlement are bounded by totalLocked.
THEOREM TotalsStayExact == EvmSpec => []TotalsAccountForLocks
<1>1. EvmInit => TotalsAccountForLocks
  <2> SUFFICES ASSUME EvmInit PROVE TotalsAccountForLocks
    OBVIOUS
  <2>1. ASSUME NEW state PROVE AmountInState(state) = 0
    <3> DEFINE f == [h \in Hash |-> IF locks[h].state = state THEN locks[h].amount ELSE 0]
    <3>1. \A h \in Hash : f[h] = 0
      BY DEF EvmInit, EmptyLock
    <3>2. AmountInState(state) = SumFunctionOnSet(f, Hash)
      BY DEF AmountInState
    <3> HIDE DEF f
    <3> QED BY <3>1, <3>2, SumOfZeros, BridgeAssumption
  <2> QED BY <2>1 DEF EvmInit, TotalsAccountForLocks
<1>2. EvmTypeOK /\ TotalsAccountForLocks /\ [EvmNext]_evmVars => TotalsAccountForLocks'
  BY TotalsStep
<1> QED BY <1>1, <1>2, TypeCorrect, PTL DEF EvmSpec

----------------------------------------------------------------------------
\* The bridge never locked units of its own, so a refund moves them to another account.
LockedByOthers == \A h \in Hash : locks[h].state # "EMPTY" => locks[h].sender # This

LEMMA LockedByOthersStep ==
  ASSUME EvmTypeOK, LockedByOthers, [EvmNext]_evmVars
  PROVE  LockedByOthers'
<1>0. BooksStep /\ locks \in [Hash -> HTLCLock]
  BY StepOfBooks DEF EvmTypeOK, BridgeTypeOK
<1> SUFFICES ASSUME NEW g \in Hash, locks'[g].state # "EMPTY" PROVE locks'[g].sender # This
  BY DEF LockedByOthers
<1>1. CASE locks'[g] = locks[g]
  BY <1>1 DEF LockedByOthers
<1>2. CASE locks'[g] # locks[g]
  <2>1. ASSUME NEW h \in Hash, NEW lock \in LockRecord, LockEntered(h, lock)
        PROVE  locks'[g].sender # This
    BY <1>0, <1>2, <2>1 DEF LockEntered
  <2>2. ASSUME NEW h \in Hash, NEW state, NEW payee, SettlementEntered(h, state, payee)
        PROVE  locks'[g].sender # This
    <3>1. g = h /\ locks'[g] = Settled(locks[g], state) /\ locks[g].state = "LOCKED"
      BY <1>0, <1>2, <2>2 DEF SettlementEntered
    <3>2. locks[g] \in LockRecord
      BY <3>1, LockFields
    <3>3. Settled(locks[g], state).sender = locks[g].sender
      BY <3>2 DEF Settled, LockRecord
    <3> QED BY <3>1, <3>3 DEF LockedByOthers
  <2> QED BY <1>0, <1>2, <2>1, <2>2 DEF BooksStep, NothingEntered, WithdrawalEntered
<1> QED BY <1>1, <1>2

LEMMA LockedByOthersAlways == EvmSpec => []LockedByOthers
<1>1. EvmInit => LockedByOthers
  BY DEF EvmInit, LockedByOthers, EmptyLock
<1>2. EvmTypeOK /\ LockedByOthers /\ [EvmNext]_evmVars => LockedByOthers'
  BY LockedByOthersStep
<1> QED BY <1>1, <1>2, TypeCorrect, PTL DEF EvmSpec

\* What claimBurn, the callback and refundBurn of an open lock need besides the right
\* caller, secret, time and bridge setting: their additions fit, the units and the bounty
\* are there, and a refund finds room at the sender's while the supply of the class is
\* one that a uint256 can count.
SettlementFits ==
  \A h \in Hash : locks[h].state = "LOCKED" =>
    LET t == locks[h].tokenId
        sender == locks[h].sender IN
    /\ totalClaimed + locks[h].amount <= MaxUint256
    /\ totalRefunded + locks[h].amount <= MaxUint256
    /\ balances[t][This] >= locks[h].amount
    /\ nativeBalance >= locks[h].bounty
    /\ Supply(t) <= MaxUint256 => balances[t][sender] + locks[h].amount <= MaxUint256

\* What two holders have together is within the supply.
LEMMA TwoHoldingsFit ==
  ASSUME EvmTypeOK, NEW t \in TokenId, NEW a \in Address, NEW b \in Address, a # b
  PROVE  balances[t][a] + balances[t][b] <= Supply(t) /\ Supply(t) \in Nat
<1> DEFINE f == balances[t]
           rest == Address \ {a}
<1>1. (\A y \in Address : f[y] \in Nat) /\ IsFiniteSet(Address)
  BY HoldingIsNat, TokenAssumption
<1>2. Supply(t) = SumFunctionOnSet(f, Address)
  BY DEF Supply
<1> HIDE DEF f
<1>3. SumFunctionOnSet(f, Address) = f[a] + SumFunctionOnSet(f, rest)
  BY <1>1, SumWithout
<1>4. IsFiniteSet(rest) /\ b \in rest /\ \A y \in rest : f[y] \in Nat
  BY <1>1, FS_RemoveElement
<1> HIDE DEF rest
<1>5. f[b] <= SumFunctionOnSet(f, rest) /\ SumFunctionOnSet(f, rest) \in Nat
  BY <1>4, SumBounds, SumIsNat
<1> QED BY <1>1, <1>2, <1>3, <1>5 DEF f

LEMMA AccountsFit ==
  ASSUME EvmTypeOK, EscrowBacked, NativeBacked, TotalsAccountForLocks, LockedByOthers
  PROVE  SettlementFits
<1> SUFFICES ASSUME NEW h \in Hash, locks[h].state = "LOCKED"
             PROVE  /\ totalClaimed + locks[h].amount <= MaxUint256
                    /\ totalRefunded + locks[h].amount <= MaxUint256
                    /\ balances[locks[h].tokenId][This] >= locks[h].amount
                    /\ nativeBalance >= locks[h].bounty
                    /\ Supply(locks[h].tokenId) <= MaxUint256 =>
                        balances[locks[h].tokenId][locks[h].sender] + locks[h].amount <= MaxUint256
  BY DEF SettlementFits
<1>1. locks[h].tokenId \in TokenId /\ locks[h].amount \in Nat /\ locks[h].bounty \in Nat
  BY LockFields, LockNumbers
<1>2. \A g \in Hash : locks[g].amount \in Nat /\ locks[g].bounty \in Nat
  BY LockIsNumbers DEF EvmTypeOK, BridgeTypeOK
<1>3. locks[h].amount <= AmountInState("LOCKED")
  <2> DEFINE f == [g \in Hash |-> IF locks[g].state = "LOCKED" THEN locks[g].amount ELSE 0]
  <2>1. (\A g \in Hash : f[g] \in Nat) /\ f[h] = locks[h].amount
    BY <1>2
  <2>2. AmountInState("LOCKED") = SumFunctionOnSet(f, Hash)
    BY DEF AmountInState
  <2> HIDE DEF f
  <2>3. f[h] <= SumFunctionOnSet(f, Hash)
    BY <2>1, SumBounds, BridgeAssumption
  <2> QED BY <2>1, <2>2, <2>3
<1>4. locks[h].amount <= EscrowOf(locks[h].tokenId)
  <2> DEFINE t == locks[h].tokenId
  <2> DEFINE f == [g \in Hash |-> IF locks[g].state = "LOCKED" /\ locks[g].tokenId = t
                                  THEN locks[g].amount ELSE 0]
  <2>1. (\A g \in Hash : f[g] \in Nat) /\ f[h] = locks[h].amount
    BY <1>2
  <2>2. EscrowOf(t) = SumFunctionOnSet(f, Hash)
    BY DEF EscrowOf
  <2> HIDE DEF f
  <2>3. f[h] <= SumFunctionOnSet(f, Hash)
    BY <2>1, SumBounds, BridgeAssumption
  <2> QED BY <2>1, <2>2, <2>3
<1>5. locks[h].bounty <= Bounties
  <2> DEFINE f == [g \in Hash |-> locks[g].bounty]
  <2>1. (\A g \in Hash : f[g] \in Nat) /\ f[h] = locks[h].bounty
    BY <1>2
  <2>2. Bounties = SumFunctionOnSet(f, Hash)
    BY DEF Bounties
  <2> HIDE DEF f
  <2>3. f[h] <= SumFunctionOnSet(f, Hash)
    BY <2>1, SumBounds, BridgeAssumption
  <2> QED BY <2>1, <2>2, <2>3
<1>6. /\ AmountInState("LOCKED") \in Nat /\ AmountInState("CLAIMED") \in Nat
      /\ AmountInState("REFUNDED") \in Nat /\ EscrowOf(locks[h].tokenId) \in Nat
      /\ Bounties \in Nat /\ Credits \in Nat
  BY SumsAreNat
<1>7. totalLocked <= MaxUint256 /\ totalLocked \in Nat /\ MaxUint256 \in Nat
  BY TokenAssumption DEF EvmTypeOK, BridgeTypeOK
<1>8. balances[locks[h].tokenId][This] >= EscrowOf(locks[h].tokenId)
      /\ balances[locks[h].tokenId][This] \in Nat
  BY <1>1, HoldingIsNat, BridgeAssumption DEF EscrowBacked
<1>9. Supply(locks[h].tokenId) <= MaxUint256 =>
        balances[locks[h].tokenId][locks[h].sender] + locks[h].amount <= MaxUint256
  <2> DEFINE t == locks[h].tokenId
             sender == locks[h].sender
             n == locks[h].amount
  <2>1. sender \in Address /\ This \in Address /\ sender # This
    BY LockFields, LockNumbers, BridgeAssumption DEF LockedByOthers
  <2>2. t \in TokenId /\ n \in Nat /\ MaxUint256 \in Nat
        /\ balances[t][This] \in Nat /\ n <= balances[t][This]
    BY <1>1, <1>4, <1>6, <1>7, <1>8
  <2> HIDE DEF t, sender, n
  <2>3. balances[t][sender] + balances[t][This] <= Supply(t) /\ Supply(t) \in Nat
        /\ balances[t][sender] \in Nat
    BY <2>1, <2>2, TwoHoldingsFit, HoldingIsNat
  <2>4. Supply(t) <= MaxUint256 => balances[t][sender] + n <= MaxUint256
    BY <2>2, <2>3
  <2> QED BY <2>4 DEF t, sender, n
<1> QED
  BY <1>1, <1>3, <1>4, <1>5, <1>6, <1>7, <1>8, <1>9 DEF TotalsAccountForLocks, NativeBacked

\* No open lock is stuck for want of units, of coins or of room in a counter: the checked
\* arithmetic of claimBurn and of the callback cannot revert, and that of refundBurn only
\* for a class minted, to several holders, beyond what one uint256 can count.
THEOREM SettlementsAlwaysFit == EvmSpec => []SettlementFits
  BY AccountsFit, TypeCorrect, EscrowStaysBacked, NativeStaysBacked, TotalsStayExact,
     LockedByOthersAlways, PTL

----------------------------------------------------------------------------
(* The supply of a class, when balances change.                             *)

BalancesStep ==
  \/ UNCHANGED balances
  \/ \E from, to \in Address, t \in TokenId, n \in Nat : MoveTokens(from, to, t, n)
  \/ \E to \in Address, t \in TokenId, n \in Nat : MintTo(to, t, n)
  \/ \E t \in TokenId, n \in Nat : bridge \in Address /\ BurnOf(bridge, t, n)

LEMMA StepOfBalances ==
  ASSUME EvmTypeOK, [EvmNext]_evmVars
  PROVE  BalancesStep
<1>0. Amount \subseteq Nat /\ This \in Address
  BY TokenAssumption, BridgeAssumption
<1>1. ASSUME NEW caller \in Address \ {This}, NEW t \in TokenId, NEW n \in Amount,
             NEW h \in Hash, NEW timelock \in Timelock, NEW recipient \in CosmosAccount,
             NEW dest \in Endpoint, NEW bounty \in Wei, NEW value \in Wei,
             LockForBurn(caller, t, n, h, timelock, recipient, dest, bounty, value)
      PROVE  BalancesStep
  BY <1>0, <1>1 DEF LockForBurn, BalancesStep
<1>2. ASSUME NEW h \in Hash, NEW s \in Secret, NEW payee, BurnEscrow(h, s, payee)
      PROVE  BalancesStep
  <2>1. locks[h].tokenId \in TokenId /\ locks[h].amount \in Nat
    BY <1>2, LockFields, LockNumbers DEF BurnEscrow
  <2> QED BY <1>0, <1>2, <2>1 DEF BurnEscrow, BalancesStep
<1>3. ASSUME NEW caller \in Address \ {This}, NEW h \in Hash, RefundBurn(caller, h)
      PROVE  BalancesStep
  <2>1. locks[h].tokenId \in TokenId /\ locks[h].amount \in Nat /\ locks[h].sender \in Address
    BY <1>3, LockFields, LockNumbers DEF RefundBurn
  <2> QED BY <1>0, <1>3, <2>1 DEF RefundBurn, BalancesStep
<1>4. ASSUME NEW h \in Hash, NEW s \in Secret, NEW value \in Wei, ClaimMint(h, s, value)
      PROVE  BalancesStep
  <2>1. /\ pendingMints[h].tokenId \in TokenId /\ pendingMints[h].amount \in Nat
        /\ pendingMints[h].recipient \in Address
    BY <1>4, MintFields, MintNumbers DEF ClaimMint
  <2> QED BY <1>4, <2>1 DEF ClaimMint, Mint, BalancesStep
<1>5. CASE TokenActivity
  BY <1>0, <1>5
  DEF TokenActivity, SafeTransferFrom, MintInitialSupply, Mint, BurnFromBridge,
      CreateTokenClass, BindClass, BalancesStep
<1>6. CASE \/ \E caller \in Address : WithdrawPending(caller)
           \/ \E source \in Endpoint, m \in PreparePayload : ExecutePrepareMint(source, m)
           \/ \E h \in Hash : RefundMint(h)
           \/ \E floor \in Wei : SetMinBounty(floor)
           \/ \E source \in Endpoint \cup {EmptyString} : SetAuthorizedSource(source)
           \/ \E account \in Address \cup {ZeroAddress} : ChangeBridge(account)
           \/ EvmTick
           \/ UNCHANGED evmVars
  BY <1>6 DEF WithdrawPending, ExecutePrepareMint, RefundMint, SetMinBounty,
              SetAuthorizedSource, ChangeBridge, SetBridge, EvmTick, evmVars, tokenVars,
              BalancesStep
<1> QED
  BY <1>1, <1>2, <1>3, <1>4, <1>5, <1>6 DEF EvmNext, ClaimBurn, ExecuteCallback

LEMMA SupplyDropsByBurn ==
  ASSUME EvmTypeOK, [EvmNext]_evmVars, NEW t \in TokenId, Supply(t)' < Supply(t),
         NEW a \in Address \ {bridge}
  PROVE  balances'[t][a] = balances[t][a]
<1>0. balances \in Holdings /\ IsFiniteSet(Address) /\ MaxUint256 \in Nat
  BY HoldingsAre, TokenAssumption
<1> DEFINE f == balances[t]
           g == balances'[t]
<1>1. \A b \in Address : f[b] \in Int /\ g[b] \in Int
  BY StepType, <1>0, HoldingIsNat DEF EvmTypeOK, TokenTypeOK
<1>2. Supply(t) = SumFunctionOnSet(f, Address) /\ Supply(t)' = SumFunctionOnSet(g, Address)
  BY DEF Supply
<1>3. SumFunctionOnSet(f, Address) \in Int
  <2> HIDE DEF f
  <2> QED BY <1>0, <1>1, SumIsInt
<1>4. CASE UNCHANGED balances
  BY <1>2, <1>3, <1>4
<1>5. ASSUME NEW from \in Address, NEW to \in Address, NEW u \in TokenId, NEW n \in Nat,
             MoveTokens(from, to, u, n)
      PROVE  FALSE
  <2>1. CASE from = to
    BY <1>0, <1>2, <1>3, <1>5, <2>1, MoveToSelf
  <2>2. CASE from # to
    <3>1. \A b \in Address : g[b] = IF t # u \/ b \notin {from, to} THEN f[b]
                                    ELSE IF b = from THEN f[b] - n ELSE f[b] + n
      BY <1>0, <1>5, <2>2, MoveOfHolding
    <3>2. CASE t # u
      <4>1. \A b \in Address : g[b] = f[b]
        BY <3>1, <3>2
      <4> HIDE DEF f, g
      <4>2. SumFunctionOnSet(g, Address) = SumFunctionOnSet(f, Address)
        BY <1>0, <4>1, SumsAgree
      <4> QED BY <1>2, <1>3, <4>2
    <3>3. CASE t = u
      <4>1. g[from] = f[from] - n /\ g[to] = f[to] + n
        BY <2>2, <3>1, <3>3
      <4>a. \A b \in Address \ {from, to} : g[b] = f[b]
        BY <3>1
      <4>b. IsFiniteSet(Address)
        BY <1>0
      <4> HIDE DEF f, g
      <4>2. SumFunctionOnSet(g, Address) =
                SumFunctionOnSet(f, Address) - f[from] - f[to] + g[from] + g[to]
        BY <1>1, <2>2, <4>a, <4>b, SumChangesTwice
      <4>3. f[from] \in Int /\ f[to] \in Int
        BY <1>1
      <4>4. SumFunctionOnSet(g, Address) = SumFunctionOnSet(f, Address)
        BY <1>3, <4>1, <4>2, <4>3
      <4> QED BY <1>2, <1>3, <4>4
    <3> QED BY <3>2, <3>3
  <2> QED BY <2>1, <2>2
<1>6. ASSUME NEW to \in Address, NEW u \in TokenId, NEW n \in Nat, MintTo(to, u, n)
      PROVE  FALSE
  <2>1. \A b \in Address : g[b] = IF t = u /\ b = to THEN f[b] + n ELSE f[b]
    BY <1>0, <1>6, MintOfHolding
  <2>2. g[to] = f[to] \/ g[to] = f[to] + n
    BY <2>1
  <2>3. \A b \in Address \ {to} : g[b] = f[b]
    BY <2>1
  <2> HIDE DEF f, g
  <2>4. SumFunctionOnSet(g, Address) = SumFunctionOnSet(f, Address) - f[to] + g[to]
    BY <1>0, <1>1, <2>3, SumChanges
  <2>5. f[to] \in Int
    BY <1>1
  <2> QED BY <1>2, <1>3, <2>2, <2>4, <2>5
<1>7. ASSUME NEW u \in TokenId, NEW n \in Nat, bridge \in Address, BurnOf(bridge, u, n)
      PROVE  balances'[t][a] = balances[t][a]
  BY <1>0, <1>7, BurnOfHolding
<1> QED BY <1>4, <1>5, <1>6, <1>7, StepOfBalances DEF BalancesStep

\* FIX #8, for any number of holders and whatever is called: when the supply of a class
\* drops, it is the bridge's own holding that shrank.
THEOREM OnlyBridgeHoldingsAreBurned == EvmSpec => OnlyBridgeHoldingsBurn
<1>1. EvmTypeOK /\ [EvmNext]_evmVars =>
        [\A t \in TokenId : Supply(t)' < Supply(t) =>
            \A a \in Address \ {bridge} : balances'[t][a] = balances[t][a]]_tokenVars
  BY SupplyDropsByBurn
<1> QED BY <1>1, TypeCorrect, PTL DEF EvmSpec, OnlyBridgeHoldingsBurn
=============================================================================
