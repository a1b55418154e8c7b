-------------------------- MODULE IndicatorToken1155 --------------------------
(***************************************************************************)
(* The ERC-1155 contract that holds every indicator token on the EVM chain *)
(* (evm-contracts/IndicatorToken1155.sol).  A token id is a semantic class: *)
(* it is bound once to the hash of the profile it stands for, and units of  *)
(* one class never turn into units of another.                              *)
(*                                                                          *)
(* A call that reverts changes nothing, so it is no step of this model: the *)
(* require()s are the guards of the actions.  ERC-1155 approvals and the    *)
(* receiver hook of a recipient contract can only make a call revert and    *)
(* are left to that nondeterminism.                                         *)
(***************************************************************************)
EXTENDS Integers, FiniteSetsExt

CONSTANTS
    Address,        \* EVM accounts, contracts included
    ZeroAddress,    \* address(0), which no call comes from
    MaxTokenId,     \* bound of an instance: classes that can be created
    ProfileHash,    \* hashes of indicator profiles
    IndicatorId,    \* 32-byte words an indicator id may be
    ZeroIndicator,  \* bytes32(0), the value of an unset mapping entry
    Keccak,         \* Keccak[p] = keccak256(abi.encodePacked(p))
    MaxUint256,     \* the largest uint256
    Amount          \* amounts a caller may pass

ASSUME TokenAssumption ==
    /\ MaxTokenId \in Nat
    /\ IsFiniteSet(Address)     \* 160-bit words
    /\ ZeroAddress \notin Address
    /\ ZeroIndicator \in IndicatorId
    /\ Keccak \in [ProfileHash -> IndicatorId \ {ZeroIndicator}]
    /\ \A p, q \in ProfileHash : Keccak[p] = Keccak[q] => p = q
    /\ MaxUint256 \in Nat
    /\ Amount \subseteq 0..MaxUint256

TokenId == 1..MaxTokenId

VARIABLES
    balances,          \* [TokenId -> [Address -> units held]]
    tokenToIndicator,  \* [TokenId -> indicator it is bound to, or zero]
    indicatorToToken,  \* [IndicatorId -> token id, or 0]
    tokenBound,        \* [TokenId -> BOOLEAN]
    nextTokenId,       \* the id the next class gets
    bridge             \* the one account that may mint and burn

registryVars == <<tokenToIndicator, indicatorToToken, tokenBound, nextTokenId>>
tokenVars == <<balances, registryVars, bridge>>

TokenTypeOK ==
    /\ balances \in [TokenId -> [Address -> 0..MaxUint256]]
    /\ tokenToIndicator \in [TokenId -> IndicatorId]
    /\ indicatorToToken \in [IndicatorId -> TokenId \cup {0}]
    /\ tokenBound \in [TokenId -> BOOLEAN]
    /\ nextTokenId \in 1..MaxTokenId + 1
    /\ bridge \in Address \cup {ZeroAddress}

----------------------------------------------------------------------------
\* OpenZeppelin's _mint, _burn and _safeTransferFrom as these contracts use
\* them.  Solidity 0.8 reverts an addition that does not fit in 256 bits.
MintTo(to, t, amount) ==
    /\ balances[t][to] + amount <= MaxUint256
    /\ balances' = [balances EXCEPT ![t][to] = @ + amount]

BurnOf(from, t, amount) ==
    /\ balances[t][from] >= amount
    /\ balances' = [balances EXCEPT ![t][from] = @ - amount]

Moved(held, from, to, amount) ==
    LET taken == [held EXCEPT ![from] = held[from] - amount]
    IN  [taken EXCEPT ![to] = taken[to] + amount]

MoveTokens(from, to, t, amount) ==
    /\ balances[t][from] >= amount
    /\ from # to => balances[t][to] + amount <= MaxUint256
    /\ balances' = [balances EXCEPT ![t] = Moved(@, from, to, amount)]

----------------------------------------------------------------------------
SetBridge(account) ==
    /\ bridge' = account
    /\ UNCHANGED <<balances, registryVars>>

BindClass(id) ==
    /\ nextTokenId <= MaxTokenId      \* bound of an instance
    /\ nextTokenId' = nextTokenId + 1
    /\ tokenToIndicator' = [tokenToIndicator EXCEPT ![nextTokenId] = id]
    /\ indicatorToToken' = [indicatorToToken EXCEPT ![id] = nextTokenId]
    /\ tokenBound' = [tokenBound EXCEPT ![nextTokenId] = TRUE]
    /\ UNCHANGED <<balances, bridge>>

CreateTokenClassAgain(p) == BindClass(Keccak[p])     \* mutant: indicator not checked

\* onlyOwner.
CreateTokenClass(p) ==
    /\ indicatorToToken[Keccak[p]] = 0
    /\ BindClass(Keccak[p])

Mint(caller, to, t, amount) ==
    /\ caller = bridge
    /\ tokenBound[t]
    /\ amount > 0
    /\ MintTo(to, t, amount)
    /\ UNCHANGED <<registryVars, bridge>>

\* onlyOwner; nothing limits it to one call or to the time before the bridge
\* is active.
MintInitialSupply(to, t, amount) ==
    /\ tokenBound[t]
    /\ amount > 0
    /\ MintTo(to, t, amount)
    /\ UNCHANGED <<registryVars, bridge>>

BurnFromAnyone(caller, t, amount) ==     \* mutant: before FIX #8, any account's units
    /\ caller = bridge
    /\ \E from \in Address : BurnOf(from, t, amount)
    /\ UNCHANGED <<registryVars, bridge>>

BurnFromBridge(caller, t, amount) ==
    /\ caller = bridge
    /\ BurnOf(bridge, t, amount)
    /\ UNCHANGED <<registryVars, bridge>>

SafeTransferFrom(from, to, t, amount) ==
    /\ MoveTokens(from, to, t, amount)
    /\ UNCHANGED <<registryVars, bridge>>

----------------------------------------------------------------------------
\* getIndicatorId
GetIndicatorId(t) == tokenToIndicator[t]

\* Units of class t in existence.
Supply(t) == SumFunctionOnSet(balances[t], Address)

\* The two registry mappings are inverse bijections between the classes created
\* so far and their indicators, and a class no createTokenClass has bound has no
\* units: this is what "tokens with different meanings can't be combined" rests on.
RegistryConsistent ==
    /\ \A t \in TokenId :
        /\ tokenBound[t] <=> t < nextTokenId
        /\ tokenBound[t] <=> tokenToIndicator[t] # ZeroIndicator
        /\ tokenBound[t] => indicatorToToken[tokenToIndicator[t]] = t
        /\ ~tokenBound[t] => \A a \in Address : balances[t][a] = 0
    /\ \A i \in IndicatorId :
        LET t == indicatorToToken[i] IN t # 0 => tokenBound[t] /\ tokenToIndicator[t] = i

\* A binding is permanent: no later call re-binds a class or frees its indicator.
BindingIsPermanent ==
    [][\A t \in TokenId : tokenBound[t] =>
            /\ tokenBound'[t]
            /\ tokenToIndicator'[t] = tokenToIndicator[t]
            /\ indicatorToToken'[tokenToIndicator[t]] = t]_tokenVars

\* FIX #8: whatever is called, units are destroyed only out of the bridge's own
\* holding; no other account's units can be burned.
OnlyBridgeHoldingsBurn ==
    [][\A t \in TokenId : Supply(t)' < Supply(t) =>
            \A a \in Address \ {bridge} : balances'[t][a] = balances[t][a]]_tokenVars
=============================================================================
