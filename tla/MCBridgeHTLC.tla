----------------------------- MODULE MCBridgeHTLC -----------------------------
(* Small instances of BridgeHTLC for TLC.  Time is counted in half hours, so   *)
(* the minimum timelock is 2 and the buffer 1, as in the contract.             *)
EXTENDS BridgeHTLC

CONSTANTS this, alice, bob, h0, h1, h2, s1, s2

MCKeccak == [p \in ProfileHash |-> IF p = "co2" THEN "id_co2" ELSE "id_kwh"]
MCHashOf == [s \in Secret |-> IF s = s1 THEN h1 ELSE h2]

\* The forward direction alone, for two concurrent locks: configuration, token
\* activity and the reverse direction stand still.
ForwardNext ==
    \/ \E caller \in Address \ {This}, t \in TokenId, amount \in Amount, h \in Hash,
          timelock \in Timelock, recipient \in CosmosAccount, dest \in Endpoint,
          bounty, value \in Wei :
            LockForBurn(caller, t, amount, h, timelock, recipient, dest, bounty, value)
    \/ \E caller \in Address \ {This}, h \in Hash, s \in Secret : ClaimBurn(caller, h, s)
    \/ \E h \in Hash, s \in Secret : ExecuteCallback(h, s)
    \/ \E caller \in Address \ {This}, h \in Hash : RefundBurn(caller, h)
    \/ \E caller \in Address : WithdrawPending(caller)
    \/ EvmTick
    \/ \E from \in Address \ {This}, to \in Address, t \in TokenId, amount \in Amount :
            SafeTransferFrom(from, to, t, amount) /\ UNCHANGED bridgeVars

ForwardSpec == EvmInit /\ [][ForwardNext]_evmVars

\* The reverse direction alone, for two concurrent mints, while the owner creates
\* classes and points the bridge at another source and the token at another bridge.
ReverseNext ==
    \/ \E source \in Endpoint, m \in PreparePayload : ExecutePrepareMint(source, m)
    \/ \E h \in Hash, s \in Secret, value \in Wei : ClaimMint(h, s, value)
    \/ \E h \in Hash : RefundMint(h)
    \/ \E source \in Endpoint \cup {EmptyString} : SetAuthorizedSource(source)
    \/ \E account \in {This, ZeroAddress} : ChangeBridge(account)
    \/ TokenActivity
    \/ EvmTick

ReverseSpec == EvmInit /\ [][ReverseNext]_evmVars
=============================================================================
