------------------------ MODULE MCTokenBridgeReceiver ------------------------
(* Small instances of TokenBridgeReceiver for TLC.  Time is counted in half   *)
(* hours, so the minimum timelock is 2 and the buffer 1; each of the two IBC  *)
(* fees is one unit.  "X1" is the key "x1" typed in upper case, and "CO2" the *)
(* indicator id "co2".                                                        *)
EXTENDS TokenBridgeReceiver

CONSTANTS owner, alice, h1, h2, s1, s2, e1

MCHashOf == [s \in Secret |-> IF s = s1 THEN h1 ELSE h2]
MCHashOfText == [x \in HashText |-> IF x = "x2" THEN h2 ELSE h1]
MCIndicatorOf == [i \in IndicatorText |-> IF i = "kwh" THEN "kwh" ELSE "co2"]
MCTokenNumber == [c \in ClassId |-> IF c = "1" THEN 1 ELSE IF c = "2" THEN 2 ELSE -1]

\* A state CosmosNext reaches from CosmosInit: one class exists and alice holds the
\* two units an earlier transfer, x1, brought her.  Instances that start here have
\* x2 left for a transfer in either direction.
HoldingInit ==
    /\ htlcLocks = [x \in HashText |-> IF x # "x1" THEN NoInbound ELSE
            [state |-> "Claimed", indicator |-> "co2", class |-> "1", amount |-> 2,
             recipient |-> alice, source |-> "polygon", timeout |-> 1, secret |-> s1]]
    /\ userHtlcLocks = [a \in CosmosAccount |-> IF a = alice THEN <<"x1">> ELSE <<>>]
    /\ outboundLocks = [x \in HashText |-> NoOutbound]
    /\ classes = [c \in ClassId |-> IF c = "1" THEN "co2" ELSE EmptyString]
    /\ indicatorClass = [i \in IndicatorText |-> IF i = "co2" THEN "1" ELSE EmptyString]
    /\ cosmosBalances = [c \in ClassId |-> [a \in CosmosAccount |->
            IF c = "1" /\ a = alice THEN 2 ELSE 0]]
    /\ tokenSupply = [c \in ClassId |-> IF c = "1" THEN 2 ELSE 0]
    /\ totalSupply = 2
    /\ stats = [locks |-> 1, claimed |-> 2, refunded |-> 0, pending |-> 0]
    /\ authorizedSenders = {}
    /\ bankUntrn = 0 /\ bankRelay = 0
    /\ bankSent = [caller \in CosmosAccount |-> [a \in CosmosAccount |-> 0]]
    /\ ibcInFlight = {} /\ cosmosCalls = {}
    /\ cosmosNow = 0

HoldingSpec == HoldingInit /\ [][CosmosNext]_cosmosVars
FairHoldingSpec == HoldingSpec /\ CosmosFairness
=============================================================================
