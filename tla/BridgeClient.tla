----------------------------- MODULE BridgeClient -----------------------------
(***************************************************************************)
(* The bridge as the scripts under scripts/ meet it: transactions that are  *)
(* signed by one account per chain, sent through an RPC node, and mined     *)
(* later or dropped; reads that may fail; parties nobody controls.          *)
(*                                                                          *)
(* Every transfer has a secret of its own, made by the script that starts   *)
(* it, and a clock of its own: which of its deadlines have passed.  A       *)
(* script is a process with a pc.  What it only keeps in memory (its        *)
(* secret among it) is gone when it stops; files stay.                      *)
(***************************************************************************)
EXTENDS Naturals, Sequences, FiniteSets

CONSTANTS
    MaxTransfers,   \* bound of an instance: transfers ever started
    MaxStarts,      \* bound of an instance: those of them a script may start
    MaxRetries,     \* RETRY_CONFIG.maxRetries
    MaxFaults,      \* bound of an instance: answers lost, scripts killed, saves failed,
                    \* transactions cancelled
    MaxRecords      \* bound of an instance: runs ever recorded

Transfer == 1..MaxTransfers
Script == {"evaluation", "refund-test", "quick", "reverse", "bounty"}
Process == {"script", "operator"}

ASSUME ClientAssumption ==
    /\ MaxTransfers \in Nat /\ MaxStarts \in [Script -> 0..MaxTransfers]
    /\ MaxFaults \in Nat /\ MaxRecords \in Nat
    /\ MaxRetries \in Nat \ {0}

\* The accounts: the user's on each chain, and the bounty demo's monitor.
Wallet == {"source", "destination", "monitor"}
Operation == {"lockForBurn", "claimBurn", "refundBurn", "claimMint", "refundMint"}
Transaction == [op : Operation, transfer : Transfer, by : Process \cup {"nobody"}]

\* What has passed since a transfer's timelock was computed: little, more than the
\* margin above MIN_TIMELOCK_DURATION, the mint's deadline, the timelock.
FRESH == 0
OPEN == 1
MINT_EXPIRED == 2
REFUND_OPEN == 3

Mode == {"none", "automatic-callback", "manual-fallback", "callback-pending", "monitor"}
Record == [run_number : Nat, success : BOOLEAN, lock : BOOLEAN, mode : Mode,
           transfer : 0..MaxTransfers]

VARIABLES
    source,        \* [Transfer -> state of the lock at the source]
    destination,   \* [Transfer -> state of the mint at the destination]
    burnedBy,      \* [Transfer -> whose claimBurn settled the lock]
    clock,         \* [Transfer -> FRESH .. REFUND_OPEN]
    pool,          \* [Wallet -> transactions sent and not mined, in nonce order]
    receipt,       \* [Process -> outcome of the transaction it waits for]
    script,        \* the script in use
    pc,            \* where its process is; "idle" when none runs
    cur,           \* the transfer the process works on
    used,          \* transfers started so far
    attempt,       \* of retryWithBackoff
    results,       \* the process's copy of its results file
    left,          \* iterations left of runBatch
    runNumber,     \* of the iteration runBatch is in
    file,          \* the results file: its records, or torn by a kill while written
    state,         \* htlc-state.json of htlc-quick-test.js
    todo,          \* what the operator's refund-locks.js (or command) has left to do
    faults         \* answers lost, scripts killed, saves failed, transactions cancelled so far

chainVars == <<source, destination, burnedBy, clock>>
netVars == <<pool, receipt>>
stepVars == <<pc, attempt>>
memoryVars == <<cur, used, results, left, runNumber>>
diskVars == <<file, state>>
clientVars == <<chainVars, netVars, script, stepVars, memoryVars, diskVars, todo, faults>>

----------------------------------------------------------------------------
\* What the contracts make of a call about a transfer.  BridgeHTLC and
\* TokenBridgeReceiver model them in full; here the secret is right by construction
\* and only states and deadlines decide.
SourceAccepts(op, h) ==
    \/ op = "lockForBurn" /\ source[h] = "EMPTY" /\ clock[h] = FRESH
    \/ op = "claimBurn" /\ source[h] = "LOCKED"
    \/ op = "refundBurn" /\ source[h] = "LOCKED" /\ clock[h] = REFUND_OPEN

DestinationAccepts(op, h) ==
    \/ op = "claimMint" /\ destination[h] = "pending" /\ clock[h] < MINT_EXPIRED
    \/ op = "refundMint" /\ destination[h] = "pending" /\ clock[h] >= MINT_EXPIRED

After == [lockForBurn |-> "LOCKED", claimBurn |-> "CLAIMED", refundBurn |-> "REFUNDED",
          claimMint |-> "claimed", refundMint |-> "refunded"]

Executed(op, h, who) ==
    /\ source' = IF SourceAccepts(op, h) THEN [source EXCEPT ![h] = After[op]] ELSE source
    /\ destination' = IF DestinationAccepts(op, h)
                      THEN [destination EXCEPT ![h] = After[op]] ELSE destination
    /\ burnedBy' = IF op = "claimBurn" /\ SourceAccepts(op, h)
                   THEN [burnedBy EXCEPT ![h] = who] ELSE burnedBy
    /\ UNCHANGED clock

\* The oldest transaction of an account is included in a block; a revert is a
\* receipt too.  Whoever waits for it learns the outcome.
Mine(w) ==
    /\ pool[w] # <<>>
    /\ pool' = [pool EXCEPT ![w] = Tail(@)]
    /\ LET tx == Head(pool[w])
           ok == SourceAccepts(tx.op, tx.transfer) \/ DestinationAccepts(tx.op, tx.transfer)
       IN /\ Executed(tx.op, tx.transfer, w)
          /\ receipt' = IF tx.by = "nobody" THEN receipt
                        ELSE [receipt EXCEPT ![tx.by] = IF ok THEN "ok" ELSE "failed"]
    /\ UNCHANGED <<script, stepVars, memoryVars, diskVars, todo, faults>>

----------------------------------------------------------------------------
\* Parties nobody here controls.  GMP delivers the prepare message or does not;
\* prepare_mint refuses one whose deadline has passed.
Relay(h) ==
    /\ source[h] # "EMPTY" /\ destination[h] = "none" /\ clock[h] < MINT_EXPIRED
    /\ destination' = [destination EXCEPT ![h] = "pending"]
    /\ UNCHANGED <<source, burnedBy, clock, netVars, script, stepVars, memoryVars, diskVars,
                   todo, faults>>

\* The callback is only sent when the claim was funded, as these two scripts do.
FundsCallback == script \in {"evaluation", "reverse"}

Burners == {"stranger"} \cup (IF FundsCallback THEN {"callback"} ELSE {})

\* Once the mint has made the secret public, the callback or any monitor may burn.
BurnByOther(h, who) ==
    /\ destination[h] = "claimed" /\ SourceAccepts("claimBurn", h)
    /\ Executed("claimBurn", h, who)
    /\ UNCHANGED <<netVars, script, stepVars, memoryVars, diskVars, todo, faults>>

\* refund_mint is permissionless.
ExpireMint(h) ==
    /\ DestinationAccepts("refundMint", h)
    /\ Executed("refundMint", h, "nobody")
    /\ UNCHANGED <<netVars, script, stepVars, memoryVars, diskVars, todo, faults>>

\* Time passes for a started transfer, no later than for those started after it.
Tick(h) ==
    /\ h <= used /\ clock[h] < REFUND_OPEN
    /\ \A g \in Transfer : g < h => clock[g] > clock[h] \/ clock[g] = REFUND_OPEN
    /\ clock' = [clock EXCEPT ![h] = @ + 1]
    /\ UNCHANGED <<source, destination, burnedBy, netVars, script, stepVars, memoryVars,
                   diskVars, todo, faults>>

----------------------------------------------------------------------------
Fault == faults < MaxFaults /\ faults' = faults + 1

\* Sending and waiting, as ethers and cosmjs do it.
Sent(w, op, h, by) ==
    [pool EXCEPT ![w] = Append(@, [op |-> op, transfer |-> h, by |-> by])]

\* A transaction whose answer is lost is in the pool all the same.
Undelivered(w, op, h) ==
    \/ pool' = Sent(w, op, h, "nobody") /\ Fault
    \/ UNCHANGED <<pool, faults>>

\* Nobody waits any more for the transactions of a process.
Abandoned(p) ==
    [w \in Wallet |-> [i \in 1..Len(pool[w]) |->
        IF pool[w][i].by = p THEN [pool[w][i] EXCEPT !.by = "nobody"] ELSE pool[w][i]]]

\* A node fails the wait for a transaction, which goes on alone.
WaitFails(p) == pool' = Abandoned(p) /\ Fault

\* retryWithBackoff: up to maxRetries attempts, then the error is thrown.
RetryOnceMore(from, retried) ==     \* mutant: one attempt too many
    IF retried /\ attempt <= MaxRetries
    THEN pc' = from /\ attempt' = attempt + 1
    ELSE pc' = "failed" /\ attempt' = 1
Retry(from, retried) ==
    IF retried /\ attempt < MaxRetries
    THEN pc' = from /\ attempt' = attempt + 1
    ELSE pc' = "failed" /\ attempt' = 1

\* At pc "from" the script sends a transaction.
Submit(from, w, op, h, to, retried) ==
    /\ pc = from
    /\ receipt' = [receipt EXCEPT !["script"] = "none"]
    /\ \/ pool' = Sent(w, op, h, "script") /\ pc' = to /\ UNCHANGED <<attempt, faults>>
       \/ Undelivered(w, op, h) /\ Retry(from, retried)
    /\ UNCHANGED <<chainVars, script, memoryVars, diskVars, todo>>

\* At pc "at" it waits for the receipt; the node may fail it meanwhile.
Await(at, to, from, retried) ==
    /\ pc = at
    /\ \/ receipt["script"] = "ok" /\ pc' = to /\ attempt' = 1 /\ UNCHANGED <<pool, faults>>
       \/ receipt["script"] = "failed" /\ Retry(from, retried) /\ UNCHANGED <<pool, faults>>
       \/ WaitFails("script") /\ Retry(from, retried)
    /\ receipt' = [receipt EXCEPT !["script"] = "none"]
    /\ UNCHANGED <<chainVars, script, memoryVars, diskVars, todo>>

\* It goes on: one read of a chain, or the file system, decided where to.
Goto(at, to) ==
    /\ pc = at /\ pc' = to
    /\ UNCHANGED <<chainVars, netVars, script, attempt, memoryVars, diskVars, todo, faults>>

\* A read that finds what it must, or fails; a poll that finds it, or runs out of time.
See(at, seen, to, otherwise) ==
    /\ pc = at
    /\ \/ seen /\ Goto(at, to)
       \/ Goto(at, otherwise)

\* It sleeps until something is so.
Sleep(at, until, to) == pc = at /\ until /\ Goto(at, to)

\* A process that fails ends, unless the script catches the error.
Fail(at) == Goto(at, "idle")

Idle == pc \in {"idle", "passed"}

\* A process starts on a transfer of its own, with a new secret.
StartFresh(to) ==
    /\ Idle
    /\ used < MaxStarts[script]                               \* bound of an instance
    /\ used' = used + 1 /\ cur' = used + 1
    /\ pc' = to
    /\ UNCHANGED <<chainVars, netVars, script, attempt, results, left, runNumber, diskVars, todo,
                   faults>>

----------------------------------------------------------------------------
NoSummary == [totalRuns |-> 0, successfulRuns |-> 0, abortedRuns |-> 0,
              abortedBeforeLock |-> 0, callbackRuns |-> 0]
NoResults == [runs |-> <<>>, summary |-> NoSummary]
NewFile == [torn |-> FALSE, content |-> NoResults]
TornFile == [torn |-> TRUE, content |-> NoResults]
NewState == [status |-> "none", transfer |-> 0]
TornState == [status |-> "torn", transfer |-> 0]

ClientInit ==
    /\ source = [h \in Transfer |-> "EMPTY"] /\ destination = [h \in Transfer |-> "none"]
    /\ burnedBy = [h \in Transfer |-> "nobody"] /\ clock = [h \in Transfer |-> FRESH]
    /\ pool = [w \in Wallet |-> <<>>] /\ receipt = [p \in Process |-> "none"]
    /\ script \in Script /\ pc = "idle" /\ attempt = 1
    /\ cur = 0 /\ used = 0 /\ results = NoResults /\ left = 0 /\ runNumber = 0
    /\ file = NewFile /\ state = NewState
    /\ todo = <<>> /\ faults = 0

\* A script is killed between any two of its steps: what it kept in memory is gone,
\* and a file it was writing may be left in pieces.
Kill ==
    /\ ~Idle /\ Fault
    /\ pc' = "idle" /\ attempt' = 1 /\ results' = NoResults /\ left' = 0 /\ runNumber' = 0
    /\ pool' = Abandoned("script") /\ receipt' = [receipt EXCEPT !["script"] = "none"]
    /\ file' \in {file} \cup
            (IF pc \in {"saving", "resaving", "summary", "result"} THEN {TornFile} ELSE {})
    /\ state' \in {state} \cup
            (IF pc \in {"save-locked", "save-claimed", "save-completed"} THEN {TornState} ELSE {})
    /\ UNCHANGED <<chainVars, script, cur, used, todo>>
=============================================================================
