---------------------------- MODULE HtlcEvaluation ----------------------------
(***************************************************************************)
(* scripts/htlc-evaluation.js: batches of forward transfers, each locked,   *)
(* relayed, claimed and burned, with every outcome recorded in              *)
(* evaluation-results.json; and the refund test.  One pc value per point    *)
(* where the script talks to a chain or to the disk.                        *)
(***************************************************************************)
EXTENDS BridgeClient

\* lockTokensForRun: the sending is retried, the receipt is waited for once.
LockTokensForRun ==
    \/ Submit("lock", "source", "lockForBurn", cur, "locking", TRUE)
    \/ Await("locking", "relay", "lock", FALSE)

\* waitForRelayWithPolling swallows the errors of its queries and knows one failure,
\* RELAY_MAX_WAIT; a lock in any state will do.
WaitForRelayForEver ==     \* mutant: the poll is not limited
    Sleep("relay", destination[cur] # "none",
          IF script = "evaluation" THEN "verify" ELSE "expire")
WaitForRelayWithPolling ==
    See("relay", destination[cur] # "none",
        IF script = "evaluation" THEN "verify" ELSE "expire", "failed")

\* claimOnCosmosForRun: client.execute sends and waits, both inside the retry.
ClaimUnawaited ==     \* mutant: the result of the claim is not awaited
    \/ See("verify", destination[cur] = "pending", "claim", "failed")
    \/ Submit("claim", "destination", "claimMint", cur, "automatic", TRUE)
ClaimOnCosmosForRun ==
    \/ See("verify", destination[cur] = "pending", "claim", "failed")
    \/ Submit("claim", "destination", "claimMint", cur, "claiming", TRUE)
    \/ Await("claiming", "automatic", "claim", TRUE)

\* waitForAutomaticBurn: null when CALLBACK_MAX_WAIT_MS is over, an error when the
\* node fails.
WaitForAutomaticBurn ==
    \/ See("automatic", source[cur] = "CLAIMED", "called-back", "fallback")
    \/ Goto("automatic", "failed")

BurnUnawaited ==     \* mutant: burnTx.wait() is forgotten
    \/ See("fallback", source[cur] = "LOCKED", "burn", "failed")
    \/ Submit("burn", "source", "claimBurn", cur, "burned", TRUE)
BurnOnEVMForRun ==
    \/ See("fallback", source[cur] = "LOCKED", "burn", "failed")
    \/ Submit("burn", "source", "claimBurn", cur, "burning", TRUE)
    \/ Await("burning", "burned", "burn", FALSE)

----------------------------------------------------------------------------
\* results.runs.push(..), in the loop of runBatch; "transfer" is not in the file, it
\* tells here which transfer the run was about (0: none was started).
Pushed(success, mode, h) ==
    results' = [results EXCEPT !.runs = Append(@,
        [run_number |-> runNumber, success |-> success, lock |-> success, mode |-> mode,
         transfer |-> h])]

KeepRun(at, success, mode, h) ==
    /\ pc = at /\ pc' = "saving"
    /\ Pushed(success, mode, h)
    /\ UNCHANGED <<chainVars, netVars, script, attempt, cur, used, left, runNumber, diskVars, todo,
                   faults>>

\* The try block of an iteration ends in a success, or its catch block records a
\* failure and nothing of what was done before it.
RecordRun ==
    \/ KeepRun("called-back", TRUE, "automatic-callback", cur)
    \/ KeepRun("burned", TRUE, "manual-fallback", cur)
    \/ script = "evaluation" /\ KeepRun("failed", FALSE, "none", cur)

\* The pre-flight check of the Neutron funds, and the approval of the bridge, come
\* before anything is started; they may fail.
Preflight ==
    /\ pc = "preflight"
    /\ \/ /\ used' = used + 1 /\ cur' = used + 1 /\ pc' = "lock"
          /\ UNCHANGED <<results>>
       \/ Pushed(FALSE, "none", 0) /\ pc' = "saving" /\ UNCHANGED <<cur, used>>
    /\ UNCHANGED <<chainVars, netVars, script, attempt, left, runNumber, diskVars, todo, faults>>

\* saveResults, after every run; the loop goes on with what it has in memory.
SaveResults ==
    /\ pc \in {"saving", "resaving"}
    /\ file' = [torn |-> FALSE, content |-> results]
    /\ left' = left - 1 /\ runNumber' = runNumber + 1
    /\ pc' = IF left = 1 THEN "summary" ELSE "preflight"
    /\ UNCHANGED <<chainVars, netVars, script, attempt, cur, used, results, state, todo, faults>>

\* The save of a success is still inside the try block.  When it throws, the catch block
\* records the same run again, as a failure, and saves once more.  The file is as it was,
\* or in pieces until then.  (A save that throws anywhere else ends the process: Kill.)
SaveThrows ==
    /\ pc = "saving" /\ results.runs[Len(results.runs)].success
    /\ Fault
    /\ file' \in {file, TornFile}
    /\ Pushed(FALSE, "none", cur)
    /\ pc' = "resaving"
    /\ UNCHANGED <<chainVars, netVars, script, attempt, cur, used, left, runNumber, state, todo>>

\* computeSummary: the counts.  A record without a lock field counts as aborted
\* before its lock.
Among(runs, P(_)) == Cardinality({i \in 1..Len(runs) : P(runs[i])})
ComputeSummary(runs) ==
    [totalRuns         |-> Len(runs),
     successfulRuns    |-> Among(runs, LAMBDA r : r.success),
     abortedRuns       |-> Among(runs, LAMBDA r : ~r.success),
     abortedBeforeLock |-> Among(runs, LAMBDA r : ~r.success /\ ~r.lock),
     callbackRuns      |-> Among(runs, LAMBDA r : r.success /\ r.mode = "automatic-callback")]

\* The end of runBatch.
Summarise ==
    /\ pc = "summary" /\ pc' = "idle"
    /\ file' = [torn |-> FALSE,
                content |-> [results EXCEPT !.summary = ComputeSummary(results.runs)]]
    /\ results' = NoResults /\ runNumber' = 0
    /\ UNCHANGED <<chainVars, netVars, script, attempt, cur, used, left, state, todo, faults>>

\* loadOrInitializeResults: JSON.parse throws on a torn file and the process ends.
LoadNothing == NoResults     \* mutant: always starts a new list
LoadOrInitializeResults == file.content

\* run-batch n.
RunBatch(n) ==
    /\ script = "evaluation" /\ Idle /\ ~file.torn
    /\ used + n <= MaxStarts[script]                         \* bound of an instance
    /\ Len(file.content.runs) + n <= MaxRecords              \* bound of an instance
    /\ pc' = "preflight"
    /\ results' = LoadOrInitializeResults /\ left' = n
    /\ runNumber' = Len(file.content.runs) + 1
    /\ UNCHANGED <<chainVars, netVars, script, attempt, cur, used, diskVars, todo, faults>>

----------------------------------------------------------------------------
\* refundTest: a transfer nobody claims.  It sleeps past each deadline, cancels the
\* mint, takes the escrow back.
RefundTest == script = "refund-test" /\ StartFresh("lock")

RefundTestSteps ==
    \/ Sleep("expire", clock[cur] >= MINT_EXPIRED, "refund-mint")
    \/ Submit("refund-mint", "destination", "refundMint", cur, "refunding-mint", TRUE)
    \/ Await("refunding-mint", "wait-timelock", "refund-mint", TRUE)
    \/ Sleep("wait-timelock", clock[cur] = REFUND_OPEN, "refund")
    \/ Submit("refund", "source", "refundBurn", cur, "refunding", TRUE)
    \/ Await("refunding", "passed", "refund", FALSE)
    \/ script = "refund-test" /\ Fail("failed")

Evaluation ==
    \/ \E n \in 1..MaxTransfers : RunBatch(n)
    \/ Preflight
    \/ LockTokensForRun
    \/ WaitForRelayWithPolling
    \/ ClaimOnCosmosForRun
    \/ WaitForAutomaticBurn
    \/ BurnOnEVMForRun
    \/ RecordRun
    \/ SaveResults
    \/ SaveThrows
    \/ Summarise
    \/ RefundTest
    \/ RefundTestSteps

----------------------------------------------------------------------------
\* evaluation-results.json and the process that writes it, as EvaluationBatch sees
\* them: a record pushed and not yet saved is not in the abstract list, nor are the two
\* of a run whose save failed.
Outcome(runs) == [i \in 1..Len(runs) |->
    [number |-> runs[i].run_number, success |-> runs[i].success, day |-> 1]]
InBatch == script = "evaluation" /\ pc # "idle"
Unsaved == IF pc = "saving" THEN 1 ELSE IF pc = "resaving" THEN 2 ELSE 0
Saved == SubSeq(results.runs, 1, Len(results.runs) - Unsaved)
HasFile == script = "evaluation" /\ ~file.torn

Batches == INSTANCE EvaluationBatch WITH
    Batch <- {"evaluation"}, Days <- {1}, MaxRuns <- MaxTransfers,
    stored <- IF HasFile THEN Outcome(file.content.runs) ELSE <<>>,
    torn <- script = "evaluation" /\ file.torn,
    batch <- [b \in {"evaluation"} |->
        [running |-> InBatch,
         list |-> IF InBatch THEN Outcome(Saved) ELSE <<>>,
         left |-> IF InBatch THEN left ELSE 0,
         number |-> IF InBatch THEN runNumber ELSE 0,
         failing |-> InBatch /\ pc = "resaving"]]

\* Whatever retries, failures and kills do, the file only ever gains the records of runs
\* that ended, numbered one after the other from what was there when their batch began:
\* one record of each run, and exactly two, a success and a failure under one number, of
\* a run that succeeded and whose save failed.  Torn, it is only written over by the
\* batch whose own failed save tore it, with all it held and more.
ImplementsBatch == Batches!BatchSpec
=============================================================================
