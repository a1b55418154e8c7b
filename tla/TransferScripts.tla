---------------------------- MODULE TransferScripts ----------------------------
(***************************************************************************)
(* The scripts that drive one transfer, and those an operator cleans up     *)
(* with: htlc-quick-test.js, htlc-reverse-test.js, bounty-demo.js,          *)
(* refund-locks.js and cancel-pending.js.                                   *)
(***************************************************************************)
EXTENDS BridgeClient

CONSTANT
    OperatorFollowsPrompts   \* whether claim-evm is only run when claim-cosmos said "Next"

\* A command that works on the transfer htlc-state.json names.
StartOn(to) ==
    /\ Idle /\ pc' = to /\ cur' = state.transfer
    /\ UNCHANGED <<chainVars, netVars, script, attempt, used, results, left, runNumber, diskVars, todo,
                   faults>>

\* state.status = ..; writeFileSync: one file for all transfers.
WriteState(at, status) ==
    /\ pc = at /\ pc' = "idle"
    /\ state' = [status |-> status, transfer |-> cur]
    /\ UNCHANGED <<chainVars, netVars, script, attempt, memoryVars, file, todo, faults>>

\* htlc-quick-test.js lock: the secret is on disk only after the receipt.
QuickLock ==
    \/ script = "quick" /\ StartFresh("quick-lock")
    \/ Submit("quick-lock", "source", "lockForBurn", cur, "quick-locking", FALSE)
    \/ Await("quick-locking", "save-locked", "quick-lock", FALSE)
    \/ WriteState("save-locked", "locked")

\* claim-cosmos: no funds are attached, so no callback will come.
HasState == script = "quick" /\ state.status \notin {"none", "torn"}
QuickClaimOnCosmos ==
    \/ HasState /\ StartOn("quick-claim-cosmos")
    \/ See("quick-claim-cosmos", destination[cur] = "pending", "quick-claim", "idle")
    \/ Submit("quick-claim", "destination", "claimMint", cur, "quick-claiming", FALSE)
    \/ Await("quick-claiming", "save-claimed", "quick-claim", FALSE)
    \/ WriteState("save-claimed", "claimed_cosmos")

\* claim-evm asks the lock's state, not the status its own file has.
QuickClaimOnEVM ==
    \/ /\ HasState
       /\ OperatorFollowsPrompts => state.status = "claimed_cosmos"
       /\ StartOn("quick-claim-evm")
    \/ See("quick-claim-evm", source[cur] = "LOCKED", "quick-burn", "idle")
    \/ Submit("quick-burn", "source", "claimBurn", cur, "quick-burning", FALSE)
    \/ Await("quick-burning", "save-completed", "quick-burn", FALSE)
    \/ WriteState("save-completed", "completed")

QuickTest ==
    \/ QuickLock
    \/ QuickClaimOnCosmos
    \/ QuickClaimOnEVM
    \/ script = "quick" /\ Fail("failed")

----------------------------------------------------------------------------
\* What a finished transfer leaves in reverse-results.json or bounty-demo-results.json:
\* read, append, write.  Nothing is kept of a transfer that fails half-way.
SaveEntry(at, mode) ==
    /\ pc = at /\ pc' = "result"
    /\ results' = [file.content EXCEPT !.runs = Append(@,
            [run_number |-> 0, success |-> TRUE, lock |-> TRUE, mode |-> mode,
             transfer |-> cur])]
    /\ ~file.torn
    /\ UNCHANGED <<chainVars, netVars, script, attempt, cur, used, left, runNumber, diskVars, todo,
                   faults>>

SaveFails(at) == file.torn /\ Goto(at, "failed")     \* JSON.parse throws

WriteEntry ==
    /\ pc = "result" /\ pc' = "idle"
    /\ file' = [torn |-> FALSE, content |-> results]
    /\ results' = NoResults
    /\ UNCHANGED <<chainVars, netVars, script, attempt, cur, used, left, runNumber, state, todo,
                   faults>>

Entry(at, mode) == SaveEntry(at, mode) \/ SaveFails(at)

\* htlc-reverse-test.js run: the source is Neutron now.  Its poll for the prepare
\* message wants a mint that is still pending.
ReverseRun(manualBurn) ==
    \/ StartFresh("reverse-lock")
    \/ Submit("reverse-lock", "source", "lockForBurn", cur, "reverse-locking", FALSE)
    \/ Await("reverse-locking", "reverse-relay", "reverse-lock", FALSE)
    \/ See("reverse-relay", destination[cur] = "pending", "reverse-claim", "failed")
    \/ Submit("reverse-claim", "destination", "claimMint", cur, "reverse-claiming", FALSE)
    \/ Await("reverse-claiming", IF manualBurn THEN "reverse-burn" ELSE "reverse-callback",
             "reverse-claim", FALSE)
    \/ Submit("reverse-burn", "source", "claimBurn", cur, "reverse-burning", FALSE)
    \/ Await("reverse-burning", "reverse-burned", "reverse-burn", FALSE)
    \/ See("reverse-callback", source[cur] = "CLAIMED", "reverse-settled", "reverse-pending")
    \/ Goto("reverse-callback", "failed")     \* the query fails; the result is not saved
    \/ Entry("reverse-burned", "manual-fallback")
    \/ Entry("reverse-settled", "automatic-callback")
    \/ Entry("reverse-pending", "callback-pending")

ReverseTest ==
    /\ script = "reverse"
    /\ \/ \E manualBurn \in BOOLEAN : ReverseRun(manualBurn)
       \/ WriteEntry
       \/ Fail("failed")

----------------------------------------------------------------------------
\* bounty-demo.js: the claim is not funded, and a second key burns with the secret
\* it reads from the chain.
BountyDemo ==
    /\ script = "bounty"
    /\ \/ StartFresh("demo-lock")
       \/ Submit("demo-lock", "source", "lockForBurn", cur, "demo-locking", FALSE)
       \/ Await("demo-locking", "demo-relay", "demo-lock", FALSE)
       \/ See("demo-relay", destination[cur] # "none", "demo-claim", "failed")
       \/ Submit("demo-claim", "destination", "claimMint", cur, "demo-claiming", FALSE)
       \/ Await("demo-claiming", "demo-monitor", "demo-claim", FALSE)
       \/ See("demo-monitor", destination[cur] = "claimed", "demo-burn", "failed")
       \/ Submit("demo-burn", "monitor", "claimBurn", cur, "demo-burning", FALSE)
       \/ Await("demo-burning", "demo-burned", "demo-burn", FALSE)
       \/ Entry("demo-burned", "monitor")
       \/ WriteEntry
       \/ Fail("failed")

----------------------------------------------------------------------------
\* Scripts the operator runs beside the others, with the same accounts.
Todo(op, h, checked) == [op |-> op, transfer |-> h, checked |-> checked, sent |-> FALSE]

\* refund-locks.js refund: the user's locks are listed once, those whose timelock had
\* passed then are gone through one by one.
Expired(h) == source[h] # "EMPTY" /\ clock[h] = REFUND_OPEN
RefundLocks ==
    /\ todo = <<>> /\ script # "reverse"
    /\ \E h \in Transfer : Expired(h) /\ source[h] = "LOCKED"
    /\ LET expired == {h \in Transfer : Expired(h)}
           places == 1..Cardinality(expired)
       IN \E listed \in [places -> expired] :      \* oldest first
            /\ \A i, j \in places : i < j => listed[i] < listed[j]
            /\ todo' = [i \in places |-> Todo("refundBurn", listed[i], TRUE)]
    /\ UNCHANGED <<chainVars, netVars, script, stepVars, memoryVars, diskVars, faults>>

\* htlc-reverse-test.js refund (for an expired lock) and manual-burn (as the script
\* advises when no callback came).
ReverseCommand(op, h) ==
    /\ todo = <<>> /\ script = "reverse"
    /\ \/ op = "refundBurn" /\ Expired(h) /\ source[h] = "LOCKED"
       \/ /\ op = "claimBurn"
          /\ \E i \in 1..Len(file.content.runs) :
                file.content.runs[i].transfer = h /\ file.content.runs[i].mode = "callback-pending"
    /\ todo' = <<Todo(op, h, FALSE)>>
    /\ UNCHANGED <<chainVars, netVars, script, stepVars, memoryVars, diskVars, faults>>

Job == Head(todo)

\* A lock that is no longer LOCKED is only listed.
StopAtSettled == todo' = <<>>     \* mutant: returns instead of going on to the next lock
SkipSettled == todo' = Tail(todo)

OperatorSkips ==
    /\ todo # <<>> /\ Job.checked /\ ~Job.sent /\ source[Job.transfer] # "LOCKED"
    /\ SkipSettled
    /\ UNCHANGED <<chainVars, netVars, script, stepVars, memoryVars, diskVars, faults>>

MaySend == todo # <<>> /\ ~Job.sent /\ (Job.checked => source[Job.transfer] = "LOCKED")

OperatorSends ==
    /\ MaySend
    /\ pool' = Sent("source", Job.op, Job.transfer, "operator")
    /\ receipt' = [receipt EXCEPT !["operator"] = "none"]
    /\ todo' = [todo EXCEPT ![1].sent = TRUE]
    /\ UNCHANGED <<chainVars, script, stepVars, memoryVars, diskVars, faults>>

OperatorRefunds == MaySend /\ Job.op = "refundBurn" /\ OperatorSends

\* Any error ends the script.
OperatorFails ==
    /\ MaySend
    /\ Undelivered("source", Job.op, Job.transfer)
    /\ todo' = <<>>
    /\ UNCHANGED <<chainVars, receipt, script, stepVars, memoryVars, diskVars>>

OperatorWaits ==
    /\ todo # <<>> /\ Job.sent
    /\ \/ receipt["operator"] = "ok" /\ todo' = Tail(todo) /\ UNCHANGED <<pool, faults>>
       \/ receipt["operator"] = "failed" /\ todo' = <<>> /\ UNCHANGED <<pool, faults>>
       \/ todo' = <<>> /\ WaitFails("operator")
    /\ receipt' = [receipt EXCEPT !["operator"] = "none"]
    /\ UNCHANGED <<chainVars, script, stepVars, memoryVars, diskVars>>

\* cancel-pending.js replaces the lowest pending nonce by an empty transfer; whoever
\* waits for the replaced transaction gets an error.
CancelPending ==
    /\ script # "reverse" /\ pool["source"] # <<>> /\ Fault
    /\ pool' = [pool EXCEPT !["source"] = Tail(@)]
    /\ LET by == Head(pool["source"]).by
       IN receipt' = IF by = "nobody" THEN receipt ELSE [receipt EXCEPT ![by] = "failed"]
    /\ UNCHANGED <<chainVars, script, stepVars, memoryVars, diskVars, todo>>

OperatorStart ==
    \/ RefundLocks
    \/ \E op \in {"claimBurn", "refundBurn"}, h \in Transfer : ReverseCommand(op, h)
OperatorStep == OperatorSkips \/ OperatorSends \/ OperatorFails \/ OperatorWaits
=============================================================================
