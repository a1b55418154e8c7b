----------------------------- MODULE ClientScripts -----------------------------
(***************************************************************************)
(* One script of scripts/ at work on a bridge it shares with relayers,      *)
(* monitors and its own operator, over nodes that fail, killed and run      *)
(* again: what it leaves on the chains and in its files.                    *)
(***************************************************************************)
EXTENDS HtlcEvaluation, TransferScripts

ScriptAction ==
    \/ Evaluation
    \/ QuickTest
    \/ ReverseTest
    \/ BountyDemo

ClientNext ==
    \/ ScriptAction
    \/ Kill
    \/ \E w \in Wallet : Mine(w)
    \/ \E h \in Transfer :
        \/ Relay(h)
        \/ \E who \in Burners : BurnByOther(h, who)
        \/ ExpireMint(h)
        \/ Tick(h)
    \/ OperatorStart
    \/ OperatorStep
    \/ CancelPending

ClientSpec == ClientInit /\ [][ClientNext]_clientVars

----------------------------------------------------------------------------
PC == {"idle", "failed", "passed",
       "preflight", "lock", "locking", "relay", "verify", "claim", "claiming", "automatic",
       "called-back", "fallback", "burn", "burning", "burned", "saving", "resaving",
       "summary",
       "expire", "refund-mint", "refunding-mint", "wait-timelock", "refund", "refunding",
       "quick-lock", "quick-locking", "save-locked", "quick-claim-cosmos", "quick-claim",
       "quick-claiming", "save-claimed", "quick-claim-evm", "quick-burn", "quick-burning",
       "save-completed",
       "reverse-lock", "reverse-locking", "reverse-relay", "reverse-claim",
       "reverse-claiming", "reverse-burn", "reverse-burning", "reverse-burned",
       "reverse-callback", "reverse-settled", "reverse-pending",
       "demo-lock", "demo-locking", "demo-relay", "demo-claim", "demo-claiming",
       "demo-monitor", "demo-burn", "demo-burning", "demo-burned", "result"}

Summary == [totalRuns : Nat, successfulRuns : Nat, abortedRuns : Nat,
            abortedBeforeLock : Nat, callbackRuns : Nat]
Results == [runs : Seq(Record), summary : Summary]

\* Type correctness; in particular no retry loop runs past maxRetries.
ClientTypeOK ==
    /\ source \in [Transfer -> {"EMPTY", "LOCKED", "CLAIMED", "REFUNDED"}]
    /\ destination \in [Transfer -> {"none", "pending", "claimed", "refunded"}]
    /\ burnedBy \in [Transfer -> Wallet \cup {"nobody", "callback", "stranger"}]
    /\ clock \in [Transfer -> FRESH .. REFUND_OPEN]
    /\ pool \in [Wallet -> Seq(Transaction)]
    /\ receipt \in [Process -> {"none", "ok", "failed"}]
    /\ script \in Script /\ pc \in PC
    /\ attempt \in 1..MaxRetries
    /\ used \in 0..MaxTransfers /\ cur \in 0..used
    /\ results \in Results /\ left \in Nat /\ runNumber \in Nat
    /\ file \in [torn : BOOLEAN, content : Results]
    /\ state \in [status : {"none", "torn", "locked", "claimed_cosmos", "completed"},
                  transfer : 0..MaxTransfers]
    /\ todo \in Seq([op : Operation, transfer : Transfer, checked : BOOLEAN, sent : BOOLEAN])
    /\ faults \in Nat

\* No script burns an escrow whose units were not minted: every claimBurn it sends,
\* however late it is mined and whoever else is at work, settles a transfer that was
\* claimed before.  (For htlc-quick-test.js the operator must follow its prompts.)
BurnsFollowMints ==
    \A h \in Transfer : source[h] = "CLAIMED" => destination[h] = "claimed"

Settled(h) == source[h] = "CLAIMED" /\ destination[h] = "claimed"

ReportIsTrue(r) ==
    r.success =>
        /\ destination[r.transfer] = "claimed"
        /\ r.mode # "callback-pending" => Settled(r.transfer)
        /\ r.mode = "manual-fallback" => burnedBy[r.transfer] = "source"
        /\ r.mode = "monitor" => burnedBy[r.transfer] = "monitor"

\* What the scripts report holds on the chains: a successful run was minted and
\* burned, a manual fallback by the user's own transaction, a demo by the monitor's;
\* a finished state file means a finished transfer; a refund test that ends without an
\* error cancelled the mint and got the escrow back.
ReportsAreTrue ==
    /\ \A i \in 1..Len(file.content.runs) : ReportIsTrue(file.content.runs[i])
    /\ state.status = "claimed_cosmos" => destination[state.transfer] = "claimed"
    /\ state.status = "completed" => Settled(state.transfer)
    /\ pc = "passed" => source[cur] = "REFUNDED" /\ destination[cur] = "refunded"

----------------------------------------------------------------------------
Awaiting(p) == \E w \in Wallet : \E i \in 1..Len(pool[w]) : pool[w][i].by = p

\* A script that does not wait for a block goes on; blocks are produced, and take what
\* was sent; time passes; an operator with expired escrows runs refund-locks.js (or
\* the refund command) until a node takes its transaction.  Nothing is assumed of
\* GMP, of monitors, or of nodes answering.
ClientFairness ==
    /\ WF_clientVars(~Idle /\ ~Awaiting("script") /\ ScriptAction)
    /\ \A w \in Wallet : WF_clientVars(Mine(w))
    /\ WF_clientVars(\E h \in Transfer : Tick(h))
    /\ SF_clientVars(RefundLocks \/ \E h \in Transfer : ReverseCommand("refundBurn", h))
    /\ WF_clientVars(~Awaiting("operator") /\ OperatorStep)
    /\ SF_clientVars(OperatorRefunds)

FairClientSpec == ClientSpec /\ ClientFairness

\* Every run of every script ends: no poll, retry or wait goes on for ever, though
\* the message polled for may never come.
EveryScriptEnds == ~Idle ~> Idle

\* No escrow is stranded, whatever failed, was lost or was killed, and though secrets
\* die with their process: it is burned or refunded in the end.
EveryEscrowEnds ==
    \A h \in Transfer : source[h] = "LOCKED" ~> source[h] \in {"CLAIMED", "REFUNDED"}
=============================================================================
