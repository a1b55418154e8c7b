-------------------------- MODULE ClientScriptsProofs --------------------------
(***************************************************************************)
(* That the scripts never burn ahead of a mint, report only what the chains   *)
(* hold and keep their records as EvaluationBatch says, for any number of     *)
(* transfers, retries, faults, kills and foreign burns, proved with TLAPS.    *)
(***************************************************************************)
EXTENDS ClientScripts, FiniteSetTheorems, SequenceTheorems, TLAPS

----------------------------------------------------------------------------
(* Where each script can be.                                                 *)

EvaluationPC == {"idle", "failed", "preflight", "lock", "locking", "relay", "verify", "claim",
    "claiming", "automatic", "called-back", "fallback", "burn", "burning", "burned", "saving",
    "resaving", "summary"}
RefundTestPC == {"idle", "failed", "passed", "lock", "locking", "relay", "expire",
    "refund-mint", "refunding-mint", "wait-timelock", "refund", "refunding"}
QuickPC == {"idle", "failed", "quick-lock", "quick-locking", "save-locked",
    "quick-claim-cosmos", "quick-claim", "quick-claiming", "save-claimed", "quick-claim-evm",
    "quick-burn", "quick-burning", "save-completed"}
ReversePC == {"idle", "failed", "reverse-lock", "reverse-locking", "reverse-relay",
    "reverse-claim", "reverse-claiming", "reverse-burn", "reverse-burning", "reverse-burned",
    "reverse-callback", "reverse-settled", "reverse-pending", "result"}
BountyPC == {"idle", "failed", "demo-lock", "demo-locking", "demo-relay", "demo-claim",
    "demo-claiming", "demo-monitor", "demo-burn", "demo-burning", "demo-burned", "result"}

InItsScript ==
    /\ script = "evaluation" => pc \in EvaluationPC
    /\ script = "refund-test" => pc \in RefundTestPC
    /\ script = "quick" => pc \in QuickPC
    /\ script = "reverse" => pc \in ReversePC
    /\ script = "bounty" => pc \in BountyPC

\* Where a script works on the transfer "cur".
Working == PC \ {"idle", "failed", "preflight", "saving", "resaving", "summary", "result"}

\* The bounds: of the transfers, and of what is left of a batch.
Counted ==
    /\ pc \in Working => cur \in Transfer
    /\ state.transfer <= used
    /\ state.status \notin {"none", "torn"} => state.transfer \in Transfer
    /\ pc = "preflight" => left >= 1 /\ used + left <= MaxStarts[script]
    /\ script = "evaluation" /\ pc \notin {"idle", "preflight", "summary"} =>
            left >= 1 /\ used + left - 1 <= MaxStarts[script]

TypeInv == ClientTypeOK /\ InItsScript /\ Counted

----------------------------------------------------------------------------
(* What a script at pc knows.                                                *)

\* The transaction a script waits for.
WaitsFor(at, w, op) ==
    \/ /\ at \in {"locking", "quick-locking", "reverse-locking", "demo-locking"}
       /\ w = "source" /\ op = "lockForBurn"
    \/ /\ at \in {"claiming", "quick-claiming", "reverse-claiming", "demo-claiming"}
       /\ w = "destination" /\ op = "claimMint"
    \/ /\ at \in {"burning", "quick-burning", "reverse-burning"}
       /\ w = "source" /\ op = "claimBurn"
    \/ at = "demo-burning" /\ w = "monitor" /\ op = "claimBurn"
    \/ at = "refunding-mint" /\ w = "destination" /\ op = "refundMint"
    \/ at = "refunding" /\ w = "source" /\ op = "refundBurn"

\* What a mined transaction leaves for good.
Took(op, h, w) ==
    /\ op = "claimMint" => destination[h] = "claimed"
    /\ op = "refundMint" => destination[h] = "refunded"
    /\ op = "claimBurn" => source[h] = "CLAIMED" /\ burnedBy[h] = w
    /\ op = "refundBurn" => source[h] = "REFUNDED"

\* A script waits for one transaction at a time, and its receipt is that one's.
OneAwaited ==
    \A w \in Wallet : \A i \in 1..Len(pool[w]) : pool[w][i].by = "script" =>
        /\ WaitsFor(pc, w, pool[w][i].op) /\ pool[w][i].transfer = cur
        /\ receipt["script"] = "none"
        /\ \A j \in 1..Len(pool[w]) : pool[w][j].by = "script" => j = i

ReceiptIsTrue ==
    receipt["script"] = "ok" =>
        \A w \in Wallet, op \in Operation : WaitsFor(pc, w, op) => Took(op, cur, w)

ClaimedAt == {"automatic", "called-back", "fallback", "burn", "burning", "burned",
    "save-claimed", "quick-claim-evm", "quick-burn", "quick-burning", "save-completed",
    "reverse-burn", "reverse-burning", "reverse-burned", "reverse-callback",
    "reverse-settled", "reverse-pending",
    "demo-monitor", "demo-burn", "demo-burning", "demo-burned"}
BurnedAt == {"called-back", "burned", "save-completed", "reverse-burned", "reverse-settled",
    "demo-burned"}
CancelledAt == {"wait-timelock", "refund", "refunding", "passed"}

PlaceIsTrue ==
    /\ pc \in ClaimedAt => destination[cur] = "claimed"
    /\ pc \in BurnedAt => source[cur] = "CLAIMED"
    /\ pc \in {"burned", "reverse-burned"} => burnedBy[cur] = "source"
    /\ pc = "demo-burned" => burnedBy[cur] = "monitor"
    /\ pc \in CancelledAt => destination[cur] = "refunded"
    /\ pc = "passed" => source[cur] = "REFUNDED"

\* Every claimBurn on its way, or still to be sent by the operator, follows a mint.
BurnsWait ==
    /\ \A w \in Wallet : \A i \in 1..Len(pool[w]) :
            pool[w][i].op = "claimBurn" => destination[pool[w][i].transfer] = "claimed"
    /\ \A i \in 1..Len(todo) : todo[i].op = "claimBurn" => destination[todo[i].transfer] = "claimed"

RecordIsTrue(r) ==
    /\ r.success => r.transfer \in Transfer
    /\ r.mode = "callback-pending" => r.success
    /\ ReportIsTrue(r)

RecordsAreTrue ==
    /\ \A i \in 1..Len(file.content.runs) : RecordIsTrue(file.content.runs[i])
    /\ \A i \in 1..Len(results.runs) : RecordIsTrue(results.runs[i])
    /\ state.status = "claimed_cosmos" => destination[state.transfer] = "claimed"
    /\ state.status = "completed" => Settled(state.transfer)

ScriptInv ==
    /\ OneAwaited /\ ReceiptIsTrue
    /\ PlaceIsTrue
    /\ BurnsWait /\ BurnsFollowMints
    /\ RecordsAreTrue

\* What a step has to keep.
Keeps == TypeInv' /\ (ScriptInv /\ OperatorFollowsPrompts => ScriptInv')

----------------------------------------------------------------------------
(* Transactions in the pools.                                                *)

Pools == [Wallet -> Seq(Transaction)]

LEMMA SentIn ==
    ASSUME pool \in Pools, NEW w \in Wallet, NEW op \in Operation, NEW h \in Transfer,
           NEW by \in Process \cup {"nobody"}, NEW q, q = Sent(w, op, h, by)
    PROVE  /\ q \in Pools
           /\ \A v \in Wallet \ {w} : q[v] = pool[v]
           /\ Len(q[w]) = Len(pool[w]) + 1
           /\ \A i \in 1..Len(pool[w]) : q[w][i] = pool[w][i]
           /\ LET tx == q[w][Len(pool[w]) + 1]
              IN tx.op = op /\ tx.transfer = h /\ tx.by = by
<1> DEFINE tx == [op |-> op, transfer |-> h, by |-> by]
<1>1. tx \in Transaction
  BY DEF Transaction
<1>2. pool[w] \in Seq(Transaction)
  BY DEF Pools
<1>3. q = [pool EXCEPT ![w] = Append(pool[w], tx)]
  BY DEF Sent
<1>4. q[w] = Append(pool[w], tx)
  BY <1>3 DEF Pools
<1> HIDE DEF tx
<1>5. /\ q[w] \in Seq(Transaction) /\ Len(q[w]) = Len(pool[w]) + 1
      /\ \A i \in 1..Len(pool[w]) : q[w][i] = pool[w][i]
      /\ q[w][Len(pool[w]) + 1] = tx
  <2> DEFINE s == pool[w]
  <2>1. s \in Seq(Transaction)
    BY <1>2
  <2> HIDE DEF s
  <2>2. /\ Append(s, tx) \in Seq(Transaction) /\ Len(Append(s, tx)) = Len(s) + 1
        /\ \A i \in 1..Len(s) : Append(s, tx)[i] = s[i]
        /\ Append(s, tx)[Len(s) + 1] = tx
    BY <1>1, <2>1
  <2> QED BY <1>4, <2>2 DEF s
<1>6. q \in Pools /\ \A v \in Wallet \ {w} : q[v] = pool[v]
  BY <1>3, <1>4, <1>5 DEF Pools
<1> QED BY <1>5, <1>6 DEF tx

LEMMA AbandonedIn ==
    ASSUME pool \in Pools, NEW p \in Process, NEW q, q = Abandoned(p)
    PROVE  /\ q \in Pools
           /\ \A w \in Wallet :
                /\ Len(q[w]) = Len(pool[w])
                /\ \A i \in 1..Len(pool[w]) :
                    /\ q[w][i].op = pool[w][i].op /\ q[w][i].transfer = pool[w][i].transfer
                    /\ q[w][i].by = IF pool[w][i].by = p THEN "nobody" ELSE pool[w][i].by
<1> DEFINE tx(w, i) == IF pool[w][i].by = p THEN [pool[w][i] EXCEPT !.by = "nobody"] ELSE pool[w][i]
<1>1. q = [w \in Wallet |-> [i \in 1..Len(pool[w]) |-> tx(w, i)]]
  BY DEF Abandoned
<1>2. ASSUME NEW w \in Wallet
      PROVE  /\ pool[w] \in Seq(Transaction) /\ Len(pool[w]) \in Nat
             /\ \A i \in 1..Len(pool[w]) : pool[w][i] \in Transaction
  BY DEF Pools
<1>3. ASSUME NEW w \in Wallet, NEW i \in 1..Len(pool[w])
      PROVE  /\ tx(w, i) \in Transaction
             /\ tx(w, i).op = pool[w][i].op /\ tx(w, i).transfer = pool[w][i].transfer
             /\ tx(w, i).by = IF pool[w][i].by = p THEN "nobody" ELSE pool[w][i].by
  <2>1. pool[w][i] \in Transaction
    BY <1>2
  <2> QED BY <2>1 DEF Transaction
<1> HIDE DEF tx
<1>4. ASSUME NEW w \in Wallet
      PROVE  /\ q[w] \in Seq(Transaction) /\ Len(q[w]) = Len(pool[w])
             /\ \A i \in 1..Len(pool[w]) : q[w][i] = tx(w, i)
  <2>1. q[w] = [i \in 1..Len(pool[w]) |-> tx(w, i)]
    BY <1>1
  <2> QED BY <1>2, <1>3, <2>1
<1>5. q \in Pools
  BY <1>1, <1>4 DEF Pools
<1> QED BY <1>3, <1>4, <1>5

Taken(w) == [pool EXCEPT ![w] = Tail(@)]

LEMMA MinedIn ==
    ASSUME pool \in Pools, NEW w \in Wallet, pool[w] # <<>>, pool' = Taken(w)
    PROVE  /\ pool' \in Pools /\ Head(pool[w]) = pool[w][1] /\ pool[w][1] \in Transaction
           /\ \A v \in Wallet \ {w} : pool'[v] = pool[v]
           /\ Len(pool[w]) >= 1 /\ Len(pool'[w]) = Len(pool[w]) - 1
           /\ \A i \in 1..Len(pool'[w]) : pool'[w][i] = pool[w][i + 1]
<1>1. pool[w] \in Seq(Transaction)
  BY DEF Pools
<1>2. pool'[w] = Tail(pool[w])
  BY DEF Pools, Taken
<1>3. /\ pool'[w] \in Seq(Transaction) /\ Head(pool[w]) = pool[w][1]
      /\ pool[w][1] \in Transaction /\ Len(pool[w]) >= 1 /\ Len(pool'[w]) = Len(pool[w]) - 1
      /\ \A i \in 1..Len(pool'[w]) : pool'[w][i] = pool[w][i + 1]
  <2> DEFINE s == pool[w]
  <2>1. s \in Seq(Transaction) /\ s # <<>>
    BY <1>1
  <2> HIDE DEF s
  <2>2. /\ Tail(s) \in Seq(Transaction) /\ Head(s) = s[1] /\ s[1] \in Transaction
        /\ Len(s) >= 1 /\ Len(Tail(s)) = Len(s) - 1
        /\ \A i \in 1..Len(Tail(s)) : Tail(s)[i] = s[i + 1]
    BY <2>1
  <2> QED BY <1>2, <2>2 DEF s
<1>4. pool' \in Pools /\ \A v \in Wallet \ {w} : pool'[v] = pool[v]
  BY <1>2, <1>3 DEF Pools, Taken
<1> QED BY <1>3, <1>4

----------------------------------------------------------------------------
(* The ways a script goes on, and where they lead.                           *)

SubmitEdge(from, w, op, to) ==
    \/ /\ w = "source" /\ op = "lockForBurn"
       /\ \/ from = "lock" /\ to = "locking"
          \/ from = "quick-lock" /\ to = "quick-locking"
          \/ from = "reverse-lock" /\ to = "reverse-locking"
          \/ from = "demo-lock" /\ to = "demo-locking"
    \/ /\ w = "destination" /\ op = "claimMint"
       /\ \/ from = "claim" /\ to = "claiming"
          \/ from = "quick-claim" /\ to = "quick-claiming"
          \/ from = "reverse-claim" /\ to = "reverse-claiming"
          \/ from = "demo-claim" /\ to = "demo-claiming"
    \/ /\ w = "source" /\ op = "claimBurn"
       /\ \/ from = "burn" /\ to = "burning"
          \/ from = "quick-burn" /\ to = "quick-burning"
          \/ from = "reverse-burn" /\ to = "reverse-burning"
    \/ w = "monitor" /\ op = "claimBurn" /\ from = "demo-burn" /\ to = "demo-burning"
    \/ w = "destination" /\ op = "refundMint" /\ from = "refund-mint" /\ to = "refunding-mint"
    \/ w = "source" /\ op = "refundBurn" /\ from = "refund" /\ to = "refunding"

AwaitEdge(at, to, from) ==
    \/ at = "locking" /\ to = "relay" /\ from = "lock"
    \/ at = "claiming" /\ to = "automatic" /\ from = "claim"
    \/ at = "burning" /\ to = "burned" /\ from = "burn"
    \/ at = "refunding-mint" /\ to = "wait-timelock" /\ from = "refund-mint"
    \/ at = "refunding" /\ to = "passed" /\ from = "refund"
    \/ at = "quick-locking" /\ to = "save-locked" /\ from = "quick-lock"
    \/ at = "quick-claiming" /\ to = "save-claimed" /\ from = "quick-claim"
    \/ at = "quick-burning" /\ to = "save-completed" /\ from = "quick-burn"
    \/ at = "reverse-locking" /\ to = "reverse-relay" /\ from = "reverse-lock"
    \/ at = "reverse-claiming" /\ to \in {"reverse-burn", "reverse-callback"}
                               /\ from = "reverse-claim"
    \/ at = "reverse-burning" /\ to = "reverse-burned" /\ from = "reverse-burn"
    \/ at = "demo-locking" /\ to = "demo-relay" /\ from = "demo-lock"
    \/ at = "demo-claiming" /\ to = "demo-monitor" /\ from = "demo-claim"
    \/ at = "demo-burning" /\ to = "demo-burned" /\ from = "demo-burn"

\* A read, a poll or a sleep decided where to.
GotoEdge(at, to) ==
    \/ at = "relay" /\ to = (IF script = "evaluation" THEN "verify" ELSE "expire")
    \/ at \in {"relay", "verify", "automatic", "fallback", "reverse-relay", "reverse-callback",
               "demo-relay", "demo-monitor", "reverse-burned", "reverse-settled",
               "reverse-pending", "demo-burned"} /\ to = "failed"
    \/ at = "verify" /\ to = "claim"
    \/ at = "automatic" /\ (to = "called-back" => source[cur] = "CLAIMED")
                        /\ to \in {"called-back", "fallback"}
    \/ at = "fallback" /\ to = "burn"
    \/ at = "expire" /\ to = "refund-mint"
    \/ at = "wait-timelock" /\ to = "refund"
    \/ at = "failed" /\ to = "idle" /\ script # "evaluation"
    \/ at = "quick-claim-cosmos" /\ to \in {"quick-claim", "idle"}
    \/ at = "quick-claim-evm" /\ to \in {"quick-burn", "idle"}
    \/ at = "reverse-relay" /\ to = "reverse-claim"
    \/ at = "reverse-callback" /\ (to = "reverse-settled" => source[cur] = "CLAIMED")
                               /\ to \in {"reverse-settled", "reverse-pending"}
    \/ at = "demo-relay" /\ to = "demo-claim"
    \/ at = "demo-monitor" /\ to = "demo-burn"

Waiting(at) == \E w \in Wallet, op \in Operation : WaitsFor(at, w, op)

NoneAwaited == \A w \in Wallet : \A i \in 1..Len(pool[w]) : pool[w][i].by # "script"

LEMMA PoolTypes ==
    ASSUME ClientTypeOK
    PROVE  /\ pool \in Pools
           /\ \A w \in Wallet : Len(pool[w]) \in Nat /\ \A i \in 1..Len(pool[w]) :
                /\ pool[w][i] \in Transaction /\ pool[w][i].op \in Operation
                /\ pool[w][i].transfer \in Transfer
                /\ pool[w][i].by \in Process \cup {"nobody"}
<1>1. pool \in Pools
  BY DEF ClientTypeOK, Pools
<1>2. ASSUME NEW w \in Wallet
      PROVE  Len(pool[w]) \in Nat /\ \A i \in 1..Len(pool[w]) : pool[w][i] \in Transaction
  BY <1>1 DEF Pools
<1> QED BY <1>1, <1>2 DEF Transaction

LEMMA NoneUnlessWaiting ==
    ASSUME ClientTypeOK, OneAwaited, ~Waiting(pc) \/ receipt["script"] # "none"
    PROVE  NoneAwaited
  BY PoolTypes DEF OneAwaited, NoneAwaited, Waiting

\* A script that sends nothing and waits for nothing knows no less.
LEMMA QuietMove ==
    ASSUME ClientTypeOK, OneAwaited, UNCHANGED <<pool, receipt>>, ~Waiting(pc), ~Waiting(pc')
    PROVE  OneAwaited' /\ ReceiptIsTrue'
<1>1. NoneAwaited
  BY NoneUnlessWaiting
<1>2. OneAwaited'
  BY <1>1 DEF NoneAwaited, OneAwaited
<1>3. ReceiptIsTrue'
  BY DEF ReceiptIsTrue, Waiting
<1> QED BY <1>2, <1>3

LEMMA QuietPlaces ==
    ASSUME NEW at
    PROVE  Waiting(at) <=> at \in {"locking", "quick-locking", "reverse-locking", "demo-locking",
                "claiming", "quick-claiming", "reverse-claiming", "demo-claiming",
                "burning", "quick-burning", "reverse-burning", "demo-burning",
                "refunding-mint", "refunding"}
  BY DEF Waiting, WaitsFor, Wallet, Operation

----------------------------------------------------------------------------
LEMMA RetryGoes ==
    ASSUME ClientTypeOK, NEW from, NEW retried \in BOOLEAN, Retry(from, retried)
    PROVE  pc' \in {from, "failed"} /\ attempt' \in 1..MaxRetries
<1>1. attempt \in 1..MaxRetries /\ MaxRetries \in Nat \ {0}
  BY ClientAssumption DEF ClientTypeOK
<1> QED BY <1>1 DEF Retry

LEMMA SubmitKeeps ==
    ASSUME TypeInv, NEW from, NEW w, NEW op, NEW to, NEW retried \in BOOLEAN,
           SubmitEdge(from, w, op, to), Submit(from, w, op, cur, to, retried)
    PROVE  Keeps
<1>t. ClientTypeOK /\ pool \in Pools
  BY PoolTypes DEF TypeInv
<1>1. /\ pc = from /\ pc' \in {from, to, "failed"}
      /\ attempt' \in 1..MaxRetries
      /\ UNCHANGED <<chainVars, script, memoryVars, diskVars, todo>>
      /\ receipt' = [receipt EXCEPT !["script"] = "none"]
      /\ \/ pc' = to /\ pool' = Sent(w, op, cur, "script")
         \/ pc' # to /\ pool' = Sent(w, op, cur, "nobody")
         \/ pc' # to /\ pool' = pool
      /\ faults' \in Nat
  <2>1. CASE pool' = Sent(w, op, cur, "script") /\ pc' = to /\ UNCHANGED <<attempt, faults>>
    BY <1>t, <2>1 DEF Submit, ClientTypeOK
  <2>2. CASE Undelivered(w, op, cur) /\ Retry(from, retried)
    <3>1. pc' \in {from, "failed"} /\ attempt' \in 1..MaxRetries
      BY <1>t, <2>2, RetryGoes
    <3>2. from # to /\ to # "failed"
      BY DEF SubmitEdge
    <3> QED BY <1>t, <2>2, <3>1, <3>2 DEF Submit, Undelivered, Fault, ClientTypeOK
  <2> QED BY <2>1, <2>2 DEF Submit
<1>2. /\ cur \in Transfer /\ w \in Wallet /\ op \in Operation
      /\ ~Waiting(from) /\ WaitsFor(to, w, op)
  <2>1. from \in Working
    BY DEF SubmitEdge, Working, PC
  <2>2. cur \in Transfer
    BY <1>1, <2>1 DEF TypeInv, Counted
  <2> QED BY <2>2, QuietPlaces DEF SubmitEdge, WaitsFor, Wallet, Operation
<1>3. receipt' \in [Process -> {"none", "ok", "failed"}] /\ receipt'["script"] = "none"
  BY <1>t, <1>1 DEF ClientTypeOK, Process
<1>4. /\ pool' \in Pools
      /\ \A v \in Wallet : \A i \in 1..Len(pool'[v]) :
            \/ i \in 1..Len(pool[v]) /\ pool'[v][i] = pool[v][i]
            \/ /\ v = w /\ i = Len(pool[w]) + 1 /\ pool'[v][i].op = op
               /\ pool'[v][i].transfer = cur
               /\ pc' # to => pool'[v][i].by = "nobody"
  <2>1. Len(pool[w]) \in Nat
    BY <1>t, <1>2, PoolTypes
  <2>2. ASSUME NEW by \in Process \cup {"nobody"}, pool' = Sent(w, op, cur, by),
               pc' # to => by = "nobody"
        PROVE  /\ pool' \in Pools
               /\ \A v \in Wallet : \A i \in 1..Len(pool'[v]) :
                    \/ i \in 1..Len(pool[v]) /\ pool'[v][i] = pool[v][i]
                    \/ /\ v = w /\ i = Len(pool[w]) + 1 /\ pool'[v][i].op = op
                       /\ pool'[v][i].transfer = cur
                       /\ pc' # to => pool'[v][i].by = "nobody"
    <3>1. /\ pool' \in Pools
          /\ \A v \in Wallet \ {w} : pool'[v] = pool[v]
          /\ Len(pool'[w]) = Len(pool[w]) + 1
          /\ \A i \in 1..Len(pool[w]) : pool'[w][i] = pool[w][i]
          /\ LET tx == pool'[w][Len(pool[w]) + 1]
             IN tx.op = op /\ tx.transfer = cur /\ tx.by = by
      BY <1>t, <1>2, <2>2, SentIn
    <3> QED BY <2>1, <2>2, <3>1
  <2> QED BY <1>1, <1>t, <2>2 DEF Process
<1>5. TypeInv'
  <2>1. ClientTypeOK'
    <3>1. pc' \in PC
      BY <1>1 DEF SubmitEdge, PC
    <3> QED BY <1>t, <1>1, <1>3, <1>4, <3>1
        DEF ClientTypeOK, Pools, chainVars, memoryVars, diskVars
  <2>2. InItsScript'
    BY <1>1 DEF TypeInv, InItsScript, SubmitEdge, EvaluationPC, RefundTestPC, QuickPC, ReversePC,
                BountyPC
  <2>3. Counted'
    BY <1>1 DEF TypeInv, Counted, SubmitEdge, Working, PC, memoryVars, diskVars
  <2> QED BY <2>1, <2>2, <2>3 DEF TypeInv
<1>6. ASSUME ScriptInv PROVE ScriptInv'
  <2>1. NoneAwaited
    BY <1>t, <1>1, <1>2, <1>6, NoneUnlessWaiting DEF ScriptInv
  <2>2. OneAwaited'
    <3> SUFFICES ASSUME NEW v \in Wallet, NEW i \in 1..Len(pool'[v]), pool'[v][i].by = "script"
                 PROVE  /\ WaitsFor(pc', v, pool'[v][i].op) /\ pool'[v][i].transfer = cur'
                        /\ receipt'["script"] = "none"
                        /\ \A j \in 1..Len(pool'[v]) : pool'[v][j].by = "script" => j = i
      BY DEF OneAwaited
    <3>1. v = w /\ i = Len(pool[w]) + 1 /\ pool'[v][i].op = op /\ pool'[v][i].transfer = cur
          /\ pc' = to
      BY <1>4, <2>1 DEF NoneAwaited
    <3>2. \A j \in 1..Len(pool'[v]) : pool'[v][j].by = "script" => j = i
      BY <1>4, <2>1, <3>1 DEF NoneAwaited
    <3> QED BY <1>1, <1>2, <1>3, <3>1, <3>2 DEF memoryVars
  <2>3. ReceiptIsTrue'
    BY <1>3 DEF ReceiptIsTrue
  <2>4. PlaceIsTrue'
    BY <1>1, <1>6 DEF ScriptInv, PlaceIsTrue, SubmitEdge, ClaimedAt, BurnedAt, CancelledAt,
       chainVars, memoryVars
  <2>5. BurnsWait'
    <3>1. op = "claimBurn" => destination[cur] = "claimed"
      BY <1>1, <1>6 DEF ScriptInv, PlaceIsTrue, SubmitEdge, ClaimedAt
    <3> QED BY <1>1, <1>4, <1>6, <3>1 DEF ScriptInv, BurnsWait, chainVars
  <2>6. BurnsFollowMints' /\ RecordsAreTrue'
    BY <1>1, <1>6 DEF ScriptInv, BurnsFollowMints, RecordsAreTrue, RecordIsTrue, ReportIsTrue,
       Settled, chainVars, memoryVars, diskVars
  <2> QED BY <2>2, <2>3, <2>4, <2>5, <2>6 DEF ScriptInv
<1> QED BY <1>5, <1>6 DEF Keeps

LEMMA AwaitKeeps ==
    ASSUME TypeInv, NEW at, NEW to, NEW from, NEW retried \in BOOLEAN,
           AwaitEdge(at, to, from), Await(at, to, from, retried)
    PROVE  Keeps
<1>t. ClientTypeOK /\ pool \in Pools
  BY PoolTypes DEF TypeInv
<1>1. /\ pc = at /\ pc' \in {from, to, "failed"}
      /\ attempt' \in 1..MaxRetries /\ faults' \in Nat
      /\ UNCHANGED <<chainVars, script, memoryVars, diskVars, todo>>
      /\ receipt' = [receipt EXCEPT !["script"] = "none"]
      /\ \/ pc' = to /\ receipt["script"] = "ok" /\ pool' = pool
         \/ pc' # to /\ receipt["script"] = "failed" /\ pool' = pool
         \/ pc' # to /\ pool' = Abandoned("script")
  <2>1. from # to /\ to # "failed"
    BY DEF AwaitEdge
  <2>2. CASE receipt["script"] = "ok" /\ pc' = to /\ attempt' = 1 /\ UNCHANGED <<pool, faults>>
    BY <1>t, <2>2, ClientAssumption DEF Await, ClientTypeOK
  <2>3. CASE receipt["script"] = "failed" /\ Retry(from, retried) /\ UNCHANGED <<pool, faults>>
    BY <1>t, <2>1, <2>3, RetryGoes DEF Await, ClientTypeOK
  <2>4. CASE WaitFails("script") /\ Retry(from, retried)
    BY <1>t, <2>1, <2>4, RetryGoes DEF Await, ClientTypeOK, WaitFails, Fault
  <2> QED BY <2>2, <2>3, <2>4 DEF Await
<1>2. receipt' \in [Process -> {"none", "ok", "failed"}] /\ receipt'["script"] = "none"
  BY <1>t, <1>1 DEF ClientTypeOK, Process
<1>3. /\ pool' \in Pools
      /\ \A w \in Wallet :
            /\ Len(pool'[w]) = Len(pool[w])
            /\ \A i \in 1..Len(pool[w]) :
                /\ pool'[w][i].op = pool[w][i].op
                /\ pool'[w][i].transfer = pool[w][i].transfer
                /\ \/ pool'[w][i].by = pool[w][i].by /\ pool' = pool
                   \/ pool'[w][i].by # "script"
  <2>1. CASE pool' = Abandoned("script")
    <3>1. /\ pool' \in Pools
          /\ \A w \in Wallet :
                /\ Len(pool'[w]) = Len(pool[w])
                /\ \A i \in 1..Len(pool[w]) :
                    /\ pool'[w][i].op = pool[w][i].op
                    /\ pool'[w][i].transfer = pool[w][i].transfer
                    /\ pool'[w][i].by = IF pool[w][i].by = "script" THEN "nobody"
                                        ELSE pool[w][i].by
      BY <1>t, <2>1, AbandonedIn DEF Process
    <3> QED BY <3>1
  <2> QED BY <1>t, <1>1, <2>1
<1>4. TypeInv'
  <2>1. ClientTypeOK'
    <3>1. pc' \in PC
      BY <1>1 DEF AwaitEdge, PC
    <3> QED BY <1>t, <1>1, <1>2, <1>3, <3>1
        DEF ClientTypeOK, Pools, chainVars, memoryVars, diskVars
  <2>2. InItsScript'
    BY <1>1 DEF TypeInv, InItsScript, AwaitEdge, EvaluationPC, RefundTestPC, QuickPC, ReversePC,
                BountyPC
  <2>3. Counted'
    BY <1>1 DEF TypeInv, Counted, AwaitEdge, Working, PC, memoryVars, diskVars
  <2> QED BY <2>1, <2>2, <2>3 DEF TypeInv
<1>5. ASSUME ScriptInv PROVE ScriptInv'
  <2>1. NoneAwaited'
    <3>1. CASE pool' = pool /\ receipt["script"] # "none"
      BY <1>t, <1>5, <3>1, NoneUnlessWaiting DEF ScriptInv, NoneAwaited
    <3>2. CASE pool' = Abandoned("script")
      <4>1. \A w \in Wallet : Len(pool'[w]) = Len(pool[w]) /\ \A i \in 1..Len(pool[w]) :
                pool'[w][i].by = IF pool[w][i].by = "script" THEN "nobody" ELSE pool[w][i].by
        BY <1>t, <3>2, AbandonedIn DEF Process
      <4> QED BY <4>1 DEF NoneAwaited
    <3> QED BY <1>1, <3>1, <3>2
  <2>2. OneAwaited'
    BY <2>1 DEF NoneAwaited, OneAwaited
  <2>3. ReceiptIsTrue'
    BY <1>2 DEF ReceiptIsTrue
  <2>4. PlaceIsTrue'
    <3>1. CASE pc' # to
      BY <1>1, <1>5, <3>1 DEF ScriptInv, PlaceIsTrue, AwaitEdge, ClaimedAt, BurnedAt,
         CancelledAt, chainVars, memoryVars
    <3>2. CASE pc' = to
      <4>1. receipt["script"] = "ok"
        BY <1>1, <3>2
      <4>2. \A w \in Wallet, op \in Operation : WaitsFor(at, w, op) => Took(op, cur, w)
        BY <1>1, <1>5, <4>1 DEF ScriptInv, ReceiptIsTrue
      <4>3. /\ WaitsFor(at, "source", "claimBurn") => Took("claimBurn", cur, "source")
            /\ WaitsFor(at, "monitor", "claimBurn") => Took("claimBurn", cur, "monitor")
            /\ WaitsFor(at, "destination", "claimMint") => Took("claimMint", cur, "destination")
            /\ WaitsFor(at, "destination", "refundMint") => Took("refundMint", cur, "destination")
            /\ WaitsFor(at, "source", "refundBurn") => Took("refundBurn", cur, "source")
        BY <4>2 DEF Wallet, Operation
      <4>4. /\ pc \in ClaimedAt => destination[cur] = "claimed"
            /\ pc \in CancelledAt => destination[cur] = "refunded"
        BY <1>5 DEF ScriptInv, PlaceIsTrue
      <4> QED BY <1>1, <3>2, <4>3, <4>4 DEF PlaceIsTrue, AwaitEdge, WaitsFor, Took, ClaimedAt,
              BurnedAt, CancelledAt, chainVars, memoryVars
    <3> QED BY <3>1, <3>2
  <2>5. BurnsWait'
    BY <1>1, <1>3, <1>5 DEF ScriptInv, BurnsWait, chainVars
  <2>6. BurnsFollowMints' /\ RecordsAreTrue'
    BY <1>1, <1>5 DEF ScriptInv, BurnsFollowMints, RecordsAreTrue, RecordIsTrue, ReportIsTrue,
       Settled, chainVars, memoryVars, diskVars
  <2> QED BY <2>2, <2>3, <2>4, <2>5, <2>6 DEF ScriptInv
<1> QED BY <1>4, <1>5 DEF Keeps

\* A script that goes on in memory, or on disk.
LEMMA QuietKeeps ==
    ASSUME ClientTypeOK, ScriptInv, UNCHANGED <<chainVars, netVars, todo>>,
           ~Waiting(pc), ~Waiting(pc'), PlaceIsTrue', RecordsAreTrue'
    PROVE  ScriptInv'
<1>1. UNCHANGED <<source, destination, burnedBy, pool, receipt, todo>>
  BY DEF chainVars, netVars
<1>2. OneAwaited' /\ ReceiptIsTrue'
  BY <1>1, QuietMove DEF ScriptInv
<1>3. BurnsWait' /\ BurnsFollowMints'
  BY <1>1 DEF ScriptInv, BurnsWait, BurnsFollowMints
<1> QED BY <1>2, <1>3 DEF ScriptInv

LEMMA GotoKeeps ==
    ASSUME TypeInv, NEW at, NEW to, GotoEdge(at, to), Goto(at, to)
    PROVE  Keeps
<1>1. pc = at /\ pc' = to
      /\ UNCHANGED <<chainVars, netVars, script, attempt, memoryVars, diskVars, todo, faults>>
  BY DEF Goto
<1>2. UNCHANGED <<source, destination, burnedBy, clock, pool, receipt, script, attempt, cur, used,
                  results, left, runNumber, file, state, todo, faults>>
  BY <1>1 DEF chainVars, netVars, memoryVars, diskVars
<1>3. TypeInv'
  <2>1. ClientTypeOK'
    <3>1. pc' \in PC
      BY <1>1 DEF GotoEdge, PC
    <3> QED BY <1>2, <3>1 DEF TypeInv, ClientTypeOK
  <2>2. InItsScript'
    BY <1>1, <1>2 DEF TypeInv, ClientTypeOK, Script, InItsScript, GotoEdge, EvaluationPC, RefundTestPC,
       QuickPC, ReversePC, BountyPC
  <2>3. Counted'
    BY <1>1, <1>2 DEF TypeInv, InItsScript, Counted, GotoEdge, Working, PC, EvaluationPC
  <2> QED BY <2>1, <2>2, <2>3 DEF TypeInv
<1>4. ASSUME ScriptInv PROVE ScriptInv'
  <2>1. ~Waiting(pc) /\ ~Waiting(pc')
    BY <1>1, QuietPlaces DEF GotoEdge
  <2>2. PlaceIsTrue'
    BY <1>1, <1>2, <1>4 DEF ScriptInv, PlaceIsTrue, GotoEdge, ClaimedAt, BurnedAt, CancelledAt
  <2>3. RecordsAreTrue'
    BY <1>2, <1>4 DEF ScriptInv, RecordsAreTrue, RecordIsTrue, ReportIsTrue, Settled
  <2> QED BY <1>1, <1>4, <2>1, <2>2, <2>3, QuietKeeps DEF TypeInv
<1> QED BY <1>3, <1>4 DEF Keeps

StartEdge(to) ==
    \/ script = "refund-test" /\ to = "lock"
    \/ script = "quick" /\ to = "quick-lock"
    \/ script = "reverse" /\ to = "reverse-lock"
    \/ script = "bounty" /\ to = "demo-lock"

LEMMA StartKeeps ==
    ASSUME TypeInv, NEW to, StartEdge(to), StartFresh(to)
    PROVE  Keeps
<1>1. /\ pc \in {"idle", "passed"} /\ pc' = to /\ used' = used + 1 /\ cur' = used + 1
      /\ used < MaxStarts[script]
      /\ UNCHANGED <<chainVars, netVars, todo>>
      /\ UNCHANGED <<source, destination, burnedBy, clock, pool, receipt, script, attempt,
                     results, left, runNumber, file, state, todo, faults>>
  BY DEF StartFresh, Idle, chainVars, netVars, diskVars
<1>2. /\ used \in Nat /\ used + 1 <= MaxTransfers /\ MaxTransfers \in Nat
  BY <1>1, ClientAssumption DEF TypeInv, ClientTypeOK
<1>3. TypeInv'
  <2>1. ClientTypeOK'
    <3>1. pc' \in PC
      BY <1>1 DEF StartEdge, PC
    <3> QED BY <1>1, <1>2, <3>1 DEF TypeInv, ClientTypeOK
  <2>2. InItsScript'
    BY <1>1 DEF StartEdge, InItsScript, RefundTestPC, QuickPC, ReversePC, BountyPC
  <2>3. Counted'
    <3>1. state.transfer <= used' /\ cur' \in Transfer
      <4>1. state.transfer \in Nat
        BY DEF TypeInv, ClientTypeOK
      <4> QED BY <1>1, <1>2, <4>1 DEF TypeInv, Counted, Transfer
    <3> QED BY <1>1, <3>1 DEF TypeInv, Counted, StartEdge
  <2> QED BY <2>1, <2>2, <2>3 DEF TypeInv
<1>4. ASSUME ScriptInv PROVE ScriptInv'
  <2>1. ~Waiting(pc) /\ ~Waiting(pc')
    BY <1>1, QuietPlaces DEF StartEdge
  <2>2. PlaceIsTrue'
    BY <1>1 DEF PlaceIsTrue, StartEdge, ClaimedAt, BurnedAt, CancelledAt
  <2>3. RecordsAreTrue'
    BY <1>1, <1>4 DEF ScriptInv, RecordsAreTrue, RecordIsTrue, ReportIsTrue, Settled
  <2> QED BY <1>1, <1>4, <2>1, <2>2, <2>3, QuietKeeps DEF TypeInv
<1> QED BY <1>3, <1>4 DEF Keeps

LEMMA ResumeKeeps ==
    ASSUME TypeInv, NEW to \in {"quick-claim-cosmos", "quick-claim-evm"}, HasState, StartOn(to),
           to = "quick-claim-evm" /\ OperatorFollowsPrompts => state.status = "claimed_cosmos"
    PROVE  Keeps
<1>1. /\ pc \in {"idle", "passed"} /\ pc' = to /\ cur' = state.transfer
      /\ script = "quick" /\ state.status \notin {"none", "torn"}
      /\ UNCHANGED <<chainVars, netVars, todo>>
      /\ UNCHANGED <<source, destination, burnedBy, clock, pool, receipt, script, attempt, used,
                     results, left, runNumber, file, state, todo, faults>>
  BY DEF StartOn, HasState, Idle, chainVars, netVars, diskVars
<1>2. state.transfer \in Transfer /\ state.transfer \in 0..used /\ used \in Nat
  BY <1>1 DEF TypeInv, ClientTypeOK, Counted
<1>3. TypeInv'
  <2>1. ClientTypeOK'
    BY <1>1, <1>2 DEF TypeInv, ClientTypeOK, PC
  <2>2. InItsScript'
    BY <1>1 DEF InItsScript, QuickPC
  <2>3. Counted'
    BY <1>1, <1>2 DEF TypeInv, Counted
  <2> QED BY <2>1, <2>2, <2>3 DEF TypeInv
<1>4. ASSUME ScriptInv, OperatorFollowsPrompts PROVE ScriptInv'
  <2>1. ~Waiting(pc) /\ ~Waiting(pc')
    BY <1>1, QuietPlaces
  <2>2. PlaceIsTrue'
    BY <1>1, <1>4 DEF ScriptInv, RecordsAreTrue, PlaceIsTrue, ClaimedAt, BurnedAt, CancelledAt
  <2>3. RecordsAreTrue'
    BY <1>1, <1>4 DEF ScriptInv, RecordsAreTrue, RecordIsTrue, ReportIsTrue, Settled
  <2> QED BY <1>1, <1>4, <2>1, <2>2, <2>3, QuietKeeps DEF TypeInv
<1> QED BY <1>3, <1>4 DEF Keeps

WriteStateEdge(at, status) ==
    \/ at = "save-locked" /\ status = "locked"
    \/ at = "save-claimed" /\ status = "claimed_cosmos"
    \/ at = "save-completed" /\ status = "completed"

LEMMA WriteStateKeeps ==
    ASSUME TypeInv, NEW at, NEW status, WriteStateEdge(at, status), WriteState(at, status)
    PROVE  Keeps
<1>1. /\ pc = at /\ pc' = "idle" /\ state' = [status |-> status, transfer |-> cur]
      /\ UNCHANGED <<chainVars, netVars, todo>>
      /\ UNCHANGED <<source, destination, burnedBy, clock, pool, receipt, script, attempt, used, cur,
                     results, left, runNumber, file, todo, faults>>
  BY DEF WriteState, chainVars, netVars, memoryVars
<1>2. cur \in Transfer /\ cur \in 0..used /\ used \in 0..MaxTransfers /\ MaxTransfers \in Nat
  <2>1. pc \in Working
    BY <1>1 DEF WriteStateEdge, Working, PC
  <2> QED BY <2>1, ClientAssumption DEF TypeInv, ClientTypeOK, Counted
<1>3. TypeInv'
  <2>1. ClientTypeOK'
    <3>1. state' \in [status : {"none", "torn", "locked", "claimed_cosmos", "completed"},
                      transfer : 0..MaxTransfers]
      BY <1>1, <1>2 DEF WriteStateEdge
    <3> QED BY <1>1, <3>1 DEF TypeInv, ClientTypeOK, PC
  <2>2. InItsScript'
    BY <1>1 DEF InItsScript, EvaluationPC, RefundTestPC, QuickPC, ReversePC, BountyPC
  <2>3. Counted'
    BY <1>1, <1>2 DEF Counted, Working
  <2> QED BY <2>1, <2>2, <2>3 DEF TypeInv
<1>4. ASSUME ScriptInv PROVE ScriptInv'
  <2>1. ~Waiting(pc) /\ ~Waiting(pc')
    BY <1>1, QuietPlaces DEF WriteStateEdge
  <2>2. PlaceIsTrue'
    BY <1>1 DEF PlaceIsTrue, ClaimedAt, BurnedAt, CancelledAt
  <2>3. RecordsAreTrue'
    <3>1. /\ status = "claimed_cosmos" => destination[cur] = "claimed"
          /\ status = "completed" => Settled(cur)
      BY <1>1, <1>4 DEF ScriptInv, PlaceIsTrue, WriteStateEdge, ClaimedAt, BurnedAt, Settled
    <3> QED BY <1>1, <1>4, <3>1 DEF ScriptInv, RecordsAreTrue, RecordIsTrue, ReportIsTrue, Settled
  <2> QED BY <1>1, <1>4, <2>1, <2>2, <2>3, QuietKeeps DEF TypeInv
<1> QED BY <1>3, <1>4 DEF Keeps

----------------------------------------------------------------------------
(* Records.                                                                  *)

\* A list with one more record.
LEMMA PushIn ==
    ASSUME NEW list \in Results, NEW r \in Record, NEW new,
           new = [list EXCEPT !.runs = Append(@, r)]
    PROVE  /\ new \in Results
           /\ Len(list.runs) \in Nat
           /\ Len(new.runs) = Len(list.runs) + 1 /\ new.runs[Len(list.runs) + 1] = r
           /\ \A i \in 1..Len(list.runs) : new.runs[i] = list.runs[i]
<1> DEFINE runs == list.runs
<1>1. runs \in Seq(Record) /\ new = [list EXCEPT !.runs = Append(runs, r)]
  BY DEF Results
<1> HIDE DEF runs
<1>2. /\ Append(runs, r) \in Seq(Record) /\ Len(Append(runs, r)) = Len(runs) + 1
      /\ Append(runs, r)[Len(runs) + 1] = r /\ Len(runs) \in Nat
      /\ \A i \in 1..Len(runs) : Append(runs, r)[i] = runs[i]
  BY <1>1
<1>3. new.runs = Append(runs, r) /\ new \in Results
  BY <1>1, <1>2 DEF Results
<1> QED BY <1>2, <1>3 DEF runs

LEMMA PushedAreTrue ==
    ASSUME NEW list \in Results, NEW r \in Record, NEW new,
           new = [list EXCEPT !.runs = Append(@, r)],
           \A i \in 1..Len(list.runs) : RecordIsTrue(list.runs[i]), RecordIsTrue(r)
    PROVE  new \in Results /\ \A i \in 1..Len(new.runs) : RecordIsTrue(new.runs[i])
<1>1. /\ new \in Results /\ Len(list.runs) \in Nat
      /\ Len(new.runs) = Len(list.runs) + 1 /\ new.runs[Len(list.runs) + 1] = r
      /\ \A i \in 1..Len(list.runs) : new.runs[i] = list.runs[i]
  BY PushIn
<1>2. ASSUME NEW i \in 1..Len(new.runs) PROVE RecordIsTrue(new.runs[i])
  <2>1. CASE i = Len(list.runs) + 1
    BY <1>1, <2>1
  <2>2. CASE i \in 1..Len(list.runs)
    BY <1>1, <2>2
  <2> QED BY <1>1, <2>1, <2>2
<1> QED BY <1>1, <1>2

\* What was true of the chains stays true while they do not move.
LEMMA RecordsStay ==
    ASSUME UNCHANGED <<source, destination, burnedBy>>,
           \A i \in 1..Len(file'.content.runs) : RecordIsTrue(file'.content.runs[i]),
           \A i \in 1..Len(results'.runs) : RecordIsTrue(results'.runs[i]),
           state'.status = "claimed_cosmos" => destination[state'.transfer] = "claimed",
           state'.status = "completed" => Settled(state'.transfer)
    PROVE  RecordsAreTrue'
<1>1. \A i \in 1..Len(file'.content.runs) : RecordIsTrue(file.content.runs[i])'
  BY DEF RecordIsTrue, ReportIsTrue, Settled
<1>2. \A i \in 1..Len(results'.runs) : RecordIsTrue(results.runs[i])'
  BY DEF RecordIsTrue, ReportIsTrue, Settled
<1> QED BY <1>1, <1>2 DEF RecordsAreTrue, Settled

LEMMA NothingIsRecorded == NoResults \in Results /\ Len(NoResults.runs) = 0
<1>1. <<>> \in Seq(Record)
  OBVIOUS
<1> QED BY <1>1 DEF NoResults, Results, NoSummary, Summary

KeepRunEdge(at, success, mode) ==
    \/ at = "called-back" /\ success = TRUE /\ mode = "automatic-callback"
    \/ at = "burned" /\ success = TRUE /\ mode = "manual-fallback"
    \/ at = "failed" /\ success = FALSE /\ mode = "none" /\ script = "evaluation"

LEMMA KeepRunKeeps ==
    ASSUME TypeInv, NEW at, NEW success \in BOOLEAN, NEW mode, KeepRunEdge(at, success, mode),
           KeepRun(at, success, mode, cur)
    PROVE  Keeps
<1> DEFINE r == [run_number |-> runNumber, success |-> success, lock |-> success,
                 mode |-> mode, transfer |-> cur]
<1>1. /\ pc = at /\ pc' = "saving"
      /\ results' = [results EXCEPT !.runs = Append(@, r)]
      /\ UNCHANGED <<chainVars, netVars, todo>>
      /\ UNCHANGED <<source, destination, burnedBy, clock, pool, receipt, script, attempt, used, cur,
                     left, runNumber, file, state, todo, faults>>
  BY DEF KeepRun, Pushed, chainVars, netVars, diskVars
<1>2. results \in Results /\ cur \in 0..MaxTransfers /\ runNumber \in Nat
  BY ClientAssumption DEF TypeInv, ClientTypeOK
<1>3. r \in Record
  BY <1>2 DEF Record, Mode, KeepRunEdge
<1>4. /\ r.success = success /\ r.mode = mode /\ r.transfer = cur
  OBVIOUS
<1> HIDE DEF r
<1>5. /\ results' \in Results /\ Len(results.runs) \in Nat
      /\ Len(results'.runs) = Len(results.runs) + 1
      /\ results'.runs[Len(results.runs) + 1] = r
      /\ \A i \in 1..Len(results.runs) : results'.runs[i] = results.runs[i]
  BY <1>1, <1>2, <1>3, PushIn
<1>6. script = "evaluation"
  BY <1>1 DEF TypeInv, ClientTypeOK, Script, InItsScript, KeepRunEdge, RefundTestPC, QuickPC,
     ReversePC, BountyPC
<1>7. TypeInv'
  <2>1. ClientTypeOK'
    BY <1>1, <1>5 DEF TypeInv, ClientTypeOK, PC
  <2>2. InItsScript'
    BY <1>1, <1>6 DEF InItsScript, EvaluationPC
  <2>3. Counted'
    BY <1>1, <1>6 DEF TypeInv, Counted, Working, KeepRunEdge
  <2> QED BY <2>1, <2>2, <2>3 DEF TypeInv
<1>8. ASSUME ScriptInv PROVE ScriptInv'
  <2>1. ~Waiting(pc) /\ ~Waiting(pc')
    BY <1>1, QuietPlaces DEF KeepRunEdge
  <2>2. PlaceIsTrue'
    BY <1>1 DEF PlaceIsTrue, ClaimedAt, BurnedAt, CancelledAt
  <2>3. RecordIsTrue(r)
    <3>1. success => cur \in Transfer
      BY <1>1 DEF KeepRunEdge, TypeInv, Counted, Working, PC
    <3>2. success => Settled(cur) /\ (mode = "manual-fallback" => burnedBy[cur] = "source")
      BY <1>1, <1>8 DEF ScriptInv, PlaceIsTrue, KeepRunEdge, ClaimedAt, BurnedAt, Settled
    <3> QED BY <1>4, <3>1, <3>2 DEF RecordIsTrue, ReportIsTrue, Settled, KeepRunEdge
  <2>4. \A i \in 1..Len(results'.runs) : RecordIsTrue(results'.runs[i])
    BY <1>1, <1>2, <1>3, <1>8, <2>3, PushedAreTrue DEF ScriptInv, RecordsAreTrue
  <2>5. RecordsAreTrue'
    BY <1>1, <1>8, <2>4, RecordsStay DEF ScriptInv, RecordsAreTrue
  <2> QED BY <1>1, <1>8, <2>1, <2>2, <2>5, QuietKeeps DEF TypeInv
<1> QED BY <1>7, <1>8 DEF Keeps

LEMMA PreflightKeeps == ASSUME TypeInv, Preflight PROVE Keeps
<1> DEFINE r == [run_number |-> runNumber, success |-> FALSE, lock |-> FALSE,
                 mode |-> "none", transfer |-> 0]
<1>1. /\ pc = "preflight"
      /\ UNCHANGED <<chainVars, netVars, todo>>
      /\ UNCHANGED <<source, destination, burnedBy, clock, pool, receipt, script, attempt,
                     left, runNumber, file, state, todo, faults>>
      /\ \/ /\ pc' = "lock" /\ used' = used + 1 /\ cur' = used + 1 /\ UNCHANGED results
         \/ /\ pc' = "saving" /\ UNCHANGED <<cur, used>>
            /\ results' = [results EXCEPT !.runs = Append(@, r)]
  BY DEF Preflight, Pushed, chainVars, netVars, diskVars
<1>2. script = "evaluation"
  BY <1>1 DEF TypeInv, ClientTypeOK, Script, InItsScript, RefundTestPC, QuickPC, ReversePC,
     BountyPC
<1>3. /\ results \in Results /\ used \in Nat /\ left \in Nat /\ MaxTransfers \in Nat
      /\ runNumber \in Nat
      /\ left >= 1 /\ used + left <= MaxStarts[script] /\ MaxStarts[script] \in 0..MaxTransfers
  BY <1>1, ClientAssumption DEF TypeInv, ClientTypeOK, Counted
<1>4. r \in Record /\ RecordIsTrue(r)
  BY <1>3 DEF Record, Mode, RecordIsTrue, ReportIsTrue
<1> HIDE DEF r
<1>5. results' \in Results
  BY <1>1, <1>3, <1>4, PushIn
<1>6. TypeInv'
  <2>1. ClientTypeOK'
    BY <1>1, <1>3, <1>5 DEF TypeInv, ClientTypeOK, PC
  <2>2. InItsScript'
    BY <1>1, <1>2 DEF InItsScript, EvaluationPC
  <2>3. Counted'
    <3>1. pc' \in Working => cur' \in Transfer
      BY <1>1, <1>3 DEF Working, Transfer
    <3>2. state.transfer <= used'
      <4>1. state.transfer \in Nat /\ state.transfer <= used
        BY DEF TypeInv, ClientTypeOK, Counted
      <4> QED BY <1>1, <1>3, <4>1
    <3>3. used' + left' - 1 <= MaxStarts[script']
      BY <1>1, <1>3
    <3> QED BY <1>1, <1>2, <1>3, <3>1, <3>2, <3>3 DEF TypeInv, Counted
  <2> QED BY <2>1, <2>2, <2>3 DEF TypeInv
<1>7. ASSUME ScriptInv PROVE ScriptInv'
  <2>1. ~Waiting(pc) /\ ~Waiting(pc')
    BY <1>1, QuietPlaces
  <2>2. PlaceIsTrue'
    BY <1>1 DEF PlaceIsTrue, ClaimedAt, BurnedAt, CancelledAt
  <2>3. \A i \in 1..Len(results'.runs) : RecordIsTrue(results'.runs[i])
    <3>1. CASE results' = results
      BY <1>7, <3>1 DEF ScriptInv, RecordsAreTrue
    <3>2. CASE results' = [results EXCEPT !.runs = Append(@, r)]
      BY <1>3, <1>4, <1>7, <3>2, PushedAreTrue DEF ScriptInv, RecordsAreTrue
    <3> QED BY <1>1, <3>1, <3>2
  <2>4. RecordsAreTrue'
    BY <1>1, <1>7, <2>3, RecordsStay DEF ScriptInv, RecordsAreTrue
  <2> QED BY <1>1, <1>7, <2>1, <2>2, <2>4, QuietKeeps DEF TypeInv
<1> QED BY <1>6, <1>7 DEF Keeps

LEMMA SaveResultsKeeps == ASSUME TypeInv, SaveResults PROVE Keeps
<1>1. /\ pc \in {"saving", "resaving"} /\ runNumber' = runNumber + 1
      /\ left' = left - 1 /\ pc' = IF left = 1 THEN "summary" ELSE "preflight"
      /\ file' = [torn |-> FALSE, content |-> results]
      /\ UNCHANGED <<chainVars, netVars, todo>>
      /\ UNCHANGED <<source, destination, burnedBy, clock, pool, receipt, script, attempt, cur, used,
                     results, state, todo, faults>>
  BY DEF SaveResults, chainVars, netVars
<1>2. script = "evaluation"
  BY <1>1 DEF TypeInv, ClientTypeOK, Script, InItsScript, RefundTestPC, QuickPC, ReversePC,
     BountyPC
<1>3. /\ used \in Nat /\ left \in Nat /\ left >= 1 /\ used + left - 1 <= MaxStarts[script]
      /\ MaxStarts[script] \in Nat /\ runNumber \in Nat
  BY <1>1, <1>2, ClientAssumption DEF TypeInv, ClientTypeOK, Counted
<1>4. TypeInv'
  <2>1. ClientTypeOK'
    BY <1>1, <1>3 DEF TypeInv, ClientTypeOK, PC
  <2>2. InItsScript'
    BY <1>1, <1>2 DEF InItsScript, EvaluationPC
  <2>3. Counted'
    BY <1>1, <1>3 DEF TypeInv, Counted, Working
  <2> QED BY <2>1, <2>2, <2>3 DEF TypeInv
<1>5. ASSUME ScriptInv PROVE ScriptInv'
  <2>1. ~Waiting(pc) /\ ~Waiting(pc')
    BY <1>1, QuietPlaces
  <2>2. PlaceIsTrue'
    BY <1>1 DEF PlaceIsTrue, ClaimedAt, BurnedAt, CancelledAt
  <2>3. RecordsAreTrue'
    BY <1>1, <1>5, RecordsStay DEF ScriptInv, RecordsAreTrue
  <2> QED BY <1>1, <1>5, <2>1, <2>2, <2>3, QuietKeeps DEF TypeInv
<1> QED BY <1>4, <1>5 DEF Keeps

LEMMA SaveThrowsKeeps == ASSUME TypeInv, SaveThrows PROVE Keeps
<1> DEFINE r == [run_number |-> runNumber, success |-> FALSE, lock |-> FALSE,
                 mode |-> "none", transfer |-> cur]
<1>1. /\ pc = "saving" /\ pc' = "resaving" /\ faults' = faults + 1
      /\ file' = file \/ file' = TornFile
      /\ results' = [results EXCEPT !.runs = Append(@, r)]
      /\ UNCHANGED <<chainVars, netVars, todo>>
      /\ UNCHANGED <<source, destination, burnedBy, clock, pool, receipt, script, attempt, cur, used,
                     left, runNumber, state, todo>>
  BY DEF SaveThrows, Pushed, Fault, chainVars, netVars
<1>2. script = "evaluation"
  BY <1>1 DEF TypeInv, ClientTypeOK, Script, InItsScript, RefundTestPC, QuickPC, ReversePC,
     BountyPC
<1>3. results \in Results /\ cur \in 0..MaxTransfers /\ runNumber \in Nat /\ faults \in Nat
  BY ClientAssumption DEF TypeInv, ClientTypeOK
<1>4. r \in Record /\ RecordIsTrue(r)
  BY <1>3 DEF Record, Mode, RecordIsTrue, ReportIsTrue
<1> HIDE DEF r
<1>5. results' \in Results
  BY <1>1, <1>3, <1>4, PushIn
<1>6. TornFile \in [torn : BOOLEAN, content : Results] /\ Len(TornFile.content.runs) = 0
  BY NothingIsRecorded DEF TornFile
<1>7. TypeInv'
  <2>1. ClientTypeOK'
    BY <1>1, <1>3, <1>5, <1>6 DEF TypeInv, ClientTypeOK, PC
  <2>2. InItsScript'
    BY <1>1, <1>2 DEF InItsScript, EvaluationPC
  <2>3. Counted'
    BY <1>1, <1>2 DEF TypeInv, Counted, Working
  <2> QED BY <2>1, <2>2, <2>3 DEF TypeInv
<1>8. ASSUME ScriptInv PROVE ScriptInv'
  <2>1. ~Waiting(pc) /\ ~Waiting(pc')
    BY <1>1, QuietPlaces
  <2>2. PlaceIsTrue'
    BY <1>1 DEF PlaceIsTrue, ClaimedAt, BurnedAt, CancelledAt
  <2>3. \A i \in 1..Len(results'.runs) : RecordIsTrue(results'.runs[i])
    BY <1>1, <1>3, <1>4, <1>8, PushedAreTrue DEF ScriptInv, RecordsAreTrue
  <2>4. \A i \in 1..Len(file'.content.runs) : RecordIsTrue(file'.content.runs[i])
    BY <1>1, <1>6, <1>8 DEF ScriptInv, RecordsAreTrue
  <2>5. RecordsAreTrue'
    BY <1>1, <1>8, <2>3, <2>4, RecordsStay DEF ScriptInv, RecordsAreTrue
  <2> QED BY <1>1, <1>8, <2>1, <2>2, <2>5, QuietKeeps DEF TypeInv
<1> QED BY <1>7, <1>8 DEF Keeps

LEMMA SummaryTypes == ASSUME NEW runs \in Seq(Record) PROVE ComputeSummary(runs) \in Summary
<1>1. Len(runs) \in Nat /\ IsFiniteSet(1..Len(runs))
  BY FS_Interval
<1>2. \A S \in SUBSET (1..Len(runs)) : Cardinality(S) \in Nat
  BY <1>1, FS_Subset, FS_CardinalityType
<1> QED BY <1>1, <1>2 DEF ComputeSummary, Among, Summary

LEMMA SummariseKeeps == ASSUME TypeInv, Summarise PROVE Keeps
<1> DEFINE summed == [results EXCEPT !.summary = ComputeSummary(results.runs)]
<1>1. /\ pc = "summary" /\ pc' = "idle" /\ results' = NoResults /\ runNumber' = 0
      /\ file' = [torn |-> FALSE, content |-> summed]
      /\ UNCHANGED <<chainVars, netVars, todo>>
      /\ UNCHANGED <<source, destination, burnedBy, clock, pool, receipt, script, attempt, cur, used,
                     left, state, todo, faults>>
  BY DEF Summarise, chainVars, netVars
<1>2. summed \in Results /\ summed.runs = results.runs
  <2>1. results \in Results
    BY DEF TypeInv, ClientTypeOK
  <2>2. ComputeSummary(results.runs) \in Summary
    BY <2>1, SummaryTypes DEF Results
  <2> QED BY <2>1, <2>2 DEF Results
<1> HIDE DEF summed
<1>3. TypeInv'
  <2>1. ClientTypeOK'
    BY <1>1, <1>2, NothingIsRecorded DEF TypeInv, ClientTypeOK, PC
  <2>2. InItsScript'
    BY <1>1 DEF InItsScript, EvaluationPC, RefundTestPC, QuickPC, ReversePC, BountyPC
  <2>3. Counted'
    BY <1>1 DEF TypeInv, Counted, Working
  <2> QED BY <2>1, <2>2, <2>3 DEF TypeInv
<1>4. ASSUME ScriptInv PROVE ScriptInv'
  <2>1. ~Waiting(pc) /\ ~Waiting(pc')
    BY <1>1, QuietPlaces
  <2>2. PlaceIsTrue'
    BY <1>1 DEF PlaceIsTrue, ClaimedAt, BurnedAt, CancelledAt
  <2>3. \A i \in 1..Len(results'.runs) : RecordIsTrue(results'.runs[i])
    BY <1>1, NothingIsRecorded
  <2>4. RecordsAreTrue'
    BY <1>1, <1>2, <1>4, <2>3, RecordsStay DEF ScriptInv, RecordsAreTrue
  <2> QED BY <1>1, <1>4, <2>1, <2>2, <2>4, QuietKeeps DEF TypeInv
<1> QED BY <1>3, <1>4 DEF Keeps

LEMMA RunBatchKeeps == ASSUME TypeInv, NEW n \in 1..MaxTransfers, RunBatch(n) PROVE Keeps
<1>1. /\ script = "evaluation" /\ pc \in {"idle", "passed"} /\ pc' = "preflight"
      /\ results' = file.content /\ left' = n /\ used + n <= MaxStarts[script]
      /\ runNumber' = Len(file.content.runs) + 1
      /\ UNCHANGED <<chainVars, netVars, todo>>
      /\ UNCHANGED <<source, destination, burnedBy, clock, pool, receipt, script, attempt, cur, used,
                     file, state, todo, faults>>
  BY DEF RunBatch, Idle, LoadOrInitializeResults, chainVars, netVars, diskVars
<1>2. TypeInv'
  <2>1. ClientTypeOK'
    <3>1. Len(file.content.runs) \in Nat
      BY DEF TypeInv, ClientTypeOK, Results
    <3> QED BY <1>1, <3>1, ClientAssumption DEF TypeInv, ClientTypeOK, PC
  <2>2. InItsScript'
    BY <1>1 DEF InItsScript, EvaluationPC
  <2>3. Counted'
    BY <1>1, ClientAssumption DEF TypeInv, Counted, Working
  <2> QED BY <2>1, <2>2, <2>3 DEF TypeInv
<1>3. ASSUME ScriptInv PROVE ScriptInv'
  <2>1. ~Waiting(pc) /\ ~Waiting(pc')
    BY <1>1, QuietPlaces
  <2>2. PlaceIsTrue'
    BY <1>1 DEF PlaceIsTrue, ClaimedAt, BurnedAt, CancelledAt
  <2>3. RecordsAreTrue'
    BY <1>1, <1>3, RecordsStay DEF ScriptInv, RecordsAreTrue
  <2> QED BY <1>1, <1>3, <2>1, <2>2, <2>3, QuietKeeps DEF TypeInv
<1> QED BY <1>2, <1>3 DEF Keeps

EntryEdge(at, mode) ==
    \/ script = "reverse" /\ at = "reverse-burned" /\ mode = "manual-fallback"
    \/ script = "reverse" /\ at = "reverse-settled" /\ mode = "automatic-callback"
    \/ script = "reverse" /\ at = "reverse-pending" /\ mode = "callback-pending"
    \/ script = "bounty" /\ at = "demo-burned" /\ mode = "monitor"

LEMMA SaveEntryKeeps ==
    ASSUME TypeInv, NEW at, NEW mode, EntryEdge(at, mode), SaveEntry(at, mode)
    PROVE  Keeps
<1> DEFINE r == [run_number |-> 0, success |-> TRUE, lock |-> TRUE, mode |-> mode,
                 transfer |-> cur]
<1>1. /\ pc = at /\ pc' = "result"
      /\ results' = [file.content EXCEPT !.runs = Append(@, r)]
      /\ UNCHANGED <<chainVars, netVars, todo>>
      /\ UNCHANGED <<source, destination, burnedBy, clock, pool, receipt, script, attempt, cur, used,
                     left, runNumber, file, state, todo, faults>>
  BY DEF SaveEntry, chainVars, netVars, diskVars
<1>2. file.content \in Results /\ cur \in Transfer /\ cur \in 0..MaxTransfers
  <2>1. pc \in Working
    BY <1>1 DEF EntryEdge, Working, PC
  <2> QED BY <2>1, ClientAssumption DEF TypeInv, ClientTypeOK, Counted
<1>3. r \in Record
  BY <1>2 DEF Record, Mode, EntryEdge
<1>4. r.success = TRUE /\ r.mode = mode /\ r.transfer = cur
  OBVIOUS
<1> HIDE DEF r
<1>5. results' \in Results
  BY <1>1, <1>2, <1>3, PushIn
<1>6. TypeInv'
  <2>1. ClientTypeOK'
    BY <1>1, <1>5 DEF TypeInv, ClientTypeOK, PC
  <2>2. InItsScript'
    BY <1>1 DEF InItsScript, EntryEdge, ReversePC, BountyPC
  <2>3. Counted'
    BY <1>1 DEF TypeInv, Counted, Working, EntryEdge
  <2> QED BY <2>1, <2>2, <2>3 DEF TypeInv
<1>7. ASSUME ScriptInv PROVE ScriptInv'
  <2>1. ~Waiting(pc) /\ ~Waiting(pc')
    BY <1>1, QuietPlaces DEF EntryEdge
  <2>2. PlaceIsTrue'
    BY <1>1 DEF PlaceIsTrue, ClaimedAt, BurnedAt, CancelledAt
  <2>3. RecordIsTrue(r)
    <3>1. /\ destination[cur] = "claimed"
          /\ mode # "callback-pending" => Settled(cur)
          /\ mode = "manual-fallback" => burnedBy[cur] = "source"
          /\ mode = "monitor" => burnedBy[cur] = "monitor"
      BY <1>1, <1>7 DEF ScriptInv, PlaceIsTrue, EntryEdge, ClaimedAt, BurnedAt, Settled
    <3> QED BY <1>2, <1>4, <3>1 DEF RecordIsTrue, ReportIsTrue
  <2>4. \A i \in 1..Len(results'.runs) : RecordIsTrue(results'.runs[i])
    BY <1>1, <1>2, <1>3, <1>7, <2>3, PushedAreTrue DEF ScriptInv, RecordsAreTrue
  <2>5. RecordsAreTrue'
    BY <1>1, <1>7, <2>4, RecordsStay DEF ScriptInv, RecordsAreTrue
  <2> QED BY <1>1, <1>7, <2>1, <2>2, <2>5, QuietKeeps DEF TypeInv
<1> QED BY <1>6, <1>7 DEF Keeps

LEMMA WriteEntryKeeps == ASSUME TypeInv, WriteEntry PROVE Keeps
<1>1. /\ pc = "result" /\ pc' = "idle" /\ results' = NoResults
      /\ file' = [torn |-> FALSE, content |-> results]
      /\ UNCHANGED <<chainVars, netVars, todo>>
      /\ UNCHANGED <<source, destination, burnedBy, clock, pool, receipt, script, attempt, cur, used,
                     left, runNumber, state, todo, faults>>
  BY DEF WriteEntry, chainVars, netVars
<1>2. TypeInv'
  <2>1. ClientTypeOK'
    BY <1>1, NothingIsRecorded DEF TypeInv, ClientTypeOK, PC
  <2>2. InItsScript'
    BY <1>1 DEF InItsScript, EvaluationPC, RefundTestPC, QuickPC, ReversePC, BountyPC
  <2>3. Counted'
    BY <1>1 DEF TypeInv, Counted, Working
  <2> QED BY <2>1, <2>2, <2>3 DEF TypeInv
<1>3. ASSUME ScriptInv PROVE ScriptInv'
  <2>1. ~Waiting(pc) /\ ~Waiting(pc')
    BY <1>1, QuietPlaces
  <2>2. PlaceIsTrue'
    BY <1>1 DEF PlaceIsTrue, ClaimedAt, BurnedAt, CancelledAt
  <2>3. \A i \in 1..Len(results'.runs) : RecordIsTrue(results'.runs[i])
    BY <1>1, NothingIsRecorded
  <2>4. RecordsAreTrue'
    BY <1>1, <1>3, <2>3, RecordsStay DEF ScriptInv, RecordsAreTrue
  <2> QED BY <1>1, <1>3, <2>1, <2>2, <2>4, QuietKeeps DEF TypeInv
<1> QED BY <1>2, <1>3 DEF Keeps

----------------------------------------------------------------------------
(* Every step of every script is one of these.                               *)

LEMMA EvaluationKeeps == ASSUME TypeInv, Evaluation PROVE Keeps
<1>1. CASE LockTokensForRun
  <2>1. CASE Submit("lock", "source", "lockForBurn", cur, "locking", TRUE)
    BY <2>1, SubmitKeeps DEF SubmitEdge
  <2>2. CASE Await("locking", "relay", "lock", FALSE)
    BY <2>2, AwaitKeeps DEF AwaitEdge
  <2> QED BY <1>1, <2>1, <2>2 DEF LockTokensForRun
<1>2. CASE WaitForRelayWithPolling
  <2> DEFINE next == IF script = "evaluation" THEN "verify" ELSE "expire"
  <2>1. GotoEdge("relay", next) /\ GotoEdge("relay", "failed")
    BY DEF GotoEdge
  <2>2. Goto("relay", next) \/ Goto("relay", "failed")
    BY <1>2 DEF WaitForRelayWithPolling, See
  <2> HIDE DEF next
  <2> QED BY <2>1, <2>2, GotoKeeps
<1>3. CASE ClaimOnCosmosForRun
  <2>1. CASE See("verify", destination[cur] = "pending", "claim", "failed")
    BY <2>1, GotoKeeps DEF GotoEdge, See
  <2>2. CASE Submit("claim", "destination", "claimMint", cur, "claiming", TRUE)
    BY <2>2, SubmitKeeps DEF SubmitEdge
  <2>3. CASE Await("claiming", "automatic", "claim", TRUE)
    BY <2>3, AwaitKeeps DEF AwaitEdge
  <2> QED BY <1>3, <2>1, <2>2, <2>3 DEF ClaimOnCosmosForRun
<1>4. CASE WaitForAutomaticBurn
  <2>1. \/ source[cur] = "CLAIMED" /\ Goto("automatic", "called-back")
        \/ Goto("automatic", "fallback") \/ Goto("automatic", "failed")
    BY <1>4 DEF WaitForAutomaticBurn, See
  <2> QED BY <2>1, GotoKeeps DEF GotoEdge
<1>5. CASE BurnOnEVMForRun
  <2>1. CASE See("fallback", source[cur] = "LOCKED", "burn", "failed")
    BY <2>1, GotoKeeps DEF GotoEdge, See
  <2>2. CASE Submit("burn", "source", "claimBurn", cur, "burning", TRUE)
    BY <2>2, SubmitKeeps DEF SubmitEdge
  <2>3. CASE Await("burning", "burned", "burn", FALSE)
    BY <2>3, AwaitKeeps DEF AwaitEdge
  <2> QED BY <1>5, <2>1, <2>2, <2>3 DEF BurnOnEVMForRun
<1>6. CASE RecordRun
  BY <1>6, KeepRunKeeps DEF RecordRun, KeepRunEdge
<1>7. CASE RefundTest
  BY <1>7, StartKeeps DEF RefundTest, StartEdge
<1>8. CASE RefundTestSteps
  <2>1. CASE Sleep("expire", clock[cur] >= MINT_EXPIRED, "refund-mint")
    BY <2>1, GotoKeeps DEF GotoEdge, Sleep
  <2>2. CASE Submit("refund-mint", "destination", "refundMint", cur, "refunding-mint", TRUE)
    BY <2>2, SubmitKeeps DEF SubmitEdge
  <2>3. CASE Await("refunding-mint", "wait-timelock", "refund-mint", TRUE)
    BY <2>3, AwaitKeeps DEF AwaitEdge
  <2>4. CASE Sleep("wait-timelock", clock[cur] = REFUND_OPEN, "refund")
    BY <2>4, GotoKeeps DEF GotoEdge, Sleep
  <2>5. CASE Submit("refund", "source", "refundBurn", cur, "refunding", TRUE)
    BY <2>5, SubmitKeeps DEF SubmitEdge
  <2>6. CASE Await("refunding", "passed", "refund", FALSE)
    BY <2>6, AwaitKeeps DEF AwaitEdge
  <2>7. CASE script = "refund-test" /\ Fail("failed")
    BY <2>7, GotoKeeps DEF GotoEdge, Fail
  <2> QED BY <1>8, <2>1, <2>2, <2>3, <2>4, <2>5, <2>6, <2>7 DEF RefundTestSteps
<1> QED BY <1>1, <1>2, <1>3, <1>4, <1>5, <1>6, <1>7, <1>8, RunBatchKeeps, PreflightKeeps,
           SaveResultsKeeps, SaveThrowsKeeps, SummariseKeeps DEF Evaluation

LEMMA QuickTestKeeps == ASSUME TypeInv, QuickTest PROVE Keeps
<1>1. CASE QuickLock
  <2>1. CASE script = "quick" /\ StartFresh("quick-lock")
    BY <2>1, StartKeeps DEF StartEdge
  <2>2. CASE Submit("quick-lock", "source", "lockForBurn", cur, "quick-locking", FALSE)
    BY <2>2, SubmitKeeps DEF SubmitEdge
  <2>3. CASE Await("quick-locking", "save-locked", "quick-lock", FALSE)
    BY <2>3, AwaitKeeps DEF AwaitEdge
  <2>4. CASE WriteState("save-locked", "locked")
    BY <2>4, WriteStateKeeps DEF WriteStateEdge
  <2> QED BY <1>1, <2>1, <2>2, <2>3, <2>4 DEF QuickLock
<1>2. CASE QuickClaimOnCosmos
  <2>1. CASE HasState /\ StartOn("quick-claim-cosmos")
    BY <2>1, ResumeKeeps
  <2>2. CASE See("quick-claim-cosmos", destination[cur] = "pending", "quick-claim", "idle")
    BY <2>2, GotoKeeps DEF GotoEdge, See
  <2>3. CASE Submit("quick-claim", "destination", "claimMint", cur, "quick-claiming", FALSE)
    BY <2>3, SubmitKeeps DEF SubmitEdge
  <2>4. CASE Await("quick-claiming", "save-claimed", "quick-claim", FALSE)
    BY <2>4, AwaitKeeps DEF AwaitEdge
  <2>5. CASE WriteState("save-claimed", "claimed_cosmos")
    BY <2>5, WriteStateKeeps DEF WriteStateEdge
  <2> QED BY <1>2, <2>1, <2>2, <2>3, <2>4, <2>5 DEF QuickClaimOnCosmos
<1>3. CASE QuickClaimOnEVM
  <2>1. CASE /\ HasState
             /\ OperatorFollowsPrompts => state.status = "claimed_cosmos"
             /\ StartOn("quick-claim-evm")
    BY <2>1, ResumeKeeps
  <2>2. CASE See("quick-claim-evm", source[cur] = "LOCKED", "quick-burn", "idle")
    BY <2>2, GotoKeeps DEF GotoEdge, See
  <2>3. CASE Submit("quick-burn", "source", "claimBurn", cur, "quick-burning", FALSE)
    BY <2>3, SubmitKeeps DEF SubmitEdge
  <2>4. CASE Await("quick-burning", "save-completed", "quick-burn", FALSE)
    BY <2>4, AwaitKeeps DEF AwaitEdge
  <2>5. CASE WriteState("save-completed", "completed")
    BY <2>5, WriteStateKeeps DEF WriteStateEdge
  <2> QED BY <1>3, <2>1, <2>2, <2>3, <2>4, <2>5 DEF QuickClaimOnEVM
<1>4. CASE script = "quick" /\ Fail("failed")
  BY <1>4, GotoKeeps DEF GotoEdge, Fail
<1> QED BY <1>1, <1>2, <1>3, <1>4 DEF QuickTest

LEMMA ReverseTestKeeps == ASSUME TypeInv, ReverseTest PROVE Keeps
<1>0. script = "reverse"
  BY DEF ReverseTest
<1>1. ASSUME NEW manualBurn \in BOOLEAN, ReverseRun(manualBurn) PROVE Keeps
  <2>1. CASE StartFresh("reverse-lock")
    BY <1>0, <2>1, StartKeeps DEF StartEdge
  <2>2. CASE \/ Submit("reverse-lock", "source", "lockForBurn", cur, "reverse-locking", FALSE)
             \/ Submit("reverse-claim", "destination", "claimMint", cur, "reverse-claiming", FALSE)
             \/ Submit("reverse-burn", "source", "claimBurn", cur, "reverse-burning", FALSE)
    BY <2>2, SubmitKeeps DEF SubmitEdge
  <2>3. CASE \/ Await("reverse-locking", "reverse-relay", "reverse-lock", FALSE)
             \/ Await("reverse-burning", "reverse-burned", "reverse-burn", FALSE)
    BY <2>3, AwaitKeeps DEF AwaitEdge
  <2>4. CASE Await("reverse-claiming", IF manualBurn THEN "reverse-burn" ELSE "reverse-callback",
                   "reverse-claim", FALSE)
    BY <2>4, AwaitKeeps DEF AwaitEdge
  <2>5. CASE See("reverse-relay", destination[cur] = "pending", "reverse-claim", "failed")
    BY <2>5, GotoKeeps DEF GotoEdge, See
  <2>6. CASE \/ See("reverse-callback", source[cur] = "CLAIMED", "reverse-settled", "reverse-pending")
             \/ Goto("reverse-callback", "failed")
    <3>1. \/ source[cur] = "CLAIMED" /\ Goto("reverse-callback", "reverse-settled")
          \/ Goto("reverse-callback", "reverse-pending") \/ Goto("reverse-callback", "failed")
      BY <2>6 DEF See
    <3> QED BY <3>1, GotoKeeps DEF GotoEdge
  <2>7. CASE \/ SaveFails("reverse-burned") \/ SaveFails("reverse-settled")
             \/ SaveFails("reverse-pending")
    BY <2>7, GotoKeeps DEF GotoEdge, SaveFails
  <2>8. CASE \/ SaveEntry("reverse-burned", "manual-fallback")
             \/ SaveEntry("reverse-settled", "automatic-callback")
             \/ SaveEntry("reverse-pending", "callback-pending")
    BY <1>0, <2>8, SaveEntryKeeps DEF EntryEdge
  <2> QED BY <1>1, <2>1, <2>2, <2>3, <2>4, <2>5, <2>6, <2>7, <2>8 DEF ReverseRun, Entry
<1>2. CASE Fail("failed")
  BY <1>0, <1>2, GotoKeeps DEF GotoEdge, Fail
<1> QED BY <1>1, <1>2, WriteEntryKeeps DEF ReverseTest

LEMMA BountyDemoKeeps == ASSUME TypeInv, BountyDemo PROVE Keeps
<1>0. script = "bounty"
  BY DEF BountyDemo
<1>1. CASE StartFresh("demo-lock")
  BY <1>0, <1>1, StartKeeps DEF StartEdge
<1>2. CASE \/ Submit("demo-lock", "source", "lockForBurn", cur, "demo-locking", FALSE)
           \/ Submit("demo-claim", "destination", "claimMint", cur, "demo-claiming", FALSE)
           \/ Submit("demo-burn", "monitor", "claimBurn", cur, "demo-burning", FALSE)
  BY <1>2, SubmitKeeps DEF SubmitEdge
<1>3. CASE \/ Await("demo-locking", "demo-relay", "demo-lock", FALSE)
           \/ Await("demo-claiming", "demo-monitor", "demo-claim", FALSE)
           \/ Await("demo-burning", "demo-burned", "demo-burn", FALSE)
  BY <1>3, AwaitKeeps DEF AwaitEdge
<1>4. CASE \/ See("demo-relay", destination[cur] # "none", "demo-claim", "failed")
           \/ See("demo-monitor", destination[cur] = "claimed", "demo-burn", "failed")
  BY <1>4, GotoKeeps DEF GotoEdge, See
<1>5. CASE SaveEntry("demo-burned", "monitor")
  BY <1>0, <1>5, SaveEntryKeeps DEF EntryEdge
<1>6. CASE SaveFails("demo-burned") \/ Fail("failed")
  BY <1>0, <1>6, GotoKeeps DEF GotoEdge, SaveFails, Fail
<1> QED BY <1>1, <1>2, <1>3, <1>4, <1>5, <1>6, WriteEntryKeeps DEF BountyDemo, Entry

----------------------------------------------------------------------------
(* The chains, and everybody else.                                           *)

\* What is settled stays so, and no burn gets ahead of its mint.
ChainsGoOn ==
    \A h \in Transfer :
        /\ source[h] = "CLAIMED" => source'[h] = "CLAIMED" /\ burnedBy'[h] = burnedBy[h]
        /\ source[h] = "REFUNDED" => source'[h] = "REFUNDED"
        /\ destination[h] = "claimed" => destination'[h] = "claimed"
        /\ destination[h] = "refunded" => destination'[h] = "refunded"
        /\ source'[h] = "CLAIMED" => source[h] = "CLAIMED" \/ destination[h] = "claimed"

LEMMA ExecutedGoesOn ==
    ASSUME ClientTypeOK, NEW op \in Operation, NEW h \in Transfer, NEW who,
           Executed(op, h, who), op = "claimBurn" => destination[h] = "claimed"
    PROVE  /\ ChainsGoOn
           /\ SourceAccepts(op, h) \/ DestinationAccepts(op, h) => Took(op, h, who)'
<1>1. /\ source \in [Transfer -> {"EMPTY", "LOCKED", "CLAIMED", "REFUNDED"}]
      /\ destination \in [Transfer -> {"none", "pending", "claimed", "refunded"}]
      /\ DOMAIN burnedBy = Transfer
  BY DEF ClientTypeOK
<1>2. CASE op = "lockForBurn"
  BY <1>1, <1>2 DEF Executed, SourceAccepts, DestinationAccepts, After, ChainsGoOn, Took
<1>3. CASE op = "claimBurn"
  BY <1>1, <1>3 DEF Executed, SourceAccepts, DestinationAccepts, After, ChainsGoOn, Took
<1>4. CASE op = "refundBurn"
  BY <1>1, <1>4 DEF Executed, SourceAccepts, DestinationAccepts, After, ChainsGoOn, Took
<1>5. CASE op = "claimMint"
  BY <1>1, <1>5 DEF Executed, SourceAccepts, DestinationAccepts, After, ChainsGoOn, Took
<1>6. CASE op = "refundMint"
  BY <1>1, <1>6 DEF Executed, SourceAccepts, DestinationAccepts, After, ChainsGoOn, Took
<1> QED BY <1>2, <1>3, <1>4, <1>5, <1>6 DEF Operation

LEMMA ExecutedTypes ==
    ASSUME ClientTypeOK, NEW op \in Operation, NEW h \in Transfer,
           NEW who \in Wallet \cup {"nobody", "callback", "stranger"}, Executed(op, h, who)
    PROVE  /\ source' \in [Transfer -> {"EMPTY", "LOCKED", "CLAIMED", "REFUNDED"}]
           /\ destination' \in [Transfer -> {"none", "pending", "claimed", "refunded"}]
           /\ burnedBy' \in [Transfer -> Wallet \cup {"nobody", "callback", "stranger"}]
           /\ clock' \in [Transfer -> FRESH .. REFUND_OPEN]
<1>1. /\ source \in [Transfer -> {"EMPTY", "LOCKED", "CLAIMED", "REFUNDED"}]
      /\ destination \in [Transfer -> {"none", "pending", "claimed", "refunded"}]
      /\ burnedBy \in [Transfer -> Wallet \cup {"nobody", "callback", "stranger"}]
      /\ clock \in [Transfer -> FRESH .. REFUND_OPEN]
  BY DEF ClientTypeOK
<1>2. SourceAccepts(op, h) => After[op] \in {"LOCKED", "CLAIMED", "REFUNDED"}
  BY DEF SourceAccepts, After
<1>3. DestinationAccepts(op, h) => After[op] \in {"claimed", "refunded"}
  BY DEF DestinationAccepts, After
<1> QED BY <1>1, <1>2, <1>3 DEF Executed

\* While the script stands still and the chains go on, what it knows stays true.
LEMMA StandingKeeps ==
    ASSUME TypeInv, ScriptInv, ChainsGoOn,
           UNCHANGED <<script, pc, cur, results, file, state>>
    PROVE  PlaceIsTrue' /\ BurnsFollowMints' /\ RecordsAreTrue'
<1>1. pc \in Working => cur \in Transfer
  BY DEF TypeInv, Counted
<1>2. ClaimedAt \subseteq Working /\ CancelledAt \subseteq Working /\ BurnedAt \subseteq Working
  BY DEF ClaimedAt, CancelledAt, BurnedAt, Working, PC
<1>3. PlaceIsTrue'
  <2>1. /\ pc' \in ClaimedAt => destination'[cur'] = "claimed"
        /\ pc' \in CancelledAt => destination'[cur'] = "refunded"
    BY <1>1, <1>2 DEF ScriptInv, PlaceIsTrue, ChainsGoOn
  <2>2. pc' \in BurnedAt => source'[cur'] = "CLAIMED" /\ burnedBy'[cur'] = burnedBy[cur]
    BY <1>1, <1>2 DEF ScriptInv, PlaceIsTrue, ChainsGoOn
  <2>3. pc' = "passed" => source'[cur'] = "REFUNDED"
    BY <1>1, <1>2 DEF ScriptInv, PlaceIsTrue, ChainsGoOn, CancelledAt
  <2> QED BY <2>1, <2>2, <2>3 DEF ScriptInv, PlaceIsTrue, BurnedAt
<1>4. BurnsFollowMints'
  BY DEF ScriptInv, BurnsFollowMints, ChainsGoOn
<1>5. RecordsAreTrue'
  <2>1. ASSUME NEW q, RecordIsTrue(q)
        PROVE  /\ q.success => q.transfer \in Transfer
               /\ q.mode = "callback-pending" => q.success
               /\ q.success =>
                    /\ destination'[q.transfer] = "claimed"
                    /\ q.mode # "callback-pending" =>
                        source'[q.transfer] = "CLAIMED" /\ destination'[q.transfer] = "claimed"
                    /\ q.mode = "manual-fallback" => burnedBy'[q.transfer] = "source"
                    /\ q.mode = "monitor" => burnedBy'[q.transfer] = "monitor"
    BY <2>1 DEF RecordIsTrue, ReportIsTrue, Settled, ChainsGoOn
  <2>2. ASSUME NEW i \in 1..Len(file'.content.runs)
        PROVE  RecordIsTrue(file.content.runs[i])'
    <3>1. RecordIsTrue(file.content.runs[i]) /\ file' = file
      BY DEF ScriptInv, RecordsAreTrue
    <3> QED BY <2>1, <3>1 DEF RecordIsTrue, ReportIsTrue, Settled
  <2>3. ASSUME NEW i \in 1..Len(results'.runs)
        PROVE  RecordIsTrue(results.runs[i])'
    <3>1. RecordIsTrue(results.runs[i]) /\ results' = results
      BY DEF ScriptInv, RecordsAreTrue
    <3> QED BY <2>1, <3>1 DEF RecordIsTrue, ReportIsTrue, Settled
  <2>4. state.status \in {"claimed_cosmos", "completed"} => state.transfer \in Transfer
    BY DEF TypeInv, Counted
  <2>5. /\ state'.status = "claimed_cosmos" => destination'[state'.transfer] = "claimed"
        /\ state'.status = "completed" =>
             source'[state'.transfer] = "CLAIMED" /\ destination'[state'.transfer] = "claimed"
    BY <2>4 DEF ScriptInv, RecordsAreTrue, Settled, ChainsGoOn
  <2> QED BY <2>2, <2>3, <2>5 DEF RecordsAreTrue, Settled
<1> QED BY <1>3, <1>4, <1>5

\* A receipt stays true as well.
LEMMA ReceiptStays ==
    ASSUME TypeInv, ScriptInv, ChainsGoOn, UNCHANGED <<pc, cur>>,
           receipt'["script"] = receipt["script"] \/ receipt'["script"] # "ok"
    PROVE  ReceiptIsTrue'
<1> SUFFICES ASSUME receipt'["script"] = "ok", NEW w \in Wallet, NEW op \in Operation,
                    WaitsFor(pc, w, op)
             PROVE  Took(op, cur, w)'
  BY DEF ReceiptIsTrue, WaitsFor
<1>1. Took(op, cur, w)
  BY DEF ScriptInv, ReceiptIsTrue
<1>2. cur \in Transfer
  BY DEF WaitsFor, Working, PC, TypeInv, Counted
<1> QED BY <1>1, <1>2 DEF Took, ChainsGoOn

\* What the operator has to do.
Jobs == [op : Operation, transfer : Transfer, checked : BOOLEAN, sent : BOOLEAN]

LEMMA TodoTypes ==
    ASSUME ClientTypeOK
    PROVE  /\ todo \in Seq(Jobs) /\ Len(todo) \in Nat
           /\ \A i \in 1..Len(todo) :
                todo[i] \in Jobs /\ todo[i].transfer \in Transfer /\ todo[i].op \in Operation
<1>1. todo \in Seq(Jobs)
  BY DEF ClientTypeOK, Jobs
<1>2. Len(todo) \in Nat /\ \A i \in 1..Len(todo) : todo[i] \in Jobs
  BY <1>1
<1> QED BY <1>1, <1>2 DEF Jobs

\* A step of the chains alone.
LEMMA ChainStepKeeps ==
    ASSUME TypeInv, ScriptInv => ChainsGoOn,
           source' \in [Transfer -> {"EMPTY", "LOCKED", "CLAIMED", "REFUNDED"}],
           destination' \in [Transfer -> {"none", "pending", "claimed", "refunded"}],
           burnedBy' \in [Transfer -> Wallet \cup {"nobody", "callback", "stranger"}],
           clock' \in [Transfer -> FRESH .. REFUND_OPEN],
           UNCHANGED <<netVars, script, stepVars, memoryVars, diskVars, todo, faults>>
    PROVE  Keeps
<1>1. UNCHANGED <<pool, receipt, script, pc, attempt, cur, used, results, left, runNumber, file, state, todo,
                  faults>>
  BY DEF netVars, stepVars, memoryVars, diskVars
<1>2. TypeInv'
  BY <1>1 DEF TypeInv, ClientTypeOK, InItsScript, Counted
<1>3. ASSUME ScriptInv PROVE ScriptInv'
  <2>1. PlaceIsTrue' /\ BurnsFollowMints' /\ RecordsAreTrue' /\ ReceiptIsTrue'
    BY <1>1, <1>3, StandingKeeps, ReceiptStays
  <2>2. OneAwaited'
    BY <1>1, <1>3 DEF ScriptInv, OneAwaited
  <2>3. BurnsWait'
    <3>1. \A i \in 1..Len(todo) : todo[i].transfer \in Transfer
      BY TodoTypes DEF TypeInv
    <3>2. \A w \in Wallet : \A i \in 1..Len(pool[w]) : pool[w][i].transfer \in Transfer
      BY PoolTypes DEF TypeInv
    <3>3. BurnsWait /\ \A h \in Transfer : destination[h] = "claimed" => destination'[h] = "claimed"
      BY <1>3 DEF ScriptInv, ChainsGoOn
    <3>4. pool' = pool /\ todo' = todo
      BY <1>1
    <3> QED BY <3>1, <3>2, <3>3, <3>4 DEF BurnsWait
  <2> QED BY <2>1, <2>2, <2>3 DEF ScriptInv
<1> QED BY <1>2, <1>3 DEF Keeps

LEMMA OthersKeep ==
    ASSUME TypeInv, NEW h \in Transfer,
           \/ Relay(h) \/ (\E who \in Burners : BurnByOther(h, who)) \/ ExpireMint(h) \/ Tick(h)
    PROVE  Keeps
<1>t. /\ ClientTypeOK
      /\ source \in [Transfer -> {"EMPTY", "LOCKED", "CLAIMED", "REFUNDED"}]
      /\ destination \in [Transfer -> {"none", "pending", "claimed", "refunded"}]
      /\ burnedBy \in [Transfer -> Wallet \cup {"nobody", "callback", "stranger"}]
      /\ clock \in [Transfer -> FRESH .. REFUND_OPEN]
  BY DEF TypeInv, ClientTypeOK
<1>1. CASE Relay(h)
  <2>1. /\ destination[h] = "none" /\ destination' = [destination EXCEPT ![h] = "pending"]
        /\ UNCHANGED <<source, burnedBy, clock>>
    BY <1>1 DEF Relay
  <2>2. ScriptInv => ChainsGoOn
    BY <1>t, <2>1 DEF ChainsGoOn
  <2> QED BY <1>t, <1>1, <2>1, <2>2, ChainStepKeeps DEF Relay
<1>2. ASSUME NEW who \in Burners, BurnByOther(h, who) PROVE Keeps
  <2>1. "claimBurn" \in Operation /\ who \in Wallet \cup {"nobody", "callback", "stranger"}
    BY DEF Burners, FundsCallback, Operation
  <2>2. Executed("claimBurn", h, who) /\ destination[h] = "claimed"
    BY <1>2 DEF BurnByOther
  <2>3. ChainsGoOn
    BY <1>t, <2>1, <2>2, ExecutedGoesOn
  <2> QED BY <1>t, <1>2, <2>1, <2>2, <2>3, ExecutedTypes, ChainStepKeeps DEF BurnByOther
<1>3. CASE ExpireMint(h)
  <2>1. "refundMint" \in Operation
    BY DEF Operation
  <2>2. Executed("refundMint", h, "nobody")
    BY <1>3 DEF ExpireMint
  <2>3. ChainsGoOn
    BY <1>t, <2>1, <2>2, ExecutedGoesOn
  <2> QED BY <1>t, <1>3, <2>1, <2>2, <2>3, ExecutedTypes, ChainStepKeeps DEF ExpireMint
<1>4. CASE Tick(h)
  <2>1. clock' = [clock EXCEPT ![h] = clock[h] + 1] /\ clock[h] < REFUND_OPEN
        /\ UNCHANGED <<source, destination, burnedBy>>
    BY <1>4 DEF Tick
  <2>2. clock' \in [Transfer -> FRESH .. REFUND_OPEN]
    BY <1>t, <2>1 DEF FRESH, REFUND_OPEN
  <2>3. ScriptInv => ChainsGoOn
    BY <2>1 DEF ScriptInv, BurnsFollowMints, ChainsGoOn
  <2> QED BY <1>t, <1>4, <2>1, <2>2, <2>3, ChainStepKeeps DEF Tick
<1> QED BY <1>1, <1>2, <1>3, <1>4

\* A step of the operator: it may send, or give up, and the chains stand still.
LEMMA OperatorKeeps ==
    ASSUME TypeInv, UNCHANGED <<chainVars, script, stepVars, memoryVars, diskVars>>,
           pool' \in Pools, receipt' \in [Process -> {"none", "ok", "failed"}],
           receipt'["script"] = receipt["script"],
           todo' \in Seq(Jobs), faults' \in Nat,
           ScriptInv => BurnsWait',
           \A w \in Wallet : \A i \in 1..Len(pool'[w]) : pool'[w][i].by = "script" =>
                /\ i \in 1..Len(pool[w]) /\ pool[w][i].by = "script"
                /\ pool'[w][i].op = pool[w][i].op
                /\ pool'[w][i].transfer = pool[w][i].transfer
    PROVE  Keeps
<1>1. UNCHANGED <<source, destination, burnedBy, clock, script, pc, attempt, cur, used, results,
                  left, runNumber, file, state>>
  BY DEF chainVars, stepVars, memoryVars, diskVars
<1>2. TypeInv'
  BY <1>1 DEF TypeInv, ClientTypeOK, InItsScript, Counted, Pools, Jobs
<1>3. ASSUME ScriptInv PROVE ScriptInv'
  <2>0. ChainsGoOn
    BY <1>1, <1>3 DEF ScriptInv, BurnsFollowMints, ChainsGoOn
  <2>1. PlaceIsTrue' /\ BurnsFollowMints' /\ RecordsAreTrue' /\ ReceiptIsTrue'
    BY <1>1, <1>3, <2>0, StandingKeeps, ReceiptStays
  <2>2. OneAwaited'
    <3>1. OneAwaited
      BY <1>3 DEF ScriptInv
    <3> QED BY <1>1, <3>1 DEF OneAwaited
  <2> QED BY <1>3, <2>1, <2>2 DEF ScriptInv
<1> QED BY <1>2, <1>3 DEF Keeps

LEMMA ListsKeep ==
    ASSUME TypeInv, RefundLocks \/ \E op \in {"claimBurn", "refundBurn"}, h \in Transfer :
                                        ReverseCommand(op, h)
    PROVE  Keeps
<1>1. /\ UNCHANGED <<chainVars, script, stepVars, memoryVars, diskVars>>
      /\ UNCHANGED <<destination, pool, receipt, faults>>
  BY DEF RefundLocks, ReverseCommand, chainVars, netVars
<1>2. /\ todo' \in Seq(Jobs)
      /\ \A i \in 1..Len(todo') : ScriptInv /\ todo'[i].op = "claimBurn" =>
            destination[todo'[i].transfer] = "claimed"
  <2>1. CASE RefundLocks
    <3>1. PICK listed \in [1..Cardinality({h \in Transfer : Expired(h)}) ->
                                {h \in Transfer : Expired(h)}] :
            todo' = [i \in 1..Cardinality({h \in Transfer : Expired(h)}) |->
                        Todo("refundBurn", listed[i], TRUE)]
      BY <2>1 DEF RefundLocks
    <3>2. Cardinality({h \in Transfer : Expired(h)}) \in Nat
      <4>1. IsFiniteSet(Transfer)
        BY FS_Interval, ClientAssumption DEF Transfer
      <4>2. {h \in Transfer : Expired(h)} \subseteq Transfer
        OBVIOUS
      <4> QED BY <4>1, <4>2, FS_Subset, FS_CardinalityType
    <3>3. \A i \in 1..Cardinality({h \in Transfer : Expired(h)}) :
            /\ Todo("refundBurn", listed[i], TRUE) \in Jobs
            /\ Todo("refundBurn", listed[i], TRUE).op = "refundBurn"
      BY <3>1 DEF Todo, Jobs, Operation
    <3> DEFINE n == Cardinality({h \in Transfer : Expired(h)})
               job(i) == Todo("refundBurn", listed[i], TRUE)
    <3>4. /\ n \in Nat /\ \A i \in 1..n : job(i) \in Jobs /\ job(i).op = "refundBurn"
          /\ todo' = [i \in 1..n |-> job(i)]
      BY <3>1, <3>2, <3>3
    <3> HIDE DEF n, job
    <3>5. todo' \in Seq(Jobs) /\ Len(todo') = n
      BY <3>4
    <3> QED BY <3>4, <3>5
  <2>2. ASSUME NEW op \in {"claimBurn", "refundBurn"}, NEW h \in Transfer, ReverseCommand(op, h)
        PROVE  /\ todo' \in Seq(Jobs)
               /\ \A i \in 1..Len(todo') : ScriptInv /\ todo'[i].op = "claimBurn" =>
                        destination[todo'[i].transfer] = "claimed"
    <3>1. todo' = <<Todo(op, h, FALSE)>>
      BY <2>2 DEF ReverseCommand
    <3>2. Todo(op, h, FALSE) \in Jobs /\ Todo(op, h, FALSE).op = op /\ Todo(op, h, FALSE).transfer = h
      BY DEF Todo, Jobs, Operation
    <3> DEFINE job == Todo(op, h, FALSE)
    <3>2a. /\ todo' = <<job>> /\ job \in Jobs
      BY <3>1, <3>2
    <3>3. ScriptInv /\ op = "claimBurn" => destination[h] = "claimed"
      <4> SUFFICES ASSUME ScriptInv, op = "claimBurn" PROVE destination[h] = "claimed"
        OBVIOUS
      <4>1. PICK i \in 1..Len(file.content.runs) :
                /\ file.content.runs[i].transfer = h
                /\ file.content.runs[i].mode = "callback-pending"
        BY <2>2 DEF ReverseCommand
      <4>2. RecordIsTrue(file.content.runs[i])
        BY DEF ScriptInv, RecordsAreTrue
      <4> QED BY <4>1, <4>2 DEF RecordIsTrue, ReportIsTrue
    <3>4. job.op = op /\ job.transfer = h
      BY <3>2
    <3> HIDE DEF job
    <3>5. todo' \in Seq(Jobs) /\ Len(todo') = 1 /\ todo'[1] = job
      BY <3>2a
    <3> QED BY <3>3, <3>4, <3>5
  <2> QED BY <2>1, <2>2
<1>3. ScriptInv => BurnsWait'
  BY <1>1, <1>2 DEF ScriptInv, BurnsWait
<1> QED BY <1>1, <1>2, <1>3, PoolTypes, OperatorKeeps DEF TypeInv, ClientTypeOK

LEMMA OperatorStepKeeps == ASSUME TypeInv, OperatorStep PROVE Keeps
<1>t. /\ ClientTypeOK /\ pool \in Pools /\ todo \in Seq(Jobs) /\ Len(todo) \in Nat
      /\ receipt \in [Process -> {"none", "ok", "failed"}] /\ faults \in Nat
  BY PoolTypes, TodoTypes DEF TypeInv, ClientTypeOK
<1>1. /\ todo # <<>>
      /\ UNCHANGED <<chainVars, script, stepVars, memoryVars, diskVars>>
      /\ UNCHANGED destination
  BY DEF OperatorStep, OperatorSkips, OperatorSends, OperatorFails, OperatorWaits, MaySend,
         chainVars
<1>2. /\ Job = todo[1] /\ Job \in Jobs /\ Job.op \in Operation /\ Job.transfer \in Transfer
      /\ Len(todo) >= 1 /\ Tail(todo) \in Seq(Jobs) /\ Len(Tail(todo)) = Len(todo) - 1
      /\ \A i \in 1..Len(Tail(todo)) : Tail(todo)[i] = todo[i + 1]
  <2> DEFINE s == todo
  <2>1. s \in Seq(Jobs) /\ s # <<>>
    BY <1>t, <1>1
  <2> HIDE DEF s
  <2>2. Head(s) = s[1] /\ s[1] \in Jobs /\ Len(s) >= 1
    BY <2>1
  <2>3. Tail(s) \in Seq(Jobs) /\ Len(Tail(s)) = Len(s) - 1
    BY <2>1
  <2>4. \A i \in 1..Len(Tail(s)) : Tail(s)[i] = s[i + 1]
    BY <2>1
  <2>5. s[1].op \in Operation /\ s[1].transfer \in Transfer
    BY <2>2 DEF Jobs
  <2> QED BY <2>2, <2>3, <2>4, <2>5 DEF s, Job
<1>3. ScriptInv => /\ \A w \in Wallet : \A i \in 1..Len(pool[w]) :
                        pool[w][i].op = "claimBurn" => destination[pool[w][i].transfer] = "claimed"
                   /\ \A i \in 1..Len(todo) :
                        todo[i].op = "claimBurn" => destination[todo[i].transfer] = "claimed"
                   /\ Job.op = "claimBurn" => destination[Job.transfer] = "claimed"
  BY <1>2 DEF ScriptInv, BurnsWait
<1>4. ASSUME todo' = Tail(todo) \/ todo' = <<>>
      PROVE  /\ todo' \in Seq(Jobs)
             /\ \A i \in 1..Len(todo') : \E j \in 1..Len(todo) : todo'[i] = todo[j]
  <2>1. CASE todo' = Tail(todo)
    <3>1. \A i \in 1..Len(todo') : i + 1 \in 1..Len(todo) /\ todo'[i] = todo[i + 1]
      BY <1>t, <1>2, <2>1
    <3> QED BY <1>2, <2>1, <3>1
  <2>2. CASE todo' = <<>>
    BY <2>2
  <2> QED BY <1>4, <2>1, <2>2
<1>5. CASE OperatorSkips
  <2>1. todo' = Tail(todo) /\ UNCHANGED <<pool, receipt, faults>>
    BY <1>5 DEF OperatorSkips, SkipSettled, netVars
  <2>2. ScriptInv => BurnsWait'
    BY <1>1, <1>3, <1>4, <2>1 DEF BurnsWait
  <2> QED BY <1>t, <1>1, <1>4, <2>1, <2>2, OperatorKeeps
<1>6. ASSUME NEW by \in {"operator", "nobody"}, pool' = Sent("source", Job.op, Job.transfer, by)
      PROVE  /\ pool' \in Pools
             /\ \A w \in Wallet : \A i \in 1..Len(pool'[w]) : pool'[w][i].by = "script" =>
                    /\ i \in 1..Len(pool[w]) /\ pool[w][i].by = "script"
                    /\ pool'[w][i].op = pool[w][i].op
                    /\ pool'[w][i].transfer = pool[w][i].transfer
             /\ \A w \in Wallet : \A i \in 1..Len(pool'[w]) :
                    \/ i \in 1..Len(pool[w]) /\ pool'[w][i] = pool[w][i]
                    \/ pool'[w][i].op = Job.op /\ pool'[w][i].transfer = Job.transfer
  <2>1. "source" \in Wallet /\ by \in Process \cup {"nobody"} /\ Len(pool["source"]) \in Nat
    BY <1>t, PoolTypes DEF Wallet, Process
  <2>2. /\ pool' \in Pools
        /\ \A v \in Wallet \ {"source"} : pool'[v] = pool[v]
        /\ Len(pool'["source"]) = Len(pool["source"]) + 1
        /\ \A i \in 1..Len(pool["source"]) : pool'["source"][i] = pool["source"][i]
        /\ LET tx == pool'["source"][Len(pool["source"]) + 1]
           IN tx.op = Job.op /\ tx.transfer = Job.transfer /\ tx.by = by
    BY <1>t, <1>2, <1>6, <2>1, SentIn
  <2>3. ASSUME NEW w \in Wallet, NEW i \in 1..Len(pool'[w])
        PROVE  \/ i \in 1..Len(pool[w]) /\ pool'[w][i] = pool[w][i]
               \/ /\ pool'[w][i].op = Job.op /\ pool'[w][i].transfer = Job.transfer
                  /\ pool'[w][i].by = by
    BY <2>1, <2>2
  <2> QED BY <2>2, <2>3
<1>7. CASE OperatorSends
  <2>1. /\ pool' = Sent("source", Job.op, Job.transfer, "operator")
        /\ receipt' = [receipt EXCEPT !["operator"] = "none"]
        /\ todo' = [todo EXCEPT ![1].sent = TRUE] /\ UNCHANGED faults
    BY <1>7 DEF OperatorSends
  <2>2. /\ receipt' \in [Process -> {"none", "ok", "failed"}]
        /\ receipt'["script"] = receipt["script"]
    BY <1>t, <2>1 DEF Process
  <2>3. /\ todo' \in Seq(Jobs) /\ Len(todo') = Len(todo)
        /\ \A i \in 1..Len(todo) : todo'[i].op = todo[i].op /\ todo'[i].transfer = todo[i].transfer
    <3> DEFINE job == todo[1]
               sentJob == [job EXCEPT !.sent = TRUE]
    <3>1. job \in Jobs
      BY <1>2
    <3>2. todo' = [todo EXCEPT ![1] = sentJob]
      BY <2>1
    <3> HIDE DEF job
    <3>3. sentJob \in Jobs /\ sentJob.op = job.op /\ sentJob.transfer = job.transfer
      BY <3>1 DEF Jobs
    <3> HIDE DEF sentJob
    <3>4. /\ todo' \in Seq(Jobs) /\ Len(todo') = Len(todo)
          /\ \A i \in 1..Len(todo) : i # 1 => todo'[i] = todo[i]
          /\ todo'[1] = sentJob
      BY <1>t, <1>2, <3>2, <3>3, ExceptSeq
    <3>5. todo'[1].op = job.op /\ todo'[1].transfer = job.transfer
      BY <3>3, <3>4
    <3>6. todo'[1].op = todo[1].op /\ todo'[1].transfer = todo[1].transfer
      BY <3>5 DEF job
    <3> QED BY <3>4, <3>6
  <2>4. ScriptInv => BurnsWait'
    BY <1>1, <1>3, <1>6, <2>1, <2>3 DEF BurnsWait
  <2> QED BY <1>t, <1>1, <1>6, <2>1, <2>2, <2>3, <2>4, OperatorKeeps
<1>8. CASE OperatorFails
  <2>1. /\ todo' = <<>> /\ UNCHANGED receipt /\ faults' \in Nat
        /\ \/ pool' = Sent("source", Job.op, Job.transfer, "nobody")
           \/ pool' = pool
    BY <1>t, <1>8 DEF OperatorFails, Undelivered, Fault
  <2>2. ScriptInv => BurnsWait'
    BY <1>1, <1>3, <1>4, <1>6, <2>1 DEF BurnsWait
  <2> QED BY <1>t, <1>1, <1>4, <1>6, <2>1, <2>2, OperatorKeeps
<1>9. CASE OperatorWaits
  <2>1. /\ todo' = Tail(todo) \/ todo' = <<>>
        /\ receipt' = [receipt EXCEPT !["operator"] = "none"]
        /\ faults' \in Nat
        /\ pool' = pool \/ pool' = Abandoned("operator")
    BY <1>t, <1>9 DEF OperatorWaits, WaitFails, Fault
  <2>2. /\ receipt' \in [Process -> {"none", "ok", "failed"}]
        /\ receipt'["script"] = receipt["script"]
    BY <1>t, <2>1 DEF Process
  <2>3. /\ pool' \in Pools
        /\ \A w \in Wallet : Len(pool'[w]) = Len(pool[w]) /\ \A i \in 1..Len(pool[w]) :
                /\ pool'[w][i].op = pool[w][i].op
                /\ pool'[w][i].transfer = pool[w][i].transfer
                /\ pool'[w][i].by = "script" => pool[w][i].by = "script"
    <3>1. CASE pool' = Abandoned("operator")
      <4>1. "operator" \in Process
        BY DEF Process
      <4>2. /\ pool' \in Pools
            /\ \A w \in Wallet :
                /\ Len(pool'[w]) = Len(pool[w])
                /\ \A i \in 1..Len(pool[w]) :
                    /\ pool'[w][i].op = pool[w][i].op
                    /\ pool'[w][i].transfer = pool[w][i].transfer
                    /\ pool'[w][i].by = IF pool[w][i].by = "operator" THEN "nobody"
                                        ELSE pool[w][i].by
        BY <1>t, <3>1, <4>1, AbandonedIn
      <4> QED BY <4>2
    <3> QED BY <1>t, <2>1, <3>1
  <2>4. ASSUME ScriptInv PROVE BurnsWait'
    <3>1. ASSUME NEW w \in Wallet, NEW i \in 1..Len(pool'[w]), pool'[w][i].op = "claimBurn"
          PROVE  destination'[pool'[w][i].transfer] = "claimed"
      <4>1. i \in 1..Len(pool[w]) /\ pool'[w][i].op = pool[w][i].op
            /\ pool'[w][i].transfer = pool[w][i].transfer
        BY <2>3
      <4>2. pool[w][i].op = "claimBurn" => destination[pool[w][i].transfer] = "claimed"
        BY <1>3, <2>4, <4>1
      <4> QED BY <1>1, <3>1, <4>1, <4>2
    <3>2. ASSUME NEW i \in 1..Len(todo'), todo'[i].op = "claimBurn"
          PROVE  destination'[todo'[i].transfer] = "claimed"
      <4>1. PICK j \in 1..Len(todo) : todo'[i] = todo[j]
        BY <1>4, <2>1
      <4>2. todo[j].op = "claimBurn" => destination[todo[j].transfer] = "claimed"
        BY <1>3, <2>4
      <4> QED BY <1>1, <3>2, <4>1, <4>2
    <3> QED BY <3>1, <3>2 DEF BurnsWait
  <2> QED BY <1>t, <1>1, <1>4, <2>1, <2>2, <2>3, <2>4, OperatorKeeps
<1> QED BY <1>5, <1>7, <1>8, <1>9 DEF OperatorStep

----------------------------------------------------------------------------
(* Blocks, cancelled nonces and kills.                                       *)

LEMMA OneWait ==
    ASSUME NEW at, NEW v, NEW op, WaitsFor(at, v, op), NEW w, NEW other, WaitsFor(at, w, other)
    PROVE  v = w /\ op = other
  BY DEF WaitsFor

\* The oldest transaction of an account leaves the pool, and who waits for it learns
\* of an outcome.
LEMMA TakenKeeps ==
    ASSUME TypeInv, NEW w \in Wallet, pool[w] # <<>>, pool' = [pool EXCEPT ![w] = Tail(@)],
           NEW tx, tx = Head(pool[w]), NEW outcome \in {"ok", "failed"},
           receipt' = (IF tx.by = "nobody" THEN receipt
                       ELSE [receipt EXCEPT ![tx.by] = outcome]),
           source' \in [Transfer -> {"EMPTY", "LOCKED", "CLAIMED", "REFUNDED"}],
           destination' \in [Transfer -> {"none", "pending", "claimed", "refunded"}],
           burnedBy' \in [Transfer -> Wallet \cup {"nobody", "callback", "stranger"}],
           clock' \in [Transfer -> FRESH .. REFUND_OPEN],
           ScriptInv => ChainsGoOn /\ (outcome = "ok" => Took(tx.op, tx.transfer, w)'),
           UNCHANGED <<script, stepVars, memoryVars, diskVars, todo>>, faults' \in Nat
    PROVE  Keeps
<1>t. ClientTypeOK /\ pool \in Pools /\ receipt \in [Process -> {"none", "ok", "failed"}]
  BY PoolTypes DEF TypeInv, ClientTypeOK
<1>1. UNCHANGED <<script, pc, attempt, cur, used, results, left, runNumber, file, state, todo>>
  BY DEF stepVars, memoryVars, diskVars
<1>2. /\ pool' \in Pools /\ tx = pool[w][1] /\ tx \in Transaction
      /\ \A v \in Wallet \ {w} : pool'[v] = pool[v]
      /\ Len(pool[w]) >= 1 /\ Len(pool'[w]) = Len(pool[w]) - 1
      /\ \A i \in 1..Len(pool'[w]) : pool'[w][i] = pool[w][i + 1]
  <2>1. pool' = Taken(w)
    BY DEF Taken
  <2>2. /\ pool' \in Pools /\ Head(pool[w]) = pool[w][1] /\ pool[w][1] \in Transaction
        /\ \A v \in Wallet \ {w} : pool'[v] = pool[v]
        /\ Len(pool[w]) >= 1 /\ Len(pool'[w]) = Len(pool[w]) - 1
        /\ \A i \in 1..Len(pool'[w]) : pool'[w][i] = pool[w][i + 1]
    BY <1>t, <2>1, MinedIn
  <2> QED BY <2>2
<1>3. \A v \in Wallet : Len(pool[v]) \in Nat
  BY <1>t, PoolTypes
<1>4. tx.by \in Process \cup {"nobody"} /\ tx.op \in Operation /\ tx.transfer \in Transfer
  BY <1>2 DEF Transaction
<1>5. /\ receipt' \in [Process -> {"none", "ok", "failed"}]
      /\ tx.by = "script" => receipt'["script"] = outcome
      /\ tx.by # "script" => receipt'["script"] = receipt["script"]
  BY <1>t, <1>4 DEF Process
\* What is left was there before, further back, and is not the head.
<1>6. ASSUME NEW v \in Wallet, NEW i \in 1..Len(pool'[v])
      PROVE  \E j \in 1..Len(pool[v]) :
                /\ pool'[v][i] = pool[v][j]
                /\ v = w => j = i + 1
                /\ v # w => j = i
  <2>1. CASE v = w
    <3>1. i + 1 \in 1..Len(pool[v]) /\ pool'[v][i] = pool[v][i + 1]
      BY <1>2, <1>3, <2>1
    <3> QED BY <2>1, <3>1
  <2>2. CASE v # w
    <3>1. pool'[v] = pool[v]
      BY <1>2, <2>2
    <3> QED BY <2>2, <3>1
  <2> QED BY <2>1, <2>2
<1>7. TypeInv'
  BY <1>1, <1>2, <1>5 DEF TypeInv, ClientTypeOK, InItsScript, Counted, Pools
<1>8. ASSUME ScriptInv PROVE ScriptInv'
  <2>1. ChainsGoOn /\ (outcome = "ok" => Took(tx.op, tx.transfer, w)')
    BY <1>8
  <2>2. PlaceIsTrue' /\ BurnsFollowMints' /\ RecordsAreTrue'
    BY <1>1, <1>8, <2>1, StandingKeeps
  <2>3. tx.by = "script" => WaitsFor(pc, w, tx.op) /\ tx.transfer = cur
    BY <1>2, <1>3, <1>8 DEF ScriptInv, OneAwaited
  <2>4. ReceiptIsTrue'
    <3>1. CASE tx.by # "script"
      BY <1>1, <1>5, <1>8, <2>1, <3>1, ReceiptStays
    <3>2. CASE tx.by = "script"
      <4> SUFFICES ASSUME receipt'["script"] = "ok", NEW v \in Wallet, NEW op \in Operation,
                          WaitsFor(pc, v, op)
                   PROVE  Took(op, cur, v)'
        BY <1>1 DEF ReceiptIsTrue, WaitsFor
      <4>1. v = w /\ op = tx.op /\ cur = tx.transfer
        BY <2>3, <3>2, OneWait
      <4>2. Took(tx.op, tx.transfer, w)'
        BY <1>5, <2>1, <3>2
      <4> QED BY <1>1, <4>1, <4>2 DEF Took
    <3> QED BY <3>1, <3>2
  <2>5. OneAwaited'
    <3> SUFFICES ASSUME NEW v \in Wallet, NEW i \in 1..Len(pool'[v]), pool'[v][i].by = "script"
                 PROVE  /\ WaitsFor(pc, v, pool'[v][i].op) /\ pool'[v][i].transfer = cur
                        /\ receipt'["script"] = "none"
                        /\ \A k \in 1..Len(pool'[v]) : pool'[v][k].by = "script" => k = i
      BY <1>1 DEF OneAwaited
    <3>1. PICK j \in 1..Len(pool[v]) :
            pool'[v][i] = pool[v][j] /\ (v = w => j = i + 1) /\ (v # w => j = i)
      BY <1>6
    <3>2. /\ WaitsFor(pc, v, pool[v][j].op) /\ pool[v][j].transfer = cur
          /\ receipt["script"] = "none"
          /\ \A k \in 1..Len(pool[v]) : pool[v][k].by = "script" => k = j
      BY <1>8, <3>1 DEF ScriptInv, OneAwaited
    <3>3. tx.by # "script"
      <4> SUFFICES ASSUME tx.by = "script" PROVE FALSE
        OBVIOUS
      <4>1. v = w
        BY <2>3, <3>2, OneWait
      <4>2. 1 \in 1..Len(pool[v]) /\ pool[v][1].by = "script"
        BY <1>2, <1>3, <4>1
      <4>3. j = 1
        BY <3>2, <4>2
      <4> QED BY <3>1, <4>1, <4>3
    <3>4. ASSUME NEW k \in 1..Len(pool'[v]), pool'[v][k].by = "script" PROVE k = i
      <4>1. PICK l \in 1..Len(pool[v]) :
              pool'[v][k] = pool[v][l] /\ (v = w => l = k + 1) /\ (v # w => l = k)
        BY <1>6
      <4>2. l = j
        BY <3>2, <3>4, <4>1
      <4>3. k \in Nat /\ i \in Nat
        OBVIOUS
      <4> QED BY <3>1, <4>1, <4>2, <4>3
    <3> QED BY <1>5, <3>1, <3>2, <3>3, <3>4
  <2>6. BurnsWait'
    <3>1. ASSUME NEW v \in Wallet, NEW i \in 1..Len(pool'[v]), pool'[v][i].op = "claimBurn"
          PROVE  destination'[pool'[v][i].transfer] = "claimed"
      <4>1. PICK j \in 1..Len(pool[v]) : pool'[v][i] = pool[v][j]
        BY <1>6
      <4>2. pool[v][j].transfer \in Transfer
        BY <1>t, PoolTypes
      <4>3. destination[pool[v][j].transfer] = "claimed"
        BY <1>8, <3>1, <4>1 DEF ScriptInv, BurnsWait
      <4> QED BY <2>1, <4>1, <4>2, <4>3 DEF ChainsGoOn
    <3>2. ASSUME NEW i \in 1..Len(todo), todo[i].op = "claimBurn"
          PROVE  destination'[todo[i].transfer] = "claimed"
      <4>1. todo[i].transfer \in Transfer
        BY <1>t, TodoTypes
      <4>2. destination[todo[i].transfer] = "claimed"
        BY <1>8, <3>2 DEF ScriptInv, BurnsWait
      <4> QED BY <2>1, <4>1, <4>2 DEF ChainsGoOn
    <3> QED BY <1>1, <3>1, <3>2 DEF BurnsWait
  <2> QED BY <2>2, <2>4, <2>5, <2>6 DEF ScriptInv
<1> QED BY <1>7, <1>8 DEF Keeps

LEMMA MineKeeps == ASSUME TypeInv, NEW w \in Wallet, Mine(w) PROVE Keeps
<1>p. PICK tx : tx = Head(pool[w])
  OBVIOUS
<1>q. PICK outcome :
        outcome = IF SourceAccepts(tx.op, tx.transfer) \/ DestinationAccepts(tx.op, tx.transfer)
                  THEN "ok" ELSE "failed"
  OBVIOUS
<1>t. ClientTypeOK /\ pool \in Pools /\ faults \in Nat
  BY PoolTypes DEF TypeInv, ClientTypeOK
<1>1. /\ pool[w] # <<>> /\ pool' = [pool EXCEPT ![w] = Tail(@)]
      /\ Executed(tx.op, tx.transfer, w)
      /\ receipt' = (IF tx.by = "nobody" THEN receipt
                     ELSE [receipt EXCEPT ![tx.by] = outcome])
      /\ UNCHANGED <<script, stepVars, memoryVars, diskVars, todo>> /\ UNCHANGED faults
  BY <1>p, <1>q DEF Mine
<1>2. /\ tx = pool[w][1] /\ Len(pool[w]) >= 1 /\ Len(pool[w]) \in Nat
      /\ tx.op \in Operation /\ tx.transfer \in Transfer
  BY <1>p, <1>t, <1>1, MinedIn, PoolTypes DEF Transaction, Taken
<1>3. ASSUME ScriptInv PROVE ChainsGoOn /\ (outcome = "ok" => Took(tx.op, tx.transfer, w)')
  <2>1. tx.op = "claimBurn" => destination[tx.transfer] = "claimed"
    BY <1>2, <1>3 DEF ScriptInv, BurnsWait
  <2>2. outcome = "ok" => SourceAccepts(tx.op, tx.transfer) \/ DestinationAccepts(tx.op, tx.transfer)
    BY <1>q
  <2> QED BY <1>t, <1>1, <1>2, <2>1, <2>2, ExecutedGoesOn
<1>4. /\ source' \in [Transfer -> {"EMPTY", "LOCKED", "CLAIMED", "REFUNDED"}]
      /\ destination' \in [Transfer -> {"none", "pending", "claimed", "refunded"}]
      /\ burnedBy' \in [Transfer -> Wallet \cup {"nobody", "callback", "stranger"}]
      /\ clock' \in [Transfer -> FRESH .. REFUND_OPEN]
  BY <1>t, <1>1, <1>2, ExecutedTypes
<1>5. outcome \in {"ok", "failed"}
  BY <1>q
<1> QED BY <1>p, <1>t, <1>1, <1>3, <1>4, <1>5, TakenKeeps

LEMMA CancelKeeps == ASSUME TypeInv, CancelPending PROVE Keeps
<1>t. /\ ClientTypeOK
      /\ source \in [Transfer -> {"EMPTY", "LOCKED", "CLAIMED", "REFUNDED"}]
      /\ destination \in [Transfer -> {"none", "pending", "claimed", "refunded"}]
      /\ burnedBy \in [Transfer -> Wallet \cup {"nobody", "callback", "stranger"}]
      /\ clock \in [Transfer -> FRESH .. REFUND_OPEN]
      /\ faults \in Nat
  BY DEF TypeInv, ClientTypeOK
<1>p. PICK tx : tx = Head(pool["source"])
  OBVIOUS
<1>1. /\ pool["source"] # <<>> /\ pool' = [pool EXCEPT !["source"] = Tail(@)]
      /\ receipt' = (IF tx.by = "nobody" THEN receipt ELSE [receipt EXCEPT ![tx.by] = "failed"])
      /\ UNCHANGED <<script, stepVars, memoryVars, diskVars, todo>>
      /\ UNCHANGED <<source, destination, burnedBy, clock>>
      /\ faults' \in Nat
  BY <1>p, <1>t DEF CancelPending, Fault, chainVars
<1>2. ScriptInv => ChainsGoOn
  BY <1>1 DEF ScriptInv, BurnsFollowMints, ChainsGoOn
<1>3. "source" \in Wallet
  BY DEF Wallet
<1>4. "failed" # "ok"
  OBVIOUS
<1> QED BY <1>p, <1>t, <1>1, <1>2, <1>3, <1>4, TakenKeeps

LEMMA KillKeeps == ASSUME TypeInv, Kill PROVE Keeps
<1>t. ClientTypeOK /\ pool \in Pools
  BY PoolTypes DEF TypeInv
<1>1. /\ pc' = "idle" /\ attempt' = 1 /\ results' = NoResults /\ left' = 0 /\ runNumber' = 0
      /\ pool' = Abandoned("script") /\ receipt' = [receipt EXCEPT !["script"] = "none"]
      /\ file' = file \/ file' = TornFile
      /\ state' = state \/ state' = TornState
      /\ faults' = faults + 1
      /\ UNCHANGED <<source, destination, burnedBy, clock, script, cur, used, todo>>
  BY DEF Kill, Fault, chainVars
<1>2. /\ pool' \in Pools
      /\ \A w \in Wallet : Len(pool'[w]) = Len(pool[w]) /\ \A i \in 1..Len(pool[w]) :
            /\ pool'[w][i].op = pool[w][i].op
            /\ pool'[w][i].transfer = pool[w][i].transfer
            /\ pool'[w][i].by # "script"
  <2>1. "script" \in Process
    BY DEF Process
  <2>2. /\ pool' \in Pools
        /\ \A w \in Wallet :
            /\ Len(pool'[w]) = Len(pool[w])
            /\ \A i \in 1..Len(pool[w]) :
                /\ pool'[w][i].op = pool[w][i].op
                /\ pool'[w][i].transfer = pool[w][i].transfer
                /\ pool'[w][i].by = IF pool[w][i].by = "script" THEN "nobody"
                                    ELSE pool[w][i].by
    BY <1>t, <1>1, <2>1, AbandonedIn
  <2> QED BY <2>2
<1>3. receipt' \in [Process -> {"none", "ok", "failed"}] /\ receipt'["script"] = "none"
  BY <1>t, <1>1 DEF ClientTypeOK, Process
<1>4. /\ NoResults \in Results /\ TornFile \in [torn : BOOLEAN, content : Results]
      /\ Len(NoResults.runs) = 0 /\ Len(TornFile.content.runs) = 0
  BY DEF NoResults, NoSummary, TornFile, Results, Summary
<1>5. /\ TornState \in [status : {"none", "torn", "locked", "claimed_cosmos", "completed"},
                        transfer : 0..MaxTransfers]
      /\ TornState.status = "torn" /\ TornState.transfer = 0
  BY ClientAssumption DEF TornState
<1>6. TypeInv'
  <2>1. ClientTypeOK'
    <3>1. /\ pc' \in PC /\ attempt' \in 1..MaxRetries /\ left' \in Nat /\ runNumber' \in Nat
          /\ results' \in Results /\ faults' \in Nat
      BY <1>t, <1>1, <1>4, ClientAssumption DEF ClientTypeOK, PC
    <3>2. /\ file' \in [torn : BOOLEAN, content : Results]
          /\ state' \in [status : {"none", "torn", "locked", "claimed_cosmos", "completed"},
                         transfer : 0..MaxTransfers]
      BY <1>t, <1>1, <1>4, <1>5 DEF ClientTypeOK
    <3> QED BY <1>t, <1>1, <1>2, <1>3, <3>1, <3>2 DEF ClientTypeOK, Pools
  <2>2. InItsScript'
    BY <1>1 DEF InItsScript, EvaluationPC, RefundTestPC, QuickPC, ReversePC, BountyPC
  <2>3. Counted'
    <3>1. used \in Nat
      BY <1>t, ClientAssumption DEF ClientTypeOK
    <3>2. state'.transfer <= used
      BY <1>1, <1>5, <3>1 DEF TypeInv, Counted
    <3>3. state'.status \notin {"none", "torn"} => state'.transfer \in Transfer
      BY <1>1, <1>5 DEF TypeInv, Counted
    <3> QED BY <1>1, <3>2, <3>3 DEF Counted, Working
  <2> QED BY <2>1, <2>2, <2>3 DEF TypeInv
<1>7. ASSUME ScriptInv PROVE ScriptInv'
  <2>1. OneAwaited'
    BY <1>2 DEF OneAwaited
  <2>2. ReceiptIsTrue'
    BY <1>3 DEF ReceiptIsTrue
  <2>3. PlaceIsTrue'
    BY <1>1 DEF PlaceIsTrue, ClaimedAt, BurnedAt, CancelledAt
  <2>4. BurnsWait'
    BY <1>1, <1>2, <1>7 DEF ScriptInv, BurnsWait
  <2>5. BurnsFollowMints'
    BY <1>1, <1>7 DEF ScriptInv, BurnsFollowMints
  <2>6. RecordsAreTrue'
    <3>1. \A i \in 1..Len(file'.content.runs) : RecordIsTrue(file.content.runs[i])'
      <4>1. CASE file' = file
        BY <1>1, <1>7, <4>1 DEF ScriptInv, RecordsAreTrue, RecordIsTrue, ReportIsTrue, Settled
      <4>2. CASE file' = TornFile
        BY <1>4, <4>2
      <4> QED BY <1>1, <4>1, <4>2
    <3>2. \A i \in 1..Len(results'.runs) : RecordIsTrue(results.runs[i])'
      BY <1>1, <1>4
    <3>3. /\ state'.status = "claimed_cosmos" => destination'[state'.transfer] = "claimed"
          /\ state'.status = "completed" => Settled(state.transfer)'
      <4>1. CASE state' = state
        BY <1>1, <1>7, <4>1 DEF ScriptInv, RecordsAreTrue, Settled
      <4>2. CASE state' = TornState
        BY <1>5, <4>2
      <4> QED BY <1>1, <4>1, <4>2
    <3> QED BY <3>1, <3>2, <3>3 DEF RecordsAreTrue
  <2> QED BY <2>1, <2>2, <2>3, <2>4, <2>5, <2>6 DEF ScriptInv
<1> QED BY <1>6, <1>7 DEF Keeps

----------------------------------------------------------------------------
(* The invariants.                                                           *)

LEMMA ClientStarts == ClientInit => TypeInv /\ ScriptInv
<1> SUFFICES ASSUME ClientInit PROVE TypeInv /\ ScriptInv
  OBVIOUS
<1>1. /\ source = [h \in Transfer |-> "EMPTY"] /\ destination = [h \in Transfer |-> "none"]
      /\ burnedBy = [h \in Transfer |-> "nobody"] /\ clock = [h \in Transfer |-> FRESH]
      /\ pool = [w \in Wallet |-> <<>>] /\ receipt = [p \in Process |-> "none"]
      /\ script \in Script /\ pc = "idle" /\ attempt = 1
      /\ cur = 0 /\ used = 0 /\ results = NoResults /\ left = 0 /\ runNumber = 0
      /\ file = NewFile /\ state = NewState
      /\ todo = <<>> /\ faults = 0
  BY DEF ClientInit
<1>2. /\ NoResults \in Results /\ NewFile \in [torn : BOOLEAN, content : Results]
      /\ Len(NoResults.runs) = 0 /\ Len(NewFile.content.runs) = 0
  BY DEF NoResults, NoSummary, NewFile, Results, Summary
<1>3. /\ NewState \in [status : {"none", "torn", "locked", "claimed_cosmos", "completed"},
                       transfer : 0..MaxTransfers]
      /\ NewState.status = "none" /\ NewState.transfer = 0
  BY ClientAssumption DEF NewState
<1>4. pool \in Pools /\ \A w \in Wallet : Len(pool[w]) = 0
  BY <1>1 DEF Pools
<1>5. ClientTypeOK
  <2>1. clock \in [Transfer -> FRESH .. REFUND_OPEN] /\ pc \in PC /\ todo \in Seq(Jobs)
    BY <1>1 DEF FRESH, REFUND_OPEN, PC
  <2>2. attempt \in 1..MaxRetries /\ used \in 0..MaxTransfers /\ cur \in 0..used
    BY <1>1, ClientAssumption
  <2> QED BY <1>1, <1>2, <1>3, <1>4, <2>1, <2>2 DEF ClientTypeOK, Pools, Jobs
<1>6. InItsScript
  BY <1>1 DEF InItsScript, EvaluationPC, RefundTestPC, QuickPC, ReversePC, BountyPC
<1>7. Counted
  BY <1>1, <1>3 DEF Counted, Working
<1>8. OneAwaited /\ ReceiptIsTrue
  BY <1>1, <1>4 DEF OneAwaited, ReceiptIsTrue, Process
<1>9. PlaceIsTrue
  BY <1>1 DEF PlaceIsTrue, ClaimedAt, BurnedAt, CancelledAt
<1>10. BurnsWait /\ BurnsFollowMints
  BY <1>1, <1>4 DEF BurnsWait, BurnsFollowMints
<1>11. RecordsAreTrue
  BY <1>1, <1>2, <1>3 DEF RecordsAreTrue
<1> QED BY <1>5, <1>6, <1>7, <1>8, <1>9, <1>10, <1>11 DEF TypeInv, ScriptInv

LEMMA ClientGoesOn == TypeInv /\ [ClientNext]_clientVars => Keeps
<1> SUFFICES ASSUME TypeInv, [ClientNext]_clientVars PROVE Keeps
  OBVIOUS
<1>1. CASE ScriptAction
  BY <1>1, EvaluationKeeps, QuickTestKeeps, ReverseTestKeeps, BountyDemoKeeps DEF ScriptAction
<1>2. CASE Kill
  BY <1>2, KillKeeps
<1>3. CASE \E w \in Wallet : Mine(w)
  BY <1>3, MineKeeps
<1>4. CASE \E h \in Transfer : \/ Relay(h)
                               \/ \E who \in Burners : BurnByOther(h, who)
                               \/ ExpireMint(h)
                               \/ Tick(h)
  BY <1>4, OthersKeep
<1>5. CASE OperatorStart
  BY <1>5, ListsKeep DEF OperatorStart
<1>6. CASE OperatorStep
  BY <1>6, OperatorStepKeeps
<1>7. CASE CancelPending
  BY <1>7, CancelKeeps
<1>8. CASE UNCHANGED clientVars
  <2>1. UNCHANGED <<source, destination, burnedBy, clock, pool, receipt, script, pc, attempt, cur,
                    used, results, left, runNumber, file, state, todo, faults>>
    BY <1>8 DEF clientVars, chainVars, netVars, stepVars, memoryVars, diskVars
  <2>2. TypeInv'
    BY <2>1 DEF TypeInv, ClientTypeOK, InItsScript, Counted
  <2>3. ASSUME ScriptInv PROVE ScriptInv'
    <3>1. OneAwaited' /\ ReceiptIsTrue'
      BY <2>1, <2>3 DEF ScriptInv, OneAwaited, ReceiptIsTrue, WaitsFor, Took
    <3>2. PlaceIsTrue' /\ BurnsWait' /\ BurnsFollowMints'
      BY <2>1, <2>3 DEF ScriptInv, PlaceIsTrue, BurnsWait, BurnsFollowMints
    <3>3. RecordsAreTrue'
      BY <2>1, <2>3 DEF ScriptInv, RecordsAreTrue, RecordIsTrue, ReportIsTrue, Settled
    <3> QED BY <3>1, <3>2, <3>3 DEF ScriptInv
  <2> QED BY <2>2, <2>3 DEF Keeps
<1> QED BY <1>1, <1>2, <1>3, <1>4, <1>5, <1>6, <1>7, <1>8 DEF ClientNext

\* Type correctness of the scripts: no retry loop runs past maxRetries, no batch past its
\* transfers, and no command works on a transfer that was never started.
THEOREM ClientTypeCorrect == ClientSpec => []ClientTypeOK
<1>1. ClientInit => TypeInv
  BY ClientStarts
<1>2. TypeInv /\ [ClientNext]_clientVars => TypeInv'
  BY ClientGoesOn DEF Keeps
<1>3. TypeInv => ClientTypeOK
  BY DEF TypeInv
<1> QED BY <1>1, <1>2, <1>3, PTL DEF ClientSpec

\* What every reader of the chains and the files may rely on.  htlc-quick-test.js
\* needs the operator to run claim-evm only after claim-cosmos.
LEMMA ScriptsKeepTheirWord ==
    ASSUME OperatorFollowsPrompts
    PROVE  ClientSpec => [](TypeInv /\ ScriptInv)
<1>1. ClientInit => TypeInv /\ ScriptInv
  BY ClientStarts
<1>2. TypeInv /\ ScriptInv /\ [ClientNext]_clientVars => (TypeInv /\ ScriptInv)'
  BY ClientGoesOn DEF Keeps
<1> QED BY <1>1, <1>2, PTL DEF ClientSpec

\* No claimBurn a script or its operator sends overtakes the mint it settles, for any
\* number of transfers, lost answers, retries, kills and foreign burns.
THEOREM BurnsNeverLead ==
    ASSUME OperatorFollowsPrompts
    PROVE  ClientSpec => []BurnsFollowMints
<1>1. TypeInv /\ ScriptInv => BurnsFollowMints
  BY DEF ScriptInv
<1> QED BY <1>1, ScriptsKeepTheirWord, PTL

\* Whatever is written in a results or state file held on the chains when it was
\* written and holds for good, and a refund test that passes has cancelled both sides.
THEOREM ReportsStayTrue ==
    ASSUME OperatorFollowsPrompts
    PROVE  ClientSpec => []ReportsAreTrue
<1>1. TypeInv /\ ScriptInv => ReportsAreTrue
  BY DEF ScriptInv, RecordsAreTrue, RecordIsTrue, PlaceIsTrue, CancelledAt, ReportsAreTrue
<1> QED BY <1>1, ScriptsKeepTheirWord, PTL

----------------------------------------------------------------------------
(* The batch that is behind an evaluation.                                   *)

\* What a step of an evaluation does to what EvaluationBatch sees.
Outside == {"idle", "saving", "resaving", "summary"}
Stands ==
    /\ UNCHANGED <<results, left, runNumber, file>>
    /\ pc' # pc => pc \notin Outside /\ pc' \notin Outside

Loads ==
    /\ pc = "idle" /\ ~file.torn /\ pc' = "preflight"
    /\ left' \in 1..MaxTransfers /\ results' = file.content /\ file' = file
    /\ runNumber' = Len(file.content.runs) + 1

Pushes ==
    /\ pc \notin Outside /\ pc' = "saving" /\ UNCHANGED <<left, runNumber, file>>
    /\ \E r \in Record : /\ r.run_number = runNumber
                         /\ results'.runs = Append(results.runs, r)

Throws ==
    /\ pc = "saving" /\ results.runs[Len(results.runs)].success
    /\ pc' = "resaving" /\ UNCHANGED <<left, runNumber>>
    /\ file' = file \/ file' = TornFile
    /\ \E r \in Record : /\ r.run_number = runNumber /\ r.success = FALSE
                         /\ results'.runs = Append(results.runs, r)

Dies ==
    /\ pc # "idle" /\ pc' = "idle"
    /\ file' = file \/ file' = TornFile

BatchMoves == Stands \/ Loads \/ Pushes \/ Throws \/ SaveResults \/ Summarise \/ Dies

LEMMA SubmitStands ==
    ASSUME NEW from, NEW w, NEW op, NEW to, NEW retried \in BOOLEAN,
           SubmitEdge(from, w, op, to), Submit(from, w, op, cur, to, retried)
    PROVE  Stands
<1>1. pc = from /\ pc' \in {from, to, "failed"} /\ UNCHANGED <<results, left, runNumber, file>>
  BY DEF Submit, Retry, memoryVars, diskVars
<1>2. from \notin Outside /\ to \notin Outside
  BY DEF SubmitEdge, Outside
<1> QED BY <1>1, <1>2 DEF Stands, Outside

LEMMA AwaitStands ==
    ASSUME NEW at, NEW to, NEW from, NEW retried \in BOOLEAN,
           AwaitEdge(at, to, from), Await(at, to, from, retried)
    PROVE  Stands
<1>1. pc = at /\ pc' \in {from, to, "failed"} /\ UNCHANGED <<results, left, runNumber, file>>
  BY DEF Await, Retry, memoryVars, diskVars
<1>2. at \notin Outside /\ from \notin Outside /\ to \notin Outside
  BY DEF AwaitEdge, Outside
<1> QED BY <1>1, <1>2 DEF Stands, Outside

LEMMA GotoStands ==
    ASSUME NEW at, NEW to, at \notin Outside, to \notin Outside, Goto(at, to)
    PROVE  Stands
  BY DEF Goto, Stands, memoryVars, diskVars

LEMMA PushMoves ==
    ASSUME TypeInv, NEW success \in BOOLEAN, NEW mode \in Mode, NEW h \in 0..MaxTransfers,
           Pushed(success, mode, h)
    PROVE  \E r \in Record : /\ r.run_number = runNumber /\ r.success = success
                             /\ results'.runs = Append(results.runs, r)
<1>1. results \in Results /\ results.runs \in Seq(Record) /\ runNumber \in Nat
  BY DEF TypeInv, ClientTypeOK, Results
<1> DEFINE r == [run_number |-> runNumber, success |-> success, lock |-> success,
                 mode |-> mode, transfer |-> h]
<1>2. r \in Record /\ r.run_number = runNumber /\ r.success = success
  BY <1>1 DEF Record
<1>3. results' = [results EXCEPT !.runs = Append(results.runs, r)]
  BY DEF Pushed
<1> HIDE DEF r
<1>4. results'.runs = Append(results.runs, r)
  BY <1>1, <1>3 DEF Results
<1> QED BY <1>2, <1>4

LEMMA EvaluationMoves ==
    ASSUME TypeInv, script = "evaluation", Evaluation
    PROVE  BatchMoves
<1>t. pc \in EvaluationPC
  BY DEF TypeInv, InItsScript
<1>1. CASE \E n \in 1..MaxTransfers : RunBatch(n)
  <2>1. PICK n \in 1..MaxTransfers : RunBatch(n)
    BY <1>1
  <2>2. Loads
    BY <1>t, <2>1 DEF RunBatch, Idle, EvaluationPC, LoadOrInitializeResults, Loads, diskVars
  <2> QED BY <2>2 DEF BatchMoves
<1>2. CASE Preflight
  <2>1. pc = "preflight" /\ UNCHANGED <<left, runNumber, file>>
    BY <1>2 DEF Preflight, diskVars
  <2>2. CASE pc' = "lock" /\ UNCHANGED results
    BY <2>1, <2>2 DEF BatchMoves, Stands, Outside
  <2>3. CASE Pushed(FALSE, "none", 0) /\ pc' = "saving"
    <3>1. "none" \in Mode /\ 0 \in 0..MaxTransfers /\ FALSE \in BOOLEAN
      BY ClientAssumption DEF Mode
    <3>2. \E r \in Record : /\ r.run_number = runNumber /\ r.success = FALSE
                            /\ results'.runs = Append(results.runs, r)
      BY <2>3, <3>1, PushMoves
    <3>3. Pushes
      BY <2>1, <2>3, <3>2 DEF Pushes, Outside
    <3> QED BY <3>3 DEF BatchMoves
  <2> QED BY <1>2, <2>2, <2>3 DEF Preflight
<1>3. CASE LockTokensForRun
  <2>1. CASE Submit("lock", "source", "lockForBurn", cur, "locking", TRUE)
    BY <2>1, SubmitStands DEF SubmitEdge, BatchMoves
  <2>2. CASE Await("locking", "relay", "lock", FALSE)
    BY <2>2, AwaitStands DEF AwaitEdge, BatchMoves
  <2> QED BY <1>3, <2>1, <2>2 DEF LockTokensForRun
<1>4. CASE WaitForRelayWithPolling
  <2>1. Goto("relay", "verify") \/ Goto("relay", "failed")
    BY <1>4 DEF WaitForRelayWithPolling, See
  <2> QED BY <2>1, GotoStands DEF BatchMoves, Outside
<1>5. CASE ClaimOnCosmosForRun
  <2>1. CASE See("verify", destination[cur] = "pending", "claim", "failed")
    <3>1. Goto("verify", "claim") \/ Goto("verify", "failed")
      BY <2>1 DEF See
    <3> QED BY <3>1, GotoStands DEF BatchMoves, Outside
  <2>2. CASE Submit("claim", "destination", "claimMint", cur, "claiming", TRUE)
    BY <2>2, SubmitStands DEF SubmitEdge, BatchMoves
  <2>3. CASE Await("claiming", "automatic", "claim", TRUE)
    BY <2>3, AwaitStands DEF AwaitEdge, BatchMoves
  <2> QED BY <1>5, <2>1, <2>2, <2>3 DEF ClaimOnCosmosForRun
<1>6. CASE WaitForAutomaticBurn
  <2>1. \/ Goto("automatic", "called-back") \/ Goto("automatic", "fallback")
        \/ Goto("automatic", "failed")
    BY <1>6 DEF WaitForAutomaticBurn, See
  <2> QED BY <2>1, GotoStands DEF BatchMoves, Outside
<1>7. CASE BurnOnEVMForRun
  <2>1. CASE See("fallback", source[cur] = "LOCKED", "burn", "failed")
    <3>1. Goto("fallback", "burn") \/ Goto("fallback", "failed")
      BY <2>1 DEF See
    <3> QED BY <3>1, GotoStands DEF BatchMoves, Outside
  <2>2. CASE Submit("burn", "source", "claimBurn", cur, "burning", TRUE)
    BY <2>2, SubmitStands DEF SubmitEdge, BatchMoves
  <2>3. CASE Await("burning", "burned", "burn", FALSE)
    BY <2>3, AwaitStands DEF AwaitEdge, BatchMoves
  <2> QED BY <1>7, <2>1, <2>2, <2>3 DEF BurnOnEVMForRun
<1>8. CASE RecordRun
  <2>1. ASSUME NEW at \in {"called-back", "burned", "failed"}, NEW success \in BOOLEAN,
               NEW mode \in Mode, KeepRun(at, success, mode, cur)
        PROVE  Pushes
    <3>1. cur \in 0..MaxTransfers
      BY ClientAssumption DEF TypeInv, ClientTypeOK
    <3>2. /\ pc \notin Outside /\ pc' = "saving" /\ UNCHANGED <<left, runNumber, file>>
          /\ Pushed(success, mode, cur)
      BY <2>1 DEF KeepRun, Outside, diskVars
    <3>3. PICK h : h = cur
      OBVIOUS
    <3>4. Pushed(success, mode, h)
      BY <3>2, <3>3
    <3>5. \E r \in Record : /\ r.run_number = runNumber
                            /\ results'.runs = Append(results.runs, r)
      BY <3>1, <3>3, <3>4, PushMoves
    <3> QED BY <3>2, <3>5 DEF Pushes
  <2>2. Pushes
    BY <1>8, <2>1 DEF RecordRun, Mode
  <2> QED BY <2>2 DEF BatchMoves
<1>9. CASE SaveResults \/ Summarise
  BY <1>9 DEF BatchMoves
<1>10. CASE SaveThrows
  <2>1. /\ pc = "saving" /\ results.runs[Len(results.runs)].success
        /\ pc' = "resaving" /\ UNCHANGED <<left, runNumber>>
        /\ file' = file \/ file' = TornFile
        /\ Pushed(FALSE, "none", cur)
    BY <1>10 DEF SaveThrows
  <2>2. PICK h \in 0..MaxTransfers : h = cur
    BY ClientAssumption DEF TypeInv, ClientTypeOK
  <2>3. Pushed(FALSE, "none", h) /\ FALSE \in BOOLEAN /\ "none" \in Mode
    BY <2>1, <2>2 DEF Mode
  <2>4. \E r \in Record : /\ r.run_number = runNumber /\ r.success = FALSE
                          /\ results'.runs = Append(results.runs, r)
    BY <2>3, PushMoves
  <2>5. Throws
    BY <2>1, <2>4 DEF Throws
  <2> QED BY <2>5 DEF BatchMoves
<1>11. CASE RefundTest \/ RefundTestSteps
  <2>1. \/ pc \in {"expire", "refund-mint", "refunding-mint", "wait-timelock", "refund",
                   "refunding"}
        \/ script = "refund-test"
    BY <1>11 DEF RefundTest, RefundTestSteps, Sleep, Submit, Await
  <2> QED BY <1>t, <2>1 DEF EvaluationPC
<1> QED BY <1>1, <1>2, <1>3, <1>4, <1>5, <1>6, <1>7, <1>8, <1>9, <1>10, <1>11 DEF Evaluation

\* The other scripts have places of their own.
LEMMA OthersRest ==
    ASSUME TypeInv, script = "evaluation", QuickTest \/ ReverseTest \/ BountyDemo
    PROVE  FALSE
<1>t. pc \in EvaluationPC
  BY DEF TypeInv, InItsScript
<1>1. CASE QuickTest
  <2>1. pc \in QuickPC \ {"idle", "failed"} \/ script = "quick"
    BY <1>1 DEF QuickTest, QuickLock, QuickClaimOnCosmos, QuickClaimOnEVM, HasState, Submit, Await,
       See, WriteState, QuickPC
  <2> QED BY <1>t, <2>1 DEF EvaluationPC, QuickPC
<1>2. CASE ReverseTest \/ BountyDemo
  BY <1>2 DEF ReverseTest, BountyDemo
<1> QED BY <1>1, <1>2

LEMMA ClientMoves ==
    ASSUME TypeInv, [ClientNext]_clientVars, script = "evaluation"
    PROVE  BatchMoves
<1>1. CASE ScriptAction
  BY <1>1, EvaluationMoves, OthersRest DEF ScriptAction
<1>2. CASE Kill
  <2>1. /\ pc # "idle" /\ pc' = "idle"
        /\ file' = file \/ file' = TornFile
    BY <1>2 DEF Kill, Idle
  <2> QED BY <2>1 DEF BatchMoves, Dies
<1>3. ASSUME NEW w \in Wallet, Mine(w) PROVE BatchMoves
  BY <1>3 DEF Mine, BatchMoves, Stands, stepVars, memoryVars, diskVars
<1>4. ASSUME NEW h \in Transfer,
             \/ Relay(h) \/ (\E who \in Burners : BurnByOther(h, who)) \/ ExpireMint(h) \/ Tick(h)
      PROVE  BatchMoves
  BY <1>4 DEF Relay, BurnByOther, ExpireMint, Tick, BatchMoves, Stands, stepVars, memoryVars,
     diskVars
<1>5. CASE OperatorStart
  BY <1>5 DEF OperatorStart, RefundLocks, ReverseCommand, BatchMoves, Stands, stepVars,
     memoryVars, diskVars
<1>6. CASE OperatorStep
  BY <1>6 DEF OperatorStep, OperatorSkips, OperatorSends, OperatorFails, OperatorWaits, BatchMoves,
     Stands, stepVars, memoryVars, diskVars
<1>7. CASE CancelPending \/ UNCHANGED clientVars
  BY <1>7 DEF CancelPending, clientVars, BatchMoves, Stands, stepVars, memoryVars, diskVars
<1> QED BY <1>1, <1>2, <1>3, <1>4, <1>5, <1>6, <1>7 DEF ClientNext

LEMMA ScriptStays == [ClientNext]_clientVars => script' = script
<1> SUFFICES ASSUME [ClientNext]_clientVars PROVE script' = script
  OBVIOUS
<1>1. ASSUME NEW from, NEW w, NEW op, NEW to, NEW retried, Submit(from, w, op, cur, to, retried)
      PROVE  script' = script
  BY <1>1 DEF Submit
<1>2. ASSUME NEW at, NEW to, NEW from, NEW retried, Await(at, to, from, retried)
      PROVE  script' = script
  BY <1>2 DEF Await
<1>3. ASSUME NEW at, NEW to, Goto(at, to) PROVE script' = script
  BY <1>3 DEF Goto
<1>4. ASSUME NEW at, NEW seen, NEW to, NEW otherwise, See(at, seen, to, otherwise)
      PROVE  script' = script
  BY <1>3, <1>4 DEF See
<1>5. CASE Evaluation
  <2>1. CASE \E n \in 1..MaxTransfers : RunBatch(n)
    BY <2>1 DEF RunBatch
  <2>2. CASE Preflight \/ SaveResults \/ SaveThrows \/ Summarise
    BY <2>2 DEF Preflight, SaveResults, SaveThrows, Summarise
  <2>3. CASE LockTokensForRun
    BY <1>1, <1>2, <2>3 DEF LockTokensForRun
  <2>4. CASE WaitForRelayWithPolling \/ WaitForAutomaticBurn
    BY <1>3, <1>4, <2>4 DEF WaitForRelayWithPolling, WaitForAutomaticBurn
  <2>5. CASE ClaimOnCosmosForRun
    BY <1>1, <1>2, <1>4, <2>5 DEF ClaimOnCosmosForRun
  <2>6. CASE BurnOnEVMForRun
    BY <1>1, <1>2, <1>4, <2>6 DEF BurnOnEVMForRun
  <2>7. CASE RecordRun \/ RefundTest
    BY <2>7 DEF RecordRun, KeepRun, RefundTest, StartFresh
  <2>8. CASE RefundTestSteps
    BY <1>1, <1>2, <1>3, <2>8 DEF RefundTestSteps, Sleep, Fail
  <2> QED BY <1>5, <2>1, <2>2, <2>3, <2>4, <2>5, <2>6, <2>7, <2>8 DEF Evaluation
<1>6. CASE QuickTest
  <2>1. CASE QuickLock
    BY <1>1, <1>2, <2>1 DEF QuickLock, StartFresh, WriteState
  <2>2. CASE QuickClaimOnCosmos
    BY <1>1, <1>2, <1>4, <2>2 DEF QuickClaimOnCosmos, StartOn, WriteState
  <2>3. CASE QuickClaimOnEVM
    BY <1>1, <1>2, <1>4, <2>3 DEF QuickClaimOnEVM, StartOn, WriteState
  <2>4. CASE Fail("failed")
    BY <1>3, <2>4 DEF Fail
  <2> QED BY <1>6, <2>1, <2>2, <2>3, <2>4 DEF QuickTest
<1>7. CASE ReverseTest
  <2>1. ASSUME NEW manualBurn \in BOOLEAN, ReverseRun(manualBurn) PROVE script' = script
    BY <1>1, <1>2, <1>3, <1>4, <2>1 DEF ReverseRun, StartFresh, Entry, SaveEntry, SaveFails
  <2>2. CASE WriteEntry \/ Fail("failed")
    BY <1>3, <2>2 DEF WriteEntry, Fail
  <2> QED BY <1>7, <2>1, <2>2 DEF ReverseTest
<1>8. CASE BountyDemo
  BY <1>1, <1>2, <1>3, <1>4, <1>8 DEF BountyDemo, StartFresh, Entry, SaveEntry, SaveFails,
     WriteEntry, Fail
<1>9. CASE Kill
  BY <1>9 DEF Kill
<1>10. ASSUME NEW w \in Wallet, Mine(w) PROVE script' = script
  BY <1>10 DEF Mine
<1>11. ASSUME NEW h \in Transfer,
              \/ Relay(h) \/ (\E who \in Burners : BurnByOther(h, who)) \/ ExpireMint(h) \/ Tick(h)
       PROVE  script' = script
  BY <1>11 DEF Relay, BurnByOther, ExpireMint, Tick
<1>12. CASE OperatorStart
  BY <1>12 DEF OperatorStart, RefundLocks, ReverseCommand
<1>13. CASE OperatorStep
  BY <1>13 DEF OperatorStep, OperatorSkips, OperatorSends, OperatorFails, OperatorWaits
<1>14. CASE CancelPending \/ UNCHANGED clientVars
  BY <1>14 DEF CancelPending, clientVars
<1> QED BY <1>5, <1>6, <1>7, <1>8, <1>9, <1>10, <1>11, <1>12, <1>13, <1>14
        DEF ClientNext, ScriptAction

\* A record that was pushed has the number of its run, and so have the two of a run whose
\* save failed; the loop is over at the summary.
BatchInv ==
    script = "evaluation" =>
        /\ pc = "saving" => /\ Len(results.runs) >= 1
                            /\ results.runs[Len(results.runs)].run_number = runNumber
        /\ pc = "resaving" =>
                /\ Len(results.runs) >= 2
                /\ results.runs[Len(results.runs) - 1].run_number = runNumber
                /\ results.runs[Len(results.runs) - 1].success = TRUE
                /\ results.runs[Len(results.runs)].run_number = runNumber
                /\ results.runs[Len(results.runs)].success = FALSE
        /\ pc = "summary" => left = 0

\* The abstract state.
StoredRuns == IF HasFile THEN Outcome(file.content.runs) ELSE <<>>
StoredTorn == script = "evaluation" /\ file.torn
Running ==
    [running |-> InBatch,
     list |-> IF InBatch THEN Outcome(Saved) ELSE <<>>,
     left |-> IF InBatch THEN left ELSE 0,
     number |-> IF InBatch THEN runNumber ELSE 0,
     failing |-> InBatch /\ pc = "resaving"]
BatchState == [b \in {"evaluation"} |-> Running]

\* Between evaluations there is no batch.
LEMMA IdleBatch ==
    ASSUME ~InBatch
    PROVE  BatchState = [b \in {"evaluation"} |-> Batches!NoBatch]
<1>1. InBatch = FALSE
  BY DEF InBatch
<1>2. /\ (IF InBatch THEN Outcome(Saved) ELSE <<>>) = <<>>
      /\ (IF InBatch THEN left ELSE 0) = 0
      /\ (IF InBatch THEN runNumber ELSE 0) = 0
      /\ (InBatch /\ pc = "resaving") = FALSE
  BY <1>1
<1>3. Running = Batches!NoBatch
  BY <1>1, <1>2 DEF Running, Batches!NoBatch
<1> QED BY <1>3 DEF BatchState

LEMMA IdleBatchNext ==
    ASSUME ~InBatch'
    PROVE  BatchState' = [b \in {"evaluation"} |-> Batches!NoBatch]
<1>1. InBatch' = FALSE
  BY DEF InBatch
<1>2. /\ (IF InBatch THEN Outcome(Saved) ELSE <<>>)' = <<>>
      /\ (IF InBatch THEN left ELSE 0)' = 0
      /\ (IF InBatch THEN runNumber ELSE 0)' = 0
      /\ (InBatch /\ pc = "resaving")' = FALSE
  BY <1>1
<1>3. Running' = Batches!NoBatch
  BY <1>1, <1>2 DEF Running, Batches!NoBatch
<1> QED BY <1>3 DEF BatchState

LEMMA WholeList ==
    ASSUME NEW runs \in Seq(Record)
    PROVE  SubSeq(runs, 1, Len(runs)) = runs /\ Len(runs) - 0 = Len(runs)
  OBVIOUS

\* Everything but what was pushed last is saved.
LEMMA SavedIsAll ==
    ASSUME results.runs \in Seq(Record), pc \notin {"saving", "resaving"}
    PROVE  Saved = results.runs
<1> DEFINE runs == results.runs
<1>1. Unsaved = 0 /\ runs \in Seq(Record)
  BY DEF Unsaved
<1>2. Saved = SubSeq(runs, 1, Len(runs) - 0)
  BY <1>1 DEF Saved
<1> HIDE DEF runs
<1>3. Saved = runs
  BY <1>1, <1>2, WholeList
<1> QED BY <1>3 DEF runs

LEMMA SavedIsAllNext ==
    ASSUME results'.runs \in Seq(Record), pc' \notin {"saving", "resaving"}
    PROVE  Saved' = results'.runs
<1> DEFINE runs == results'.runs
<1>1. Unsaved' = 0 /\ runs \in Seq(Record)
  BY DEF Unsaved
<1>2. Saved' = SubSeq(runs, 1, Len(runs) - 0)
  BY <1>1 DEF Saved
<1> HIDE DEF runs
<1>3. Saved' = runs
  BY <1>1, <1>2, WholeList
<1> QED BY <1>3 DEF runs

LEMMA WithoutLast ==
    ASSUME NEW runs \in Seq(Record), NEW r \in Record
    PROVE  /\ Append(runs, r) \in Seq(Record) /\ Len(Append(runs, r)) = Len(runs) + 1
           /\ Append(runs, r)[Len(runs) + 1] = r
           /\ SubSeq(Append(runs, r), 1, Len(Append(runs, r)) - 1) = runs
  OBVIOUS

\* The outcomes of a list with one run more.
LEMMA OutcomeOfLast ==
    ASSUME NEW runs \in Seq(Record), Len(runs) >= 1, NEW n, n = Len(runs),
           NEW before, before = SubSeq(runs, 1, n - 1)
    PROVE  /\ Len(Outcome(before)) = n - 1
           /\ Outcome(runs) = Append(Outcome(before),
                [number |-> runs[n].run_number, success |-> runs[n].success, day |-> 1])
<1> DEFINE outcome(r) == [number |-> r.run_number, success |-> r.success, day |-> 1]
<1>1. /\ before \in Seq(Record) /\ Len(before) = n - 1 /\ n \in Nat /\ n >= 1
      /\ \A i \in 1..(n - 1) : before[i] = runs[i]
  OBVIOUS
<1>2. /\ Outcome(runs) = [i \in 1..n |-> outcome(runs[i])]
      /\ Outcome(before) = [i \in 1..(n - 1) |-> outcome(before[i])]
  BY <1>1 DEF Outcome
<1> HIDE DEF outcome
<1> DEFINE All == {outcome(runs[i]) : i \in 1..n}
           last == outcome(runs[n])
<1>3. /\ Outcome(runs) \in Seq(All) /\ Len(Outcome(runs)) = n
      /\ \A i \in 1..n : Outcome(runs)[i] = outcome(runs[i])
  BY <1>1, <1>2
<1>4. /\ Outcome(before) \in Seq(All) /\ Len(Outcome(before)) = n - 1
      /\ \A i \in 1..(n - 1) : Outcome(before)[i] = outcome(runs[i])
  BY <1>1, <1>2
<1>5. last \in All
  BY <1>1
<1>6. Outcome(runs)[n] = last
  BY <1>1, <1>3
<1> HIDE DEF All, last
<1>7. /\ Append(Outcome(before), last) \in Seq(All)
      /\ Len(Append(Outcome(before), last)) = n
      /\ \A i \in 1..(n - 1) : Append(Outcome(before), last)[i] = Outcome(before)[i]
      /\ Append(Outcome(before), last)[n] = last
  BY <1>1, <1>4, <1>5
<1>8. Outcome(runs) = Append(Outcome(before), last)
  <2>1. \A i \in 1..n : Outcome(runs)[i] = Append(Outcome(before), last)[i]
    BY <1>1, <1>3, <1>4, <1>6, <1>7
  <2> QED BY <1>3, <1>7, <2>1
<1> QED BY <1>4, <1>8 DEF last, outcome

\* Each move of an evaluation is a step of the batch, or none.
EvaluationStep ==
    BatchInv' /\ (Batches!BatchNext \/ UNCHANGED <<StoredRuns, StoredTorn, BatchState>>)

LEMMA EvaluationTypes ==
    ASSUME TypeInv, script = "evaluation"
    PROVE  /\ pc \in EvaluationPC /\ results \in Results
           /\ results.runs \in Seq(Record) /\ Len(results.runs) \in Nat
           /\ left \in Nat /\ runNumber \in Nat
  BY DEF TypeInv, ClientTypeOK, InItsScript, Results

LEMMA StandsStep ==
    ASSUME TypeInv, TypeInv', BatchInv, script = "evaluation", script' = "evaluation", Stands
    PROVE  EvaluationStep
<1>1. /\ UNCHANGED <<results, left, runNumber, file>>
      /\ pc' # pc => pc \notin Outside /\ pc' \notin Outside
  BY DEF Stands
<1>2. BatchInv'
  BY <1>1 DEF BatchInv, Outside
<1>3. /\ InBatch' = InBatch /\ Unsaved' = Unsaved
      /\ (InBatch /\ pc = "resaving")' = (InBatch /\ pc = "resaving")
  BY <1>1 DEF InBatch, Unsaved, Outside
<1>4. Saved' = Saved
  BY <1>1, <1>3 DEF Saved
<1> QED BY <1>1, <1>2, <1>3, <1>4 DEF EvaluationStep, StoredRuns, StoredTorn, BatchState, Running,
        HasFile, Outcome

LEMMA LoadsStep ==
    ASSUME TypeInv, TypeInv', BatchInv, script = "evaluation", script' = "evaluation", Loads
    PROVE  EvaluationStep
<1>1. /\ pc = "idle" /\ ~file.torn /\ pc' = "preflight" /\ file' = file
      /\ results' = file.content /\ runNumber' = Len(file.content.runs) + 1
  BY DEF Loads
<1>2. PICK n \in 1..MaxTransfers : left' = n
  BY DEF Loads
<1>3. BatchInv'
  BY <1>1 DEF BatchInv
<1>4. file.content.runs \in Seq(Record) /\ results'.runs = file.content.runs
  BY <1>1 DEF TypeInv, ClientTypeOK, Results
<1>5. Saved' = file.content.runs
  BY <1>1, <1>4, SavedIsAllNext
<1>6. /\ ~InBatch /\ InBatch' /\ ~StoredTorn /\ StoredTorn' = StoredTorn
      /\ StoredRuns = Outcome(file.content.runs) /\ StoredRuns' = StoredRuns
  BY <1>1 DEF InBatch, StoredRuns, StoredTorn, HasFile, Outcome
<1>7. Len(StoredRuns) = Len(file.content.runs)
  BY <1>4, <1>6 DEF Outcome
<1>8. /\ BatchState = [b \in {"evaluation"} |-> Batches!NoBatch]
      /\ BatchState' = [b \in {"evaluation"} |->
            [running |-> TRUE, list |-> StoredRuns, left |-> n,
             number |-> Len(StoredRuns) + 1, failing |-> FALSE]]
  <2>1. Outcome(Saved)' = StoredRuns
    BY <1>5, <1>6 DEF Outcome
  <2>2. Running' = [running |-> TRUE, list |-> StoredRuns, left |-> n,
                    number |-> Len(StoredRuns) + 1, failing |-> FALSE]
    BY <1>1, <1>2, <1>6, <1>7, <2>1 DEF Running, InBatch
  <2> QED BY <1>6, <2>2, IdleBatch DEF BatchState
<1>9. /\ ~BatchState["evaluation"].running
      /\ BatchState' = [BatchState EXCEPT !["evaluation"] =
            [running |-> TRUE, list |-> StoredRuns, left |-> n,
             number |-> Len(StoredRuns) + 1, failing |-> FALSE]]
  BY <1>8 DEF Batches!NoBatch
<1>10. Batches!StartBatch("evaluation", n)
  BY <1>6, <1>9 DEF Batches!StartBatch, StoredRuns, StoredTorn, BatchState, Running
<1> QED BY <1>3, <1>10 DEF EvaluationStep, Batches!BatchNext

LEMMA PushesStep ==
    ASSUME TypeInv, TypeInv', BatchInv, script = "evaluation", script' = "evaluation", Pushes
    PROVE  EvaluationStep
<1>1. pc \notin Outside /\ pc' = "saving" /\ UNCHANGED <<left, runNumber, file>>
  BY DEF Pushes
<1>2. PICK r \in Record : /\ r.run_number = runNumber
                          /\ results'.runs = Append(results.runs, r)
  BY DEF Pushes
<1> DEFINE runs == results.runs
<1>3. runs \in Seq(Record) /\ Len(runs) \in Nat /\ results'.runs = Append(runs, r)
  BY <1>2, EvaluationTypes
<1>s. Saved = runs
  BY <1>1, <1>3, SavedIsAll DEF Outside
<1> HIDE DEF runs
<1>4. /\ Len(Append(runs, r)) = Len(runs) + 1 /\ Append(runs, r)[Len(runs) + 1] = r
      /\ SubSeq(Append(runs, r), 1, Len(Append(runs, r)) - 1) = runs
  BY <1>3, WithoutLast
<1>5. BatchInv'
  BY <1>1, <1>2, <1>3, <1>4 DEF BatchInv
<1>6. Saved' = runs
  BY <1>1, <1>3, <1>4 DEF Saved, Unsaved
<1>7. /\ InBatch' = InBatch /\ Saved' = Saved
      /\ (InBatch /\ pc = "resaving")' = (InBatch /\ pc = "resaving")
  BY <1>1, <1>6, <1>s DEF InBatch, Outside
<1> QED BY <1>1, <1>5, <1>7 DEF EvaluationStep, StoredRuns, StoredTorn, BatchState, Running,
        HasFile, Outcome

LEMMA OneFieldChanged ==
    ASSUME NEW a, NEW b, NEW c, NEW d, NEW f, NEW g, NEW r,
           r = [running |-> a, list |-> b, left |-> c, number |-> d, failing |-> f]
    PROVE  [r EXCEPT !.failing = g] =
              [running |-> a, list |-> b, left |-> c, number |-> d, failing |-> g]
  OBVIOUS

\* The record of the success and that of the failed save are both not yet saved.
LEMMA ThrowsStep ==
    ASSUME TypeInv, TypeInv', BatchInv, script = "evaluation", script' = "evaluation", Throws
    PROVE  EvaluationStep
<1>1. /\ pc = "saving" /\ pc' = "resaving" /\ UNCHANGED <<left, runNumber>>
      /\ file' = file \/ file' = TornFile
      /\ results.runs[Len(results.runs)].success
  BY DEF Throws
<1>2. PICK r \in Record : /\ r.run_number = runNumber /\ r.success = FALSE
                          /\ results'.runs = Append(results.runs, r)
  BY DEF Throws
<1> DEFINE runs == results.runs
<1>3. runs \in Seq(Record) /\ Len(runs) \in Nat /\ results'.runs = Append(runs, r)
  BY <1>2, EvaluationTypes
<1>4. Len(runs) >= 1 /\ runs[Len(runs)].run_number = runNumber /\ runs[Len(runs)].success
  BY <1>1 DEF BatchInv
<1>s. Saved = SubSeq(runs, 1, Len(runs) - 1)
  BY <1>1 DEF Saved, Unsaved
<1>t. left \in Nat /\ left >= 1
  BY <1>1 DEF TypeInv, ClientTypeOK, Counted
<1> HIDE DEF runs
<1>5. /\ Len(Append(runs, r)) = Len(runs) + 1 /\ Append(runs, r)[Len(runs) + 1] = r
      /\ Append(runs, r)[Len(runs)] = runs[Len(runs)]
      /\ SubSeq(Append(runs, r), 1, Len(Append(runs, r)) - 2) = SubSeq(runs, 1, Len(runs) - 1)
  BY <1>3, <1>4
<1>6. runs[Len(runs)].success \in BOOLEAN
  <2>1. runs[Len(runs)] \in Record
    BY <1>3, <1>4
  <2> QED BY <2>1 DEF Record
<1>7. BatchInv'
  <2>1. /\ Len(Append(runs, r)) >= 2
        /\ Append(runs, r)[Len(Append(runs, r)) - 1] = runs[Len(runs)]
        /\ Append(runs, r)[Len(Append(runs, r))] = r
    BY <1>3, <1>4, <1>5
  <2> QED BY <1>1, <1>2, <1>3, <1>4, <1>6, <2>1 DEF BatchInv
<1>8. Saved' = Saved /\ InBatch /\ InBatch'
  BY <1>1, <1>3, <1>5, <1>s DEF Saved, Unsaved, InBatch
<1> DEFINE list == Outcome(Saved)
<1>9. /\ Running = [running |-> TRUE, list |-> list, left |-> left,
                    number |-> runNumber, failing |-> FALSE]
      /\ Running' = [running |-> TRUE, list |-> list, left |-> left,
                     number |-> runNumber, failing |-> TRUE]
  <2>1. Outcome(Saved)' = Outcome(Saved)
    BY <1>8 DEF Outcome
  <2>2. InBatch = TRUE /\ InBatch' = TRUE
    BY <1>8 DEF InBatch
  <2> QED BY <1>1, <2>1, <2>2 DEF Running
<1>10. /\ BatchState["evaluation"].running /\ BatchState["evaluation"].left > 0
       /\ ~BatchState["evaluation"].failing
       /\ BatchState' = [BatchState EXCEPT !["evaluation"].failing = TRUE]
  <2>1. /\ Running.running /\ Running.left > 0 /\ ~Running.failing
        /\ Running' = [Running EXCEPT !.failing = TRUE]
    <3> HIDE DEF list, Running
    <3>1. Running.running = TRUE /\ Running.left = left /\ Running.failing = FALSE
      BY <1>9
    <3>2. [Running EXCEPT !.failing = TRUE] =
             [running |-> TRUE, list |-> list, left |-> left, number |-> runNumber,
              failing |-> TRUE]
      <4>1. PICK yes, no : yes = TRUE /\ no = FALSE
        OBVIOUS
      <4>2. Running = [running |-> yes, list |-> list, left |-> left, number |-> runNumber,
                       failing |-> no]
        BY <1>9, <4>1
      <4>3. [Running EXCEPT !.failing = yes] =
               [running |-> yes, list |-> list, left |-> left, number |-> runNumber,
                failing |-> yes]
        BY <4>2, OneFieldChanged
      <4> QED BY <4>1, <4>3, Zenon
    <3>3. Running.left > 0
      BY <1>t, <3>1
    <3>4. Running' = [Running EXCEPT !.failing = TRUE]
      BY <1>9, <3>2, Zenon
    <3> QED BY <3>1, <3>3, <3>4, Zenon
  <2>2. /\ BatchState = [b \in {"evaluation"} |-> Running]
        /\ BatchState' = [b \in {"evaluation"} |-> Running']
    BY DEF BatchState
  <2> HIDE DEF Running, BatchState
  <2> QED BY <2>1, <2>2
<1>11. \/ UNCHANGED <<StoredRuns, StoredTorn>>
       \/ StoredRuns' = <<>> /\ StoredTorn' = TRUE
  BY <1>1 DEF StoredRuns, StoredTorn, HasFile, Outcome, TornFile
<1>12. Batches!SaveThrows("evaluation")
  BY <1>10, <1>11 DEF Batches!SaveThrows, StoredRuns, StoredTorn, BatchState, Running
<1> QED BY <1>7, <1>12 DEF EvaluationStep, Batches!BatchNext

LEMMA SavesStep ==
    ASSUME TypeInv, TypeInv', BatchInv, script = "evaluation", script' = "evaluation", SaveResults
    PROVE  EvaluationStep
<1>1. /\ pc \in {"saving", "resaving"} /\ file' = [torn |-> FALSE, content |-> results]
      /\ left' = left - 1 /\ pc' = (IF left = 1 THEN "summary" ELSE "preflight")
      /\ results' = results /\ runNumber' = runNumber + 1
  BY DEF SaveResults
<1>2. left >= 1 /\ left \in Nat /\ runNumber \in Nat
  BY <1>1 DEF TypeInv, ClientTypeOK, Counted
<1>3. BatchInv'
  BY <1>1 DEF BatchInv
<1> DEFINE runs == results.runs
           outcome(s) == [number |-> runNumber, success |-> s, day |-> 1]
           before == Outcome(Saved)
           after == Outcome(runs)
<1>4. runs \in Seq(Record) /\ Len(runs) \in Nat
  BY EvaluationTypes
<1>5. PICK failing \in BOOLEAN : failing = (pc = "resaving")
  OBVIOUS
\* The list grows by the record of the run, or by the two of a run whose save failed.
<1>6. \E success \in BOOLEAN :
        /\ failing => success
        /\ after = IF failing
                   THEN Batches!KeptTwice(before, outcome(TRUE), outcome(FALSE))
                   ELSE Append(before, outcome(success))
  <2>1. CASE pc = "saving"
    <3>1. Len(runs) >= 1 /\ runs[Len(runs)].run_number = runNumber
      BY <2>1 DEF BatchInv
    <3>2. Saved = SubSeq(runs, 1, Len(runs) - 1)
      BY <2>1 DEF Saved, Unsaved
    <3> HIDE DEF runs
    <3>3. PICK last : last = runs[Len(runs)]
      OBVIOUS
    <3>4. last \in Record /\ last.success \in BOOLEAN /\ last.run_number = runNumber
      <4>1. last \in Record
        BY <1>4, <3>1, <3>3
      <4> QED BY <3>1, <3>3, <4>1 DEF Record
    <3>5. after = Append(before, outcome(last.success))
      BY <1>4, <3>1, <3>2, <3>3, <3>4, OutcomeOfLast
    <3> HIDE DEF after, before, outcome
    <3> QED BY <1>5, <2>1, <3>4, <3>5
  <2>2. CASE pc = "resaving"
    <3>1. /\ Len(runs) >= 2
          /\ runs[Len(runs) - 1].run_number = runNumber /\ runs[Len(runs) - 1].success = TRUE
          /\ runs[Len(runs)].run_number = runNumber /\ runs[Len(runs)].success = FALSE
      BY <2>2 DEF BatchInv
    <3>2. Saved = SubSeq(runs, 1, Len(runs) - 2)
      BY <2>2 DEF Saved, Unsaved
    <3> HIDE DEF runs
    <3>3. PICK shorter : shorter = SubSeq(runs, 1, Len(runs) - 1)
      OBVIOUS
    <3>4. /\ shorter \in Seq(Record) /\ Len(shorter) = Len(runs) - 1 /\ Len(shorter) >= 1
          /\ shorter[Len(shorter)] = runs[Len(runs) - 1]
          /\ Saved = SubSeq(shorter, 1, Len(shorter) - 1)
      BY <1>4, <3>1, <3>2, <3>3
    <3>5. after = Append(Outcome(shorter), outcome(FALSE))
      <4>1. Len(runs) >= 1
        BY <1>4, <3>1
      <4>2. Outcome(runs) = Append(Outcome(shorter),
                [number |-> runs[Len(runs)].run_number, success |-> runs[Len(runs)].success,
                 day |-> 1])
        BY <1>4, <3>3, <4>1, OutcomeOfLast
      <4> QED BY <3>1, <4>2
    <3>6. Outcome(shorter) = Append(before, outcome(TRUE))
      <4>1. Outcome(shorter) = Append(Outcome(Saved),
                [number |-> shorter[Len(shorter)].run_number,
                 success |-> shorter[Len(shorter)].success, day |-> 1])
        BY <3>4, OutcomeOfLast
      <4> QED BY <3>1, <3>4, <4>1
    <3>7. after = Batches!KeptTwice(before, outcome(TRUE), outcome(FALSE))
      BY <3>5, <3>6 DEF Batches!KeptTwice
    <3> HIDE DEF after, before, outcome
    <3> QED BY <1>5, <2>2, <3>7
  <2> QED BY <1>1, <2>1, <2>2
<1>7. /\ InBatch /\ InBatch' /\ Saved' = runs
      /\ StoredRuns' = after /\ StoredTorn' = FALSE
  <2>1. results'.runs \in Seq(Record) /\ pc' \notin {"saving", "resaving"}
    BY <1>1, <1>4
  <2>2. Saved' = results'.runs
    BY <2>1, SavedIsAllNext
  <2> QED BY <1>1, <2>2 DEF InBatch, StoredRuns, StoredTorn, HasFile, Outcome
<1>8. /\ Running = [running |-> TRUE, list |-> before, left |-> left,
                    number |-> runNumber, failing |-> failing]
      /\ Running' = [running |-> TRUE, list |-> after, left |-> left - 1,
                     number |-> runNumber + 1, failing |-> FALSE]
  <2>1. Outcome(Saved)' = after
    BY <1>7 DEF Outcome
  <2>2. InBatch = TRUE /\ InBatch' = TRUE /\ (InBatch /\ pc = "resaving") = failing
        /\ (InBatch /\ pc = "resaving")' = FALSE
    BY <1>1, <1>5, <1>7 DEF InBatch
  <2> QED BY <1>1, <2>1, <2>2 DEF Running
<1> HIDE DEF after, before, outcome, runs
<1>9. /\ BatchState["evaluation"].running /\ BatchState["evaluation"].left = left
      /\ BatchState["evaluation"].list = before
      /\ BatchState["evaluation"].number = runNumber
      /\ BatchState["evaluation"].failing = failing
      /\ BatchState' = [BatchState EXCEPT !["evaluation"] =
            [running |-> TRUE, list |-> after, left |-> left - 1,
             number |-> runNumber + 1, failing |-> FALSE]]
  BY <1>8 DEF BatchState
<1>10. PICK success \in BOOLEAN :
        /\ failing => success
        /\ after = IF failing
                   THEN Batches!KeptTwice(before, outcome(TRUE), outcome(FALSE))
                   ELSE Append(before, outcome(success))
  BY <1>6
<1>11. /\ BatchState["evaluation"].left > 0
       /\ BatchState["evaluation"].failing => success
       /\ StoredRuns' = after /\ StoredTorn' = FALSE
       /\ BatchState' = [BatchState EXCEPT !["evaluation"] =
            [running |-> TRUE, list |-> after, left |-> BatchState["evaluation"].left - 1,
             number |-> BatchState["evaluation"].number + 1, failing |-> FALSE]]
       /\ after = IF BatchState["evaluation"].failing
                  THEN Batches!KeptTwice(BatchState["evaluation"].list,
                         [number |-> BatchState["evaluation"].number, success |-> TRUE,
                          day |-> 1],
                         [number |-> BatchState["evaluation"].number, success |-> FALSE,
                          day |-> 1])
                  ELSE Append(BatchState["evaluation"].list,
                         [number |-> BatchState["evaluation"].number, success |-> success,
                          day |-> 1])
  BY <1>2, <1>7, <1>9, <1>10 DEF outcome
<1>12. Batches!FinishRun("evaluation", success, 1)
  BY <1>9, <1>11 DEF Batches!FinishRun, StoredRuns, StoredTorn, BatchState, Running
<1> QED BY <1>3, <1>10, <1>12 DEF EvaluationStep, Batches!BatchNext

LEMMA SummariseStep ==
    ASSUME TypeInv, TypeInv', BatchInv, script = "evaluation", script' = "evaluation", Summarise
    PROVE  EvaluationStep
<1>1. /\ pc = "summary" /\ pc' = "idle"
      /\ file'.torn = FALSE /\ file'.content.runs = results.runs
      /\ results.runs \in Seq(Record)
  BY EvaluationTypes DEF Summarise, Results
<1>2. BatchInv' /\ left = 0
  BY <1>1 DEF BatchInv
<1>3. Saved = results.runs
  BY <1>1, SavedIsAll
<1>4. /\ InBatch /\ ~InBatch'
      /\ StoredRuns' = Outcome(results.runs) /\ StoredTorn' = FALSE
  BY <1>1 DEF InBatch, StoredRuns, StoredTorn, HasFile, Outcome
<1>5. /\ BatchState["evaluation"].running /\ BatchState["evaluation"].left = 0
      /\ BatchState["evaluation"].list = Outcome(results.runs)
      /\ DOMAIN BatchState = {"evaluation"}
  BY <1>2, <1>3, <1>4 DEF BatchState, Running
<1>6. BatchState' = [BatchState EXCEPT !["evaluation"] = Batches!NoBatch]
  BY <1>4, <1>5, IdleBatchNext DEF BatchState
<1>7. StoredRuns' = BatchState["evaluation"].list
  BY <1>4, <1>5
<1>8. Batches!FinishBatch("evaluation")
  BY <1>4, <1>5, <1>6, <1>7 DEF Batches!FinishBatch, StoredRuns, StoredTorn, BatchState, Running
<1> QED BY <1>2, <1>8 DEF EvaluationStep, Batches!BatchNext

LEMMA DiesStep ==
    ASSUME TypeInv, TypeInv', BatchInv, script = "evaluation", script' = "evaluation", Dies
    PROVE  EvaluationStep
<1>1. pc # "idle" /\ pc' = "idle" /\ (file' = file \/ file' = TornFile)
  BY DEF Dies
<1>2. BatchInv'
  BY <1>1 DEF BatchInv
<1>3. InBatch /\ ~InBatch'
  BY <1>1 DEF InBatch
<1>4. BatchState["evaluation"].running /\ DOMAIN BatchState = {"evaluation"}
  BY <1>3 DEF BatchState, Running
<1>5. BatchState' = [BatchState EXCEPT !["evaluation"] = Batches!NoBatch]
  BY <1>3, <1>4, IdleBatchNext DEF BatchState
<1>6. \/ UNCHANGED <<StoredRuns, StoredTorn>>
      \/ StoredRuns' = <<>> /\ StoredTorn' = TRUE
  BY <1>1 DEF StoredRuns, StoredTorn, HasFile, Outcome, TornFile
<1>7. Batches!KillBatch("evaluation")
  BY <1>4, <1>5, <1>6 DEF Batches!KillBatch, StoredRuns, StoredTorn, BatchState, Running
<1> QED BY <1>2, <1>7 DEF EvaluationStep, Batches!BatchNext

LEMMA BatchStep ==
    ASSUME TypeInv, TypeInv', BatchInv, script = "evaluation", script' = "evaluation", BatchMoves
    PROVE  BatchInv' /\ [Batches!BatchNext]_(Batches!batchVars)
<1>1. EvaluationStep
  BY StandsStep, LoadsStep, PushesStep, ThrowsStep, SavesStep, SummariseStep, DiesStep
     DEF BatchMoves
<1> QED BY <1>1 DEF EvaluationStep, Batches!batchVars, StoredRuns, StoredTorn, BatchState, Running

\* htlc-evaluation.js implements EvaluationBatch, whatever it is about: the file gains
\* one record of each run that ended, and exactly two under one number of a run that
\* succeeded and whose save failed, numbered from what was there when the batch began.
\* Nothing takes a record away but a write that did not end: its batch was killed in it,
\* or goes on and writes all it held again.
THEOREM EvaluationIsBatch == ClientSpec => ImplementsBatch
<1>1. ClientInit => TypeInv /\ BatchInv /\ Batches!BatchInit
  <2> SUFFICES ASSUME ClientInit PROVE TypeInv /\ BatchInv /\ Batches!BatchInit
    OBVIOUS
  <2>1. pc = "idle" /\ file = NewFile
    BY DEF ClientInit
  <2>2. BatchInv
    BY <2>1 DEF BatchInv
  <2>3. ~InBatch /\ StoredTorn = FALSE /\ StoredRuns = <<>>
    <3>1. Len(NewFile.content.runs) = 0 /\ NewFile.torn = FALSE
      BY DEF NewFile, NoResults
    <3>2. Outcome(file.content.runs) = <<>>
      BY <2>1, <3>1 DEF Outcome
    <3> QED BY <2>1, <3>1, <3>2 DEF InBatch, StoredTorn, StoredRuns
  <2>4. BatchState = [b \in {"evaluation"} |-> Batches!NoBatch]
    BY <2>3, IdleBatch
  <2>5. Batches!BatchInit
    BY <2>3, <2>4 DEF Batches!BatchInit, StoredRuns, StoredTorn, BatchState, Running
  <2> QED BY <2>2, <2>5, ClientStarts
<1>2. TypeInv /\ BatchInv /\ [ClientNext]_clientVars
        => (TypeInv /\ BatchInv)' /\ [Batches!BatchNext]_(Batches!batchVars)
  <2> SUFFICES ASSUME TypeInv, BatchInv, [ClientNext]_clientVars
               PROVE  (TypeInv /\ BatchInv)' /\ [Batches!BatchNext]_(Batches!batchVars)
    OBVIOUS
  <2>1. TypeInv' /\ script' = script
    BY ClientGoesOn, ScriptStays DEF Keeps
  <2>2. CASE script = "evaluation"
    <3>1. BatchMoves /\ script' = "evaluation"
      BY <2>1, <2>2, ClientMoves
    <3> QED BY <2>1, <2>2, <3>1, BatchStep
  <2>3. CASE script # "evaluation"
    <3>1. BatchInv'
      BY <2>1, <2>3 DEF BatchInv
    <3>2. UNCHANGED <<StoredRuns, StoredTorn, BatchState>>
      BY <2>1, <2>3 DEF StoredRuns, StoredTorn, BatchState, Running, InBatch, HasFile
    <3>3. UNCHANGED Batches!batchVars
      BY <3>2 DEF Batches!batchVars, StoredRuns, StoredTorn, BatchState, Running
    <3> QED BY <2>1, <3>1, <3>3
  <2> QED BY <2>2, <2>3
<1> QED BY <1>1, <1>2, PTL DEF ClientSpec, ImplementsBatch, Batches!BatchSpec
================================================================================
