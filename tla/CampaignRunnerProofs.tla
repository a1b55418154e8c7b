-------------------------- MODULE CampaignRunnerProofs --------------------------
(***************************************************************************)
(* That the pid file of campaign-runner.js keeps batches apart, for any     *)
(* number of runners, kills and restarts, as long as no two runners are     *)
(* inside acquireLock at once and no child outlives its runner; and that    *)
(* then no record in the results file is written over and no batch passes   *)
(* the target.                                                              *)
(***************************************************************************)
EXTENDS CampaignRunner, FiniteSetTheorems, TLAPS

----------------------------------------------------------------------------
\* What the guard maintains.  A runner past it has its pid in the file; one that was
\* let through, and has not written its pid yet, is alone; and whoever runs a batch
\* waits for it.
HolderHasPidfile == \A r \in Runner : pc[r] \in Holding => pidfile = r
OneAcquires == \A q, r \in Runner : pc[q] \in Acquiring /\ pc[r] \in Acquiring => q = r
WriterIsAlone ==
    \A q, r \in Runner : pc[r] \in {"write", "writing"} => pc[q] \notin Holding
BatchHasParent ==
    \A b \in Batch : batch[b].running => \E r \in Runner : pc[r] = "batch" /\ child[r] = {b}

Apart == HolderHasPidfile /\ OneAcquires /\ WriterIsAlone /\ BatchHasParent

GuardTypes ==
    /\ pc \in [Runner -> {"due", "off"} \cup Acquiring \cup Holding]
    /\ child \in [Runner -> SUBSET Batch]
    /\ DOMAIN batch = Batch
    /\ overlapped \in BOOLEAN /\ orphaned \in BOOLEAN

\* The inductive invariant.  The parts of Apart need one another: BatchHasParent is kept
\* by a new batch as its runner is the only one past the guard, which HolderHasPidfile
\* says; that is kept by a new pid as its writer is alone.
GuardInv == GuardTypes /\ (Undisturbed => Apart)

----------------------------------------------------------------------------
\* The process a batch gets is one of the processes.
LEMMA FreeBatchIsBatch == FreeBatch \in Batch
  <1>1. \E b \in Batch : (\E f \in Batch : ~batch[f].running) => ~batch[b].running
    BY CampaignAssumption
  <1> QED BY <1>1, Zenon DEF FreeBatch

\* The invariant says what the guard is for: two batches would have two parents, or
\* one parent that waits for both.
LEMMA GuardInvImplies == GuardInv => OneBatch
  <1> SUFFICES ASSUME GuardInv, Undisturbed,
                      NEW a \in Batch, NEW b \in Batch, batch[a].running, batch[b].running
               PROVE  a = b
    BY DEF OneBatch
  <1>1. HolderHasPidfile /\ BatchHasParent
    BY DEF GuardInv, Apart
  <1>2. PICK q \in Runner : pc[q] = "batch" /\ child[q] = {a}
    BY <1>1 DEF BatchHasParent
  <1>3. PICK r \in Runner : pc[r] = "batch" /\ child[r] = {b}
    BY <1>1 DEF BatchHasParent
  <1>4. q = r
    BY <1>1, <1>2, <1>3 DEF HolderHasPidfile, Holding
  <1> QED BY <1>2, <1>3, <1>4

LEMMA GuardInvInit == CampaignInit => GuardInv
  <1> SUFFICES ASSUME CampaignInit PROVE GuardInv
    OBVIOUS
  <1>1. pc \in [Runner -> {"due", "off"}]
    BY DEF CampaignInit
  <1>2. \A q, r \in Runner : pc[q] \notin Acquiring /\ pc[q] \notin Holding
    BY <1>1 DEF Acquiring, Holding
  <1>3. \A b \in Batch : ~batch[b].running
    BY DEF CampaignInit, BatchInit, NoBatch
  <1> QED
    BY <1>1, <1>2, <1>3 DEF CampaignInit, BatchInit, GuardInv, GuardTypes, Apart, HolderHasPidfile,
        OneAcquires, WriterIsAlone, BatchHasParent, Acquiring, Holding

----------------------------------------------------------------------------
\* The types are kept by every step.
LEMMA GuardTypesNext == GuardTypes /\ [CampaignNext]_campaignVars => GuardTypes'
  <1> SUFFICES ASSUME GuardTypes, [CampaignNext]_campaignVars PROVE GuardTypes'
    OBVIOUS
  <1> USE DEF GuardTypes, Acquiring, Holding
  <1>1. ASSUME NEW r \in Runner, Start(r) PROVE GuardTypes'
    BY <1>1 DEF Start, batchVars
  <1>2. ASSUME NEW r \in Runner, Probe(r) PROVE GuardTypes'
    BY <1>2 DEF Probe, Probed, batchVars, historyVars
  <1>3. ASSUME NEW r \in Runner, WritePid(r) PROVE GuardTypes'
    BY <1>3 DEF WritePid, batchVars, historyVars
  <1>4. ASSUME NEW r \in Runner, Loop(r) PROVE GuardTypes'
    BY <1>4 DEF Loop, batchVars, historyVars
  <1>5. ASSUME NEW r \in Runner, Spawn(r) PROVE GuardTypes'
    BY <1>5, FreeBatchIsBatch DEF Spawn, StartBatch, historyVars
  <1>6. ASSUME NEW r \in Runner, SpawnFails(r) PROVE GuardTypes'
    BY <1>6 DEF SpawnFails, batchVars
  <1>7. ASSUME NEW r \in Runner, ChildClosed(r) PROVE GuardTypes'
    BY <1>7 DEF ChildClosed, batchVars, historyVars
  <1>8. ASSUME NEW r \in Runner, Wake(r) PROVE GuardTypes'
    BY <1>8 DEF Wake, batchVars, historyVars
  <1>9. ASSUME NEW r \in Runner, KillRunner(r) PROVE GuardTypes'
    <2>1. DOMAIN batch' = Batch
      BY <1>9 DEF KillRunner, KillBatch, batchVars
    <2>2. orphaned' \in BOOLEAN
      BY <1>9 DEF KillRunner
    <2> QED BY <1>9, <2>1, <2>2 DEF KillRunner
  <1>10. ASSUME NEW b \in Batch, BatchGoesOn(b) \/ BatchFails(b) PROVE GuardTypes'
    BY <1>10 DEF BatchGoesOn, BatchFails, FinishRun, SaveThrows, FinishBatch, KillBatch, runnerVars,
        historyVars
  <1>11. CASE NextDay
    BY <1>11 DEF NextDay, batchVars, runnerVars, historyVars
  <1>12. CASE ReusePid
    BY <1>12 DEF ReusePid, batchVars
  <1>13. CASE UNCHANGED campaignVars
    BY <1>13 DEF campaignVars, batchVars, runnerVars, historyVars
  <1> QED
    BY <1>1, <1>2, <1>3, <1>4, <1>5, <1>6, <1>7, <1>8, <1>9, <1>10, <1>11, <1>12, <1>13
    DEF CampaignNext, RunnerStep

----------------------------------------------------------------------------
\* One lemma per step that moves a runner or the pid file.
\* A pid file that names no runner has no holder.
LEMMA NoHolder ==
    ASSUME HolderHasPidfile, pidfile \notin Runner
    PROVE  \A q \in Runner : pc[q] \notin Holding
  BY DEF HolderHasPidfile

LEMMA NotRunners ==
    /\ "none" \notin Runner /\ "empty" \notin Runner
    /\ "stale" \notin Runner /\ "foreign" \notin Runner
  BY CampaignAssumption

LEMMA StartKeepsApart ==
    ASSUME GuardTypes, Apart, NEW r \in Runner, Start(r), ~overlapped'
    PROVE  Apart'
  <1>1. pc[r] \in {"due", "off"} /\ \A q \in Runner : pc[q] \notin Acquiring
    BY DEF Start
  <1>2. pc' = [pc EXCEPT ![r] = IF pidfile = "none" THEN "write" ELSE "probe"]
    BY DEF Start
  <1>3. pidfile' = pidfile /\ child' = child /\ batch' = batch
    BY DEF Start, batchVars
  <1>4. pc'[r] \in Acquiring /\ \A q \in Runner : q # r => pc'[q] = pc[q]
    BY <1>2 DEF GuardTypes, Acquiring, Holding
  <1>5. OneAcquires'
    BY <1>1, <1>4 DEF OneAcquires
  <1>6. HolderHasPidfile'
    BY <1>3, <1>4 DEF Apart, HolderHasPidfile, Acquiring, Holding
  <1>7. WriterIsAlone'
    <2> SUFFICES ASSUME NEW q \in Runner, NEW w \in Runner, pc'[w] \in {"write", "writing"}
                 PROVE  pc'[q] \notin Holding
      BY DEF WriterIsAlone
    <2>1. w = r
      BY <1>1, <1>4 DEF Acquiring
    <2>2. pidfile = "none"
      BY <1>2, <2>1 DEF GuardTypes
    <2>3. pc[q] \notin Holding
      BY <2>2, NoHolder, NotRunners DEF Apart
    <2> QED BY <1>4, <2>3 DEF Acquiring, Holding
  <1>8. BatchHasParent'
    BY <1>1, <1>3, <1>4 DEF Apart, BatchHasParent
  <1> QED BY <1>5, <1>6, <1>7, <1>8 DEF Apart

LEMMA ProbeKeepsApart ==
    ASSUME GuardTypes, Apart, NEW r \in Runner, Probe(r)
    PROVE  Apart'
  <1>1. /\ pc[r] = "probe" /\ pidfile' = pidfile /\ child' = child /\ batch' = batch
        /\ pc'[r] = Probed /\ \A q \in Runner : q # r => pc'[q] = pc[q]
    BY DEF Probe, batchVars, GuardTypes
  <1>2. Probed \in {"due", "off", "write"}
        /\ (Probed = "write" => \A q \in Runner : pc[q] \notin Holding)
    BY NoHolder DEF Probed, Apart
  <1>3. OneAcquires' /\ HolderHasPidfile' /\ BatchHasParent'
    BY <1>1, <1>2 DEF Apart, OneAcquires, HolderHasPidfile, BatchHasParent, Acquiring, Holding
  <1>4. WriterIsAlone'
    BY <1>1, <1>2 DEF Apart, WriterIsAlone, OneAcquires, Acquiring, Holding
  <1> QED BY <1>3, <1>4 DEF Apart

LEMMA WritePidKeepsApart ==
    ASSUME GuardTypes, Apart, NEW r \in Runner, WritePid(r)
    PROVE  Apart'
  <1>1. /\ pc[r] \in {"write", "writing"} /\ child' = child /\ batch' = batch
        /\ \A q \in Runner : q # r => pc'[q] = pc[q]
        /\ pc'[r] = "writing" \/ (pc'[r] = "loop" /\ pidfile' = r)
    BY DEF WritePid, batchVars, GuardTypes
  <1>2. \A q \in Runner : pc[q] \notin Holding /\ (pc[q] \in Acquiring => q = r)
    BY <1>1 DEF Apart, WriterIsAlone, OneAcquires, Acquiring
  <1>3. \A b \in Batch : ~batch[b].running
    BY <1>2 DEF Apart, BatchHasParent, Holding
  <1> QED
    BY <1>1, <1>2, <1>3 DEF Apart, OneAcquires, HolderHasPidfile, WriterIsAlone, BatchHasParent,
        Acquiring, Holding

\* Whoever is past the guard is so alone: the others neither hold nor write.
LEMMA HolderIsAlone ==
    ASSUME Apart, NEW r \in Runner, pc[r] \in Holding
    PROVE  /\ pidfile = r
           /\ \A q \in Runner : pc[q] \in Holding => q = r
           /\ \A q \in Runner : pc[q] \notin {"write", "writing"}
  BY DEF Apart, HolderHasPidfile, WriterIsAlone

LEMMA LoopKeepsApart ==
    ASSUME GuardTypes, Apart, NEW r \in Runner, Loop(r)
    PROVE  Apart'
  <1>1. /\ pc[r] = "loop" /\ child' = child /\ batch' = batch
        /\ \A q \in Runner : q # r => pc'[q] = pc[q]
        /\ pc'[r] \in {"due", "off"} \/ (pc'[r] = "spawn" /\ pidfile' = pidfile)
    BY DEF Loop, batchVars, GuardTypes
  <1>2. pidfile = r /\ \A q \in Runner : pc[q] \in Holding => q = r
    BY <1>1, HolderIsAlone DEF Holding
  <1>3. \A q \in Runner : pc[q] \notin {"write", "writing"}
    BY <1>1, HolderIsAlone DEF Holding
  <1> QED
    BY <1>1, <1>2, <1>3 DEF Apart, OneAcquires, HolderHasPidfile, WriterIsAlone, BatchHasParent,
        Acquiring, Holding

\* A runner that goes from one point past the guard to another.
LEMMA HolderMoves ==
    ASSUME GuardTypes, Apart, NEW r \in Runner, pc[r] \in Holding, pc'[r] \in Holding,
           \A q \in Runner : q # r => pc'[q] = pc[q],
           pidfile' = pidfile, BatchHasParent'
    PROVE  Apart'
  BY DEF Apart, OneAcquires, HolderHasPidfile, WriterIsAlone, Acquiring, Holding

LEMMA SpawnKeepsApart ==
    ASSUME GuardTypes, Apart, NEW r \in Runner, Spawn(r)
    PROVE  Apart'
  <1>1. /\ pc[r] = "spawn" /\ pc'[r] = "batch" /\ child'[r] = {FreeBatch} /\ pidfile' = pidfile
        /\ \A q \in Runner : q # r => pc'[q] = pc[q]
    BY DEF Spawn, GuardTypes
  <1>2. \A b \in Batch : ~batch[b].running
    BY <1>1, HolderIsAlone DEF Apart, BatchHasParent, Holding
  <1>3. \A b \in Batch : batch'[b].running => b = FreeBatch
    BY <1>2, FreeBatchIsBatch DEF Spawn, StartBatch, GuardTypes
  <1>4. BatchHasParent'
    BY <1>1, <1>3 DEF BatchHasParent
  <1> QED BY <1>1, <1>4, HolderMoves DEF Holding

LEMMA WaitingKeepsApart ==
    ASSUME GuardTypes, Apart, NEW r \in Runner, SpawnFails(r) \/ ChildClosed(r) \/ Wake(r)
    PROVE  Apart'
  <1>1. /\ pc[r] \in {"spawn", "batch", "sleep"} /\ pc'[r] \in {"sleep", "loop"}
        /\ pidfile' = pidfile /\ batch' = batch
        /\ \A q \in Runner : q # r => pc'[q] = pc[q] /\ child'[q] = child[q]
    BY DEF SpawnFails, ChildClosed, Wake, batchVars, GuardTypes
  <1>2. pc[r] = "batch" => \A b \in child[r] : ~batch[b].running
    BY DEF SpawnFails, ChildClosed, Wake
  <1>3. BatchHasParent'
    <2> SUFFICES ASSUME NEW b \in Batch, batch[b].running
                 PROVE  \E q \in Runner : pc'[q] = "batch" /\ child'[q] = {b}
      BY <1>1 DEF BatchHasParent
    <2>1. PICK q \in Runner : pc[q] = "batch" /\ child[q] = {b}
      BY DEF Apart, BatchHasParent
    <2>2. q # r
      BY <1>2, <2>1
    <2> QED BY <1>1, <2>1, <2>2
  <1> QED BY <1>1, <1>3, HolderMoves DEF Holding

LEMMA KillKeepsApart ==
    ASSUME GuardTypes, Apart, NEW r \in Runner, KillRunner(r), ~orphaned'
    PROVE  Apart'
  <1>1. /\ pc'[r] = "due" /\ child'[r] = {}
        /\ \A q \in Runner : q # r => pc'[q] = pc[q] /\ child'[q] = child[q]
    BY DEF KillRunner, GuardTypes
  <1>2. OneAcquires' /\ WriterIsAlone'
    BY <1>1 DEF Apart, OneAcquires, WriterIsAlone, Acquiring, Holding
  <1>3. HolderHasPidfile'
    <2> SUFFICES ASSUME NEW q \in Runner, pc'[q] \in Holding PROVE pidfile' = q
      BY DEF HolderHasPidfile
    <2>1. q # r /\ pc[q] \in Holding
      BY <1>1 DEF Holding
    <2>2. pidfile = q /\ pc[r] \notin Holding
      BY <2>1, HolderIsAlone
    <2> QED BY <2>1, <2>2 DEF KillRunner
  <1>4. BatchHasParent'
    <2> SUFFICES ASSUME NEW b \in Batch, batch'[b].running
                 PROVE  \E q \in Runner : pc'[q] = "batch" /\ child'[q] = {b}
      BY DEF BatchHasParent
    <2>1. batch[b].running
      BY DEF KillRunner, KillBatch, batchVars, NoBatch, GuardTypes
    <2>2. PICK q \in Runner : pc[q] = "batch" /\ child[q] = {b}
      BY <2>1 DEF Apart, BatchHasParent
    <2>3. q # r
      <3> SUFFICES ASSUME q = r PROVE FALSE
        OBVIOUS
      <3>1. ASSUME NEW k \in child[r], KillBatch(k) PROVE FALSE
        BY <2>2, <3>1 DEF KillBatch, NoBatch, GuardTypes
      <3>2. ASSUME orphaned' = (orphaned \/ \E k \in child[r] : batch[k].running) PROVE FALSE
        BY <2>1, <2>2, <3>2
      <3> QED BY <3>1, <3>2 DEF KillRunner
    <2> QED BY <1>1, <2>2, <2>3
  <1> QED BY <1>2, <1>3, <1>4 DEF Apart

LEMMA BatchesKeepApart ==
    ASSUME GuardTypes, Apart, NEW b \in Batch, BatchGoesOn(b) \/ BatchFails(b)
    PROVE  Apart'
  <1>1. pc' = pc /\ child' = child /\ pidfile' = pidfile
    BY DEF BatchGoesOn, BatchFails, runnerVars
  <1>2. \A k \in Batch : batch'[k].running => batch[k].running
    BY DEF BatchGoesOn, BatchFails, FinishRun, SaveThrows, FinishBatch, KillBatch, NoBatch,
        GuardTypes
  <1>3. OneAcquires' /\ WriterIsAlone' /\ HolderHasPidfile'
    BY <1>1 DEF Apart, OneAcquires, WriterIsAlone, HolderHasPidfile
  <1>4. BatchHasParent'
    BY <1>1, <1>2 DEF Apart, BatchHasParent
  <1> QED BY <1>3, <1>4 DEF Apart

LEMMA ReuseKeepsApart ==
    ASSUME Apart, ReusePid
    PROVE  Apart'
  <1>1. pidfile \notin Runner /\ pc' = pc /\ child' = child /\ batch' = batch
    BY NotRunners DEF ReusePid, batchVars
  <1>2. \A q \in Runner : pc[q] \notin Holding
    BY <1>1, NoHolder DEF Apart
  <1> QED
    BY <1>1, <1>2 DEF Apart, OneAcquires, WriterIsAlone, HolderHasPidfile, BatchHasParent

----------------------------------------------------------------------------
LEMMA DisturbedForGood ==
    ASSUME GuardTypes, [CampaignNext]_campaignVars, Undisturbed'
    PROVE  Undisturbed
  BY DEF Undisturbed, GuardTypes, CampaignNext, campaignVars, RunnerStep, Start, Probe, WritePid,
      Loop, Spawn, SpawnFails, ChildClosed, Wake, KillRunner, BatchGoesOn, BatchFails, NextDay,
      ReusePid, historyVars

LEMMA GuardInvNext == GuardInv /\ [CampaignNext]_campaignVars => GuardInv'
  <1> SUFFICES ASSUME GuardInv, [CampaignNext]_campaignVars PROVE GuardInv'
    OBVIOUS
  <1>1. GuardTypes /\ GuardTypes'
    BY GuardTypesNext DEF GuardInv
  <1> SUFFICES ASSUME Undisturbed' PROVE Apart'
    BY <1>1 DEF GuardInv
  <1>2. Undisturbed
    BY <1>1, DisturbedForGood
  <1>3. Apart
    BY <1>2 DEF GuardInv
  <1>4. ASSUME NEW r \in Runner, Start(r) PROVE Apart'
    BY <1>1, <1>3, <1>4, StartKeepsApart DEF Undisturbed
  <1>5. ASSUME NEW r \in Runner, RunnerStep(r) PROVE Apart'
    BY <1>1, <1>3, <1>5, ProbeKeepsApart, WritePidKeepsApart, LoopKeepsApart, SpawnKeepsApart,
       WaitingKeepsApart DEF RunnerStep
  <1>6. ASSUME NEW r \in Runner, KillRunner(r) PROVE Apart'
    BY <1>1, <1>3, <1>6, KillKeepsApart DEF Undisturbed
  <1>7. ASSUME NEW b \in Batch, BatchGoesOn(b) \/ BatchFails(b) PROVE Apart'
    BY <1>1, <1>3, <1>7, BatchesKeepApart
  <1>8. CASE ReusePid
    BY <1>3, <1>8, ReuseKeepsApart
  <1>9. CASE NextDay \/ UNCHANGED campaignVars
    BY <1>3, <1>9 DEF NextDay, campaignVars, batchVars, runnerVars, Apart, OneAcquires,
        WriterIsAlone, HolderHasPidfile, BatchHasParent
  <1> QED
    BY <1>4, <1>5, <1>6, <1>7, <1>8, <1>9 DEF CampaignNext

\* The pid file guard keeps batches apart (campaign-runner.js:34), for any number of
\* runners and processes.
THEOREM BatchesApart == CampaignSpec => []OneBatch
  <1>1. CampaignSpec => []GuardInv
    BY GuardInvInit, GuardInvNext, PTL DEF CampaignSpec
  <1> QED BY <1>1, GuardInvImplies, PTL

----------------------------------------------------------------------------
(* The records survive.                                                      *)

Run == [number : Nat, success : BOOLEAN, day : Days \cup {FirstDay}]

ListTypes ==
    /\ stored \in Seq(Run) /\ day \in Days \cup {FirstDay}
    /\ DOMAIN batch = Batch
    /\ \A b \in Batch :
        /\ DOMAIN batch[b] = DOMAIN NoBatch
        /\ batch[b].list \in Seq(Run) /\ batch[b].number \in Nat

\* While batches are kept apart, the one that runs has in memory what is in the file, or
\* was in it before a save that failed left it in pieces.
ListsMatch ==
    Undisturbed =>
        \A b \in Batch : batch[b].running => stored = IF torn THEN <<>> ELSE batch[b].list

LEMMA AppendKeeps ==
    ASSUME NEW list \in Seq(Run), NEW run \in Run
    PROVE  /\ Append(list, run) \in Seq(Run) /\ SubSeq(Append(list, run), 1, Len(list)) = list
           /\ SubSeq(list, 1, Len(list)) = list
  OBVIOUS

\* Records added to a list: one of a run, or the two of a run whose save failed.
Added(longer, list) ==
    \/ \E run \in Run : longer = Append(list, run)
    \/ \E run, again \in Run : longer = KeptTwice(list, run, again)

LEMMA AddedKeeps ==
    ASSUME NEW list \in Seq(Run), NEW longer, Added(longer, list)
    PROVE  longer \in Seq(Run) /\ SubSeq(longer, 1, Len(list)) = list
  <1>1. ASSUME NEW run \in Run, longer = Append(list, run)
        PROVE  longer \in Seq(Run) /\ SubSeq(longer, 1, Len(list)) = list
    BY <1>1, AppendKeeps
  <1>2. ASSUME NEW run \in Run, NEW again \in Run, longer = KeptTwice(list, run, again)
        PROVE  longer \in Seq(Run) /\ SubSeq(longer, 1, Len(list)) = list
    BY <1>2 DEF KeptTwice
  <1> QED BY <1>1, <1>2 DEF Added

\* What a step does to the file and the lists: a batch starts with the file, adds to what
\* it has and writes it, writes what it has, fails to, or ends.
FileMoves ==
    \/ UNCHANGED <<stored, torn, batch>>
    \/ \E b \in Batch :
        /\ \A c \in Batch : c # b => batch'[c] = batch[c]
        /\ DOMAIN batch'[b] = DOMAIN NoBatch /\ batch'[b].number \in Nat
        /\ \/ /\ ~torn /\ UNCHANGED <<stored, torn>>
              /\ batch'[b].list = stored /\ batch'[b].running
           \/ /\ batch[b].running /\ ~torn' /\ Added(stored', batch[b].list)
              /\ batch'[b].list = stored' /\ batch'[b].running
           \/ /\ batch[b].running /\ batch'[b].running /\ batch'[b].list = batch[b].list
              /\ \/ UNCHANGED <<stored, torn>>
                 \/ stored' = <<>> /\ torn'
           \/ /\ batch[b].running /\ ~batch'[b].running /\ batch'[b].list = <<>>
              /\ \/ stored' = batch[b].list /\ ~torn'
                 \/ UNCHANGED <<stored, torn>>
                 \/ stored' = <<>> /\ torn'

LEMMA NothingIsList == <<>> \in Seq(Run)
  OBVIOUS

LEMMA FileMovesNext ==
    ASSUME GuardTypes, ListTypes, [CampaignNext]_campaignVars
    PROVE  FileMoves /\ DOMAIN batch' = Batch /\ day' \in Days \cup {FirstDay}
  <1> USE DEF ListTypes
  <1>1. ASSUME NEW r \in Runner, Start(r) \/ Probe(r) \/ WritePid(r) \/ Loop(r) \/ SpawnFails(r)
                                 \/ ChildClosed(r) \/ Wake(r)
        PROVE  UNCHANGED batchVars /\ day' = day
    BY <1>1 DEF Start, Probe, WritePid, Loop, SpawnFails, ChildClosed, Wake
  <1>2. ASSUME NEW r \in Runner, Spawn(r)
        PROVE  FileMoves /\ DOMAIN batch' = Batch /\ day' = day
    BY <1>2, FreeBatchIsBatch DEF Spawn, StartBatch, NoBatch, FileMoves
  <1>3. ASSUME NEW b \in Batch, KillBatch(b)
        PROVE  FileMoves /\ DOMAIN batch' = Batch
    BY <1>3 DEF KillBatch, NoBatch, FileMoves
  <1>4. ASSUME NEW r \in Runner, KillRunner(r)
        PROVE  (FileMoves /\ DOMAIN batch' = Batch /\ day' = day)
    <2>1. CASE UNCHANGED batchVars
      BY <1>4, <2>1 DEF KillRunner, batchVars, FileMoves
    <2>2. ASSUME NEW b \in child[r], KillBatch(b)
          PROVE  FileMoves /\ DOMAIN batch' = Batch
      BY <1>3, <2>2 DEF GuardTypes
    <2> QED BY <1>4, <2>1, <2>2 DEF KillRunner
  <1>5. ASSUME NEW b \in Batch, NEW success \in BOOLEAN, NEW d \in Days \cup {FirstDay},
               FinishRun(b, success, d)
        PROVE  FileMoves /\ DOMAIN batch' = Batch
    <2> DEFINE run(s) == [number |-> batch[b].number, success |-> s, day |-> d]
    <2>1. \A s \in BOOLEAN : run(s) \in Run
      BY DEF Run
    <2>2. /\ batch[b].running /\ ~torn'
          /\ stored' = IF batch[b].failing THEN KeptTwice(batch[b].list, run(TRUE), run(FALSE))
                       ELSE Append(batch[b].list, run(success))
          /\ batch' = [batch EXCEPT ![b] = [running |-> TRUE, list |-> stored',
                                            left |-> batch[b].left - 1,
                                            number |-> batch[b].number + 1, failing |-> FALSE]]
      BY <1>5 DEF FinishRun
    <2>3. Added(stored', batch[b].list)
      <3> HIDE DEF run
      <3> QED BY <2>1, <2>2 DEF Added
    <2>4. /\ batch'[b].list = stored' /\ batch'[b].running /\ DOMAIN batch'[b] = DOMAIN NoBatch
          /\ batch'[b].number \in Nat
          /\ \A c \in Batch : c # b => batch'[c] = batch[c]
      BY <2>2 DEF NoBatch
    <2> QED BY <2>2, <2>3, <2>4 DEF FileMoves
  <1>6. ASSUME NEW b \in Batch, FinishBatch(b)
        PROVE  FileMoves /\ DOMAIN batch' = Batch
    BY <1>6 DEF FinishBatch, NoBatch, FileMoves
  <1>9. ASSUME NEW b \in Batch, SaveThrows(b)
        PROVE  FileMoves /\ DOMAIN batch' = Batch
    <2>1. batch' = [batch EXCEPT ![b].failing = TRUE]
      BY <1>9 DEF SaveThrows
    <2>2. /\ DOMAIN batch'[b] = DOMAIN batch[b] /\ batch'[b].number = batch[b].number
          /\ batch'[b].list = batch[b].list /\ batch'[b].running = batch[b].running
      BY <2>1 DEF NoBatch
    <2> QED BY <1>9, <2>1, <2>2 DEF SaveThrows, FileMoves
  <1>7. ASSUME NEW b \in Batch, BatchGoesOn(b) \/ BatchFails(b)
        PROVE  FileMoves /\ DOMAIN batch' = Batch /\ day' = day
    BY <1>3, <1>5, <1>6, <1>7, <1>9 DEF BatchGoesOn, BatchFails
  <1>8. CASE NextDay \/ ReusePid \/ UNCHANGED campaignVars
    BY <1>8 DEF NextDay, ReusePid, campaignVars, batchVars, FileMoves
  <1> QED
    BY <1>1, <1>2, <1>4, <1>7, <1>8 DEF CampaignNext, RunnerStep, batchVars, FileMoves

LEMMA ListTypesInit == CampaignInit => ListTypes
  <1> SUFFICES ASSUME CampaignInit PROVE ListTypes
    OBVIOUS
  <1>1. /\ stored = <<>> /\ day = FirstDay /\ DOMAIN batch = Batch
        /\ \A b \in Batch : batch[b] = NoBatch
    BY DEF CampaignInit, BatchInit
  <1>2. NoBatch.list = <<>> /\ NoBatch.number = 0
    BY DEF NoBatch
  <1>3. NoBatch.list \in Seq(Run) /\ NoBatch.number \in Nat
    BY <1>2, NothingIsList
  <1>4. \A b \in Batch : /\ DOMAIN batch[b] = DOMAIN NoBatch
                         /\ batch[b].list \in Seq(Run) /\ batch[b].number \in Nat
    BY <1>1, <1>3, Zenon
  <1> QED BY <1>1, <1>4, NothingIsList DEF ListTypes

LEMMA ListTypesNext ==
    ASSUME GuardTypes, ListTypes, [CampaignNext]_campaignVars
    PROVE  ListTypes'
  <1>1. FileMoves /\ DOMAIN batch' = Batch /\ day' \in Days \cup {FirstDay}
    BY FileMovesNext
  <1>2. stored' \in Seq(Run)
    BY <1>1, AddedKeeps, NothingIsList DEF ListTypes, FileMoves
  <1>3. \A c \in Batch : batch'[c].list \in Seq(Run)
    BY <1>1, <1>2, NothingIsList DEF ListTypes, FileMoves
  <1>4. \A c \in Batch : DOMAIN batch'[c] = DOMAIN NoBatch /\ batch'[c].number \in Nat
    BY <1>1 DEF ListTypes, FileMoves
  <1> QED BY <1>1, <1>2, <1>3, <1>4 DEF ListTypes

LEMMA ListsMatchNext ==
    ASSUME GuardInv, ListTypes, ListsMatch, [CampaignNext]_campaignVars
    PROVE  ListsMatch'
  <1>1. FileMoves
    BY FileMovesNext DEF GuardInv
  <1>2. ASSUME Undisturbed', NEW c \in Batch, batch'[c].running
        PROVE  stored' = IF torn' THEN <<>> ELSE batch'[c].list
    <2>1. Undisturbed
      BY <1>2, DisturbedForGood DEF GuardInv
    <2>2. \A a, b \in Batch : batch[a].running /\ batch[b].running => a = b
      BY <2>1, GuardInvImplies DEF OneBatch
    <2>3. \A b \in Batch : batch[b].running => stored = IF torn THEN <<>> ELSE batch[b].list
      BY <2>1 DEF ListsMatch
    <2> QED BY <1>1, <1>2, <2>2, <2>3 DEF FileMoves
  <1> QED BY <1>2 DEF ListsMatch

\* As long as batches are kept apart, no batch writes over a record another one stored:
\* the file only grows, unless a kill or a failing save leaves it in pieces.
THEOREM ResultsSurvive == CampaignSpec => ResultsNeverShrink
  <1>1. CampaignInit => ListTypes /\ ListsMatch
    <2> SUFFICES ASSUME CampaignInit PROVE ListsMatch
      BY ListTypesInit
    <2>1. \A b \in Batch : batch[b] = NoBatch
      BY DEF CampaignInit, BatchInit
    <2> QED BY <2>1 DEF NoBatch, ListsMatch
  <1>2. GuardInv /\ ListTypes /\ ListsMatch /\ [CampaignNext]_campaignVars
            => [Undisturbed' /\ ~torn' => SubSeq(stored', 1, Len(stored)) = stored]_campaignVars
    <2> SUFFICES ASSUME GuardInv, ListTypes, ListsMatch, [CampaignNext]_campaignVars,
                        Undisturbed', ~torn'
                 PROVE  SubSeq(stored', 1, Len(stored)) = stored
      OBVIOUS
    <2>1. FileMoves
      BY FileMovesNext DEF GuardInv
    <2>2. \A b \in Batch : batch[b].running => stored = IF torn THEN <<>> ELSE batch[b].list
      BY DisturbedForGood DEF GuardInv, ListsMatch
    <2>3. CASE stored = <<>>
      <3>1. stored' \in Seq(Run)
        BY ListTypesNext DEF GuardInv, ListTypes
      <3> QED BY <2>3, <3>1
    <2>4. CASE stored # <<>>
      <3>1. \A b \in Batch : batch[b].running => batch[b].list = stored
        BY <2>2, <2>4
      <3> QED BY <2>1, <3>1, AppendKeeps, AddedKeeps DEF ListTypes, FileMoves
    <2> QED BY <2>3, <2>4
  <1>3. GuardInv /\ ListTypes /\ ListsMatch /\ [CampaignNext]_campaignVars
            => ListTypes' /\ ListsMatch'
    BY ListTypesNext, ListsMatchNext DEF GuardInv
  <1> QED
    BY <1>1, <1>2, <1>3, GuardInvInit, GuardInvNext, PTL DEF CampaignSpec, ResultsNeverShrink

----------------------------------------------------------------------------
(* The target is not passed.                                                 *)

LEMMA SuccessesCounted ==
    ASSUME NEW list \in Seq(Run)
    PROVE  /\ IsFiniteSet(Successes(list)) /\ Cardinality(Successes(list)) \in Nat
           /\ Cardinality(DaysOf(list)) \in Nat
  <1>1. IsFiniteSet(1..Len(list))
    BY FS_Interval
  <1>2. Successes(list) \in SUBSET (1..Len(list))
    BY DEF Successes
  <1>3. IsFiniteSet(Successes(list))
    BY <1>1, <1>2, FS_Subset
  <1> DEFINE stamp == [i \in Successes(list) |-> list[i].day]
  <1>4. stamp \in Surjection(Successes(list), DaysOf(list))
    BY DEF Surjection, DaysOf, DaysAt
  <1>5. IsFiniteSet(DaysOf(list))
    BY <1>3, <1>4, FS_Surjection
  <1> QED BY <1>3, <1>5, FS_CardinalityType

LEMMA SuccessesOfAppended ==
    ASSUME NEW list \in Seq(Run), NEW run \in Run, NEW longer, longer = Append(list, run)
    PROVE  /\ Successes(longer) = IF run.success THEN Successes(list) \cup {Len(list) + 1}
                                  ELSE Successes(list)
           /\ \A i \in Successes(list) : i < Len(list) + 1
           /\ \A places \in SUBSET Successes(list) : DaysAt(longer, places) = DaysAt(list, places)
  <1>1. /\ Len(longer) = Len(list) + 1 /\ Len(list) \in Nat /\ longer[Len(list) + 1] = run
        /\ \A i \in 1..Len(list) : longer[i] = list[i]
    OBVIOUS
  <1>2. Successes(longer) = IF run.success THEN Successes(list) \cup {Len(list) + 1}
                            ELSE Successes(list)
    BY <1>1 DEF Successes
  <1>3. \A i \in Successes(list) : i < Len(list) + 1 /\ longer[i] = list[i]
    BY <1>1 DEF Successes
  <1>4. \A places \in SUBSET Successes(list) : DaysAt(longer, places) = DaysAt(list, places)
    BY <1>3 DEF DaysAt
  <1> QED BY <1>2, <1>3, <1>4

\* n more runs are called for: they cannot pass the target, or are a single run for a day
\* that is missing.
CalledFor(list, n) ==
    \/ n = 0
    \/ Cardinality(Successes(list)) + n <= Target
    \/ n = 1 /\ Cardinality(DaysOf(list)) < MinDays

\* What NoOvershoot says of the file, of any list.
Within(list) ==
    Cardinality(Successes(list)) > Target =>
        \A last \in Successes(list) : (\A i \in Successes(list) : i <= last) =>
            Cardinality(DaysAt(list, Successes(list) \ {last})) < MinDays

SizeTypes == size \in [Runner -> Nat] /\ \A b \in Batch : batch[b].left \in Nat

\* From the head of the loop, where its size is computed, to its last run; the file only
\* changes by that batch's own saves meanwhile, as batches are kept apart.  A save that
\* fails may leave the file in pieces, but not the list the batch will save next.
BatchesCalledFor ==
    Undisturbed =>
        /\ \A r \in Runner : pc[r] = "spawn" => CalledFor(stored, size[r])
        /\ \A b \in Batch : batch[b].running =>
                CalledFor(batch[b].list, batch[b].left) /\ Within(batch[b].list)

LEMMA NextSizeIsCalledFor ==
    ASSUME ListTypes, ~StopNow
    PROVE  NextSize \in Nat /\ CalledFor(stored, NextSize)
  <1>1. Cardinality(Successes(stored)) \in Nat /\ Cardinality(DaysOf(stored)) \in Nat
    BY SuccessesCounted DEF ListTypes
  <1> QED BY <1>1, CampaignAssumption DEF NextSize, CalledFor, StopNow, Enough, Reached

LEMMA SizeTypesNext ==
    ASSUME GuardTypes, ListTypes, SizeTypes, [CampaignNext]_campaignVars
    PROVE  SizeTypes'
  <1> USE DEF SizeTypes, GuardTypes
  <1>1. ASSUME NEW r \in Runner, Start(r) \/ Probe(r) \/ WritePid(r) \/ SpawnFails(r)
                                 \/ ChildClosed(r) \/ Wake(r)
        PROVE  SizeTypes'
    BY <1>1 DEF Start, Probe, WritePid, SpawnFails, ChildClosed, Wake, batchVars
  <1>2. ASSUME NEW r \in Runner, Loop(r) PROVE SizeTypes'
    BY <1>2, NextSizeIsCalledFor DEF Loop, batchVars
  <1>3. ASSUME NEW r \in Runner, Spawn(r) PROVE SizeTypes'
    BY <1>3, FreeBatchIsBatch DEF Spawn, StartBatch
  <1>4. ASSUME NEW b \in Batch, FinishBatch(b) \/ KillBatch(b), size' = size PROVE SizeTypes'
    BY <1>4 DEF FinishBatch, KillBatch, NoBatch
  <1>9. ASSUME NEW b \in Batch, SaveThrows(b), size' = size PROVE SizeTypes'
    <2>1. batch' = [batch EXCEPT ![b].failing = TRUE]
      BY <1>9 DEF SaveThrows
    <2>2. batch'[b].left = batch[b].left
      BY <2>1 DEF ListTypes, NoBatch
    <2> QED BY <1>9, <2>1, <2>2
  <1>5. ASSUME NEW r \in Runner, KillRunner(r) PROVE SizeTypes'
    BY <1>4, <1>5 DEF KillRunner, batchVars
  <1>6. ASSUME NEW b \in Batch, NEW success, NEW d, FinishRun(b, success, d), size' = size
        PROVE  SizeTypes'
    BY <1>6 DEF FinishRun
  <1>7. ASSUME NEW b \in Batch, BatchGoesOn(b) \/ BatchFails(b) PROVE SizeTypes'
    BY <1>4, <1>6, <1>7, <1>9 DEF BatchGoesOn, BatchFails, runnerVars
  <1>8. CASE NextDay \/ ReusePid \/ UNCHANGED campaignVars
    BY <1>8 DEF NextDay, ReusePid, campaignVars, runnerVars, batchVars
  <1> QED BY <1>1, <1>2, <1>3, <1>5, <1>7, <1>8 DEF CampaignNext, RunnerStep

\* While a batch runs, no other does, and no runner is about to start one.
LEMMA RunningIsAlone ==
    ASSUME Apart, NEW b \in Batch, batch[b].running
    PROVE  /\ \A c \in Batch : batch[c].running => c = b
           /\ \A r \in Runner : pc[r] # "spawn"
  <1>1. HolderHasPidfile /\ BatchHasParent
    BY DEF Apart
  <1>2. PICK q \in Runner : pc[q] = "batch" /\ child[q] = {b}
    BY <1>1 DEF BatchHasParent
  <1>3. \A r \in Runner : pc[r] \in Holding => r = q
    BY <1>1, <1>2 DEF HolderHasPidfile, Holding
  <1>4. \A c \in Batch : batch[c].running => c = b
    BY <1>1, <1>2, <1>3 DEF BatchHasParent, Holding
  <1> QED BY <1>2, <1>3, <1>4 DEF Holding

\* A run that was called for.
LEMMA RunStaysCalledFor ==
    ASSUME NEW list \in Seq(Run), NEW n \in Nat, n > 0, CalledFor(list, n), NEW run \in Run,
           NEW longer, longer = Append(list, run)
    PROVE  CalledFor(longer, n - 1) /\ (Within(list) => Within(longer))
  <1> DEFINE S == Successes(list)
             c == Cardinality(S)
             k == Len(list) + 1
  <1>1. list \in Seq(Run) /\ k \in Nat
    OBVIOUS
  <1>2. IsFiniteSet(S) /\ c \in Nat
    BY <1>1, SuccessesCounted
  <1>3. /\ Successes(longer) = IF run.success THEN S \cup {k} ELSE S
        /\ \A i \in S : i < k
        /\ \A places \in SUBSET S : DaysAt(longer, places) = DaysAt(list, places)
    BY <1>1, SuccessesOfAppended
  <1>4. S \in SUBSET Nat
    BY <1>1 DEF Successes
  <1>5. k \notin S
    BY <1>1, <1>3, <1>4
  <1>6. Cardinality(S \cup {k}) = c + 1
    BY <1>2, <1>5, FS_AddElement
  <1> HIDE DEF k, c
  <1>7. Cardinality(Successes(longer)) \in {c, c + 1}
    BY <1>3, <1>6 DEF c
  <1>8. CalledFor(longer, n - 1)
    <2>1. CASE n = 1
      BY <2>1 DEF CalledFor
    <2>2. CASE n # 1
      <3>1. c + n <= Target
        BY <2>2 DEF CalledFor, c
      <3>2. Cardinality(Successes(longer)) + (n - 1) <= Target
        BY <1>2, <1>7, <3>1, CampaignAssumption
      <3> QED BY <3>2 DEF CalledFor
    <2> QED BY <2>1, <2>2
  <1>9. ASSUME c > Target =>
                 \A last \in S : (\A i \in S : i <= last) =>
                    Cardinality(DaysAt(list, S \ {last})) < MinDays,
               Cardinality(Successes(longer)) > Target,
               NEW last \in Successes(longer), \A i \in Successes(longer) : i <= last
        PROVE  Cardinality(DaysAt(longer, Successes(longer) \ {last})) < MinDays
    <2>1. CASE ~run.success
      <3>1. Successes(longer) = S /\ c > Target
        BY <1>3, <1>9, <2>1 DEF c
      <3>2. S \ {last} \in SUBSET S
        OBVIOUS
      <3>3. DaysAt(longer, S \ {last}) = DaysAt(list, S \ {last})
        BY <1>3, <3>2
      <3> QED BY <1>9, <3>1, <3>3
    <2>2. CASE run.success
      <3>1. Successes(longer) = S \cup {k} /\ c + 1 > Target
        BY <1>3, <1>6, <1>9, <2>2
      <3>2. n = 1 /\ Cardinality(DaysOf(list)) < MinDays
        BY <1>2, <3>1, CampaignAssumption DEF CalledFor, c
      <3>3. last = k
        <4>1. last \in S \cup {k} /\ k <= last
          BY <1>9, <3>1
        <4> QED BY <1>1, <1>3, <1>4, <4>1
      <3>4. Successes(longer) \ {last} = S
        BY <1>5, <3>1, <3>3
      <3>5. DaysAt(longer, S) = DaysOf(list)
        BY <1>3 DEF DaysOf
      <3> QED BY <3>2, <3>4, <3>5
    <2> QED BY <2>1, <2>2
  <1> QED BY <1>8, <1>9 DEF Within, c

\* A failure counts for nothing.
LEMMA FailureStaysCalledFor ==
    ASSUME NEW list \in Seq(Run), NEW n, CalledFor(list, n), Within(list), NEW run \in Run,
           ~run.success, NEW longer, longer = Append(list, run)
    PROVE  CalledFor(longer, n) /\ Within(longer)
  <1>1. /\ Successes(longer) = Successes(list)
        /\ \A places \in SUBSET Successes(list) : DaysAt(longer, places) = DaysAt(list, places)
    BY SuccessesOfAppended
  <1>2. DaysOf(longer) = DaysOf(list)
    BY <1>1 DEF DaysOf
  <1>3. \A last \in Successes(list) :
            DaysAt(longer, Successes(list) \ {last}) = DaysAt(list, Successes(list) \ {last})
    BY <1>1
  <1> QED BY <1>1, <1>2, <1>3 DEF CalledFor, Within

LEMMA CampaignFits ==
    ASSUME GuardInv, ListTypes, SizeTypes, BatchesCalledFor, NoOvershoot,
           [CampaignNext]_campaignVars, Undisturbed'
    PROVE  BatchesCalledFor' /\ NoOvershoot'
  <1>1. GuardTypes /\ Undisturbed /\ Apart
    BY DisturbedForGood DEF GuardInv
  <1>2. /\ \A r \in Runner : pc[r] = "spawn" => CalledFor(stored, size[r])
        /\ \A b \in Batch : batch[b].running =>
                CalledFor(batch[b].list, batch[b].left) /\ Within(batch[b].list)
    BY <1>1 DEF BatchesCalledFor
  <1>3. Within(stored)
    BY <1>1 DEF NoOvershoot, Within
  <1>4. Within(stored') => NoOvershoot'
    BY DEF NoOvershoot, Within
  <1>15. stored' = stored => NoOvershoot'
    BY <1>3, <1>4
  <1>16. stored' = <<>> => NoOvershoot'
    BY <1>4, CampaignAssumption, FS_EmptySet DEF Within, Successes
  <1>5. ASSUME UNCHANGED <<stored, batch, size>>, \A r \in Runner : pc'[r] = "spawn" => pc[r] = "spawn"
        PROVE  BatchesCalledFor' /\ NoOvershoot'
    BY <1>2, <1>5, <1>15 DEF BatchesCalledFor
  <1>6. ASSUME NEW r \in Runner, Start(r) \/ Probe(r) \/ WritePid(r) \/ SpawnFails(r)
                                 \/ ChildClosed(r) \/ Wake(r)
        PROVE  BatchesCalledFor' /\ NoOvershoot'
    <2>1. UNCHANGED <<stored, batch, size>>
      BY <1>6 DEF Start, Probe, WritePid, SpawnFails, ChildClosed, Wake, batchVars
    <2>2. \A q \in Runner : pc'[q] = "spawn" => pc[q] = "spawn"
      BY <1>1, <1>6 DEF GuardTypes, Start, Probe, Probed, WritePid, SpawnFails, ChildClosed, Wake
    <2> QED BY <1>5, <2>1, <2>2
  <1>7. ASSUME NEW r \in Runner, Loop(r) PROVE BatchesCalledFor' /\ NoOvershoot'
    <2>1. UNCHANGED <<stored, batch>>
      BY <1>7 DEF Loop, batchVars
    <2>2. CASE torn \/ StopNow
      <3>1. size' = size /\ \A q \in Runner : pc'[q] = "spawn" => pc[q] = "spawn"
        BY <1>1, <1>7, <2>2 DEF GuardTypes, Loop
      <3> QED BY <1>5, <2>1, <3>1
    <2>3. CASE ~(torn \/ StopNow)
      <3>1. /\ size'[r] = NextSize
            /\ \A q \in Runner : q # r => size'[q] = size[q] /\ pc'[q] = pc[q]
        BY <1>1, <1>7, <2>3 DEF GuardTypes, SizeTypes, Loop
      <3>2. CalledFor(stored', size'[r])
        BY <2>1, <2>3, <3>1, NextSizeIsCalledFor
      <3>3. \A q \in Runner : pc'[q] = "spawn" => CalledFor(stored', size'[q])
        BY <1>2, <2>1, <3>1, <3>2
      <3> QED BY <1>2, <1>15, <2>1, <3>3 DEF BatchesCalledFor
    <2> QED BY <2>2, <2>3
  <1>8. ASSUME NEW r \in Runner, Spawn(r) PROVE BatchesCalledFor' /\ NoOvershoot'
    <2>1. /\ stored' = stored /\ size' = size /\ pc[r] = "spawn"
          /\ batch'[FreeBatch].left = size[r] /\ batch'[FreeBatch].list = stored
          /\ \A b \in Batch : b # FreeBatch => batch'[b] = batch[b]
          /\ \A q \in Runner : pc'[q] = "spawn" => pc[q] = "spawn"
      BY <1>1, <1>8, FreeBatchIsBatch DEF Spawn, StartBatch, GuardTypes
    <2>2. \A b \in Batch : batch'[b].running =>
                CalledFor(batch'[b].list, batch'[b].left) /\ Within(batch'[b].list)
      BY <1>2, <1>3, <2>1
    <2> QED BY <1>2, <1>15, <2>1, <2>2 DEF BatchesCalledFor
  <1>9. ASSUME NEW b \in Batch, batch[b].running, ~batch'[b].running,
               \A c \in Batch : c # b => batch'[c] = batch[c],
               \A r \in Runner : pc'[r] = "spawn" => pc[r] = "spawn"
        PROVE  BatchesCalledFor'
    BY <1>1, <1>9, RunningIsAlone DEF BatchesCalledFor
  <1>10. ASSUME NEW b \in Batch, KillBatch(b) \/ FinishBatch(b),
                \A r \in Runner : pc'[r] = "spawn" => pc[r] = "spawn"
         PROVE  BatchesCalledFor' /\ NoOvershoot'
    <2>1. /\ batch[b].running /\ ~batch'[b].running
          /\ \A c \in Batch : c # b => batch'[c] = batch[c]
      BY <1>1, <1>10 DEF KillBatch, FinishBatch, NoBatch, GuardTypes
    <2>2. stored' \in {stored, <<>>, batch[b].list}
      BY <1>10 DEF KillBatch, FinishBatch
    <2>3. NoOvershoot'
      BY <1>2, <1>4, <1>15, <1>16, <2>1, <2>2
    <2> QED BY <1>9, <1>10, <2>1, <2>3
  <1>11. ASSUME NEW r \in Runner, KillRunner(r) PROVE BatchesCalledFor' /\ NoOvershoot'
    <2>1. size' = size /\ \A q \in Runner : pc'[q] = "spawn" => pc[q] = "spawn"
      BY <1>1, <1>11 DEF GuardTypes, KillRunner
    <2>2. ASSUME NEW b \in child[r], KillBatch(b) PROVE BatchesCalledFor' /\ NoOvershoot'
      BY <1>1, <1>10, <2>1, <2>2 DEF GuardTypes
    <2>3. CASE UNCHANGED batchVars
      BY <1>5, <2>1, <2>3 DEF batchVars
    <2> QED BY <1>11, <2>2, <2>3 DEF KillRunner
  <1>12. ASSUME NEW b \in Batch, NEW success \in BOOLEAN, NEW d \in Days \cup {FirstDay},
                FinishRun(b, success, d), pc' = pc
         PROVE  BatchesCalledFor' /\ NoOvershoot'
    <2> DEFINE n == batch[b].left
               list == batch[b].list
               run(s) == [number |-> batch[b].number, success |-> s, day |-> d]
    <2>1. /\ batch[b].running /\ n > 0 /\ n \in Nat /\ list \in Seq(Run)
          /\ CalledFor(list, n) /\ Within(list)
      BY <1>2, <1>12 DEF FinishRun, SizeTypes, ListTypes
    <2>2. \A s \in BOOLEAN : run(s) \in Run /\ run(s).success = s
      BY DEF Run, ListTypes
    <2>3. /\ stored' = IF batch[b].failing THEN KeptTwice(list, run(TRUE), run(FALSE))
                       ELSE Append(list, run(success))
          /\ batch'[b].left = n - 1 /\ batch'[b].list = stored'
          /\ \A c \in Batch : c # b => batch'[c] = batch[c]
      BY <1>1, <1>12 DEF FinishRun, GuardTypes
    <2> HIDE DEF n, list, run
    <2>4. \A s \in BOOLEAN : /\ CalledFor(Append(list, run(s)), n - 1)
                             /\ Within(Append(list, run(s)))
      BY <2>1, <2>2, RunStaysCalledFor
    <2>5. Append(list, run(TRUE)) \in Seq(Run)
      BY <2>1, <2>2, AppendKeeps
    <2>6. CalledFor(stored', n - 1) /\ Within(stored')
      <3>1. CASE batch[b].failing
        <4>1. stored' = Append(Append(list, run(TRUE)), run(FALSE))
          BY <2>3, <3>1 DEF KeptTwice
        <4>2. run(FALSE) \in Run /\ ~run(FALSE).success
          BY <2>2
        <4> QED BY <2>4, <2>5, <4>1, <4>2, FailureStaysCalledFor
      <3>2. CASE ~batch[b].failing
        BY <2>3, <2>4, <3>2
      <3> QED BY <3>1, <3>2
    <2>7. BatchesCalledFor'
      <3>1. \A r \in Runner : pc'[r] # "spawn"
        BY <1>1, <1>12, <2>1, RunningIsAlone
      <3>2. \A c \in Batch : batch'[c].running => c = b
        BY <1>1, <2>1, <2>3, RunningIsAlone
      <3> QED BY <2>3, <2>6, <3>1, <3>2 DEF BatchesCalledFor
    <2> QED BY <1>4, <2>6, <2>7
  <1>17. ASSUME NEW b \in Batch, SaveThrows(b), UNCHANGED <<pc, size>>
         PROVE  BatchesCalledFor' /\ NoOvershoot'
    <2>1. batch' = [batch EXCEPT ![b].failing = TRUE]
      BY <1>17 DEF SaveThrows
    <2>2. /\ batch'[b].left = batch[b].left /\ batch'[b].list = batch[b].list
          /\ batch'[b].running = batch[b].running
          /\ \A c \in Batch : c # b => batch'[c] = batch[c]
      BY <2>1 DEF ListTypes, NoBatch
    <2>3. \A c \in Batch : batch'[c].running =>
                CalledFor(batch'[c].list, batch'[c].left) /\ Within(batch'[c].list)
      BY <1>2, <2>2
    <2>4. \A r \in Runner : pc'[r] # "spawn"
      BY <1>1, <1>17, RunningIsAlone DEF SaveThrows
    <2>5. NoOvershoot'
      BY <1>15, <1>16, <1>17 DEF SaveThrows
    <2> QED BY <2>3, <2>4, <2>5 DEF BatchesCalledFor
  <1>13. ASSUME NEW b \in Batch, BatchGoesOn(b) \/ BatchFails(b)
         PROVE  BatchesCalledFor' /\ NoOvershoot'
    BY <1>10, <1>12, <1>13, <1>17 DEF BatchGoesOn, BatchFails, runnerVars, ListTypes
  <1>14. CASE NextDay \/ ReusePid \/ UNCHANGED campaignVars
    BY <1>5, <1>14 DEF NextDay, ReusePid, campaignVars, runnerVars, batchVars
  <1> QED BY <1>6, <1>7, <1>8, <1>11, <1>13, <1>14 DEF CampaignNext, RunnerStep

\* For any target, batch size and number of days, with any number of runners, kills and
\* restarts: as long as batches are kept apart, more runs than the target succeed only
\* one at a time, each while days are missing.
THEOREM TargetIsNotPassed == CampaignSpec => []NoOvershoot
  <1> DEFINE Inv == GuardInv /\ ListTypes /\ SizeTypes /\ BatchesCalledFor /\ NoOvershoot
  <1>1. CampaignInit => Inv
    <2> SUFFICES ASSUME CampaignInit PROVE Inv
      OBVIOUS
    <2>1. /\ stored = <<>> /\ day = FirstDay /\ size = [r \in Runner |-> 0]
          /\ DOMAIN batch = Batch /\ \A b \in Batch : batch[b] = NoBatch
          /\ \A r \in Runner : pc[r] # "spawn"
      BY DEF CampaignInit, BatchInit
    <2>2. NoBatch.list = <<>> /\ ~NoBatch.running /\ NoBatch.left = 0
      BY DEF NoBatch
    <2>3. SizeTypes
      BY <2>1, <2>2 DEF SizeTypes
    <2>5. BatchesCalledFor
      BY <2>1, <2>2 DEF BatchesCalledFor
    <2>4. NoOvershoot
      BY <2>1 DEF NoOvershoot, Successes
    <2> QED BY <2>3, <2>4, <2>5, GuardInvInit, ListTypesInit
  <1>2. Inv /\ [CampaignNext]_campaignVars => Inv'
    <2> SUFFICES ASSUME Inv, [CampaignNext]_campaignVars PROVE Inv'
      OBVIOUS
    <2>1. GuardInv' /\ ListTypes'
      BY GuardInvNext, ListTypesNext DEF GuardInv
    <2>2. SizeTypes'
      BY SizeTypesNext DEF GuardInv
    <2>3. CASE Undisturbed'
      BY <2>1, <2>2, <2>3, CampaignFits
    <2>4. CASE ~Undisturbed'
      BY <2>1, <2>2, <2>4 DEF BatchesCalledFor, NoOvershoot
    <2> QED BY <2>3, <2>4
  <1> QED BY <1>1, <1>2, PTL DEF CampaignSpec
=============================================================================
