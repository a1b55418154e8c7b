---------------------------- MODULE CampaignRunner ----------------------------
(***************************************************************************)
(* scripts/campaign-runner.js: a runner spawns one batch of                 *)
(* htlc-evaluation.js at a time until enough transfers succeeded on enough  *)
(* days.  A pid file is meant to keep runners apart.  Several runners may   *)
(* be started, killed and started again, by hand or by launchd.             *)
(***************************************************************************)
EXTENDS EvaluationBatch, FiniteSets

CONSTANTS
    Runner,      \* runner processes
    Target,      \* TARGET: successful runs wanted
    BatchSize,   \* BATCH: runs per session
    MinDays,     \* MIN_DAYS: distinct days wanted
    PerDay,      \* sessions the gap between two of them leaves room for in a day
    MaxFaults    \* bound of an instance: runs and saves failed, processes killed,
                 \* runners started by hand

ASSUME CampaignAssumption ==
    /\ Target \in Nat \ {0} /\ BatchSize \in Nat \ {0}
    /\ MinDays \in Nat /\ PerDay \in Nat \ {0} /\ MaxFaults \in Nat
    /\ Days \subseteq Nat /\ Batch # {}
    /\ Runner \cap {"none", "empty", "stale", "foreign"} = {}

VARIABLES
    pc,          \* [Runner -> where it is]
    size,        \* [Runner -> n, the runs of its next batch]
    child,       \* [Runner -> the batch it waits for: a set of one, or empty]
    pidfile,     \* campaign.pid: missing, a live runner, truncated, the pid of a dead
                 \* process, or that pid when another program has got it since
    day, woken,  \* today; sleeps that ended today
    overlapped,  \* whether two runners were ever inside acquireLock at once
    orphaned,    \* whether a batch ever outlived its runner
    reused,      \* whether the pid in a stale file was ever reused
    faults       \* runs and saves failed, processes killed, runners started by hand so far

runnerVars == <<pc, size, child, pidfile>>
historyVars == <<overlapped, orphaned, reused, faults>>
campaignVars == <<batchVars, runnerVars, day, woken, historyVars>>

FirstDay == CHOOSE d \in Days : \A e \in Days : d <= e

\* One runner is installed under launchd; others are started by hand.
FirstRunner == CHOOSE r \in Runner : TRUE

CampaignInit ==
    /\ BatchInit
    /\ pc = [r \in Runner |-> IF r = FirstRunner THEN "due" ELSE "off"]
    /\ size = [r \in Runner |-> 0]
    /\ child = [r \in Runner |-> {}] /\ pidfile = "none"
    /\ day = FirstDay /\ woken = 0
    /\ overlapped = FALSE /\ orphaned = FALSE /\ reused = FALSE /\ faults = 0

\* Bounds of an instance: so many faults, and none once batches may overlap.
Undisturbed == ~overlapped /\ ~orphaned
Fault == faults < MaxFaults /\ Undisturbed /\ faults' = faults + 1

----------------------------------------------------------------------------
\* acquireLock: look for the file, probe the process it names, write one's own pid
\* (truncate, then write), and only then register the cleanup.
Acquiring == {"probe", "write", "writing"}
Holding == {"loop", "spawn", "batch", "sleep"}

Start(r) ==
    /\ \/ pc[r] = "due" /\ UNCHANGED faults
       \/ pc[r] = "off" /\ Fault
    /\ pc' = [pc EXCEPT ![r] = IF pidfile = "none" THEN "write" ELSE "probe"]
    /\ overlapped' = (overlapped \/ \E q \in Runner : pc[q] \in Acquiring)
    /\ UNCHANGED <<batchVars, size, child, pidfile, day, woken, orphaned, reused>>

\* process.kill(oldPid, 0) throws for a dead process and for what is not a number.
Probed == IF pidfile = "none" THEN "due"        \* readFileSync throws: exit 1
          ELSE IF pidfile \in Runner \cup {"foreign"} THEN "off"        \* exit 0
          ELSE "write"
ProbeNothing(r) ==     \* mutant: the guard only logs
    /\ pc[r] = "probe"
    /\ pc' = [pc EXCEPT ![r] = "write"]
    /\ UNCHANGED <<batchVars, size, child, pidfile, day, woken, historyVars>>
Probe(r) ==
    /\ pc[r] = "probe"
    /\ pc' = [pc EXCEPT ![r] = Probed]
    /\ UNCHANGED <<batchVars, size, child, pidfile, day, woken, historyVars>>

WritePid(r) ==
    /\ \/ pc[r] = "write" /\ pc' = [pc EXCEPT ![r] = "writing"] /\ pidfile' = "empty"
       \/ pc[r] = "writing" /\ pc' = [pc EXCEPT ![r] = "loop"] /\ pidfile' = r
    /\ UNCHANGED <<batchVars, size, child, day, woken, historyVars>>

----------------------------------------------------------------------------
\* progress() reads the file as it is; a failed run is stamped with no day.
Successes(list) == {i \in 1..Len(list) : list[i].success}
DaysAt(list, places) == {list[i].day : i \in places}
DaysOf(list) == DaysAt(list, Successes(list))
Reached == Cardinality(Successes(stored)) >= Target
Enough == Reached /\ Cardinality(DaysOf(stored)) >= MinDays
EnoughRuns == Reached     \* mutant: the days are not asked for
StopNow == Enough

\* n: what is missing, at most a batch; one run at a time when only days are missing.
Uncapped == BatchSize     \* mutant: always a whole batch
NextSize ==
    IF Reached THEN 1
    ELSE LET missing == Target - Cardinality(Successes(stored))
         IN IF missing < BatchSize THEN missing ELSE BatchSize

\* The head of the loop.  Every exit of the runner unlinks the file, whoever wrote it.
Loop(r) ==
    /\ pc[r] = "loop"
    /\ IF torn \/ StopNow
       THEN /\ pc' = [pc EXCEPT ![r] = IF torn THEN "due" ELSE "off"]
            /\ pidfile' = "none" /\ UNCHANGED size
       ELSE /\ pc' = [pc EXCEPT ![r] = "spawn"]
            /\ size' = [size EXCEPT ![r] = NextSize] /\ UNCHANGED pidfile
    /\ UNCHANGED <<batchVars, child, day, woken, historyVars>>

\* runBatch: a new process, which loads the results.
FreeBatch == CHOOSE b \in Batch : (\E f \in Batch : ~batch[f].running) => ~batch[b].running
SpawnUnawaited(r) ==     \* mutant: await runBatch(..) without the await
    /\ pc[r] = "spawn"
    /\ StartBatch(FreeBatch, size[r])
    /\ pc' = [pc EXCEPT ![r] = "sleep"]
    /\ UNCHANGED <<size, child, pidfile, day, woken, historyVars>>
Spawn(r) ==
    /\ pc[r] = "spawn"
    /\ StartBatch(FreeBatch, size[r]) /\ child' = [child EXCEPT ![r] = {FreeBatch}]
    /\ pc' = [pc EXCEPT ![r] = "batch"]
    /\ UNCHANGED <<size, pidfile, day, woken, historyVars>>

\* It cannot load them, or ends before that.
SpawnFails(r) ==
    /\ pc[r] = "spawn"
    /\ IF torn THEN UNCHANGED faults ELSE Fault
    /\ pc' = [pc EXCEPT ![r] = "sleep"]
    /\ UNCHANGED <<batchVars, size, child, pidfile, day, woken, overlapped, orphaned, reused>>

ChildClosed(r) ==
    /\ pc[r] = "batch" /\ \A b \in child[r] : ~batch[b].running
    /\ pc' = [pc EXCEPT ![r] = "sleep"] /\ child' = [child EXCEPT ![r] = {}]
    /\ UNCHANGED <<batchVars, size, pidfile, day, woken, historyVars>>

\* The gap between two sessions is hours long.
Wake(r) ==
    /\ pc[r] = "sleep" /\ woken < PerDay
    /\ pc' = [pc EXCEPT ![r] = "loop"] /\ woken' = woken + 1
    /\ UNCHANGED <<batchVars, size, child, pidfile, day, historyVars>>

RunnerStep(r) ==
    \/ Probe(r) \/ WritePid(r) \/ Loop(r)
    \/ Spawn(r) \/ SpawnFails(r) \/ ChildClosed(r) \/ Wake(r)

----------------------------------------------------------------------------
\* A signal ends a runner.  SIGINT and SIGTERM unlink the file once they are
\* handled, SIGKILL does not.  The child shares its fate or outlives it.
KillRunner(r) ==
    /\ pc[r] \notin {"due", "off"} /\ Fault
    /\ pc' = [pc EXCEPT ![r] = "due"] /\ child' = [child EXCEPT ![r] = {}]
    /\ \/ pc[r] \in Holding /\ pidfile' = "none"
       \/ pidfile' = IF pidfile = r THEN "stale" ELSE pidfile
    /\ \/ \E b \in child[r] : KillBatch(b) /\ UNCHANGED orphaned
       \/ /\ orphaned' = (orphaned \/ \E b \in child[r] : batch[b].running)
          /\ UNCHANGED batchVars
    /\ UNCHANGED <<size, day, woken, overlapped, reused>>

\* A batch, with or without its runner: a run succeeds or fails, its save throws, the
\* batch ends or is killed.
BatchGoesOn(b) ==
    /\ FinishRun(b, TRUE, day) \/ FinishBatch(b)
    /\ UNCHANGED <<runnerVars, day, woken, historyVars>>

BatchFails(b) ==
    /\ FinishRun(b, FALSE, FirstDay) \/ SaveThrows(b) \/ KillBatch(b)
    /\ Fault
    /\ UNCHANGED <<runnerVars, day, woken, overlapped, orphaned, reused>>

\* The next day no run is stamped with yet.
Stamped == DaysOf(stored) \cup UNION {DaysOf(batch[b].list) : b \in Batch}
NextDay ==
    /\ woken' = 0
    /\ day' \in Days \ Stamped                               \* Days: bound of an instance
    /\ \A d \in Days \ Stamped : day' <= d
    /\ UNCHANGED <<batchVars, runnerVars, historyVars>>

\* Another program gets the pid of a runner that left its file behind, and ends.
ReusePid ==
    /\ \/ pidfile = "stale" /\ pidfile' = "foreign" /\ reused' = TRUE
       \/ pidfile = "foreign" /\ pidfile' = "stale" /\ UNCHANGED reused
    /\ UNCHANGED <<batchVars, pc, size, child, day, woken, overlapped, orphaned, faults>>

CampaignNext ==
    \/ \E r \in Runner : Start(r) \/ RunnerStep(r) \/ KillRunner(r)
    \/ \E b \in Batch : BatchGoesOn(b) \/ BatchFails(b)
    \/ NextDay
    \/ ReusePid

CampaignSpec == CampaignInit /\ [][CampaignNext]_campaignVars

\* launchd (or its user) starts a runner that is new or did not exit with 0, the
\* runner does not stop by itself, nor does a batch; and days pass.
CampaignFairness ==
    /\ \A r \in Runner : WF_campaignVars(pc[r] = "due" /\ Start(r))
    /\ \A r \in Runner : WF_campaignVars(RunnerStep(r))
    /\ \A b \in Batch : WF_campaignVars(BatchGoesOn(b))
    /\ WF_campaignVars(NextDay)

FairCampaignSpec == CampaignSpec /\ CampaignFairness

----------------------------------------------------------------------------
\* The guard keeps batches apart ("concurrent runners race on the wallet nonce and the
\* results file"), through kills, stale files and restarts, as long as no two runners
\* are inside acquireLock at once and no child outlives its runner.
OneBatch == Undisturbed => \A a, b \in Batch : batch[a].running /\ batch[b].running => a = b

\* Then no record of a run is ever lost, but by a kill or a failure in the middle of a
\* write.
ResultsNeverShrink ==
    [][Undisturbed' /\ ~torn' => SubSeq(stored', 1, Len(stored)) = stored]_campaignVars

\* The campaign stops at the target: more runs than that succeed only while the
\* days are missing.
NoOvershoot ==
    LET wanted == Successes(stored)
    IN Undisturbed /\ Cardinality(wanted) > Target =>
           \A last \in wanted : (\A i \in wanted : i <= last) =>
               Cardinality(DaysAt(stored, wanted \ {last})) < MinDays

\* Every campaign reaches its target, whatever was killed or failed in between (so often
\* and no more: the batches after that succeed), unless the results file stays in pieces
\* (every restart fails then) or the pid of a killed runner was reused (a runner takes
\* the other program for a runner).
CampaignEnds == <>(reused \/ Enough) \/ <>[]torn
=============================================================================
