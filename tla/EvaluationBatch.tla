---------------------------- MODULE EvaluationBatch ----------------------------
(***************************************************************************)
(* What a batch of htlc-evaluation.js does to evaluation-results.json,      *)
(* whatever the transfers do: it reads the file once, adds one record per   *)
(* run to the list it keeps in memory (two, of a run whose save failed),    *)
(* and writes the whole list after each.  Several batches may run at once;  *)
(* nothing keeps them apart here.                                           *)
(***************************************************************************)
EXTENDS Naturals, Sequences

CONSTANTS
    Batch,       \* processes that may run a batch
    Days,        \* days a successful lock may be stamped with
    MaxRuns      \* bound of an instance: runs of one batch

Outcomes == [number : Nat, success : BOOLEAN, day : Days]

VARIABLES
    stored,      \* the records in the file
    torn,        \* whether the file was left in pieces
    batch        \* [Batch -> the process: running, its list, its iterations left, the
                 \* number of its run, and whether saving that run's success failed]

batchVars == <<stored, torn, batch>>

NoBatch == [running |-> FALSE, list |-> <<>>, left |-> 0, number |-> 0, failing |-> FALSE]

BatchInit ==
    /\ stored = <<>> /\ torn = FALSE
    /\ batch = [b \in Batch |-> NoBatch]

\* The results are loaded; a torn file ends the process at once.
StartBatch(b, n) ==
    /\ ~batch[b].running /\ ~torn
    /\ batch' = [batch EXCEPT ![b] = [running |-> TRUE, list |-> stored, left |-> n,
                                         number |-> Len(stored) + 1, failing |-> FALSE]]
    /\ UNCHANGED <<stored, torn>>

\* A success is pushed, and saveResults throws.  The file may be left in pieces, until
\* the next save.
SaveThrows(b) ==
    /\ batch[b].running /\ batch[b].left > 0 /\ ~batch[b].failing
    /\ batch' = [batch EXCEPT ![b].failing = TRUE]
    /\ \/ UNCHANGED <<stored, torn>>
       \/ stored' = <<>> /\ torn' = TRUE

\* One iteration: push and saveResults.  The error of a failed save is recorded as a
\* failure of the same run, after its success.
KeptTwice(list, success, failure) == Append(Append(list, success), failure)
FinishRun(b, success, day) ==
    /\ batch[b].running /\ batch[b].left > 0
    /\ batch[b].failing => success
    /\ LET outcome(s) == [number |-> batch[b].number, success |-> s, day |-> day]
           list == IF batch[b].failing
                   THEN KeptTwice(batch[b].list, outcome(TRUE), outcome(FALSE))
                   ELSE Append(batch[b].list, outcome(success))
       IN /\ stored' = list
          /\ batch' = [batch EXCEPT ![b] =
                [running |-> TRUE, list |-> list, left |-> batch[b].left - 1,
                 number |-> batch[b].number + 1, failing |-> FALSE]]
    /\ torn' = FALSE

\* The summary is computed and the same list written again.
FinishBatch(b) ==
    /\ batch[b].running /\ batch[b].left = 0
    /\ stored' = batch[b].list /\ torn' = FALSE
    /\ batch' = [batch EXCEPT ![b] = NoBatch]

\* The process is killed, perhaps while it writes.
KillBatch(b) ==
    /\ batch[b].running
    /\ batch' = [batch EXCEPT ![b] = NoBatch]
    /\ \/ UNCHANGED <<stored, torn>>
       \/ stored' = <<>> /\ torn' = TRUE

BatchNext ==
    \E b \in Batch :
        \/ \E n \in 1..MaxRuns : StartBatch(b, n)
        \/ \E success \in BOOLEAN, day \in Days : FinishRun(b, success, day)
        \/ SaveThrows(b)
        \/ FinishBatch(b)
        \/ KillBatch(b)

BatchSpec == BatchInit /\ [][BatchNext]_batchVars
=============================================================================
