--------------------------- MODULE DiagnosticQueue --------------------------
(***************************************************************************)
(* The file-backed diagnostic queue as its commands run it:                *)
(* job_queue.py (load, change, replace the file), queued_diagnostic_worker *)
(* (claim, work, complete or fail) and diagnostic_queue_runner (at most    *)
(* max_jobs of these, stop at the first failure).                          *)
(*                                                                         *)
(* A process runs one command at a time.  Every queue operation reads the  *)
(* whole file in one step and replaces it in a later one; nothing locks    *)
(* the file between the two.  A process may be killed at any point, which  *)
(* leaves the file as the last os.replace left it.                         *)
(***************************************************************************)
EXTENDS Integers, FiniteSets

CONSTANTS Job,          \* ids of the jobs that are ever enqueued
          SortKey,      \* rank of a job under _record_sort_key
          Proc,         \* operating system processes of the operator
          NoJob,        \* no job: the empty failure.job_id
          MaxJobs,      \* largest --max-jobs tried
          MaxCommands   \* bound: commands started in one behaviour

ASSUME SortKeyAssumption ==
  /\ SortKey \in [Job -> Int]
  /\ \A i, j \in Job : SortKey[i] = SortKey[j] => i = j

ASSUME BoundsAssumption == MaxJobs \in Nat /\ MaxCommands \in Nat /\ NoJob \notin Job

VARIABLES queue,     \* the queue file: the record of each job
          pc,        \* per process, the step of its command
          snapshot,  \* per process, the queue it is about to write
          job,       \* per process, the job its command is about
          report,    \* per process, the runner's counters and summary
          commands,  \* commands started so far
          executed,  \* history: how often each job's diagnosis was started
          settled    \* history: the terminal state each job was given

vars == <<queue, pc, snapshot, job, report, commands, executed, settled>>

----------------------------------------------------------------------------
(* Queue records: the state and which evidence fields are filled in. *)

NoEvidence == [claimed_at |-> FALSE, completed_at |-> FALSE, failed_at |-> FALSE,
               result_artifacts |-> FALSE, failure_reason |-> FALSE]

AbsentRecord == [state |-> "absent", evidence |-> NoEvidence]

(* _record_for_job *)
PendingRecord == [state |-> "pending", evidence |-> NoEvidence]

(* The assignments of claim_job, complete_job and fail_job. *)
Claimed(r) == [state |-> "claimed", evidence |-> [r.evidence EXCEPT !.claimed_at = TRUE]]

Completed(r) == [state |-> "completed",
                 evidence |-> [r.evidence EXCEPT !.completed_at = TRUE,
                                                 !.result_artifacts = TRUE]]

Failed(r) == [state |-> "failed",
              evidence |-> [r.evidence EXCEPT !.failed_at = TRUE,
                                              !.failure_reason = TRUE]]

(* _validate_record: the evidence each state requires and excludes. *)
ValidRecord(r) ==
  LET e == r.evidence
      completion == e.completed_at /\ e.result_artifacts
      failure == e.failed_at /\ e.failure_reason
      noCompletion == ~e.completed_at /\ ~e.result_artifacts
      noFailure == ~e.failed_at /\ ~e.failure_reason
  IN  CASE r.state = "absent"    -> TRUE
        [] r.state = "pending"   -> ~e.claimed_at /\ noCompletion /\ noFailure
        [] r.state = "claimed"   -> e.claimed_at /\ noCompletion /\ noFailure
        [] r.state = "completed" -> e.claimed_at /\ completion /\ noFailure
        [] r.state = "failed"    -> e.claimed_at /\ failure /\ noCompletion

Pending == {j \in Job : queue[j].state = "pending"}

(* Mutant: any pending record is taken. *)
IsAnyPending(j) == j \in Pending

(* min(pending, key=_record_sort_key) *)
IsFirstPending(j) == j \in Pending /\ \A k \in Pending : SortKey[j] <= SortKey[k]

NoReport == [max_jobs |-> 0, attempted |-> 0, completed |-> 0, pending_before |-> {},
             stop_reason |-> "none", failure |-> NoJob, completed_before |-> {}]

Init ==
  /\ queue = [j \in Job |-> AbsentRecord]
  /\ pc = [p \in Proc |-> "idle"]
  /\ snapshot = [p \in Proc |-> [j \in Job |-> AbsentRecord]]
  /\ job = [p \in Proc |-> NoJob]
  /\ report = [p \in Proc |-> NoReport]
  /\ commands = 0
  /\ executed = [j \in Job |-> 0]
  /\ settled = [j \in Job |-> "none"]

Goto(p, label) == pc' = [pc EXCEPT ![p] = label]

(* Load the queue and prepare to write it back with j's record changed. *)
Prepare(p, j, record) == snapshot' = [snapshot EXCEPT ![p] = [queue EXCEPT ![j] = record]]

(* Mutant: the file is updated in place, states first. *)
WriteStatesOnly(p) ==
  queue' = [j \in Job |-> [queue[j] EXCEPT !.state = snapshot[p][j].state]]

(* _write_queue: the snapshot is validated and replaces the whole file. *)
WriteQueue(p) ==
  /\ \A j \in Job : ValidRecord(snapshot[p][j])
  /\ queue' = snapshot[p]

StartCommand(p) ==
  /\ pc[p] = "idle"
  /\ commands < MaxCommands
  /\ commands' = commands + 1

----------------------------------------------------------------------------
(* enqueue_job *)

(* Mutant: a job that is already in the queue is enqueued afresh. *)
EnqueueAgainLoad(p, j) ==
  /\ StartCommand(p)
  /\ Prepare(p, j, PendingRecord)
  /\ job' = [job EXCEPT ![p] = j]
  /\ Goto(p, "enqueue_write")
  /\ UNCHANGED <<queue, report, executed, settled>>

EnqueueLoad(p, j) ==
  /\ StartCommand(p)
  /\ queue[j].state = "absent"
  /\ Prepare(p, j, PendingRecord)
  /\ job' = [job EXCEPT ![p] = j]
  /\ Goto(p, "enqueue_write")
  /\ UNCHANGED <<queue, report, executed, settled>>

(* "duplicate diagnostic queue job": the command ends in an error. *)
EnqueueDuplicate(p, j) ==
  /\ StartCommand(p)
  /\ queue[j].state # "absent"
  /\ UNCHANGED <<queue, pc, snapshot, job, report, executed, settled>>

EnqueueWrite(p) ==
  /\ pc[p] = "enqueue_write"
  /\ WriteQueue(p)
  /\ Goto(p, "idle")
  /\ UNCHANGED <<snapshot, job, report, commands, executed, settled>>

----------------------------------------------------------------------------
(* run_bounded_diagnostic_queue: the loop over at most max_jobs jobs. *)

StartRunner(p, n) ==
  /\ StartCommand(p)
  /\ report' = [report EXCEPT ![p] =
       [NoReport EXCEPT !.max_jobs = n,
                        !.stop_reason = "max_jobs_reached",
                        !.completed_before = {j \in Job : queue[j].state = "completed"}]]
  /\ job' = [job EXCEPT ![p] = NoJob]
  /\ Goto(p, "next")
  /\ UNCHANGED <<queue, snapshot, executed, settled>>

BeginJob(p) ==
  /\ pc[p] = "next"
  /\ report[p].attempted < report[p].max_jobs
  /\ Pending # {}
  /\ report' = [report EXCEPT ![p].attempted = @ + 1, ![p].pending_before = Pending]
  /\ Goto(p, "claim")
  /\ UNCHANGED <<queue, snapshot, job, commands, executed, settled>>

StopDrained(p) ==
  /\ pc[p] = "next"
  /\ report[p].attempted < report[p].max_jobs
  /\ Pending = {}
  /\ report' = [report EXCEPT ![p].stop_reason = "no_pending_jobs"]
  /\ Goto(p, "report")
  /\ UNCHANGED <<queue, snapshot, job, commands, executed, settled>>

StopAtMaxJobs(p) ==
  /\ pc[p] = "next"
  /\ report[p].attempted = report[p].max_jobs
  /\ Goto(p, "report")
  /\ UNCHANGED <<queue, snapshot, job, report, commands, executed, settled>>

(* Mutant: every failed job of the queue is looked at. *)
RecordAnyFailure(p) ==
  /\ pc[p] = "raised"
  /\ LET failed == {j \in Job : queue[j].state = "failed"}
     IN  report' = [report EXCEPT
           ![p].stop_reason = "job_failed",
           ![p].failure = IF Cardinality(failed) = 1
                          THEN CHOOSE j \in failed : TRUE ELSE NoJob]
  /\ Goto(p, "report")
  /\ UNCHANGED <<queue, snapshot, job, commands, executed, settled>>

(* Mutant: a failed attempt is retried at once. *)
RetryFailure(p) ==
  /\ pc[p] = "raised"
  /\ Goto(p, "claim")
  /\ UNCHANGED <<queue, snapshot, job, report, commands, executed, settled>>

(* The except branch: the queue is read again, and the failure is named     *)
(* when exactly one of the jobs pending before is failed now.               *)
RecordFailure(p) ==
  /\ pc[p] = "raised"
  /\ LET failed == {j \in report[p].pending_before : queue[j].state = "failed"}
     IN  report' = [report EXCEPT
           ![p].stop_reason = "job_failed",
           ![p].failure = IF Cardinality(failed) = 1
                          THEN CHOOSE j \in failed : TRUE ELSE NoJob]
  /\ Goto(p, "report")
  /\ UNCHANGED <<queue, snapshot, job, commands, executed, settled>>

(* The summary is printed and the process exits. *)
Report(p) ==
  /\ pc[p] = "report"
  /\ Goto(p, "idle")
  /\ UNCHANGED <<queue, snapshot, job, report, commands, executed, settled>>

----------------------------------------------------------------------------
(* run_queued_diagnostic_job: claim, work, complete or fail. *)

ClaimLoad(p) ==
  /\ pc[p] = "claim"
  /\ \E j \in Job :
       /\ IsFirstPending(j)
       /\ Prepare(p, j, Claimed(queue[j]))
       /\ job' = [job EXCEPT ![p] = j]
  /\ Goto(p, "claim_write")
  /\ UNCHANGED <<queue, report, commands, executed, settled>>

(* "diagnostic job queue has no pending jobs" *)
ClaimNothing(p) ==
  /\ pc[p] = "claim"
  /\ Pending = {}
  /\ Goto(p, "raised")
  /\ UNCHANGED <<queue, snapshot, job, report, commands, executed, settled>>

(* Mutant: the claim is not persisted. *)
ClaimInMemory(p) ==
  /\ pc[p] = "claim_write"
  /\ Goto(p, "work")
  /\ UNCHANGED <<queue, snapshot, job, report, commands, executed, settled>>

ClaimWrite(p) ==
  /\ pc[p] = "claim_write"
  /\ WriteQueue(p)
  /\ Goto(p, "work")
  /\ UNCHANGED <<snapshot, job, report, commands, executed, settled>>

(* Inputs, review handoff, run_diagnostic_worker, result and trajectory     *)
(* artifacts: all of it succeeds, or some of it raises.                     *)
Work(p) ==
  /\ pc[p] = "work"
  /\ executed' = [executed EXCEPT ![job[p]] = @ + 1]
  /\ Goto(p, "complete") \/ Goto(p, "fail")
  /\ UNCHANGED <<queue, snapshot, job, report, commands, settled>>

CompleteLoad(p) ==
  /\ pc[p] = "complete"
  /\ queue[job[p]].state = "claimed"
  /\ Prepare(p, job[p], Completed(queue[job[p]]))
  /\ Goto(p, "complete_write")
  /\ UNCHANGED <<queue, job, report, commands, executed, settled>>

CompleteRejected(p) ==
  /\ pc[p] = "complete"
  /\ queue[job[p]].state # "claimed"
  /\ Goto(p, "fail")
  /\ UNCHANGED <<queue, snapshot, job, report, commands, executed, settled>>

(* Mutant: the completion is counted and not persisted. *)
CompleteInMemory(p) ==
  /\ pc[p] = "complete_write"
  /\ report' = [report EXCEPT ![p].completed = @ + 1]
  /\ Goto(p, "next")
  /\ UNCHANGED <<queue, settled, snapshot, job, commands, executed>>

CompleteWrite(p) ==
  /\ pc[p] = "complete_write"
  /\ WriteQueue(p)
  /\ settled' = [settled EXCEPT ![job[p]] = "completed"]
  /\ report' = [report EXCEPT ![p].completed = @ + 1]
  /\ Goto(p, "next")
  /\ UNCHANGED <<snapshot, job, commands, executed>>

FailLoad(p) ==
  /\ pc[p] = "fail"
  /\ queue[job[p]].state = "claimed"
  /\ Prepare(p, job[p], Failed(queue[job[p]]))
  /\ Goto(p, "fail_write")
  /\ UNCHANGED <<queue, job, report, commands, executed, settled>>

(* "queued diagnostic worker failed and could not record failed state" *)
FailRejected(p) ==
  /\ pc[p] = "fail"
  /\ queue[job[p]].state # "claimed"
  /\ Goto(p, "raised")
  /\ UNCHANGED <<queue, snapshot, job, report, commands, executed, settled>>

FailWrite(p) ==
  /\ pc[p] = "fail_write"
  /\ WriteQueue(p)
  /\ settled' = [settled EXCEPT ![job[p]] = "failed"]
  /\ Goto(p, "raised")
  /\ UNCHANGED <<snapshot, job, report, commands, executed>>

(* Mutant: a completion that cannot be written is passed over. *)
WriteFailurePassedOver(p) ==
  /\ \/ pc[p] \in {"claim_write", "fail_write"} /\ Goto(p, "raised")
     \/ pc[p] = "complete_write" /\ Goto(p, "next")
     \/ pc[p] = "enqueue_write" /\ Goto(p, "idle")
  /\ UNCHANGED <<queue, snapshot, job, report, commands, executed, settled>>

(* Validation or an I/O error keeps _write_queue from replacing the file:   *)
(* a claim or a failure record that cannot be written reaches the runner,   *)
(* a completion that cannot be written fails the job instead.               *)
WriteFails(p) ==
  /\ \/ pc[p] \in {"claim_write", "fail_write"} /\ Goto(p, "raised")
     \/ pc[p] = "complete_write" /\ Goto(p, "fail")
     \/ pc[p] = "enqueue_write" /\ Goto(p, "idle")
  /\ UNCHANGED <<queue, snapshot, job, report, commands, executed, settled>>

----------------------------------------------------------------------------
(* The process is killed; its command is not resumed by anything. *)
Crash(p) ==
  /\ pc[p] # "idle"
  /\ Goto(p, "idle")
  /\ UNCHANGED <<queue, snapshot, job, report, commands, executed, settled>>

(* Steps a started command takes by itself. *)
Step(p) ==
  \/ EnqueueWrite(p)
  \/ BeginJob(p) \/ StopDrained(p) \/ StopAtMaxJobs(p) \/ RecordFailure(p) \/ Report(p)
  \/ ClaimLoad(p) \/ ClaimNothing(p) \/ ClaimWrite(p) \/ Work(p)
  \/ CompleteLoad(p) \/ CompleteRejected(p) \/ CompleteWrite(p)
  \/ FailLoad(p) \/ FailRejected(p) \/ FailWrite(p)
  \/ WriteFails(p)

Start(p) ==
  \/ \E j \in Job : EnqueueLoad(p, j) \/ EnqueueDuplicate(p, j)
  \/ \E n \in 1..MaxJobs : StartRunner(p, n)

(* The operator starts no further command. *)
Quiet ==
  /\ commands = MaxCommands
  /\ \A p \in Proc : pc[p] = "idle"
  /\ UNCHANGED vars

Next == (\E p \in Proc : Start(p) \/ Step(p) \/ Crash(p)) \/ Quiet

Spec == Init /\ [][Next]_vars

(* A started command keeps running; nothing says that one is ever started.  *)
FairSpec == Spec /\ \A p \in Proc : WF_vars(Step(p))

----------------------------------------------------------------------------
(* Properties. *)

Records == [state : {"absent", "pending", "claimed", "completed", "failed"},
            evidence : [claimed_at : BOOLEAN, completed_at : BOOLEAN,
                        failed_at : BOOLEAN, result_artifacts : BOOLEAN,
                        failure_reason : BOOLEAN]]

Labels == {"idle", "enqueue_write", "next", "claim", "claim_write", "work", "complete",
           "complete_write", "fail", "fail_write", "raised", "report"}

(* Every record of the file passes _validate_record, so load_queue accepts  *)
(* what any interleaving of writers and crashes left behind; the variables  *)
(* hold what the code keeps in them.                                        *)
TypeOK ==
  /\ queue \in [Job -> Records]
  /\ \A j \in Job : ValidRecord(queue[j])
  /\ pc \in [Proc -> Labels]
  /\ snapshot \in [Proc -> [Job -> Records]]
  /\ job \in [Proc -> Job \cup {NoJob}]
  /\ \A p \in Proc : pc[p] \in {"enqueue_write", "claim_write", "work", "complete",
                                "complete_write", "fail", "fail_write"} => job[p] \in Job
  /\ commands \in 0..MaxCommands
  /\ executed \in [Job -> Nat]
  /\ settled \in [Job -> {"none", "completed", "failed"}]

Abstract == INSTANCE JobQueue WITH state <- [j \in Job |-> queue[j].state]

(* The file only ever goes through the transitions of the abstract queue,   *)
(* in its claim order: holds while one process runs at a time.              *)
QueueSpec == Abstract!Spec

(* "Failed jobs are not retried automatically": no job is diagnosed twice,  *)
(* neither after a failure nor after a crash.                               *)
JobRunOnce == \A j \in Job : executed[j] <= 1

(* A runner's summary adds up: every attempt is a completion or the one     *)
(* failure it stopped at, and there are at most --max-jobs of them.         *)
SummaryAddsUp ==
  \A p \in Proc : pc[p] = "report" =>
    /\ report[p].attempted <= report[p].max_jobs
    /\ report[p].attempted =
         report[p].completed + (IF report[p].stop_reason = "job_failed" THEN 1 ELSE 0)

(* jobs_completed is what this run really added to the queue's completed    *)
(* records, whatever failed or could not be written in between.             *)
CompletionsReconcile ==
  \A p \in Proc : pc[p] = "report" =>
    Cardinality({j \in Job : queue[j].state = "completed"} \ report[p].completed_before)
      = report[p].completed

(* failure.job_id, when it is given, is the job this run worked on; it is   *)
(* left empty only when that job's failure could not be recorded.           *)
FailureIsIdentified ==
  \A p \in Proc : pc[p] = "report" /\ report[p].stop_reason = "job_failed" =>
    \A j \in Job :
      /\ report[p].failure = j => job[p] = j
      /\ report[p].failure = NoJob /\ job[p] = j => queue[j].state # "failed"

(* A bounded run reports what it did, the completions and the failure, as   *)
(* the queue file shows it when no other process writes to it.              *)
SummaryIsTrue == CompletionsReconcile /\ FailureIsIdentified

(* A command that is not killed ends by itself: it never waits for another. *)
CommandEnds == \A p \in Proc : pc[p] # "idle" ~> pc[p] = "idle"

(* "pending -> claimed -> completed / failed": once a job was given a       *)
(* terminal state the file keeps saying so.                                 *)
TerminalIsFinal ==
  \A j \in Job : settled[j] # "none" => queue[j].state = settled[j]

=============================================================================
