---------------------------- MODULE CheckRunner ----------------------------
(***************************************************************************)
(* The check scheduler, src/sdetkit/checks/runner.py, with the execution   *)
(* of one check (runner._execute_item, builtin._run_subprocess) and the    *)
(* verdict over the records (results.build_final_verdict).                 *)
(*                                                                         *)
(* The main thread owns `completed', `pending_ids' and `futures'.  It      *)
(* passes over the plan in order, submits what may run, and waits for the  *)
(* first future to finish.  Each submitted check runs in a pool thread of  *)
(* its own, which only resolves its future (`result').                     *)
(***************************************************************************)
EXTENDS Integers, CheckPlanner

CONSTANTS Plans,        \* the plans a run may be given (records, see below)
          WorkerLimits  \* max_workers, or what the CPU count suggests instead

Statuses == {"passed", "failed", "skipped"}

Profiles == {"quick", "standard", "strict", "adaptive"}

(***************************************************************************)
(* A CheckPlan: the selected checks in plan order, the skipped ones, and   *)
(* what PlannedCheck and CheckDefinition say of each check.                *)
(***************************************************************************)
IsPlan(p) ==
  /\ p.profile \in Profiles
  /\ p.selected \in Seq(CheckId)
  /\ \A i, j \in DOMAIN p.selected : p.selected[i] = p.selected[j] => i = j
  /\ p.skipped \subseteq CheckId
  /\ \A i \in DOMAIN p.selected : p.selected[i] \notin p.skipped
  /\ p.dependencies \in [CheckId -> SUBSET CheckId]
  /\ p.parallel_safe \subseteq CheckId
  /\ p.blocking \subseteq CheckId
  /\ p.cacheable \subseteq CheckId
  /\ p.wired \subseteq CheckId
  /\ p.max_attempts \in [CheckId -> Nat \ {0}]

ASSUME PlansAssumption == \A p \in Plans : IsPlan(p)

ASSUME WorkerLimitsAssumption == WorkerLimits \subseteq Int

ASSUME CheckIdAssumption == IsFiniteSet(CheckId)

VARIABLES plan,        \* the CheckPlan of this run
          workers,     \* the size of the thread pool
          pending_ids, \* selected checks not yet submitted or skipped
          futures,     \* checks whose future the main thread still holds
          completed,   \* status of each recorded check, "none" before
          pos,         \* position of the pass over plan_items
          progressed,  \* did this pass change anything?
          pc,          \* where the main thread is
          result,      \* per check, what its pool thread is doing / returned
          attempts,    \* per check, subprocesses started by its pool thread
          verdict      \* the FinalVerdict, NoVerdict before

mainVars == <<plan, workers, pending_ids, futures, completed, pos,
              progressed, pc, verdict>>
poolVars == <<result, attempts>>
vars == <<mainVars, poolVars>>

Recommendations == {"run-full-verification-before-merge", "ready-for-merge-review",
                    "run-standard-validation", "do-not-merge"}

Verdicts == [ok : BOOLEAN, recommendation : Recommendations \cup {"none"},
             merge_truth : BOOLEAN]

NoVerdict == [ok |-> FALSE, recommendation |-> "none", merge_truth |-> FALSE]

Selected == {plan.selected[i] : i \in DOMAIN plan.selected}

----------------------------------------------------------------------------
(* Mutant: the suggestion is used as it stands. *)
SelectWorkersUnclamped(p, limit) ==
  LET safe == {i \in DOMAIN p.selected : p.selected[i] \in p.parallel_safe}
  IN  IF limit < Cardinality(safe) THEN limit ELSE Cardinality(safe)

(* _select_workers: one worker unless two checks may overlap. *)
SelectWorkers(p, limit) ==
  LET safe == {i \in DOMAIN p.selected : p.selected[i] \in p.parallel_safe}
      suggested == IF limit < Cardinality(safe) THEN limit ELSE Cardinality(safe)
  IN  IF Cardinality(safe) <= 1 \/ suggested < 1 THEN 1 ELSE suggested

Init ==
  /\ plan \in Plans
  /\ \E limit \in WorkerLimits : workers = SelectWorkers(plan, limit)
  /\ pending_ids = Selected
  /\ futures = {}
  /\ completed = [c \in CheckId |-> IF c \in plan.skipped THEN "skipped" ELSE "none"]
  /\ pos = 1
  /\ progressed = FALSE
  /\ pc = "head"
  /\ result = [c \in CheckId |-> "none"]
  /\ attempts = [c \in CheckId |-> 0]
  /\ verdict = NoVerdict

----------------------------------------------------------------------------
(* The main thread. *)

Item == plan.selected[pos]

(* Some dependency of c has no record yet. *)
Unmet(c) == \E d \in plan.dependencies[c] : completed[d] = "none"

(* Mutant: a skipped dependency does not block. *)
BlockedByFailedOnly(c) == {d \in plan.dependencies[c] : completed[d] = "failed"}

BlockedBy(c) == {d \in plan.dependencies[c] : completed[d] \in {"failed", "skipped"}}

(* Mutant: parallel safety is not looked at. *)
MustWaitForOneWorker(c) == futures # {} /\ workers = 1

(* c has to wait for the futures in flight. *)
MustWait(c) == futures # {} /\ (c \notin plan.parallel_safe \/ workers = 1)

(* After submitting c the pass is over. *)
EndsPass(c) == c \notin plan.parallel_safe \/ Cardinality(futures \cup {c}) >= workers

(* while pending_ids or futures: start a pass. *)
BeginPass ==
  /\ pc = "head"
  /\ pending_ids # {} \/ futures # {}
  /\ pc' = "scan"
  /\ pos' = 1
  /\ progressed' = FALSE
  /\ UNCHANGED <<plan, workers, pending_ids, futures, completed, verdict, poolVars>>

(* Mutant: the loop only looks at the futures in flight. *)
LeaveLoopWithPending ==
  /\ pc = "head"
  /\ futures = {}
  /\ pc' = "report"
  /\ UNCHANGED <<plan, workers, pending_ids, futures, completed, pos, progressed,
                 verdict, poolVars>>

(* Mutant: the loop only looks at what is not yet submitted. *)
LeaveLoopWithFutures ==
  /\ pc = "head"
  /\ pending_ids = {}
  /\ pc' = "report"
  /\ UNCHANGED <<plan, workers, pending_ids, futures, completed, pos, progressed,
                 verdict, poolVars>>

(* ... or leave the loop. *)
LeaveLoop ==
  /\ pc = "head"
  /\ pending_ids = {} /\ futures = {}
  /\ pc' = "report"
  /\ UNCHANGED <<plan, workers, pending_ids, futures, completed, pos, progressed,
                 verdict, poolVars>>

(* The four `continue's that leave the item for a later pass. *)
PassOver ==
  /\ pc = "scan"
  /\ pos <= Len(plan.selected)
  /\ \/ Item \notin pending_ids
     \/ completed[Item] # "none"
     \/ Item \in futures
     \/ Unmet(Item)
     \/ BlockedBy(Item) = {} /\ MustWait(Item)
  /\ pos' = pos + 1
  /\ UNCHANGED <<plan, workers, pending_ids, futures, completed, progressed, pc,
                 verdict, poolVars>>

Considered(c) ==
  /\ pc = "scan"
  /\ pos <= Len(plan.selected)
  /\ c = Item
  /\ c \in pending_ids \ futures
  /\ completed[c] = "none"
  /\ ~Unmet(c)

(* A dependency failed or was skipped: record "dependency not satisfied". *)
SkipBlocked ==
  \E c \in CheckId :
    /\ Considered(c)
    /\ BlockedBy(c) # {}
    /\ completed' = [completed EXCEPT ![c] = "skipped"]
    /\ pending_ids' = pending_ids \ {c}
    /\ progressed' = TRUE
    /\ pos' = pos + 1
    /\ UNCHANGED <<plan, workers, futures, pc, verdict, poolVars>>

Submit ==
  \E c \in CheckId :
    /\ Considered(c)
    /\ BlockedBy(c) = {}
    /\ ~MustWait(c)
    /\ futures' = futures \cup {c}
    /\ result' = [result EXCEPT ![c] = "running"]
    /\ pending_ids' = pending_ids \ {c}
    /\ progressed' = TRUE
    /\ pos' = pos + 1
    /\ pc' = IF EndsPass(c) THEN "settle" ELSE "scan"
    /\ UNCHANGED <<plan, workers, completed, verdict, attempts>>

EndPass ==
  /\ pc = "scan"
  /\ pos > Len(plan.selected)
  /\ pc' = "settle"
  /\ UNCHANGED <<plan, workers, pending_ids, futures, completed, pos, progressed,
                 verdict, poolVars>>

(* Mutant: a pass without progress is tried again. *)
SettleAlwaysAgain ==
  /\ pc = "settle"
  /\ pc' = IF futures # {} THEN "wait" ELSE "head"
  /\ UNCHANGED <<plan, workers, pending_ids, futures, completed, pos, progressed,
                 verdict, poolVars>>

(* With nothing in flight, another pass only if this one changed something. *)
Settle ==
  /\ pc = "settle"
  /\ pc' = CASE futures # {} -> "wait"
             [] futures = {} /\ progressed -> "head"
             [] OTHER -> "report"
  /\ UNCHANGED <<plan, workers, pending_ids, futures, completed, pos, progressed,
                 verdict, poolVars>>

Finished == {c \in futures : result[c] # "running"}

(* wait(FIRST_COMPLETED): every future done by then is popped and recorded. *)
Collect ==
  /\ pc = "wait"
  /\ Finished # {}
  /\ \A c \in Finished : result[c] # "raised"
  /\ completed' = [c \in CheckId |-> IF c \in Finished THEN result[c] ELSE completed[c]]
  /\ futures' = futures \ Finished
  /\ pc' = "head"
  /\ UNCHANGED <<plan, workers, pending_ids, pos, progressed, verdict, poolVars>>

(* future.result() raises: the exception leaves the loop ... *)
CollectRaised ==
  /\ pc = "wait"
  /\ \E c \in Finished : result[c] = "raised"
  /\ pc' = "unwind"
  /\ UNCHANGED <<plan, workers, pending_ids, futures, completed, pos, progressed,
                 verdict, poolVars>>

(* ... and the executor's exit waits for the threads still running. *)
Unwind ==
  /\ pc = "unwind"
  /\ Finished = futures
  /\ pc' = "aborted"
  /\ UNCHANGED <<plan, workers, pending_ids, futures, completed, pos, progressed,
                 verdict, poolVars>>

(* build_final_verdict over the records of the selected and skipped checks. *)
FinalVerdict ==
  LET recorded == {c \in Selected \cup plan.skipped : completed[c] # "none"}
      blocking_failures == {c \in recorded : completed[c] = "failed" /\ c \in plan.blocking}
      ok == blocking_failures = {}
  IN  [ok |-> ok,
       merge_truth |-> plan.profile = "strict",
       recommendation |->
         CASE ok /\ plan.profile = "quick" -> "run-full-verification-before-merge"
           [] ok /\ plan.profile \in {"standard", "strict"} -> "ready-for-merge-review"
           [] ok /\ plan.profile = "adaptive" -> "run-standard-validation"
           [] OTHER -> "do-not-merge"]

Report ==
  /\ pc = "report"
  /\ verdict' = FinalVerdict
  /\ pc' = "done"
  /\ UNCHANGED <<plan, workers, pending_ids, futures, completed, pos, progressed, poolVars>>

Main == \/ BeginPass \/ LeaveLoop \/ PassOver \/ SkipBlocked \/ Submit \/ EndPass
        \/ Settle \/ Collect \/ CollectRaised \/ Unwind \/ Report

----------------------------------------------------------------------------
(* A pool thread running _execute_item(c). *)

Return(c, status) ==
  /\ result' = [result EXCEPT ![c] = status]
  /\ UNCHANGED mainVars

(* cache.load: only passed and failed records are ever saved. *)
CacheHit(c) ==
  /\ result[c] = "running" /\ attempts[c] = 0
  /\ c \in plan.cacheable
  /\ \E status \in {"passed", "failed"} : Return(c, status)
  /\ UNCHANGED attempts

(* No run function, or _skip_missing_prereqs found a tool or path missing. *)
NotRunnable(c) ==
  /\ result[c] = "running" /\ attempts[c] = 0
  /\ Return(c, "skipped")
  /\ UNCHANGED attempts

(* One subprocess of _run_subprocess; a nonzero exit is retried up to       *)
(* max_attempts (2 for tests_full, else 1).                                 *)
Attempt(c) ==
  /\ result[c] = "running"
  /\ c \in plan.wired
  /\ attempts' = [attempts EXCEPT ![c] = @ + 1]
  /\ \/ Return(c, "passed")
     \/ attempts'[c] < plan.max_attempts[c] /\ Return(c, "running")
     \/ attempts'[c] = plan.max_attempts[c] /\ Return(c, "failed")

(* Unreadable file under the fingerprint, corrupt cache entry, exception in *)
(* the check's run function.                                                *)
Raise(c) ==
  /\ result[c] = "running"
  /\ Return(c, "raised")
  /\ UNCHANGED attempts

PoolThread(c) == CacheHit(c) \/ NotRunnable(c) \/ Attempt(c) \/ Raise(c)

(* The run is over; the process returns or fails with the exception. *)
Terminated ==
  /\ pc \in {"done", "aborted"}
  /\ UNCHANGED vars

Next == Main \/ (\E c \in CheckId : PoolThread(c)) \/ Terminated

(* The main thread is scheduled, and every check terminates: the code sets  *)
(* no timeout on a subprocess, so this is an assumption about the checks.   *)
Fairness == WF_vars(Main) /\ \A c \in CheckId : WF_vars(PoolThread(c))

Spec == Init /\ [][Next]_vars

FairSpec == Spec /\ Fairness

----------------------------------------------------------------------------
(* Properties. *)

Running == {c \in CheckId : result[c] = "running"}

(* Every dependency of a selected check is skipped or selected before it,   *)
(* as in every plan made from an acyclic registry.                          *)
TopologicallyOrdered(p) ==
  \A i \in DOMAIN p.selected : \A d \in p.dependencies[p.selected[i]] :
    \/ d \in p.skipped
    \/ \E j \in DOMAIN p.selected : j < i /\ p.selected[j] = d

(* The variables hold what the annotations of runner.run say they hold. *)
TypeOK ==
  /\ IsPlan(plan)
  /\ workers \in Nat \ {0}
  /\ pending_ids \subseteq Selected
  /\ futures \subseteq Selected
  /\ completed \in [CheckId -> Statuses \cup {"none"}]
  /\ pos \in 1..(Len(plan.selected) + 1)
  /\ progressed \in BOOLEAN
  /\ pc \in {"head", "scan", "settle", "wait", "unwind", "report", "done", "aborted"}
  /\ result \in [CheckId -> Statuses \cup {"none", "running", "raised"}]
  /\ attempts \in [CheckId -> Nat]
  /\ verdict \in Verdicts

(* A pool thread was only ever started for a check whose dependencies have  *)
(* all been recorded as passed, whatever finished in the meantime.          *)
StartedAfterDependencies ==
  \A c \in CheckId : result[c] # "none" =>
    \A d \in plan.dependencies[c] : completed[d] = "passed"

(* A check that is not parallel safe never overlaps another one, and the    *)
(* checks in flight never exceed the pool, so no submitted check queues.    *)
BoundedAndExclusive ==
  /\ Cardinality(Running) <= workers
  /\ \A c \in Running : c \notin plan.parallel_safe => Running = {c}

(* When the run reports, a check was executed exactly when all of its       *)
(* dependencies passed, and every selected check has a record: nothing is   *)
(* dropped by the scheduler although it leaves the loop as soon as a pass   *)
(* makes no progress.                                                       *)
ReportIsComplete ==
  pc = "done" /\ TopologicallyOrdered(plan) =>
    \A c \in Selected :
      /\ completed[c] # "none"
      /\ result[c] # "none" <=> \A d \in plan.dependencies[c] : completed[d] = "passed"

(* A reported verdict accounts for every thread that ran: its result is in  *)
(* the records, an exception never ends in a report, and ok means that no   *)
(* blocking check returned failed.                                          *)
VerdictSeesEveryResult ==
  pc = "done" =>
    /\ \A c \in CheckId : result[c] # "none" => completed[c] = result[c]
    /\ verdict.ok <=> ~\E c \in plan.blocking : result[c] = "failed"

(* The run ends, with a report or an exception, on cyclic plans too. *)
RunEnds == <>(pc \in {"done", "aborted"})

(* The summary of an ok verdict, results.py: "All blocking checks passed."  *)
BlockingChecksPassed ==
  pc = "done" /\ verdict.ok =>
    \A c \in Selected \cap plan.blocking : completed[c] = "passed"

=============================================================================
