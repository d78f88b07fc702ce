----------------------------- MODULE OpsControl -----------------------------
(***************************************************************************)
(* The ops control plane, src/sdetkit/ops/ops_control.py: `sdetkit ops run'*)
(* orders the tasks of a profile, runs them in a pool of --jobs threads    *)
(* behind a result cache, and turns what it saw into an exit code.         *)
(*                                                                         *)
(* Successive runs share the cache, whose entries stay valid until a file  *)
(* changes: _inputs_hash covers every *.py file of the repository.         *)
(***************************************************************************)
EXTENDS Integers, FiniteSets

CONSTANTS Task,         \* tasks of the profile
          Rank,         \* position of a task's name in sorted order
          Dependencies, \* the dependency relations to try: [Task -> SUBSET Task]
          Jobs,         \* values of --jobs to try
          MaxRuns       \* bound: runs in one behaviour

ASSUME RankAssumption == Rank \in [Task -> Int] /\ \A m, n \in Task : Rank[m] = Rank[n] => m = n

ASSUME OptionsAssumption ==
  /\ IsFiniteSet(Task)
  /\ Dependencies \subseteq [Task -> SUBSET Task]
  /\ Jobs \subseteq Int
  /\ MaxRuns \in Nat

VARIABLES deps,       \* TaskDef.deps of each task
          jobs,       \* --jobs of this run
          fail_fast,  \* --fail-fast and not --keep-going
          no_cache,   \* --no-cache
          cache,      \* status each task's cache entry has under its current key
          remaining,  \* tasks neither submitted nor given up
          futures,    \* tasks whose future the loop still holds
          statuses,   \* what the loop recorded, "none" before
          failed,     \* did the loop record a FAIL?
          result,     \* what the thread of each task is doing / returned
          exit_code,  \* of the last run
          pc, runs

options == <<deps, jobs, fail_fast, no_cache>>
books == <<remaining, futures, statuses, failed>>
vars == <<options, cache, books, result, exit_code, pc, runs>>

Succeeded == {"PASS", "CACHED"}

----------------------------------------------------------------------------
(* _task_order: what a topological sort can place; dependencies outside the *)
(* selection do not count, tasks on or behind a cycle are left out.         *)
Placed(s, d) == \A n \in s : ~\E t \in SUBSET s : n \in t /\ \A m \in t : d[m] \cap t # {}

TaskOrder(d) ==
  {n \in Task : \E s \in SUBSET Task :
     n \in s /\ (\A m \in s : d[m] \subseteq s) /\ Placed(s, d)}

Workers == IF jobs < 1 THEN 1 ELSE jobs

StartRun ==
  /\ remaining' = TaskOrder(deps')
  /\ futures' = {}
  /\ statuses' = [n \in Task |-> "none"]
  /\ failed' = FALSE
  /\ result' = [n \in Task |-> "none"]
  /\ exit_code' = -1
  /\ pc' = "loop"

Init ==
  /\ deps \in Dependencies
  /\ jobs \in Jobs
  /\ fail_fast \in BOOLEAN
  /\ no_cache \in BOOLEAN
  /\ cache = [n \in Task |-> "none"]
  /\ remaining = TaskOrder(deps)
  /\ futures = {}
  /\ statuses = [n \in Task |-> "none"]
  /\ failed = FALSE
  /\ result = [n \in Task |-> "none"]
  /\ exit_code = -1
  /\ pc = "loop"
  /\ runs = 1

----------------------------------------------------------------------------
(* The loop of run: while remaining. *)

(* Mutant: a dependency only has to be recorded. *)
ReadyWhenRecorded ==
  {n \in remaining : \A d \in deps[n] \cap TaskOrder(deps) : statuses[d] # "none"}

Ready == {n \in remaining : \A d \in deps[n] \cap TaskOrder(deps) : statuses[d] \in Succeeded}

(* Mutant: every ready task is submitted. *)
BatchOfAllReady == Ready

(* The first ready tasks by name, as many as there are free threads. *)
Batch == {n \in Ready : Cardinality({m \in Ready : Rank[m] < Rank[n]})
                          < Workers - Cardinality(futures)}

(* Mutant: a submitted task stays in remaining. *)
SubmitReadyAndKeep ==
  /\ pc = "loop" /\ remaining # {}
  /\ Ready # {} \/ futures # {}
  /\ futures' = futures \cup Batch
  /\ result' = [n \in Task |-> IF n \in Batch THEN "running" ELSE result[n]]
  /\ pc' = "wait"
  /\ UNCHANGED <<options, cache, remaining, statuses, failed, exit_code, runs>>

SubmitReady ==
  /\ pc = "loop" /\ remaining # {}
  /\ Ready # {} \/ futures # {}
  /\ futures' = futures \cup Batch
  /\ remaining' = remaining \ Batch
  /\ result' = [n \in Task |-> IF n \in Batch THEN "running" ELSE result[n]]
  /\ pc' = "wait"
  /\ UNCHANGED <<options, cache, statuses, failed, exit_code, runs>>

(* Mutant: what is in flight is not looked at. *)
SkipBlockedEarly ==
  /\ pc = "loop" /\ remaining # {}
  /\ Ready = {}
  /\ statuses' = [n \in Task |-> IF n \in remaining THEN "SKIPPED" ELSE statuses[n]]
  /\ pc' = "join"
  /\ UNCHANGED <<options, cache, remaining, futures, failed, result, exit_code, runs>>

(* Mutant: the blocked tasks are looked at again. *)
RetryBlocked ==
  /\ pc = "loop" /\ remaining # {}
  /\ Ready = {} /\ futures = {}
  /\ UNCHANGED vars

(* Nothing is ready and nothing is in flight: "dependency failed". *)
SkipBlocked ==
  /\ pc = "loop" /\ remaining # {}
  /\ Ready = {} /\ futures = {}
  /\ statuses' = [n \in Task |-> IF n \in remaining THEN "SKIPPED" ELSE statuses[n]]
  /\ pc' = "join"
  /\ UNCHANGED <<options, cache, remaining, futures, failed, result, exit_code, runs>>

LeaveLoop ==
  /\ pc = "loop" /\ remaining = {}
  /\ pc' = "join"
  /\ UNCHANGED <<options, cache, books, result, exit_code, runs>>

Finished == {n \in futures : result[n] # "running"}

(* Mutant: after a FAIL the ready tasks are still submitted. *)
RecordAndContinue(done) ==
  /\ statuses' = [n \in Task |-> IF n \in done THEN result[n] ELSE statuses[n]]
  /\ cache' = [n \in Task |-> IF n \in done /\ result[n] # "CACHED"
                              THEN result[n] ELSE cache[n]]
  /\ failed' = (failed \/ \E n \in done : result[n] = "FAIL")
  /\ futures' = futures \ done
  /\ UNCHANGED remaining

(* Mutant: a FAIL only counts under --fail-fast. *)
RecordFailFastOnly(done) ==
  /\ statuses' = [n \in Task |-> IF n \in done THEN result[n] ELSE statuses[n]]
  /\ failed' = (failed \/ (fail_fast /\ \E n \in done : result[n] = "FAIL"))
  /\ remaining' = IF failed' THEN {} ELSE remaining
  /\ futures' = futures \ done
  /\ UNCHANGED cache

(* The body of the loop over done: record each result, write its cache      *)
(* entry, and after a FAIL under --fail-fast give up what is not submitted. *)
Record(done) ==
  LET failures == {n \in done : result[n] = "FAIL"}
      dropped == IF failures # {} /\ fail_fast THEN remaining ELSE {}
  IN  /\ statuses' = [n \in Task |-> IF n \in done THEN result[n]
                                     ELSE IF n \in dropped THEN "SKIPPED"
                                     ELSE statuses[n]]
      /\ cache' = [n \in Task |-> IF n \in done /\ result[n] # "CACHED"
                                  THEN result[n] ELSE cache[n]]
      /\ failed' = (failed \/ failures # {})
      /\ remaining' = remaining \ dropped
      /\ futures' = futures \ done

(* wait(FIRST_COMPLETED) returns the futures that are done. *)
Collect ==
  /\ pc = "wait"
  /\ Finished # {}
  /\ \A n \in Finished : result[n] # "raised"
  /\ Record(Finished)
  /\ pc' = "loop"
  /\ UNCHANGED <<options, result, exit_code, runs>>

(* One of them raises (its command cannot be started): run is left after    *)
(* those the iteration came to before.                                      *)
CollectRaised ==
  /\ pc = "wait"
  /\ \E n \in Finished : result[n] = "raised"
  /\ \E done \in SUBSET {n \in Finished : result[n] # "raised"} : Record(done)
  /\ pc' = "unwind"
  /\ UNCHANGED <<options, result, exit_code, runs>>

(* Leaving the pool waits for its threads, whoever still holds a future.    *)
Joined == \A n \in Task : result[n] # "running"

Exit ==
  /\ pc = "join" /\ Joined
  /\ exit_code' = IF failed THEN 1 ELSE 0
  /\ pc' = "done"
  /\ UNCHANGED <<options, cache, books, result, runs>>

Abort ==
  /\ pc = "unwind" /\ Joined
  /\ pc' = "aborted"
  /\ UNCHANGED <<options, cache, books, result, exit_code, runs>>

Main == SubmitReady \/ SkipBlocked \/ LeaveLoop \/ Collect \/ CollectRaised \/ Exit \/ Abort

(* execute: a PASS entry under the task's key is a hit, otherwise the       *)
(* command runs.                                                            *)
CacheHit(n) == ~no_cache /\ cache[n] = "PASS"

Execute(n) ==
  /\ result[n] = "running"
  /\ \E r \in IF CacheHit(n) THEN {"CACHED"} ELSE {"PASS", "FAIL", "raised"} :
       result' = [result EXCEPT ![n] = r]
  /\ UNCHANGED <<options, cache, books, exit_code, pc, runs>>

----------------------------------------------------------------------------
(* Another run in the same repository, with other options, with or without *)
(* edits in between: after an edit no cache entry has the task's key.      *)
RunAgain ==
  /\ pc \in {"done", "aborted"}
  /\ runs < MaxRuns
  /\ runs' = runs + 1
  /\ jobs' \in Jobs /\ fail_fast' \in BOOLEAN /\ no_cache' \in BOOLEAN
  /\ UNCHANGED deps
  /\ cache' \in {cache, [n \in Task |-> "none"]}
  /\ StartRun

Terminated ==
  /\ pc \in {"done", "aborted"} /\ runs = MaxRuns
  /\ UNCHANGED vars

Next == Main \/ (\E n \in Task : Execute(n)) \/ RunAgain \/ Terminated

(* The loop is scheduled and every command ends by itself (the code sets no *)
(* timeout on it).                                                          *)
Fairness == WF_vars(Main) /\ \A n \in Task : WF_vars(Execute(n))

Spec == Init /\ [][Next]_vars

FairSpec == Spec /\ Fairness

----------------------------------------------------------------------------
(* Properties. *)

Running == {n \in Task : result[n] = "running"}

(* The loop's variables hold what ops_control.run keeps in them. *)
TypeOK ==
  /\ deps \in Dependencies /\ jobs \in Jobs /\ fail_fast \in BOOLEAN /\ no_cache \in BOOLEAN
  /\ failed \in BOOLEAN
  /\ remaining \subseteq Task /\ futures \subseteq Task
  /\ remaining \cap futures = {}
  /\ statuses \in [Task -> {"none", "PASS", "FAIL", "CACHED", "SKIPPED"}]
  /\ cache \in [Task -> {"none", "PASS", "FAIL"}]
  /\ result \in [Task -> {"none", "running", "PASS", "FAIL", "CACHED", "raised"}]
  /\ pc \in {"loop", "wait", "join", "unwind", "done", "aborted"}
  /\ exit_code \in {-1, 0, 1}

(* A task's command starts only after all of its dependencies in the        *)
(* selection passed or hit the cache in this very run.                      *)
StartedAfterDependencies ==
  \A n \in Task : result[n] # "none" =>
    \A d \in deps[n] : statuses[d] \in Succeeded

(* No more than --jobs commands run at once. *)
AtMostJobs == Cardinality(Running) <= Workers

(* Once a FAIL is recorded under --fail-fast no further command is started. *)
NothingStartsAfterFailFast ==
  [][failed /\ fail_fast /\ pc \notin {"done", "aborted"} => Running' \subseteq Running]_vars

(* A nonzero exit is always a recorded failure, and a run with one job      *)
(* reports every failure: what it prints for a task is what the task did.   *)
SequentialRunsReportEverything ==
  pc = "done" =>
    /\ exit_code = 1 => \E n \in Task : result[n] = "FAIL"
    /\ Workers = 1 => \A n \in Task :
         result[n] # "none" => statuses[n] = result[n] /\ (result[n] = "FAIL" => exit_code = 1)

(* Without --fail-fast nothing is given up that could have run: a task of   *)
(* the order stays without a result only behind a task that is recorded as  *)
(* failed or skipped.                                                       *)
SkippedOnlyBehindFailure ==
  pc = "done" /\ ~fail_fast =>
    \A n \in TaskOrder(deps) : result[n] = "none" =>
      \E d \in deps[n] : statuses[d] \in {"FAIL", "SKIPPED"}

(* A run ends whatever fails. *)
RunEnds == pc = "loop" ~> pc \in {"done", "aborted"}

(* "By default commands are offline-first and deterministic": the exit code *)
(* and the printed status follow from what the commands did, not from which *)
(* finished first.                                                          *)
ExitCodeFollowsResults ==
  pc = "done" => (exit_code = 1 <=> \E n \in Task : result[n] = "FAIL")

=============================================================================
