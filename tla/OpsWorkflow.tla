----------------------------- MODULE OpsWorkflow -----------------------------
(***************************************************************************)
(* run_workflow of src/sdetkit/ops/ops.py: steps with dependencies, run on *)
(* a thread pool that the calling thread feeds and collects, then the      *)
(* three documents of the run's history directory, which list_runs and     *)
(* load_run read.  The process may be killed at any time.                  *)
(*                                                                         *)
(* A step is its id; ids are ordered.  What it does is its outcome: ok     *)
(* (dry_run included), error (a command that fails) or an exception.       *)
(* Commands have no timeout; here they end.                                *)
(***************************************************************************)
EXTENDS Naturals, FiniteSets

CONSTANTS Step,      \* ids
          MaxWorkers \* bound: pool sizes

ASSUME StepAssumption == Step \subseteq Nat /\ IsFiniteSet(Step) /\ Step # {}
ASSUME MaxWorkersAssumption == MaxWorkers \in Nat \ {0}

VARIABLES depends_on, workers, fail_fast, \* the workflow and the options
          phase,    \* of the calling thread
          ready,    \* the priority queue
          deps,     \* per step, dependencies without a result
          futures,  \* steps whose future is waited for
          pending,
          batch,    \* done futures of the last wait that are not yet looked at
          results,  \* steps with a result
          thread,   \* per step, its task in the pool
          outcome,  \* per step, what running it gave
          written   \* documents in the history directory, in their order

config == <<depends_on, workers, fail_fast>>
loop == <<ready, deps, futures, pending, batch, results>>
pool == <<thread, outcome>>
vars == <<config, phase, loop, pool, written>>

Outcomes == {"ok", "error", "exception"}

Stopped == {"rejected", "returned", "raised", "killed"}

Phases == {"load", "schedule", "collect", "join", "raising", "documents"} \cup Stopped

(* visit() of _validate_graph: every dependency is a step, none is its own *)
(* ancestor.                                                               *)
Acyclic(d) ==
  \A S \in SUBSET Step : S # {} => \E s \in S : d[s] \cap S = {}

Init ==
  /\ depends_on \in [Step -> SUBSET Step]
  /\ workers \in 1..MaxWorkers /\ fail_fast \in BOOLEAN
  /\ phase = "load"
  /\ ready = {} /\ deps = depends_on
  /\ futures = {} /\ pending = {} /\ batch = {} /\ results = {}
  /\ thread = [s \in Step |-> "none"] /\ outcome = [s \in Step |-> "none"]
  /\ written = 0

(* _load_workflow_resolved and _validate_graph. *)
Reject ==
  /\ phase = "load" /\ ~Acyclic(depends_on)
  /\ phase' = "rejected"
  /\ UNCHANGED <<config, loop, pool, written>>

Load ==
  /\ phase = "load" /\ Acyclic(depends_on)
  /\ phase' = "schedule"
  /\ ready' = {s \in Step : depends_on[s] = {}}
  /\ UNCHANGED <<config, deps, futures, pending, batch, results, pool, written>>

-----------------------------------------------------------------------------
Unfinished == results # Step

(* Mutant: a submitted step is not noted as pending. *)
SubmitUntracked ==
  \E s \in ready :
      /\ phase = "schedule" /\ Unfinished
      /\ Cardinality(futures) < workers
      /\ \A t \in ready : s <= t
      /\ ready' = ready \ {s}
      /\ futures' = futures \cup {s} /\ thread' = [thread EXCEPT ![s] = "queued"]
      /\ UNCHANGED <<config, phase, deps, batch, pending, results, outcome, written>>

(* The inner loop: the step with the least id goes to the pool, unless it  *)
(* is there or has a result.                                               *)
Submit ==
  \E s \in ready :
      /\ phase = "schedule" /\ Unfinished
      /\ Cardinality(futures) < workers
      /\ \A t \in ready : s <= t
      /\ ready' = ready \ {s}
      /\ IF s \in pending \cup results
         THEN UNCHANGED <<pending, futures, thread>>
         ELSE /\ pending' = pending \cup {s} /\ futures' = futures \cup {s}
              /\ thread' = [thread EXCEPT ![s] = "queued"]
      /\ UNCHANGED <<config, phase, deps, batch, results, outcome, written>>

(* wait(..., FIRST_COMPLETED): every future that is done by now. *)
Wait ==
  LET done == {s \in futures : thread[s] = "done"}
  IN  /\ phase = "schedule" /\ Unfinished
      /\ ready = {} \/ Cardinality(futures) >= workers
      /\ done # {}
      /\ batch' = done
      /\ phase' = "collect"
      /\ UNCHANGED <<config, ready, deps, futures, pending, results, pool, written>>

(* Mutant: the loop is left only with a result of every step. *)
LeaveComplete ==
  /\ phase = "schedule" /\ ~Unfinished
  /\ phase' = "join"
  /\ UNCHANGED <<config, loop, pool, written>>

(* All steps have a result, or nothing is left to wait for: the pool is    *)
(* joined.                                                                 *)
Leave ==
  /\ phase = "schedule"
  /\ ~Unfinished \/ (futures = {} /\ ready = {})
  /\ phase' = "join"
  /\ UNCHANGED <<config, loop, pool, written>>

(* Mutant: a step is ready when one of its dependencies has a result. *)
EagerlyReady(s) == {c \in Step : s \in deps[c]}

Readied(s) == {c \in Step : s \in depends_on[c] /\ deps[c] \subseteq {s}}

(* Mutant: the failure that stops the run is not recorded. *)
StopUnrecorded(s) == IF outcome[s] = "error" THEN {} ELSE {s}

Recorded(s) == {s}

(* Mutant: --fail-fast stops only when there are other futures to drop. *)
StopsIfOthers(s) == fail_fast /\ outcome[s] = "error" /\ futures # {s}

Stops(s) == fail_fast /\ outcome[s] = "error"

(* The for loop over the done futures, in any order.  fut.result() raises  *)
(* what the step raised; with --fail-fast an error drops every other       *)
(* future, but not what is ready.                                          *)
Collect ==
  \E s \in batch :
    /\ phase = "collect"
    /\ pending' = pending \ {s}
    /\ IF outcome[s] = "exception"
       THEN /\ phase' = "raising" /\ batch' = {} /\ futures' = futures \ {s}
            /\ UNCHANGED <<ready, deps, results>>
       ELSE /\ results' = results \cup Recorded(s)
            /\ IF Stops(s)
               THEN /\ futures' = {} /\ batch' = {} /\ phase' = "schedule"
                    /\ UNCHANGED <<ready, deps>>
               ELSE /\ futures' = futures \ {s} /\ batch' = batch \ {s}
                    /\ deps' = [c \in Step |-> deps[c] \ {s}]
                    /\ ready' = ready \cup Readied(s)
                    /\ phase' = IF batch = {s} THEN "schedule" ELSE "collect"
    /\ UNCHANGED <<config, pool, written>>

(* A pool thread takes the next task; at most workers run. *)
Start(s) ==
  /\ thread[s] = "queued"
  /\ Cardinality({t \in Step : thread[t] = "running"}) < workers
  /\ thread' = [thread EXCEPT ![s] = "running"]
  /\ UNCHANGED <<config, phase, loop, outcome, written>>

Finish(s) ==
  /\ thread[s] = "running"
  /\ thread' = [thread EXCEPT ![s] = "done"]
  /\ \E o \in Outcomes : outcome' = [outcome EXCEPT ![s] = o]
  /\ UNCHANGED <<config, phase, loop, written>>

PoolIdle == \A s \in Step : thread[s] \in {"none", "done"}

(* The end of the with block waits for every task, dropped ones as well.   *)
Join ==
  /\ PoolIdle
  /\ \/ phase = "join" /\ phase' = "documents"
     \/ phase = "raising" /\ phase' = "raised"
  /\ UNCHANGED <<config, loop, pool, written>>

Status == IF \A s \in results : outcome[s] = "ok" THEN "ok" ELSE "error"

(* Mutant: the results are written before the run document. *)
ResultsFirst == <<"results", "run", "events">>

Documents == <<"run", "results", "events">>

WriteDocument ==
  /\ phase = "documents"
  /\ written' = written + 1
  /\ phase' = IF written = 2 THEN "returned" ELSE phase
  /\ UNCHANGED <<config, loop, pool>>

Exists(document) == \E i \in 1..written : Documents[i] = document

Kill ==
  /\ phase \notin Stopped
  /\ phase' = "killed"
  /\ thread' = [s \in Step |-> "none"]
  /\ UNCHANGED <<config, loop, outcome, written>>

Ended == phase \in Stopped /\ UNCHANGED vars

Main == Reject \/ Load \/ Submit \/ Wait \/ Leave \/ Collect \/ Join \/ WriteDocument

Next == Main \/ (\E s \in Step : Start(s) \/ Finish(s)) \/ Kill \/ Ended

Spec == Init /\ [][Next]_vars

(* The calling thread runs, and so do the threads of the pool.             *)
Fairness == WF_vars(Main) /\ \A s \in Step : WF_vars(Start(s)) /\ WF_vars(Finish(s))

FairSpec == Spec /\ Fairness

-----------------------------------------------------------------------------
TypeOK ==
  /\ depends_on \in [Step -> SUBSET Step] /\ deps \in [Step -> SUBSET Step]
  /\ workers \in 1..MaxWorkers /\ fail_fast \in BOOLEAN
  /\ phase \in Phases
  /\ ready \subseteq Step /\ futures \subseteq pending
  /\ batch \subseteq futures /\ pending \subseteq Step /\ results \subseteq Step
  /\ thread \in [Step -> {"none", "queued", "running", "done"}]
  /\ outcome \in [Step -> Outcomes \cup {"none"}]
  /\ written \in 0..3

(* A step starts when all it depends on has a result, whose outputs it may *)
(* then read; what is ready always meets this.                             *)
DependenciesFirst ==
  \A s \in Step : s \in ready \/ thread[s] # "none" => depends_on[s] \subseteq results

(* With --fail-fast nothing that depends on a failed step is started, be   *)
(* the failure found among others that ended at the same time.             *)
FailureBlocks ==
  fail_fast =>
    \A s \in Step : thread[s] # "none" => \A d \in depends_on[s] : outcome[d] = "ok"

(* The status on record is ok only if every step of the workflow ran and   *)
(* was ok, those whose results fail-fast dropped included.                 *)
StatusIsHonest ==
  Exists("results") /\ Status = "ok" => results = Step /\ \A s \in Step : outcome[s] = "ok"

(* Without --fail-fast a run that returns has a result of every step; with *)
(* it results are missing only behind a failure on record.                 *)
NothingDropped ==
  phase \in {"join", "documents", "returned"} /\ results # Step =>
    fail_fast /\ \E s \in results : outcome[s] = "error"

(* A run that list_runs shows, load_run can load, killed or not: results   *)
(* are there only after the run document.                                  *)
ListedIsLoadable == Exists("results") => Exists("run")

(* A run that is not killed ends: no step waits for one that never comes,  *)
(* and the main loop does not spin.                                        *)
Ends == <>(phase \in Stopped)
=============================================================================
