-------------------------- MODULE OpsControlProofs --------------------------
(***************************************************************************)
(* Proofs about OpsControl for every set of tasks, dependency relation and *)
(* number of jobs: a command starts only behind its dependencies, and none *)
(* starts after a failure under --fail-fast.                               *)
(***************************************************************************)
EXTENDS OpsControl, FiniteSetTheorems, TLAPS

(* What the loop's books have to do with each other.                        *)
Books ==
  /\ remaining \subseteq TaskOrder(deps)
  /\ \A n \in futures : result[n] # "none"
  /\ \A n \in Task : statuses[n] # "none" =>
       n \notin futures /\ (pc \in {"loop", "wait"} => n \notin remaining)

FailFast ==
  failed /\ fail_fast /\ pc \in {"loop", "wait"} => remaining = {}

IndInv == TypeOK /\ Books /\ StartedAfterDependencies /\ FailFast

(* _task_order places a task only with all of its dependencies. *)
LEMMA TaskOrderIsClosed ==
  ASSUME NEW d \in [Task -> SUBSET Task], NEW n \in TaskOrder(d), NEW m \in d[n]
  PROVE  m \in TaskOrder(d)
<1>1. PICK s \in SUBSET Task : n \in s /\ (\A k \in s : d[k] \subseteq s) /\ Placed(s, d)
  BY DEF TaskOrder
<1>2. m \in s
  BY <1>1
<1> QED
  BY <1>1, <1>2 DEF TaskOrder

LEMMA TaskOrderType == ASSUME NEW d PROVE TaskOrder(d) \subseteq Task
BY DEF TaskOrder

LEMMA IndInvInit == Init => IndInv
<1> SUFFICES ASSUME Init PROVE IndInv
  OBVIOUS
<1>1. TypeOK
  BY TaskOrderType DEF Init, TypeOK
<1>2. Books /\ StartedAfterDependencies /\ FailFast
  BY DEF Init, Books, StartedAfterDependencies, FailFast
<1> QED
  BY <1>1, <1>2 DEF IndInv

(* Recording results that are in keeps what is recorded for good. *)
LEMMA RecordKeepsInv ==
  ASSUME IndInv, NEW done \in SUBSET Finished, pc = "wait",
         \A n \in done : result[n] # "raised",
         Record(done), UNCHANGED <<options, result, exit_code, runs>>,
         pc' \in {"loop", "unwind"}
  PROVE  IndInv'
<1>1. /\ done \subseteq futures
      /\ \A n \in done : result[n] \in {"PASS", "FAIL", "CACHED"}
  BY DEF IndInv, TypeOK, Books, Finished
<1> DEFINE failures == {n \in done : result[n] = "FAIL"}
<1> DEFINE dropped == IF failures # {} /\ fail_fast THEN remaining ELSE {}
<1>2. dropped \subseteq remaining
  OBVIOUS
<1>3. statuses' = [n \in Task |-> IF n \in done THEN result[n]
                                  ELSE IF n \in dropped THEN "SKIPPED" ELSE statuses[n]]
  BY DEF Record
<1>4. cache' = [n \in Task |-> IF n \in done /\ result[n] # "CACHED"
                               THEN result[n] ELSE cache[n]]
  BY DEF Record
<1>5. /\ failed' = (failed \/ failures # {})
      /\ remaining' = remaining \ dropped
      /\ futures' = futures \ done
  BY DEF Record
<1> HIDE DEF dropped
<1>6. TypeOK'
  <2>1. statuses' \in [Task -> {"none", "PASS", "FAIL", "CACHED", "SKIPPED"}]
    BY <1>1, <1>3 DEF IndInv, TypeOK
  <2>2. cache' \in [Task -> {"none", "PASS", "FAIL"}]
    BY <1>1, <1>4 DEF IndInv, TypeOK
  <2>3. failed' \in BOOLEAN /\ remaining' \subseteq Task /\ futures' \subseteq Task
    BY <1>5 DEF IndInv, TypeOK
  <2>4. remaining' \cap futures' = {}
    BY <1>5 DEF IndInv, TypeOK
  <2> QED
    BY <2>1, <2>2, <2>3, <2>4 DEF IndInv, TypeOK, options
<1>7. Books'
  <2>1. remaining' \subseteq TaskOrder(deps)' /\ \A n \in futures' : result'[n] # "none"
    BY <1>5 DEF IndInv, Books, options, TaskOrder, Placed
  <2>2. ASSUME NEW n \in Task, statuses'[n] # "none"
        PROVE  n \notin futures' /\ (pc' \in {"loop", "wait"} => n \notin remaining')
    <3>1. CASE n \in done
      BY <1>1, <1>5, <3>1 DEF IndInv, TypeOK
    <3>2. CASE n \notin done /\ n \in dropped
      BY <1>2, <1>5, <3>2 DEF IndInv, TypeOK
    <3>3. CASE n \notin done /\ n \notin dropped
      BY <1>3, <1>5, <2>2, <3>3 DEF IndInv, Books
    <3> QED
      BY <3>1, <3>2, <3>3
  <2> QED
    BY <2>1, <2>2 DEF Books
<1>8. StartedAfterDependencies'
  <2>1. ASSUME NEW n \in Task, statuses[n] # "none" PROVE statuses'[n] = statuses[n]
    BY <1>1, <1>2, <1>3, <2>1 DEF IndInv, Books
  <2>2. /\ result' = result /\ deps' = deps
        /\ \A n \in Task : deps[n] \subseteq Task
    BY OptionsAssumption DEF IndInv, TypeOK, options
  <2>3. ASSUME NEW n \in Task, NEW d \in deps[n], result[n] # "none"
        PROVE  statuses'[d] \in Succeeded
    <3>1. statuses[d] \in Succeeded /\ d \in Task
      BY <2>2, <2>3 DEF IndInv, StartedAfterDependencies
    <3> QED
      BY <3>1, <2>1 DEF Succeeded
  <2> QED
    BY <2>2, <2>3 DEF StartedAfterDependencies, Succeeded
<1>9. FailFast'
  <2>1. CASE failed
    BY <1>5, <2>1 DEF IndInv, FailFast, options
  <2>2. CASE ~failed
    BY <1>5, <2>2 DEF FailFast, options, dropped
  <2> QED
    BY <2>1, <2>2 DEF IndInv, TypeOK
<1> QED
  BY <1>6, <1>7, <1>8, <1>9 DEF IndInv

(* Every record of the run stays where it is. *)
LEMMA BooksStand ==
  ASSUME IndInv, UNCHANGED <<deps, jobs, fail_fast, no_cache, cache, books, result>>,
         pc' \in {"loop", "wait", "join", "unwind", "done", "aborted"},
         pc' \in {"loop", "wait"} => pc \in {"loop", "wait"}, exit_code' \in {-1, 0, 1}
  PROVE  IndInv'
<1>1. TypeOK'
  BY DEF IndInv, TypeOK, books
<1>2. Books' /\ StartedAfterDependencies' /\ FailFast'
  BY DEF IndInv, books, Books, StartedAfterDependencies, FailFast, TaskOrder, Placed
<1> QED
  BY <1>1, <1>2 DEF IndInv

LEMMA SubmitKeepsInv == ASSUME IndInv, SubmitReady PROVE IndInv'
<1> USE DEF SubmitReady
<1>1. Batch \subseteq Ready /\ Ready \subseteq remaining /\ remaining \subseteq Task
  BY DEF Batch, Ready, IndInv, TypeOK
<1>2. TypeOK'
  BY <1>1 DEF IndInv, TypeOK, options
<1>3. Books'
  <2>1. /\ remaining' = remaining \ Batch /\ futures' = futures \cup Batch
        /\ statuses' = statuses /\ deps' = deps /\ TaskOrder(deps)' = TaskOrder(deps)
    BY DEF options, TaskOrder, Placed
  <2>2. \A n \in futures' : result'[n] # "none"
    <3>1. result' = [n \in Task |-> IF n \in Batch THEN "running" ELSE result[n]]
      OBVIOUS
    <3> QED
      BY <1>1, <2>1, <3>1 DEF IndInv, Books, TypeOK
  <2>3. \A n \in Batch : statuses[n] = "none"
    BY <1>1 DEF IndInv, Books
  <2> QED
    BY <1>1, <2>1, <2>2, <2>3 DEF IndInv, Books
<1>4. FailFast'
  BY DEF IndInv, FailFast, options
<1>5. StartedAfterDependencies'
  <2>1. ASSUME NEW n \in Batch, NEW d \in deps[n] PROVE statuses[d] \in Succeeded
    <3>1. deps \in [Task -> SUBSET Task]
      BY OptionsAssumption DEF IndInv, TypeOK
    <3>2. n \in TaskOrder(deps)
      BY <1>1 DEF IndInv, Books
    <3>3. d \in TaskOrder(deps)
      BY <3>1, <3>2, TaskOrderIsClosed
    <3> QED
      BY <1>1, <3>3 DEF Ready
  <2>2. \A n \in Task \ Batch : result'[n] = result[n]
    BY DEF IndInv, TypeOK
  <2> QED
    BY <2>1, <2>2 DEF IndInv, StartedAfterDependencies, options
<1> QED
  BY <1>2, <1>3, <1>4, <1>5 DEF IndInv

LEMMA IndInvStep == IndInv /\ [Next]_vars => IndInv'
<1> SUFFICES ASSUME IndInv, [Next]_vars PROVE IndInv'
  OBVIOUS
<1>1. CASE SubmitReady
  BY <1>1, SubmitKeepsInv
<1>2. CASE SkipBlocked
  <2>1. TypeOK' /\ FailFast'
    BY <1>2 DEF SkipBlocked, IndInv, TypeOK, FailFast, options
  <2>2. Books'
    BY <1>2 DEF SkipBlocked, IndInv, TypeOK, Books, options, TaskOrder, Placed
  <2>3. ASSUME NEW n \in Task, statuses[n] # "none" PROVE statuses'[n] = statuses[n]
    BY <1>2, <2>3 DEF SkipBlocked, IndInv, Books
  <2>4. \A n \in Task : deps[n] \subseteq Task
    BY OptionsAssumption DEF IndInv, TypeOK
  <2>5. ASSUME NEW n \in Task, NEW d \in deps[n], result[n] # "none"
        PROVE  statuses'[d] \in Succeeded
    <3>1. statuses[d] \in Succeeded /\ d \in Task
      BY <2>4, <2>5 DEF IndInv, StartedAfterDependencies
    <3> QED
      BY <2>3, <3>1 DEF Succeeded
  <2>6. StartedAfterDependencies'
    BY <1>2, <2>5 DEF SkipBlocked, StartedAfterDependencies, Succeeded, options
  <2> QED
    BY <2>1, <2>2, <2>6 DEF IndInv
<1>3. CASE LeaveLoop
  BY <1>3, BooksStand DEF LeaveLoop, options, IndInv, TypeOK
<1>4. CASE Collect
  BY <1>4, RecordKeepsInv DEF Collect
<1>5. CASE CollectRaised
  <2>1. PICK done \in SUBSET {n \in Finished : result[n] # "raised"} : Record(done)
    BY <1>5 DEF CollectRaised
  <2> QED
    BY <1>5, <2>1, RecordKeepsInv DEF CollectRaised
<1>6. CASE Exit
  BY <1>6, BooksStand DEF Exit, options
<1>7. CASE Abort
  BY <1>7, BooksStand DEF Abort, options, IndInv, TypeOK
<1>8. ASSUME NEW n \in Task, Execute(n) PROVE IndInv'
  <2>1. PICK r \in {"PASS", "FAIL", "CACHED", "raised"} : result' = [result EXCEPT ![n] = r]
    BY <1>8 DEF Execute
  <2>2. result[n] = "running" /\ UNCHANGED <<options, cache, books, exit_code, pc, runs>>
    BY <1>8 DEF Execute
  <2>3. TypeOK'
    BY <2>1, <2>2 DEF IndInv, TypeOK, options, books
  <2>4. Books' /\ FailFast'
    BY <2>1, <2>2 DEF IndInv, TypeOK, Books, FailFast, options, books, TaskOrder, Placed
  <2>5. \A m \in Task : result'[m] # "none" => result[m] # "none"
    BY <2>1, <2>2 DEF IndInv, TypeOK
  <2>6. StartedAfterDependencies'
    BY <2>2, <2>5 DEF IndInv, StartedAfterDependencies, options, books
  <2> QED
    BY <2>3, <2>4, <2>6 DEF IndInv
<1>9. CASE RunAgain
  <2>1. TypeOK'
    BY <1>9, TaskOrderType DEF RunAgain, StartRun, IndInv, TypeOK
  <2>2. Books' /\ StartedAfterDependencies' /\ FailFast'
    BY <1>9 DEF RunAgain, StartRun, Books, StartedAfterDependencies, FailFast, TaskOrder,
                Placed
  <2> QED
    BY <2>1, <2>2 DEF IndInv
<1>10. CASE UNCHANGED vars
  BY <1>10, BooksStand DEF vars, options, IndInv, TypeOK
<1> QED
  BY <1>1, <1>2, <1>3, <1>4, <1>5, <1>6, <1>7, <1>8, <1>9, <1>10 DEF Next, Main, Terminated

THEOREM Inductive == Spec => []IndInv
BY IndInvInit, IndInvStep, PTL DEF Spec

(* A task's command starts only after all of its dependencies passed or hit *)
(* the cache in this very run, for every dependency relation.               *)
THEOREM DependencyOrder == Spec => []StartedAfterDependencies
<1>1. IndInv => StartedAfterDependencies
  BY DEF IndInv
<1> QED
  BY <1>1, Inductive, PTL

(* Once a FAIL is recorded under --fail-fast no further command is started. *)
THEOREM FailFastStops == Spec => NothingStartsAfterFailFast
<1> DEFINE Quiet == failed /\ fail_fast /\ pc \notin {"done", "aborted"}
                      => Running' \subseteq Running
<1>1. IndInv /\ [Next]_vars => [Quiet]_vars
  <2> SUFFICES ASSUME IndInv, Next, failed, fail_fast, pc \notin {"done", "aborted"}
               PROVE  Running' \subseteq Running
    OBVIOUS
  <2>1. ~SubmitReady
    BY DEF SubmitReady, IndInv, FailFast
  <2>2. CASE SkipBlocked \/ LeaveLoop \/ Collect \/ CollectRaised \/ Exit \/ Abort
             \/ Terminated
    BY <2>2 DEF SkipBlocked, LeaveLoop, Collect, CollectRaised, Exit, Abort, Terminated,
                Running, vars
  <2>3. ASSUME NEW n \in Task, Execute(n) PROVE Running' \subseteq Running
    BY <2>3 DEF Execute, Running, IndInv, TypeOK
  <2>4. ~RunAgain
    BY DEF RunAgain
  <2> QED
    BY <2>1, <2>2, <2>3, <2>4 DEF Next, Main
<1> QED
  BY <1>1, Inductive, PTL DEF Spec, NothingStartsAfterFailFast

(* The loop's variables keep their types, and no task is both to be         *)
(* submitted and in flight.                                                 *)
THEOREM TypesHold == Spec => []TypeOK
<1>1. IndInv => TypeOK
  BY DEF IndInv
<1> QED
  BY <1>1, Inductive, PTL

----------------------------------------------------------------------------
(* Without --fail-fast: while the loop runs, a task of the order is still   *)
(* to be submitted or has run, and what has run is recorded or in flight.   *)
Looping ==
  pc \in {"loop", "wait"} =>
    /\ \A n \in TaskOrder(deps) : n \in remaining \/ result[n] # "none"
    /\ \A n \in Task : result[n] # "none" => n \in futures \/ statuses[n] # "none"

Explained ==
  pc \in {"join", "done"} =>
    \A n \in TaskOrder(deps) : result[n] = "none" =>
      \E d \in deps[n] : statuses[d] \in {"FAIL", "SKIPPED"}

Accounted == ~fail_fast => Looping /\ Explained

LEMMA AccountedInit == Init => Accounted
BY TaskOrderType DEF Init, Accounted, Looping, Explained

LEMMA SkipBlockedExplains ==
  ASSUME IndInv, Looping, SkipBlocked
  PROVE  \A n \in TaskOrder(deps) : result[n] = "none" =>
           \E d \in deps[n] : statuses'[d] \in {"FAIL", "SKIPPED"}
<1> SUFFICES ASSUME NEW n \in TaskOrder(deps), result[n] = "none"
             PROVE  \E d \in deps[n] : statuses'[d] \in {"FAIL", "SKIPPED"}
  OBVIOUS
<1>1. n \in remaining /\ n \notin Ready
  BY DEF SkipBlocked, Looping
<1>2. PICK d \in deps[n] \cap TaskOrder(deps) : statuses[d] \notin Succeeded
  BY <1>1 DEF Ready
<1>3. d \in Task
  BY <1>2, TaskOrderType
<1>4. statuses' = [m \in Task |-> IF m \in remaining THEN "SKIPPED" ELSE statuses[m]]
  BY DEF SkipBlocked
<1>5. CASE d \in remaining
  BY <1>2, <1>3, <1>4, <1>5
<1>6. CASE d \notin remaining
  <2>1. statuses[d] # "none"
    BY <1>2, <1>3, <1>6 DEF Looping, SkipBlocked
  <2>2. statuses[d] \in {"FAIL", "SKIPPED"}
    BY <1>2, <1>3, <2>1 DEF IndInv, TypeOK, Succeeded
  <2> QED
    BY <1>2, <1>3, <1>4, <1>6, <2>2
<1> QED
  BY <1>5, <1>6

LEMMA RecordKeepsLooping ==
  ASSUME IndInv, ~fail_fast, Looping, pc = "wait", NEW done \in SUBSET Finished,
         \A n \in done : result[n] # "raised", Record(done), UNCHANGED <<options, result>>
  PROVE  Looping'
<1>1. \A n \in done : n \in Task /\ n \in futures /\ result[n] # "none"
  BY DEF IndInv, TypeOK, Books, Finished
<1>2. remaining' = remaining /\ futures' = futures \ done
  BY DEF Record
<1>3. statuses' = [n \in Task |-> IF n \in done THEN result[n] ELSE statuses[n]]
  BY DEF Record
<1>4. \A n \in TaskOrder(deps) : n \in remaining' \/ result'[n] # "none"
  BY <1>2 DEF Looping
<1>5. \A n \in Task : result'[n] # "none" => n \in futures' \/ statuses'[n] # "none"
  BY <1>1, <1>2, <1>3 DEF Looping
<1>6. TaskOrder(deps)' = TaskOrder(deps)
  BY DEF options, TaskOrder, Placed
<1> QED
  BY <1>4, <1>5, <1>6 DEF Looping

LEMMA AccountedStep == IndInv /\ Accounted /\ [Next]_vars => Accounted'
<1> SUFFICES ASSUME IndInv, Accounted, [Next]_vars, ~fail_fast' PROVE Looping' /\ Explained'
  BY DEF Accounted
<1> DEFINE SameTasks == deps' = deps /\ fail_fast' = fail_fast /\ TaskOrder(deps)' = TaskOrder(deps)
<1>0. UNCHANGED options => SameTasks
  BY DEF options, TaskOrder, Placed
<1>1. CASE SubmitReady
  <2>1. Looping /\ SameTasks
    BY <1>0, <1>1 DEF SubmitReady, Accounted
  <2>2. Batch \subseteq Task
    BY DEF Batch, Ready, IndInv, TypeOK
  <2>3. /\ \A n \in Batch : result'[n] = "running" /\ n \in futures'
        /\ \A n \in Task \ Batch : result'[n] = result[n]
    BY <1>1, <2>2 DEF SubmitReady
  <2>4. remaining' = remaining \ Batch /\ futures' = futures \cup Batch
        /\ statuses' = statuses /\ pc = "loop" /\ pc' = "wait"
    BY <1>1 DEF SubmitReady
  <2> QED
    BY <2>1, <2>2, <2>3, <2>4, TaskOrderType DEF Looping, Explained
<1>2. CASE SkipBlocked
  <2>1. Looping /\ SameTasks /\ pc' = "join" /\ result' = result
    BY <1>0, <1>2 DEF SkipBlocked, Accounted
  <2> QED
    BY <1>2, <2>1, SkipBlockedExplains DEF Looping, Explained
<1>3. CASE LeaveLoop
  BY <1>0, <1>3 DEF LeaveLoop, Accounted, Looping, Explained, books
<1>4. CASE Collect
  <2>1. ~fail_fast /\ Looping
    BY <1>0, <1>4 DEF Collect, Accounted
  <2>2. Looping'
    BY <1>4, <2>1, RecordKeepsLooping DEF Collect
  <2> QED
    BY <1>4, <2>2 DEF Collect, Explained
<1>5. CASE CollectRaised
  BY <1>5 DEF CollectRaised, Looping, Explained
<1>6. CASE Exit
  BY <1>0, <1>6 DEF Exit, Accounted, Looping, Explained, books
<1>7. CASE Abort
  BY <1>7 DEF Abort, Looping, Explained
<1>8. ASSUME NEW n \in Task, Execute(n) PROVE Looping' /\ Explained'
  <2>1. SameTasks /\ UNCHANGED <<statuses, remaining, futures, pc>>
    BY <1>0, <1>8 DEF Execute, books
  <2>2. Looping /\ Explained /\ \A m \in Task : result[m] = "none" <=> result'[m] = "none"
    BY <1>8, <2>1 DEF Execute, Accounted, IndInv, TypeOK
  <2> QED
    BY <2>1, <2>2, TaskOrderType DEF Looping, Explained
<1>9. CASE RunAgain
  BY <1>9, TaskOrderType DEF RunAgain, StartRun, Looping, Explained, TaskOrder, Placed
<1>10. CASE UNCHANGED vars
  BY <1>0, <1>10 DEF vars, books, options, Accounted, Looping, Explained
<1> QED
  BY <1>1, <1>2, <1>3, <1>4, <1>5, <1>6, <1>7, <1>8, <1>9, <1>10 DEF Next, Main, Terminated

(* Without --fail-fast a task is given up only behind a dependency that is  *)
(* recorded as failed or skipped.                                           *)
THEOREM NothingElseIsSkipped == Spec => []SkippedOnlyBehindFailure
<1>1. Accounted => SkippedOnlyBehindFailure
  BY DEF Accounted, Explained, SkippedOnlyBehindFailure
<1> QED
  BY <1>1, AccountedInit, AccountedStep, Inductive, PTL DEF Spec

----------------------------------------------------------------------------
(* The exit code is 1 exactly when the loop recorded a failure, and what it *)
(* recorded as FAIL did fail.                                               *)
ExitFollowsFailed ==
  /\ pc = "done" => exit_code = (IF failed THEN 1 ELSE 0)
  /\ failed => \E n \in Task : result[n] = "FAIL"
  /\ \A n \in Task : statuses[n] = "FAIL" => failed
  /\ \A n \in remaining : result[n] = "none"

(* With one worker a pass of the loop waits for the one future there is,    *)
(* so that nothing is in flight when the next one begins.                   *)
OneAtATime ==
  Workers = 1 =>
    /\ pc \in {"loop", "join", "done"} => futures = {}
    /\ \A m, n \in futures : m = n
    /\ pc \in {"loop", "wait", "join", "done"} =>
         \A n \in Task : result[n] # "none" => n \in futures \/ statuses[n] = result[n]

Reporting == ExitFollowsFailed /\ OneAtATime

LEMMA ReportingInit == Init => Reporting
BY TaskOrderType DEF Init, Reporting, ExitFollowsFailed, OneAtATime

(* With one worker and nothing in flight at most one task is submitted: the *)
(* first ready one.                                                         *)
LEMMA BatchOfOne ==
  ASSUME TypeOK, Workers = 1, futures = {}, NEW m \in Batch, NEW n \in Batch
  PROVE  m = n
<1> DEFINE Before(k) == {l \in Ready : Rank[l] < Rank[k]}
<1>1. Ready \subseteq Task /\ IsFiniteSet(Ready)
  BY OptionsAssumption, FS_Subset DEF Ready, TypeOK
<1>2. Cardinality(futures) = 0
  BY FS_EmptySet
<1>3. ASSUME NEW k \in Batch PROVE Before(k) = {}
  <2>1. Cardinality(Before(k)) < 1
    BY <1>2 DEF Batch
  <2>2. IsFiniteSet(Before(k))
    BY <1>1, FS_Subset
  <2>3. Cardinality(Before(k)) \in Nat
    BY <2>2, FS_CardinalityType
  <2>4. Cardinality(Before(k)) = 0
    BY <2>1, <2>3
  <2> QED
    BY <2>2, <2>4, FS_EmptySet
<1>4. m \in Ready /\ n \in Ready
  BY DEF Batch
<1>5. ~(Rank[m] < Rank[n]) /\ ~(Rank[n] < Rank[m])
  <2>1. Before(m) = {} /\ Before(n) = {}
    BY <1>3
  <2> QED
    BY <1>4, <2>1
<1>6. Rank[m] \in Int /\ Rank[n] \in Int
  BY <1>1, <1>4, RankAssumption
<1> QED
  BY <1>1, <1>4, <1>5, <1>6, RankAssumption

LEMMA RecordKeepsExit ==
  ASSUME IndInv, ExitFollowsFailed, NEW done \in SUBSET Finished, pc = "wait",
         \A n \in done : result[n] # "raised", Record(done), UNCHANGED result,
         pc' # "done"
  PROVE  ExitFollowsFailed'
<1> DEFINE failures == {n \in done : result[n] = "FAIL"}
<1> DEFINE dropped == IF failures # {} /\ fail_fast THEN remaining ELSE {}
<1>1. done \subseteq Task /\ remaining' \subseteq remaining
  BY DEF Record, Finished, IndInv, TypeOK
<1>2. failed' = (failed \/ failures # {})
  BY DEF Record
<1>3. statuses' = [n \in Task |-> IF n \in done THEN result[n]
                                  ELSE IF n \in dropped THEN "SKIPPED" ELSE statuses[n]]
  BY DEF Record
<1>4. failed' => \E n \in Task : result'[n] = "FAIL"
  BY <1>1, <1>2 DEF ExitFollowsFailed
<1>5. ASSUME NEW n \in Task, statuses'[n] = "FAIL" PROVE failed'
  BY <1>2, <1>3, <1>5 DEF ExitFollowsFailed
<1> QED
  BY <1>1, <1>4, <1>5 DEF ExitFollowsFailed

LEMMA RecordKeepsOne ==
  ASSUME IndInv, ExitFollowsFailed, OneAtATime, pc = "wait", Finished # {},
         \A n \in Finished : result[n] # "raised", Record(Finished),
         UNCHANGED <<options, result>>, Workers = 1
  PROVE  /\ futures' = {}
         /\ \A n \in Task : result'[n] # "none" => statuses'[n] = result'[n]
<1> DEFINE failures == {n \in Finished : result[n] = "FAIL"}
<1> DEFINE dropped == IF failures # {} /\ fail_fast THEN remaining ELSE {}
<1>1. Finished = futures
  BY DEF OneAtATime, Finished
<1>2. futures' = {}
  BY <1>1 DEF Record
<1>3. statuses' = [n \in Task |-> IF n \in Finished THEN result[n]
                                  ELSE IF n \in dropped THEN "SKIPPED" ELSE statuses[n]]
  BY DEF Record
<1>4. ASSUME NEW n \in Task, result'[n] # "none" PROVE statuses'[n] = result'[n]
  <2>1. result' = result /\ n \notin remaining
    BY <1>4 DEF ExitFollowsFailed
  <2>2. n \in futures \/ statuses[n] = result[n]
    BY <1>4, <2>1 DEF OneAtATime
  <2> QED
    BY <1>1, <1>3, <2>1, <2>2
<1> QED
  BY <1>2, <1>4

LEMMA ReportingStep == IndInv /\ Reporting /\ [Next]_vars => Reporting'
<1> SUFFICES ASSUME IndInv, ExitFollowsFailed, OneAtATime, [Next]_vars
             PROVE  ExitFollowsFailed' /\ OneAtATime'
  BY DEF Reporting
<1>1. CASE SubmitReady
  <2>1. Batch \subseteq remaining /\ remaining \subseteq Task
    BY DEF Batch, Ready, IndInv, TypeOK
  <2>2. /\ \A n \in Batch : result'[n] = "running"
        /\ \A n \in Task \ Batch : result'[n] = result[n]
        /\ \A n \in Batch : result[n] = "none"
    BY <1>1, <2>1 DEF SubmitReady, ExitFollowsFailed
  <2>3. /\ futures' = futures \cup Batch /\ remaining' = remaining \ Batch
        /\ pc = "loop" /\ pc' = "wait"
        /\ UNCHANGED <<statuses, failed, exit_code, Workers>>
    BY <1>1 DEF SubmitReady, Workers, options
  <2>4. ExitFollowsFailed'
    BY <2>1, <2>2, <2>3 DEF ExitFollowsFailed
  <2>5. OneAtATime'
    <3> SUFFICES ASSUME Workers = 1
                 PROVE  /\ \A m, n \in futures' : m = n
                        /\ \A n \in Task : result'[n] # "none" =>
                             n \in futures' \/ statuses'[n] = result'[n]
      BY <2>3 DEF OneAtATime
    <3>1. futures = {}
      BY <2>3 DEF OneAtATime
    <3>2. \A m, n \in futures' : m = n
      BY <2>3, <3>1, BatchOfOne DEF IndInv
    <3> QED
      BY <2>2, <2>3, <3>1, <3>2 DEF OneAtATime
  <2> QED
    BY <2>4, <2>5
<1>2. CASE SkipBlocked
  <2>1. /\ \A n \in remaining : result[n] = "none" /\ statuses'[n] = "SKIPPED"
        /\ \A n \in Task \ remaining : statuses'[n] = statuses[n]
    BY <1>2 DEF SkipBlocked, ExitFollowsFailed, IndInv, TypeOK
  <2>2. /\ UNCHANGED <<remaining, futures, failed, result, exit_code, Workers>>
        /\ pc = "loop" /\ pc' = "join" /\ futures = {}
    BY <1>2 DEF SkipBlocked, Workers, options
  <2> QED
    BY <2>1, <2>2 DEF ExitFollowsFailed, OneAtATime
<1>3. CASE LeaveLoop
  BY <1>3 DEF LeaveLoop, books, options, Workers, ExitFollowsFailed, OneAtATime
<1>4. CASE Collect
  <2>1. ExitFollowsFailed'
    BY <1>4, RecordKeepsExit DEF Collect
  <2>2. UNCHANGED Workers /\ pc' = "loop"
    BY <1>4 DEF Collect, options, Workers
  <2>3. OneAtATime'
    <3> SUFFICES ASSUME Workers = 1
                 PROVE  /\ futures' = {}
                        /\ \A n \in Task : result'[n] # "none" => statuses'[n] = result'[n]
      BY <2>2 DEF OneAtATime
    <3> QED
      BY <1>4, RecordKeepsOne DEF Collect
  <2> QED
    BY <2>1, <2>3
<1>5. CASE CollectRaised
  <2>1. PICK done \in SUBSET {n \in Finished : result[n] # "raised"} : Record(done)
    BY <1>5 DEF CollectRaised
  <2>2. ExitFollowsFailed'
    BY <1>5, <2>1, RecordKeepsExit DEF CollectRaised
  <2>3. futures' \subseteq futures /\ pc' = "unwind" /\ UNCHANGED Workers
    BY <1>5, <2>1 DEF CollectRaised, Record, options, Workers
  <2> QED
    BY <2>2, <2>3 DEF OneAtATime
<1>6. CASE Exit
  BY <1>6 DEF Exit, books, options, Workers, ExitFollowsFailed, OneAtATime
<1>7. CASE Abort
  BY <1>7 DEF Abort, books, options, Workers, ExitFollowsFailed, OneAtATime
<1>8. ASSUME NEW n \in Task, Execute(n) PROVE ExitFollowsFailed' /\ OneAtATime'
  <2>1. /\ result[n] = "running"
        /\ \A m \in Task \ {n} : result'[m] = result[m]
        /\ UNCHANGED <<remaining, futures, statuses, failed, exit_code, pc, Workers>>
    BY <1>8 DEF Execute, options, books, Workers, IndInv, TypeOK
  <2>2. statuses[n] # "running"
    BY DEF IndInv, TypeOK
  <2>3. n \notin remaining /\ (failed => \E m \in Task \ {n} : result[m] = "FAIL")
    BY <2>1 DEF ExitFollowsFailed
  <2>4. ExitFollowsFailed'
    BY <2>1, <2>3 DEF ExitFollowsFailed, IndInv, TypeOK
  <2>5. OneAtATime'
    BY <2>1, <2>2 DEF OneAtATime
  <2> QED
    BY <2>4, <2>5
<1>9. CASE RunAgain
  BY <1>9, TaskOrderType DEF RunAgain, StartRun, ExitFollowsFailed, OneAtATime
<1>10. CASE UNCHANGED vars
  BY <1>10 DEF vars, books, options, Workers, ExitFollowsFailed, OneAtATime
<1> QED
  BY <1>1, <1>2, <1>3, <1>4, <1>5, <1>6, <1>7, <1>8, <1>9, <1>10 DEF Next, Main, Terminated

(* A nonzero exit is always a failed command, and with one job every command*)
(* that ran is reported with what it did.                                   *)
THEOREM OneJobReportsEverything == Spec => []SequentialRunsReportEverything
<1>1. Reporting => SequentialRunsReportEverything
  BY DEF Reporting, ExitFollowsFailed, OneAtATime, SequentialRunsReportEverything
<1> QED
  BY <1>1, ReportingInit, ReportingStep, Inductive, PTL DEF Spec
=============================================================================
