-------------------------- MODULE OpsWorkflowProofs --------------------------
(***************************************************************************)
(* Proofs about OpsWorkflow, for every set of steps, every dependency      *)
(* relation and every number of workers.                                   *)
(*                                                                         *)
(* Outcomes, Tracked and Counted say what the sets of the main loop have   *)
(* to do with the pool and with each other; Complete is the reason why the *)
(* loop does not stop early: while no failure has dropped anything, a step *)
(* without open dependencies is ready, in flight or has a result.          *)
(***************************************************************************)
EXTENDS OpsWorkflow, TLAPS

Scheduling == phase \in {"schedule", "collect"}

Dropped == fail_fast /\ \E s \in results : outcome[s] = "error"

Loading ==
  phase = "load" =>
    /\ ready = {} /\ futures = {} /\ pending = {} /\ batch = {} /\ results = {}
    /\ deps = depends_on
    /\ \A s \in Step : thread[s] = "none" /\ outcome[s] = "none"

Counted ==
  /\ phase = "documents" => written < 3
  /\ written > 0 => phase \in {"documents", "returned", "killed"}
  /\ phase = "returned" => written = 3

AcyclicOnceLoaded == Scheduling => Acyclic(depends_on)

OutcomesOK ==
  \A s \in Step :
    /\ thread[s] \in {"queued", "running"} => outcome[s] = "none"
    /\ thread[s] = "done" => outcome[s] # "none"
    /\ s \in batch => outcome[s] # "none"
    /\ s \in results => outcome[s] \in {"ok", "error"}

Tracked ==
  Scheduling =>
    \A s \in Step : outcome[s] # "none" \/ thread[s] # "none" => s \in pending \cup results

DepsOK ==
  \A s \in Step :
    /\ deps[s] \subseteq depends_on[s]
    /\ \A d \in depends_on[s] : d \in deps[s] \/ d \in results

BlocksOK ==
  fail_fast =>
    \A s \in Step :
      /\ \A d \in depends_on[s] : d \in deps[s] \/ outcome[d] = "ok"
      /\ s \in ready \/ thread[s] # "none" => \A d \in depends_on[s] : outcome[d] = "ok"

Complete ==
  Scheduling /\ ~Dropped =>
    /\ pending \subseteq futures
    /\ \A s \in Step :
         /\ \A d \in deps[s] : d \notin results
         /\ deps[s] = {} => s \in ready \cup futures \cup results

Reasoned ==
  phase \in {"join", "documents", "returned"} \/ written > 0 => results = Step \/ Dropped

IndInv ==
  /\ TypeOK
  /\ Loading
  /\ Counted
  /\ AcyclicOnceLoaded
  /\ OutcomesOK
  /\ Tracked
  /\ DepsOK
  /\ DependenciesFirst
  /\ BlocksOK
  /\ Complete
  /\ Reasoned

-----------------------------------------------------------------------------
LEMMA InitIndInv == Init => IndInv
  <1> SUFFICES ASSUME Init PROVE IndInv
    OBVIOUS
  <1>1. TypeOK
    BY MaxWorkersAssumption DEF Init, TypeOK, Phases
  <1>2. Loading /\ Counted /\ AcyclicOnceLoaded /\ OutcomesOK /\ Tracked
    BY DEF Init, Loading, Counted, AcyclicOnceLoaded, Scheduling, OutcomesOK, Tracked
  <1>3. DepsOK /\ DependenciesFirst /\ BlocksOK /\ Complete /\ Reasoned
    BY DEF Init, DepsOK, DependenciesFirst, BlocksOK, Complete, Scheduling, Reasoned
  <1> QED
    BY <1>1, <1>2, <1>3 DEF IndInv

LEMMA TypesStep == IndInv /\ [Next]_vars => TypeOK'
  <1> SUFFICES ASSUME IndInv, [Next]_vars PROVE TypeOK'
    OBVIOUS
  <1> USE DEF IndInv, TypeOK, config, loop, pool
  <1>1. CASE Reject
    BY <1>1 DEF Reject, Phases, Stopped
  <1>2. CASE Load
    BY <1>2 DEF Load, Phases
  <1>3. CASE Submit
    BY <1>3 DEF Submit
  <1>4. CASE Wait
    BY <1>4 DEF Wait, Phases
  <1>5. CASE Leave
    BY <1>5 DEF Leave, Phases
  <1>6. CASE Collect
    <2> PICK s \in batch : Collect!(s)
      BY <1>6 DEF Collect
    <2>1. CASE outcome[s] = "exception"
      BY <2>1 DEF Phases
    <2>2. CASE outcome[s] # "exception" /\ Stops(s)
      BY <2>2 DEF Recorded, Phases
    <2>3. CASE outcome[s] # "exception" /\ ~Stops(s)
      BY <2>3 DEF Recorded, Readied, Phases
    <2> QED
      BY <2>1, <2>2, <2>3
  <1>7. CASE Join
    BY <1>7 DEF Join, Phases, Stopped
  <1>8. CASE WriteDocument
    BY <1>8 DEF WriteDocument, Phases, Stopped, Counted
  <1>9. CASE \E s \in Step : Start(s)
    BY <1>9 DEF Start
  <1>10. CASE \E s \in Step : Finish(s)
    BY <1>10 DEF Finish
  <1>11. CASE Kill
    BY <1>11 DEF Kill, Phases, Stopped
  <1>12. CASE UNCHANGED vars
    BY <1>12 DEF vars
  <1> QED
    BY <1>1, <1>2, <1>3, <1>4, <1>5, <1>6, <1>7, <1>8, <1>9, <1>10, <1>11, <1>12
       DEF Next, Main, Ended

LEMMA SmallStep == IndInv /\ [Next]_vars => Loading' /\ Counted' /\ AcyclicOnceLoaded'
  <1> SUFFICES ASSUME IndInv, [Next]_vars PROVE Loading' /\ Counted' /\ AcyclicOnceLoaded'
    OBVIOUS
  <1> USE DEF IndInv, TypeOK, config, loop, pool, Loading, Counted, AcyclicOnceLoaded, Scheduling
  <1>1. CASE Reject
    BY <1>1 DEF Reject
  <1>2. CASE Load
    BY <1>2 DEF Load
  <1>3. CASE Submit
    BY <1>3 DEF Submit
  <1>4. CASE Wait
    BY <1>4 DEF Wait
  <1>5. CASE Leave
    BY <1>5 DEF Leave
  <1>6. CASE Collect
    <2> PICK s \in batch : Collect!(s)
      BY <1>6 DEF Collect
    <2>1. CASE outcome[s] = "exception"
      BY <2>1 DEF Acyclic, Recorded
    <2>2. CASE outcome[s] # "exception" /\ Stops(s)
      BY <2>2 DEF Stops, Acyclic, Recorded, Recorded
    <2>3. CASE outcome[s] # "exception" /\ ~Stops(s)
      BY <2>3 DEF Acyclic, Recorded, Recorded, Readied
    <2> QED
      BY <2>1, <2>2, <2>3
  <1>7. CASE Join
    BY <1>7 DEF Join
  <1>8. CASE WriteDocument
    BY <1>8 DEF WriteDocument
  <1>9. CASE \E s \in Step : Start(s)
    BY <1>9 DEF Start
  <1>10. CASE \E s \in Step : Finish(s)
    BY <1>10 DEF Finish
  <1>11. CASE Kill
    BY <1>11 DEF Kill
  <1>12. CASE UNCHANGED vars
    BY <1>12 DEF vars
  <1> QED
    BY <1>1, <1>2, <1>3, <1>4, <1>5, <1>6, <1>7, <1>8, <1>9, <1>10, <1>11, <1>12
       DEF Next, Main, Ended

LEMMA OutcomesStep == IndInv /\ [Next]_vars => OutcomesOK'
  <1> SUFFICES ASSUME IndInv, [Next]_vars PROVE OutcomesOK'
    OBVIOUS
  <1> USE DEF IndInv, TypeOK, config, loop, pool, OutcomesOK, Outcomes
  <1>1. CASE Reject
    BY <1>1 DEF Reject
  <1>2. CASE Load
    BY <1>2 DEF Load, Loading
  <1>3. CASE Submit
    BY <1>3 DEF Submit, Tracked, Scheduling
  <1>4. CASE Wait
    BY <1>4 DEF Wait
  <1>5. CASE Leave
    BY <1>5 DEF Leave
  <1>6. CASE Collect
    <2> PICK s \in batch : Collect!(s)
      BY <1>6 DEF Collect
    <2>1. CASE outcome[s] = "exception"
      BY <2>1 DEF Outcomes
    <2>2. CASE outcome[s] # "exception" /\ Stops(s)
      BY <2>2 DEF Stops, Outcomes, Recorded
    <2>3. CASE outcome[s] # "exception" /\ ~Stops(s)
      BY <2>3 DEF Outcomes, Recorded, Readied
    <2> QED
      BY <2>1, <2>2, <2>3
  <1>7. CASE Join
    BY <1>7 DEF Join
  <1>8. CASE WriteDocument
    BY <1>8 DEF WriteDocument
  <1>9. CASE \E s \in Step : Start(s)
    BY <1>9 DEF Start
  <1>10. CASE \E s \in Step : Finish(s)
    BY <1>10 DEF Finish
  <1>11. CASE Kill
    BY <1>11 DEF Kill
  <1>12. CASE UNCHANGED vars
    BY <1>12 DEF vars
  <1> QED
    BY <1>1, <1>2, <1>3, <1>4, <1>5, <1>6, <1>7, <1>8, <1>9, <1>10, <1>11, <1>12
       DEF Next, Main, Ended

LEMMA TrackedStep == IndInv /\ [Next]_vars => Tracked'
  <1> SUFFICES ASSUME IndInv, [Next]_vars PROVE Tracked'
    OBVIOUS
  <1> USE DEF IndInv, TypeOK, config, loop, pool, Tracked, Scheduling
  <1>1. CASE Reject
    BY <1>1 DEF Reject
  <1>2. CASE Load
    BY <1>2 DEF Load, Loading
  <1>3. CASE Submit
    BY <1>3 DEF Submit
  <1>4. CASE Wait
    BY <1>4 DEF Wait
  <1>5. CASE Leave
    BY <1>5 DEF Leave
  <1>6. CASE Collect
    <2> PICK s \in batch : Collect!(s)
      BY <1>6 DEF Collect
    <2>1. CASE outcome[s] = "exception"
      BY <2>1 DEF Outcomes
    <2>2. CASE outcome[s] # "exception" /\ Stops(s)
      BY <2>2 DEF Stops, Outcomes, Recorded
    <2>3. CASE outcome[s] # "exception" /\ ~Stops(s)
      BY <2>3 DEF Outcomes, Recorded, Readied
    <2> QED
      BY <2>1, <2>2, <2>3
  <1>7. CASE Join
    BY <1>7 DEF Join
  <1>8. CASE WriteDocument
    BY <1>8 DEF WriteDocument
  <1>9. CASE \E s \in Step : Start(s)
    BY <1>9 DEF Start
  <1>10. CASE \E s \in Step : Finish(s)
    BY <1>10 DEF Finish
  <1>11. CASE Kill
    BY <1>11 DEF Kill
  <1>12. CASE UNCHANGED vars
    BY <1>12 DEF vars
  <1> QED
    BY <1>1, <1>2, <1>3, <1>4, <1>5, <1>6, <1>7, <1>8, <1>9, <1>10, <1>11, <1>12
       DEF Next, Main, Ended

LEMMA DepsStep == IndInv /\ [Next]_vars => DepsOK'
  <1> SUFFICES ASSUME IndInv, [Next]_vars PROVE DepsOK'
    OBVIOUS
  <1> USE DEF IndInv, TypeOK, config, loop, pool, DepsOK
  <1>1. CASE Reject
    BY <1>1 DEF Reject
  <1>2. CASE Load
    BY <1>2 DEF Load, Loading
  <1>3. CASE Submit
    BY <1>3 DEF Submit
  <1>4. CASE Wait
    BY <1>4 DEF Wait
  <1>5. CASE Leave
    BY <1>5 DEF Leave
  <1>6. CASE Collect
    <2> PICK s \in batch : Collect!(s)
      BY <1>6 DEF Collect
    <2>1. CASE outcome[s] = "exception"
      BY <2>1 DEF Outcomes
    <2>2. CASE outcome[s] # "exception" /\ Stops(s)
      BY <2>2 DEF Stops, Outcomes, Recorded
    <2>3. CASE outcome[s] # "exception" /\ ~Stops(s)
      BY <2>3 DEF Outcomes, Recorded, Readied
    <2> QED
      BY <2>1, <2>2, <2>3
  <1>7. CASE Join
    BY <1>7 DEF Join
  <1>8. CASE WriteDocument
    BY <1>8 DEF WriteDocument
  <1>9. CASE \E s \in Step : Start(s)
    BY <1>9 DEF Start
  <1>10. CASE \E s \in Step : Finish(s)
    BY <1>10 DEF Finish
  <1>11. CASE Kill
    BY <1>11 DEF Kill
  <1>12. CASE UNCHANGED vars
    BY <1>12 DEF vars
  <1> QED
    BY <1>1, <1>2, <1>3, <1>4, <1>5, <1>6, <1>7, <1>8, <1>9, <1>10, <1>11, <1>12
       DEF Next, Main, Ended

LEMMA FirstStep == IndInv /\ [Next]_vars => DependenciesFirst'
  <1> SUFFICES ASSUME IndInv, [Next]_vars PROVE DependenciesFirst'
    OBVIOUS
  <1> USE DEF IndInv, TypeOK, config, loop, pool, DependenciesFirst
  <1>1. CASE Reject
    BY <1>1 DEF Reject
  <1>2. CASE Load
    BY <1>2 DEF Load, Loading
  <1>3. CASE Submit
    BY <1>3 DEF Submit
  <1>4. CASE Wait
    BY <1>4 DEF Wait
  <1>5. CASE Leave
    BY <1>5 DEF Leave
  <1>6. CASE Collect
    <2> PICK s \in batch : Collect!(s)
      BY <1>6 DEF Collect
    <2>1. CASE outcome[s] = "exception"
      BY <2>1 DEF DepsOK
    <2>2. CASE outcome[s] # "exception" /\ Stops(s)
      BY <2>2 DEF Stops, DepsOK, Recorded
    <2>3. CASE outcome[s] # "exception" /\ ~Stops(s)
      BY <2>3 DEF DepsOK, Recorded, Readied
    <2> QED
      BY <2>1, <2>2, <2>3
  <1>7. CASE Join
    BY <1>7 DEF Join
  <1>8. CASE WriteDocument
    BY <1>8 DEF WriteDocument
  <1>9. CASE \E s \in Step : Start(s)
    BY <1>9 DEF Start
  <1>10. CASE \E s \in Step : Finish(s)
    BY <1>10 DEF Finish
  <1>11. CASE Kill
    BY <1>11 DEF Kill
  <1>12. CASE UNCHANGED vars
    BY <1>12 DEF vars
  <1> QED
    BY <1>1, <1>2, <1>3, <1>4, <1>5, <1>6, <1>7, <1>8, <1>9, <1>10, <1>11, <1>12
       DEF Next, Main, Ended

LEMMA BlocksStep == IndInv /\ [Next]_vars => BlocksOK'
  <1> SUFFICES ASSUME IndInv, [Next]_vars PROVE BlocksOK'
    OBVIOUS
  <1> USE DEF IndInv, TypeOK, config, loop, pool, BlocksOK
  <1>1. CASE Reject
    BY <1>1 DEF Reject
  <1>2. CASE Load
    BY <1>2 DEF Load, Loading
  <1>3. CASE Submit
    BY <1>3 DEF Submit
  <1>4. CASE Wait
    BY <1>4 DEF Wait
  <1>5. CASE Leave
    BY <1>5 DEF Leave
  <1>6. CASE Collect
    <2> PICK s \in batch : Collect!(s)
      BY <1>6 DEF Collect
    <2>1. CASE outcome[s] = "exception"
      BY <2>1 DEF DepsOK, OutcomesOK, Stops
    <2>2. CASE outcome[s] # "exception" /\ Stops(s)
      BY <2>2 DEF Stops, DepsOK, OutcomesOK, Stops, Recorded
    <2>3. CASE outcome[s] # "exception" /\ ~Stops(s)
      <3>1. fail_fast => outcome[s] = "ok"
        BY <2>3 DEF OutcomesOK, Stops, Outcomes
      <3>2. ASSUME fail_fast, NEW t \in Step, NEW d \in depends_on[t]
            PROVE  d \in deps'[t] \/ outcome[d] = "ok"
        BY <2>3, <3>1, <3>2
      <3>3. ASSUME fail_fast, NEW t \in Step, t \in ready' \/ thread[t] # "none", NEW d \in depends_on[t]
            PROVE  outcome[d] = "ok"
        <4>1. CASE t \in ready \/ thread[t] # "none"
          BY <3>3, <4>1
        <4>2. CASE t \in Readied(s)
          <5>1. d = s \/ d \notin deps[t]
            BY <4>2 DEF Readied
          <5> QED
            BY <3>1, <3>3, <5>1
        <4> QED
          BY <2>3, <3>3, <4>1, <4>2
      <3>4. UNCHANGED <<fail_fast, depends_on, outcome, thread>>
        BY <2>3
      <3> QED
        BY <3>2, <3>3, <3>4
    <2> QED
      BY <2>1, <2>2, <2>3
  <1>7. CASE Join
    BY <1>7 DEF Join
  <1>8. CASE WriteDocument
    BY <1>8 DEF WriteDocument
  <1>9. CASE \E s \in Step : Start(s)
    BY <1>9 DEF Start
  <1>10. CASE \E s \in Step : Finish(s)
    BY <1>10 DEF Finish, OutcomesOK
  <1>11. CASE Kill
    BY <1>11 DEF Kill
  <1>12. CASE UNCHANGED vars
    BY <1>12 DEF vars
  <1> QED
    BY <1>1, <1>2, <1>3, <1>4, <1>5, <1>6, <1>7, <1>8, <1>9, <1>10, <1>11, <1>12
       DEF Next, Main, Ended

LEMMA CompleteStep == IndInv /\ [Next]_vars => Complete'
  <1> SUFFICES ASSUME IndInv, [Next]_vars PROVE Complete'
    OBVIOUS
  <1> USE DEF IndInv, TypeOK, config, loop, pool, Complete, Scheduling, Dropped
  <1>1. CASE Reject
    BY <1>1 DEF Reject
  <1>2. CASE Load
    BY <1>2 DEF Load, Loading
  <1>3. CASE Submit
    BY <1>3 DEF Submit
  <1>4. CASE Wait
    BY <1>4 DEF Wait
  <1>5. CASE Leave
    BY <1>5 DEF Leave
  <1>6. CASE Collect
    <2> PICK s \in batch : Collect!(s)
      BY <1>6 DEF Collect
    <2>1. CASE outcome[s] = "exception"
      BY <2>1 DEF DepsOK, OutcomesOK, Stops
    <2>2. CASE outcome[s] # "exception" /\ Stops(s)
      BY <2>2 DEF Stops, DepsOK, OutcomesOK, Stops, Recorded
    <2>3. CASE outcome[s] # "exception" /\ ~Stops(s)
      BY <2>3 DEF DepsOK, OutcomesOK, Stops, Recorded, Readied
    <2> QED
      BY <2>1, <2>2, <2>3
  <1>7. CASE Join
    BY <1>7 DEF Join
  <1>8. CASE WriteDocument
    BY <1>8 DEF WriteDocument
  <1>9. CASE \E s \in Step : Start(s)
    BY <1>9 DEF Start
  <1>10. CASE \E s \in Step : Finish(s)
    BY <1>10 DEF Finish, OutcomesOK
  <1>11. CASE Kill
    BY <1>11 DEF Kill
  <1>12. CASE UNCHANGED vars
    BY <1>12 DEF vars
  <1> QED
    BY <1>1, <1>2, <1>3, <1>4, <1>5, <1>6, <1>7, <1>8, <1>9, <1>10, <1>11, <1>12
       DEF Next, Main, Ended

LEMMA ReasonedStep == IndInv /\ [Next]_vars => Reasoned'
  <1> SUFFICES ASSUME IndInv, [Next]_vars PROVE Reasoned'
    OBVIOUS
  <1> USE DEF IndInv, TypeOK, config, loop, pool, Reasoned, Dropped
  <1>1. CASE Reject
    BY <1>1 DEF Reject
  <1>2. CASE Load
    BY <1>2 DEF Load
  <1>3. CASE Submit
    BY <1>3 DEF Submit
  <1>4. CASE Wait
    BY <1>4 DEF Wait
  <1>5. CASE Leave
    <2>1. CASE ~Unfinished
      BY <1>5, <2>1 DEF Leave, Unfinished
    <2>2. CASE Dropped
      BY <1>5, <2>2 DEF Leave
    <2>3. CASE Unfinished /\ ~Dropped
      <3>1. futures = {} /\ ready = {} /\ Scheduling
        BY <1>5, <2>3 DEF Leave, Scheduling
      <3>2. Complete /\ DepsOK /\ Acyclic(depends_on)
        BY <3>1 DEF AcyclicOnceLoaded
      <3>3. PICK s \in Step \ results : depends_on[s] \cap (Step \ results) = {}
        <4>1. Step \ results # {} /\ (Step \ results) \in SUBSET Step
          BY <2>3 DEF Unfinished
        <4> QED
          BY <3>2, <4>1 DEF Acyclic
      <3>4. deps[s] = {}
        <4>1. \A d \in deps[s] : d \in depends_on[s] /\ d \notin results /\ d \in Step
          BY <2>3, <3>1, <3>2 DEF Complete, DepsOK
        <4> QED
          BY <3>3, <4>1
      <3> QED
        BY <2>3, <3>1, <3>2, <3>3, <3>4 DEF Complete
    <2> QED
      BY <2>1, <2>2, <2>3
  <1>6. CASE Collect
    <2> PICK s \in batch : Collect!(s)
      BY <1>6 DEF Collect
    <2>1. CASE outcome[s] = "exception"
      BY <2>1 DEF Counted
    <2>2. CASE outcome[s] # "exception" /\ Stops(s)
      BY <2>2 DEF Stops, Counted, Recorded
    <2>3. CASE outcome[s] # "exception" /\ ~Stops(s)
      BY <2>3 DEF Counted, Recorded, Readied
    <2> QED
      BY <2>1, <2>2, <2>3
  <1>7. CASE Join
    BY <1>7 DEF Join
  <1>8. CASE WriteDocument
    BY <1>8 DEF WriteDocument, Counted
  <1>9. CASE \E s \in Step : Start(s)
    BY <1>9 DEF Start
  <1>10. CASE \E s \in Step : Finish(s)
    BY <1>10 DEF Finish, OutcomesOK
  <1>11. CASE Kill
    BY <1>11 DEF Kill
  <1>12. CASE UNCHANGED vars
    BY <1>12 DEF vars
  <1> QED
    BY <1>1, <1>2, <1>3, <1>4, <1>5, <1>6, <1>7, <1>8, <1>9, <1>10, <1>11, <1>12
       DEF Next, Main, Ended

-----------------------------------------------------------------------------
LEMMA Invariance == Spec => []IndInv
  <1>1. IndInv /\ [Next]_vars => IndInv'
    BY TypesStep, SmallStep, OutcomesStep, TrackedStep, DepsStep, FirstStep, BlocksStep,
       CompleteStep, ReasonedStep DEF IndInv
  <1> QED
    BY InitIndInv, <1>1, PTL DEF Spec

(* Every variable of run_workflow keeps its type, and what is waited for   *)
(* is pending.                                                             *)
THEOREM TypesHold == Spec => []TypeOK
  BY Invariance, PTL DEF IndInv

(* A step is ready or in the pool only when each step it depends on has a  *)
(* result, whatever fails.                                                 *)
THEOREM DependenciesComeFirst == Spec => []DependenciesFirst
  BY Invariance, PTL DEF IndInv

(* Under --fail-fast nothing that depends on a failed step is started.     *)
THEOREM FailuresBlock == Spec => []FailureBlocks
  <1>1. IndInv => FailureBlocks
    BY DEF IndInv, BlocksOK, FailureBlocks
  <1> QED
    BY <1>1, Invariance, PTL

(* A run whose loop ends has a result of every step, unless --fail-fast    *)
(* and a failure on record explain the missing ones.  On an acyclic graph  *)
(* a step that is not done has a step before it that could run.            *)
THEOREM NothingIsDropped == Spec => []NothingDropped
  <1>1. IndInv => NothingDropped
    BY DEF IndInv, Reasoned, Dropped, NothingDropped
  <1> QED
    BY <1>1, Invariance, PTL

(* The status on record is ok only if every step ran and was ok.           *)
THEOREM HonestStatus == Spec => []StatusIsHonest
  <1>1. IndInv => StatusIsHonest
    <2> SUFFICES ASSUME IndInv, Exists("results"), Status = "ok"
                 PROVE  results = Step /\ \A s \in Step : outcome[s] = "ok"
      BY DEF StatusIsHonest
    <2>1. written > 0
      BY DEF Exists, IndInv, TypeOK
    <2>2. \A s \in results : outcome[s] = "ok"
      BY DEF Status
    <2> QED
      BY <2>1, <2>2 DEF IndInv, Reasoned, Dropped
  <1> QED
    BY <1>1, Invariance, PTL

(* What list_runs shows, load_run can load, after a kill as well.          *)
THEOREM ListedRunsLoad == Spec => []ListedIsLoadable
  <1>1. IndInv => ListedIsLoadable
    BY DEF IndInv, TypeOK, ListedIsLoadable, Exists, Documents
  <1> QED
    BY <1>1, Invariance, PTL
=============================================================================
