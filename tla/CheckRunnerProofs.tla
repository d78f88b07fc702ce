-------------------------- MODULE CheckRunnerProofs -------------------------
(***************************************************************************)
(* Proofs about CheckRunner for every registry, plan and worker limit.     *)
(* IndInv strengthens the invariants the runs check: it says how           *)
(* pending_ids, futures, completed and the pool threads partition the      *)
(* selected checks, and what a pass knows of the items behind it.          *)
(* The second half proves the planner that makes the plans (Planning), and *)
(* that what it makes is what the first half asks of a plan.               *)
(***************************************************************************)
EXTENDS CheckRunner, Planning, FiniteSetTheorems, TLAPS

(* A selected check is pending, in flight, or recorded; a thread that has   *)
(* been collected is recorded with the status it returned.                  *)
Partition ==
  /\ \A c \in pending_ids : result[c] = "none" /\ completed[c] = "none"
  /\ \A c \in futures : result[c] # "none" /\ completed[c] = "none"
  /\ \A c \in Selected : c \in pending_ids \/ c \in futures \/ completed[c] # "none"
  /\ \A c \in CheckId : result[c] # "none" => c \in Selected
  /\ \A c \in CheckId : result[c] # "none" /\ c \notin futures => completed[c] = result[c]
  /\ \A c \in CheckId : result[c] = "running" => c \in futures
  /\ \A c \in plan.skipped : completed[c] # "none"

(* A record without a thread is a skip; for a selected check, because a     *)
(* dependency failed or was skipped.                                        *)
SkipsAreJustified ==
  \A c \in CheckId : completed[c] # "none" /\ result[c] = "none" =>
    /\ completed[c] = "skipped"
    /\ c \in Selected => BlockedBy(c) # {}

(* Before anything may be submitted there is room in the pool and no        *)
(* exclusive check in flight.                                               *)
PoolDiscipline ==
  /\ Cardinality(futures) <= workers
  /\ \A c \in futures : c \notin plan.parallel_safe => futures = {c}
  /\ pc \in {"head", "scan"} => /\ Cardinality(futures) < workers
                                /\ futures \subseteq plan.parallel_safe

(* A pass that has changed nothing, with nothing in flight, has no pending  *)
(* item behind it.                                                          *)
PassKnowledge ==
  TopologicallyOrdered(plan) =>
    /\ pc = "scan" /\ ~progressed /\ futures = {} =>
         \A i \in DOMAIN plan.selected : i < pos => plan.selected[i] \notin pending_ids
    /\ pc = "settle" /\ ~progressed /\ futures = {} => pending_ids = {}
    /\ pc \in {"report", "done"} => pending_ids = {}

Outcome ==
  /\ pc \in {"report", "done"} => futures = {}
  /\ pc = "done" => verdict = FinalVerdict

IndInv ==
  /\ TypeOK
  /\ Partition
  /\ StartedAfterDependencies
  /\ SkipsAreJustified
  /\ PoolDiscipline
  /\ PassKnowledge
  /\ Outcome

----------------------------------------------------------------------------
USE DEF Statuses, Profiles

(* A pool always has at least one worker. *)
LEMMA SelectWorkersPositive ==
  ASSUME NEW p, NEW limit \in Int, IsPlan(p)
  PROVE  SelectWorkers(p, limit) \in Nat \ {0}
<1> DEFINE safe == {i \in DOMAIN p.selected : p.selected[i] \in p.parallel_safe}
<1>1. Len(p.selected) \in Nat /\ DOMAIN p.selected = 1..Len(p.selected)
  BY DEF IsPlan
<1>2. IsFiniteSet(safe)
  <2>1. IsFiniteSet(1..Len(p.selected))
    BY <1>1, FS_Interval, 1 \in Int
  <2>2. safe \subseteq 1..Len(p.selected)
    BY <1>1
  <2> QED
    BY <2>1, <2>2, FS_Subset
<1>3. Cardinality(safe) \in Nat
  BY <1>2, FS_CardinalityType
<1> QED
  BY <1>3 DEF SelectWorkers

LEMMA InitImpliesIndInv == Init => IndInv
<1> SUFFICES ASSUME Init PROVE IndInv
  OBVIOUS
<1>1. IsPlan(plan)
  BY PlansAssumption DEF Init
<1>2. workers \in Nat \ {0}
  BY <1>1, SelectWorkersPositive, WorkerLimitsAssumption DEF Init
<1>3. TypeOK
  <2>1. Selected \subseteq CheckId /\ Len(plan.selected) \in Nat
    BY <1>1 DEF IsPlan, Selected
  <2>2. completed \in [CheckId -> Statuses \cup {"none"}]
    BY DEF Init
  <2>3. result \in [CheckId -> Statuses \cup {"none", "running", "raised"}]
        /\ attempts \in [CheckId -> Nat]
    BY DEF Init
  <2>4. verdict \in Verdicts
    BY DEF Init, NoVerdict, Verdicts
  <2>5. pos \in 1..(Len(plan.selected) + 1)
    BY <2>1 DEF Init
  <2>6. pending_ids \subseteq Selected /\ futures \subseteq Selected
    BY DEF Init
  <2>7. progressed \in BOOLEAN
        /\ pc \in {"head", "scan", "settle", "wait", "unwind", "report", "done", "aborted"}
    BY DEF Init
  <2> QED
    BY <1>1, <1>2, <2>2, <2>3, <2>4, <2>5, <2>6, <2>7 DEF TypeOK
<1>4. Partition
  BY <1>1 DEF Init, Partition, IsPlan, Selected
<1>5. SkipsAreJustified
  BY <1>1 DEF Init, SkipsAreJustified, IsPlan, Selected
<1>6. PoolDiscipline
  BY <1>2, FS_EmptySet DEF Init, PoolDiscipline
<1>7. StartedAfterDependencies /\ PassKnowledge /\ Outcome
  BY DEF Init, StartedAfterDependencies, PassKnowledge, Outcome
<1> QED
  BY <1>3, <1>4, <1>5, <1>6, <1>7 DEF IndInv

----------------------------------------------------------------------------
(* Steps of the main thread that move pc and pos and touch nothing else. *)

(* What such a step cannot disturb. *)
LEMMA BookkeepingUnchanged ==
  ASSUME IndInv,
         UNCHANGED <<plan, workers, pending_ids, futures, completed, verdict, poolVars>>
  PROVE  /\ Partition' /\ StartedAfterDependencies' /\ SkipsAreJustified'
         /\ (Cardinality(futures) <= workers)'
         /\ (\A c \in futures : c \notin plan.parallel_safe => futures = {c})'
         /\ FinalVerdict' = FinalVerdict
         /\ Selected' = Selected
<1>1. Selected' = Selected
  BY DEF Selected
<1>2. \A c : BlockedBy(c)' = BlockedBy(c)
  BY DEF BlockedBy
<1>3. Partition'
  BY <1>1 DEF IndInv, Partition, poolVars
<1>4. StartedAfterDependencies'
  BY DEF IndInv, StartedAfterDependencies, poolVars
<1>5. SkipsAreJustified'
  BY <1>1, <1>2 DEF IndInv, SkipsAreJustified, poolVars
<1>6. FinalVerdict' = FinalVerdict
  BY <1>1 DEF FinalVerdict
<1> QED
  BY <1>1, <1>3, <1>4, <1>5, <1>6 DEF IndInv, PoolDiscipline

(* The length of the plan is a number, and pc and pos stay in their ranges. *)
LEMMA PositionsTyped ==
  ASSUME TypeOK PROVE Len(plan.selected) \in Nat
                      /\ DOMAIN plan.selected = 1..Len(plan.selected)
                      /\ Selected \subseteq CheckId
<1>1. plan.selected \in Seq(CheckId)
  BY DEF TypeOK, IsPlan
<1> QED
  BY <1>1 DEF Selected

LEMMA TypeOKUnchanged ==
  ASSUME TypeOK,
         UNCHANGED <<plan, workers, pending_ids, futures, completed, verdict, poolVars>>,
         pos' \in 1..(Len(plan.selected) + 1),
         progressed' \in BOOLEAN,
         pc' \in {"head", "scan", "settle", "wait", "unwind", "report", "done", "aborted"}
  PROVE  TypeOK'
<1>1. Selected' = Selected
  BY DEF Selected
<1>2. IsPlan(plan')
  BY DEF TypeOK
<1> QED
  BY <1>1, <1>2 DEF TypeOK, poolVars

LEMMA BeginPassStep == IndInv /\ BeginPass => IndInv'
<1> SUFFICES ASSUME IndInv, BeginPass PROVE IndInv'
  OBVIOUS
<1>0. UNCHANGED <<plan, workers, pending_ids, futures, completed, verdict, poolVars>>
      /\ pc = "head" /\ pc' = "scan" /\ pos' = 1 /\ progressed' = FALSE
  BY DEF BeginPass
<1>1. TypeOK'
  <2>1. 1 \in 1..(Len(plan.selected) + 1)
    BY PositionsTyped DEF IndInv
  <2> QED
    BY <1>0, <2>1, TypeOKUnchanged DEF IndInv
<1>2. PoolDiscipline'
  BY <1>0, BookkeepingUnchanged DEF IndInv, PoolDiscipline
<1>3. PassKnowledge'
  BY <1>0 DEF IndInv, TypeOK, IsPlan, PassKnowledge
<1>4. Outcome'
  BY <1>0 DEF Outcome
<1> QED
  BY <1>0, <1>1, <1>2, <1>3, <1>4, BookkeepingUnchanged DEF IndInv

LEMMA LeaveLoopStep == IndInv /\ LeaveLoop => IndInv'
<1> SUFFICES ASSUME IndInv, LeaveLoop PROVE IndInv'
  OBVIOUS
<1>0. UNCHANGED <<plan, workers, pending_ids, futures, completed, verdict, poolVars>>
      /\ pc = "head" /\ pc' = "report" /\ UNCHANGED <<pos, progressed>>
      /\ pending_ids = {} /\ futures = {}
  BY DEF LeaveLoop
<1>1. TypeOK'
  BY <1>0, TypeOKUnchanged DEF IndInv, TypeOK
<1>2. PoolDiscipline'
  BY <1>0, BookkeepingUnchanged DEF IndInv, PoolDiscipline
<1>3. PassKnowledge'
  BY <1>0 DEF PassKnowledge
<1>4. Outcome'
  BY <1>0 DEF Outcome
<1> QED
  BY <1>0, <1>1, <1>2, <1>3, <1>4, BookkeepingUnchanged DEF IndInv

LEMMA EndPassStep == IndInv /\ EndPass => IndInv'
<1> SUFFICES ASSUME IndInv, EndPass PROVE IndInv'
  OBVIOUS
<1>0. UNCHANGED <<plan, workers, pending_ids, futures, completed, verdict, poolVars>>
      /\ pc = "scan" /\ pc' = "settle" /\ UNCHANGED <<pos, progressed>>
      /\ pos > Len(plan.selected)
  BY DEF EndPass
<1>1. TypeOK'
  BY <1>0, TypeOKUnchanged DEF IndInv, TypeOK
<1>2. PoolDiscipline'
  BY <1>0, BookkeepingUnchanged DEF IndInv, PoolDiscipline
<1>3. PassKnowledge'
  <2>1. \A c \in pending_ids : \E i \in DOMAIN plan.selected : c = plan.selected[i]
    BY DEF IndInv, TypeOK, Selected
  <2>2. \A i \in DOMAIN plan.selected : i < pos
    BY <1>0, PositionsTyped DEF IndInv, TypeOK
  <2> QED
    BY <1>0, <2>1, <2>2 DEF IndInv, PassKnowledge
<1>4. Outcome'
  BY <1>0 DEF Outcome
<1> QED
  BY <1>0, <1>1, <1>2, <1>3, <1>4, BookkeepingUnchanged DEF IndInv

LEMMA SettleStep == IndInv /\ Settle => IndInv'
<1> SUFFICES ASSUME IndInv, Settle PROVE IndInv'
  OBVIOUS
<1>0. UNCHANGED <<plan, workers, pending_ids, futures, completed, verdict, poolVars>>
      /\ pc = "settle" /\ UNCHANGED <<pos, progressed>>
      /\ pc' \in {"wait", "head", "report"}
      /\ (futures # {} => pc' = "wait")
      /\ (futures = {} => pc' # "wait")
      /\ (pc' = "report" => futures = {} /\ ~progressed)
  BY DEF Settle
<1>1. TypeOK'
  BY <1>0, TypeOKUnchanged DEF IndInv, TypeOK
<1>2. PoolDiscipline'
  <2>1. futures = {} => Cardinality(futures) < workers
    BY FS_EmptySet DEF IndInv, TypeOK
  <2> QED
    BY <1>0, <2>1, BookkeepingUnchanged DEF IndInv, PoolDiscipline
<1>3. PassKnowledge'
  BY <1>0 DEF IndInv, PassKnowledge
<1>4. Outcome'
  BY <1>0 DEF Outcome
<1> QED
  BY <1>0, <1>1, <1>2, <1>3, <1>4, BookkeepingUnchanged DEF IndInv

LEMMA CollectRaisedStep == IndInv /\ CollectRaised => IndInv'
<1> SUFFICES ASSUME IndInv, CollectRaised PROVE IndInv'
  OBVIOUS
<1>0. UNCHANGED <<plan, workers, pending_ids, futures, completed, verdict, poolVars>>
      /\ pc = "wait" /\ pc' = "unwind" /\ UNCHANGED <<pos, progressed>>
  BY DEF CollectRaised
<1>1. TypeOK'
  BY <1>0, TypeOKUnchanged DEF IndInv, TypeOK
<1>2. PoolDiscipline'
  BY <1>0, BookkeepingUnchanged DEF IndInv, PoolDiscipline
<1>3. PassKnowledge'
  BY <1>0 DEF PassKnowledge
<1>4. Outcome'
  BY <1>0 DEF Outcome
<1> QED
  BY <1>0, <1>1, <1>2, <1>3, <1>4, BookkeepingUnchanged DEF IndInv

LEMMA UnwindStep == IndInv /\ Unwind => IndInv'
<1> SUFFICES ASSUME IndInv, Unwind PROVE IndInv'
  OBVIOUS
<1>0. UNCHANGED <<plan, workers, pending_ids, futures, completed, verdict, poolVars>>
      /\ pc = "unwind" /\ pc' = "aborted" /\ UNCHANGED <<pos, progressed>>
  BY DEF Unwind
<1>1. TypeOK'
  BY <1>0, TypeOKUnchanged DEF IndInv, TypeOK
<1>2. PoolDiscipline'
  BY <1>0, BookkeepingUnchanged DEF IndInv, PoolDiscipline
<1>3. PassKnowledge'
  BY <1>0 DEF PassKnowledge
<1>4. Outcome'
  BY <1>0 DEF Outcome
<1> QED
  BY <1>0, <1>1, <1>2, <1>3, <1>4, BookkeepingUnchanged DEF IndInv

(* An item passed over while nothing is in flight and nothing has changed   *)
(* is no longer pending: in plan order its dependencies are behind it.      *)
LEMMA PassOverStep == IndInv /\ PassOver => IndInv'
<1> SUFFICES ASSUME IndInv, PassOver PROVE IndInv'
  OBVIOUS
<1>0. UNCHANGED <<plan, workers, pending_ids, futures, completed, verdict, poolVars>>
      /\ pc = "scan" /\ pc' = "scan" /\ pos' = pos + 1 /\ UNCHANGED progressed
      /\ pos <= Len(plan.selected)
  BY DEF PassOver
<1>1. TypeOK'
  <2>1. pos + 1 \in 1..(Len(plan.selected) + 1)
    BY <1>0, PositionsTyped DEF IndInv, TypeOK
  <2> QED
    BY <1>0, <2>1, TypeOKUnchanged DEF IndInv, TypeOK
<1>2. PoolDiscipline'
  BY <1>0, BookkeepingUnchanged DEF IndInv, PoolDiscipline
<1>3. PassKnowledge'
  <2> SUFFICES ASSUME TopologicallyOrdered(plan), ~progressed, futures = {}
               PROVE  \A i \in DOMAIN plan.selected :
                        i < pos + 1 => plan.selected[i] \notin pending_ids
    BY <1>0 DEF PassKnowledge
  <2>1. \A i \in DOMAIN plan.selected : i < pos => plan.selected[i] \notin pending_ids
    BY <1>0 DEF IndInv, PassKnowledge
  <2>2. pos \in DOMAIN plan.selected
    BY <1>0, PositionsTyped DEF IndInv, TypeOK
  <2>3. \A d \in plan.dependencies[Item] : completed[d] # "none"
    <3> SUFFICES ASSUME NEW d \in plan.dependencies[Item] PROVE completed[d] # "none"
      OBVIOUS
    <3>1. CASE d \in plan.skipped
      BY <3>1 DEF IndInv, Partition
    <3>2. CASE \E j \in DOMAIN plan.selected : j < pos /\ plan.selected[j] = d
      <4>1. PICK j \in DOMAIN plan.selected : j < pos /\ plan.selected[j] = d
        BY <3>2
      <4>2. d \in Selected /\ d \notin pending_ids
        BY <4>1, <2>1 DEF Selected
      <4> QED
        BY <4>2 DEF IndInv, Partition
    <3> QED
      BY <2>2, <3>1, <3>2 DEF TopologicallyOrdered, Item
  <2>4. Item \notin pending_ids
    BY <2>3 DEF PassOver, Unmet, MustWait, IndInv, Partition
  <2>5. \A i \in DOMAIN plan.selected : i < pos + 1 => i < pos \/ i = pos
    BY PositionsTyped DEF IndInv, TypeOK
  <2> QED
    BY <2>1, <2>4, <2>5 DEF Item
<1>4. Outcome'
  BY <1>0 DEF Outcome
<1> QED
  BY <1>0, <1>1, <1>2, <1>3, <1>4, BookkeepingUnchanged DEF IndInv

----------------------------------------------------------------------------
(* Steps that change the books. *)

LEMMA SkipBlockedStep == IndInv /\ SkipBlocked => IndInv'
<1> SUFFICES ASSUME IndInv, SkipBlocked PROVE IndInv'
  OBVIOUS
<1>0. PICK c \in CheckId :
        /\ pc = "scan" /\ pos <= Len(plan.selected) /\ c = Item
        /\ c \in pending_ids /\ c \notin futures /\ completed[c] = "none"
        /\ BlockedBy(c) # {}
        /\ completed' = [completed EXCEPT ![c] = "skipped"]
        /\ pending_ids' = pending_ids \ {c}
        /\ progressed' = TRUE /\ pos' = pos + 1
        /\ UNCHANGED <<plan, workers, futures, pc, verdict, result, attempts>>
  BY DEF SkipBlocked, Considered, poolVars
<1> Selected' = Selected
  BY <1>0 DEF Selected
<1>1. TypeOK'
  <2>1. pos + 1 \in 1..(Len(plan.selected) + 1)
    BY <1>0, PositionsTyped DEF IndInv, TypeOK
  <2>2. IsPlan(plan')
    BY <1>0 DEF IndInv, TypeOK
  <2> QED
    BY <1>0, <2>1, <2>2 DEF IndInv, TypeOK
<1>2. \A d \in CheckId : completed[d] # "none" => completed'[d] = completed[d]
  BY <1>0 DEF IndInv, TypeOK
<1>3. Partition'
  BY <1>0 DEF IndInv, TypeOK, Partition
<1>4. StartedAfterDependencies'
  <2>1. \A d : completed[d] = "passed" => completed'[d] = "passed"
    BY <1>0 DEF IndInv, TypeOK
  <2> QED
    BY <1>0, <2>1 DEF IndInv, StartedAfterDependencies
<1>5. SkipsAreJustified'
  <2>1. \A e \in CheckId : BlockedBy(e) # {} => BlockedBy(e)' # {}
    <3> SUFFICES ASSUME NEW e \in CheckId, NEW d \in BlockedBy(e)
                 PROVE  d \in BlockedBy(e)'
      OBVIOUS
    <3> QED
      BY <1>0 DEF IndInv, TypeOK, BlockedBy
  <2> QED
    BY <1>0, <2>1 DEF IndInv, TypeOK, SkipsAreJustified
<1>6. PoolDiscipline'
  BY <1>0 DEF IndInv, PoolDiscipline
<1>7. PassKnowledge' /\ Outcome'
  BY <1>0 DEF PassKnowledge, Outcome
<1> QED
  BY <1>1, <1>3, <1>4, <1>5, <1>6, <1>7 DEF IndInv

(* The futures are finitely many, one more when a new check is submitted. *)
LEMMA FuturesFinite ==
  ASSUME IndInv
  PROVE  /\ IsFiniteSet(futures) /\ Cardinality(futures) \in Nat
         /\ \A c \in CheckId : c \notin futures =>
              Cardinality(futures \cup {c}) = Cardinality(futures) + 1
<1>1. futures \subseteq CheckId
  BY PositionsTyped DEF IndInv, TypeOK
<1>2. IsFiniteSet(futures)
  BY <1>1, CheckIdAssumption, FS_Subset
<1> QED
  BY <1>2, FS_CardinalityType, FS_AddElement

LEMMA SubmitStep == IndInv /\ Submit => IndInv'
<1> SUFFICES ASSUME IndInv, Submit PROVE IndInv'
  OBVIOUS
<1>0. PICK c \in CheckId :
        /\ pc = "scan" /\ pos <= Len(plan.selected) /\ c = Item
        /\ c \in pending_ids /\ c \notin futures /\ completed[c] = "none"
        /\ ~Unmet(c) /\ BlockedBy(c) = {} /\ ~MustWait(c)
        /\ futures' = futures \cup {c}
        /\ result' = [result EXCEPT ![c] = "running"]
        /\ pending_ids' = pending_ids \ {c}
        /\ progressed' = TRUE /\ pos' = pos + 1
        /\ pc' = IF EndsPass(c) THEN "settle" ELSE "scan"
        /\ UNCHANGED <<plan, workers, completed, verdict, attempts>>
  BY DEF Submit, Considered
<1> Selected' = Selected
  BY <1>0 DEF Selected
<1>1. TypeOK'
  <2>1. pos + 1 \in 1..(Len(plan.selected) + 1)
    BY <1>0, PositionsTyped DEF IndInv, TypeOK
  <2>2. IsPlan(plan')
    BY <1>0 DEF IndInv, TypeOK
  <2> QED
    BY <1>0, <2>1, <2>2 DEF IndInv, TypeOK
<1>2. Partition'
  BY <1>0 DEF IndInv, TypeOK, Partition
<1>3. \A d \in plan.dependencies[c] : completed[d] = "passed"
  <2>1. plan.dependencies[c] \subseteq CheckId
    BY DEF IndInv, TypeOK, IsPlan
  <2> QED
    BY <1>0, <2>1 DEF IndInv, TypeOK, Unmet, BlockedBy
<1>4. StartedAfterDependencies'
  BY <1>0, <1>3 DEF IndInv, TypeOK, StartedAfterDependencies
<1>5. SkipsAreJustified'
  BY <1>0 DEF IndInv, TypeOK, SkipsAreJustified, BlockedBy
<1>6. PoolDiscipline'
  <2>1. Cardinality(futures') = Cardinality(futures) + 1
    BY <1>0, FuturesFinite
  <2>2. Cardinality(futures') <= workers
    BY <1>0, <2>1, FuturesFinite DEF IndInv, TypeOK, PoolDiscipline
  <2>3. \A f \in futures' : f \notin plan.parallel_safe => futures' = {f}
    BY <1>0 DEF MustWait, IndInv, PoolDiscipline
  <2>4. pc' = "scan" => Cardinality(futures') < workers /\ futures' \subseteq plan.parallel_safe
    BY <1>0, <2>1, FuturesFinite DEF EndsPass, IndInv, TypeOK, PoolDiscipline
  <2> QED
    BY <1>0, <2>2, <2>3, <2>4 DEF PoolDiscipline
<1>7. PassKnowledge' /\ Outcome'
  BY <1>0 DEF PassKnowledge, Outcome
<1> QED
  BY <1>1, <1>2, <1>4, <1>5, <1>6, <1>7 DEF IndInv

LEMMA CollectStep == IndInv /\ Collect => IndInv'
<1> SUFFICES ASSUME IndInv, Collect PROVE IndInv'
  OBVIOUS
<1>0. /\ pc = "wait" /\ pc' = "head"
      /\ Finished # {} /\ Finished \subseteq futures
      /\ \A c \in Finished : result[c] \notin {"raised", "running"}
      /\ completed' = [c \in CheckId |-> IF c \in Finished THEN result[c] ELSE completed[c]]
      /\ futures' = futures \ Finished
      /\ UNCHANGED <<plan, workers, pending_ids, pos, progressed, verdict, result, attempts>>
  BY DEF Collect, Finished, poolVars
<1> Selected' = Selected
  BY <1>0 DEF Selected
<1>a. \A c \in Finished : c \in CheckId /\ completed[c] = "none"
                          /\ result[c] \in Statuses
  BY <1>0, PositionsTyped DEF IndInv, TypeOK, Partition
<1>b. \A c \in futures \ Finished : result[c] = "running"
  BY DEF Finished
<1>1. TypeOK'
  <2>1. IsPlan(plan')
    BY <1>0 DEF IndInv, TypeOK
  <2>2. completed' \in [CheckId -> Statuses \cup {"none"}]
    BY <1>0, <1>a DEF IndInv, TypeOK
  <2> QED
    BY <1>0, <2>1, <2>2 DEF IndInv, TypeOK
<1>2. Partition'
  <2>1. plan.skipped \subseteq CheckId
    BY DEF IndInv, TypeOK, IsPlan
  <2> QED
    BY <1>0, <1>a, <1>b, <2>1, PositionsTyped DEF IndInv, TypeOK, Partition
<1>3. StartedAfterDependencies'
  <2>1. \A d \in CheckId : completed[d] = "passed" => completed'[d] = "passed"
    BY <1>0, <1>a
  <2>2. \A c \in CheckId : plan.dependencies[c] \subseteq CheckId
    BY DEF IndInv, TypeOK, IsPlan
  <2> QED
    BY <1>0, <2>1, <2>2 DEF IndInv, StartedAfterDependencies
<1>4. SkipsAreJustified'
  <2>1. \A e \in CheckId : BlockedBy(e) # {} => BlockedBy(e)' # {}
    <3> SUFFICES ASSUME NEW e \in CheckId, NEW d \in BlockedBy(e)
                 PROVE  d \in BlockedBy(e)'
      OBVIOUS
    <3>1. d \in CheckId
      BY DEF IndInv, TypeOK, IsPlan, BlockedBy
    <3> QED
      BY <1>0, <1>a, <3>1 DEF BlockedBy
  <2>2. \A c \in Finished : result[c] # "none"
    BY <1>0 DEF IndInv, Partition
  <2> QED
    BY <1>0, <2>1, <2>2 DEF IndInv, SkipsAreJustified
<1>5. PoolDiscipline'
  <2>1. IsFiniteSet(futures) /\ Cardinality(futures) \in Nat
    BY FuturesFinite
  <2>2. futures' \subseteq futures /\ futures' # futures
    BY <1>0
  <2>3. Cardinality(futures') < Cardinality(futures) /\ Cardinality(futures') \in Nat
    BY <2>1, <2>2, FS_Subset, FS_CardinalityType
  <2>4. futures' \subseteq plan.parallel_safe
    BY <1>0 DEF IndInv, PoolDiscipline
  <2> QED
    BY <1>0, <2>1, <2>3, <2>4 DEF IndInv, TypeOK, PoolDiscipline
<1>6. PassKnowledge' /\ Outcome'
  BY <1>0 DEF PassKnowledge, Outcome
<1> QED
  BY <1>1, <1>2, <1>3, <1>4, <1>5, <1>6 DEF IndInv

LEMMA ReportStep == IndInv /\ Report => IndInv'
<1> SUFFICES ASSUME IndInv, Report PROVE IndInv'
  OBVIOUS
<1>0. /\ pc = "report" /\ pc' = "done" /\ verdict' = FinalVerdict
      /\ UNCHANGED <<plan, workers, pending_ids, futures, completed, pos, progressed,
                     result, attempts>>
  BY DEF Report, poolVars
<1> Selected' = Selected
  BY <1>0 DEF Selected
<1>1. TypeOK'
  <2>1. IsPlan(plan')
    BY <1>0 DEF IndInv, TypeOK
  <2>2. FinalVerdict \in Verdicts
    BY DEF FinalVerdict, Verdicts, Recommendations
  <2> QED
    BY <1>0, <2>1, <2>2 DEF IndInv, TypeOK
<1>2. Partition'
  BY <1>0 DEF IndInv, Partition
<1>3. StartedAfterDependencies' /\ SkipsAreJustified'
  BY <1>0 DEF IndInv, StartedAfterDependencies, SkipsAreJustified, BlockedBy
<1>4. PoolDiscipline' /\ PassKnowledge'
  BY <1>0 DEF IndInv, PoolDiscipline, PassKnowledge
<1>5. Outcome'
  BY <1>0 DEF IndInv, Outcome, FinalVerdict
<1> QED
  BY <1>1, <1>2, <1>3, <1>4, <1>5 DEF IndInv

(* A pool thread changes only what it returns and how often it has tried. *)
LEMMA PoolThreadStep ==
  ASSUME IndInv, NEW c \in CheckId, PoolThread(c) PROVE IndInv'
<1>0. PICK status \in Statuses \cup {"running", "raised"} :
        /\ result[c] = "running"
        /\ result' = [result EXCEPT ![c] = status]
        /\ UNCHANGED <<plan, workers, pending_ids, futures, completed, pos, progressed,
                       pc, verdict>>
  BY DEF PoolThread, CacheHit, NotRunnable, Attempt, Raise, Return, mainVars
<1>1. attempts' \in [CheckId -> Nat]
  BY DEF IndInv, TypeOK, PoolThread, CacheHit, NotRunnable, Attempt, Raise
<1> Selected' = Selected
  BY <1>0 DEF Selected
<1>2. TypeOK'
  <2>1. IsPlan(plan')
    BY <1>0 DEF IndInv, TypeOK
  <2> QED
    BY <1>0, <1>1, <2>1 DEF IndInv, TypeOK
<1>3. c \in futures /\ result'[c] # "none" /\ \A e \in CheckId : e # c => result'[e] = result[e]
  BY <1>0 DEF IndInv, TypeOK, Partition
<1>4. Partition'
  BY <1>0, <1>3, PositionsTyped DEF IndInv, TypeOK, Partition
<1>5. StartedAfterDependencies'
  BY <1>0, <1>3 DEF IndInv, StartedAfterDependencies
<1>6. SkipsAreJustified'
  BY <1>0, <1>3 DEF IndInv, SkipsAreJustified, BlockedBy
<1>7. PoolDiscipline' /\ PassKnowledge'
  BY <1>0 DEF IndInv, PoolDiscipline, PassKnowledge
<1>8. Outcome'
  BY <1>0 DEF IndInv, Outcome, FinalVerdict
<1> QED
  BY <1>2, <1>4, <1>5, <1>6, <1>7, <1>8 DEF IndInv

----------------------------------------------------------------------------
LEMMA StutterStep == IndInv /\ UNCHANGED vars => IndInv'
<1> SUFFICES ASSUME IndInv, UNCHANGED vars PROVE IndInv'
  OBVIOUS
<1>0. UNCHANGED <<plan, workers, pending_ids, futures, completed, verdict, poolVars>>
      /\ UNCHANGED <<pos, progressed, pc>>
  BY DEF vars, mainVars
<1>1. TypeOK'
  BY <1>0, TypeOKUnchanged DEF IndInv, TypeOK
<1>2. PoolDiscipline' /\ PassKnowledge' /\ Outcome'
  BY <1>0, BookkeepingUnchanged DEF IndInv, PoolDiscipline, PassKnowledge, Outcome
<1> QED
  BY <1>0, <1>1, <1>2, BookkeepingUnchanged DEF IndInv

(* IndInv is inductive: it holds initially and every step keeps it. *)
THEOREM Inductive == Spec => []IndInv
<1>1. IndInv /\ [Next]_vars => IndInv'
  <2> SUFFICES ASSUME IndInv, [Next]_vars PROVE IndInv'
    OBVIOUS
  <2>1. CASE Main
    BY <2>1, BeginPassStep, LeaveLoopStep, PassOverStep, SkipBlockedStep, SubmitStep,
       EndPassStep, SettleStep, CollectStep, CollectRaisedStep, UnwindStep, ReportStep
       DEF Main
  <2>2. CASE \E c \in CheckId : PoolThread(c)
    BY <2>2, PoolThreadStep
  <2>3. CASE UNCHANGED vars
    BY <2>3, StutterStep
  <2> QED
    BY <2>1, <2>2, <2>3 DEF Next, Terminated
<1> QED
  BY <1>1, InitImpliesIndInv, PTL DEF Spec

(* The variables of runner.run stay within their types. *)
THEOREM TypeCorrect == Spec => []TypeOK
<1>1. IndInv => TypeOK
  BY DEF IndInv
<1> QED
  BY <1>1, Inductive, PTL

(* No check is started before all of its dependencies have passed. *)
THEOREM DependencyOrder == Spec => []StartedAfterDependencies
<1>1. IndInv => StartedAfterDependencies
  BY DEF IndInv
<1> QED
  BY <1>1, Inductive, PTL

(* Checks that are not parallel safe run alone, and the running ones never  *)
(* exceed the pool.                                                         *)
THEOREM PoolBound == Spec => []BoundedAndExclusive
<1>1. IndInv => BoundedAndExclusive
  <2> SUFFICES ASSUME IndInv PROVE BoundedAndExclusive
    OBVIOUS
  <2>1. Running \subseteq futures
    BY DEF IndInv, Partition, Running
  <2>2. Cardinality(Running) <= Cardinality(futures) /\ Cardinality(Running) \in Nat
    BY <2>1, FuturesFinite, FS_Subset, FS_CardinalityType
  <2>3. Cardinality(Running) <= workers
    BY <2>2, FuturesFinite DEF IndInv, TypeOK, PoolDiscipline
  <2>4. \A c \in Running : c \notin plan.parallel_safe => Running = {c}
    BY <2>1 DEF IndInv, PoolDiscipline
  <2> QED
    BY <2>3, <2>4 DEF BoundedAndExclusive
<1> QED
  BY <1>1, Inductive, PTL

(* On every plan in dependency order the scheduler drops nothing: each      *)
(* selected check is recorded, and ran exactly when its dependencies passed.*)
THEOREM CompleteReport == Spec => []ReportIsComplete
<1>1. IndInv => ReportIsComplete
  <2> SUFFICES ASSUME IndInv, pc = "done", TopologicallyOrdered(plan),
                      NEW c \in Selected
               PROVE  /\ completed[c] # "none"
                      /\ result[c] # "none" <=>
                           \A d \in plan.dependencies[c] : completed[d] = "passed"
    BY DEF ReportIsComplete
  <2>1. pending_ids = {} /\ futures = {} /\ c \in CheckId
    BY PositionsTyped DEF IndInv, PassKnowledge, Outcome
  <2>2. completed[c] # "none"
    BY <2>1 DEF IndInv, Partition
  <2>3. result[c] # "none" => \A d \in plan.dependencies[c] : completed[d] = "passed"
    BY <2>1 DEF IndInv, StartedAfterDependencies
  <2>4. result[c] = "none" => \E d \in plan.dependencies[c] : completed[d] # "passed"
    BY <2>1, <2>2 DEF IndInv, SkipsAreJustified, BlockedBy
  <2> QED
    BY <2>2, <2>3, <2>4
<1> QED
  BY <1>1, Inductive, PTL

(* Every result a pool thread returned is in the report the verdict is made *)
(* from, on any plan: ok exactly when no blocking check returned failed.    *)
THEOREM HonestVerdict == Spec => []VerdictSeesEveryResult
<1>1. IndInv => VerdictSeesEveryResult
  <2> SUFFICES ASSUME IndInv, pc = "done" PROVE VerdictSeesEveryResult
    BY DEF VerdictSeesEveryResult
  <2>1. futures = {} /\ verdict = FinalVerdict
    BY DEF IndInv, Outcome
  <2>2. \A c \in CheckId : result[c] # "none" => completed[c] = result[c]
    BY <2>1 DEF IndInv, Partition
  <2>3. \A c \in CheckId : completed[c] = "failed" => result[c] = "failed"
    BY <2>2 DEF IndInv, SkipsAreJustified
  <2>4. \A c \in CheckId : result[c] = "failed" => c \in Selected /\ completed[c] = "failed"
    BY <2>2 DEF IndInv, Partition
  <2>5. plan.blocking \subseteq CheckId /\ plan.skipped \subseteq CheckId
    BY DEF IndInv, TypeOK, IsPlan
  <2>6. verdict.ok <=> {c \in {d \in Selected \cup plan.skipped : completed[d] # "none"} :
                          completed[c] = "failed" /\ c \in plan.blocking} = {}
    BY <2>1 DEF FinalVerdict
  <2>7. verdict.ok <=> ~\E c \in plan.blocking : result[c] = "failed"
    BY <2>3, <2>4, <2>5, <2>6, PositionsTyped DEF IndInv
  <2> QED
    BY <2>2, <2>7 DEF VerdictSeesEveryResult
<1> QED
  BY <1>1, Inductive, PTL

-----------------------------------------------------------------------------
(***************************************************************************)
(* The planner that makes these plans: proofs about Planning, for every    *)
(* registry and request.  DfsInv says how the stack of calls, the checks   *)
(* seen and those placed relate: what is seen is placed or on the stack,   *)
(* the stack is a path of dependencies, and everything seen or due belongs *)
(* to every closed set.  A check is placed when all its dependencies are   *)
(* seen; one of them that is still on the stack closes a cycle.            *)
(***************************************************************************)
SetOf(s) == ToSet(s)
Requires(reg, c) == SetOf(reg.dependencies[c])
Requested(reg, req) == SetOf(RequestedIds(reg, req))
Depth(w) == Len(w.calls)

Call == [of : CheckId \cup {"requested_ids"}, left : Seq(CheckId)]

Work == [at : {"visit", "items", "KeyError"}, calls : Seq(Call),
         seen : SUBSET CheckId, ordered : Seq(CheckId),
         pos : Nat \ {0}, selected : Seq(CheckId), skipped : SUBSET CheckId]

WorkTypes(reg, req, w) ==
  /\ RegistryOK(reg) /\ RequestOK(req)
  /\ w \in Work /\ Depth(w) >= 1

OnStack(reg, req, w) ==
  /\ \A k \in 2..Depth(w) :
       /\ w.calls[k].of \in reg.checks /\ w.calls[k].of \in w.seen
       /\ w.calls[k].of \notin SetOf(w.ordered)
       /\ Requires(reg, w.calls[k].of) \subseteq w.seen \cup SetOf(w.calls[k].left)
       /\ SetOf(w.calls[k].left) \subseteq Requires(reg, w.calls[k].of)
  /\ \A j, k \in 2..Depth(w) : w.calls[j].of = w.calls[k].of => j = k
  /\ \A k \in 2..(Depth(w) - 1) : w.calls[k + 1].of \in Requires(reg, w.calls[k].of)
  /\ Requested(reg, req) \subseteq w.seen \cup SetOf(w.calls[1].left)

SeenIsPlaced(reg, w) ==
  /\ SetOf(w.ordered) \subseteq w.seen
  /\ \A c \in w.seen :
       c \in SetOf(w.ordered) \/ \E k \in 2..Depth(w) : w.calls[k].of = c
  /\ \A c \in SetOf(w.ordered) : c \in reg.checks /\ Requires(reg, c) \subseteq w.seen
  /\ \A i, j \in 1..Len(w.ordered) : w.ordered[i] = w.ordered[j] => i = j

IsClosed(reg, req, t) ==
  t \in SUBSET CheckId /\ Closed(reg, Requested(reg, req), t)

OnlyReached(reg, req, w) ==
  /\ \A t : IsClosed(reg, req, t) =>
       w.seen \subseteq t /\ \A k \in 1..Depth(w) : SetOf(w.calls[k].left) \subseteq t
  /\ w.at = "KeyError" =>
       \E c \in CheckId \ reg.checks : \A t : IsClosed(reg, req, t) => c \in t

PlacedInOrder(reg, w) ==
  Acyclic(reg) =>
    \A i \in 1..Len(w.ordered) : \A d \in Requires(reg, w.ordered[i]) :
      \E j \in 1..(i - 1) : w.ordered[j] = d

DfsInv(reg, req, w) ==
  /\ WorkTypes(reg, req, w) /\ OnStack(reg, req, w) /\ SeenIsPlaced(reg, w)
  /\ OnlyReached(reg, req, w) /\ PlacedInOrder(reg, w)

(* The loop over the selected checks, up to pos.                           *)
Before(w) == {w.ordered[i] : i \in 1..(w.pos - 1)}

SortedSoFar(reg, req, w) ==
  w.at = "items" =>
    /\ Depth(w) = 1 /\ w.calls[1].left = <<>>
    /\ w.pos \in 1..(Len(w.ordered) + 1)
    /\ SetOf(w.selected) = Before(w) \ req.missing_prereqs
    /\ w.skipped = (reg.checks \ SetOf(w.ordered)) \cup (Before(w) \cap req.missing_prereqs)
    /\ \A i, j \in 1..Len(w.selected) : w.selected[i] = w.selected[j] => i = j
    /\ Acyclic(reg) =>
         \A i \in 1..Len(w.selected) : \A d \in Requires(reg, w.selected[i]) :
           \/ d \in req.missing_prereqs /\ d \in SetOf(w.ordered)
           \/ \E j \in 1..(i - 1) : w.selected[j] = d

Unsorted(w) == w.at # "items" => w.selected = <<>> /\ w.pos = 1

WorkInv(reg, req, w) == DfsInv(reg, req, w) /\ SortedSoFar(reg, req, w) /\ Unsorted(w)

PlanIsOfWork ==
  \/ made = NoPlan
  \/ made = KeyError /\ work.at = "KeyError"
  \/ /\ made = PlanOf(registry, request, work)
     /\ work.at = "items" /\ work.pos = Len(work.ordered) + 1

PlanningInv == WorkInv(registry, request, work) /\ PlanIsOfWork

LEMMA SetOfAppend ==
  ASSUME NEW S, NEW s \in Seq(S), NEW x \in S
  PROVE  SetOf(Append(s, x)) = SetOf(s) \cup {x}
<1>1. /\ DOMAIN s = 1..Len(s) /\ DOMAIN Append(s, x) = 1..(Len(s) + 1) /\ Len(s) \in Nat
      /\ \A i \in 1..Len(s) : Append(s, x)[i] = s[i]
      /\ Append(s, x)[Len(s) + 1] = x
  OBVIOUS
<1> QED BY <1>1 DEF SetOf, ToSet

LEMMA SetOfSeq ==
  ASSUME NEW S, NEW s \in Seq(S)
  PROVE  /\ SetOf(s) = {s[i] : i \in 1..Len(s)} /\ SetOf(s) \subseteq S
         /\ Len(s) \in Nat /\ DOMAIN s = 1..Len(s)
BY DEF SetOf, ToSet

LEMMA SetOfEmpty == SetOf(<<>>) = {}
BY DEF SetOf, ToSet

LEMMA HeadAndTail ==
  ASSUME NEW S, NEW s \in Seq(S), s # <<>>
  PROVE  /\ Head(s) \in S /\ Tail(s) \in Seq(S)
         /\ SetOf(s) = {Head(s)} \cup SetOf(Tail(s))
<1>1. /\ Len(s) \in Nat \ {0} /\ Head(s) = s[1] /\ Tail(s) \in Seq(S) /\ Head(s) \in S
      /\ Len(Tail(s)) = Len(s) - 1
      /\ \A i \in 1..(Len(s) - 1) : Tail(s)[i] = s[i + 1]
  OBVIOUS
<1>2. /\ SetOf(s) = {s[i] : i \in 1..Len(s)}
      /\ SetOf(Tail(s)) = {Tail(s)[i] : i \in 1..Len(Tail(s))}
  BY <1>1, SetOfSeq
<1>3. \A i \in 1..Len(s) : i = 1 \/ (i - 1 \in 1..(Len(s) - 1) /\ (i - 1) + 1 = i)
  BY <1>1
<1>4. \A i \in 1..(Len(s) - 1) : i + 1 \in 1..Len(s)
  BY <1>1
<1>5. 1 \in 1..Len(s)
  BY <1>1
<1>6. /\ Len(Tail(s)) = Len(s) - 1 /\ Head(s) = s[1]
      /\ \A i \in 1..(Len(s) - 1) : Tail(s)[i] = s[i + 1]
  BY <1>1
<1>7. SetOf(s) \subseteq {Head(s)} \cup SetOf(Tail(s))
  BY <1>2, <1>3, <1>6
<1>8. {Head(s)} \cup SetOf(Tail(s)) \subseteq SetOf(s)
  BY <1>2, <1>4, <1>5, <1>6
<1> QED BY <1>1, <1>7, <1>8

LEMMA ProfileIs ==
  ASSUME NEW req, RequestOK(req)
  PROVE  ResolveProfile(req) \in {"quick", "standard", "strict"}
BY DEF RequestOK, ResolveProfile

LEMMA RegistryTypes ==
  ASSUME NEW reg, NEW req, RegistryOK(reg), RequestOK(req)
  PROVE  /\ reg.checks \subseteq CheckId
         /\ \A c \in reg.checks :
              reg.dependencies[c] \in Seq(CheckId) /\ Requires(reg, c) \subseteq CheckId
         /\ RequestedIds(reg, req) \in Seq(CheckId)
         /\ Requested(reg, req) \subseteq CheckId
<1>1. RequestedIds(reg, req) \in Seq(CheckId)
  BY ProfileIs DEF RegistryOK, RequestedIds
<1>2. /\ reg.checks \subseteq CheckId
      /\ \A c \in reg.checks : reg.dependencies[c] \in Seq(CheckId)
  BY DEF RegistryOK
<1> QED BY <1>1, <1>2, SetOfSeq DEF Requires, Requested

LEMMA StartedIs ==
  ASSUME NEW reg, NEW req, RegistryOK(reg), RequestOK(req)
  PROVE  WorkInv(reg, req, Started(reg, req))
<1> DEFINE ids == RequestedIds(reg, req)
           call == [of |-> "requested_ids", left |-> ids]
           w == Started(reg, req)
<1>2. w = [at |-> "visit", calls |-> <<call>>, seen |-> {}, ordered |-> <<>>,
           pos |-> 1, selected |-> <<>>, skipped |-> {}]
  BY DEF Started
<1>3. ids \in Seq(CheckId)
  BY RegistryTypes
<1> HIDE DEF ids
<1>4. call \in Call /\ call.left = ids
  BY <1>3 DEF Call
<1> HIDE DEF call, w
<1>5. /\ w.at = "visit" /\ w.calls = <<call>> /\ w.seen = {} /\ w.ordered = <<>>
      /\ w.pos = 1 /\ w.selected = <<>> /\ Depth(w) = 1 /\ w.calls[1] = call
  BY <1>2, <1>4 DEF Depth
<1>6. WorkTypes(reg, req, w)
  BY <1>2, <1>4, <1>5 DEF WorkTypes, Work
<1>7. OnStack(reg, req, w) /\ SeenIsPlaced(reg, w)
  BY <1>4, <1>5, SetOfEmpty DEF OnStack, SeenIsPlaced, Requested, ids
<1>8. OnlyReached(reg, req, w) /\ PlacedInOrder(reg, w)
  BY <1>4, <1>5 DEF OnlyReached, PlacedInOrder, IsClosed, Closed, Requested, ids
<1> QED BY <1>5, <1>6, <1>7, <1>8 DEF WorkInv, DfsInv, SortedSoFar, Unsorted, w

(* The innermost loop and the name it comes to.                            *)
LEMMA TopIs ==
  ASSUME NEW w \in Work, Depth(w) >= 1
  PROVE  /\ Depth(w) \in Nat \ {0} /\ w.calls \in Seq(Call) /\ Depth(w) = Len(w.calls)
         /\ \A k \in 1..Depth(w) : w.calls[k] \in Call /\ w.calls[k].left \in Seq(CheckId)
         /\ Last(w.calls) = w.calls[Depth(w)]
         /\ w.seen \subseteq CheckId /\ w.ordered \in Seq(CheckId)
<1>1. w.calls \in Seq(Call) /\ w.seen \subseteq CheckId /\ w.ordered \in Seq(CheckId)
  BY DEF Work
<1>2. Depth(w) \in Nat \ {0}
  BY <1>1 DEF Depth
<1>3. \A k \in 1..Depth(w) : w.calls[k] \in Call
  BY <1>1 DEF Depth
<1> QED BY <1>1, <1>2, <1>3 DEF Depth, Last, Call

LEMMA PassedIs ==
  ASSUME NEW w \in Work, Depth(w) >= 1, Visiting(w)
  PROVE  LET v == Passed(w)
             n == Depth(w)
             c == Due(w)
         IN  /\ c \in CheckId /\ v \in Work /\ Depth(v) = n
             /\ v.at = w.at /\ v.seen = w.seen /\ v.ordered = w.ordered
             /\ v.pos = w.pos /\ v.selected = w.selected /\ v.skipped = w.skipped
             /\ v.calls \in Seq(Call)
             /\ \A k \in 1..n : v.calls[k].of = w.calls[k].of
             /\ \A k \in 1..(n - 1) : v.calls[k] = w.calls[k]
             /\ SetOf(w.calls[n].left) = {c} \cup SetOf(v.calls[n].left)
<1> DEFINE n == Depth(w)
           v == Passed(w)
           left == w.calls[n].left
           c == Due(w)
<1>1. /\ n \in Nat \ {0} /\ w.calls \in Seq(Call) /\ n = Len(w.calls)
      /\ w.calls[n] \in Call /\ left \in Seq(CheckId) /\ left # <<>>
      /\ Last(w.calls) = w.calls[n]
  BY TopIs DEF Visiting
<1>2. /\ c = Head(left) /\ c \in CheckId /\ Tail(left) \in Seq(CheckId)
      /\ SetOf(left) = {c} \cup SetOf(Tail(left))
  BY <1>1, HeadAndTail DEF Due
<1> DEFINE top == [w.calls[n] EXCEPT !.left = Tail(left)]
           calls == [w.calls EXCEPT ![n] = top]
<1>3. v = [w EXCEPT !.calls = calls]
  BY <1>1 DEF Passed
<1>4. top \in Call /\ top.of = w.calls[n].of /\ top.left = Tail(left)
  BY <1>1, <1>2 DEF Call
<1> HIDE DEF top
<1>5. /\ calls \in Seq(Call) /\ Len(calls) = n /\ calls[n] = top
      /\ \A k \in 1..n : k # n => calls[k] = w.calls[k]
  BY <1>1, <1>4
<1> HIDE DEF calls
<1>6. /\ v \in Work /\ v.calls = calls
      /\ v.at = w.at /\ v.seen = w.seen /\ v.ordered = w.ordered
      /\ v.pos = w.pos /\ v.selected = w.selected /\ v.skipped = w.skipped
  BY <1>3, <1>5 DEF Work
<1> HIDE DEF v, c, left
<1>7. \A k \in 1..n : calls[k].of = w.calls[k].of
  BY <1>1, <1>4, <1>5
<1>8. \A k \in 1..(n - 1) : calls[k] = w.calls[k]
  BY <1>1, <1>5
<1>9. SetOf(left) = {c} \cup SetOf(calls[n].left)
  BY <1>2, <1>4, <1>5
<1>10. Depth(v) = n
  BY <1>5, <1>6 DEF Depth
<1> QED BY <1>2, <1>5, <1>6, <1>7, <1>8, <1>9, <1>10 DEF v, c, left

(* A name that is seen is passed over.                                     *)
LEMMA AgainKeeps ==
  ASSUME NEW reg, NEW req, NEW w, DfsInv(reg, req, w), Visiting(w),
         Due(w) \in w.seen
  PROVE  DfsInv(reg, req, Passed(w))
<1> DEFINE n == Depth(w)
           c == Due(w)
           v == Passed(w)
<1>1. w \in Work /\ n \in Nat \ {0} /\ n >= 1
  BY TopIs DEF DfsInv, WorkTypes
<1>2. /\ v \in Work /\ Depth(v) = n
      /\ v.at = w.at /\ v.seen = w.seen /\ v.ordered = w.ordered
      /\ \A k \in 1..n : v.calls[k].of = w.calls[k].of
      /\ \A k \in 1..(n - 1) : v.calls[k] = w.calls[k]
      /\ SetOf(w.calls[n].left) = {c} \cup SetOf(v.calls[n].left)
  BY <1>1, PassedIs
<1> HIDE DEF n, v
<1>3. \A k \in 1..n :
        /\ SetOf(v.calls[k].left) \subseteq SetOf(w.calls[k].left)
        /\ w.seen \cup SetOf(w.calls[k].left) \subseteq v.seen \cup SetOf(v.calls[k].left)
  <2> TAKE k \in 1..n
  <2>1. k = n \/ k \in 1..(n - 1)
    BY <1>1
  <2> QED BY <1>2, <2>1
<1>4. 1 \in 1..n /\ 2..n \subseteq 1..n /\ \A k \in 2..(n - 1) : k \in 2..n /\ k + 1 \in 2..n
  BY <1>1
<1>5. OnStack(reg, req, w) /\ SeenIsPlaced(reg, w) /\ OnlyReached(reg, req, w)
      /\ PlacedInOrder(reg, w) /\ RegistryOK(reg) /\ RequestOK(req)
  BY DEF DfsInv, WorkTypes
<1>6. WorkTypes(reg, req, v)
  BY <1>1, <1>2, <1>5 DEF WorkTypes
<1>7. OnStack(reg, req, v)
  <2>1. \A k \in 2..n :
          /\ v.calls[k].of \in reg.checks /\ v.calls[k].of \in v.seen
          /\ v.calls[k].of \notin SetOf(v.ordered)
          /\ Requires(reg, v.calls[k].of) \subseteq v.seen \cup SetOf(v.calls[k].left)
          /\ SetOf(v.calls[k].left) \subseteq Requires(reg, v.calls[k].of)
    BY <1>2, <1>3, <1>4, <1>5 DEF OnStack, n
  <2>2. \A j, k \in 2..n : v.calls[j].of = v.calls[k].of => j = k
    BY <1>2, <1>4, <1>5 DEF OnStack, n
  <2>3. \A k \in 2..(n - 1) : v.calls[k + 1].of \in Requires(reg, v.calls[k].of)
    BY <1>2, <1>4, <1>5 DEF OnStack, n
  <2>4. Requested(reg, req) \subseteq v.seen \cup SetOf(v.calls[1].left)
    BY <1>3, <1>4, <1>5 DEF OnStack
  <2> QED BY <1>2, <2>1, <2>2, <2>3, <2>4 DEF OnStack
<1>8. SeenIsPlaced(reg, v) /\ PlacedInOrder(reg, v)
  BY <1>2, <1>4, <1>5 DEF SeenIsPlaced, PlacedInOrder, n
<1>9. OnlyReached(reg, req, v)
  <2>1. w.at = "visit"
    BY DEF Visiting
  <2> QED BY <1>2, <1>3, <1>5, <2>1 DEF OnlyReached, n
<1> QED BY <1>6, <1>7, <1>8, <1>9 DEF DfsInv, v

LEMMA EnteredKeeps ==
  ASSUME NEW reg, NEW req, NEW w, DfsInv(reg, req, w), Visiting(w),
         Due(w) \notin w.seen, Due(w) \in reg.checks
  PROVE  DfsInv(reg, req, Entered(reg, Passed(w), Due(w)))
<1> DEFINE n == Depth(w)
           c == Due(w)
           u == Passed(w)
           v == Entered(reg, u, c)
           call == [of |-> c, left |-> reg.dependencies[c]]
           calls == Append(u.calls, call)
<1>1. w \in Work /\ n \in Nat \ {0} /\ n >= 1
  BY TopIs DEF DfsInv, WorkTypes
<1>2. /\ u \in Work /\ Depth(u) = n /\ c \in CheckId /\ u.calls \in Seq(Call)
      /\ u.at = w.at /\ u.seen = w.seen /\ u.ordered = w.ordered
      /\ \A k \in 1..n : u.calls[k].of = w.calls[k].of
      /\ \A k \in 1..(n - 1) : u.calls[k] = w.calls[k]
      /\ SetOf(w.calls[n].left) = {c} \cup SetOf(u.calls[n].left)
  BY <1>1, PassedIs
<1>3. OnStack(reg, req, w) /\ SeenIsPlaced(reg, w) /\ OnlyReached(reg, req, w)
      /\ PlacedInOrder(reg, w) /\ RegistryOK(reg) /\ RequestOK(req)
  BY DEF DfsInv, WorkTypes
<1>4. call \in Call /\ call.of = c /\ SetOf(call.left) = Requires(reg, c)
      /\ Requires(reg, c) \subseteq CheckId
  BY <1>2, <1>3, RegistryTypes DEF Call, Requires
<1> HIDE DEF call, u, c
<1>5. v = [u EXCEPT !.seen = u.seen \cup {c}, !.calls = calls]
  BY <1>2 DEF Entered, call, Work
<1>6. /\ calls \in Seq(Call) /\ Len(calls) = n + 1 /\ calls[n + 1] = call
      /\ \A k \in 1..n : calls[k] = u.calls[k]
  BY <1>1, <1>2, <1>4 DEF Depth
<1> HIDE DEF calls
<1>7. /\ v \in Work /\ v.at = w.at /\ v.seen = w.seen \cup {c} /\ v.ordered = w.ordered
      /\ v.calls = calls
  <2>1. u.seen \cup {c} \in SUBSET CheckId
    BY <1>2 DEF Work
  <2> QED BY <1>2, <1>5, <1>6, <2>1 DEF Work
<1> HIDE DEF v, n
<1>8. /\ Depth(v) = n + 1 /\ v.calls[n + 1] = call
      /\ \A k \in 1..n : v.calls[k].of = w.calls[k].of
      /\ \A k \in 1..(n - 1) : v.calls[k] = w.calls[k]
      /\ SetOf(w.calls[n].left) = {c} \cup SetOf(v.calls[n].left)
  BY <1>1, <1>2, <1>6, <1>7 DEF Depth
<1>9. \A k \in 1..n :
        /\ SetOf(v.calls[k].left) \subseteq SetOf(w.calls[k].left)
        /\ w.seen \cup SetOf(w.calls[k].left) \subseteq v.seen \cup SetOf(v.calls[k].left)
  <2> TAKE k \in 1..n
  <2>1. k = n \/ k \in 1..(n - 1)
    BY <1>1
  <2> QED BY <1>7, <1>8, <2>1
<1>10. c \in SetOf(w.calls[n].left) /\ c \notin w.seen /\ c \in reg.checks
  BY <1>8 DEF c
<1>11. /\ 1 \in 1..n /\ n \in 1..n
       /\ \A k \in 2..(n + 1) : k \in 2..n \/ k = n + 1
       /\ 2..n \subseteq 1..n /\ 2..n \subseteq 2..(n + 1)
  BY <1>1
<1>12. WorkTypes(reg, req, v)
  BY <1>1, <1>3, <1>7, <1>8 DEF WorkTypes
<1>13. OnStack(reg, req, v)
  <2>1. ASSUME NEW k \in 2..n
        PROVE  /\ v.calls[k].of \in reg.checks /\ v.calls[k].of \in w.seen
               /\ v.calls[k].of \notin SetOf(w.ordered)
               /\ Requires(reg, v.calls[k].of) \subseteq v.seen \cup SetOf(v.calls[k].left)
               /\ SetOf(v.calls[k].left) \subseteq Requires(reg, v.calls[k].of)
    BY <1>3, <1>8, <1>9, <1>11 DEF OnStack, n
  <2>2. c \notin SetOf(w.ordered)
    BY <1>3, <1>10 DEF SeenIsPlaced
  <2>3. ASSUME NEW k \in 2..(n + 1)
        PROVE  /\ v.calls[k].of \in reg.checks /\ v.calls[k].of \in v.seen
               /\ v.calls[k].of \notin SetOf(v.ordered)
               /\ Requires(reg, v.calls[k].of) \subseteq v.seen \cup SetOf(v.calls[k].left)
               /\ SetOf(v.calls[k].left) \subseteq Requires(reg, v.calls[k].of)
    <3>1. CASE k \in 2..n
      BY <1>7, <2>1, <3>1
    <3>2. CASE k = n + 1
      BY <1>4, <1>7, <1>8, <1>10, <2>2, <3>2
    <3> QED BY <1>11, <3>1, <3>2
  <2>4. ASSUME NEW j \in 2..(n + 1), NEW k \in 2..(n + 1), v.calls[j].of = v.calls[k].of
        PROVE  j = k
    <3>1. \A x, y \in 2..n : v.calls[x].of = v.calls[y].of => x = y
      BY <1>3, <1>8, <1>11 DEF OnStack, n
    <3>2. \A x \in 2..n : v.calls[x].of # v.calls[n + 1].of
      BY <1>4, <1>8, <1>10, <2>1
    <3> QED BY <1>11, <2>4, <3>1, <3>2
  <2>5. ASSUME NEW k \in 2..n
        PROVE  v.calls[k + 1].of \in Requires(reg, v.calls[k].of)
    <3>1. CASE k = n
      <4>1. SetOf(w.calls[n].left) \subseteq Requires(reg, w.calls[n].of)
        BY <1>3, <2>5, <3>1 DEF OnStack, n
      <4> QED BY <1>4, <1>8, <1>10, <1>11, <3>1, <4>1
    <3>2. CASE k # n
      <4>1. k \in 2..(n - 1) /\ k \in 1..n /\ k + 1 \in 1..n
        BY <1>1, <3>2
      <4> QED BY <1>3, <1>8, <4>1 DEF OnStack, n
    <3> QED BY <3>1, <3>2
  <2>6. Requested(reg, req) \subseteq v.seen \cup SetOf(v.calls[1].left)
    BY <1>3, <1>9, <1>11 DEF OnStack
  <2>7. (n + 1) - 1 = n
    BY <1>1
  <2> QED BY <1>8, <2>3, <2>4, <2>5, <2>6, <2>7 DEF OnStack
<1>14. SeenIsPlaced(reg, v)
  <2>1. ASSUME NEW x \in v.seen
        PROVE  x \in SetOf(v.ordered) \/ \E k \in 2..(n + 1) : v.calls[k].of = x
    <3>1. CASE x = c
      <4>1. n + 1 \in 2..(n + 1)
        BY <1>1
      <4> QED BY <1>4, <1>8, <3>1, <4>1
    <3>2. CASE x \in w.seen
      BY <1>3, <1>7, <1>8, <1>11, <3>2 DEF SeenIsPlaced, n
    <3> QED BY <1>7, <2>1, <3>1, <3>2
  <2> QED BY <1>3, <1>7, <1>8, <2>1 DEF SeenIsPlaced
<1>15. PlacedInOrder(reg, v)
  <2>1. v.ordered = w.ordered
    BY <1>7
  <2>2. PlacedInOrder(reg, w)
    BY <1>3
  <2> QED BY <2>1, <2>2, ZenonT(30) DEF PlacedInOrder
<1>16. OnlyReached(reg, req, v)
  <2>1. w.at = "visit"
    BY DEF Visiting
  <2>2. ASSUME NEW t, IsClosed(reg, req, t)
        PROVE  v.seen \subseteq t /\ \A k \in 1..(n + 1) : SetOf(v.calls[k].left) \subseteq t
    <3>1. w.seen \subseteq t /\ \A k \in 1..n : SetOf(w.calls[k].left) \subseteq t
      BY <1>3, <2>2 DEF OnlyReached, n
    <3>2. c \in t
      BY <1>10, <1>11, <3>1
    <3>3. Requires(reg, c) \subseteq t
      BY <1>10, <2>2, <3>2 DEF IsClosed, Closed, Requires, SetOf
    <3>4. \A k \in 1..(n + 1) : k \in 1..n \/ k = n + 1
      BY <1>1
    <3> QED BY <1>4, <1>7, <1>8, <1>9, <3>1, <3>2, <3>3, <3>4
  <2> QED BY <1>7, <1>8, <2>1, <2>2 DEF OnlyReached
<1> QED BY <1>12, <1>13, <1>14, <1>15, <1>16 DEF DfsInv, v, u, c

LEMMA RaiseKeeps ==
  ASSUME NEW reg, NEW req, NEW w, DfsInv(reg, req, w), Visiting(w),
         Due(w) \notin reg.checks
  PROVE  DfsInv(reg, req, [w EXCEPT !.at = "KeyError"])
<1> DEFINE n == Depth(w)
           c == Due(w)
           v == [w EXCEPT !.at = "KeyError"]
<1>1. w \in Work /\ n \in Nat \ {0} /\ n >= 1 /\ n \in 1..n
  BY TopIs DEF DfsInv, WorkTypes
<1>2. /\ v \in Work /\ v.seen = w.seen /\ v.ordered = w.ordered /\ v.calls = w.calls
  BY <1>1 DEF Work
<1>3. Depth(v) = n
  BY <1>2 DEF Depth
<1>4. c \in CheckId /\ c \in SetOf(w.calls[n].left)
  BY <1>1, PassedIs
<1> HIDE DEF c, v
<1>5. \A t : IsClosed(reg, req, t) => c \in t
  BY <1>1, <1>4 DEF DfsInv, OnlyReached
<1>6. OnlyReached(reg, req, v)
  BY <1>2, <1>3, <1>4, <1>5 DEF DfsInv, OnlyReached, c
<1>7. WorkTypes(reg, req, v) /\ OnStack(reg, req, v) /\ SeenIsPlaced(reg, v)
      /\ PlacedInOrder(reg, v)
  BY <1>2, <1>3 DEF DfsInv, WorkTypes, OnStack, SeenIsPlaced, PlacedInOrder
<1> QED BY <1>6, <1>7 DEF DfsInv, v

(* visit, whatever name it is called with.                                 *)
LEMMA VisitedKeeps ==
  ASSUME NEW reg, NEW req, NEW w, WorkInv(reg, req, w), Visiting(w)
  PROVE  WorkInv(reg, req, Visited(reg, w))
<1> DEFINE c == Due(w)
           u == Passed(w)
           v == Visited(reg, w)
<1>1. /\ w \in Work /\ Depth(w) >= 1 /\ w.at = "visit" /\ w.selected = <<>> /\ w.pos = 1
      /\ DfsInv(reg, req, w)
  BY DEF WorkInv, DfsInv, WorkTypes, Visiting, Unsorted
<1>2. u \in Work /\ u.at = w.at /\ u.selected = w.selected /\ u.pos = w.pos
  BY <1>1, PassedIs
<1>3. ASSUME c \in w.seen PROVE DfsInv(reg, req, v) /\ Unsorted(v) /\ v.at = "visit"
  <2>1. v = u
    BY <1>3 DEF Visited
  <2> QED BY <1>1, <1>2, <1>3, <2>1, AgainKeeps DEF Unsorted
<1>4. ASSUME c \notin w.seen, c \notin reg.checks
      PROVE  DfsInv(reg, req, v) /\ Unsorted(v) /\ v.at = "KeyError"
  <2>1. v = [w EXCEPT !.at = "KeyError"]
    BY <1>4 DEF Visited
  <2>2. v.at = "KeyError" /\ v.selected = w.selected /\ v.pos = w.pos
    BY <1>1, <2>1 DEF Work
  <2> QED BY <1>1, <1>4, <2>1, <2>2, RaiseKeeps DEF Unsorted
<1>5. ASSUME c \notin w.seen, c \in reg.checks
      PROVE  DfsInv(reg, req, v) /\ Unsorted(v) /\ v.at = "visit"
  <2>1. v = Entered(reg, u, c)
    BY <1>5 DEF Visited
  <2> HIDE DEF u
  <2>2. v.at = u.at /\ v.selected = u.selected /\ v.pos = u.pos
    BY <1>2, <2>1 DEF Entered, Work
  <2> QED BY <1>1, <1>2, <1>5, <2>1, <2>2, EnteredKeeps DEF Unsorted, u
<1> QED BY <1>3, <1>4, <1>5 DEF WorkInv, SortedSoFar

(* A check is placed: its dependencies are placed before it, or the stack  *)
(* from one of them on is a cycle.                                         *)
LEMMA ReturnedKeeps ==
  ASSUME NEW reg, NEW req, NEW w, WorkInv(reg, req, w), Returning(w)
  PROVE  WorkInv(reg, req, Returned(w))
<1> DEFINE n == Depth(w)
           c == w.calls[n].of
           v == Returned(w)
           m == Len(w.ordered)
           placed == Append(w.ordered, c)
           calls == Front(w.calls)
<1>1. /\ w \in Work /\ n \in Nat /\ n > 1 /\ w.calls \in Seq(Call) /\ w.ordered \in Seq(CheckId)
      /\ n = Len(w.calls) /\ Last(w.calls) = w.calls[n]
      /\ w.calls[n].left = <<>> /\ w.at = "visit" /\ m \in Nat
      /\ w.selected = <<>> /\ w.pos = 1
  BY TopIs DEF WorkInv, DfsInv, WorkTypes, Returning, Depth, Unsorted
<1>2. OnStack(reg, req, w) /\ SeenIsPlaced(reg, w) /\ OnlyReached(reg, req, w)
      /\ PlacedInOrder(reg, w) /\ RegistryOK(reg) /\ RequestOK(req)
  BY DEF WorkInv, DfsInv, WorkTypes
<1>3. n \in 2..n /\ 2..(n - 1) \subseteq 2..n /\ 1..(n - 1) \subseteq 1..n /\ 1 \in 1..(n - 1)
  BY <1>1
<1>4. /\ c \in reg.checks /\ c \in w.seen /\ c \notin SetOf(w.ordered) /\ c \in CheckId
      /\ Requires(reg, c) \subseteq w.seen
  <2>1. /\ c \in reg.checks /\ c \in w.seen /\ c \notin SetOf(w.ordered)
        /\ Requires(reg, c) \subseteq w.seen \cup SetOf(<<>>)
    BY <1>1, <1>2, <1>3 DEF OnStack
  <2> QED BY <1>2, <2>1, SetOfEmpty, RegistryTypes
<1>5. /\ calls \in Seq(Call) /\ Len(calls) = n - 1
      /\ \A k \in 1..(n - 1) : calls[k] = w.calls[k]
  BY <1>1 DEF Front
<1>6. /\ placed \in Seq(CheckId) /\ Len(placed) = m + 1 /\ placed[m + 1] = c
      /\ \A i \in 1..m : placed[i] = w.ordered[i]
      /\ SetOf(placed) = SetOf(w.ordered) \cup {c}
  BY <1>1, <1>4, SetOfAppend
<1>7. v = [w EXCEPT !.ordered = placed, !.calls = calls]
  BY <1>1 DEF Returned
<1>8. SetOf(w.ordered) = {w.ordered[i] : i \in 1..m}
  BY <1>1, SetOfSeq
<1> HIDE DEF v, calls, placed, c
<1>9. /\ v \in Work /\ v.at = "visit" /\ v.seen = w.seen /\ v.ordered = placed
      /\ v.calls = calls /\ v.selected = <<>> /\ v.pos = 1
  BY <1>1, <1>5, <1>6, <1>7 DEF Work
<1>10. /\ Depth(v) = n - 1 /\ n - 1 >= 1
       /\ \A k \in 1..(n - 1) : v.calls[k] = w.calls[k]
  BY <1>1, <1>5, <1>9 DEF Depth
<1> HIDE DEF n, m
<1>11. WorkTypes(reg, req, v)
  BY <1>2, <1>9, <1>10 DEF WorkTypes
<1>12. OnStack(reg, req, v)
  <2>1. \A k \in 2..(n - 1) : k \in 1..(n - 1) /\ k # n /\ k \in 2..n
    BY <1>1
  <2>2. \A k \in 2..(n - 1) : w.calls[k].of # c
    BY <1>2, <1>3, <2>1 DEF OnStack, n, c
  <2>3. \A k \in 2..(n - 1) :
          /\ v.calls[k].of \in reg.checks /\ v.calls[k].of \in v.seen
          /\ v.calls[k].of \notin SetOf(v.ordered)
          /\ Requires(reg, v.calls[k].of) \subseteq v.seen \cup SetOf(v.calls[k].left)
          /\ SetOf(v.calls[k].left) \subseteq Requires(reg, v.calls[k].of)
    BY <1>2, <1>6, <1>9, <1>10, <2>1, <2>2 DEF OnStack, n
  <2>4. \A j, k \in 2..(n - 1) : v.calls[j].of = v.calls[k].of => j = k
    BY <1>2, <1>10, <2>1 DEF OnStack, n
  <2>5. \A k \in 2..((n - 1) - 1) : k \in 2..(n - 1) /\ k + 1 \in 2..(n - 1)
    BY <1>1
  <2>6. \A k \in 2..((n - 1) - 1) : v.calls[k + 1].of \in Requires(reg, v.calls[k].of)
    BY <1>2, <1>10, <2>1, <2>5 DEF OnStack, n
  <2>7. Requested(reg, req) \subseteq v.seen \cup SetOf(v.calls[1].left)
    BY <1>2, <1>3, <1>9, <1>10 DEF OnStack
  <2> QED BY <1>10, <2>3, <2>4, <2>6, <2>7 DEF OnStack
<1>13. SeenIsPlaced(reg, v)
  <2>1. ASSUME NEW x \in v.seen
        PROVE  x \in SetOf(v.ordered) \/ \E k \in 2..(n - 1) : v.calls[k].of = x
    <3>1. CASE x \in SetOf(w.ordered)
      BY <1>6, <1>9, <3>1
    <3>2. CASE \E k \in 2..n : w.calls[k].of = x
      <4>1. PICK k \in 2..n : w.calls[k].of = x
        BY <3>2
      <4>2. CASE k = n
        BY <1>6, <1>9, <4>1, <4>2 DEF c
      <4>3. CASE k # n
        <5>1. k \in 2..(n - 1) /\ k \in 1..(n - 1)
          BY <1>1, <4>3
        <5> QED BY <1>10, <4>1, <5>1
      <4> QED BY <4>2, <4>3
    <3> QED BY <1>2, <1>9, <2>1, <3>1, <3>2 DEF SeenIsPlaced, n
  <2>2. ASSUME NEW i \in 1..(m + 1), NEW j \in 1..(m + 1), placed[i] = placed[j]
        PROVE  i = j
    <3>1. \A x, y \in 1..m : placed[x] = placed[y] => x = y
      BY <1>2, <1>6 DEF SeenIsPlaced, m
    <3>2. \A x \in 1..m : placed[x] # placed[m + 1]
      BY <1>4, <1>6, <1>8
    <3>3. \A x \in 1..(m + 1) : x \in 1..m \/ x = m + 1
      BY <1>1
    <3> QED BY <2>2, <3>1, <3>2, <3>3
  <2>3. SetOf(placed) \subseteq w.seen
        /\ \A x \in SetOf(placed) : x \in reg.checks /\ Requires(reg, x) \subseteq w.seen
    BY <1>2, <1>4, <1>6 DEF SeenIsPlaced
  <2> QED BY <1>6, <1>9, <1>10, <2>1, <2>2, <2>3 DEF SeenIsPlaced
<1>14. OnlyReached(reg, req, v)
  BY <1>2, <1>3, <1>9, <1>10 DEF OnlyReached, n
<1>15. PlacedInOrder(reg, v)
  <2>1. SUFFICES ASSUME Acyclic(reg), NEW i \in 1..(m + 1),
                        NEW d \in Requires(reg, placed[i])
                 PROVE  \E j \in 1..(i - 1) : placed[j] = d
    BY <1>6, <1>9 DEF PlacedInOrder
  <2>2. CASE i \in 1..m
    <3>1. PICK j \in 1..(i - 1) : w.ordered[j] = d
      BY <1>2, <1>6, <2>1, <2>2 DEF PlacedInOrder, m
    <3>2. j \in 1..m
      BY <1>1, <2>2
    <3> QED BY <1>6, <3>1, <3>2
  <2>3. CASE i = m + 1
    <3>1. d \in Requires(reg, c) /\ d \in w.seen
      BY <1>4, <1>6, <2>1, <2>3
    <3>2. CASE d \in SetOf(w.ordered)
      <4>1. PICK j \in 1..m : w.ordered[j] = d
        BY <1>8, <3>2
      <4>2. j \in 1..(i - 1)
        BY <1>1, <2>3
      <4> QED BY <1>6, <4>1, <4>2
    <3>3. CASE \E k \in 2..n : w.calls[k].of = d
      <4>1. PICK k \in 2..n : w.calls[k].of = d
        BY <3>3
      <4> DEFINE cycle == {w.calls[x].of : x \in k..n}
      <4>2. \A x \in k..n : x \in 2..n /\ (x # n => x \in 2..(n - 1) /\ x + 1 \in k..n)
        BY <1>1
      <4>3. k \in k..n
        BY <1>1
      <4>4. cycle \in (SUBSET reg.checks) \ {{}}
        BY <1>2, <4>2, <4>3 DEF OnStack, n
      <4>5. ASSUME NEW x \in k..n PROVE Requires(reg, w.calls[x].of) \cap cycle # {}
        <5>1. CASE x = n
          BY <3>1, <4>1, <4>3, <5>1 DEF c
        <5>2. CASE x # n
          <6>1. w.calls[x + 1].of \in Requires(reg, w.calls[x].of)
            BY <1>2, <4>2, <5>2 DEF OnStack, n
          <6> QED BY <4>2, <5>2, <6>1
        <5> QED BY <5>1, <5>2
      <4> HIDE DEF cycle
      <4>6. \A y \in cycle : Requires(reg, y) \cap cycle # {}
        BY <4>5 DEF cycle
      <4> QED BY <2>1, <4>4, <4>6 DEF Acyclic, Requires, SetOf
    <3> QED BY <1>2, <3>1, <3>2, <3>3 DEF SeenIsPlaced, n
  <2> QED BY <1>1, <2>2, <2>3
<1> QED BY <1>9, <1>11, <1>12, <1>13, <1>14, <1>15
    DEF WorkInv, DfsInv, SortedSoFar, Unsorted, v

LEMMA ResolvedKeeps ==
  ASSUME NEW reg, NEW req, NEW w, WorkInv(reg, req, w), Resolving(w)
  PROVE  WorkInv(reg, req, Resolved(reg, req, w))
<1> DEFINE v == Resolved(reg, req, w)
           skipped == reg.checks \ (SetOf(w.ordered) \cup Requested(reg, req))
<1>1. /\ w \in Work /\ Depth(w) = 1 /\ w.calls[1].left = <<>> /\ w.at = "visit"
      /\ w.selected = <<>> /\ w.pos = 1 /\ w.ordered \in Seq(CheckId)
      /\ RegistryOK(reg) /\ RequestOK(req)
  BY TopIs DEF WorkInv, DfsInv, WorkTypes, Resolving, Depth, Unsorted
<1>2. skipped \in SUBSET CheckId
  BY <1>1, RegistryTypes
<1>3. v = [w EXCEPT !.at = "items", !.skipped = skipped]
  BY DEF Resolved, Requested, SetOf
<1> HIDE DEF v, skipped
<1>4. /\ v \in Work /\ v.at = "items" /\ v.calls = w.calls /\ v.seen = w.seen
      /\ v.ordered = w.ordered /\ v.pos = 1 /\ v.selected = <<>> /\ v.skipped = skipped
  BY <1>1, <1>2, <1>3 DEF Work
<1>5. Depth(v) = Depth(w)
  BY <1>4 DEF Depth
<1>6. DfsInv(reg, req, v)
  <2>1. WorkTypes(reg, req, v) /\ OnStack(reg, req, v) /\ SeenIsPlaced(reg, v)
    <3>1. WorkTypes(reg, req, w) /\ OnStack(reg, req, w) /\ SeenIsPlaced(reg, w)
      BY DEF WorkInv, DfsInv
    <3>2. WorkTypes(reg, req, v)
      BY <1>4, <1>5, <3>1 DEF WorkTypes
    <3>3. OnStack(reg, req, v)
      BY <1>4, <1>5, <3>1 DEF OnStack
    <3>4. SeenIsPlaced(reg, v)
      BY <1>4, <1>5, <3>1 DEF SeenIsPlaced
    <3> QED BY <3>2, <3>3, <3>4
  <2>2. OnlyReached(reg, req, v)
    BY <1>4, <1>5 DEF WorkInv, DfsInv, OnlyReached
  <2>3. PlacedInOrder(reg, v)
    <3>1. v.ordered = w.ordered /\ PlacedInOrder(reg, w)
      BY <1>4 DEF WorkInv, DfsInv
    <3> QED BY <3>1, ZenonT(30) DEF PlacedInOrder
  <2> QED BY <2>1, <2>2, <2>3 DEF DfsInv
<1>7. Requested(reg, req) \subseteq SetOf(w.ordered)
  <2>1. Requested(reg, req) \subseteq w.seen
    BY <1>1, SetOfEmpty DEF WorkInv, DfsInv, OnStack
  <2>2. w.seen \subseteq SetOf(w.ordered)
    BY <1>1 DEF WorkInv, DfsInv, SeenIsPlaced
  <2> QED BY <2>1, <2>2
<1>8. SortedSoFar(reg, req, v)
  <2>1. Before(v) = {} /\ SetOf(v.selected) = {}
    BY <1>4, SetOfEmpty DEF Before
  <2>2. v.skipped = reg.checks \ SetOf(v.ordered)
    BY <1>4, <1>7 DEF skipped
  <2>3. Len(v.ordered) \in Nat
    BY <1>1, <1>4
  <2> QED BY <1>1, <1>4, <1>5, <2>1, <2>2, <2>3 DEF SortedSoFar
<1> QED BY <1>4, <1>6, <1>8 DEF WorkInv, Unsorted, v

LEMMA SortedKeeps ==
  ASSUME NEW reg, NEW req, NEW w, WorkInv(reg, req, w), Sorting(w)
  PROVE  WorkInv(reg, req, Sorted(req, w))
<1> DEFINE v == Sorted(req, w)
           c == w.ordered[w.pos]
           missing == req.missing_prereqs
           m == Len(w.selected)
<1>1. /\ w \in Work /\ w.at = "items" /\ w.pos \in Nat \ {0} /\ w.pos <= Len(w.ordered)
      /\ w.ordered \in Seq(CheckId) /\ w.selected \in Seq(CheckId) /\ Len(w.ordered) \in Nat
      /\ m \in Nat /\ w.skipped \in SUBSET CheckId
      /\ RegistryOK(reg) /\ RequestOK(req)
  BY DEF WorkInv, DfsInv, WorkTypes, Sorting, Work
<1>2. /\ Depth(w) = 1 /\ w.calls[1].left = <<>>
      /\ SetOf(w.selected) = Before(w) \ missing
      /\ w.skipped = (reg.checks \ SetOf(w.ordered)) \cup (Before(w) \cap missing)
      /\ \A i, j \in 1..m : w.selected[i] = w.selected[j] => i = j
      /\ Acyclic(reg) =>
           \A i \in 1..m : \A d \in Requires(reg, w.selected[i]) :
             \/ d \in missing /\ d \in SetOf(w.ordered)
             \/ \E j \in 1..(i - 1) : w.selected[j] = d
  BY <1>1 DEF WorkInv, SortedSoFar
<1>3. /\ w.pos \in 1..Len(w.ordered) /\ c \in CheckId
      /\ SetOf(w.ordered) = {w.ordered[i] : i \in 1..Len(w.ordered)}
      /\ SetOf(w.selected) = {w.selected[i] : i \in 1..m}
  BY <1>1, SetOfSeq
<1>4. c \notin Before(w)
  <2>1. \A i, j \in 1..Len(w.ordered) : w.ordered[i] = w.ordered[j] => i = j
    BY DEF WorkInv, DfsInv, SeenIsPlaced
  <2>2. \A i \in 1..(w.pos - 1) : i \in 1..Len(w.ordered) /\ i # w.pos
    BY <1>1
  <2> QED BY <1>3, <2>1, <2>2 DEF Before
<1>5. /\ w.pos + 1 \in Nat \ {0} /\ w.pos + 1 \in 1..(Len(w.ordered) + 1)
      /\ \A i \in 1..w.pos : i \in 1..(w.pos - 1) \/ i = w.pos
      /\ \A i \in 1..(w.pos - 1) : i \in 1..w.pos
      /\ w.pos \in 1..w.pos /\ (w.pos + 1) - 1 = w.pos
  BY <1>1
<1> HIDE DEF c, v
<1>6. /\ v \in Work /\ v.at = "items" /\ v.calls = w.calls /\ v.seen = w.seen
      /\ v.ordered = w.ordered /\ v.pos = w.pos + 1
      /\ v.skipped = IF c \in missing THEN w.skipped \cup {c} ELSE w.skipped
      /\ v.selected = IF c \in missing THEN w.selected ELSE Append(w.selected, c)
  <2>1. CASE c \in missing
    <3>1. v = [w EXCEPT !.pos = w.pos + 1, !.skipped = w.skipped \cup {c}]
      BY <1>1, <2>1 DEF Sorted, v, c
    <3>2. w.skipped \cup {c} \in SUBSET CheckId
      BY <1>1, <1>3
    <3> QED BY <1>1, <1>5, <2>1, <3>1, <3>2 DEF Work
  <2>2. CASE c \notin missing
    <3> DEFINE longer == Append(w.selected, c)
    <3>1. v = [w EXCEPT !.pos = w.pos + 1, !.selected = longer]
      BY <1>1, <2>2 DEF Sorted, v, c
    <3>2. longer \in Seq(CheckId)
      BY <1>1, <1>3
    <3> HIDE DEF longer
    <3>3. /\ v \in Work /\ v.at = "items" /\ v.calls = w.calls /\ v.seen = w.seen
          /\ v.ordered = w.ordered /\ v.pos = w.pos + 1 /\ v.skipped = w.skipped
          /\ v.selected = longer
      BY <1>1, <1>5, <2>2, <3>1, <3>2 DEF Work
    <3> QED BY <2>2, <3>3 DEF longer
  <2> QED BY <2>1, <2>2
<1>7. Depth(v) = 1
  BY <1>2, <1>6 DEF Depth
<1>8. DfsInv(reg, req, v)
  <2>1. WorkTypes(reg, req, v) /\ OnStack(reg, req, v) /\ SeenIsPlaced(reg, v)
    BY <1>2, <1>6, <1>7 DEF WorkInv, DfsInv, WorkTypes, OnStack, SeenIsPlaced
  <2>2. OnlyReached(reg, req, v)
    BY <1>1, <1>2, <1>6, <1>7 DEF WorkInv, DfsInv, OnlyReached
  <2>3. PlacedInOrder(reg, v)
    <3>1. v.ordered = w.ordered /\ PlacedInOrder(reg, w)
      BY <1>6 DEF WorkInv, DfsInv
    <3> QED BY <3>1, ZenonT(30) DEF PlacedInOrder
  <2> QED BY <2>1, <2>2, <2>3 DEF DfsInv
<1>9. Before(v) = Before(w) \cup {c}
  BY <1>5, <1>6 DEF Before, c
<1>10. v.skipped = (reg.checks \ SetOf(v.ordered)) \cup (Before(v) \cap missing)
  BY <1>2, <1>6, <1>9
<1>11. CASE c \in missing
  <2>1. SetOf(v.selected) = Before(v) \ missing
    BY <1>2, <1>6, <1>9, <1>11
  <2>2. v.selected = w.selected /\ v.ordered = w.ordered
    BY <1>6, <1>11
  <2>3. v.calls[1].left = <<>> /\ v.pos \in 1..(Len(v.ordered) + 1)
    BY <1>2, <1>5, <1>6
  <2>4. \A i, j \in 1..Len(v.selected) : v.selected[i] = v.selected[j] => i = j
    BY <1>2, <2>2
  <2>5. Acyclic(reg) =>
          \A i \in 1..Len(v.selected) : \A d \in Requires(reg, v.selected[i]) :
            \/ d \in missing /\ d \in SetOf(v.ordered)
            \/ \E j \in 1..(i - 1) : v.selected[j] = d
    BY <1>2, <2>2
  <2>6. SortedSoFar(reg, req, v)
    BY <1>7, <1>10, <2>1, <2>3, <2>4, <2>5 DEF SortedSoFar
  <2> QED BY <1>6, <1>8, <2>6 DEF WorkInv, Unsorted, v
<1>12. CASE c \notin missing
  <2>1. /\ Len(v.selected) = m + 1 /\ v.selected[m + 1] = c
        /\ \A i \in 1..m : v.selected[i] = w.selected[i]
        /\ SetOf(v.selected) = SetOf(w.selected) \cup {c}
    BY <1>1, <1>3, <1>6, <1>12, SetOfAppend
  <2>2. SetOf(v.selected) = Before(v) \ missing
    BY <1>2, <1>9, <1>12, <2>1
  <2>3. \A i \in 1..(m + 1) : i \in 1..m \/ i = m + 1
    BY <1>1
  <2>4. ASSUME NEW i \in 1..(m + 1), NEW j \in 1..(m + 1), v.selected[i] = v.selected[j]
        PROVE  i = j
    <3>1. \A x \in 1..m : v.selected[x] # c
      BY <1>2, <1>3, <1>4, <2>1
    <3>2. \A x, y \in 1..m : v.selected[x] = v.selected[y] => x = y
      BY <1>2, <2>1
    <3> QED BY <2>1, <2>3, <2>4, <3>1, <3>2
  <2>5. ASSUME Acyclic(reg), NEW i \in 1..(m + 1),
               NEW d \in Requires(reg, v.selected[i])
        PROVE  \/ d \in missing /\ d \in SetOf(v.ordered)
               \/ \E j \in 1..(i - 1) : v.selected[j] = d
    <3>1. CASE i \in 1..m
      <4>1. \A j \in 1..(i - 1) : j \in 1..m
        BY <1>1, <3>1
      <4>2. v.selected[i] = w.selected[i] /\ v.ordered = w.ordered
        BY <1>6, <2>1, <3>1
      <4>3. d \in Requires(reg, w.selected[i])
        BY <2>5, <4>2
      <4>4. \/ d \in missing /\ d \in SetOf(w.ordered)
            \/ \E j \in 1..(i - 1) : w.selected[j] = d
        BY <1>2, <2>5, <3>1, <4>3
      <4>5. ASSUME NEW j \in 1..(i - 1), w.selected[j] = d
            PROVE  v.selected[j] = d
        BY <2>1, <4>1, <4>5
      <4>6. (\E j \in 1..(i - 1) : w.selected[j] = d) =>
               \E j \in 1..(i - 1) : v.selected[j] = d
        BY <4>5, Zenon
      <4> HIDE DEF missing
      <4> QED BY <4>2, <4>4, <4>6, Zenon
    <3>2. CASE i = m + 1
      <4>1. d \in Requires(reg, c) /\ i - 1 = m
        BY <1>1, <2>1, <2>5, <3>2
      <4>2. PICK j \in 1..(w.pos - 1) : w.ordered[j] = d
        BY <1>3, <2>5, <4>1 DEF WorkInv, DfsInv, PlacedInOrder, c
      <4>3. d \in Before(w) /\ j \in 1..Len(w.ordered)
        BY <1>1, <4>2 DEF Before
      <4>4. CASE d \in missing
        BY <1>3, <1>6, <4>2, <4>3, <4>4
      <4>5. CASE d \notin missing
        <5>1. PICK x \in 1..m : w.selected[x] = d
          BY <1>2, <1>3, <4>3, <4>5
        <5> QED BY <2>1, <4>1, <5>1
      <4> QED BY <4>4, <4>5
    <3> QED BY <2>3, <3>1, <3>2
  <2> HIDE DEF m
  <2>6. SortedSoFar(reg, req, v)
    BY <1>2, <1>5, <1>6, <1>7, <1>10, <2>1, <2>2, <2>4, <2>5 DEF SortedSoFar
  <2> QED BY <1>6, <1>8, <2>6 DEF WorkInv, Unsorted, v
<1> QED BY <1>11, <1>12

LEMMA PlanningStep == PlanningInv /\ [PlanningNext]_planningVars => PlanningInv'
<1> SUFFICES ASSUME PlanningInv, [PlanningNext]_planningVars PROVE PlanningInv'
  OBVIOUS
<1>1. WorkInv(registry, request, work) /\ PlanIsOfWork /\ work.at \in {"visit", "items", "KeyError"}
  BY DEF PlanningInv, WorkInv, DfsInv, WorkTypes, Work
<1>2. CASE UNCHANGED planningVars
  BY <1>1, <1>2 DEF planningVars, PlanningInv, PlanIsOfWork
<1>3. ASSUME NEW w, Works(w), WorkInv(registry, request, w),
             work.at = "visit" \/ Sorting(work)
      PROVE  PlanningInv'
  <2>1. work' = w /\ registry' = registry /\ request' = request /\ made' = made
    BY <1>3 DEF Works
  <2>2. made = NoPlan
    <3>1. work.at # "KeyError" /\ (work.at = "items" => work.pos <= Len(work.ordered))
      BY <1>3 DEF Sorting
    <3>2. Len(work.ordered) \in Nat
      BY <1>1 DEF WorkInv, DfsInv, WorkTypes, Work
    <3> QED BY <1>1, <3>1, <3>2 DEF PlanIsOfWork
  <2> QED BY <1>3, <2>1, <2>2 DEF PlanningInv, PlanIsOfWork
<1>4. CASE Visit
  BY <1>1, <1>3, <1>4, VisitedKeeps DEF Visit, Visiting
<1>5. CASE ReturnVisit
  BY <1>1, <1>3, <1>5, ReturnedKeeps DEF ReturnVisit, Returning
<1>6. CASE Resolve
  BY <1>1, <1>3, <1>6, ResolvedKeeps DEF Resolve, Resolving
<1>7. CASE Sort
  BY <1>1, <1>3, <1>7, SortedKeeps DEF Sort
<1>8. CASE Finish
  <2>1. /\ work.at = "items" /\ ~Sorting(work)
        /\ made' = PlanOf(registry, request, work)
        /\ UNCHANGED <<registry, request, work>>
    BY <1>8 DEF Finish, Answers
  <2>2. work.pos = Len(work.ordered) + 1
    <3>1. work.pos \in 1..(Len(work.ordered) + 1) /\ Len(work.ordered) \in Nat
      BY <1>1, <2>1 DEF WorkInv, DfsInv, WorkTypes, Work, SortedSoFar
    <3> QED BY <2>1, <3>1 DEF Sorting
  <2>3. made' = PlanOf(registry, request, work)'
    BY <2>1 DEF PlanOf
  <2> QED BY <1>1, <2>1, <2>2, <2>3 DEF PlanningInv, PlanIsOfWork
<1>9. CASE RaiseKeyError
  BY <1>1, <1>9 DEF RaiseKeyError, Answers, PlanningInv, PlanIsOfWork
<1>10. CASE Planned
  BY <1>2, <1>10 DEF Planned
<1> QED BY <1>2, <1>4, <1>5, <1>6, <1>7, <1>8, <1>9, <1>10 DEF PlanningNext

LEMMA PlanningInvariance == PlanningSpec => []PlanningInv
<1>1. ASSUME PlanningInit PROVE PlanningInv
  <2>1. PICK input \in Inputs : registry = input[1] /\ request = input[2]
    BY <1>1 DEF PlanningInit
  <2>2. RegistryOK(registry) /\ RequestOK(request)
    BY <2>1, InputsAssumption DEF InputsOK
  <2>3. work = Started(registry, request) /\ made = NoPlan
    BY <1>1 DEF PlanningInit
  <2> QED BY <2>2, <2>3, StartedIs DEF PlanningInv, PlanIsOfWork
<1> QED BY <1>1, PlanningStep, PTL DEF PlanningSpec

(* The least closed set exists: what every closed set has.                 *)
LEMMA ClosureIs ==
  ASSUME NEW reg, NEW req, RegistryOK(reg), RequestOK(req)
  PROVE  LET s == Closure(reg, Requested(reg, req))
         IN  /\ IsClosed(reg, req, s)
             /\ \A t : IsClosed(reg, req, t) => s \subseteq t
<1> DEFINE ids == Requested(reg, req)
           Least(s) == /\ Closed(reg, ids, s)
                       /\ \A t \in SUBSET CheckId :
                            Closed(reg, ids, t) => s \subseteq t
           all == {c \in CheckId : \A t : IsClosed(reg, req, t) => c \in t}
<1>1. /\ ids \subseteq CheckId /\ reg.checks \subseteq CheckId
      /\ \A c \in reg.checks : ToSet(reg.dependencies[c]) \subseteq CheckId
  BY RegistryTypes DEF Requires, SetOf
<1> HIDE DEF ids
<1>2. Least(all)
  BY <1>1 DEF Closed, IsClosed, ids
<1>3. all \in SUBSET CheckId
  OBVIOUS
<1> HIDE DEF all
<1>4. \E s \in SUBSET CheckId : Least(s)
  BY <1>2, <1>3
<1> HIDE DEF Least
<1> DEFINE s == CHOOSE x \in SUBSET CheckId : Least(x)
<1>5. s \in SUBSET CheckId /\ Least(s)
  BY <1>4
<1>6. Closure(reg, ids) = s
  BY DEF Closure, Least
<1> HIDE DEF s
<1> QED BY <1>5, <1>6 DEF Least, IsClosed, ids

(* Once the search is over, what it placed is the closure.                 *)
LEMMA PlacedIsTheClosure ==
  ASSUME NEW reg, NEW req, NEW w, DfsInv(reg, req, w),
         Depth(w) = 1, w.calls[1].left = <<>>
  PROVE  /\ SetOf(w.ordered) = Closure(reg, Requested(reg, req))
         /\ SetOf(w.ordered) \subseteq reg.checks
<1> DEFINE s == Closure(reg, Requested(reg, req))
<1>1. IsClosed(reg, req, s) /\ \A t : IsClosed(reg, req, t) => s \subseteq t
  BY ClosureIs DEF DfsInv, WorkTypes
<1>2. w.seen \subseteq SetOf(w.ordered) /\ SetOf(w.ordered) \subseteq w.seen
  <2>1. 2..Depth(w) = {}
    OBVIOUS
  <2> QED BY <2>1 DEF DfsInv, SeenIsPlaced
<1>3. /\ SetOf(w.ordered) \subseteq reg.checks
      /\ \A c \in SetOf(w.ordered) : Requires(reg, c) \subseteq w.seen
  BY DEF DfsInv, SeenIsPlaced
<1>4. Requested(reg, req) \subseteq w.seen
  BY SetOfEmpty DEF DfsInv, OnStack
<1>5. w.seen \subseteq CheckId
  BY DEF DfsInv, WorkTypes, Work
<1>6. IsClosed(reg, req, w.seen)
  BY <1>2, <1>3, <1>4, <1>5 DEF IsClosed, Closed, Requires, SetOf
<1>7. w.seen \subseteq s
  BY <1>1 DEF DfsInv, OnlyReached
<1>8. s \subseteq w.seen
  BY <1>1, <1>6
<1> QED BY <1>2, <1>3, <1>7, <1>8

(* What the plan says, of the work it was made from.                       *)
LEMMA MadeIs ==
  ASSUME PlanningInv, Made
  PROVE  /\ made = PlanOf(registry, request, work)
         /\ DfsInv(registry, request, work)
         /\ work.at = "items" /\ Depth(work) = 1 /\ work.calls[1].left = <<>>
         /\ made.selected = work.selected /\ made.selected \in Seq(CheckId)
         /\ made.skipped = work.skipped /\ made.skipped \subseteq CheckId
         /\ SetOf(work.selected) = SetOf(work.ordered) \ request.missing_prereqs
         /\ work.skipped = registry.checks \ SetOf(work.selected)
         /\ \A i, j \in 1..Len(work.selected) :
              work.selected[i] = work.selected[j] => i = j
<1>1. made = PlanOf(registry, request, work) /\ work.at = "items"
      /\ work.pos = Len(work.ordered) + 1
  BY DEF PlanningInv, PlanIsOfWork, Made, NoPlan, KeyError
<1>2. DfsInv(registry, request, work) /\ SortedSoFar(registry, request, work)
  BY DEF PlanningInv, WorkInv
<1>3. /\ work.ordered \in Seq(CheckId) /\ work.selected \in Seq(CheckId)
      /\ work.skipped \subseteq CheckId
  BY <1>2 DEF DfsInv, WorkTypes, Work
<1>4. Before(work) = SetOf(work.ordered)
  <2>1. work.pos - 1 = Len(work.ordered)
    BY <1>1, <1>3
  <2>2. SetOf(work.ordered) = {work.ordered[i] : i \in 1..Len(work.ordered)}
    BY <1>3, SetOfSeq
  <2> QED BY <2>1, <2>2 DEF Before
<1>5. made.selected = work.selected /\ made.skipped = work.skipped
  BY <1>1 DEF PlanOf
<1>6. /\ Depth(work) = 1 /\ work.calls[1].left = <<>>
      /\ SetOf(work.selected) = SetOf(work.ordered) \ request.missing_prereqs
      /\ work.skipped = (registry.checks \ SetOf(work.ordered))
                          \cup (SetOf(work.ordered) \cap request.missing_prereqs)
      /\ \A i, j \in 1..Len(work.selected) :
           work.selected[i] = work.selected[j] => i = j
  BY <1>1, <1>2, <1>4 DEF SortedSoFar
<1>7. SetOf(work.ordered) \subseteq registry.checks
  BY <1>2, <1>6, PlacedIsTheClosure
<1>8. work.skipped = registry.checks \ SetOf(work.selected)
  BY <1>6, <1>7
<1> QED BY <1>1, <1>2, <1>3, <1>5, <1>6, <1>8

(* For every registry and request the planner takes exactly the closure of *)
(* the profile under dependencies, each check once, and fails exactly when *)
(* the closure leaves the registry: the set `seen' of _resolve_dependencies*)
(* neither loses a check nor visits one too many.                          *)
THEOREM PlansTheClosure == PlanningSpec => []SelectionIsTheClosure
<1> DEFINE closure == Closure(registry, Requested(registry, request))
<1>1. ASSUME PlanningInv, made.status = "KeyError" PROVE ~(closure \subseteq registry.checks)
  <2>1. work.at = "KeyError"
    BY <1>1 DEF PlanningInv, PlanIsOfWork, NoPlan, PlanOf
  <2>2. PICK c \in CheckId \ registry.checks :
          \A t : IsClosed(registry, request, t) => c \in t
    BY <1>1, <2>1 DEF PlanningInv, WorkInv, DfsInv, OnlyReached
  <2>3. IsClosed(registry, request, closure)
    BY <1>1, ClosureIs DEF PlanningInv, WorkInv, DfsInv, WorkTypes
  <2> QED BY <2>2, <2>3
<1>2. ASSUME PlanningInv, Made
      PROVE  /\ closure \subseteq registry.checks
             /\ ToSet(made.selected) = closure \ request.missing_prereqs
             /\ made.skipped = registry.checks \ ToSet(made.selected)
             /\ \A i, j \in DOMAIN made.selected :
                  made.selected[i] = made.selected[j] => i = j
  <2>1. SetOf(work.ordered) = closure /\ closure \subseteq registry.checks
    BY <1>2, MadeIs, PlacedIsTheClosure
  <2>2. DOMAIN made.selected = 1..Len(work.selected)
    BY <1>2, MadeIs
  <2> QED BY <1>2, <2>1, <2>2, MadeIs DEF SetOf
<1>3. PlanningInv => SelectionIsTheClosure
  BY <1>1, <1>2 DEF SelectionIsTheClosure, Requested, SetOf
<1> QED BY <1>3, PlanningInvariance, PTL

(* A dependency of a selected check is skipped or stands before it.        *)
LEMMA MadeInOrder ==
  ASSUME PlanningInv, Made, Acyclic(registry),
         NEW i \in DOMAIN made.selected, NEW d \in made.dependencies[made.selected[i]]
  PROVE  d \in made.skipped \/ \E j \in 1..(i - 1) : made.selected[j] = d
<1>1. /\ made.selected = work.selected /\ made.skipped = work.skipped
      /\ made.selected \in Seq(CheckId)
      /\ i \in 1..Len(work.selected) /\ made.selected[i] \in CheckId
  BY MadeIs
<1>2. d \in Requires(registry, work.selected[i])
  <2>1. made.dependencies[made.selected[i]] =
          IF made.selected[i] \in registry.checks
          THEN ToSet(registry.dependencies[made.selected[i]]) ELSE {}
    BY <1>1, MadeIs DEF PlanOf
  <2> QED BY <1>1, <2>1 DEF Requires, SetOf
<1>3. \/ d \in request.missing_prereqs /\ d \in SetOf(work.ordered)
      \/ \E j \in 1..(i - 1) : work.selected[j] = d
  BY <1>1, <1>2, MadeIs DEF PlanningInv, WorkInv, SortedSoFar
<1>4. CASE d \in request.missing_prereqs /\ d \in SetOf(work.ordered)
  BY <1>1, <1>4, MadeIs, PlacedIsTheClosure
<1> QED BY <1>1, <1>3, <1>4

(* For every acyclic registry the plan lists a dependency before what needs*)
(* it: visit places a check when all its dependencies are placed, the one  *)
(* exception being a dependency still on the stack, which closes a cycle.  *)
THEOREM PlansInOrder == PlanningSpec => []PlanOrderIsTopological
<1>1. PlanningInv => PlanOrderIsTopological
  BY MadeInOrder DEF PlanOrderIsTopological
<1> QED BY <1>1, PlanningInvariance, PTL

(* The plans the planner makes are the plans the runner is proved for:     *)
(* they have the shape PlansAssumption asks of them and, from an acyclic   *)
(* registry, the order that DependencyOrder and CompleteReport rest on.    *)
THEOREM PlansFitTheRunner ==
  PlanningSpec => [](Made =>
    /\ IsPlan(made)
    /\ Acyclic(registry) => TopologicallyOrdered(made))
<1>1. ASSUME PlanningInv, Made PROVE IsPlan(made)
  <2>1. /\ RegistryOK(registry) /\ RequestOK(request)
        /\ made = PlanOf(registry, request, work)
    BY <1>1, MadeIs DEF DfsInv, WorkTypes
  <2>2. made.profile \in Profiles
    BY <2>1, ProfileIs DEF PlanOf, Profiles
  <2>3. /\ made.selected \in Seq(CheckId) /\ made.skipped \subseteq CheckId
        /\ \A i, j \in DOMAIN made.selected : made.selected[i] = made.selected[j] => i = j
    BY <1>1, MadeIs
  <2>4. \A i \in DOMAIN made.selected : made.selected[i] \notin made.skipped
    BY <1>1, MadeIs DEF SetOf, ToSet
  <2>5. made.dependencies \in [CheckId -> SUBSET CheckId]
    <3>1. made.dependencies = [c \in CheckId |-> IF c \in registry.checks
                                 THEN Requires(registry, c) ELSE {}]
      BY <2>1 DEF PlanOf, Requires, SetOf
    <3>2. \A c \in registry.checks : Requires(registry, c) \subseteq CheckId
      BY <2>1, RegistryTypes
    <3> QED BY <3>1, <3>2
  <2>6. /\ made.parallel_safe \subseteq CheckId /\ made.blocking \subseteq CheckId
        /\ made.cacheable \subseteq CheckId /\ made.wired \subseteq CheckId
        /\ made.max_attempts \in [CheckId -> Nat \ {0}]
    BY <2>1 DEF PlanOf, RegistryOK
  <2> QED BY <2>2, <2>3, <2>4, <2>5, <2>6 DEF IsPlan
<1>2. ASSUME PlanningInv, Made, Acyclic(registry)
      PROVE  TopologicallyOrdered(made)
  <2>1. SUFFICES ASSUME NEW i \in DOMAIN made.selected,
                        NEW d \in made.dependencies[made.selected[i]],
                        d \notin made.skipped
                 PROVE  \E j \in DOMAIN made.selected : j < i /\ made.selected[j] = d
    BY DEF TopologicallyOrdered
  <2>2. PICK j \in 1..(i - 1) : made.selected[j] = d
    BY <1>2, <2>1, MadeInOrder
  <2>3. made.selected \in Seq(CheckId)
    BY <1>2, MadeIs
  <2>4. j \in DOMAIN made.selected /\ j < i
    BY <2>1, <2>2, <2>3
  <2> QED BY <2>2, <2>4
<1> QED BY <1>1, <1>2, PlanningInvariance, PTL
=============================================================================
