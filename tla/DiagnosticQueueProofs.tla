------------------------ MODULE DiagnosticQueueProofs -----------------------
(***************************************************************************)
(* Proofs about DiagnosticQueue: the file stays loadable under any number  *)
(* of processes and crashes; and as long as one process runs at a time,    *)
(* the load and replace steps implement the atomic operations of JobQueue  *)
(* and no job is diagnosed twice.                                          *)
(***************************************************************************)
EXTENDS DiagnosticQueue, FiniteSetTheorems, TLAPS

USE DEF Labels

LEMMA RecordConstructors ==
  ASSUME NEW r \in Records
  PROVE  /\ Claimed(r) \in Records /\ Completed(r) \in Records /\ Failed(r) \in Records
         /\ PendingRecord \in Records /\ AbsentRecord \in Records
         /\ ValidRecord(AbsentRecord)
BY DEF Claimed, Completed, Failed, PendingRecord, AbsentRecord, NoEvidence, ValidRecord,
       Records

(* The prepared snapshot is a queue. *)
LEMMA PreparedSnapshot ==
  ASSUME TypeOK, NEW p \in Proc, NEW j \in Job, NEW r \in Records, Prepare(p, j, r)
  PROVE  snapshot' \in [Proc -> [Job -> Records]]
BY DEF TypeOK, Prepare

LEMMA InitType == Init => TypeOK
<1> SUFFICES ASSUME Init PROVE TypeOK
  OBVIOUS
<1>1. AbsentRecord \in Records /\ ValidRecord(AbsentRecord)
  BY DEF AbsentRecord, NoEvidence, ValidRecord, Records
<1>2. queue \in [Job -> Records] /\ \A j \in Job : ValidRecord(queue[j])
  BY <1>1 DEF Init
<1>3. snapshot \in [Proc -> [Job -> Records]]
  BY <1>1 DEF Init
<1> QED
  BY <1>2, <1>3, BoundsAssumption DEF Init, TypeOK

(* A write that passes validation leaves a loadable file. *)
LEMMA WrittenQueue ==
  ASSUME TypeOK, NEW p \in Proc, WriteQueue(p)
  PROVE  queue' \in [Job -> Records] /\ \A j \in Job : ValidRecord(queue'[j])
BY DEF TypeOK, WriteQueue

LEMMA StartType == ASSUME TypeOK, NEW p \in Proc, Start(p) PROVE TypeOK'
<1>1. ASSUME NEW j \in Job, EnqueueLoad(p, j) PROVE TypeOK'
  <2>1. PendingRecord \in Records
    BY DEF PendingRecord, NoEvidence, Records
  <2>2. snapshot' \in [Proc -> [Job -> Records]]
    BY <1>1, <2>1, PreparedSnapshot DEF EnqueueLoad
  <2>3. job' \in [Proc -> Job \cup {NoJob}] /\ job'[p] = j
    BY <1>1 DEF EnqueueLoad, TypeOK
  <2>4. commands' \in 0..MaxCommands
    BY <1>1, BoundsAssumption DEF EnqueueLoad, StartCommand, TypeOK
  <2>5. \A q \in Proc : q # p => pc'[q] = pc[q] /\ job'[q] = job[q]
    BY <1>1 DEF EnqueueLoad, Goto, TypeOK
  <2>6. pc' \in [Proc -> Labels]
    BY <1>1 DEF EnqueueLoad, Goto, TypeOK
  <2> QED
    BY <1>1, <2>2, <2>3, <2>4, <2>5, <2>6 DEF EnqueueLoad, TypeOK
<1>2. ASSUME NEW j \in Job, EnqueueDuplicate(p, j) PROVE TypeOK'
  BY <1>2, BoundsAssumption DEF EnqueueDuplicate, StartCommand, TypeOK
<1>3. ASSUME NEW n \in 1..MaxJobs, StartRunner(p, n) PROVE TypeOK'
  BY <1>3, BoundsAssumption DEF StartRunner, StartCommand, Goto, TypeOK
<1> QED
  BY <1>1, <1>2, <1>3 DEF Start

LEMMA StepType == ASSUME TypeOK, NEW p \in Proc, Step(p) PROVE TypeOK'
<1>1. CASE EnqueueWrite(p)
  BY <1>1, WrittenQueue DEF EnqueueWrite, Goto, TypeOK
<1>2. CASE BeginJob(p)
  BY <1>2 DEF BeginJob, Goto, TypeOK
<1>3. CASE StopDrained(p) \/ StopAtMaxJobs(p)
  BY <1>3 DEF StopDrained, StopAtMaxJobs, Goto, TypeOK
<1>4. CASE RecordFailure(p) \/ Report(p)
  BY <1>4 DEF RecordFailure, Report, Goto, TypeOK
<1>5. CASE ClaimLoad(p)
  <2>1. PICK j \in Job : Prepare(p, j, Claimed(queue[j])) /\ job' = [job EXCEPT ![p] = j]
    BY <1>5 DEF ClaimLoad
  <2>2. Claimed(queue[j]) \in Records
    BY RecordConstructors DEF TypeOK
  <2>3. snapshot' \in [Proc -> [Job -> Records]]
    BY <2>1, <2>2, PreparedSnapshot
  <2> QED
    BY <1>5, <2>1, <2>3 DEF ClaimLoad, Goto, TypeOK
<1>6. CASE ClaimNothing(p)
  BY <1>6 DEF ClaimNothing, Goto, TypeOK
<1>7. CASE ClaimWrite(p)
  BY <1>7, WrittenQueue DEF ClaimWrite, Goto, TypeOK
<1>8. CASE Work(p)
  <2>1. executed' \in [Job -> Nat]
    BY <1>8 DEF Work, TypeOK
  <2>2. CASE Goto(p, "complete")
    BY <1>8, <2>1, <2>2 DEF Work, Goto, TypeOK
  <2>3. CASE Goto(p, "fail")
    BY <1>8, <2>1, <2>3 DEF Work, Goto, TypeOK
  <2> QED
    BY <1>8, <2>2, <2>3 DEF Work
<1>9. CASE CompleteLoad(p)
  <2>1. Completed(queue[job[p]]) \in Records /\ job[p] \in Job
    BY <1>9, RecordConstructors DEF CompleteLoad, TypeOK
  <2>2. snapshot' \in [Proc -> [Job -> Records]]
    BY <1>9, <2>1, PreparedSnapshot DEF CompleteLoad
  <2> QED
    BY <1>9, <2>2 DEF CompleteLoad, Goto, TypeOK
<1>10. CASE CompleteRejected(p)
  BY <1>10 DEF CompleteRejected, Goto, TypeOK
<1>11. CASE CompleteWrite(p)
  BY <1>11, WrittenQueue DEF CompleteWrite, Goto, TypeOK
<1>12. CASE FailLoad(p)
  <2>1. Failed(queue[job[p]]) \in Records /\ job[p] \in Job
    BY <1>12, RecordConstructors DEF FailLoad, TypeOK
  <2>2. snapshot' \in [Proc -> [Job -> Records]]
    BY <1>12, <2>1, PreparedSnapshot DEF FailLoad
  <2> QED
    BY <1>12, <2>2 DEF FailLoad, Goto, TypeOK
<1>13. CASE FailRejected(p)
  BY <1>13 DEF FailRejected, Goto, TypeOK
<1>14. CASE FailWrite(p)
  BY <1>14, WrittenQueue DEF FailWrite, Goto, TypeOK
<1>15. CASE WriteFails(p)
  BY <1>15 DEF WriteFails, Goto, TypeOK
<1> QED
  BY <1>1, <1>2, <1>3, <1>4, <1>5, <1>6, <1>7, <1>8, <1>9, <1>10, <1>11, <1>12, <1>13,
     <1>14, <1>15 DEF Step

(* Whatever processes interleave, fail to write or are killed, every record *)
(* of the queue file passes _validate_record and load_queue accepts it.     *)
THEOREM QueueStaysLoadable == Spec => []TypeOK
<1>1. TypeOK /\ [Next]_vars => TypeOK'
  <2> SUFFICES ASSUME TypeOK, [Next]_vars PROVE TypeOK'
    OBVIOUS
  <2>1. ASSUME NEW p \in Proc, Crash(p) PROVE TypeOK'
    BY <2>1 DEF Crash, Goto, TypeOK
  <2>2. CASE UNCHANGED vars
    BY <2>2 DEF vars, TypeOK
  <2> QED
    BY <2>1, <2>2, StartType, StepType DEF Next, Quiet
<1> QED
  BY <1>1, InitType, PTL DEF Spec

----------------------------------------------------------------------------
(* One process at a time. *)

Alone == \A p, q \in Proc : p = q

(* What process p is about to write changes one record of the file as it   *)
(* still is.                                                               *)
Rewrites(p, record) == snapshot[p] = [queue EXCEPT ![job[p]] = record]

FreshSnapshot ==
  \A p \in Proc :
    /\ pc[p] = "enqueue_write" =>
         queue[job[p]].state = "absent" /\ Rewrites(p, PendingRecord)
    /\ pc[p] = "claim_write" =>
         IsFirstPending(job[p]) /\ Rewrites(p, Claimed(queue[job[p]]))
    /\ pc[p] = "complete_write" =>
         queue[job[p]].state = "claimed" /\ Rewrites(p, Completed(queue[job[p]]))
    /\ pc[p] = "fail_write" =>
         queue[job[p]].state = "claimed" /\ Rewrites(p, Failed(queue[job[p]]))

(* A job that was diagnosed has left "pending" for good. *)
DiagnosedWasClaimed ==
  /\ \A j \in Job :
       /\ executed[j] <= 1
       /\ executed[j] > 0 => queue[j].state \in {"claimed", "completed", "failed"}
  /\ \A p \in Proc : pc[p] = "work" =>
       executed[job[p]] = 0 /\ queue[job[p]].state = "claimed"

LEMMA FreshSnapshotInit == Init => FreshSnapshot
BY DEF Init, FreshSnapshot

(* Only a write of the process itself changes the file, and a write is not *)
(* followed by another without a load.                                     *)
LEMMA FreshSnapshotStep ==
  ASSUME Alone, TypeOK, FreshSnapshot, [Next]_vars
  PROVE  FreshSnapshot'
<1>1. ASSUME NEW p \in Proc, NEW j \in Job, EnqueueLoad(p, j) PROVE FreshSnapshot'
  <2>1. pc'[p] = "enqueue_write" /\ job'[p] = j /\ queue' = queue
    BY <1>1 DEF EnqueueLoad, Goto, TypeOK
  <2>2. snapshot'[p] = [queue EXCEPT ![j] = PendingRecord]
    BY <1>1 DEF EnqueueLoad, Prepare, TypeOK
  <2>3. queue[j].state = "absent"
    BY <1>1 DEF EnqueueLoad
  <2> QED
    BY <2>1, <2>2, <2>3 DEF Alone, FreshSnapshot, Rewrites
<1>2. ASSUME NEW p \in Proc, ClaimLoad(p) PROVE FreshSnapshot'
  <2>1. PICK j \in Job : /\ IsFirstPending(j)
                         /\ Prepare(p, j, Claimed(queue[j]))
                         /\ job' = [job EXCEPT ![p] = j]
    BY <1>2 DEF ClaimLoad
  <2>2. pc'[p] = "claim_write" /\ job'[p] = j /\ queue' = queue
    BY <1>2, <2>1 DEF ClaimLoad, Goto, TypeOK
  <2>3. snapshot'[p] = [queue EXCEPT ![j] = Claimed(queue[j])]
    BY <2>1 DEF Prepare, TypeOK
  <2>4. IsFirstPending(j)'
    BY <2>1, <2>2 DEF IsFirstPending, Pending
  <2> QED
    BY <2>2, <2>3, <2>4 DEF Alone, FreshSnapshot, Rewrites
<1>3. ASSUME NEW p \in Proc, CompleteLoad(p) PROVE FreshSnapshot'
  <2>1. pc'[p] = "complete_write" /\ job' = job /\ queue' = queue
    BY <1>3 DEF CompleteLoad, Goto, TypeOK
  <2>2. snapshot'[p] = [queue EXCEPT ![job[p]] = Completed(queue[job[p]])]
    BY <1>3 DEF CompleteLoad, Prepare, TypeOK
  <2>3. queue[job[p]].state = "claimed"
    BY <1>3 DEF CompleteLoad
  <2> QED
    BY <2>1, <2>2, <2>3 DEF Alone, FreshSnapshot, Rewrites
<1>4. ASSUME NEW p \in Proc, FailLoad(p) PROVE FreshSnapshot'
  <2>1. pc'[p] = "fail_write" /\ job' = job /\ queue' = queue
    BY <1>4 DEF FailLoad, Goto, TypeOK
  <2>2. snapshot'[p] = [queue EXCEPT ![job[p]] = Failed(queue[job[p]])]
    BY <1>4 DEF FailLoad, Prepare, TypeOK
  <2>3. queue[job[p]].state = "claimed"
    BY <1>4 DEF FailLoad
  <2> QED
    BY <2>1, <2>2, <2>3 DEF Alone, FreshSnapshot, Rewrites
(* Every other step of p leaves it outside the four writing labels. *)
<1>5. ASSUME NEW p \in Proc,
             pc'[p] \notin {"enqueue_write", "claim_write", "complete_write", "fail_write"}
      PROVE  FreshSnapshot'
  BY <1>5 DEF Alone, FreshSnapshot
<1>6. ASSUME NEW p \in Proc, Start(p) PROVE FreshSnapshot'
  <2>1. ASSUME NEW j \in Job, EnqueueDuplicate(p, j) PROVE FreshSnapshot'
    <3>1. pc'[p] = "idle"
      BY <2>1 DEF EnqueueDuplicate, StartCommand
    <3> QED
      BY <3>1, <1>5
  <2>2. ASSUME NEW n \in 1..MaxJobs, StartRunner(p, n) PROVE FreshSnapshot'
    <3>1. pc'[p] = "next"
      BY <2>2 DEF StartRunner, Goto, TypeOK
    <3> QED
      BY <3>1, <1>5
  <2> QED
    BY <1>1, <1>6, <2>1, <2>2 DEF Start
<1>7. ASSUME NEW p \in Proc,
             \/ EnqueueWrite(p) \/ ClaimWrite(p) \/ CompleteWrite(p) \/ FailWrite(p)
             \/ BeginJob(p) \/ StopDrained(p) \/ StopAtMaxJobs(p) \/ RecordFailure(p)
             \/ Report(p) \/ ClaimNothing(p) \/ Work(p) \/ CompleteRejected(p)
             \/ FailRejected(p) \/ WriteFails(p) \/ Crash(p)
      PROVE  FreshSnapshot'
  <2>1. pc'[p] \in {"idle", "next", "report", "raised", "claim", "work", "complete", "fail"}
    BY <1>7 DEF EnqueueWrite, ClaimWrite, CompleteWrite, FailWrite, BeginJob, StopDrained,
                StopAtMaxJobs, RecordFailure, Report, ClaimNothing, Work, CompleteRejected,
                FailRejected, WriteFails, Crash, Goto, TypeOK
  <2> QED
    BY <2>1, <1>5
<1>8. CASE UNCHANGED vars
  BY <1>8 DEF vars, FreshSnapshot, Rewrites, IsFirstPending, Pending
<1> QED
  BY <1>2, <1>3, <1>4, <1>6, <1>7, <1>8 DEF Next, Step, Quiet

(* A step of the only process changes no record of the file, or writes one. *)
LEMMA QueueEffect ==
  ASSUME Alone, TypeOK, FreshSnapshot, [Next]_vars
  PROVE  \/ queue' = queue
         \/ \E p \in Proc :
              \/ /\ EnqueueWrite(p)
                 /\ queue[job[p]].state = "absent"
                 /\ queue' = [queue EXCEPT ![job[p]] = PendingRecord]
              \/ /\ ClaimWrite(p)
                 /\ IsFirstPending(job[p])
                 /\ queue' = [queue EXCEPT ![job[p]] = Claimed(queue[job[p]])]
              \/ /\ CompleteWrite(p)
                 /\ queue[job[p]].state = "claimed"
                 /\ queue' = [queue EXCEPT ![job[p]] = Completed(queue[job[p]])]
              \/ /\ FailWrite(p)
                 /\ queue[job[p]].state = "claimed"
                 /\ queue' = [queue EXCEPT ![job[p]] = Failed(queue[job[p]])]
<1>1. ASSUME NEW p \in Proc, EnqueueWrite(p)
      PROVE  /\ queue[job[p]].state = "absent"
             /\ queue' = [queue EXCEPT ![job[p]] = PendingRecord]
  BY <1>1 DEF EnqueueWrite, WriteQueue, FreshSnapshot, Rewrites
<1>2. ASSUME NEW p \in Proc, ClaimWrite(p)
      PROVE  /\ IsFirstPending(job[p])
             /\ queue' = [queue EXCEPT ![job[p]] = Claimed(queue[job[p]])]
  BY <1>2 DEF ClaimWrite, WriteQueue, FreshSnapshot, Rewrites
<1>3. ASSUME NEW p \in Proc, CompleteWrite(p)
      PROVE  /\ queue[job[p]].state = "claimed"
             /\ queue' = [queue EXCEPT ![job[p]] = Completed(queue[job[p]])]
  BY <1>3 DEF CompleteWrite, WriteQueue, FreshSnapshot, Rewrites
<1>4. ASSUME NEW p \in Proc, FailWrite(p)
      PROVE  /\ queue[job[p]].state = "claimed"
             /\ queue' = [queue EXCEPT ![job[p]] = Failed(queue[job[p]])]
  BY <1>4 DEF FailWrite, WriteQueue, FreshSnapshot, Rewrites
<1>5. ASSUME NEW p \in Proc, Start(p) \/ Crash(p) PROVE queue' = queue
  BY <1>5 DEF Start, EnqueueLoad, EnqueueDuplicate, StartRunner, Crash
<1>6. ASSUME NEW p \in Proc, Step(p),
             ~EnqueueWrite(p), ~ClaimWrite(p), ~CompleteWrite(p), ~FailWrite(p)
      PROVE  queue' = queue
  BY <1>6 DEF Step, BeginJob, StopDrained, StopAtMaxJobs, RecordFailure, Report, ClaimLoad,
              ClaimNothing, Work, CompleteLoad, CompleteRejected, FailLoad, FailRejected,
              WriteFails
<1>7. CASE UNCHANGED vars
  BY <1>7 DEF vars
<1> QED
  BY <1>1, <1>2, <1>3, <1>4, <1>5, <1>6, <1>7 DEF Next, Quiet

(* While one process runs at a time, loading and replacing the whole file  *)
(* implements the atomic operations of JobQueue, whatever fails to write   *)
(* and wherever the process is killed.                                     *)
THEOREM AtomicOperations == ASSUME Alone PROVE Spec => QueueSpec
<1> DEFINE IndInv == TypeOK /\ FreshSnapshot
<1> DEFINE state == [j \in Job |-> queue[j].state]
<1>1. Init => Abstract!Init
  BY DEF Init, Abstract!Init, AbsentRecord
<1>2. IndInv /\ [Next]_vars => [Abstract!Next]_state
  <2> SUFFICES ASSUME IndInv, [Next]_vars PROVE [Abstract!Next]_state
    OBVIOUS
  <2>1. CASE queue' = queue
    BY <2>1
  <2>2. ASSUME NEW j \in Job, NEW from, NEW r \in Records,
               queue[j].state = from, queue' = [queue EXCEPT ![j] = r]
        PROVE  Abstract!Move(j, from, r.state)
    BY <2>2 DEF TypeOK, Abstract!Move
  <2>3. ASSUME NEW p \in Proc, EnqueueWrite(p), queue[job[p]].state = "absent",
               queue' = [queue EXCEPT ![job[p]] = PendingRecord]
        PROVE  Abstract!Next
    <3>1. job[p] \in Job
      BY <2>3 DEF EnqueueWrite, TypeOK
    <3>2. PendingRecord \in Records /\ PendingRecord.state = "pending"
      BY DEF PendingRecord, NoEvidence, Records
    <3> QED
      BY <2>2, <2>3, <3>1, <3>2 DEF Abstract!Next, Abstract!Enqueue
  <2>4. ASSUME NEW p \in Proc, ClaimWrite(p), IsFirstPending(job[p]),
               queue' = [queue EXCEPT ![job[p]] = Claimed(queue[job[p]])]
        PROVE  Abstract!Next
    <3>1. job[p] \in Job /\ queue[job[p]].state = "pending"
      BY <2>4 DEF IsFirstPending, Pending
    <3>2. /\ Claimed(queue[job[p]]) \in Records
          /\ Claimed(queue[job[p]]).state = "claimed"
      BY <3>1, RecordConstructors DEF TypeOK, Claimed
    <3>3. \A k \in Job : state[k] = "pending" => SortKey[job[p]] <= SortKey[k]
      BY <2>4 DEF IsFirstPending, Pending
    <3> QED
      BY <2>2, <2>4, <3>1, <3>2, <3>3 DEF Abstract!Next, Abstract!Claim
  <2>5. ASSUME NEW p \in Proc, CompleteWrite(p), queue[job[p]].state = "claimed",
               queue' = [queue EXCEPT ![job[p]] = Completed(queue[job[p]])]
        PROVE  Abstract!Next
    <3>1. job[p] \in Job
      BY <2>5 DEF CompleteWrite, TypeOK
    <3>2. /\ Completed(queue[job[p]]) \in Records
          /\ Completed(queue[job[p]]).state = "completed"
      BY <3>1, RecordConstructors DEF TypeOK, Completed
    <3> QED
      BY <2>2, <2>5, <3>1, <3>2 DEF Abstract!Next, Abstract!Complete
  <2>6. ASSUME NEW p \in Proc, FailWrite(p), queue[job[p]].state = "claimed",
               queue' = [queue EXCEPT ![job[p]] = Failed(queue[job[p]])]
        PROVE  Abstract!Next
    <3>1. job[p] \in Job
      BY <2>6 DEF FailWrite, TypeOK
    <3>2. /\ Failed(queue[job[p]]) \in Records
          /\ Failed(queue[job[p]]).state = "failed"
      BY <3>1, RecordConstructors DEF TypeOK, Failed
    <3> QED
      BY <2>2, <2>6, <3>1, <3>2 DEF Abstract!Next, Abstract!Fail
  <2> QED
    BY QueueEffect, <2>1, <2>3, <2>4, <2>5, <2>6
<1>3. IndInv /\ [Next]_vars => FreshSnapshot'
  BY FreshSnapshotStep
<1> QED
  BY <1>1, <1>2, <1>3, QueueStaysLoadable, FreshSnapshotInit, PTL
     DEF Spec, QueueSpec, Abstract!Spec

(* No job is diagnosed a second time by later runs of a queue that one      *)
(* process at a time works on, not after a crash and not after a failure    *)
(* that could not be recorded.                                              *)
THEOREM OneDiagnosisPerJob == ASSUME Alone PROVE Spec => []JobRunOnce
<1> DEFINE IndInv == TypeOK /\ FreshSnapshot /\ DiagnosedWasClaimed
<1>1. Init => DiagnosedWasClaimed
  BY DEF Init, DiagnosedWasClaimed
<1>2. IndInv /\ [Next]_vars => DiagnosedWasClaimed'
  <2> SUFFICES ASSUME IndInv, [Next]_vars PROVE DiagnosedWasClaimed'
    OBVIOUS
  <2>1. ASSUME NEW p \in Proc, Work(p) PROVE DiagnosedWasClaimed'
    <3>1. job[p] \in Job /\ pc'[p] # "work" /\ queue' = queue
      BY <2>1 DEF Work, Goto, TypeOK
    <3>2. executed[job[p]] = 0 /\ queue[job[p]].state = "claimed"
      BY <2>1 DEF Work, DiagnosedWasClaimed
    <3>3. executed' = [executed EXCEPT ![job[p]] = 1]
      BY <2>1, <3>2 DEF Work
    <3> QED
      BY <3>1, <3>2, <3>3 DEF Alone, DiagnosedWasClaimed, TypeOK
  <2>2. ASSUME NEW p \in Proc, ClaimWrite(p), IsFirstPending(job[p]),
               queue' = [queue EXCEPT ![job[p]] = Claimed(queue[job[p]])]
        PROVE  DiagnosedWasClaimed'
    <3>1. job[p] \in Job /\ queue[job[p]].state = "pending"
      BY <2>2 DEF IsFirstPending, Pending
    <3>2. executed' = executed /\ job' = job /\ executed[job[p]] = 0
      BY <2>2, <3>1 DEF ClaimWrite, DiagnosedWasClaimed, TypeOK
    <3>3. Claimed(queue[job[p]]).state = "claimed"
      BY DEF Claimed
    <3>4. queue'[job[p]].state = "claimed"
      BY <2>2, <3>1, <3>3 DEF TypeOK
    <3>5. \A j \in Job : j # job[p] => queue'[j] = queue[j]
      BY <2>2 DEF TypeOK
    <3> QED
      BY <3>1, <3>2, <3>4, <3>5 DEF Alone, DiagnosedWasClaimed
  <2>3. ASSUME NEW p \in Proc, NEW r \in Records, pc'[p] # "work",
               executed' = executed, job[p] \in Job,
               queue' = [queue EXCEPT ![job[p]] = r],
               \/ queue[job[p]].state = "absent"
               \/ r.state \in {"completed", "failed"}
        PROVE  DiagnosedWasClaimed'
    BY <2>3 DEF Alone, DiagnosedWasClaimed, TypeOK
  <2>4. ASSUME NEW p \in Proc, EnqueueWrite(p), queue[job[p]].state = "absent",
               queue' = [queue EXCEPT ![job[p]] = PendingRecord]
        PROVE  DiagnosedWasClaimed'
    <3>1. pc'[p] # "work" /\ executed' = executed /\ job[p] \in Job
      BY <2>4 DEF EnqueueWrite, Goto, TypeOK
    <3>2. PendingRecord \in Records
      BY DEF PendingRecord, NoEvidence, Records
    <3> QED
      BY <2>3, <2>4, <3>1, <3>2
  <2>5. ASSUME NEW p \in Proc, CompleteWrite(p),
               queue' = [queue EXCEPT ![job[p]] = Completed(queue[job[p]])]
        PROVE  DiagnosedWasClaimed'
    <3>1. pc'[p] # "work" /\ executed' = executed /\ job[p] \in Job
      BY <2>5 DEF CompleteWrite, Goto, TypeOK
    <3>2. Completed(queue[job[p]]) \in Records
      BY <3>1, RecordConstructors DEF TypeOK
    <3>3. Completed(queue[job[p]]).state = "completed"
      BY DEF Completed
    <3> QED
      BY <2>3, <2>5, <3>1, <3>2, <3>3
  <2>6. ASSUME NEW p \in Proc, FailWrite(p),
               queue' = [queue EXCEPT ![job[p]] = Failed(queue[job[p]])]
        PROVE  DiagnosedWasClaimed'
    <3>1. pc'[p] # "work" /\ executed' = executed /\ job[p] \in Job
      BY <2>6 DEF FailWrite, Goto, TypeOK
    <3>2. Failed(queue[job[p]]) \in Records
      BY <3>1, RecordConstructors DEF TypeOK
    <3>3. Failed(queue[job[p]]).state = "failed"
      BY DEF Failed
    <3> QED
      BY <2>3, <2>6, <3>1, <3>2, <3>3
  (* The file and the diagnosis counts stay: only a label may change. *)
  <2>7. ASSUME NEW p \in Proc, pc'[p] # "work", executed' = executed, queue' = queue
        PROVE  DiagnosedWasClaimed'
    BY <2>7 DEF Alone, DiagnosedWasClaimed
  <2>8. CASE queue' = queue
    <3>1. ASSUME NEW p \in Proc, Start(p) PROVE DiagnosedWasClaimed'
      <4>1. executed' = executed
        BY <3>1 DEF Start, EnqueueLoad, EnqueueDuplicate, StartRunner
      <4>2. pc'[p] # "work"
        BY <3>1 DEF Start, EnqueueLoad, EnqueueDuplicate, StartRunner, StartCommand, Goto,
                    TypeOK
      <4> QED
        BY <2>7, <2>8, <4>1, <4>2
    <3>2. ASSUME NEW p \in Proc, ClaimWrite(p) PROVE DiagnosedWasClaimed'
      <4>1. IsFirstPending(job[p])
        BY <3>2 DEF ClaimWrite, FreshSnapshot
      <4>2. queue' = [queue EXCEPT ![job[p]] = Claimed(queue[job[p]])]
        BY <3>2 DEF ClaimWrite, WriteQueue, FreshSnapshot, Rewrites
      <4> QED
        BY <2>2, <3>2, <4>1, <4>2
    <3>3. ASSUME NEW p \in Proc, Step(p) \/ Crash(p), ~Work(p), ~ClaimWrite(p)
          PROVE  DiagnosedWasClaimed'
      <4>1. executed' = executed /\ pc'[p] # "work"
        BY <3>3 DEF Step, Crash, EnqueueWrite, BeginJob, StopDrained, StopAtMaxJobs,
                    RecordFailure, Report, ClaimLoad, ClaimNothing, CompleteLoad,
                    CompleteRejected, CompleteWrite, FailLoad, FailRejected, FailWrite,
                    WriteFails, Goto, TypeOK
      <4> QED
        BY <2>7, <2>8, <4>1
    <3>4. CASE UNCHANGED vars
      BY <3>4 DEF vars, DiagnosedWasClaimed
    <3> QED
      BY <2>1, <3>1, <3>2, <3>3, <3>4 DEF Next, Quiet
  <2> QED
    BY QueueEffect, <2>2, <2>4, <2>5, <2>6, <2>8
<1>3. IndInv /\ [Next]_vars => FreshSnapshot'
  BY FreshSnapshotStep
<1>4. DiagnosedWasClaimed => JobRunOnce
  BY DEF DiagnosedWasClaimed, JobRunOnce
<1> QED
  BY <1>1, <1>2, <1>3, <1>4, QueueStaysLoadable, FreshSnapshotInit, PTL DEF Spec

(* A completed or failed job keeps that state in the file: the writes that  *)
(* could undo it need a second process.                                     *)
THEOREM TerminalStatesAreFinal == ASSUME Alone PROVE Spec => []TerminalIsFinal
<1> DEFINE IndInv == TypeOK /\ FreshSnapshot /\ TerminalIsFinal
<1>1. Init => TerminalIsFinal
  BY DEF Init, TerminalIsFinal
<1>2. IndInv /\ [Next]_vars => TerminalIsFinal'
  <2> SUFFICES ASSUME IndInv, [Next]_vars PROVE TerminalIsFinal'
    OBVIOUS
  (* A record that is not terminal yet is replaced. *)
  <2>1. ASSUME NEW j \in Job, NEW r \in Records,
               queue[j].state \notin {"completed", "failed"},
               queue' = [queue EXCEPT ![j] = r],
               settled' = settled \/ settled' = [settled EXCEPT ![j] = r.state]
        PROVE  TerminalIsFinal'
    BY <2>1 DEF TerminalIsFinal, TypeOK
  <2>2. ASSUME NEW p \in Proc, EnqueueWrite(p), queue[job[p]].state = "absent",
               queue' = [queue EXCEPT ![job[p]] = PendingRecord]
        PROVE  TerminalIsFinal'
    <3>1. settled' = settled /\ job[p] \in Job
      BY <2>2 DEF EnqueueWrite, TypeOK
    <3>2. PendingRecord \in Records
      BY DEF PendingRecord, NoEvidence, Records
    <3> QED
      BY <2>1, <2>2, <3>1, <3>2
  <2>3. ASSUME NEW p \in Proc, ClaimWrite(p), IsFirstPending(job[p]),
               queue' = [queue EXCEPT ![job[p]] = Claimed(queue[job[p]])]
        PROVE  TerminalIsFinal'
    <3>1. settled' = settled /\ job[p] \in Job /\ queue[job[p]].state = "pending"
      BY <2>3 DEF ClaimWrite, IsFirstPending, Pending
    <3>2. Claimed(queue[job[p]]) \in Records
      BY <3>1, RecordConstructors DEF TypeOK
    <3> QED
      BY <2>1, <2>3, <3>1, <3>2
  <2>4. ASSUME NEW p \in Proc, CompleteWrite(p), queue[job[p]].state = "claimed",
               queue' = [queue EXCEPT ![job[p]] = Completed(queue[job[p]])]
        PROVE  TerminalIsFinal'
    <3>1. settled' = [settled EXCEPT ![job[p]] = "completed"] /\ job[p] \in Job
      BY <2>4 DEF CompleteWrite, TypeOK
    <3>2. Completed(queue[job[p]]) \in Records
      BY <3>1, RecordConstructors DEF TypeOK
    <3>3. Completed(queue[job[p]]).state = "completed"
      BY DEF Completed
    <3> QED
      BY <2>1, <2>4, <3>1, <3>2, <3>3
  <2>5. ASSUME NEW p \in Proc, FailWrite(p), queue[job[p]].state = "claimed",
               queue' = [queue EXCEPT ![job[p]] = Failed(queue[job[p]])]
        PROVE  TerminalIsFinal'
    <3>1. settled' = [settled EXCEPT ![job[p]] = "failed"] /\ job[p] \in Job
      BY <2>5 DEF FailWrite, TypeOK
    <3>2. Failed(queue[job[p]]) \in Records
      BY <3>1, RecordConstructors DEF TypeOK
    <3>3. Failed(queue[job[p]]).state = "failed"
      BY DEF Failed
    <3> QED
      BY <2>1, <2>5, <3>1, <3>2, <3>3
  <2>6. CASE queue' = queue
    (* settled only changes together with the record. *)
    <3>1. ASSUME NEW p \in Proc, CompleteWrite(p) PROVE TerminalIsFinal'
      BY <2>4, <3>1 DEF CompleteWrite, WriteQueue, FreshSnapshot, Rewrites
    <3>2. ASSUME NEW p \in Proc, FailWrite(p) PROVE TerminalIsFinal'
      BY <2>5, <3>2 DEF FailWrite, WriteQueue, FreshSnapshot, Rewrites
    <3>3. ASSUME NEW p \in Proc, Start(p) \/ Step(p) \/ Crash(p),
                 ~CompleteWrite(p), ~FailWrite(p)
          PROVE  settled' = settled
      BY <3>3 DEF Start, EnqueueLoad, EnqueueDuplicate, StartRunner, Step, Crash,
                  EnqueueWrite, BeginJob, StopDrained, StopAtMaxJobs, RecordFailure, Report,
                  ClaimLoad, ClaimNothing, ClaimWrite, Work, CompleteLoad,
                  CompleteRejected, FailLoad, FailRejected, WriteFails
    <3>4. settled' = settled => TerminalIsFinal'
      BY <2>6 DEF TerminalIsFinal
    <3> QED
      BY <3>1, <3>2, <3>3, <3>4 DEF Next, Quiet, vars
  <2> QED
    BY QueueEffect, <2>2, <2>3, <2>4, <2>5, <2>6
<1>3. IndInv /\ [Next]_vars => FreshSnapshot'
  BY FreshSnapshotStep
<1> QED
  BY <1>1, <1>2, <1>3, QueueStaysLoadable, FreshSnapshotInit, PTL DEF Spec

----------------------------------------------------------------------------
(* The runner's counters, with any number of processes. *)
Reports ==
  [max_jobs : Nat, attempted : Nat, completed : Nat, pending_before : SUBSET Job,
   stop_reason : {"none", "max_jobs_reached", "no_pending_jobs", "job_failed"},
   failure : Job \cup {NoJob}, completed_before : SUBSET Job]

InJob == {"claim", "claim_write", "work", "complete", "complete_write", "fail",
          "fail_write", "raised"}

CountsOK(label, r) ==
  /\ label \in InJob \cup {"next"} => r.stop_reason = "max_jobs_reached" /\ r.attempted <= r.max_jobs
  /\ label = "next" => r.attempted = r.completed
  /\ label \in InJob => r.attempted = r.completed + 1
  /\ label = "report" =>
       /\ r.attempted <= r.max_jobs
       /\ r.stop_reason = "job_failed" => r.attempted = r.completed + 1
       /\ r.stop_reason # "job_failed" => r.attempted = r.completed

Counting ==
  /\ report \in [Proc -> Reports]
  /\ \A p \in Proc : CountsOK(pc[p], report[p])

LEMMA CountingInit == Init => Counting
<1> SUFFICES ASSUME Init PROVE Counting
  OBVIOUS
<1>1. NoReport \in Reports
  BY DEF NoReport, Reports
<1> QED
  BY <1>1 DEF Init, Counting, CountsOK, InJob

(* One process moves: what it moves to must add up. *)
LEMMA OneReport ==
  ASSUME Counting, TypeOK, NEW p \in Proc, NEW label \in Labels, NEW r \in Reports,
         Goto(p, label), report' = [report EXCEPT ![p] = r], CountsOK(label, r)
  PROVE  Counting'
<1>1. report' \in [Proc -> Reports]
  BY DEF Counting
<1>2. \A q \in Proc : CountsOK(pc'[q], report'[q])
  <2> TAKE q \in Proc
  <2>1. CASE q = p
    BY <2>1 DEF Goto, Counting, TypeOK
  <2>2. CASE q # p
    BY <2>2 DEF Goto, Counting, TypeOK
  <2> QED
    BY <2>1, <2>2
<1> QED
  BY <1>1, <1>2 DEF Counting

LEMMA SameReport ==
  ASSUME Counting, TypeOK, NEW p \in Proc, NEW label \in Labels,
         Goto(p, label), report' = report, CountsOK(label, report[p])
  PROVE  Counting'
<1>1. report[p] \in Reports /\ report' = [report EXCEPT ![p] = report[p]]
  BY DEF Counting
<1> QED
  BY <1>1, OneReport

LEMMA CountingStep == Counting /\ TypeOK /\ [Next]_vars => Counting'
<1> SUFFICES ASSUME Counting, TypeOK, [Next]_vars PROVE Counting'
  OBVIOUS
<1>1. ASSUME NEW p \in Proc, Start(p) PROVE Counting'
  <2>1. ASSUME NEW j \in Job, EnqueueLoad(p, j) PROVE Counting'
    <3>1. CountsOK("enqueue_write", report[p])
      BY DEF CountsOK, InJob
    <3> QED
      BY <2>1, <3>1, SameReport DEF EnqueueLoad
  <2>2. ASSUME NEW j \in Job, EnqueueDuplicate(p, j) PROVE Counting'
    BY <2>2 DEF EnqueueDuplicate, Counting
  <2>3. ASSUME NEW n \in 1..MaxJobs, StartRunner(p, n) PROVE Counting'
    <3> DEFINE r == [NoReport EXCEPT !.max_jobs = n, !.stop_reason = "max_jobs_reached",
                       !.completed_before = {j \in Job : queue[j].state = "completed"}]
    <3>1. n \in Nat /\ 0 <= n
      BY BoundsAssumption
    <3>2. r \in Reports /\ CountsOK("next", r)
      BY <3>1 DEF NoReport, Reports, CountsOK, InJob
    <3>3. report' = [report EXCEPT ![p] = r] /\ Goto(p, "next")
      BY <2>3 DEF StartRunner
    <3> QED
      BY <3>2, <3>3, OneReport
  <2> QED
    BY <1>1, <2>1, <2>2, <2>3 DEF Start
<1>2. ASSUME NEW p \in Proc, Step(p) PROVE Counting'
  <2> DEFINE r == report[p]
  <2>0. r \in Reports /\ CountsOK(pc[p], r)
    BY DEF Counting
  <2>1. CASE EnqueueWrite(p) \/ Report(p)
    <3>1. CountsOK("idle", r)
      BY DEF CountsOK, InJob
    <3> QED
      BY <2>1, <3>1, SameReport DEF EnqueueWrite, Report
  <2>2. CASE BeginJob(p)
    <3> DEFINE t == [r EXCEPT !.attempted = @ + 1, !.pending_before = Pending]
    <3>1. t \in Reports /\ CountsOK("claim", t)
      <4>1. Pending \in SUBSET Job /\ pc[p] = "next" /\ r.attempted < r.max_jobs
        BY <2>2 DEF BeginJob, Pending
      <4>2. r.attempted = r.completed /\ r.stop_reason = "max_jobs_reached"
        BY <2>0, <4>1 DEF CountsOK
      <4>3. r.attempted \in Nat /\ r.completed \in Nat /\ r.max_jobs \in Nat
        BY <2>0 DEF Reports
      <4>4. t \in Reports
        <5>1. r.attempted + 1 \in Nat
          BY <4>3
        <5> QED
          BY <2>0, <4>1, <5>1 DEF Reports
      <4>5. /\ t.attempted = r.attempted + 1 /\ t.completed = r.completed
            /\ t.max_jobs = r.max_jobs /\ t.stop_reason = r.stop_reason
        BY <2>0 DEF Reports
      <4> QED
        BY <4>1, <4>2, <4>3, <4>4, <4>5 DEF CountsOK, InJob
    <3>2. report' = [report EXCEPT ![p] = t] /\ Goto(p, "claim")
      BY <2>2 DEF BeginJob, Counting
    <3> QED
      BY <3>1, <3>2, OneReport
  <2>3. CASE StopDrained(p)
    <3> DEFINE t == [r EXCEPT !.stop_reason = "no_pending_jobs"]
    <3>1. t \in Reports /\ CountsOK("report", t)
      BY <2>0, <2>3 DEF StopDrained, Reports, CountsOK, InJob
    <3>2. report' = [report EXCEPT ![p] = t] /\ Goto(p, "report")
      BY <2>3 DEF StopDrained, Counting
    <3> QED
      BY <3>1, <3>2, OneReport
  <2>4. CASE StopAtMaxJobs(p)
    <3>1. CountsOK("report", r)
      BY <2>0, <2>4 DEF StopAtMaxJobs, Reports, CountsOK, InJob
    <3> QED
      BY <2>4, <3>1, SameReport DEF StopAtMaxJobs
  <2>5. CASE RecordFailure(p)
    <3> DEFINE failed == {j \in r.pending_before : queue[j].state = "failed"}
    <3> DEFINE named == IF Cardinality(failed) = 1 THEN CHOOSE j \in failed : TRUE ELSE NoJob
    <3> DEFINE t == [r EXCEPT !.stop_reason = "job_failed", !.failure = named]
    <3>1. named \in Job \cup {NoJob}
      <4>1. failed \subseteq Job
        BY <2>0 DEF Reports
      <4>2. Cardinality({}) = 0
        BY FS_EmptySet
      <4>3. CASE Cardinality(failed) = 1
        <5>1. failed # {}
          BY <4>2, <4>3
        <5>2. (CHOOSE j \in failed : TRUE) \in failed
          BY <5>1
        <5> QED
          BY <4>1, <4>3, <5>2
      <4>4. CASE Cardinality(failed) # 1
        BY <4>4
      <4> QED
        BY <4>3, <4>4
    <3> HIDE DEF named
    <3>2. t \in Reports /\ CountsOK("report", t)
      BY <2>0, <2>5, <3>1 DEF RecordFailure, Reports, CountsOK, InJob
    <3>3. report' = [report EXCEPT ![p] = t] /\ Goto(p, "report")
      <4>1. /\ Goto(p, "report")
            /\ report' = [report EXCEPT ![p].stop_reason = "job_failed", ![p].failure = named]
        BY <2>5 DEF RecordFailure, named
      <4> QED
        BY <4>1 DEF Counting
    <3> QED
      BY <3>2, <3>3, OneReport
  <2>6. CASE CompleteWrite(p)
    <3> DEFINE t == [r EXCEPT !.completed = @ + 1]
    <3>1. t \in Reports /\ CountsOK("next", t)
      BY <2>0, <2>6 DEF CompleteWrite, Reports, CountsOK, InJob
    <3>2. report' = [report EXCEPT ![p] = t] /\ Goto(p, "next")
      BY <2>6 DEF CompleteWrite, Counting
    <3> QED
      BY <3>1, <3>2, OneReport
  <2>7. CASE WriteFails(p) /\ pc[p] = "enqueue_write"
    <3>1. CountsOK("idle", r) /\ Goto(p, "idle")
      BY <2>7 DEF WriteFails, CountsOK, InJob
    <3> QED
      BY <2>7, <3>1, SameReport DEF WriteFails
  (* The remaining steps stay inside the job. *)
  <2>8. ASSUME NEW label \in InJob, Goto(p, label), pc[p] \in InJob, report' = report
        PROVE  Counting'
    <3>1. CountsOK(label, r) /\ label \in Labels
      BY <2>0, <2>8 DEF CountsOK, InJob
    <3> QED
      BY <2>8, <3>1, SameReport
  <2>9. CASE ClaimLoad(p) \/ ClaimNothing(p) \/ ClaimWrite(p)
    BY <2>8, <2>9 DEF ClaimLoad, ClaimNothing, ClaimWrite, InJob
  <2>10. CASE Work(p) \/ CompleteLoad(p) \/ CompleteRejected(p)
    BY <2>8, <2>10 DEF Work, CompleteLoad, CompleteRejected, InJob
  <2>11. CASE FailLoad(p) \/ FailRejected(p) \/ FailWrite(p)
    BY <2>8, <2>11 DEF FailLoad, FailRejected, FailWrite, InJob
  <2>12. CASE WriteFails(p) /\ pc[p] # "enqueue_write"
    BY <2>8, <2>12 DEF WriteFails, InJob
  <2> QED
    BY <1>2, <2>1, <2>2, <2>3, <2>4, <2>5, <2>6, <2>7, <2>9, <2>10, <2>11, <2>12 DEF Step
<1>3. ASSUME NEW p \in Proc, Crash(p) PROVE Counting'
  <2>1. CountsOK("idle", report[p])
    BY DEF CountsOK, InJob
  <2> QED
    BY <1>3, <2>1, SameReport DEF Crash
<1>4. CASE UNCHANGED vars
  BY <1>4 DEF vars, Counting
<1> QED
  BY <1>1, <1>2, <1>3, <1>4 DEF Next, Quiet

(* Every summary adds up, however many processes use the queue and whatever *)
(* fails: the attempts are the completions and the failure it stopped at.   *)
THEOREM SummariesAddUp == Spec => []SummaryAddsUp
<1>1. Counting => SummaryAddsUp
  <2> SUFFICES ASSUME Counting, NEW p \in Proc, pc[p] = "report"
               PROVE  /\ report[p].attempted <= report[p].max_jobs
                      /\ report[p].attempted = report[p].completed
                           + (IF report[p].stop_reason = "job_failed" THEN 1 ELSE 0)
    BY DEF SummaryAddsUp
  <2> QED
    BY DEF Counting, CountsOK, Reports
<1> QED
  BY <1>1, CountingInit, CountingStep, QueueStaysLoadable, PTL DEF Spec

----------------------------------------------------------------------------
(* The summary of the only process against the queue file.                  *)
Done == {j \in Job : queue[j].state = "completed"}

Added(p) == Done \ report[p].completed_before

(* What it counted is what it added.                                        *)
Tally(p) ==
  pc[p] \in InJob \cup {"next", "report"} =>
    /\ report[p].completed_before \subseteq Done
    /\ IsFiniteSet(Added(p)) /\ Cardinality(Added(p)) = report[p].completed

(* Of the jobs that were pending before the claim it only touches its own.  *)
Watch(p) ==
  /\ pc[p] = "claim" => report[p].pending_before = Pending /\ Pending # {}
  /\ pc[p] \in InJob \ {"claim"} =>
       /\ job[p] \in report[p].pending_before
       /\ \A j \in report[p].pending_before \ {job[p]} : queue[j].state = "pending"

Named(p) ==
  pc[p] = "report" /\ report[p].stop_reason = "job_failed" =>
    \A j \in Job :
      /\ report[p].failure = j => job[p] = j
      /\ report[p].failure = NoJob /\ job[p] = j => queue[j].state # "failed"

Truthful == \A p \in Proc : Tally(p) /\ Watch(p) /\ Named(p)

Books == TypeOK /\ FreshSnapshot /\ Counting /\ Truthful

(* Another job done is one more.                                            *)
LEMMA OneMoreDone ==
  ASSUME TypeOK, NEW p \in Proc, Tally(p), pc[p] = "complete_write", CompleteWrite(p),
         Counting, queue[job[p]].state = "claimed",
         queue' = [queue EXCEPT ![job[p]] = Completed(queue[job[p]])]
  PROVE  Tally(p)'
<1> DEFINE r == report[p]
<1>1. job[p] \in Job /\ job[p] \notin Done
  BY DEF TypeOK, Done
<1>2. Done' = Done \cup {job[p]}
  BY <1>1 DEF TypeOK, Done, Completed
<1>3. r \in Reports
  BY DEF Counting
<1>4. /\ report'[p].completed_before = r.completed_before
      /\ report'[p].completed = r.completed + 1
  BY <1>3 DEF CompleteWrite, Counting, Reports
<1>5. r.completed_before \subseteq Done /\ IsFiniteSet(Added(p)) /\ Cardinality(Added(p)) = r.completed
  BY DEF Tally, InJob
<1>6. Added(p)' = Added(p) \cup {job[p]} /\ job[p] \notin Added(p)
  BY <1>1, <1>2, <1>4, <1>5 DEF Added
<1>7. IsFiniteSet(Added(p)') /\ Cardinality(Added(p)') = Cardinality(Added(p)) + 1
  BY <1>5, <1>6, FS_AddElement
<1> QED
  BY <1>2, <1>4, <1>5, <1>7 DEF Tally

(* The except branch names the job or leaves the name empty for a reason.   *)
LEMMA FailureIsNamed ==
  ASSUME TypeOK, Counting, NEW p \in Proc, Watch(p), RecordFailure(p)
  PROVE  Named(p)'
<1> DEFINE failed == {j \in report[p].pending_before : queue[j].state = "failed"}
<1>1. report[p] \in Reports
  BY DEF Counting
<1>2. /\ job[p] \in report[p].pending_before
      /\ \A j \in report[p].pending_before \ {job[p]} : queue[j].state = "pending"
  BY DEF RecordFailure, Watch, InJob
<1>3. failed \subseteq {job[p]} /\ job[p] \in Job
  BY <1>1, <1>2 DEF Reports
<1>4. /\ report'[p].failure = IF Cardinality(failed) = 1 THEN CHOOSE j \in failed : TRUE ELSE NoJob
      /\ queue' = queue /\ job' = job
  BY <1>1 DEF RecordFailure, Counting, Reports
<1>5. CASE failed = {}
  <2>1. report'[p].failure = NoJob
    BY <1>4, <1>5, FS_EmptySet
  <2>2. queue[job[p]].state # "failed"
    BY <1>2, <1>5
  <2> QED
    BY <1>4, <2>1, <2>2, BoundsAssumption DEF Named
<1>6. CASE failed = {job[p]}
  <2>1. Cardinality(failed) = 1
    BY <1>6, FS_Singleton
  <2>2. report'[p].failure = job[p]
    BY <1>4, <1>6, <2>1
  <2> QED
    BY <1>3, <1>4, <2>2, BoundsAssumption DEF Named
<1> QED
  BY <1>3, <1>5, <1>6

(* A step that leaves the file and the count alone keeps the tally.         *)
LEMMA SameTally ==
  ASSUME NEW p \in Proc, Tally(p), pc[p] \in InJob \cup {"next", "report"},
         Done' = Done, report'[p].completed_before = report[p].completed_before,
         report'[p].completed = report[p].completed
  PROVE  Tally(p)'
<1>1. Added(p)' = Added(p)
  BY DEF Added
<1> QED
  BY <1>1 DEF Tally

(* A step that leaves the file, the report and the job alone, inside a job. *)
LEMMA InsideJob ==
  ASSUME NEW p \in Proc, Tally(p), Watch(p), pc[p] \in InJob \ {"claim"},
         pc'[p] \in InJob \ {"claim"}, UNCHANGED <<queue, report, job>>
  PROVE  Tally(p)' /\ Watch(p)' /\ Named(p)'
BY DEF Tally, Watch, Named, InJob, Added, Done, Pending

(* A write of its own job's record, inside a job.                           *)
LEMMA OwnRecord ==
  ASSUME TypeOK, NEW p \in Proc, Tally(p), Watch(p), pc[p] \in InJob \ {"claim"},
         pc'[p] \in InJob \ {"claim"}, UNCHANGED <<report, job>>, NEW r \in Records,
         queue[job[p]].state # "completed", r.state # "completed",
         queue' = [queue EXCEPT ![job[p]] = r], job[p] \in Job, Counting
  PROVE  Tally(p)' /\ Watch(p)' /\ Named(p)'
<1>1. Done' = Done
  BY DEF TypeOK, Done
<1>2. \A j \in Job \ {job[p]} : queue'[j] = queue[j]
  BY DEF TypeOK
<1>3. report[p].pending_before \subseteq Job
  BY DEF Counting, Reports
<1> QED
  BY <1>1, <1>2, <1>3 DEF Tally, Watch, Named, InJob, Added

LEMMA TruthfulStep ==
  ASSUME Alone, Books, [Next]_vars
  PROVE  Truthful'
<1> USE DEF Books
<1>1. ASSUME NEW p \in Proc, Tally(p)', Watch(p)', Named(p)' PROVE Truthful'
  BY <1>1 DEF Alone, Truthful
<1>2. ASSUME NEW p \in Proc PROVE Tally(p) /\ Watch(p) /\ Named(p) /\ report[p] \in Reports
  BY DEF Truthful, Counting
<1>3. ASSUME NEW p \in Proc, pc'[p] \in {"idle", "enqueue_write"} PROVE Truthful'
  BY <1>3, <1>1 DEF Tally, Watch, Named, InJob
<1>4. ASSUME NEW p \in Proc, Start(p) PROVE Truthful'
  <2>1. ASSUME NEW j \in Job, EnqueueLoad(p, j) \/ EnqueueDuplicate(p, j) PROVE Truthful'
    BY <2>1, <1>3 DEF EnqueueLoad, EnqueueDuplicate, StartCommand, Goto, TypeOK
  <2>2. ASSUME NEW n \in 1..MaxJobs, StartRunner(p, n) PROVE Truthful'
    <3>1. /\ report'[p].completed_before = Done /\ report'[p].completed = 0
          /\ queue' = queue /\ pc'[p] = "next"
      BY <2>2 DEF StartRunner, NoReport, Goto, Done, TypeOK, Counting
    <3>2. Added(p)' = {} /\ Done' = Done
      BY <3>1 DEF Added, Done
    <3>3. Tally(p)'
      BY <3>1, <3>2, FS_EmptySet DEF Tally
    <3> QED
      BY <1>1, <3>1, <3>3 DEF Watch, Named, InJob
  <2> QED
    BY <1>4, <2>1, <2>2 DEF Start
<1>5. ASSUME NEW p \in Proc, EnqueueWrite(p) \/ Report(p) \/ Crash(p) PROVE Truthful'
  BY <1>5, <1>3 DEF EnqueueWrite, Report, Crash, Goto, TypeOK
<1>6. ASSUME NEW p \in Proc, BeginJob(p) PROVE Truthful'
  <2>1. /\ report'[p].pending_before = Pending /\ Pending # {}
        /\ report'[p].completed_before = report[p].completed_before
        /\ report'[p].completed = report[p].completed
        /\ queue' = queue /\ pc[p] = "next" /\ pc'[p] = "claim"
    BY <1>2, <1>6 DEF BeginJob, Goto, TypeOK, Counting, Reports
  <2>2. Tally(p)'
    BY <1>2, <2>1, SameTally DEF InJob, Done
  <2>3. Watch(p)' /\ Named(p)'
    BY <2>1 DEF Watch, Named, InJob, Pending
  <2> QED
    BY <1>1, <2>2, <2>3
<1>7. ASSUME NEW p \in Proc, StopDrained(p) \/ StopAtMaxJobs(p) PROVE Truthful'
  <2>1. /\ report'[p].completed_before = report[p].completed_before
        /\ report'[p].completed = report[p].completed
        /\ queue' = queue /\ pc[p] = "next" /\ pc'[p] = "report"
    BY <1>2, <1>7 DEF StopDrained, StopAtMaxJobs, Goto, TypeOK, Counting, Reports
  <2>2. report'[p].stop_reason # "job_failed"
    <3>1. CASE StopDrained(p)
      BY <1>2, <3>1 DEF StopDrained, Counting, Reports
    <3>2. CASE StopAtMaxJobs(p)
      BY <2>1, <3>2 DEF StopAtMaxJobs, Counting, CountsOK
    <3> QED
      BY <1>7, <3>1, <3>2
  <2>3. Tally(p)'
    BY <1>2, <2>1, SameTally DEF InJob, Done
  <2> QED
    BY <1>1, <2>1, <2>2, <2>3 DEF Watch, Named, InJob
<1>8. ASSUME NEW p \in Proc, RecordFailure(p) PROVE Truthful'
  <2>1. /\ report'[p].completed_before = report[p].completed_before
        /\ report'[p].completed = report[p].completed
        /\ queue' = queue /\ pc[p] = "raised" /\ pc'[p] = "report"
    BY <1>2, <1>8 DEF RecordFailure, Goto, TypeOK, Counting, Reports
  <2>2. Tally(p)'
    BY <1>2, <2>1, SameTally DEF InJob, Done
  <2>3. Watch(p)'
    BY <2>1 DEF Watch, InJob
  <2> QED
    BY <1>1, <1>2, <1>8, <2>2, <2>3, FailureIsNamed
<1>9. ASSUME NEW p \in Proc, ClaimLoad(p) PROVE Truthful'
  <2>1. PICK j \in Job : IsFirstPending(j) /\ job' = [job EXCEPT ![p] = j]
    BY <1>9 DEF ClaimLoad
  <2>2. /\ job'[p] = j /\ j \in Pending
        /\ UNCHANGED <<queue, report>> /\ pc[p] = "claim" /\ pc'[p] = "claim_write"
    BY <1>9, <2>1 DEF ClaimLoad, IsFirstPending, Goto, TypeOK
  <2>3. Tally(p)'
    BY <1>2, <2>2, SameTally DEF InJob, Done
  <2>4. Watch(p)'
    BY <1>2, <2>2 DEF Watch, InJob, Pending
  <2> QED
    BY <1>1, <2>2, <2>3, <2>4 DEF Named
<1>10. ASSUME NEW p \in Proc PROVE ~ClaimNothing(p)
  BY <1>2 DEF ClaimNothing, Watch
<1>11. ASSUME NEW p \in Proc, ClaimWrite(p) PROVE Truthful'
  <2>1. /\ IsFirstPending(job[p])
        /\ queue' = [queue EXCEPT ![job[p]] = Claimed(queue[job[p]])]
    BY <1>11 DEF ClaimWrite, WriteQueue, FreshSnapshot, Rewrites
  <2>2. job[p] \in Job /\ queue[job[p]].state = "pending"
    BY <2>1 DEF IsFirstPending, Pending
  <2>3. Claimed(queue[job[p]]) \in Records /\ Claimed(queue[job[p]]).state = "claimed"
    BY <2>2, RecordConstructors DEF TypeOK, Claimed
  <2>4. /\ pc[p] \in InJob \ {"claim"} /\ pc'[p] \in InJob \ {"claim"}
        /\ UNCHANGED <<report, job>>
    BY <1>11 DEF ClaimWrite, Goto, TypeOK, InJob
  <2> QED
    BY <1>1, <1>2, <2>1, <2>2, <2>3, <2>4, OwnRecord
<1>12. ASSUME NEW p \in Proc, FailWrite(p) PROVE Truthful'
  <2>1. /\ queue[job[p]].state = "claimed"
        /\ queue' = [queue EXCEPT ![job[p]] = Failed(queue[job[p]])]
    BY <1>12 DEF FailWrite, WriteQueue, FreshSnapshot, Rewrites
  <2>2. job[p] \in Job
    BY <1>12 DEF FailWrite, TypeOK
  <2>3. Failed(queue[job[p]]) \in Records /\ Failed(queue[job[p]]).state = "failed"
    BY <2>2, RecordConstructors DEF TypeOK, Failed
  <2>4. /\ pc[p] \in InJob \ {"claim"} /\ pc'[p] \in InJob \ {"claim"}
        /\ UNCHANGED <<report, job>>
    BY <1>12 DEF FailWrite, Goto, TypeOK, InJob
  <2> QED
    BY <1>1, <1>2, <2>1, <2>2, <2>3, <2>4, OwnRecord
<1>13. ASSUME NEW p \in Proc, CompleteWrite(p) PROVE Truthful'
  <2>1. /\ queue[job[p]].state = "claimed"
        /\ queue' = [queue EXCEPT ![job[p]] = Completed(queue[job[p]])]
        /\ pc[p] = "complete_write"
    BY <1>13 DEF CompleteWrite, WriteQueue, FreshSnapshot, Rewrites
  <2>2. Tally(p)'
    BY <1>2, <1>13, <2>1, OneMoreDone
  <2>3. pc'[p] = "next"
    BY <1>13 DEF CompleteWrite, Goto, TypeOK
  <2> QED
    BY <1>1, <2>2, <2>3 DEF Watch, Named, InJob
(* The other steps move from one place of the job to the next.              *)
<1>14. ASSUME NEW p \in Proc,
              pc[p] \in InJob \ {"claim"}, pc'[p] \in InJob \ {"claim"},
              UNCHANGED <<queue, report, job>>
       PROVE  Truthful'
  BY <1>1, <1>2, <1>14, InsideJob
<1>15. ASSUME NEW p \in Proc, WriteFails(p), pc[p] = "enqueue_write" PROVE Truthful'
  BY <1>3, <1>15 DEF WriteFails, Goto, TypeOK
<1>16. CASE UNCHANGED vars
  <2> SUFFICES ASSUME NEW p \in Proc PROVE Tally(p)' /\ Watch(p)' /\ Named(p)'
    BY DEF Truthful
  <2>1. UNCHANGED <<Done, Pending, pc, report, job, queue>>
    BY <1>16 DEF vars, Done, Pending
  <2>2. Tally(p)'
    BY <1>2, <2>1, SameTally DEF Tally
  <2>3. Watch(p)' /\ Named(p)'
    BY <1>2, <2>1 DEF Watch, Named
  <2> QED
    BY <2>2, <2>3
<1>17. ASSUME NEW p \in Proc, Step(p) PROVE Truthful'
  <2>1. CASE \/ EnqueueWrite(p) \/ Report(p) \/ BeginJob(p) \/ StopDrained(p)
             \/ StopAtMaxJobs(p) \/ RecordFailure(p) \/ ClaimLoad(p) \/ ClaimNothing(p)
    BY <1>5, <1>6, <1>7, <1>8, <1>9, <1>10, <2>1
  <2>2. CASE ClaimWrite(p) \/ FailWrite(p) \/ CompleteWrite(p)
    BY <1>11, <1>12, <1>13, <2>2
  <2>3. CASE \/ Work(p) \/ CompleteLoad(p) \/ CompleteRejected(p) \/ FailLoad(p)
             \/ FailRejected(p)
    BY <1>14, <2>3 DEF Work, CompleteLoad, CompleteRejected, FailLoad, FailRejected, Goto,
                       TypeOK, InJob
  <2>4. CASE WriteFails(p)
    <3>1. CASE pc[p] = "enqueue_write"
      BY <1>15, <2>4, <3>1
    <3>2. CASE pc[p] # "enqueue_write"
      BY <1>14, <2>4, <3>2 DEF WriteFails, Goto, TypeOK, InJob
    <3> QED
      BY <3>1, <3>2
  <2> QED
    BY <1>17, <2>1, <2>2, <2>3, <2>4 DEF Step
<1> QED
  BY <1>4, <1>5, <1>16, <1>17 DEF Next, Quiet

(* While one process runs at a time a bounded run reports the completions   *)
(* it added to the file and the job it failed, whatever could not be written*)
(* in between and wherever an earlier run was killed.                       *)
THEOREM TrueSummaries == ASSUME Alone PROVE Spec => []SummaryIsTrue
<1>1. Init => Truthful
  BY DEF Init, Truthful, Tally, Watch, Named, InJob
<1>2. Books /\ [Next]_vars => Truthful' /\ FreshSnapshot' /\ Counting'
  BY TruthfulStep, FreshSnapshotStep, CountingStep DEF Books
<1>3. Books => SummaryIsTrue
  BY DEF Books, Truthful, Tally, Named, Added, Done, SummaryIsTrue, CompletionsReconcile,
         FailureIsIdentified
<1> QED
  BY <1>1, <1>2, <1>3, FreshSnapshotInit, CountingInit, QueueStaysLoadable, PTL
  DEF Spec, Books
=============================================================================
