------------------------------ MODULE JobQueue ------------------------------
(***************************************************************************)
(* What the local diagnostic queue promises its callers                    *)
(* (src/sdetkit/job_queue.py): a set of jobs, each of which is enqueued at *)
(* most once, claimed at most once, in queue order, and then completed or  *)
(* failed at most once.  Every operation is one atomic step here; the      *)
(* module DiagnosticQueue says how the code carries it out.                *)
(***************************************************************************)
EXTENDS Integers

CONSTANTS Job,     \* job ids
          SortKey  \* rank of a job under _record_sort_key: (created_at, job_id)

VARIABLE state     \* state of each job's record, "absent" before enqueue_job

States == {"absent", "pending", "claimed", "completed", "failed"}

Init == state = [j \in Job |-> "absent"]

Move(j, from, to) ==
  /\ state[j] = from
  /\ state' = [state EXCEPT ![j] = to]

(* enqueue_job rejects an id it already holds, whatever its state. *)
Enqueue(j) == Move(j, "absent", "pending")

(* claim_job without a job id takes the first pending record. *)
Claim(j) ==
  /\ \A k \in Job : state[k] = "pending" => SortKey[j] <= SortKey[k]
  /\ Move(j, "pending", "claimed")

Complete(j) == Move(j, "claimed", "completed")

Fail(j) == Move(j, "claimed", "failed")

Next == \E j \in Job : Enqueue(j) \/ Claim(j) \/ Complete(j) \/ Fail(j)

Spec == Init /\ [][Next]_state

=============================================================================
