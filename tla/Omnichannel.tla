----------------------------- MODULE Omnichannel -----------------------------
(***************************************************************************)
(* The webhook server of the agent, src/sdetkit/agent/omnichannel.py: a    *)
(* thread per request, the rate limiter with its lock, its memory and its  *)
(* files, and the conversation files, which no lock guards.  The server    *)
(* may be killed and started again.                                        *)
(*                                                                         *)
(* Files are replaced as AtomicFile shows, in one step.  Tokens and the    *)
(* refill are counted in a unit small enough for both to be integers;      *)
(* round(tokens, 6) has nothing to round then.  The clock, time.time, does *)
(* not step back here.                                                     *)
(***************************************************************************)
EXTENDS Naturals, Sequences, SequencesExt

CONSTANTS Request, User, File, Key,
          sender,            \* who sends each request
          file_of,           \* _counter_path, _conversation_path: '/' becomes '_'
          key_of,            \* f"{channel}:{user_id}": neither part excludes a ':'
          capacity, Unit,    \* of the bucket, in tokens; units in a token
          refill_per_second, \* in units
          MaxTime,           \* bound: seconds
          MaxRestarts        \* bound: kills of the server

ConstantsOK ==
  /\ sender \in [Request -> User]
  /\ file_of \in [User -> File] /\ key_of \in [User -> Key]
  /\ capacity \in Nat \ {0} /\ Unit \in Nat \ {0} /\ refill_per_second \in Nat
  /\ MaxTime \in Nat /\ MaxRestarts \in Nat

VARIABLES now,
          in_memory, counters, \* per key and per file: the limiter's state, or None
          conversation,        \* per file, its rows
          pc,
          existing,            \* per request, the rows it read
          routed,              \* history: per user, when it was admitted
          overlapped,          \* history: files to which two requests appended at once
          restarts

limiter == <<in_memory, counters>>
vars == <<now, limiter, conversation, pc, existing, routed, overlapped, restarts>>

None == [tokens |-> 0, last_refill |-> 0, present |-> FALSE]

Bucket(tokens, t) == [tokens |-> tokens, last_refill |-> t, present |-> TRUE]

Buckets == [tokens : 0..(capacity * Unit), last_refill : 0..MaxTime, present : {TRUE}] \cup {None}

Running == {"task", "append", "replace"}

Labels == Running \cup {"new", "answered", "failed"}

RowsOf(r) == file_of[sender[r]]

Goto(r, label) == pc' = [pc EXCEPT ![r] = label]

Init ==
  /\ now = 0 /\ restarts = 0
  /\ in_memory = [k \in Key |-> None] /\ counters = [f \in File |-> None]
  /\ conversation = [f \in File |-> <<>>]
  /\ pc = [r \in Request |-> "new"] /\ existing = [r \in Request |-> <<>>]
  /\ routed = [u \in User |-> <<>>] /\ overlapped = {}

-----------------------------------------------------------------------------
(* Mutant: what is on file is not looked at after a restart. *)
LoadMemoryOnly(u) ==
  IF in_memory[key_of[u]].present THEN in_memory[key_of[u]] ELSE Bucket(capacity * Unit, now)

(* _load: the memory, the file, a full bucket. *)
Load(u) ==
  IF in_memory[key_of[u]].present THEN in_memory[key_of[u]]
  ELSE IF counters[file_of[u]].present THEN counters[file_of[u]]
  ELSE Bucket(capacity * Unit, now)

(* Mutant: the bucket overflows. *)
Overflowing(b) == b.tokens + (now - b.last_refill) * refill_per_second

Refilled(b) ==
  LET tokens == b.tokens + (now - b.last_refill) * refill_per_second
  IN  IF tokens < capacity * Unit THEN tokens ELSE capacity * Unit

Admits(u) == Refilled(Load(u)) >= Unit

(* Mutant: a denied request empties the bucket. *)
Punishing(u) == Bucket(IF Admits(u) THEN Refilled(Load(u)) - Unit ELSE 0, now)

(* The state allow() saves. *)
Charged(u) ==
  Bucket(IF Admits(u) THEN Refilled(Load(u)) - Unit ELSE Refilled(Load(u)), now)

(* allow, under the limiter's lock.  An admitted request goes on to its     *)
(* task, which starts some time later.                                      *)
Allow(r) ==
  LET u == sender[r]
  IN  /\ pc[r] = "new"
      /\ in_memory' = [in_memory EXCEPT ![key_of[u]] = Charged(u)]
      /\ counters' = [counters EXCEPT ![file_of[u]] = Charged(u)]
      /\ IF Admits(u)
         THEN Goto(r, "task") /\ routed' = [routed EXCEPT ![u] = Append(@, now)]
         ELSE Goto(r, "append") /\ UNCHANGED routed
      /\ UNCHANGED <<now, conversation, existing, overlapped, restarts>>

(* The counter file cannot be read: the exception ends the request.        *)
LoadFails(r) ==
  /\ pc[r] = "new"
  /\ ~in_memory[key_of[sender[r]]].present /\ counters[file_of[sender[r]]].present
  /\ Goto(r, "failed")
  /\ UNCHANGED <<now, limiter, conversation, existing, routed, overlapped, restarts>>

(* It cannot be replaced: the memory has changed already.                  *)
SaveFails(r) ==
  /\ pc[r] = "new"
  /\ in_memory' = [in_memory EXCEPT ![key_of[sender[r]]] = Charged(sender[r])]
  /\ Goto(r, "failed")
  /\ UNCHANGED <<now, counters, conversation, existing, routed, overlapped, restarts>>

(* task_runner returns a record, whatever its status. *)
TaskDone(r) ==
  /\ pc[r] = "task"
  /\ Goto(r, "append")
  /\ UNCHANGED <<now, limiter, conversation, existing, routed, overlapped, restarts>>

(* The task raises, or the conversation file cannot be read or replaced.   *)
Raises(r) ==
  /\ pc[r] \in Running
  /\ Goto(r, "failed")
  /\ UNCHANGED <<now, limiter, conversation, existing, routed, overlapped, restarts>>

(* ConversationStore.append reads the file, then replaces it. *)
ReadRows(r) ==
  /\ pc[r] = "append"
  /\ Goto(r, "replace")
  /\ existing' = [existing EXCEPT ![r] = conversation[RowsOf(r)]]
  /\ overlapped' = IF \E s \in Request : pc[s] = "replace" /\ RowsOf(s) = RowsOf(r)
                   THEN overlapped \cup {RowsOf(r)} ELSE overlapped
  /\ UNCHANGED <<now, limiter, conversation, routed, restarts>>

(* Mutant: the file is replaced by the new row. *)
ReplaceByRow(r) == <<r>>

WithRow(r) == Append(existing[r], r)

ReplaceRows(r) ==
  /\ pc[r] = "replace"
  /\ conversation' = [conversation EXCEPT ![RowsOf(r)] = WithRow(r)]
  /\ Goto(r, "answered")
  /\ UNCHANGED <<now, limiter, existing, routed, overlapped, restarts>>

Tick ==
  /\ now < MaxTime
  /\ now' = now + 1
  /\ UNCHANGED <<limiter, conversation, pc, existing, routed, overlapped, restarts>>

(* The process is killed and started again: requests under way are lost.   *)
Restart ==
  /\ restarts < MaxRestarts
  /\ restarts' = restarts + 1
  /\ in_memory' = [k \in Key |-> None]
  /\ pc' = [r \in Request |-> IF pc[r] \in Running THEN "failed" ELSE pc[r]]
  /\ UNCHANGED <<now, counters, conversation, existing, routed, overlapped>>

Served ==
  /\ \A r \in Request : pc[r] \in {"answered", "failed"}
  /\ UNCHANGED vars

Step(r) ==
  Allow(r) \/ LoadFails(r) \/ SaveFails(r) \/ TaskDone(r) \/ Raises(r)
    \/ ReadRows(r) \/ ReplaceRows(r)

Next == (\E r \in Request : Step(r)) \/ Tick \/ Restart \/ Served

Spec == Init /\ [][Next]_vars

-----------------------------------------------------------------------------
TypeOK ==
  /\ now \in 0..MaxTime /\ restarts \in 0..MaxRestarts
  /\ in_memory \in [Key -> Buckets] /\ counters \in [File -> Buckets]
  /\ conversation \in [File -> Seq(Request)] /\ existing \in [Request -> Seq(Request)]
  /\ pc \in [Request -> Labels]
  /\ routed \in [User -> Seq(0..MaxTime)] /\ overlapped \subseteq File

(* Nobody else shares the counter file or the key in memory.               *)
OwnBucket(u) == \A v \in User \ {u} : file_of[v] # file_of[u] /\ key_of[v] # key_of[u]

(* docs/omnichannel-mcp-bridge.md:11, "Per-user deterministic rate         *)
(* limiting": in no stretch of time is a user admitted more often than the *)
(* bucket holds and the time refills, across restarts of the server and    *)
(* failing writes, if neither his file nor his key in memory is another's, *)
(* who may leave more in it than he has left.                              *)
BurstsAreBounded ==
  \A u \in User : \A i, j \in DOMAIN routed[u] : OwnBucket(u) /\ i <= j =>
    (j - i + 1) * Unit <= capacity * Unit
                          + (routed[u][j] - routed[u][i]) * refill_per_second

(* The same line of the document: what others send costs a user nothing,   *)
(* his first request is admitted.                                          *)
OwnBudget ==
  \A u \in User : (\A r \in Request : sender[r] = u => pc[r] = "new") => Admits(u)

(* A user who shares neither file nor key is not refused once the refill   *)
(* since its last admission makes up for a token, whatever it sent in the  *)
(* meantime and however often the server was restarted.                    *)
PatienceIsServed ==
  \A u \in User :
    /\ routed[u] # <<>> /\ OwnBucket(u)
    /\ (now - Last(routed[u])) * refill_per_second >= Unit
    /\ \A r \in Request : sender[r] = u => pc[r] # "failed"
    => Admits(u)

(* docs/omnichannel-mcp-bridge.md:10, "Conversation traces are persisted": *)
(* an answered request has its row in the file.                            *)
TracesArePersisted ==
  \A r \in Request : pc[r] = "answered" => Contains(conversation[RowsOf(r)], r)

(* Rows are lost only where two requests append to one file at once, and   *)
(* in no case is a row there twice or in the file of somebody else.        *)
RowsLostByOverlapOnly ==
  /\ \A r \in Request : pc[r] = "answered" =>
       Contains(conversation[RowsOf(r)], r) \/ RowsOf(r) \in overlapped
  /\ \A f \in File : IsInjective(conversation[f])
                     /\ \A r \in ToSet(conversation[f]) : RowsOf(r) = f /\ pc[r] = "answered"
=============================================================================
