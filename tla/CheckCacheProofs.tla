-------------------------- MODULE CheckCacheProofs --------------------------
(***************************************************************************)
(* Proofs about CheckCache for every repository, check and history of      *)
(* edits, commits, hinted runs, errors and kills: a hit is fresh unless an *)
(* edit was hidden from its key, and a run raises only over an entry whose *)
(* own write was cut short.                                                *)
(***************************************************************************)
EXTENDS CheckCache, TLAPS

(* The tree an entry stands for: what its key says of the files it covers,  *)
(* and the commit it was made on for the others.                            *)
StandsFor(k, h) ==
  [p \in Path |-> IF p \in Scope(k.changed) THEN k.digest[p] ELSE h[p]]

Names == Path \cup {Elsewhere}

OwnKey(c) == KeyFor(c, changed, Fingerprint(changed))

IsKeyOf(k, c) ==
  k.check = c /\ k.changed = changed /\ (~moved => k = OwnKey(c))

(* While nothing moves, the threads of a run work on the tree as it is.     *)
RunInv ==
  /\ \A c \in Check : thread[c] # "idle" => running
  /\ running /\ ~moved => fingerprint \in {NoFingerprint, Fingerprint(changed)}
  /\ \A c \in Check :
       /\ thread[c] \notin {"idle", "key", "failed"} =>
            IsKeyOf(key[c], c)
       /\ thread[c] \in {"save", "saving"} =>
            /\ record[c].status \in {"passed", "failed"} /\ ~record[c].cached
            /\ ~moved => record[c].status \in Outcomes[c][tree]

EntriesSound ==
  \A e \in entries :
    /\ e.key.check \in Check /\ e.key.changed \subseteq Names
    /\ e.content \in {"torn", "passed", "failed"}
    /\ e.exact /\ e.content # "torn" =>
         e.content \in Outcomes[e.key.check][StandsFor(e.key, e.head)]

(* An entry is torn while its thread is writing it, and after that only if  *)
(* the write was cut short.                                                 *)
TornIsBeingWritten ==
  \A e \in entries : e.content = "torn" =>
    \/ e.key \in broken
    \/ \E c \in Check : thread[c] = "saving" /\ key[c] = e.key

Backed(c) ==
  \E e \in entries : e.key = key[c] /\ e.content = record[c].status /\ e.content # "torn"

HitsAreStored == \A c \in Check : Hit(c) => Backed(c)

Unique == \A d, e \in entries : d.key = e.key => d = e

Types ==
  /\ tree \in Tree /\ head \in Tree
  /\ running \in BOOLEAN /\ use_cache \in BOOLEAN /\ moved \in BOOLEAN
  /\ changed \subseteq Names
  /\ thread \in [Check -> Labels]
  /\ DOMAIN key = Check
  /\ record \in [Check -> [status : {"none", "passed", "failed", "skipped"}, cached : BOOLEAN]]

IndInv ==
  /\ Types /\ RunInv /\ EntriesSound /\ Unique /\ TornIsBeingWritten /\ HitsAreStored
  /\ RaisesOnlyOverBrokenWrites

LEMMA EntryOfStored ==
  ASSUME Unique, NEW e \in entries
  PROVE  EntryOf(e.key) = e
BY DEF Unique, EntryOf

(* A key computed now stands for the tree as it is now, if it covers every  *)
(* uncommitted edit.                                                        *)
LEMMA OwnKeyStandsForTree ==
  ASSUME Types, Changed \subseteq Scope(changed), NEW c \in Check
  PROVE  StandsFor(OwnKey(c), head) = tree
<1>1. ASSUME NEW p \in Path
      PROVE  (IF p \in Scope(changed) THEN Fingerprint(changed)[p] ELSE head[p]) = tree[p]
  <2>1. CASE p \in Scope(changed)
    BY <2>1 DEF Fingerprint
  <2>2. CASE p \notin Scope(changed)
    BY <2>2 DEF Changed
  <2> QED
    BY <2>1, <2>2
<1>2. OwnKey(c).changed = changed /\ OwnKey(c).digest = Fingerprint(changed)
  BY DEF OwnKey, KeyFor
<1>3. tree = [p \in Path |-> tree[p]]
  BY DEF Types, Tree
<1> QED
  BY <1>1, <1>2, <1>3 DEF StandsFor

(* With the whole repository in the key it does so whatever is committed.   *)
LEMMA WholeRepositoryKey ==
  ASSUME Types, changed = {}, NEW c \in Check, NEW h
  PROVE  StandsFor(OwnKey(c), h) = tree
<1>1. OwnKey(c).changed = {} /\ OwnKey(c).digest = [p \in Path |-> tree[p]]
  BY DEF OwnKey, KeyFor, Fingerprint, Scope
<1>2. tree = [p \in Path |-> tree[p]]
  BY DEF Types, Tree
<1> QED
  BY <1>1, <1>2 DEF StandsFor, Scope

LEMMA IndInvInit == Init => IndInv
<1> SUFFICES ASSUME Init PROVE IndInv
  OBVIOUS
<1>1. Types
  BY DEF Init, Types, Labels, NoRecord
<1>2. RunInv /\ EntriesSound /\ Unique /\ TornIsBeingWritten
  BY DEF Init, RunInv, EntriesSound, Unique, TornIsBeingWritten
<1>3. HitsAreStored /\ RaisesOnlyOverBrokenWrites
  BY DEF Init, HitsAreStored, RaisesOnlyOverBrokenWrites, Hit
<1> QED
  BY <1>1, <1>2, <1>3 DEF IndInv

(* The tree or the commit moves: under a run nothing is claimed any more.   *)
LEMMA TreeMoves ==
  ASSUME IndInv, moved' = running, Types',
         UNCHANGED <<entries, running, options, fingerprint, threads, broken>>
  PROVE  IndInv'
<1>1. RunInv'
  <2>1. \A c \in Check : thread[c] # "idle" => running /\ moved'
    BY DEF IndInv, RunInv
  <2> QED
    BY <2>1 DEF IndInv, RunInv, IsKeyOf, options, threads
<1>2. EntriesSound' /\ Unique' /\ TornIsBeingWritten'
  BY DEF IndInv, EntriesSound, Unique, TornIsBeingWritten, StandsFor, Scope, Names, threads
<1>3. HitsAreStored' /\ RaisesOnlyOverBrokenWrites'
  BY DEF IndInv, HitsAreStored, Backed, Hit, RaisesOnlyOverBrokenWrites, threads
<1> QED
  BY <1>1, <1>2, <1>3 DEF IndInv

(* No thread is at work: what was being written is broken.                  *)
LEMMA AtRest ==
  ASSUME IndInv, Types', entries' = entries, broken \subseteq broken',
         \A c \in Check : thread'[c] # "idle" => running',
         running' => fingerprint' = NoFingerprint,
         \A c \in Check : thread'[c] \in {"idle", "key"},
         \A c \in Check : thread[c] = "saving" => key[c] \in broken'
  PROVE  IndInv'
<1>1. RunInv'
  BY DEF RunInv
<1>2. EntriesSound' /\ Unique'
  BY DEF IndInv, EntriesSound, Unique, StandsFor, Scope, Names
<1>3. TornIsBeingWritten'
  BY DEF IndInv, TornIsBeingWritten
<1>4. HitsAreStored' /\ RaisesOnlyOverBrokenWrites'
  BY DEF HitsAreStored, RaisesOnlyOverBrokenWrites, Hit
<1> QED
  BY <1>1, <1>2, <1>3, <1>4 DEF IndInv

LEMMA BetweenRuns ==
  ASSUME IndInv,
         \/ \E p \in Path, v \in Content : Edit(p, v)
         \/ Commit \/ StartRun \/ EndRun \/ Crash
  PROVE  IndInv'
<1>1. CASE \E p \in Path, v \in Content : Edit(p, v)
  <2>1. PICK p \in Path, v \in Content : Edit(p, v)
    BY <1>1
  <2>2. Types'
    BY <2>1 DEF Edit, options, threads, IndInv, Types, Tree
  <2> QED
    BY <2>1, <2>2, TreeMoves DEF Edit
<1>2. CASE Commit
  <2>1. Types'
    BY <1>2 DEF Commit, options, threads, IndInv, Types
  <2> QED
    BY <1>2, <2>1, TreeMoves DEF Commit
<1>3. CASE StartRun
  <2>1. \A c \in Check : thread[c] = "idle" /\ thread'[c] = "key"
    BY <1>3 DEF StartRun, IndInv, RunInv
  <2>2. changed' \subseteq Names
    BY <1>3 DEF StartRun, ResolveChanged, Changed, Names
  <2>3. Types'
    BY <1>3, <2>2 DEF StartRun, IndInv, Types, Labels, NoRecord
  <2> QED
    BY <1>3, <2>1, <2>3, AtRest DEF StartRun
<1>4. CASE EndRun
  <2>1. Types'
    BY <1>4 DEF EndRun, Forget, IndInv, Types, Labels, NoRecord
  <2> QED
    BY <1>4, <2>1, AtRest DEF EndRun, Forget
<1>5. CASE Crash
  <2>1. Types'
    BY <1>5 DEF Crash, Forget, IndInv, Types, Labels, NoRecord
  <2> QED
    BY <1>5, <2>1, AtRest DEF Crash, Forget
<1> QED
  BY <1>1, <1>2, <1>3, <1>4, <1>5

(* A thread's step that writes nothing, or fails to.                        *)
LEMMA ThreadMoves ==
  ASSUME IndInv, NEW c \in Check, NEW l \in Labels \ {"idle", "key"},
         thread[c] # "idle", thread[c] = "saving" => key[c] \in broken',
         thread' = [thread EXCEPT ![c] = l],
         UNCHANGED <<tree, head, entries, running, options, moved>>, broken \subseteq broken',
         fingerprint' = fingerprint \/ (~moved => fingerprint' = Fingerprint(changed)),
         DOMAIN key' = Check, l # "failed" => IsKeyOf(key'[c], c),
         \A d \in Check \ {c} : key'[d] = key[d] /\ record'[d] = record[d],
         Types',
         l \in {"save", "saving"} =>
           /\ record'[c].status \in {"passed", "failed"} /\ ~record'[c].cached
           /\ ~moved => record'[c].status \in Outcomes[c][tree],
         l = "done" /\ record'[c].cached => Backed(c)',
         l = "raised" => key'[c] \in broken'
  PROVE  IndInv'
<1>1. \A d \in Check : thread'[d] = IF d = c THEN l ELSE thread[d]
  BY DEF IndInv, Types
<1>2. running
  BY DEF IndInv, RunInv
<1>3. /\ changed' = changed /\ Fingerprint(changed)' = Fingerprint(changed)
      /\ \A d \in Check : OwnKey(d)' = OwnKey(d)
  BY DEF options, Fingerprint, Scope, OwnKey, KeyFor
<1>4. RunInv'
  <2>1. running' /\ ~moved' => fingerprint' \in {NoFingerprint, Fingerprint(changed)'}
    BY <1>2, <1>3 DEF IndInv, RunInv
  <2>2. \A d \in Check : thread'[d] # "idle" => running'
    BY <1>2
  <2>3. \A d \in Check : thread'[d] \notin {"idle", "key", "failed"} => IsKeyOf(key[d], d)'
    BY <1>1, <1>3 DEF IndInv, RunInv, IsKeyOf
  <2>4. \A d \in Check : thread'[d] \in {"save", "saving"} =>
          /\ record'[d].status \in {"passed", "failed"} /\ ~record'[d].cached
          /\ ~moved' => record'[d].status \in Outcomes[d][tree']
    BY <1>1 DEF IndInv, RunInv
  <2> QED
    BY <2>1, <2>2, <2>3, <2>4 DEF RunInv
<1>5. EntriesSound' /\ Unique'
  BY DEF IndInv, EntriesSound, Unique, StandsFor, Scope, Names
<1>6. TornIsBeingWritten'
  BY <1>1 DEF IndInv, TornIsBeingWritten
<1>7. HitsAreStored'
  BY <1>1 DEF IndInv, HitsAreStored, Backed, Hit
<1>8. RaisesOnlyOverBrokenWrites'
  BY <1>1 DEF IndInv, RaisesOnlyOverBrokenWrites
<1> QED
  BY <1>4, <1>5, <1>6, <1>7, <1>8 DEF IndInv

Written(c, l) ==
  [key |-> key[c], content |-> IF l = "saving" THEN "torn" ELSE record[c].status, head |-> head,
   exact |-> Changed \subseteq Scope(key[c].changed) /\ ~moved]

(* Writing the thread's own entry. *)
LEMMA ThreadWrites ==
  ASSUME IndInv, NEW c \in Check, NEW l \in {"saving", "done"},
         thread[c] = IF l = "saving" THEN "save" ELSE "saving",
         thread' = [thread EXCEPT ![c] = l],
         entries' = {e \in entries : e.key # key[c]} \cup {Written(c, l)},
         UNCHANGED <<tree, head, running, options, moved, fingerprint, key, record, broken>>
  PROVE  IndInv'
<1>1. \A d \in Check : thread'[d] = IF d = c THEN l ELSE thread[d]
  BY DEF IndInv, Types
<1>2. running
  BY DEF IndInv, RunInv
<1>3. key[c].check = c /\ key[c].changed = changed /\ (~moved => key[c] = OwnKey(c))
  BY DEF IndInv, RunInv, IsKeyOf
<1>4. ASSUME NEW d \in Check \ {c}, thread[d] \notin {"idle", "key", "failed"}
      PROVE  key[d] # key[c]
  BY <1>3, <1>4 DEF IndInv, RunInv, IsKeyOf
<1> DEFINE new == Written(c, l)
           content == new.content
<1>5. entries' = {e \in entries : e.key # key[c]} \cup {new}
  OBVIOUS
<1>6. /\ new.key = key[c] /\ new.content = content /\ new.head = head
      /\ new.exact => Changed \subseteq Scope(changed) /\ ~moved
      /\ \/ l = "saving" /\ content = "torn"
         \/ l = "done" /\ content = record[c].status
  BY <1>3 DEF Written
<1> HIDE DEF new, content
<1>7. Types'
  BY DEF IndInv, Types, options, Labels
<1>8. RunInv'
  <2>1. \A d \in Check : OwnKey(d)' = OwnKey(d)
    BY DEF options, Fingerprint, Scope, OwnKey, KeyFor
  <2>2. running' /\ ~moved' => fingerprint' \in {NoFingerprint, Fingerprint(changed)'}
    BY <1>2 DEF IndInv, RunInv, options, Fingerprint, Scope
  <2>3. \A d \in Check : thread'[d] # "idle" => running'
    BY <1>2
  <2>4. \A d \in Check : thread'[d] \notin {"idle", "key", "failed"} => IsKeyOf(key[d], d)'
    BY <1>1, <2>1 DEF IndInv, RunInv, IsKeyOf, options
  <2>5. \A d \in Check : thread'[d] \in {"save", "saving"} =>
          /\ record'[d].status \in {"passed", "failed"} /\ ~record'[d].cached
          /\ ~moved' => record'[d].status \in Outcomes[d][tree']
    BY <1>1 DEF IndInv, RunInv
  <2> QED
    BY <2>2, <2>3, <2>4, <2>5 DEF RunInv
<1>9. EntriesSound'
  <2>1. content \in {"torn", "passed", "failed"} /\ changed \subseteq Names
    BY <1>6 DEF IndInv, RunInv, Types
  <2>2. ASSUME new.exact, content # "torn"
        PROVE  content \in Outcomes[c][StandsFor(key[c], head)]
    <3>1. key[c] = OwnKey(c) /\ Changed \subseteq Scope(changed) /\ ~moved
      BY <1>3, <1>6, <2>2
    <3>2. StandsFor(key[c], head) = tree
      BY <3>1, OwnKeyStandsForTree DEF IndInv
    <3> QED
      BY <1>6, <2>2, <3>1, <3>2 DEF IndInv, RunInv
  <2>3. /\ new.key.check \in Check /\ new.key.changed \subseteq Names
        /\ new.content \in {"torn", "passed", "failed"}
        /\ new.exact /\ new.content # "torn" =>
             new.content \in Outcomes[new.key.check][StandsFor(new.key, new.head)]
    BY <1>3, <1>6, <2>1, <2>2
  <2>4. ASSUME NEW e \in entries'
        PROVE  /\ e.key.check \in Check /\ e.key.changed \subseteq Names
               /\ e.content \in {"torn", "passed", "failed"}
               /\ e.exact /\ e.content # "torn" =>
                    e.content \in Outcomes[e.key.check][StandsFor(e.key, e.head)]
    <3>1. CASE e = new
      BY <2>3, <3>1
    <3>2. CASE e \in entries
      BY <3>2 DEF IndInv, EntriesSound
    <3> QED
      BY <1>5, <2>4, <3>1, <3>2
  <2> QED
    BY <2>4 DEF EntriesSound, StandsFor, Scope, Names
<1>10. Unique'
  BY <1>5, <1>6 DEF IndInv, Unique
<1>11. TornIsBeingWritten'
  <2> SUFFICES ASSUME NEW e \in entries', e.content = "torn", e.key \notin broken
               PROVE  \E d \in Check : thread'[d] = "saving" /\ key[d] = e.key
    BY DEF TornIsBeingWritten
  <2>1. CASE e = new
    <3>1. content = "torn"
      BY <1>6, <2>1
    <3>2. l = "saving"
      BY <1>6, <3>1 DEF IndInv, RunInv
    <3> QED
      BY <1>1, <1>6, <2>1, <3>2
  <2>2. CASE e \in entries /\ e.key # key[c]
    <3>1. PICK d \in Check : thread[d] = "saving" /\ key[d] = e.key
      BY <2>2 DEF IndInv, TornIsBeingWritten
    <3> QED
      BY <1>1, <2>2, <3>1
  <2> QED
    BY <1>5, <2>1, <2>2
<1>12. HitsAreStored'
  <2> SUFFICES ASSUME NEW d \in Check, Hit(d)'
               PROVE  \E e \in entries' : e.key = key[d] /\ e.content = record[d].status
                                          /\ e.content # "torn"
    BY DEF HitsAreStored, Backed
  <2>1. d # c /\ Hit(d)
    BY <1>1 DEF Hit, IndInv, RunInv
  <2>2. key[d] # key[c]
    BY <1>4, <2>1 DEF Hit
  <2>3. PICK e \in entries : e.key = key[d] /\ e.content = record[d].status /\ e.content # "torn"
    BY <2>1 DEF IndInv, HitsAreStored, Backed
  <2> QED
    BY <1>5, <2>2, <2>3
<1>13. RaisesOnlyOverBrokenWrites'
  BY <1>1 DEF IndInv, RaisesOnlyOverBrokenWrites
<1> QED
  BY <1>7, <1>8, <1>9, <1>10, <1>11, <1>12, <1>13 DEF IndInv

LEMMA PoolThreadStep == ASSUME IndInv, NEW c \in Check, PoolThread(c) PROVE IndInv'
<1> USE DEF Labels
<1>1. CASE ComputeKey(c)
  <2>1. running /\ (~moved => fingerprint \in {NoFingerprint, Fingerprint(changed)})
    BY <1>1 DEF ComputeKey, IndInv, RunInv
  <2>2. fingerprint' = fingerprint \/ (~moved => fingerprint' = Fingerprint(changed))
    BY <1>1, <2>1 DEF ComputeKey
  <2>3. ~moved => fingerprint' = Fingerprint(changed)
    BY <1>1, <2>1 DEF ComputeKey
  <2>4. key' = [key EXCEPT ![c] = KeyFor(c, changed, fingerprint')]
    BY <1>1 DEF ComputeKey
  <2>5. DOMAIN key' = Check /\ key'[c] = KeyFor(c, changed, fingerprint')
    BY <2>4 DEF IndInv, Types
  <2>6. IsKeyOf(key'[c], c)
    BY <2>3, <2>5 DEF IsKeyOf, KeyFor, OwnKey
  <2>7. Types'
    BY <1>1, <2>5 DEF ComputeKey, options, IndInv, Types
  <2>8. \A d \in Check \ {c} : key'[d] = key[d] /\ record'[d] = record[d]
    BY <1>1, <2>4 DEF ComputeKey, IndInv, Types
  <2>9. /\ thread[c] = "key" /\ thread' = [thread EXCEPT ![c] = "load"]
        /\ UNCHANGED <<tree, head, entries, running, options, moved, broken>>
    BY <1>1 DEF ComputeKey
  <2> QED
    BY <2>2, <2>5, <2>6, <2>7, <2>8, <2>9, ThreadMoves
<1>2. CASE LoadHit(c)
  <2>1. IsKeyOf(key[c], c)
    BY <1>2 DEF LoadHit, IndInv, RunInv
  <2>2. PICK e \in entries : e.key = key[c]
    BY <1>2 DEF LoadHit, Stored
  <2>3. EntryOf(key[c]) = e
    BY <2>2, EntryOfStored DEF IndInv
  <2>4. /\ e.content # "torn"
        /\ record' = [record EXCEPT ![c] = [status |-> e.content, cached |-> TRUE]]
    BY <1>2, <2>3 DEF LoadHit
  <2>5. e.content \in {"passed", "failed"}
    BY <2>4 DEF IndInv, EntriesSound
  <2>6. record'[c].status = e.content
    BY <2>4 DEF IndInv, Types
  <2>7. Types'
    BY <1>2, <2>4, <2>5 DEF LoadHit, options, IndInv, Types
  <2>8. DOMAIN key' = Check /\ \A d \in Check \ {c} : key'[d] = key[d] /\ record'[d] = record[d]
    BY <1>2, <2>4 DEF LoadHit, IndInv, Types
  <2>9. /\ thread[c] = "load" /\ thread' = [thread EXCEPT ![c] = "done"]
        /\ UNCHANGED <<tree, head, entries, running, options, moved, fingerprint, key, broken>>
    BY <1>2 DEF LoadHit
  <2>10. Backed(c)'
    BY <2>2, <2>4, <2>6, <2>9 DEF Backed
  <2> QED
    BY <2>1, <2>7, <2>8, <2>9, <2>10, ThreadMoves
<1>3. CASE LoadTorn(c)
  <2>1. IsKeyOf(key[c], c) /\ thread[c] = "load"
    BY <1>3 DEF LoadTorn, IndInv, RunInv
  <2>2. PICK e \in entries : e.key = key[c]
    BY <1>3 DEF LoadTorn, Stored
  <2>3. EntryOf(key[c]) = e
    BY <2>2, EntryOfStored DEF IndInv
  <2>4. key[c] \in broken
    <3>1. SUFFICES ASSUME key[c] \notin broken PROVE FALSE
      OBVIOUS
    <3>2. PICK d \in Check : thread[d] = "saving" /\ key[d] = key[c]
      BY <1>3, <2>2, <2>3, <3>1 DEF LoadTorn, IndInv, TornIsBeingWritten
    <3>3. key[d].check = d
      BY <3>2 DEF IndInv, RunInv, IsKeyOf
    <3> QED
      BY <2>1, <3>2, <3>3 DEF IsKeyOf
  <2>5. Types'
    BY <1>3 DEF LoadTorn, options, IndInv, Types
  <2>6. DOMAIN key' = Check
    BY <1>3 DEF LoadTorn, IndInv, Types
  <2>7. /\ thread' = [thread EXCEPT ![c] = "raised"]
        /\ UNCHANGED <<tree, head, entries, running, options, moved, fingerprint, key, record,
                       broken>>
    BY <1>3 DEF LoadTorn
  <2> QED
    BY <2>1, <2>4, <2>5, <2>6, <2>7, ThreadMoves
<1>4. CASE LoadMiss(c)
  <2>1. IsKeyOf(key[c], c)
    BY <1>4 DEF LoadMiss, IndInv, RunInv
  <2>2. Types' /\ DOMAIN key' = Check
    BY <1>4 DEF LoadMiss, options, IndInv, Types
  <2>3. /\ thread[c] = "load" /\ thread' = [thread EXCEPT ![c] = "run"]
        /\ UNCHANGED <<tree, head, entries, running, options, moved, fingerprint, key, record,
                       broken>>
    BY <1>4 DEF LoadMiss
  <2> QED
    BY <2>1, <2>2, <2>3, ThreadMoves
<1>5. CASE Execute(c)
  <2>1. PICK status \in Outcomes[c][tree] :
          /\ record' = [record EXCEPT ![c] = [status |-> status, cached |-> FALSE]]
          /\ thread' = [thread EXCEPT ![c] = IF use_cache /\ status # "skipped"
                                             THEN "save" ELSE "done"]
    BY <1>5 DEF Execute
  <2>2. status \in {"passed", "failed", "skipped"}
    BY OutcomesAssumption DEF IndInv, Types
  <2>3. IsKeyOf(key[c], c)
    BY <1>5 DEF Execute, IndInv, RunInv
  <2>4. record'[c].status = status /\ ~record'[c].cached
    BY <2>1 DEF IndInv, Types
  <2>5. Types'
    BY <1>5, <2>1, <2>2 DEF Execute, options, IndInv, Types
  <2>6. DOMAIN key' = Check /\ \A d \in Check \ {c} : key'[d] = key[d] /\ record'[d] = record[d]
    BY <1>5, <2>1 DEF Execute, IndInv, Types
  <2>7. /\ thread[c] = "run"
        /\ UNCHANGED <<tree, head, entries, running, options, moved, fingerprint, key, broken>>
    BY <1>5 DEF Execute
  <2>8. CASE use_cache /\ status # "skipped"
    <3>1. thread' = [thread EXCEPT ![c] = "save"]
      BY <2>1, <2>8
    <3>2. /\ record'[c].status \in {"passed", "failed"} /\ ~record'[c].cached
          /\ record'[c].status \in Outcomes[c][tree]
      BY <2>2, <2>4, <2>8
    <3> QED
      BY <2>3, <2>5, <2>6, <2>7, <3>1, <3>2, ThreadMoves
  <2>9. CASE ~(use_cache /\ status # "skipped")
    <3>1. thread' = [thread EXCEPT ![c] = "done"]
      BY <2>1, <2>9
    <3> QED
      BY <2>3, <2>4, <2>5, <2>6, <2>7, <3>1, ThreadMoves
  <2> QED
    BY <2>8, <2>9
<1>6. CASE SaveBegin(c)
  <2>1. /\ thread[c] = "save" /\ thread' = [thread EXCEPT ![c] = "saving"]
        /\ entries' = {e \in entries : e.key # key[c]} \cup {Written(c, "saving")}
        /\ UNCHANGED <<tree, head, running, options, moved, fingerprint, key, record, broken>>
    BY <1>6 DEF SaveBegin, Store, Written
  <2> QED
    BY <2>1, ThreadWrites
<1>7. CASE SaveEnd(c)
  <2>1. /\ thread[c] = "saving" /\ thread' = [thread EXCEPT ![c] = "done"]
        /\ entries' = {e \in entries : e.key # key[c]} \cup {Written(c, "done")}
        /\ UNCHANGED <<tree, head, running, options, moved, fingerprint, key, record, broken>>
    BY <1>7 DEF SaveEnd, Store, Written
  <2> QED
    BY <2>1, ThreadWrites
<1>8. CASE ThreadFails(c) \/ SaveFails(c)
  <2>1. Types' /\ DOMAIN key' = Check
    BY <1>8 DEF ThreadFails, SaveFails, options, IndInv, Types
  <2>2. /\ thread[c] # "idle" /\ thread' = [thread EXCEPT ![c] = "failed"]
        /\ thread[c] = "saving" => key[c] \in broken'
        /\ broken \subseteq broken'
        /\ UNCHANGED <<tree, head, entries, running, options, moved, fingerprint, key, record>>
    BY <1>8 DEF ThreadFails, SaveFails
  <2> QED
    BY <2>1, <2>2, ThreadMoves
<1> QED
  BY <1>1, <1>2, <1>3, <1>4, <1>5, <1>6, <1>7, <1>8 DEF PoolThread

LEMMA IndInvStep == IndInv /\ [Next]_vars => IndInv'
<1> SUFFICES ASSUME IndInv, [Next]_vars PROVE IndInv'
  OBVIOUS
<1>1. CASE UNCHANGED vars
  <2>1. Types' /\ EntriesSound' /\ Unique'
    BY <1>1 DEF vars, options, threads, IndInv, Types, EntriesSound, Unique, Scope, StandsFor,
                Names
  <2>2. TornIsBeingWritten' /\ HitsAreStored' /\ RaisesOnlyOverBrokenWrites'
    BY <1>1 DEF vars, options, threads, IndInv, TornIsBeingWritten, HitsAreStored, Backed, Hit,
                RaisesOnlyOverBrokenWrites
  <2>3. RunInv'
    BY <1>1 DEF vars, options, threads, IndInv, RunInv, IsKeyOf, OwnKey, KeyFor, Fingerprint, Scope
  <2> QED
    BY <2>1, <2>2, <2>3 DEF IndInv
<1> QED
  BY <1>1, BetweenRuns, PoolThreadStep DEF Next

THEOREM Inductive == Spec => []IndInv
BY IndInvInit, IndInvStep, PTL DEF Spec

(* A hit is what the check would return on the tree as it is, unless an     *)
(* edit was hidden from the key by a commit, by the changed paths of one of *)
(* the two runs, or by coming while one of them was at work.                *)
THEOREM HitsAreFreshUnlessHidden == Spec => []FreshUnlessHidden
<1>1. IndInv => FreshUnlessHidden
  <2> SUFFICES ASSUME IndInv, NEW c \in Check, Hit(c), AllNamed, EntryOf(key[c]).exact,
                      changed = {} \/ EntryOf(key[c]).head = head
               PROVE  Fresh(c)
    BY DEF FreshUnlessHidden
  <2>1. key[c] = OwnKey(c)
    BY DEF IndInv, RunInv, IsKeyOf, Hit, AllNamed
  <2>2. PICK e \in entries :
          e.key = key[c] /\ e.content = record[c].status /\ e.content # "torn"
    BY DEF IndInv, HitsAreStored, Backed
  <2>3. EntryOf(key[c]) = e
    BY <2>2, EntryOfStored DEF IndInv
  <2>4. StandsFor(e.key, e.head) = tree
    BY <2>1, <2>2, <2>3, OwnKeyStandsForTree, WholeRepositoryKey DEF IndInv, AllNamed
  <2>5. e.key.check = c
    BY <2>1, <2>2 DEF OwnKey, KeyFor
  <2> QED
    BY <2>2, <2>3, <2>4, <2>5 DEF IndInv, EntriesSound, Fresh
<1> QED
  BY <1>1, Inductive, PTL

(* No thread of a run reads an entry another one is writing: what raises    *)
(* over the cache is an entry whose own write was cut short, by a kill or   *)
(* by an error.                                                             *)
THEOREM OnlyBrokenWritesPoison == Spec => []RaisesOnlyOverBrokenWrites
<1>1. IndInv => RaisesOnlyOverBrokenWrites
  BY DEF IndInv
<1> QED
  BY <1>1, Inductive, PTL
=============================================================================
