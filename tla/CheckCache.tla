----------------------------- MODULE CheckCache -----------------------------
(***************************************************************************)
(* The result cache of the check runner, src/sdetkit/checks/cache.py, over *)
(* successive runs in one working tree, one at a time: files are edited    *)
(* and committed between and during runs, the changed files are those git  *)
(* lists or those of --changed-path, and the write of an entry may fail or *)
(* be cut short by a kill.                                                 *)
(*                                                                         *)
(* The profile, the command and the test targets, which are in the key as  *)
(* well, are the same in every run here, and so is the order in which      *)
(* changed paths are given: runs that differ in them share no entry.       *)
(* Paths of the directories the cache ignores are left out.                *)
(***************************************************************************)
EXTENDS Naturals

CONSTANTS Check,     \* cacheable checks of the profile
          Path,      \* files of the repository
          Content,   \* what a file may contain
          Outcomes,  \* what each check may return on a tree (a set: flaky checks)
          MaxRuns,   \* bound: runs in one behaviour
          MaxChanges \* bound: edits and commits in one behaviour

Tree == [Path -> Content]

ASSUME OutcomesAssumption ==
  Outcomes \in [Check -> [Tree -> SUBSET {"passed", "failed", "skipped"}]]

ASSUME BoundsAssumption == MaxRuns \in Nat /\ MaxChanges \in Nat

(* A name given for a changed path that covers no file: it does not exist   *)
(* or lies outside the repository.  It adds nothing to the fingerprint, so  *)
(* it is only given alone here.  A directory is the set of its files.       *)
Elsewhere == "elsewhere"

ASSUME ElsewhereAssumption == Elsewhere \notin Path

VARIABLES tree,         \* the working tree
          head,         \* the tree of the last commit
          entries,      \* the cache directory: what is stored under each key
          running,      \* is a run in progress?
          use_cache,    \* not --no-cache
          changed,      \* the plan's changed files
          moved,        \* was the tree or the commit changed under the run?
          fingerprint,  \* _fingerprint_cache, NoFingerprint before
          thread,       \* per check, where its pool thread is
          key,          \* per check, its cache key
          record,       \* per check, the record it returns
          runs, changes,
          broken        \* keys of the entries whose write was cut short

options == <<use_cache, changed>>
threads == <<thread, key, record>>
vars == <<tree, head, entries, running, options, moved, fingerprint, threads, runs, changes,
          broken>>

NoFingerprint == [p \in {} |-> "none"]

NoKey == [check |-> "none"]

NoRecord == [status |-> "none", cached |-> FALSE]

(* What discover_changed_files sees: the paths git status lists. *)
Changed == {p \in Path : tree[p] # head[p]}

(* _iter_paths: the files the names cover, or the whole repository.         *)
Scope(names) == IF names = {} THEN Path ELSE names \cap Path

Fingerprint(names) == [p \in Scope(names) |-> tree[p]]

(* Mutant: the key names the changed files only. *)
KeyOfNames(c, names, digest) == [check |-> c, changed |-> names, digest |-> NoFingerprint]

(* Mutant: the key does not name the check. *)
KeyOfTree(c, names, digest) ==
  [check |-> CHOOSE d \in Check : TRUE, changed |-> names, digest |-> digest]

(* key_for *)
KeyFor(c, names, digest) == [check |-> c, changed |-> names, digest |-> digest]

Stored == {e.key : e \in entries}

EntryOf(k) == CHOOSE e \in entries : e.key = k

(* An entry: its key, what its file holds, and what the code does not       *)
(* store: the commit it was made on, and whether the key covered every      *)
(* uncommitted edit of a tree that stood still.                             *)
Store(k, content) ==
  entries' = {e \in entries : e.key # k}
    \cup {[key |-> k, content |-> content, head |-> head,
           exact |-> Changed \subseteq Scope(k.changed) /\ ~moved]}

Init ==
  /\ tree \in Tree
  /\ head = tree
  /\ entries = {}
  /\ running = FALSE
  /\ use_cache = TRUE
  /\ changed = {}
  /\ moved = FALSE
  /\ fingerprint = NoFingerprint
  /\ thread = [c \in Check |-> "idle"]
  /\ key = [c \in Check |-> NoKey]
  /\ record = [c \in Check |-> NoRecord]
  /\ runs = 0 /\ changes = 0
  /\ broken = {}

----------------------------------------------------------------------------
(* The developer, between runs and while one is at work. *)

Edit(p, v) ==
  /\ tree[p] # v
  /\ tree' = [tree EXCEPT ![p] = v]
  /\ moved' = running
  /\ changes < MaxChanges /\ changes' = changes + 1
  /\ UNCHANGED <<head, entries, running, options, fingerprint, threads, runs, broken>>

Commit ==
  /\ head' = tree
  /\ moved' = running
  /\ changes < MaxChanges /\ changes' = changes + 1
  /\ UNCHANGED <<tree, entries, running, options, fingerprint, threads, runs, broken>>

----------------------------------------------------------------------------
(* A run: the planner takes the paths it is given, or those git status      *)
(* lists: none without a repository or when git fails.  Files that git      *)
(* ignores, quotes, or renames away are like those a hint leaves out.       *)
(* Each check gets a thread of its own; in which order is CheckRunner's     *)
(* business.                                                                *)

ResolveChanged(hint, listed) == IF hint # {} THEN hint ELSE listed

StartRun ==
  /\ ~running /\ runs < MaxRuns
  /\ runs' = runs + 1
  /\ running' = TRUE
  /\ use_cache' \in BOOLEAN
  /\ \E hint \in (SUBSET Path) \cup {{Elsewhere}}, listed \in {Changed, {}} :
       changed' = ResolveChanged(hint, listed)
  /\ moved' = FALSE
  /\ fingerprint' = NoFingerprint
  /\ thread' = [c \in Check |-> "key"]
  /\ key' = [c \in Check |-> NoKey]
  /\ record' = [c \in Check |-> NoRecord]
  /\ UNCHANGED <<tree, head, entries, changes, broken>>

(* compute_repo_fingerprint is remembered for the rest of the run. *)
ComputeKey(c) ==
  /\ thread[c] = "key"
  /\ fingerprint' = IF fingerprint = NoFingerprint THEN Fingerprint(changed) ELSE fingerprint
  /\ key' = [key EXCEPT ![c] = KeyFor(c, changed, fingerprint')]
  /\ thread' = [thread EXCEPT ![c] = "load"]
  /\ UNCHANGED <<tree, head, entries, running, options, moved, record, runs, changes, broken>>

LoadHit(c) ==
  /\ thread[c] = "load" /\ use_cache
  /\ key[c] \in Stored /\ EntryOf(key[c]).content # "torn"
  /\ record' = [record EXCEPT ![c] = [status |-> EntryOf(key[c]).content, cached |-> TRUE]]
  /\ thread' = [thread EXCEPT ![c] = "done"]
  /\ UNCHANGED <<tree, head, entries, running, options, moved, fingerprint, key,
                 runs, changes, broken>>

(* json.loads raises on a file that was not written to its end. *)
LoadTorn(c) ==
  /\ thread[c] = "load" /\ use_cache
  /\ key[c] \in Stored /\ EntryOf(key[c]).content = "torn"
  /\ thread' = [thread EXCEPT ![c] = "raised"]
  /\ UNCHANGED <<tree, head, entries, running, options, moved, fingerprint, key, record,
                 runs, changes, broken>>

LoadMiss(c) ==
  /\ thread[c] = "load"
  /\ key[c] \notin Stored \/ ~use_cache
  /\ thread' = [thread EXCEPT ![c] = "run"]
  /\ UNCHANGED <<tree, head, entries, running, options, moved, fingerprint, key, record,
                 runs, changes, broken>>

(* Mutant: skipped records are saved too. *)
ExecuteAndSaveAll(c) ==
  /\ thread[c] = "run"
  /\ \E status \in Outcomes[c][tree] :
       record' = [record EXCEPT ![c] = [status |-> status, cached |-> FALSE]]
  /\ thread' = [thread EXCEPT ![c] = IF use_cache THEN "save" ELSE "done"]
  /\ UNCHANGED <<tree, head, entries, running, options, moved, fingerprint, key,
                 runs, changes, broken>>

(* The check's run function; save is a no-op without the cache and is not   *)
(* called for a skipped record.                                             *)
Execute(c) ==
  /\ thread[c] = "run"
  /\ \E status \in Outcomes[c][tree] :
       /\ record' = [record EXCEPT ![c] = [status |-> status, cached |-> FALSE]]
       /\ thread' = [thread EXCEPT ![c] = IF use_cache /\ status # "skipped"
                                          THEN "save" ELSE "done"]
  /\ UNCHANGED <<tree, head, entries, running, options, moved, fingerprint, key,
                 runs, changes, broken>>

(* write_text truncates the entry ... *)
SaveBegin(c) ==
  /\ thread[c] = "save"
  /\ Store(key[c], "torn")
  /\ thread' = [thread EXCEPT ![c] = "saving"]
  /\ UNCHANGED <<tree, head, running, options, moved, fingerprint, key, record,
                 runs, changes, broken>>

(* ... and fills it. *)
SaveEnd(c) ==
  /\ thread[c] = "saving"
  /\ Store(key[c], record[c].status)
  /\ thread' = [thread EXCEPT ![c] = "done"]
  /\ UNCHANGED <<tree, head, running, options, moved, fingerprint, key, record,
                 runs, changes, broken>>

(* A file cannot be read, the check's function raises, or the entry cannot  *)
(* be opened: nothing is written.                                           *)
ThreadFails(c) ==
  /\ thread[c] \in {"key", "load", "run", "save"}
  /\ thread' = [thread EXCEPT ![c] = "failed"]
  /\ UNCHANGED <<tree, head, entries, running, options, moved, fingerprint, key, record,
                 runs, changes, broken>>

(* The write fails after the truncation: the entry stays torn.              *)
SaveFails(c) ==
  /\ thread[c] = "saving"
  /\ broken' = broken \cup {key[c]}
  /\ thread' = [thread EXCEPT ![c] = "failed"]
  /\ UNCHANGED <<tree, head, entries, running, options, moved, fingerprint, key, record,
                 runs, changes>>

PoolThread(c) ==
  ComputeKey(c) \/ LoadHit(c) \/ LoadTorn(c) \/ LoadMiss(c) \/ Execute(c)
    \/ SaveBegin(c) \/ SaveEnd(c) \/ ThreadFails(c) \/ SaveFails(c)

(* What a run kept in memory is gone with it. *)
Forget ==
  /\ running' = FALSE
  /\ use_cache' = TRUE
  /\ changed' = {}
  /\ moved' = FALSE
  /\ fingerprint' = NoFingerprint
  /\ thread' = [c \in Check |-> "idle"]
  /\ key' = [c \in Check |-> NoKey]
  /\ record' = [c \in Check |-> NoRecord]

(* The report is written, or the exception of a thread is raised once the   *)
(* others have ended; a check behind a failed one was never started.        *)
EndRun ==
  /\ running
  /\ \A c \in Check : thread[c] \in {"key", "done", "raised", "failed"}
  /\ Forget
  /\ UNCHANGED <<tree, head, entries, runs, changes, broken>>

(* The process is killed. *)
Crash ==
  /\ running
  /\ Forget
  /\ broken' = broken \cup {key[c] : c \in {d \in Check : thread[d] = "saving"}}
  /\ UNCHANGED <<tree, head, entries, runs, changes>>

Next ==
  \/ \E p \in Path, v \in Content : Edit(p, v)
  \/ Commit \/ StartRun \/ EndRun \/ Crash
  \/ \E c \in Check : PoolThread(c)

Spec == Init /\ [][Next]_vars

----------------------------------------------------------------------------
(* Properties. *)

Labels == {"idle", "key", "load", "run", "save", "saving", "done", "raised", "failed"}

Keys == [check : Check, changed : SUBSET (Path \cup {Elsewhere}),
         digest : UNION {[s -> Content] : s \in SUBSET Path}]

(* What is stored is a finished record or a torn file: never a skip, which  *)
(* would be replayed after the missing tool was installed.                  *)
TypeOK ==
  /\ tree \in Tree /\ head \in Tree
  /\ \A e \in entries : e.key \in Keys /\ e.content \in {"torn", "passed", "failed"}
                        /\ e.head \in Tree /\ e.exact \in BOOLEAN
  /\ \A d, e \in entries : d.key = e.key => d = e
  /\ running \in BOOLEAN /\ use_cache \in BOOLEAN /\ moved \in BOOLEAN
  /\ changed \subseteq Path \cup {Elsewhere}
  /\ broken \subseteq Keys
  /\ thread \in [Check -> Labels]
  /\ record \in [Check -> [status : {"none", "passed", "failed", "skipped"}, cached : BOOLEAN]]

Hit(c) == thread[c] = "done" /\ record[c].cached

Fresh(c) == record[c].status \in Outcomes[c][tree]

(* Is every edit that is not in the key of this run one of its commit?      *)
AllNamed == Changed \subseteq Scope(changed) /\ ~moved

(* A hit is what the check would return on the tree as it is, unless an     *)
(* edit was hidden from the key: by a commit after the entry was made, by   *)
(* changed paths that leave an edited file out, in the run that made the    *)
(* entry or in this one, or by coming while one of them was at work.  With  *)
(* the whole repository in the key a commit hides nothing.                  *)
FreshUnlessHidden ==
  \A c \in Check :
    LET entry == EntryOf(key[c]) IN
    Hit(c) /\ AllNamed /\ entry.exact /\ (changed = {} \/ entry.head = head) => Fresh(c)

(* A run only raises over an entry whose own write was cut short, by a kill *)
(* or an error: no thread reads what another one is writing.                *)
RaisesOnlyOverBrokenWrites == \A c \in Check : thread[c] = "raised" => key[c] \in broken

(* "cached check results were reused where safe" (checks/artifacts.py).     *)
HitsAreFresh == \A c \in Check : Hit(c) => Fresh(c)

=============================================================================
