# TLA+ models and proofs for sdetkit

`sdetkit` is a command line toolkit that runs quality checks on a repository,
keeps the evidence, and says whether a change may be merged. Most of its 3992
files are reports, fixtures and commands that read files once and print. The
parts with state, concurrency or failure handling are few; this directory models
them, checks the models with TLC and proves their main properties with TLAPS.

Paths below are relative to the repository; `checks/…`, `ops/…` and the other
Python modules are under `src/sdetkit/`.

## 1. Inventory

| part | source | state | operations | what is hard | modelled |
|---|---|---|---|---|---|
| check planner | `checks/planner.py` | none (a function of registry, request and changed files) | `plan`: resolve profile, close over dependencies, order, skip, narrow tests | adaptive profiles, cyclic or unknown dependencies, dependencies that meet again | `CheckPlanner`, `Planning` |
| check runner | `checks/runner.py`, `checks/builtin.py`, `checks/results.py` | `pending_ids`, `futures`, `completed`, pool threads | `run`, `_execute_item`, `_run_subprocess`, `build_final_verdict` | passes and completions interleave; exclusive checks; an exception in one check; a loop that stops when a pass changes nothing | `CheckRunner` |
| check result cache | `checks/cache.py` | one JSON file per key | `key_for`, `load`, `save` | staleness of keys, what `--changed-path` leaves out, kills and errors during a write, threads that read what others write | `CheckCache` |
| diagnostic queue | `job_queue.py` | `job_queue.json` | `enqueue_job`, `claim_job`, `complete_job`, `fail_job` | load and replace in separate steps, no lock; crashes; writes that fail | `JobQueue` (what it promises), `DiagnosticQueue` |
| queued worker and bounded runner | `queued_diagnostic_worker.py`, `diagnostic_queue_runner.py`, `diagnostic_queue_runner_cli.py` | counters of one run, the queue file | claim, diagnose, complete or fail, up to `--max-jobs` | completion that fails after the work; naming the failed job from two reads of the file | `DiagnosticQueue` |
| ops control plane | `ops/ops_control.py` | `remaining`, `futures`, `statuses`, pool, cache | `run` with `--jobs`, `--fail-fast`, `--no-cache` | results that arrive after the loop stopped looking; fail-fast with tasks in flight; the cache across runs | `OpsControl` |
| ops workflow engine | `ops/ops.py` | `ready`, `deps`, `futures`, results; run directories | `run_workflow`, `replay_run`, `list_runs`, `load_run` | steps that end together with `fail_fast` in between; kills between the three documents; runs that share a directory; a workflow edited while a run starts | `OpsWorkflow`, `OpsHistory` |
| network client | `netclient.py` | the breaker's counter, time and half-open mark; one walk's URLs | requests with retries, three ways of following pages | answers that come in after the breaker opened, probes without an outcome; sites with cycles | `NetClient`, `Pagination` |
| omnichannel gateway | `agent/omnichannel.py` | buckets in memory and on file, conversation files | a webhook request | a thread per request, restarts, files no lock guards, files and memory keyed differently | `Omnichannel` |
| atomic writes | `utils/atomicio.py` | a file, its temporaries, what is on disk | write, fsync, replace, fsync of the directory | kills and power losses between the calls, several writers | `AtomicRegister` (what it promises), `AtomicFile` |
| cassettes | `cassette.py`, `cassette_get.py`, `apiget.py` | the cassette file | record, replay, save | retries and redirects that consume the tape, saving in place, two commands on one file | `Cassette` |
| patch command | `patch.py` | the files of a spec, a report | check, apply | failure after some files were replaced, two commands on the same files | `PatchApply` |
| agent runtime, maintenance, gates, stores, reports | see `PROJECT.json` | one file per command | sequential | little | left out, section 5 |

How the modelled parts interact: the planner returns a plan by value and the
runner executes it; the runner's threads share one `CheckCache` object and its
directory with later runs; the queue runner and other commands share nothing but
the queue file; the ops control plane has a cache of its own. There are no
callbacks between these subsystems, so each is a specification of its own. Three
compositions are real and modelled: `MCCheckRunner` makes its plans by the steps of
`CheckPlanner` (and `PlansFitTheRunner` proves that such plans are what the runner
is proved for), `DiagnosticQueue` contains the worker, the runner and
the commands that enqueue beside it, and `Cassette` contains the client's retries
and pages above the recording and replaying transports. The documents, counters
and conversations of `OpsHistory`, `OpsWorkflow`, `Omnichannel` and
`DiagnosticQueue` are written through `utils/atomicio.py`; they take a write to be
one step, which is what `AtomicFile` shows of it by refining `AtomicRegister`.

What makes each part correct:

* **planner** – exactly the dependency closure is planned, dependencies first,
  each check once.
* **runner** – no check starts before its dependencies passed; exclusive checks
  are alone; nothing is dropped; the verdict covers every thread; the run ends.
* **cache** – a hit is what the check would return now, or the reason is known; no
  thread reads what another one is writing.
* **queue** – `pending -> claimed -> completed | failed`, each at most once, in
  claim order; the file always loads.
* **queue runner** – no job is diagnosed twice; its summary agrees with the file.
* **ops control** – dependency order, `--jobs`, `--fail-fast`; the printed
  statuses and the exit code are what the commands did.
* **ops workflow** – nothing starts behind a failed step, no result is dropped,
  the status on record is earned, what is listed can be loaded; documents of
  different work are never mixed.
* **network client** – an open breaker is quiet, sends one probe at a time and
  closes again; a list of pages is the site's or an error.
* **omnichannel** – bursts stay within the bucket across restarts, who waits is
  served, rows are not lost.
* **atomic writes** – a reader sees one of the documents, whole; what was made
  durable is not undone.
* **cassettes** – a replay gives what was recorded and ends as it ended.
* **patch** – exit code 0 means applied; the report names what was changed.

## 2. The models

Each action stands for one stretch of code between two points where another
thread, another process or a kill can be noticed. Definitions whose comment says
*Mutant* are deliberately wrong versions of the definition that follows; no run
uses them as they stand. They say which bug each property would catch.

### CheckPlanner and Planning

`CheckPlanner` holds operators only. A registry is a record of functions over check
ids, a request is what `plan` reads. `ResolveProfile` and `TargetMode` follow the
methods of that name. Changed files are abstracted to first path component, suffix
and whether a test module of that name exists: the planner looks at nothing else.
The depth first search of `_resolve_dependencies` is written with its stack: `calls`
holds the loop over `requested_ids` and the calls of `visit` in progress, each with
the names it has not come to yet, so `Visited` is one call (seen, unknown, or
entered) and `Returned` its `ordered.append`. `Resolved` is the loop over the checks
that were not selected, `Sorted` one turn of the loop over those that were, `PlanOf`
the `CheckPlan`. `Planning` makes actions of them (`PlanningSpec`); `CheckRunner`
extends `CheckPlanner` for the check ids and the plans it makes. `Closure` is the reference
definition, the least set closed under dependencies, without any traversal.

### CheckRunner

`pc` walks the main thread through `CheckRunner.run`: `head` (the `while`),
`scan` (the pass over `plan_items`, at `pos`), `settle` (the test after it),
`wait`, `report`. The four `continue`s of the pass are `PassOver`; the two ways
a check leaves `pending_ids` are `SkipBlocked` and `Submit`. `Collect` pops every
future that is done, since `wait(FIRST_COMPLETED)` returns all of them.
`result[c]` is what the pool thread of `c` is doing: `_execute_item` may hit the
cache, find a tool missing, attempt the subprocess up to `max_attempts` times or
raise. An exception leaves through `CollectRaised` and `Unwind`, the executor's
exit that joins the threads. Threads communicate with the main thread through
their future only, so the interleaving is: any thread step between any two steps
of the pass.

### CheckCache

`tree` is the working tree, `head` the last commit, `entries` the cache
directory. Files are edited and committed between runs and while one is at work.
A run fixes `changed` by `ResolveChanged`: the paths given with `--changed-path`,
whatever they are, or else what `git status` lists, which is nothing outside a
repository or when git fails. Then each check computes its key, loads, executes and
saves. `write_text` truncates and fills, hence `SaveBegin` and `SaveEnd`; it may
fail in between (`SaveFails`), and the process may be killed anywhere (`Crash`).
`ThreadFails` is every other exception of a thread. Without changed files the
fingerprint covers the whole repository, with paths that lead nowhere
(`Elsewhere`) no file at all, as in `_iter_paths`; it is remembered for the run,
so that an edit during the run is not in it. What a check returns on a tree is a
*set*, so flaky checks are covered. A deleted file is a content like any other:
leaving its name out of the digest and putting a mark for it in are equally
distinguishable. History, for the properties only: each entry carries the `head` it
was made on and whether its key covered every uncommitted edit of a tree that stood
still (`exact`); `moved` says that the tree or the commit changed under the run;
`broken` names the entries whose write was cut short.

### JobQueue and DiagnosticQueue

`JobQueue` is the abstract queue: five states, one atomic step per operation,
claims in `(created_at, job_id)` order. `DiagnosticQueue` is the code: an
operation loads the file into `snapshot` and later replaces the whole file with
it (`WriteQueue`, guarded by `_validate_record` as in `_write_queue`). Records
keep their state and which evidence fields are set, because that is what
validation relates. `pc` walks a process through one command: `enqueue`, or the
bounded runner with the worker inlined (`claim`, `work`, `complete` or `fail`,
`next`, `report`). `WriteFails` is any I/O or validation error of the write;
`Crash` kills the process at any label. `executed`, `settled`, `completed_before`
are history. The mapping to `JobQueue` is the `state` field of each record.

### OpsControl

`remaining`, `futures`, `statuses` and `failed` are the local variables of
`run`. `SubmitReady` is one turn of the loop up to `wait`; `Record` is its body
over the finished futures, shared by `Collect` and by `CollectRaised`, where the
iteration has come to some of them before the exception. `Joined` is the pool's
`__exit__`, which waits for commands whose future the loop no longer looks at.
`TaskOrder` is what `_task_order` can place; tasks on or behind a cycle are left
out. `RunAgain` starts another run over the same cache with options of its own,
with or without an edit in between; an edit of any `*.py` file changes every key.

### AtomicRegister and AtomicFile

`AtomicRegister` is what readers are promised: a value, the values a power loss
may bring back (`survivors`), and calls that take effect in one step or not at
all. `AtomicFile` is `atomic_write_text` call by call (`atomic_write_bytes` is
the same sequence): `Create`, `Write`, `SyncData`, `ReplaceTarget`, `SyncDirectory`
or `SkipDirectory`, with a failing variant of each, `CleanUp` for the `finally`,
`KillWriter` and `PowerLoss`. What the running system sees (`target`) is kept apart from
what is on disk (`data`, `pending`). A call takes effect at its `os.replace`.

### OpsWorkflow and OpsHistory

`OpsWorkflow` is one `run_workflow`: `phase` walks the calling thread through
`Submit` (the loop that fills the pool from the priority queue), `Wait`,
`Collect` (one future of the batch, in any order), `Leave`, `Join` (the pool's
`__exit__`) and `WriteDocument` (`run.json`, `results.json`, `events.jsonl`).
Pool threads run `Start` and `Finish`. `_validate_graph` is `Acyclic`. A
`fail_fast` error empties `futures` and not `ready`, as the code does.

`OpsHistory` is several runs and replays that write to directories named by
second, workflow text and inputs (`_run_id`), so that they may share one.
`run_workflow` reads the workflow file twice: `Begin` reads the text that names the
directory, `LoadWorkflow` the one that is run, and `Edit` may come between. The
temporary file and its replacement, the listing and hashing of artifacts, and the
two documents are steps of their own, and `load_run` reads between them. Which file
a step writes is the workflow's business, so artifacts are told apart by the text
that was run. `LoadRaises`, `Raises`, `HashRaises` and `GoOnOrRaise` are the ways a run
ends in an exception, the last one when the file was replaced already; a run that is
killed takes no further step. History: `edited` are the runs that saw an edit between their two reads,
`earlier` those that had ended when a run got its directory.

### NetClient and Pagination

`NetClient` is the breaker with the retry loop of `request` and `_request_json`;
each exchange and sleep is a point where other calls run, as in the async client.
`opened` is the time since the breaker opened, capped where `allow` stops caring.
An outcome is what the code distinguishes: timeout, request error, 429, another
status, success, an undecodable body, a cancelled task. `streak`, `quiet`,
`probes` and `unsettled` are history. `Pagination` walks every site of a few
pages by Link header, sync envelope and async envelope, each with its own
treatment of empty and odd links, relative and absolute URLs.

### Omnichannel

A request goes through `Allow` (the limiter under its lock, memory and file),
the task, and `ReadRows` and `ReplaceRows`, the two halves of
`ConversationStore.append`. The limiter's file is named by `file_of` and its memory
by `key_of`, and neither tells all users apart: `/` becomes `_` in a file name, and
`f"{channel}:{user_id}"` is the same for user `b:c` of channel `a` and user `c` of
channel `a:b`, whose files differ. `LoadFails` is a counter file that cannot be read,
`SaveFails` one that cannot be replaced, `Raises` any exception after that, `Restart`
a kill of the server: memory is lost and files stay. What the limiter bounds is
admissions (`routed`); the task of an admitted request starts when its thread comes
to it, and the model says nothing about when. Tokens are counted in units, which
leaves `round(tokens, 6)` nothing to do.

### PatchApply

A command walks the sorted files of its spec: read, apply the operations, check
the limits, replace, next; `Abandon` is the `except` of `main`, `Complete` its
normal end, `Return` and `ReportFails` the writing of the report after the `try`.
A file's text is the set of specs it shows. Commands run at the same time and
again after failures and kills.

### Cassette

A process runs `apiget` or `cassette-get` commands one after the other. `Received`
is what the client makes of one answer, whichever transport gave it: with
`--follow-redirects` httpx sends another request through the same transport for each
redirect, so an attempt is several exchanges (`hops`, `place`), all of them taped,
and an attempt that fails behind a redirect begins again at the page's own URL.
`Mismatch`, `Replay` and `Undecodable` are the replaying transport. `apiget` saves in
place when its client closes (`SaveBegins`, `SaveEnds`, or `SaveRefused` and
`SaveFails`), `cassette-get` replaces the file after a success (`ReplaceFile`,
`ReplaceFails`). A recording carries, as history, the requests that made it, what
its command received, and whether it tried again after a request error behind a
redirect (`interrupted`).

## 3. What is checked

| run | question | bounds |
|---|---|---|
| `planner` | closure, order | every list of dependencies of three checks in every order, with a repeated and an unknown name (19³), for four explicit requests; the built-in shape for all 480 requests, which reach each branch of the profile resolution |
| `check_runner` | dependency order, exclusion, complete report, verdict, termination | plans from 36 shapes over four checks (chains, diamonds, cycles, the built-in shape), 2 exclusive sets, 2 profiles, lint available or not; limits 0, 2, 3 |
| `check_cache` | fresh hits, only broken writes poison | 2 checks (one flaky and skippable), 2 files, 2 contents, 2 runs, 2 edits or commits; every choice of given paths |
| `queue_single` | refinement of `JobQueue`, no second diagnosis, summary against file | one process at a time, 3 jobs, 6 commands, `max_jobs` 1 or 2 |
| `queue_concurrent` | loadable file, summary adds up, commands end | 2 processes, 2 jobs, 3 commands |
| `queue_lost_update` | *violated*: terminal states are final | 2 processes, 2 jobs, 3 commands |
| `ops_control` | dependency order, fail-fast, skips, termination | 4 tasks, 3 dependency relations (ci profile, chain, cycle), jobs 0, 2, 3, 2 runs |
| `atomic_file` | refinement of `AtomicRegister`, durability | 3 calls, 2 power losses |
| `net_client` | one probe, backed mark, silence, recovery | 3 callers, 2 attempts each, threshold 3, reset after 2 ticks, undecodable answers and cancellations |
| `ops_workflow` | no start behind a failure, nothing dropped, termination | all relations on 3 steps, 1 or 2 workers, with and without fail_fast |
| `patch_apply` | exit code 0, honest report | 2 specs on the same 2 files, 3 commands |
| `separate_parts` | see below | see below |

`separate_parts` checks four parts that share no state: `Parts` chooses one of
them in its initial state and runs it alone, so that nothing is multiplied;
`MCParts` gives its constants values.

| part | question | bounds |
|---|---|---|
| `Omnichannel` | bursts, patience, rows | 4 requests of 3 users, of which one sends two and the other two share a key in memory; capacity 1, refill half a token per second, 2 seconds, 1 restart |
| `Pagination` | what is returned is the site's chain, a reported cycle is one | all sites of 3 pages with malformed pages and odd links, limits 1 to 4, the three walkers side by side |
| `Cassette` | replays are sound and reproduce | 1 process, 1 URL, 2 pages, 2 attempts, 1 redirect in an attempt, 3 exchanges on a tape, compressed answers or not; requests differ in the page and in where a redirect led. With `Url = {a, b}`, `Body = {x, y}` and `MaxTape = 2` in the same configuration the properties hold as well |
| `OpsHistory` | documents of one work, the last run is kept | 2 runs or replays, 2 workflow texts, 2 inputs, 2 seconds; runs and texts are symmetric (`MCOpsHistory.cfg`: 3 runs of 2 texts, one input, one second; about ten minutes) |

Why these bounds are enough to be interesting: four checks allow a diamond with an
exclusive check at its end while an unrelated check is in flight; two files, two
runs and two changes are what a stale hit needs (an earlier run made the entry, then
the edit of one file is hidden by a commit or by naming the other one), and two
threads are what a torn read needs; six
commands let a runner be killed, another one finish the queue and a third find
nothing; two processes are what a lost update needs, and three commands (enqueue a job,
run it, and enqueue another one from a queue loaded before that); jobs 0 exercises the clamp, 2 leaves a
ready task waiting, 3 leaves a thread idle. Three calls on a file let one be
undone by a second while a third is between its steps, and two power losses let
the first one's outcome be lost again. A late failure of a call sent before the
breaker opened, a probe under way and a call that is refused take three callers.
Three steps are a join, a fork and a cycle; two steps that end together need two
workers and a third that waits for one of them. Three commands let a spec fail,
another change the same files and the first be applied again. Two of a user's
requests overlap, or the second meets the empty bucket after a restart, while two
others drain one bucket in memory that stands for two files. Three exchanges are a
redirect, the page it leads to and the next page, or a redirect, a busy answer and
the page: what a retried tape repeats. Bounds in guards: `MaxRuns`, `MaxChanges`,
`MaxCommands`, `MaxJobs`, `MaxPowerLosses`, `MaxTime`, `MaxRestarts`, `MaxStarts`,
`MaxTape` and, through the values of `--retries`, `MaxAttempts`; attempts, pages and
redirects are bounded by the code's own limits (`max_attempts`, `retries`,
`max_pages`, and `MaxRedirects` for httpx's limit).

### Properties worth knowing

* `ReportIsComplete` (runner): the loop ends on a pass without progress, so it is
  not obvious that a check cannot be dropped. It is not, when the plan is
  topologically ordered, which `PlanOrderIsTopological` gives for acyclic
  registries. In cyclic plans checks on the cycle get no record.
* `VerdictSeesEveryResult`: `ok` is exactly "no blocking check returned failed",
  and an exception never ends in a report.
* `FreshUnlessHidden`: states precisely when a cache hit is right. An edit is
  *hidden* from a key by a commit made after the entry, by given paths that leave an
  edited file out (in the run that made the entry or in the one that hits it), or by
  coming while one of the two was at work; nothing else makes a hit stale, and when
  no file is named a commit hides nothing.
* `RaisesOnlyOverBrokenWrites`: a run may raise on an entry whose own write was cut
  short by a kill or an error, but threads of a run never read what another writes,
  because the key names the check.
* `SummaryIsTrue`: the runner's summary, computed from its own counters and two
  reads of the file, agrees with the file, the failed job included.
* `SelectionIsTheClosure`, `PlanOrderIsTopological`: one set `seen` that is never
  cleared, and a list that grows when a call returns, give exactly the closure and a
  topological order, also where dependencies meet again.
* `NothingStartsAfterFailFast`, `SkippedOnlyBehindFailure`: fail-fast is neither
  too late nor too eager.
* `IsRegister`, `DurableSurvives`: every reader sees an atomic register, and what
  a power loss brings back is never older than a call whose directory was synced.
* `BacksOff`: silence is counted from the *last* failure, also one that comes in
  late from a call sent while the breaker was closed. `MarkIsBacked` says when the
  half-open mark may stand; `ClosesAgain` that the breaker recovers unless a
  probe was given up without a record.
* `FailureBlocks`, `NothingDropped`: the order in which finished steps of a batch
  are looked at decides which results are dropped; never one that matters.
* `SameWork`: `load_run` reads two documents while runs replace both, and never
  mixes different inputs, nor different texts unless the workflow was edited between
  the two reads of one of the runs. `LastRunIsKept`: a run that comes to its
  directory after the others in it have ended, and is followed by none, replaces
  their documents by its own, and indexes its artifact, what they left, and no
  temporary file; also when earlier runs raised half-way.
* `BurstsAreBounded`: across restarts, for the memory is charged before the file.
  It speaks of users whose counter file and whose key in memory are no other user's:
  for those that share one (disagreement 8) the proof does not go through, and
  rightly, as what one of them saves replaces what the other one spent.
  `PatienceIsServed`: refused requests cost nothing; for the same users.
* `EndsAsTheSite`: no walker returns a part of a list, none twice.
* `ReplayReproduces`: unrecorded request errors consume attempts when recording
  and not when replaying, and yet the outcome is the same. It excepts recordings with
  a compressed answer (disagreement 11) and those that tried again after a request
  error behind a redirect: their tape repeats the redirect, and the replay, which
  meets no error, asks for something else (disagreement 12). `ReplayIsSound` excepts
  nothing.
* `ZeroMeansApplied`, `ReportIsHonest`: over several commands and attempts.

### Fairness

`RunEnds` in `CheckRunner` and `OpsControl` assumes that the main loop is
scheduled (weak fairness of `Main`) and that every pool thread finishes (weak
fairness per thread). The first is the interpreter's. The second is an assumption
on the checked commands: **the code sets no timeout on a subprocess**, so a
command that hangs hangs the run. `CommandEnds` assumes that a started command
keeps running; no command is ever assumed to be started, and kills are not fair.
`Ends` of `OpsWorkflow` assumes the same of the calling thread and the pool as
`RunEnds`. `ClosesAgain` assumes that time passes, that a request gets some answer
(httpx has a timeout), that a sleep ends, and that callers go on calling: a
breaker nobody asks stays open, by design. Which answer comes is free, until the
server stops failing. Nothing else uses fairness. States in which a program has
ended stutter explicitly (`Terminated`, `Quiet`, `Planned`, `Ended`, `Served`,
`Finished`), so a state in which everybody waits is reported. Only the two
configurations of `CheckCache` turn deadlock checking off: after `MaxRuns` runs and
`MaxChanges` changes the developer does nothing more, and no thread of a run waits
for anything.

### Disagreements found

Where the code does not do what a document, a message or a test says. The run
`queue_lost_update` is listed in `PROJECT.json`; each of the others is
reproduced by the configuration named, in which TLC reports the violated property.

1. `job_queue.py:263`: two processes that work on the queue at once can undo each
   other's writes: a completed job is claimed or pending again
   (`queue_lost_update`). With one process at a time this is proved impossible.
2. `checks/results.py:153`: a blocking check that was *skipped* counts as no
   failure; the verdict is ok and its summary says "All blocking checks passed."
   (`MCCheckVerdict.cfg`, module `MCCheckRunner`).
3. `checks/cache.py:34`: with changed files the key does not see what was committed
   since, nor, with `--changed-path`, what was edited and not named, although hits
   are described as "reused where safe" (`MCCacheHonesty.cfg`, `MCCheckCache`).
4. `ops/ops_control.py:278`: `while remaining` leaves the loop with commands in
   flight. Their results are never looked at: a late FAIL is printed as SKIPPED
   and the exit code is 0. The timing of the commands decides
   (`MCOpsExitCode.cfg`, `MCOpsControl`).
5. `netclient.py:727`: a 2xx answer whose body is not JSON records nothing; when it
   answered the probe, the breaker refuses every later call, although
   `tests/test_netclient_breaker.py:7` is named "opens and then allows after
   reset" (`MCBreakerStuck.cfg`, `NetClient`).
6. `netclient.py:912`: at an empty next URL the sync envelope stops and the async
   one fetches the base URL, although `tests/test_netclient_envelope_parity.py:10`
   says that they match (`MCPaginationParity.cfg`, `Pagination`).
7. `agent/omnichannel.py:105`: of two requests of one user at once one row is lost,
   although `docs/omnichannel-mcp-bridge.md:10` says that conversations are
   persisted (`MCConversations.cfg`, `MCOmnichannel`).
8. `agent/omnichannel.py:129`: users `a/b` and `a_b` share a counter file, so the
   first request of one may be refused for what the other sent; "per-user" in
   `docs/omnichannel-mcp-bridge.md:11` (`MCSharedCounter.cfg`, `MCOmnichannel`). The
   same happens at `agent/omnichannel.py:136` to users with different files and one
   key in memory (the same configuration with `OwnFiles` and `SharedKey`).
9. `ops/ops.py:410`: two runs of the same workflow and inputs in one second write
   the same documents, although `docs/automation-os.md:40` says that each run
   creates them (`MCOpsHistoryKept.cfg`, `MCOpsHistory`).
10. `patch.py:959`: a report file in the way ends a command that applied its
    changes in a traceback with exit code 1, which `docs/patch-harness.md:66`
    reserves for `--check` (`MCPatchExitCodes.cfg`, `PatchApply`).
11. `cassette.py:173`: the recorded body is decoded and its headers say that it is
    encoded, so a compressed answer cannot be replayed, although
    `sdet_package.py:44` offers "cassette-based API replay to remove flakiness"
    (`MCCassetteEncoding.cfg`, `MCCassette`).
12. `cassette.py:174`, against the same line: with `--follow-redirects` and
    `--retries`, a request error behind a redirect leaves the redirect on the tape
    twice, and a recording that succeeded is replayed as a "cassette mismatch"
    (`ReplayAlwaysReproduces` again, `MCCassetteEncoding.cfg` with
    `Encoding = {FALSE}`, `MaxAttempts = 2` and `MaxTape = 3`).
13. `ops/ops.py:518`: a workflow edited between the two reads is run under the name
    of its earlier text, in a directory where a run of that text may be
    (`SameWork` says that nothing but this mixes documents of two texts).

## 4. What is proved

All theorems are about the specifications TLC checks, for every value of the
constants that satisfies the named assumptions of the modules.

**`CheckRunnerProofs`** (assumes that `CheckId` is finite, that plans satisfy
`IsPlan` and that worker limits are integers). Safety is proved from `IndInv`,
which adds to the checked invariants where every selected check is
(`Partition`: pending, in flight or recorded), that a selected check recorded without a
thread is a skip with a failed or skipped dependency (`SkipsAreJustified`), that
there is room in the pool and no exclusive check in flight whenever a pass may
submit (`PoolDiscipline`), and what a pass without progress has
learnt about the items before `pos` (`PassKnowledge`). The last one is what makes
`ReportIsComplete` provable: at the end of such a pass with nothing in flight no
pending check has all its dependencies recorded, and in a topologically ordered
plan the first pending check would have. `TypeCorrect`, `DependencyOrder`,
`PoolBound`, `CompleteReport` and `HonestVerdict` follow.

The second half is about the planner, for every registry and request of the types
`InputsAssumption` names. `DfsInv` says of the depth first search: the stack is a path of
dependencies, and what a call on it has not come to is all that it still needs
(`OnStack`); what is seen is placed or on the stack, and what a placed check depends
on is seen (`SeenIsPlaced`); everything seen or due belongs to every closed set
(`OnlyReached`); in an acyclic registry what is placed is in order
(`PlacedInOrder`). The last conjunct needs the first two: a check is placed when its
dependencies are seen, and one of them that is not placed is still on the stack,
below it; the calls from there up are then a set of checks each of which depends on
one of the set, which `Acyclic` excludes. When the stack is empty `seen` is both
closed and within every closed set (`PlansTheClosure`, `PlansInOrder`).
`PlansFitTheRunner` is the link: what the planner makes satisfies `IsPlan`, the runner's assumption, and
from acyclic registries `TopologicallyOrdered`, the hypothesis of `ReportIsComplete`.

**`CheckCacheProofs`**. An entry stands for a tree (`StandsFor`): what its key
says of the files in its scope, the commit it was made on for the others. The
inductive invariant says that the content of a finished entry whose key was `exact`
is an outcome of its check on the tree it stands for (`EntriesSound`), that a torn
one is being written right now unless its write was cut short
(`TornIsBeingWritten`), and that the threads of a run work on the tree as it is
while nothing moves under them (`RunInv`). `HitsAreFreshUnlessHidden` follows because a
key computed now stands for the tree as it is now if the changed paths cover every
uncommitted edit (`OwnKeyStandsForTree`), and for it on any commit if none are named
(`WholeRepositoryKey`). `OnlyBrokenWritesPoison` follows because a key names its
check, so no two threads of a run share one.

**`DiagnosticQueueProofs`**. `QueueStaysLoadable` holds for any number of
processes and crashes. The rest assumes `Alone`, that there is one process at a
time: then the snapshot about to be written is the file with one record changed
(`FreshSnapshot`), so each write is a transition of `JobQueue`
(`AtomicOperations`, a step simulation that maps every other step to a stutter),
a diagnosed job is claimed or settled (hence `OneDiagnosisPerJob`) and a settled
record is not touched (`TerminalStatesAreFinal`). `SummariesAddUp` needs no
`Alone`: a runner's counters are its own, whatever others do to the file.
`TrueSummaries` does: `Tally` counts the completions that were added to the file
since the run began, with the one that is written and not yet counted; `Watch`
says that between the claim and the settlement the file differs from what the run
began with in its own job only; `Named` that a reported failure is that job.

**`OpsControlProofs`** (assumes a finite set of tasks, sorted by distinct ranks).
`DependencyOrder` follows from the bookkeeping of the loop (`Books`): a task has a
status only when it is neither remaining nor in flight, so what is recorded as
succeeded stays so, and the order is closed under dependencies (`TaskOrderIsClosed`). `FailFastStops` is an action
property: after a recorded failure under `--fail-fast` nothing remains, so no
turn of the loop can submit anything. `NothingElseIsSkipped` says why a task was
given up: behind a failure or a cycle, or because of `--fail-fast`.
`OneJobReportsEverything` needs `OneAtATime`: with one worker nothing is in flight
when the loop is left, so there is no result that is not looked at. With more there
is one, which is disagreement 4.

**`NetClientProofs`**. `ProbeCount` ties the mark to the probe: while a probe is
out and nothing was recorded the mark is set, so a second call is refused
(`OneProbeAtATime`); `MarksAreBacked`. `OpenSince` says that after
`failure_threshold` failures the breaker has been open exactly as long as nothing
failed, whence `Backoff`. `AllowedAfterReset` assumes that every exchange is
recorded (`Faults = {}`): disagreement 5 is what happens otherwise.

**`OpsWorkflowProofs`**, for every finite set of steps and pool size. `Tracked`
says that a step with a thread or an outcome is pending or recorded, `DepsOK`
that every dependency is still in `deps` or has its result, `BlocksOK` that under
`fail_fast` a dependency that left `deps` was ok, so nothing ready or started
depends on a failure. `Complete` is why the loop does not stop early: while
nothing was dropped, what is pending is in flight, and a step without open
dependencies is ready, in flight or recorded. At the loop's end nothing is any
of the first two; if a step had no result, `Acyclic` would give a minimal such
step, all of whose dependencies have results, and `Complete` contradicts it.
`Reasoned` keeps the conclusion for the rest of the run (`NothingIsDropped`).
`DependenciesComeFirst`, `FailuresBlock`, `HonestStatus` and `ListedRunsLoad`
follow from the same invariant.

**`PatchApplyProofs`**, for any number of specs, files and commands. `Passed` says
that the files a command has passed show its patch unless another command
overlapped there (`AppliedAtZero`), `Noted` that each replaced file was put in
`files_touched` first (`HonestReports`), `Spent` that what was replaced was paid
for (`BudgetIsKept`).

**`PatchApplyProofs`, second half**, about `AtomicFile`, through which the patch
command writes. The only assumption on the contents is that they differ
(`ContentsAssumption`). The inductive invariant relates what is on disk to where a
call is: a call that has synced its temporary file has its data there
(`SyncedIsOnDisk`), so whatever a power loss may bring back is whole
(`PendingIsWhole`), and what may come back is at least as recent as the last
durable call (`StampsInOrder`). `NothingPartial`, `DurabilityHolds` and
`NoLitterHolds` follow, for any number of calls and power losses. `AtomicRefinement` is
the step simulation: `ReplaceTarget` is the register's step, a `PowerLoss` its own, the
rest stutters or moves the call.

**`PartsProofs`**, for every value of the constants that satisfies the `ConstantsOK`
of the four parts.

* `OpsHistory`: a run that saw no edit runs the text it hashed (`Starts`), it writes
  in the directory its second, text and inputs name (`OwnDirectory`), and a reader
  that has opened a directory reads documents of runs that were given it
  (`ReadsOneDirectory`): `LoadsOfOneWork`. `LastWrote` says, label by label, what a run
  that comes to its directory after all others in it have ended has left there:
  `LastRunsAreKept`. A run that begins later takes the hypothesis away or is in
  another directory (`OthersAreElsewhere`).
* `Pagination`: while a walk goes on, the next URL is where the last page leads
  (`FollowsLinks`), the pages fetched are those whose URLs were seen
  (`SeenIsFollowed`), and none was fetched twice (`NoneTwice`). A page has several
  spellings, so `seen` does not keep a page from being fetched again; but what a page
  leads to depends on the page alone, so a page met again leads to a URL that was
  marked the first time, and the walk ends there as a cycle: a walk that goes on or
  returns has none twice (`ListsAreTheSite`).
* `Omnichannel`: `AdmissionsAreCovered` bounds, for every earlier admission of a user
  with a file and a key of its own, what was spent since then *plus what is left in
  the bucket* by the capacity and the refill, for the bucket in memory and for the one
  on file (a restart exchanges them). A refill keeps the bound, as time passes for both
  sides; an admission moves one token from one summand to the other. `BurstsStayBounded` follows. `WaitIsCredited` is the
  opposite bound, without the cap, for users none of whose saves failed
  (`WaitIsRewarded`). `RowsInv` says that a request about to replace a conversation
  holds what is there, unless requests overlapped on it (`RowsAreLostByOverlapOnly`).
* `Cassette`: `IsTape` says of a tape, recorded or not yet saved, that it asks for the
  pages one after the other and that its good answers are what the command got;
  `GoesOn` that the client goes on after each interaction but the last. A replay is a
  prefix of that (`ReplaysWell`), whence `ReplaysAreSound`. For `ReplaysReproduce` a
  recording that was not `interrupted` has a *pace* (`Paced`): a function that gives
  for each interaction the attempt, the number of redirects and the place at which it
  was asked for. The function is not in the model; the invariant says that one exists,
  and each exchange extends it by one position (`LongerIsPaced`, `PaceGoesOn`). A
  request error with no redirect behind it only raises the attempt of the last
  position (`PaceLosesAnAttempt`), and that is why an interrupted recording has to be
  excepted: there the number of redirects and the place change too. `KeepsPace` says
  that a replay is at the recording's place behind as many redirects, in the same
  attempt or an earlier one: so it gives up where the recording did and not before.

Theorems about invariants that no listed run checks (the type invariants,
`NeverPartial`, `NoLitter`, `DependenciesFirst`, `StatusIsHonest`,
`ListedIsLoadable`, `BudgetHolds`, `TerminalIsFinal`) hold on the same instances:
TLC found no violation when they are added to the configurations of section 3.

Only model-checked: the liveness properties `RunEnds` (of `CheckRunner` and of
`OpsControl`), `CommandEnds`, `Ends` and `ClosesAgain`, which need fairness and
`ENABLED`. Every invariant and every action property of a listed run, and both
refinements, are proved.

Two definitions were changed because a proof showed them wrong. `TargetMode` and
`ResolveProfile` were `CASE`s with overlapping arms, which fixes no order among them;
the code's first condition decides. `BurstsAreBounded` spoke of all users, also of
those that share a file or a key.

## 5. What is not modelled

* Reading the queue file may fail as well as writing it; the code treats both
  alike in the worker, and only writes fail in the model. Claiming a job by id
  exists in `claim_job` and is not used by the runner.
* `CheckCache`: the profile, the command, the target mode and the test targets of a
  key do not change in the modelled runs, and the order of given paths is not part of
  it: runs that differ in them share no entry. Two runs at once in one working tree.
* `OpsControl`: files edited during a run, by a person or by a check that rewrites
  them (`security-fix` of the ops profiles).
* Wording, report layout, artifact rendering, argument parsing.
* `OpsWorkflow`: policies, interpolation of outputs into later steps, the copy into
  the shared artifacts directory. The exit code of `ops run` is 0 whatever the
  status, by its text.
* `NetClient`: the length of the backoff, headers, events; `apiclient.py`, whose
  retry loop is the simplest form of the same. The breaker's clock is monotonic.
* `Omnichannel`: the adapters, which parse one payload; the tool bridge, a
  subprocess per call. The wall clock does not step back.
* `Cassette`: the async transports, which no command uses. Two commands at once on
  one file are in `MCCassetteShared.cfg` (`FoundIsKept`).
* `PatchApply`: the text operations, taken to be idempotent marks; `replace_once`
  is not, and a spec that failed half-way may then be refused when it is run again.
* Agent runtime: one plan, one approval, one action, one record; its concurrency is
  that of the webhook server. Maintenance: a pool over independent checks, all of
  which are awaited. Gates: decisions computed by a long conjunction of fields.
  Trajectory and memory stores: one file written anew per command.
* Commands without state beyond one pass (doctor, review, repo, reports): most of
  the 219 585 lines of the implementation are of this kind, which is why the models
  map a small share of them. `PROJECT.json` gives the reason for each part.

## 6. Plan

Done, most important behaviour first: runner with planner, queue with worker and
runner, ops control, result cache; then atomic writes and their register, network
client and pages, webhook server, workflow engine and its history, patch command,
cassettes, and the proofs of section 4.

Left, in order of use:

1. Theorems about the configurations that reproduce disagreements: under which
   condition each statement would hold, as `AllowedAfterReset` does for the breaker.
2. The maintenance checks under `--fix --jobs`, once the code says what two tools
   that rewrite the same working tree may do to each other.

## 7. Running it

    tlc -config MCCheckRunner.cfg MCCheckRunner     # any row of section 3
    tlc -config MCBreakerStuck.cfg NetClient        # any disagreement
    tlapm CheckRunnerProofs.tla                     # any *Proofs module

`PROJECT.json` lists the runs with their modules and configurations, the source
lines behind each definition, the hazards of the code with the properties that
cover them, the deliberately wrong versions, and the theorems.
