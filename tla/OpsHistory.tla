------------------------------ MODULE OpsHistory ------------------------------
(***************************************************************************)
(* The run history of src/sdetkit/ops/ops.py under several runs at once:   *)
(* requests to the threading HTTP server, `ops run` and `ops replay`, and  *)
(* readers of GET /runs/<id> and `ops diff`.  OpsWorkflow is the inside of *)
(* one run; here a run writes one artifact and its documents, and what     *)
(* matters is that a run's directory is named by the second it started in, *)
(* the text of its workflow and its inputs, which others may share, and    *)
(* that the workflow is read again to be run.                              *)
(*                                                                         *)
(* Files are replaced as AtomicFile shows, the temporary ones in the       *)
(* directory of the target.  A digest stands for what it is made of.       *)
(***************************************************************************)
EXTENDS Naturals

CONSTANTS Run, Text, Inputs,
          Second, \* bound: values of the wall clock, which may step back
          NoJob

VARIABLES text,        \* of the workflow file
          pc,
          hashed,      \* per run, the text and the inputs of its digest
          job,         \* per run, what its directory is named by
          loaded,      \* per run, the text of the workflow it runs
          edited,      \* history: runs that saw an edit between their two reads
          earlier,     \* history: per run, those that had ended when it got its name
          listed,      \* per run, the temporary files it saw in the artifacts
          index,       \* per run, the artifacts in its results
          artifact, temps,       \* per directory: who wrote each artifact, who is about to
          run_doc, results_doc,  \* per directory, the run whose document is there
          reader       \* one call of load_run

store == <<artifact, temps, run_doc, results_doc>>
start == <<hashed, job, loaded, edited, earlier>>
vars == <<text, pc, start, listed, index, store, reader>>

Work == [text : Text, inputs : Inputs]
Job == [second : Second, work : Work]

NoRun == "none"

ConstantsOK == NoJob \notin Job /\ NoJob \notin Work /\ NoRun \notin Run /\ NoJob \notin Text

NoRead == [id |-> NoJob, run |-> NoRun, results |-> NoRun]

(* Mutant: the inputs are not part of the digest. *)
WithoutInputs(j) == [j EXCEPT !.work.inputs = CHOOSE i \in Inputs : TRUE]

(* Mutant: the digest alone. *)
WithoutTime(j) == [j EXCEPT !.second = CHOOSE s \in Second : TRUE]

(* _run_id. *)
RunId(j) == j

Dir(r) == RunId(job[r])

Labels ==
  {"idle", "load", "step", "temp", "list", "hash", "run", "results", "returned", "raised"}

Ended == {r \in Run : pc[r] \in {"returned", "raised"}}

Goto(r, label) == pc' = [pc EXCEPT ![r] = label]

GoOnOrRaise(r, label) == \E l \in {label, "raised"} : Goto(r, l)

Init ==
  /\ text \in Text /\ pc = [r \in Run |-> "idle"]
  /\ hashed = [r \in Run |-> NoJob] /\ job = [r \in Run |-> NoJob]
  /\ loaded = [r \in Run |-> NoJob] /\ edited = {} /\ earlier = [r \in Run |-> {}]
  /\ listed = [r \in Run |-> {}]
  /\ index = [r \in Run |-> {}]
  /\ artifact = [d \in Job |-> [t \in Text |-> NoRun]] /\ temps = [d \in Job |-> {}]
  /\ run_doc = [d \in Job |-> NoRun] /\ results_doc = [d \in Job |-> NoRun]
  /\ reader = NoRead

(* Somebody edits the workflow file. *)
Edit ==
  /\ text' \in Text \ {text}
  /\ edited' = edited \cup {r \in Run : pc[r] = "load"}
  /\ UNCHANGED <<pc, hashed, job, loaded, earlier, listed, index, store, reader>>

(* run_workflow reads the text that _run_id will hash. *)
Begin(r, inputs) ==
  /\ pc[r] = "idle"
  /\ hashed' = [hashed EXCEPT ![r] = [text |-> text, inputs |-> inputs]]
  /\ Goto(r, "load")
  /\ UNCHANGED <<text, job, loaded, edited, earlier, listed, index, store, reader>>

Submit(r) == \E i \in Inputs : Begin(r, i)

(* replay_run: the inputs on record, the workflow as it is now. *)
Replay(r) ==
  \E d \in Job :
    /\ run_doc[d] # NoRun /\ results_doc[d] # NoRun
    /\ Begin(r, hashed[run_doc[d]].inputs)

(* _load_workflow_resolved reads the file again; then the clock is read    *)
(* and the directory made.                                                 *)
LoadWorkflow(r) ==
  /\ pc[r] = "load"
  /\ loaded' = [loaded EXCEPT ![r] = text]
  /\ \E s \in Second : job' = [job EXCEPT ![r] = [second |-> s, work |-> hashed[r]]]
  /\ earlier' = [earlier EXCEPT ![r] = Ended]
  /\ Goto(r, "step")
  /\ UNCHANGED <<text, hashed, edited, listed, index, store, reader>>

(* The workflow cannot be loaded any more.                                 *)
LoadRaises(r) ==
  /\ pc[r] = "load"
  /\ Goto(r, "raised")
  /\ UNCHANGED <<text, start, listed, index, store, reader>>

(* fut.result() raises, or a file cannot be written.                       *)
Raises(r) ==
  /\ pc[r] \in {"step", "temp", "run", "results"}
  /\ Goto(r, "raised")
  /\ temps' = [temps EXCEPT ![Dir(r)] = @ \ {r}]
  /\ UNCHANGED <<text, start, listed, index, artifact, run_doc, results_doc, reader>>

(* write_file: atomic_write_text in the artifacts directory, to a file of  *)
(* the workflow's own.  Once it is replaced its directory may fail to be   *)
(* synced, or the file to be hashed; so with the documents below.          *)
OpenTemp(r) ==
  /\ pc[r] = "step"
  /\ Goto(r, "temp")
  /\ temps' = [temps EXCEPT ![Dir(r)] = @ \cup {r}]
  /\ UNCHANGED <<text, start, listed, index, artifact, run_doc, results_doc, reader>>

WriteArtifact(r) ==
  /\ pc[r] = "temp"
  /\ GoOnOrRaise(r, "list")
  /\ artifact' = [artifact EXCEPT ![Dir(r)][loaded[r]] = r]
  /\ temps' = [temps EXCEPT ![Dir(r)] = @ \ {r}]
  /\ UNCHANGED <<text, start, listed, index, run_doc, results_doc, reader>>

(* sorted(artifacts_run_dir.rglob("*")). *)
ListFiles(r) ==
  /\ pc[r] = "list"
  /\ Goto(r, "hash")
  /\ listed' = [listed EXCEPT ![r] = temps[Dir(r)]]
  /\ UNCHANGED <<text, start, index, store, reader>>

Writers(d) == {artifact[d][t] : t \in Text} \ {NoRun}

(* is_file and _sha256_file: what is there now. *)
HashFiles(r) ==
  /\ pc[r] = "hash"
  /\ Goto(r, "run")
  /\ index' = [index EXCEPT ![r] =
       {[name |-> "artifact", by |-> q] : q \in Writers(Dir(r))}
       \cup {[name |-> "temporary", by |-> q] : q \in listed[r] \cap temps[Dir(r)]}]
  /\ UNCHANGED <<text, start, listed, store, reader>>

(* A temporary file of another run was there for is_file and is not for    *)
(* _sha256_file.                                                           *)
HashRaises(r) ==
  /\ pc[r] = "hash" /\ listed[r] \ temps[Dir(r)] # {}
  /\ Goto(r, "raised")
  /\ UNCHANGED <<text, start, listed, index, store, reader>>

WriteRun(r) ==
  /\ pc[r] = "run"
  /\ GoOnOrRaise(r, "results")
  /\ run_doc' = [run_doc EXCEPT ![Dir(r)] = r]
  /\ UNCHANGED <<text, start, listed, index, artifact, temps, results_doc, reader>>

(* After it come events.jsonl and the copy of the artifacts.               *)
WriteResults(r) ==
  /\ pc[r] = "results"
  /\ GoOnOrRaise(r, "returned")
  /\ results_doc' = [results_doc EXCEPT ![Dir(r)] = r]
  /\ UNCHANGED <<text, start, listed, index, artifact, temps, run_doc, reader>>

(* load_run reads one document after the other; another call forgets. *)
ReadRun ==
  \E d \in Job :
    /\ run_doc[d] # NoRun
    /\ reader' = [id |-> d, run |-> run_doc[d], results |-> NoRun]
    /\ UNCHANGED <<text, pc, start, listed, index, store>>

ReadResults ==
  /\ reader.run # NoRun /\ results_doc[reader.id] # NoRun
  /\ reader' = [reader EXCEPT !.results = results_doc[reader.id]]
  /\ UNCHANGED <<text, pc, start, listed, index, store>>

Step(r) ==
  \/ Submit(r) \/ Replay(r) \/ LoadWorkflow(r) \/ LoadRaises(r) \/ Raises(r)
  \/ OpenTemp(r) \/ WriteArtifact(r) \/ ListFiles(r) \/ HashFiles(r) \/ HashRaises(r)
  \/ WriteRun(r) \/ WriteResults(r)

Next == (\E r \in Run : Step(r)) \/ Edit \/ ReadRun \/ ReadResults

Spec == Init /\ [][Next]_vars

-----------------------------------------------------------------------------
(* Types; a temporary file belongs to a step that is writing.              *)
TypeOK ==
  /\ text \in Text /\ pc \in [Run -> Labels]
  /\ hashed \in [Run -> Work \cup {NoJob}] /\ job \in [Run -> Job \cup {NoJob}]
  /\ loaded \in [Run -> Text \cup {NoJob}]
  /\ edited \subseteq Run /\ earlier \in [Run -> SUBSET Run]
  /\ listed \in [Run -> SUBSET Run]
  /\ index \in [Run -> SUBSET [name : {"artifact", "temporary"}, by : Run]]
  /\ artifact \in [Job -> [Text -> Run \cup {NoRun}]]
  /\ \A d \in Job : temps[d] \subseteq {r \in Run : pc[r] = "temp"}
  /\ run_doc \in [Job -> Run \cup {NoRun}] /\ results_doc \in [Job -> Run \cup {NoRun}]

(* However runs and replays share directories, and between whichever of    *)
(* their writes load_run reads, the run and the results it returns are of  *)
(* the same inputs, and of the same workflow if it was not edited while    *)
(* one of the two was starting: the directory is named by the text that    *)
(* was read first, run.json and results.json are of the second.            *)
SameWork ==
  LET a == reader.run
      b == reader.results
  IN  b # NoRun => /\ hashed[a] = hashed[b]
                   /\ a \notin edited /\ b \notin edited => loaded[a] = loaded[b]

(* The others in the directory had ended before the run came to it.        *)
LastInDir(r) == \A s \in Run \ {r} : job[s] = job[r] => s \in earlier[r]

(* A run that overlaps with none of the same second, text and inputs, and  *)
(* is followed by none, has its documents in the history, in place of      *)
(* those of the runs before it, and an index that holds its artifact, what *)
(* those left there, and no temporary file; whatever was edited and        *)
(* whichever runs raised.                                                  *)
LastRunIsKept ==
  \A r \in Run : pc[r] = "returned" /\ LastInDir(r) =>
    /\ run_doc[Dir(r)] = r /\ results_doc[Dir(r)] = r
    /\ [name |-> "artifact", by |-> r] \in index[r]
    /\ \A e \in index[r] : e.name = "artifact" /\ e.by \in earlier[r] \cup {r}

(* docs/automation-os.md:40, "Each run creates" its run.json, events.jsonl *)
(* and results.json.                                                       *)
EachRunKept ==
  \A r \in Run : pc[r] = "returned" => results_doc[Dir(r)] = r
=============================================================================
