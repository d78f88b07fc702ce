---------------------------- MODULE PartsProofs ----------------------------
(***************************************************************************)
(* Proofs about the four components of Parts, for every value of their     *)
(* constants.                                                              *)
(***************************************************************************)
EXTENDS Parts, Integers, Sequences, TLAPS

-----------------------------------------------------------------------------
(***************************************************************************)
(* OpsHistory.  A directory holds nothing but the work of runs started on  *)
(* what it is named by; a run that is alone on its own therefore finds     *)
(* there what it wrote.                                                    *)
(***************************************************************************)
Job == History!Job
NoRun == History!NoRun

Named == {"step", "temp", "list", "hash", "run", "results", "returned"}

HistoryTypes ==
  /\ History!TypeOK
  /\ temps \in [Job -> SUBSET Run]
  /\ reader \in [id : Job \cup {NoJob}, run : Run \cup {NoRun}, results : Run \cup {NoRun}]
  /\ \A r \in Run :
       /\ pc[r] # "idle" => hashed[r] \in History!Work
       /\ pc[r] \in {"idle", "load"} => job[r] = NoJob
       /\ pc[r] \in Named => job[r] # NoJob
       /\ job[r] # NoJob =>
            job[r].work = hashed[r] /\ loaded[r] \in Text /\ pc[r] \notin {"idle", "load"}

(* What a run has loaded is what it hashed, if nobody edited it meanwhile; *)
(* those that came before it have ended.                                   *)
Starts ==
  \A r \in Run :
    /\ pc[r] = "load" /\ r \notin edited => hashed[r].text = text
    /\ job[r] # NoJob /\ r \notin edited => loaded[r] = hashed[r].text
    /\ \A s \in earlier[r] : pc[s] \in {"returned", "raised"}

OwnDirectory ==
  \A d \in Job :
    /\ \A t \in Text : artifact[d][t] # NoRun => job[artifact[d][t]] = d
    /\ \A s \in temps[d] : job[s] = d
    /\ run_doc[d] # NoRun => job[run_doc[d]] = d
    /\ results_doc[d] # NoRun => job[results_doc[d]] = d

ReadsOneDirectory ==
  /\ reader.run # NoRun => reader.id \in Job /\ job[reader.run] = reader.id
  /\ reader.results # NoRun => reader.run # NoRun /\ job[reader.results] = reader.id

Indexed(r) ==
  /\ [name |-> "artifact", by |-> r] \in index[r]
  /\ \A e \in index[r] : e.name = "artifact" /\ e.by \in earlier[r] \cup {r}

Wrote(r) ==
  /\ pc[r] \in {"list", "hash", "run", "results", "returned"} => artifact[job[r]][loaded[r]] = r
  /\ pc[r] \in {"run", "results", "returned"} => Indexed(r)
  /\ pc[r] \in {"results", "returned"} => run_doc[job[r]] = r
  /\ pc[r] = "returned" => results_doc[job[r]] = r

LastWrote == \A r \in Run : History!LastInDir(r) => Wrote(r)

HistoryInv == HistoryTypes /\ Starts /\ OwnDirectory /\ ReadsOneDirectory /\ LastWrote

LEMMA HistoryConstants ==
  NoJob \notin Job /\ NoJob \notin History!Work /\ NoJob \notin Text /\ NoRun \notin Run
BY ConstantsAssumption DEF History!ConstantsOK, Job, NoRun

LEMMA HistoryInit == History!Init => HistoryInv
<1> SUFFICES ASSUME History!Init PROVE HistoryInv
  OBVIOUS
<1> USE HistoryConstants DEF History!Init, Job, NoRun
<1>1. HistoryTypes
  BY DEF HistoryTypes, History!TypeOK, History!Labels, History!NoRead, Named
<1>2. Starts
  BY DEF Starts
<1>3. OwnDirectory
  BY DEF OwnDirectory
<1>4. ReadsOneDirectory /\ LastWrote
  BY DEF ReadsOneDirectory, LastWrote, Wrote, History!NoRead
<1> QED BY <1>1, <1>2, <1>3, <1>4 DEF HistoryInv

(* A run that has a directory is of what the directory is named by.        *)
LEMMA StartedOn ==
  ASSUME HistoryInv, NEW r \in Run, pc[r] \in Named
  PROVE  /\ job[r] \in Job /\ job[r] # NoJob /\ History!Dir(r) = job[r] /\ loaded[r] \in Text
         /\ hashed[r] \in History!Work
BY HistoryConstants
DEF HistoryInv, HistoryTypes, History!TypeOK, History!Dir, History!RunId, Job, Named

LEMMA BeginKeeps ==
  ASSUME HistoryInv, NEW r \in Run, NEW i \in Inputs, History!Begin(r, i)
  PROVE  HistoryInv'
<1> DEFINE w == [text |-> text, inputs |-> i]
<1>1. /\ hashed' = [hashed EXCEPT ![r] = w] /\ w \in History!Work /\ w.text = text
      /\ pc[r] = "idle" /\ pc' = [pc EXCEPT ![r] = "load"] /\ job[r] = NoJob
      /\ UNCHANGED <<text, job, loaded, edited, earlier, listed, index, artifact, temps, run_doc,
                     results_doc, reader>>
  BY DEF History!Begin, History!Goto, History!store, HistoryInv, HistoryTypes, History!TypeOK,
         History!Work
<1> HIDE DEF w
<1>2. HistoryTypes'
  BY <1>1, HistoryConstants
  DEF HistoryInv, HistoryTypes, History!TypeOK, History!Labels, Named, Job, NoRun
<1>3. Starts'
  BY <1>1 DEF HistoryInv, HistoryTypes, History!TypeOK, Starts
<1>4. OwnDirectory' /\ ReadsOneDirectory'
  BY <1>1 DEF HistoryInv, OwnDirectory, ReadsOneDirectory
<1>5. LastWrote'
  <2> SUFFICES ASSUME NEW q \in Run, History!LastInDir(q)' PROVE Wrote(q)'
    BY DEF LastWrote
  <2>1. History!LastInDir(q)
    BY <1>1 DEF History!LastInDir
  <2> QED BY <1>1, <2>1 DEF HistoryInv, HistoryTypes, History!TypeOK, LastWrote, Wrote, Indexed
<1> QED BY <1>2, <1>3, <1>4, <1>5 DEF HistoryInv

(* The inputs replay_run finds on record are those of some run.            *)
LEMMA ReplayBegins ==
  ASSUME HistoryInv, NEW r \in Run, History!Replay(r)
  PROVE  \E i \in Inputs : History!Begin(r, i)
<1>1. PICK d \in Job : run_doc[d] # NoRun /\ History!Begin(r, hashed[run_doc[d]].inputs)
  BY DEF History!Replay, Job, NoRun
<1>2. run_doc[d] \in Run /\ job[run_doc[d]] = d /\ d # NoJob
  BY <1>1, HistoryConstants DEF HistoryInv, HistoryTypes, History!TypeOK, OwnDirectory, Job, NoRun
<1>3. hashed[run_doc[d]] \in History!Work
  BY <1>2 DEF HistoryInv, HistoryTypes
<1> QED BY <1>1, <1>3 DEF History!Work

LEMMA LoadKeeps ==
  ASSUME HistoryInv, NEW r \in Run, History!LoadWorkflow(r)
  PROVE  HistoryInv'
<1>1. PICK s \in Second : job' = [job EXCEPT ![r] = [second |-> s, work |-> hashed[r]]]
  BY DEF History!LoadWorkflow
<1> DEFINE j == [second |-> s, work |-> hashed[r]]
<1>2. /\ j \in Job /\ j # NoJob /\ j.work = hashed[r] /\ job[r] = NoJob /\ text \in Text
  BY HistoryConstants
  DEF History!LoadWorkflow, HistoryInv, HistoryTypes, History!TypeOK, Job, History!Job
<1>3. /\ job' = [job EXCEPT ![r] = j] /\ loaded' = [loaded EXCEPT ![r] = text]
      /\ earlier' = [earlier EXCEPT ![r] = History!Ended]
      /\ pc[r] = "load" /\ pc' = [pc EXCEPT ![r] = "step"]
      /\ UNCHANGED <<text, hashed, edited, listed, index, artifact, temps, run_doc,
                     results_doc, reader>>
  BY <1>1 DEF History!LoadWorkflow, History!Goto, History!GoOnOrRaise, History!store
<1> HIDE DEF j
<1>4. HistoryTypes'
  <2>1. History!Ended \subseteq Run
    BY DEF History!Ended
  <2>2. History!TypeOK'
    BY <1>2, <1>3, <2>1 DEF HistoryInv, HistoryTypes, History!TypeOK, History!Labels, Job
  <2>3. ASSUME NEW q \in Run
        PROVE  /\ pc'[q] # "idle" => hashed'[q] \in History!Work
               /\ pc'[q] \in {"idle", "load"} => job'[q] = NoJob
               /\ pc'[q] \in Named => job'[q] # NoJob
               /\ job'[q] # NoJob =>
                    /\ job'[q].work = hashed'[q] /\ loaded'[q] \in Text
                    /\ pc'[q] \notin {"idle", "load"}
    BY <1>2, <1>3 DEF HistoryInv, HistoryTypes, History!TypeOK, Named
  <2> QED BY <1>3, <2>2, <2>3 DEF HistoryInv, HistoryTypes
<1>5. Starts'
  <2> SUFFICES ASSUME NEW q \in Run
               PROVE  /\ pc'[q] = "load" /\ q \notin edited => hashed[q].text = text
                      /\ job'[q] # NoJob /\ q \notin edited => loaded'[q] = hashed[q].text
                      /\ \A e \in earlier'[q] : pc'[e] \in {"returned", "raised"}
    BY <1>3 DEF Starts
  <2>1. /\ pc'[q] = "load" /\ q \notin edited => hashed[q].text = text
        /\ job'[q] # NoJob /\ q \notin edited => loaded'[q] = hashed[q].text
    BY <1>3 DEF HistoryInv, HistoryTypes, History!TypeOK, Starts
  <2>2. ASSUME NEW e \in earlier'[q] PROVE pc'[e] \in {"returned", "raised"}
    <3>1. e \in Run /\ pc[e] \in {"returned", "raised"}
      BY <1>3, <2>2 DEF HistoryInv, HistoryTypes, History!TypeOK, Starts, History!Ended
    <3> QED BY <1>3, <3>1 DEF HistoryInv, HistoryTypes, History!TypeOK
  <2> QED BY <2>1, <2>2
<1>6. OwnDirectory'
  <2>1. \A q \in Run : job[q] \in Job => job'[q] = job[q]
    BY <1>2, <1>3, HistoryConstants DEF HistoryInv, HistoryTypes, History!TypeOK
  <2> QED BY <1>3, <2>1 DEF HistoryInv, HistoryTypes, History!TypeOK, OwnDirectory, Job, NoRun
<1>7. ReadsOneDirectory'
  BY <1>2, <1>3, HistoryConstants
  DEF HistoryInv, HistoryTypes, History!TypeOK, ReadsOneDirectory, Job, NoRun
<1>8. LastWrote'
  <2> SUFFICES ASSUME NEW q \in Run, History!LastInDir(q)', q # r, pc[q] \in Named
               PROVE  Wrote(q)'
    BY <1>3 DEF HistoryInv, HistoryTypes, History!TypeOK, LastWrote, Wrote, Named
  <2>1. /\ pc'[q] = pc[q] /\ job'[q] = job[q] /\ loaded'[q] = loaded[q]
        /\ earlier'[q] = earlier[q]
    BY <1>3 DEF HistoryInv, HistoryTypes, History!TypeOK
  <2>2. History!LastInDir(q)
    <3> SUFFICES ASSUME NEW e \in Run \ {q}, job[e] = job[q] PROVE e \in earlier[q]
      BY DEF History!LastInDir
    <3>1. e # r
      BY <1>2 DEF HistoryInv, HistoryTypes
    <3>2. job'[e] = job'[q]
      BY <1>3, <2>1, <3>1 DEF HistoryInv, HistoryTypes, History!TypeOK
    <3> QED BY <2>1, <3>2 DEF History!LastInDir
  <2>3. Wrote(q)
    BY <2>2 DEF HistoryInv, LastWrote
  <2> QED BY <1>3, <2>1, <2>3 DEF Wrote, Indexed
<1> QED BY <1>4, <1>5, <1>6, <1>7, <1>8 DEF HistoryInv

LEMMA LoadRaisesKeeps ==
  ASSUME HistoryInv, NEW r \in Run, History!LoadRaises(r)
  PROVE  HistoryInv'
<1>1. /\ pc[r] = "load" /\ pc' = [pc EXCEPT ![r] = "raised"]
      /\ UNCHANGED <<text, hashed, job, loaded, edited, earlier, listed, index, artifact, temps,
                     run_doc, results_doc, reader>>
  BY DEF History!LoadRaises, History!Goto, History!GoOnOrRaise, History!store, History!start
<1>2. HistoryTypes'
  BY <1>1 DEF HistoryInv, HistoryTypes, History!TypeOK, History!Labels, Named
<1>3. Starts'
  BY <1>1 DEF HistoryInv, HistoryTypes, History!TypeOK, Starts
<1>4. OwnDirectory' /\ ReadsOneDirectory'
  BY <1>1 DEF HistoryInv, OwnDirectory, ReadsOneDirectory
<1>5. LastWrote'
  BY <1>1
  DEF HistoryInv, HistoryTypes, History!TypeOK, LastWrote, Wrote, Indexed, History!LastInDir
<1> QED BY <1>2, <1>3, <1>4, <1>5 DEF HistoryInv

(* Nobody else is in the directory of a run that is the last in it.        *)
LEMMA OthersAreElsewhere ==
  ASSUME HistoryInv, NEW r \in Run, pc[r] \in Named \ {"returned"},
         NEW q \in Run, q # r, History!LastInDir(q)
  PROVE  job[q] # job[r]
BY DEF HistoryInv, Starts, History!LastInDir, Named

LEMMA FoundInIndex ==
  ASSUME HistoryInv, NEW r \in Run, History!HashFiles(r), History!LastInDir(r)
  PROVE  Indexed(r)'
<1>1. /\ pc[r] = "hash" /\ pc' = [pc EXCEPT ![r] = "run"] /\ UNCHANGED <<earlier>>
      /\ index'[r] =
           {[name |-> "artifact", by |-> q] : q \in History!Writers(job[r])}
           \cup {[name |-> "temporary", by |-> q] : q \in listed[r] \cap temps[job[r]]}
  BY StartedOn
  DEF History!HashFiles, History!Goto, History!start, HistoryInv, HistoryTypes, History!TypeOK,
      Named
<1>2. job[r] \in Job /\ loaded[r] \in Text /\ NoRun \notin Run
  BY <1>1, StartedOn, HistoryConstants DEF Named
<1>3. r \in History!Writers(job[r])
  BY <1>1, <1>2 DEF HistoryInv, LastWrote, Wrote, History!Writers, NoRun
<1>4. ASSUME NEW q \in History!Writers(job[r]) PROVE q \in earlier[r] \cup {r}
  <2>1. q \in Run /\ job[q] = job[r]
    BY <1>2 DEF History!Writers, HistoryInv, HistoryTypes, History!TypeOK, OwnDirectory, Job, NoRun
  <2> QED BY <2>1 DEF History!LastInDir
<1>5. ASSUME NEW q \in temps[job[r]] PROVE FALSE
  <2>1. q \in Run /\ pc[q] = "temp" /\ job[q] = job[r]
    BY <1>2 DEF HistoryInv, HistoryTypes, History!TypeOK, OwnDirectory, Job
  <2>2. q \in earlier[r]
    BY <1>1, <2>1 DEF History!LastInDir
  <2> QED BY <2>1, <2>2 DEF HistoryInv, Starts
<1>6. ASSUME NEW e \in index'[r] PROVE e.name = "artifact" /\ e.by \in earlier[r] \cup {r}
  <2>1. PICK q \in History!Writers(job[r]) : e = [name |-> "artifact", by |-> q]
    BY <1>1, <1>5, <1>6
  <2> QED BY <1>4, <2>1
<1> QED BY <1>1, <1>3, <1>6 DEF Indexed

(* What a run writes into its directory is its own.                        *)
LEMMA WriterKeeps ==
  ASSUME HistoryInv, NEW r \in Run,
         \/ History!Raises(r) \/ History!OpenTemp(r) \/ History!WriteArtifact(r)
         \/ History!ListFiles(r) \/ History!HashFiles(r) \/ History!HashRaises(r)
         \/ History!WriteRun(r) \/ History!WriteResults(r)
  PROVE  HistoryInv'
<1> DEFINE d == job[r]
<1>1. /\ pc[r] \in Named \ {"returned"} /\ pc' = [pc EXCEPT ![r] = pc'[r]]
      /\ pc'[r] \in History!Labels \ {"idle", "load"}
      /\ UNCHANGED <<text, hashed, job, loaded, edited, earlier, reader>>
  BY DEF HistoryInv, HistoryTypes, History!TypeOK, History!Raises, History!OpenTemp,
         History!WriteArtifact, History!ListFiles, History!HashFiles, History!HashRaises,
         History!WriteRun, History!WriteResults, History!Goto, History!GoOnOrRaise, History!store,
         History!start, Named, History!Labels
<1>2. /\ d \in Job /\ d # NoJob /\ History!Dir(r) = d /\ loaded[r] \in Text /\ NoRun \notin Run
      /\ d.work = hashed[r]
  BY <1>1, StartedOn, HistoryConstants DEF HistoryInv, HistoryTypes
<1>3. /\ pc[r] = "temp" => pc'[r] # "temp"
      /\ pc[r] # "temp" /\ pc'[r] # "temp" =>
           UNCHANGED temps \/ temps' = [temps EXCEPT ![d] = @ \ {r}]
      /\ pc[r] = "temp" => temps' = [temps EXCEPT ![d] = @ \ {r}]
      /\ pc'[r] = "temp" => temps' = [temps EXCEPT ![d] = @ \cup {r}]
      /\ UNCHANGED artifact \/ artifact' = [artifact EXCEPT ![d][loaded[r]] = r]
      /\ UNCHANGED run_doc \/ run_doc' = [run_doc EXCEPT ![d] = r]
      /\ UNCHANGED results_doc \/ results_doc' = [results_doc EXCEPT ![d] = r]
      /\ listed' \in [Run -> SUBSET Run]
  BY <1>1, <1>2
  DEF HistoryInv, HistoryTypes, History!TypeOK, History!Raises, History!OpenTemp,
      History!WriteArtifact, History!ListFiles, History!HashFiles, History!HashRaises,
      History!WriteRun, History!WriteResults, History!Goto, History!GoOnOrRaise, History!store, Job
<1>4. index' \in [Run -> SUBSET [name : {"artifact", "temporary"}, by : Run]]
      /\ \A q \in Run \ {r} : index'[q] = index[q]
  <2>1. CASE History!HashFiles(r)
    <3>1. History!Writers(d) \subseteq Run /\ temps[d] \subseteq Run
      BY <1>2 DEF History!Writers, HistoryInv, HistoryTypes, History!TypeOK, Job
    <3>2. index' = [index EXCEPT ![r] =
            {[name |-> "artifact", by |-> q] : q \in History!Writers(d)}
            \cup {[name |-> "temporary", by |-> q] : q \in listed[r] \cap temps[d]}]
      BY <1>2, <2>1 DEF History!HashFiles
    <3> DEFINE I == {[name |-> "artifact", by |-> q] : q \in History!Writers(d)}
                    \cup {[name |-> "temporary", by |-> q] : q \in listed[r] \cap temps[d]}
    <3>3. I \in SUBSET [name : {"artifact", "temporary"}, by : Run]
      BY <3>1
    <3> HIDE DEF I
    <3> QED BY <3>2, <3>3 DEF HistoryInv, HistoryTypes, History!TypeOK, I
  <2>2. CASE ~History!HashFiles(r)
    <3>1. UNCHANGED index
      BY <2>2
      DEF History!Raises, History!OpenTemp, History!WriteArtifact, History!ListFiles,
          History!HashRaises, History!WriteRun, History!WriteResults, History!store
    <3> QED BY <3>1 DEF HistoryInv, HistoryTypes, History!TypeOK
  <2> QED BY <2>1, <2>2
<1>5. HistoryTypes'
  <2>1. temps' \in [Job -> SUBSET Run]
    BY <1>1, <1>3 DEF HistoryInv, HistoryTypes, Named
  <2>2. ASSUME NEW c \in Job, NEW s \in temps'[c] PROVE s \in Run /\ pc'[s] = "temp"
    <3>1. s \in temps[c] => s \in Run /\ pc[s] = "temp" /\ job[s] = c
      BY DEF HistoryInv, HistoryTypes, History!TypeOK, OwnDirectory, Job
    <3>2. s \in temps[c] \/ (s = r /\ pc'[r] = "temp")
      <4>1. temps \in [Job -> SUBSET Run]
        BY DEF HistoryInv, HistoryTypes
      <4> QED BY <1>1, <1>2, <1>3, <2>2, <4>1
    <3>3. s = r => pc'[r] = "temp"
      <4>1. s = r /\ pc'[r] # "temp" => pc[r] = "temp" /\ c = d
        BY <3>1, <3>2
      <4>2. s = r /\ pc'[r] # "temp" => r \notin temps'[c]
        BY <1>2, <1>3, <4>1 DEF HistoryInv, HistoryTypes
      <4> QED BY <2>2, <4>2
    <3>4. s \in Run
      BY <3>1, <3>2
    <3>5. s # r => pc'[s] = pc[s]
      BY <1>1, <3>4 DEF HistoryInv, HistoryTypes, History!TypeOK
    <3> QED BY <3>1, <3>2, <3>3, <3>4, <3>5
  <2>3. /\ run_doc' \in [History!Job -> Run \cup {History!NoRun}]
        /\ results_doc' \in [History!Job -> Run \cup {History!NoRun}]
    <3>1. /\ UNCHANGED run_doc \/ run_doc' = [run_doc EXCEPT ![d] = r]
          /\ UNCHANGED results_doc \/ results_doc' = [results_doc EXCEPT ![d] = r]
      BY <1>3
    <3>2. /\ run_doc \in [History!Job -> Run \cup {History!NoRun}]
          /\ results_doc \in [History!Job -> Run \cup {History!NoRun}]
      BY DEF HistoryInv, HistoryTypes, History!TypeOK
    <3>3. run_doc' \in [History!Job -> Run \cup {History!NoRun}]
      BY <3>1, <3>2
    <3>4. results_doc' \in [History!Job -> Run \cup {History!NoRun}]
      BY <3>1, <3>2
    <3> QED BY <3>3, <3>4
  <2>4. artifact' \in [History!Job -> [Text -> Run \cup {History!NoRun}]]
    <3> DEFINE row == [artifact[d] EXCEPT ![loaded[r]] = r]
    <3>1. row \in [Text -> Run \cup {History!NoRun}]
      BY <1>2 DEF HistoryInv, HistoryTypes, History!TypeOK, Job
    <3>2. UNCHANGED artifact \/ artifact' = [artifact EXCEPT ![d] = row]
      BY <1>3
    <3> HIDE DEF row
    <3> QED BY <1>2, <3>1, <3>2 DEF HistoryInv, HistoryTypes, History!TypeOK, Job
  <2>5. pc' \in [Run -> History!Labels]
    BY <1>1 DEF HistoryInv, HistoryTypes, History!TypeOK
  <2>6. History!TypeOK'
    BY <1>1, <1>3, <1>4, <2>2, <2>3, <2>4, <2>5 DEF HistoryInv, HistoryTypes, History!TypeOK, Job
  <2>7. \A q \in Run : pc'[q] = IF q = r THEN pc'[r] ELSE pc[q]
    BY <1>1 DEF HistoryInv, HistoryTypes, History!TypeOK
  <2> QED BY <1>1, <1>2, <2>1, <2>6, <2>7 DEF HistoryInv, HistoryTypes, Named, History!Labels
<1>6. Starts'
  <2> SUFFICES ASSUME NEW q \in Run
               PROVE  /\ pc'[q] = "load" /\ q \notin edited => hashed[q].text = text
                      /\ job[q] # NoJob /\ q \notin edited => loaded[q] = hashed[q].text
                      /\ \A e \in earlier[q] : pc'[e] \in {"returned", "raised"}
    BY <1>1 DEF Starts
  <2>1. pc'[q] = "load" => pc[q] = "load"
    BY <1>1 DEF HistoryInv, HistoryTypes, History!TypeOK
  <2>2. ASSUME NEW e \in earlier[q] PROVE pc'[e] \in {"returned", "raised"}
    <3>1. e \in Run /\ pc[e] \in {"returned", "raised"}
      BY DEF HistoryInv, HistoryTypes, History!TypeOK, Starts
    <3>2. e # r
      BY <1>1, <3>1 DEF Named
    <3> QED BY <1>1, <3>1, <3>2 DEF HistoryInv, HistoryTypes, History!TypeOK
  <2> QED BY <2>1, <2>2 DEF HistoryInv, Starts
<1>7. OwnDirectory'
  <2> SUFFICES ASSUME NEW c \in Job
               PROVE  /\ \A t \in Text : artifact'[c][t] # NoRun => job[artifact'[c][t]] = c
                      /\ \A s \in temps'[c] : job[s] = c
                      /\ run_doc'[c] # NoRun => job[run_doc'[c]] = c
                      /\ results_doc'[c] # NoRun => job[results_doc'[c]] = c
    BY <1>1 DEF OwnDirectory
  <2>1. ASSUME NEW t \in Text, artifact'[c][t] # NoRun PROVE job[artifact'[c][t]] = c
    <3>1. artifact'[c][t] = artifact[c][t] \/ (c = d /\ artifact'[c][t] = r)
      <4> DEFINE row == [artifact[d] EXCEPT ![loaded[r]] = r]
      <4>1. row[t] = artifact[d][t] \/ row[t] = r
        BY <1>2 DEF HistoryInv, HistoryTypes, History!TypeOK, Job
      <4>2. UNCHANGED artifact \/ artifact' = [artifact EXCEPT ![d] = row]
        BY <1>3
      <4> HIDE DEF row
      <4> QED BY <1>2, <4>1, <4>2 DEF HistoryInv, HistoryTypes, History!TypeOK, Job
    <3> QED BY <2>1, <3>1 DEF HistoryInv, OwnDirectory
  <2>2. ASSUME NEW s \in temps'[c] PROVE job[s] = c
    BY <1>1, <1>2, <1>3, <2>2 DEF HistoryInv, HistoryTypes, OwnDirectory, Named
  <2>3. (run_doc'[c] # NoRun => job[run_doc'[c]] = c)
    BY <1>2, <1>3 DEF HistoryInv, HistoryTypes, History!TypeOK, OwnDirectory, Job
  <2>4. results_doc'[c] # NoRun => job[results_doc'[c]] = c
    BY <1>2, <1>3 DEF HistoryInv, HistoryTypes, History!TypeOK, OwnDirectory, Job
  <2> QED BY <2>1, <2>2, <2>3, <2>4
<1>8. ReadsOneDirectory'
  BY <1>1 DEF HistoryInv, ReadsOneDirectory
<1>9. LastWrote'
  <2> SUFFICES ASSUME NEW q \in Run, History!LastInDir(q)' PROVE Wrote(q)'
    BY DEF LastWrote
  <2>1. History!LastInDir(q) /\ Wrote(q)
    BY <1>1 DEF History!LastInDir, HistoryInv, LastWrote
  <2>2. CASE q # r
    <3>1. job[q] # d /\ pc'[q] = pc[q] /\ index'[q] = index[q]
      BY <1>1, <1>4, <2>1, <2>2, OthersAreElsewhere DEF HistoryInv, HistoryTypes, History!TypeOK
    <3>2. pc[q] \in Named => job[q] \in Job
      BY StartedOn
    <3>3. pc[q] \in Named =>
            /\ artifact'[job[q]] = artifact[job[q]] /\ run_doc'[job[q]] = run_doc[job[q]]
            /\ results_doc'[job[q]] = results_doc[job[q]]
      BY <1>3, <3>1, <3>2 DEF HistoryInv, HistoryTypes, History!TypeOK, Job
    <3> QED BY <1>1, <2>1, <3>1, <3>3 DEF Wrote, Indexed, Named
  <2>3. CASE q = r
    <3> USE DEF History!Goto, History!GoOnOrRaise, History!store, History!start
    <3>1. \A label : pc' = [pc EXCEPT ![r] = label] => pc'[r] = label
      BY DEF HistoryInv, HistoryTypes, History!TypeOK
    <3>2. /\ \A v : artifact' = [artifact EXCEPT ![d][loaded[r]] = v] =>
               artifact'[d][loaded[r]] = v
          /\ \A v : run_doc' = [run_doc EXCEPT ![d] = v] => run_doc'[d] = v
          /\ \A v : results_doc' = [results_doc EXCEPT ![d] = v] => results_doc'[d] = v
      BY <1>2 DEF HistoryInv, HistoryTypes, History!TypeOK, Job
    <3>3. CASE History!Raises(r) \/ History!OpenTemp(r) \/ History!HashRaises(r)
      BY <2>3, <3>1, <3>3 DEF History!Raises, History!OpenTemp, History!HashRaises, Wrote
    <3>4. CASE History!WriteArtifact(r)
      BY <1>1, <1>2, <2>3, <3>1, <3>2, <3>4 DEF History!WriteArtifact, Wrote
    <3>5. CASE History!ListFiles(r)
      BY <1>1, <2>1, <2>3, <3>1, <3>5 DEF History!ListFiles, Wrote
    <3>6. CASE History!HashFiles(r)
      <4>1. Indexed(r)'
        BY <2>1, <2>3, <3>6, FoundInIndex
      <4> QED BY <1>1, <2>1, <2>3, <3>1, <3>6, <4>1 DEF History!HashFiles, Wrote
    <3>7. CASE History!WriteRun(r)
      BY <1>1, <1>2, <2>1, <2>3, <3>1, <3>2, <3>7 DEF History!WriteRun, Wrote, Indexed
    <3>8. CASE History!WriteResults(r)
      BY <1>1, <1>2, <2>1, <2>3, <3>1, <3>2, <3>8 DEF History!WriteResults, Wrote, Indexed
    <3> QED BY <3>3, <3>4, <3>5, <3>6, <3>7, <3>8
  <2> QED BY <2>2, <2>3
<1> QED BY <1>5, <1>6, <1>7, <1>8, <1>9 DEF HistoryInv

LEMMA HistoryNext == HistoryInv /\ [History!Next]_(History!vars) => HistoryInv'
<1> SUFFICES ASSUME HistoryInv, [History!Next]_(History!vars) PROVE HistoryInv'
  OBVIOUS
<1>1. ASSUME NEW r \in Run, History!Step(r) PROVE HistoryInv'
  BY <1>1, BeginKeeps, ReplayBegins, LoadKeeps, LoadRaisesKeeps, WriterKeeps
  DEF History!Step, History!Submit
<1>2. CASE UNCHANGED History!vars
  BY <1>2
  DEF History!vars, History!store, History!start, HistoryInv, HistoryTypes, History!TypeOK,
      Starts, OwnDirectory, ReadsOneDirectory, LastWrote, Wrote, Indexed, History!LastInDir, Job
<1>3. CASE History!Edit
  <2>1. /\ text' \in Text /\ edited' = edited \cup {r \in Run : pc[r] = "load"}
        /\ UNCHANGED <<pc, hashed, job, loaded, earlier, listed, index, artifact, temps, run_doc,
                       results_doc, reader>>
    BY <1>3 DEF History!Edit, History!store
  <2>2. HistoryTypes' /\ Starts'
    BY <2>1 DEF HistoryInv, HistoryTypes, History!TypeOK, Starts, Job
  <2>3. OwnDirectory' /\ ReadsOneDirectory' /\ LastWrote'
    BY <2>1
    DEF HistoryInv, OwnDirectory, ReadsOneDirectory, LastWrote, Wrote, Indexed, History!LastInDir
  <2> QED BY <2>2, <2>3 DEF HistoryInv
<1>4. CASE History!ReadRun \/ History!ReadResults
  <2>1. UNCHANGED <<text, pc, hashed, job, loaded, edited, earlier, listed, index, artifact,
                    temps, run_doc, results_doc>>
    BY <1>4 DEF History!ReadRun, History!ReadResults, History!store, History!start
  <2>2. Starts' /\ OwnDirectory' /\ LastWrote'
    BY <2>1 DEF HistoryInv, Starts, OwnDirectory, LastWrote, Wrote, Indexed, History!LastInDir
  <2>3. HistoryTypes' /\ ReadsOneDirectory'
    BY <2>1, <1>4
    DEF History!ReadRun, History!ReadResults, HistoryInv, HistoryTypes, History!TypeOK,
        OwnDirectory, ReadsOneDirectory, Job, NoRun
  <2> QED BY <2>2, <2>3 DEF HistoryInv
<1> QED BY <1>1, <1>2, <1>3, <1>4 DEF History!Next

LEMMA HistoryInvariance == Spec => [](part = "history" => HistoryInv)
<1>1. Init => (part = "history" => HistoryInv)
  BY HistoryInit DEF Init
<1>2. (part = "history" => HistoryInv) /\ [Next]_vars => (part = "history" => HistoryInv)'
  BY HistoryNext DEF Next, vars, history, History!vars, History!store, History!start
<1> QED BY <1>1, <1>2, PTL DEF Spec

(* The run and the results that load_run returns are of the same inputs,   *)
(* and of the same workflow unless one of the two runs saw it edited       *)
(* between its two reads, for any number of runs that share directories.   *)
THEOREM LoadsOfOneWork == Spec => []SameWork
<1>1. (part = "history" => HistoryInv) => SameWork
  <2> SUFFICES ASSUME HistoryInv, reader.results # NoRun
               PROVE  LET a == reader.run
                          b == reader.results
                      IN  /\ hashed[a] = hashed[b]
                          /\ a \notin edited /\ b \notin edited => loaded[a] = loaded[b]
    BY DEF SameWork, History!SameWork, NoRun
  <2>1. /\ reader.run \in Run /\ reader.results \in Run /\ reader.id \in Job
        /\ job[reader.run] = reader.id /\ job[reader.results] = reader.id
    BY DEF HistoryInv, HistoryTypes, ReadsOneDirectory
  <2>2. reader.id # NoJob
    BY <2>1, HistoryConstants
  <2> QED BY <2>1, <2>2 DEF HistoryInv, HistoryTypes, Starts
<1> QED BY <1>1, HistoryInvariance, PTL

(* What the last run in a directory wrote stays on record, with an index   *)
(* of whole files: its name is made of all that tells it from runs it may  *)
(* overlap with, and those before it left no temporary file.               *)
THEOREM LastRunsAreKept == Spec => []LastRunIsKept
<1>1. (part = "history" => HistoryInv) => LastRunIsKept
  <2> SUFFICES ASSUME HistoryInv, NEW r \in Run, pc[r] = "returned", History!LastInDir(r)
               PROVE  /\ run_doc[History!Dir(r)] = r /\ results_doc[History!Dir(r)] = r
                      /\ [name |-> "artifact", by |-> r] \in index[r]
                      /\ \A e \in index[r] : e.name = "artifact" /\ e.by \in earlier[r] \cup {r}
    BY DEF LastRunIsKept, History!LastRunIsKept
  <2> QED BY StartedOn DEF HistoryInv, LastWrote, Wrote, Indexed, Named
<1> QED BY <1>1, HistoryInvariance, PTL

-----------------------------------------------------------------------------
(***************************************************************************)
(* Pagination.  While a walk goes on, the pages it has are a stretch of    *)
(* the site's chain without a repetition, the URL each of them leads to is *)
(* marked as seen, and no other URL than those and the first is.           *)
(***************************************************************************)
URLs == Walks!URL \cup {<<Root, "blank">>}

WalkTypes ==
  /\ link \in [Page -> Walks!Links] /\ malformed \subseteq Page
  /\ form \in {"relative", "absolute"} /\ max_pages \in Nat
  /\ cur \in [Walker -> URLs] /\ seen \in [Walker -> SUBSET URLs]
  /\ out \in [Walker -> Seq(Page)]
  /\ result \in [Walker -> {"walking", "returned", "failed", "cycle", "limit"}]

FollowsLinks(w) ==
  /\ out[w] = <<>> => cur[w][1] = Start
  /\ out[w] # <<>> =>
       /\ out[w][1] = Start
       /\ cur[w] = Walks!NextOf(w, out[w][Len(out[w])])
  /\ \A i \in 1..(Len(out[w]) - 1) : Walks!PageAfter(w, out[w][i]) = out[w][i + 1]

SeenIsFollowed(w) ==
  /\ \A i \in 1..Len(out[w]) : Walks!NextOf(w, out[w][i]) \in seen[w]
  /\ \A u \in seen[w] : u[1] = cur[w][1] \/ \E i \in 1..Len(out[w]) : u[1] = out[w][i]

NoneTwice(w) == \A i, j \in 1..Len(out[w]) : out[w][i] = out[w][j] => i = j

WalkInv ==
  /\ WalkTypes
  /\ \A w \in Walker : result[w] = "walking" =>
       FollowsLinks(w) /\ SeenIsFollowed(w) /\ NoneTwice(w)
  /\ Walks!EndsAsTheSite

LEMMA WalksInit == Walks!Init => WalkInv
BY ConstantsAssumption
DEF Walks!Init, Walks!ConstantsOK, WalkInv, WalkTypes, FollowsLinks, SeenIsFollowed, NoneTwice,
    Walks!EndsAsTheSite, URLs, Walks!URL

(* A page leads to a URL, or says that it is the last, or cannot be read.  *)
LEMMA WhereToGo ==
  ASSUME WalkTypes, NEW w \in Walker, NEW p \in Page
  PROVE  Walks!NextOf(w, p) \in URLs \cup {Walks!NoNext, Walks!BadNext}
<1>1. w \in {"link", "envelope", "async_envelope"} /\ Root \in Page
  BY ConstantsAssumption DEF Walks!ConstantsOK
<1> USE DEF WalkTypes, Walks!Links, Walks!NoLink, Walks!Blank, Walks!NotString, Walks!URL, URLs,
            Walks!NoNext, Walks!BadNext
<1>2. CASE w = "link"  BY <1>2 DEF Walks!NextOf, Walks!LinkNext
<1>3. CASE w = "envelope"  BY <1>3 DEF Walks!NextOf, Walks!EnvelopeNext
<1>4. CASE w = "async_envelope"  BY <1>4 DEF Walks!NextOf, Walks!AsyncEnvelopeNext
<1> QED BY <1>1, <1>2, <1>3, <1>4

(* The mark of a walk that stops is not that of a URL.                     *)
LEMMA StopsAreNotURLs == Walks!NoNext \notin URLs /\ Walks!BadNext \notin URLs
BY DEF Walks!NoNext, Walks!BadNext, URLs, Walks!URL

(* The site does not change.                                               *)
LEMMA SiteStays ==
  ASSUME UNCHANGED <<link, form>>
  PROVE  \A v, p : /\ Walks!NextOf(v, p)' = Walks!NextOf(v, p)
                   /\ Walks!PageAfter(v, p)' = Walks!PageAfter(v, p)
BY DEF Walks!PageAfter, Walks!NextOf, Walks!LinkNext, Walks!EnvelopeNext, Walks!AsyncEnvelopeNext

LEMMA FetchKeeps ==
  ASSUME WalkInv, NEW w \in Walker, Walks!Fetch(w)
  PROVE  WalkInv'
<1> DEFINE page == cur[w][1]
           next == Walks!NextOf(w, page)
           n == Len(out[w])
<1>1. /\ result[w] = "walking" /\ page \in Page
      /\ FollowsLinks(w) /\ SeenIsFollowed(w) /\ NoneTwice(w)
      /\ UNCHANGED <<link, malformed, form, max_pages>>
  BY ConstantsAssumption
  DEF Walks!Fetch, Walks!site, WalkInv, WalkTypes, URLs, Walks!URL, Walks!ConstantsOK
<1>2. next \in URLs \cup {Walks!NoNext, Walks!BadNext} /\ seen[w] \subseteq URLs
  BY <1>1, WhereToGo DEF WalkInv, WalkTypes
<1>3. n \in Nat /\ \A i \in 1..n : out[w][i] \in Page
  BY DEF WalkInv, WalkTypes
<1>4. ASSUME NEW v \in Walker, NEW p
      PROVE  /\ Walks!NextOf(v, p)' = Walks!NextOf(v, p)
             /\ Walks!PageAfter(v, p)' = Walks!PageAfter(v, p)
  BY <1>1, SiteStays
<1>5. CASE page \in malformed
  <2>1. result' = [result EXCEPT ![w] = "failed"] /\ UNCHANGED <<cur, seen, out>>
    BY <1>5 DEF Walks!Fetch, Walks!Finish
  <2> QED
    BY <1>1, <1>4, <2>1
    DEF WalkInv, WalkTypes, FollowsLinks, SeenIsFollowed, NoneTwice, Walks!EndsAsTheSite
<1>6. CASE page \notin malformed
  <2> DEFINE pages == Append(out[w], page)
  <2>1. /\ out' = [out EXCEPT ![w] = pages]
        /\ pages \in Seq(Page) /\ Len(pages) = n + 1 /\ pages[n + 1] = page
        /\ \A i \in 1..n : pages[i] = out[w][i]
    BY <1>1, <1>3, <1>6 DEF Walks!Fetch, WalkInv, WalkTypes
  <2>2. pages[1] = Start /\ \A i \in 1..n : Walks!PageAfter(w, pages[i]) = pages[i + 1]
    <3>1. CASE n = 0  BY <1>1, <1>3, <2>1, <3>1 DEF FollowsLinks, WalkInv, WalkTypes
    <3>2. CASE n # 0
      <4>1. Walks!PageAfter(w, out[w][n]) = page
        BY <1>1, <1>3, <3>2 DEF FollowsLinks, Walks!PageAfter
      <4>2. pages[1] = Start
        BY <1>1, <1>3, <2>1, <3>2 DEF FollowsLinks
      <4>3. \A i \in 1..(n - 1) : Walks!PageAfter(w, pages[i]) = pages[i + 1]
        <5> SUFFICES ASSUME NEW i \in 1..(n - 1)
                     PROVE  Walks!PageAfter(w, pages[i]) = pages[i + 1]
          OBVIOUS
        <5>1. i \in 1..n /\ i + 1 \in 1..n
          BY <1>3
        <5> QED BY <1>1, <2>1, <5>1 DEF FollowsLinks
      <4>4. Walks!PageAfter(w, pages[n]) = pages[n + 1]
        BY <1>3, <2>1, <3>2, <4>1
      <4> QED BY <1>3, <4>2, <4>3, <4>4
    <3> QED BY <3>1, <3>2
  (* A page met again leads where it led before, which was marked then.    *)
  <2>3. next \notin seen[w] =>
          \A i, j \in 1..(n + 1) : pages[i] = pages[j] => i = j
    <3> SUFFICES ASSUME next \notin seen[w], NEW i \in 1..(n + 1), NEW j \in 1..(n + 1),
                        pages[i] = pages[j], i # j
                 PROVE  FALSE
      OBVIOUS
    <3>1. CASE i \in 1..n /\ j \in 1..n
      BY <1>1, <2>1, <3>1 DEF NoneTwice
    <3>2. CASE i = n + 1 /\ j \in 1..n
      <4>1. out[w][j] = page
        BY <2>1, <3>2
      <4> QED BY <1>1, <3>2, <4>1 DEF SeenIsFollowed
    <3>3. CASE i \in 1..n /\ j = n + 1
      <4>1. out[w][i] = page
        BY <2>1, <3>3
      <4> QED BY <1>1, <3>3, <4>1 DEF SeenIsFollowed
    <3> QED BY <1>3, <3>1, <3>2, <3>3
  <2> HIDE DEF pages
  <2>4. CASE next = Walks!NoNext
    <3>1. result' = [result EXCEPT ![w] = "returned"] /\ UNCHANGED <<cur, seen>>
      BY <1>6, <2>4 DEF Walks!Fetch, Walks!Finish
    <3>2. next \notin seen[w]
      BY <1>2, <2>4, StopsAreNotURLs
    <3>3. Walks!PageAfter(w, page) = Walks!NoLink
      BY <2>4 DEF Walks!PageAfter, Walks!NoNext
    <3>4. Walks!EndsAsTheSite'
      <4>1. \A v \in Walker \ {w} : result'[v] = result[v] /\ out'[v] = out[v]
        BY <2>1, <3>1 DEF WalkInv, WalkTypes
      <4>2. result'[w] = "returned" /\ out'[w] = pages
        BY <2>1, <3>1 DEF WalkInv, WalkTypes
      <4>3. DOMAIN pages = 1..(n + 1)
        BY <1>3, <2>1
      <4> QED
        BY <1>3, <1>4, <2>1, <2>2, <2>3, <3>2, <3>3, <4>1, <4>2, <4>3
        DEF WalkInv, Walks!EndsAsTheSite, Walks!IsInjective, Walks!Last
    <3> QED
      BY <1>1, <1>4, <2>1, <3>1, <3>4
      DEF WalkInv, WalkTypes, FollowsLinks, SeenIsFollowed, NoneTwice
  <2>5. CASE next = Walks!BadNext
    <3>1. result' = [result EXCEPT ![w] = "failed"] /\ UNCHANGED <<cur, seen>>
      BY <1>6, <2>5 DEF Walks!Fetch, Walks!Finish, Walks!BadNext, Walks!NoNext,
                        Walks!NotString, Walks!NoLink
    <3> QED
      BY <1>1, <1>4, <2>1, <3>1
      DEF WalkInv, WalkTypes, FollowsLinks, SeenIsFollowed, NoneTwice, Walks!EndsAsTheSite
  <2>6. CASE next \in seen[w]
    <3>1. result' = [result EXCEPT ![w] = "cycle"] /\ UNCHANGED <<cur, seen>>
      BY <1>2, <1>6, <2>6, StopsAreNotURLs DEF Walks!Fetch, Walks!Finish
    <3>2. PICK i \in 1..(n + 1) : pages[i] = next[1]
      <4>1. next[1] = page \/ \E k \in 1..n : next[1] = out[w][k]
        BY <1>1, <2>6 DEF SeenIsFollowed
      <4> QED BY <1>3, <2>1, <4>1
    <3>3. Walks!PageAfter(w, pages[n + 1]) = pages[i]
      BY <2>1, <3>2 DEF Walks!PageAfter
    <3>4. Walks!EndsAsTheSite'
      <4>1. \A v \in Walker \ {w} : result'[v] = result[v] /\ out'[v] = out[v]
        BY <2>1, <3>1 DEF WalkInv, WalkTypes
      <4>2. result'[w] = "cycle" /\ out'[w] = pages
        BY <2>1, <3>1 DEF WalkInv, WalkTypes
      <4>3. n + 1 \in 1..Len(pages) /\ i \in 1..Len(pages) /\ i <= n + 1
        BY <1>3, <2>1
      <4> QED
        BY <1>4, <3>3, <4>1, <4>2, <4>3
        DEF WalkInv, Walks!EndsAsTheSite
    <3> QED
      BY <1>1, <1>4, <2>1, <3>1, <3>4
      DEF WalkInv, WalkTypes, FollowsLinks, SeenIsFollowed, NoneTwice
  <2>7. CASE next \notin seen[w] \cup {Walks!NoNext, Walks!BadNext}
    <3>1. /\ seen' = [seen EXCEPT ![w] = @ \cup {next}]
          /\ cur' = [cur EXCEPT ![w] = next]
          /\ result' = [result EXCEPT ![w] = result'[w]] /\ result'[w] \in {"walking", "limit"}
      BY <1>1, <1>6, <2>7
      DEF Walks!Fetch, Walks!MarkSeen, Walks!LimitExceeded, Walks!Finish, WalkInv, WalkTypes
    <3>2. WalkTypes'
      <4>1. WalkTypes /\ next \in URLs /\ URLs' = URLs /\ Walks!Links' = Walks!Links
        BY <1>2, <2>7 DEF WalkInv, URLs, Walks!URL, Walks!Links, Walks!NoLink, Walks!Blank,
                          Walks!NotString
      <4> HIDE DEF next
      <4>2. cur' \in [Walker -> URLs]
        BY <3>1, <4>1 DEF WalkTypes
      <4>3. seen' \in [Walker -> SUBSET URLs]
        <5>1. seen[w] \cup {next} \in SUBSET URLs
          BY <1>2, <4>1
        <5> QED BY <3>1, <4>1, <5>1 DEF WalkTypes
      <4>4. /\ out' \in [Walker -> Seq(Page)]
            /\ result' \in [Walker -> {"walking", "returned", "failed", "cycle", "limit"}]
        BY <2>1, <3>1, <4>1 DEF WalkTypes
      <4> QED BY <1>1, <4>1, <4>2, <4>3, <4>4 DEF WalkTypes
    <3>3. /\ cur'[w] = next /\ out'[w] = pages /\ seen'[w] = seen[w] \cup {next}
      BY <2>1, <3>1 DEF WalkInv, WalkTypes
    <3>4. FollowsLinks(w)'
      <4> SUFFICES /\ pages # <<>> /\ cur'[w] = Walks!NextOf(w, pages[Len(pages)])
                   /\ \A i \in 1..(Len(pages) - 1) : Walks!PageAfter(w, pages[i]) = pages[i + 1]
        BY <1>4, <2>2, <3>3 DEF FollowsLinks
      <4> QED BY <1>3, <2>1, <2>2, <3>3
    <3>5. SeenIsFollowed(w)'
      <4>1. ASSUME NEW i \in 1..(n + 1) PROVE Walks!NextOf(w, pages[i]) \in seen'[w]
        <5>1. CASE i = n + 1  BY <2>1, <3>3, <5>1
        <5>2. CASE i \in 1..n  BY <1>1, <2>1, <3>3, <5>2 DEF SeenIsFollowed
        <5> QED BY <1>3, <5>1, <5>2
      <4>2. ASSUME NEW u \in seen'[w]
            PROVE  u[1] = next[1] \/ \E i \in 1..(n + 1) : u[1] = pages[i]
        <5>1. CASE u = next  BY <5>1
        <5>2. CASE u \in seen[w]
          <6>1. u[1] = page \/ \E k \in 1..n : u[1] = out[w][k]
            BY <1>1, <5>2 DEF SeenIsFollowed
          <6> QED BY <1>3, <2>1, <6>1
        <5> QED BY <3>3, <5>1, <5>2
      <4> QED BY <1>4, <2>1, <3>3, <4>1, <4>2 DEF SeenIsFollowed
    <3>6. NoneTwice(w)'
      BY <2>1, <2>3, <2>7, <3>3 DEF NoneTwice
    <3>7. \A v \in Walker \ {w} :
            /\ result'[v] = result[v] /\ out'[v] = out[v] /\ cur'[v] = cur[v]
            /\ seen'[v] = seen[v]
      BY <2>1, <3>1 DEF WalkInv, WalkTypes
    <3>8. \A v \in Walker : result'[v] = "walking" =>
            FollowsLinks(v)' /\ SeenIsFollowed(v)' /\ NoneTwice(v)'
      BY <1>4, <3>4, <3>5, <3>6, <3>7
      DEF WalkInv, FollowsLinks, SeenIsFollowed, NoneTwice
    <3>9. Walks!EndsAsTheSite'
      <4>1. result'[w] \notin {"returned", "cycle"}
        BY <3>1
      <4>2. \A v \in Walker : result'[v] \in {"returned", "cycle"} =>
              v # w /\ result'[v] = result[v] /\ out'[v] = out[v]
        BY <3>7, <4>1
      <4> QED BY <1>4, <4>2 DEF WalkInv, Walks!EndsAsTheSite, Walks!IsInjective, Walks!Last
    <3> QED BY <3>2, <3>8, <3>9 DEF WalkInv
  <2> QED BY <2>4, <2>5, <2>6, <2>7
<1> QED BY <1>5, <1>6

LEMMA FetchFailsKeeps ==
  ASSUME WalkInv, NEW w \in Walker, Walks!FetchFails(w)
  PROVE  WalkInv'
<1>1. /\ result' = [result EXCEPT ![w] = "failed"]
      /\ UNCHANGED <<link, malformed, form, max_pages, cur, seen, out>>
  BY DEF Walks!FetchFails, Walks!Finish, Walks!site
<1>2. ASSUME NEW v \in Walker, NEW p
      PROVE  /\ Walks!NextOf(v, p)' = Walks!NextOf(v, p)
             /\ Walks!PageAfter(v, p)' = Walks!PageAfter(v, p)
  BY <1>1, SiteStays
<1> QED
  BY <1>1, <1>2
  DEF WalkInv, WalkTypes, FollowsLinks, SeenIsFollowed, NoneTwice, Walks!EndsAsTheSite

LEMMA WalksNext == WalkInv /\ [Walks!Next]_(Walks!vars) => WalkInv'
<1> SUFFICES ASSUME WalkInv, [Walks!Next]_(Walks!vars) PROVE WalkInv'
  OBVIOUS
<1>1. CASE UNCHANGED Walks!vars
  BY <1>1, SiteStays
  DEF Walks!vars, Walks!site, WalkInv, WalkTypes, FollowsLinks, SeenIsFollowed, NoneTwice,
      Walks!EndsAsTheSite
<1> QED BY <1>1, FetchKeeps, FetchFailsKeeps DEF Walks!Next, Walks!Finished

(* On every site, by each of the three ways of following pages: what is    *)
(* returned is the site's chain of pages, and only a cycle of the site is  *)
(* reported as one.                                                        *)
THEOREM ListsAreTheSite == Spec => []EndsAsTheSite
<1>1. Init => (part = "walks" => WalkInv)
  BY WalksInit DEF Init
<1>2. (part = "walks" => WalkInv) /\ [Next]_vars => (part = "walks" => WalkInv)'
  BY WalksNext DEF Next, vars, walks, Walks!vars, Walks!site
<1>3. (part = "walks" => WalkInv) => EndsAsTheSite
  BY DEF WalkInv, EndsAsTheSite
<1> QED BY <1>1, <1>2, <1>3, PTL DEF Spec

-----------------------------------------------------------------------------
(***************************************************************************)
(* Omnichannel: the rate limiter.  The tokens on file, and those in memory *)
(* if there are any, leave no more than the rest of what every stretch of  *)
(* time up to now allows.  They can only be bounded so if file and key are *)
(* no other user's.                                                        *)
(***************************************************************************)
Full == capacity * Unit

BucketsAreOld ==
  /\ \A k \in Key : in_memory[k].last_refill <= now
  /\ \A f \in File : counters[f].last_refill <= now

(* What is spent from the i-th admission on, and what is left, is within   *)
(* what the limit allows from then to now.                                 *)
Covered(u, b) ==
  \A i \in 1..Len(routed[u]) :
    (Len(routed[u]) - i + 1) * Unit + Gateway!Refilled(b)
      <= Full + (now - routed[u][i]) * refill_per_second

AdmissionsOf(u) ==
  /\ in_memory[key_of[u]].present => Covered(u, in_memory[key_of[u]])
  /\ counters[file_of[u]].present => Covered(u, counters[file_of[u]])
  /\ ~counters[file_of[u]].present => routed[u] = <<>>
  /\ \A i \in 1..Len(routed[u]) : routed[u][i] <= now
  /\ \A i, j \in 1..Len(routed[u]) : i <= j =>
       (j - i + 1) * Unit <= Full + (routed[u][j] - routed[u][i]) * refill_per_second

AdmissionsAreCovered == \A u \in User : Gateway!OwnBucket(u) => AdmissionsOf(u)

(* Without the cap of the bucket. *)
Saved(b) == b.tokens + (now - b.last_refill) * refill_per_second

(* Nothing is taken from a bucket for a request that is refused.           *)
WaitOf(u) ==
  (\A r \in Request : sender[r] = u => at[r] # "failed") =>
    /\ in_memory[key_of[u]].present => in_memory[key_of[u]] = counters[file_of[u]]
    /\ routed[u] # <<>> =>
         \/ Saved(counters[file_of[u]]) >= Full
         \/ Saved(counters[file_of[u]])
              >= (now - routed[u][Len(routed[u])]) * refill_per_second

WaitIsCredited == \A u \in User : Gateway!OwnBucket(u) => WaitOf(u)

LimiterInv ==
  Gateway!TypeOK /\ BucketsAreOld /\ AdmissionsAreCovered /\ WaitIsCredited

LEMMA OneMoreTime == \A a, c \in Int : (a + 1) * c = a * c + c
OBVIOUS

LEMMA NoNegativeProduct == \A a, c \in Nat : a * c \in Nat
OBVIOUS

LEMMA Constants ==
  /\ sender \in [Request -> User] /\ file_of \in [User -> File] /\ key_of \in [User -> Key]
  /\ Unit \in Nat \ {0} /\ capacity \in Nat \ {0} /\ refill_per_second \in Nat /\ MaxTime \in Nat
  /\ Full \in Nat /\ Full >= Unit
<1>1. /\ sender \in [Request -> User] /\ file_of \in [User -> File] /\ key_of \in [User -> Key]
      /\ Unit \in Nat \ {0} /\ capacity \in Nat \ {0} /\ refill_per_second \in Nat
      /\ MaxTime \in Nat
  BY ConstantsAssumption DEF Gateway!ConstantsOK
<1>2. (capacity - 1) * Unit \in Nat /\ ((capacity - 1) + 1) * Unit = (capacity - 1) * Unit + Unit
  BY <1>1, OneMoreTime, NoNegativeProduct
<1>3. (capacity - 1) + 1 = capacity
  BY <1>1
<1> QED BY <1>1, <1>2, <1>3 DEF Full

(* A bucket that is not from the future.                                   *)
OldBucket(b) == b \in Gateway!Buckets /\ b.last_refill <= now

LEMMA BucketType ==
  /\ \A b \in Gateway!Buckets : b.tokens \in 0..Full /\ b.last_refill \in 0..MaxTime
  /\ \A n \in 0..Full, t \in 0..MaxTime :
       [tokens |-> n, last_refill |-> t, present |-> TRUE] \in Gateway!Buckets
<1>1. Gateway!Buckets = [tokens : 0..Full, last_refill : 0..MaxTime, present : {TRUE}]
                        \cup {[tokens |-> 0, last_refill |-> 0, present |-> FALSE]}
  BY DEF Gateway!Buckets, Gateway!None, Full
<1>2. 0 \in 0..Full /\ 0 \in 0..MaxTime
  BY Constants
<1>3. ASSUME NEW b \in Gateway!Buckets
      PROVE  b.tokens \in 0..Full /\ b.last_refill \in 0..MaxTime
  <2>1. CASE b \in [tokens : 0..Full, last_refill : 0..MaxTime, present : {TRUE}]
    BY <2>1
  <2>2. CASE b = [tokens |-> 0, last_refill |-> 0, present |-> FALSE]
    BY <1>2, <2>2
  <2> QED BY <1>1, <1>3, <2>1, <2>2
<1>4. ASSUME NEW n \in 0..Full, NEW t \in 0..MaxTime
      PROVE  [tokens |-> n, last_refill |-> t, present |-> TRUE] \in Gateway!Buckets
  BY <1>1
<1> QED BY <1>3, <1>4

LEMMA RefilledIs ==
  \A b : Gateway!Refilled(b) = IF Saved(b) < Full THEN Saved(b) ELSE Full
BY DEF Gateway!Refilled, Saved, Full

LEMMA LimiterTypes ==
  ASSUME LimiterInv
  PROVE  /\ now \in 0..MaxTime /\ now \in Nat
         /\ in_memory \in [Key -> Gateway!Buckets] /\ counters \in [File -> Gateway!Buckets]
         /\ routed \in [User -> Seq(0..MaxTime)] /\ at \in [Request -> Gateway!Labels]
BY Constants DEF LimiterInv, Gateway!TypeOK

LEMMA RefilledIsCapped ==
  ASSUME now \in 0..MaxTime, NEW b, OldBucket(b)
  PROVE  Saved(b) \in Nat /\ Gateway!Refilled(b) \in 0..Full
<1>1. b.tokens \in 0..Full /\ b.last_refill \in 0..MaxTime /\ b.last_refill <= now
  BY Constants, BucketType DEF OldBucket
<1>2. (now - b.last_refill) * refill_per_second \in Nat
  BY <1>1, Constants, NoNegativeProduct
<1>3. Saved(b) \in Nat
  BY <1>1, <1>2, Constants DEF Saved
<1> QED BY <1>3, RefilledIs, Constants

LEMMA LoadIsOld ==
  ASSUME LimiterInv, NEW u \in User
  PROVE  OldBucket(Gateway!Load(u))
<1>1. CASE in_memory[key_of[u]].present
  BY <1>1, LimiterTypes, Constants DEF LimiterInv, BucketsAreOld, Gateway!Load, OldBucket
<1>2. CASE ~in_memory[key_of[u]].present /\ counters[file_of[u]].present
  BY <1>2, LimiterTypes, Constants DEF LimiterInv, BucketsAreOld, Gateway!Load, OldBucket
<1>3. CASE ~in_memory[key_of[u]].present /\ ~counters[file_of[u]].present
  <2>1. Gateway!Load(u) = [tokens |-> Full, last_refill |-> now, present |-> TRUE]
    BY <1>3 DEF Gateway!Load, Gateway!Bucket, Full
  <2> QED BY <2>1, LimiterTypes, BucketType, Constants DEF OldBucket
<1> QED BY <1>1, <1>2, <1>3

(* The bucket that allow() saves.                                          *)
LEMMA ChargedIs ==
  ASSUME LimiterInv, NEW u \in User, NEW left, left = Gateway!Refilled(Gateway!Load(u)),
         NEW c, c = Gateway!Charged(u)
  PROVE  /\ left \in 0..Full
         /\ OldBucket(c) /\ c \in Gateway!Buckets /\ c.present /\ c.last_refill = now
         /\ Saved(c) = c.tokens /\ Gateway!Refilled(c) = c.tokens /\ c.tokens \in 0..left
         /\ Gateway!Admits(u) <=> left >= Unit
         /\ c.tokens = IF left >= Unit THEN left - Unit ELSE left
<1>1. now \in 0..MaxTime /\ now \in Nat /\ left \in 0..Full
  BY LoadIsOld, RefilledIsCapped, LimiterTypes
<1>2. /\ c = [tokens |-> c.tokens, last_refill |-> now, present |-> TRUE]
      /\ c.tokens = IF left >= Unit THEN left - Unit ELSE left
      /\ Gateway!Admits(u) <=> left >= Unit
  BY DEF Gateway!Charged, Gateway!Bucket, Gateway!Admits
<1>3. c.tokens \in 0..Full /\ c.tokens \in 0..left /\ c.present /\ c.last_refill = now
  BY <1>1, <1>2, Constants
<1>4. OldBucket(c)
  BY <1>1, <1>2, <1>3, BucketType DEF OldBucket
<1>5. now - c.last_refill = 0 /\ 0 * refill_per_second = 0
  BY <1>1, <1>3, Constants
<1>6. Saved(c) = c.tokens
  BY <1>3, <1>5, Constants DEF Saved
<1>7. Gateway!Refilled(c) = c.tokens
  BY <1>3, <1>6, RefilledIs, Constants
<1> QED BY <1>1, <1>2, <1>3, <1>4, <1>6, <1>7 DEF OldBucket

LEMMA LoadIsCovered ==
  ASSUME LimiterInv, NEW u \in User, Gateway!OwnBucket(u)
  PROVE  Covered(u, Gateway!Load(u))
<1>1. CASE in_memory[key_of[u]].present \/ counters[file_of[u]].present
  BY <1>1 DEF LimiterInv, AdmissionsAreCovered, AdmissionsOf, Gateway!Load
<1>2. CASE ~in_memory[key_of[u]].present /\ ~counters[file_of[u]].present
  BY <1>2 DEF LimiterInv, AdmissionsAreCovered, AdmissionsOf, Covered
<1> QED BY <1>1, <1>2

(* A bucket with less in it is covered as well.                            *)
LEMMA ChargedIsCovered ==
  ASSUME LimiterInv, NEW u \in User, Gateway!OwnBucket(u)
  PROVE  Covered(u, Gateway!Charged(u))
<1> SUFFICES ASSUME NEW i \in 1..Len(routed[u])
             PROVE  (Len(routed[u]) - i + 1) * Unit + Gateway!Refilled(Gateway!Charged(u))
                      <= Full + (now - routed[u][i]) * refill_per_second
  BY DEF Covered
<1> DEFINE left  == Gateway!Refilled(Gateway!Load(u))
           kept  == Gateway!Refilled(Gateway!Charged(u))
           spent == (Len(routed[u]) - i + 1) * Unit
           grown == (now - routed[u][i]) * refill_per_second
<1>1. left \in Nat /\ kept \in Nat /\ kept <= left
  BY ChargedIs, Constants
<1>2. spent + left <= Full + grown
  BY LoadIsCovered DEF Covered
<1>3. spent \in Int /\ grown \in Int
  <2>1. Len(routed[u]) - i + 1 \in Int /\ now - routed[u][i] \in Int
    BY LimiterTypes, Constants
  <2> QED BY <2>1, Constants
<1> HIDE DEF left, kept, spent, grown
<1>4. spent + kept <= Full + grown
  BY <1>1, <1>2, <1>3, Constants
<1> QED BY <1>4 DEF kept, spent, grown

LEMMA BucketsStay == Gateway!Buckets' = Gateway!Buckets
BY DEF Gateway!Buckets, Gateway!None

(***************************************************************************)
(* Types.                                                                  *)
(***************************************************************************)
LEMMA GatewayTypesStep ==
  ASSUME LimiterInv, [Gateway!Next]_(Gateway!vars)
  PROVE  Gateway!TypeOK' /\ BucketsAreOld'
<1> USE Constants DEF Gateway!Goto, Gateway!Labels, Gateway!Running, Gateway!limiter
<1>1. Gateway!TypeOK /\ BucketsAreOld
  BY DEF LimiterInv
<1> USE BucketsStay
<1>2. ASSUME NEW r \in Request, Gateway!Allow(r) \/ Gateway!SaveFails(r)
      PROVE  Gateway!TypeOK' /\ BucketsAreOld'
  <2> DEFINE u == sender[r]
             c == Gateway!Charged(u)
  <2>1. /\ u \in User /\ file_of[u] \in File /\ key_of[u] \in Key
        /\ c \in Gateway!Buckets /\ c.last_refill <= now /\ now \in 0..MaxTime
    BY ChargedIs, LimiterTypes DEF OldBucket
  <2>2. /\ UNCHANGED <<now, conversation, existing, crowded, restarts>>
        /\ in_memory' = [in_memory EXCEPT ![key_of[u]] = c]
        /\ counters' = counters \/ counters' = [counters EXCEPT ![file_of[u]] = c]
        /\ \E label \in {"task", "append", "failed"} : at' = [at EXCEPT ![r] = label]
        /\ routed' = routed \/ routed' = [routed EXCEPT ![u] = Append(@, now)]
    BY <1>2 DEF Gateway!Allow, Gateway!SaveFails
  <2> HIDE DEF c, u
  <2>3. now' \in 0..MaxTime /\ in_memory' \in [Key -> Gateway!Buckets]
    BY <1>1, <2>1, <2>2 DEF Gateway!TypeOK
  <2>4. counters' \in [File -> Gateway!Buckets]
    BY <1>1, <2>1, <2>2 DEF Gateway!TypeOK
  <2>5. BucketsAreOld'
    BY <1>1, <2>1, <2>2, LimiterTypes DEF BucketsAreOld
  <2>6. routed' \in [User -> Seq(0..MaxTime)]
    <3>1. routed \in [User -> Seq(0..MaxTime)] /\ Append(routed[u], now) \in Seq(0..MaxTime)
      BY <2>1, LimiterTypes
    <3> QED BY <2>1, <2>2, <3>1
  <2>7. at' \in [Request -> Gateway!Labels]
    BY <1>1, <2>2 DEF Gateway!TypeOK
  <2> QED BY <1>1, <2>2, <2>3, <2>4, <2>5, <2>6, <2>7 DEF Gateway!TypeOK
<1>3. ASSUME NEW r \in Request, Gateway!LoadFails(r) \/ Gateway!TaskDone(r) \/ Gateway!Raises(r)
      PROVE  Gateway!TypeOK' /\ BucketsAreOld'
  BY <1>1, <1>3
  DEF Gateway!LoadFails, Gateway!TaskDone, Gateway!Raises, Gateway!TypeOK, BucketsAreOld
<1>4. ASSUME NEW r \in Request, Gateway!ReadRows(r) \/ Gateway!ReplaceRows(r)
      PROVE  Gateway!TypeOK' /\ BucketsAreOld'
  <2>1. Gateway!RowsOf(r) \in File
    BY DEF Gateway!RowsOf
  <2>2. CASE Gateway!ReadRows(r)
    BY <1>1, <2>1, <2>2 DEF Gateway!ReadRows, Gateway!TypeOK, BucketsAreOld
  <2>3. CASE Gateway!ReplaceRows(r)
    <3>1. Append(existing[r], r) \in Seq(Request)
      BY <1>1 DEF Gateway!TypeOK
    <3> QED
      BY <1>1, <2>1, <2>3, <3>1
      DEF Gateway!ReplaceRows, Gateway!WithRow, Gateway!TypeOK, BucketsAreOld
  <2> QED BY <1>4, <2>2, <2>3
<1>5. CASE Gateway!Tick
  <2>1. /\ now' = now + 1 /\ now' \in 0..MaxTime
        /\ UNCHANGED <<in_memory, counters, conversation, at, existing, routed, crowded, restarts>>
    BY <1>1, <1>5 DEF Gateway!Tick, Gateway!TypeOK
  <2>2. BucketsAreOld'
    <3>1. \A b \in Gateway!Buckets : b.last_refill <= now => b.last_refill <= now'
      BY <2>1, BucketType, LimiterTypes
    <3> QED BY <1>1, <2>1, <3>1, LimiterTypes DEF BucketsAreOld
  <2> QED BY <1>1, <2>1, <2>2 DEF Gateway!TypeOK
<1>6. CASE Gateway!Restart
  <2>1. Gateway!None \in Gateway!Buckets /\ Gateway!None.last_refill = 0 /\ now \in Nat
    BY LimiterTypes DEF Gateway!None, Gateway!Buckets
  <2>2. restarts' \in 0..MaxRestarts
    BY <1>1, <1>6, ConstantsAssumption DEF Gateway!Restart, Gateway!TypeOK, Gateway!ConstantsOK
  <2> QED
    BY <1>1, <1>6, <2>1, <2>2
    DEF Gateway!Restart, Gateway!TypeOK, BucketsAreOld
<1>7. CASE UNCHANGED Gateway!vars
  BY <1>1, <1>7 DEF Gateway!vars, Gateway!TypeOK, BucketsAreOld
<1> QED
  BY <1>2, <1>3, <1>4, <1>5, <1>6, <1>7 DEF Gateway!Next, Gateway!Step, Gateway!Served

(***************************************************************************)
(* What is covered stays covered.                                          *)
(***************************************************************************)
(* A second adds no more to a bucket than to what is allowed.              *)
LEMMA CoveredLater ==
  ASSUME LimiterInv, Gateway!Tick, NEW u \in User, Gateway!OwnBucket(u), NEW b, OldBucket(b)
  PROVE  /\ Saved(b)' = Saved(b) + refill_per_second
         /\ Covered(u, b) => Covered(u, b)'
<1>1. /\ now' = now + 1 /\ now \in Nat /\ now \in 0..MaxTime /\ routed' = routed
      /\ b.tokens \in 0..Full /\ b.last_refill \in Nat
  BY LimiterTypes, BucketType, Constants DEF Gateway!Tick, OldBucket
<1>2. ASSUME NEW t \in Int
      PROVE  (now' - t) * refill_per_second = (now - t) * refill_per_second + refill_per_second
  <2>1. now' - t = (now - t) + 1 /\ now - t \in Int
    BY <1>1
  <2> QED BY <2>1, OneMoreTime, Constants
<1>3. Saved(b)' = Saved(b) + refill_per_second
  <2>1. (now - b.last_refill) * refill_per_second \in Int
    BY <1>1, Constants
  <2>2. (now' - b.last_refill) * refill_per_second
          = (now - b.last_refill) * refill_per_second + refill_per_second
    BY <1>1, <1>2
  <2> DEFINE x == (now - b.last_refill) * refill_per_second
             y == (now' - b.last_refill) * refill_per_second
  <2>3. /\ Saved(b) = b.tokens + x /\ Saved(b)' = b.tokens + y
        /\ y = x + refill_per_second /\ x \in Int
    BY <2>1, <2>2 DEF Saved
  <2> HIDE DEF x, y
  <2> QED BY <1>1, <2>3, Constants
<1>4. Gateway!Refilled(b)' = IF Saved(b)' < Full THEN Saved(b)' ELSE Full
  BY DEF Gateway!Refilled, Saved, Full
<1>5. /\ Gateway!Refilled(b) \in Nat /\ Gateway!Refilled(b)' \in Nat
      /\ Gateway!Refilled(b)' <= Gateway!Refilled(b) + refill_per_second
  <2>1. Saved(b) \in Nat /\ Gateway!Refilled(b) = IF Saved(b) < Full THEN Saved(b) ELSE Full
    BY <1>1, RefilledIs, RefilledIsCapped
  <2> QED BY <1>3, <1>4, <2>1, Constants
<1>6. ASSUME Covered(u, b), NEW i \in 1..Len(routed[u])
      PROVE  (Len(routed[u]) - i + 1) * Unit + Gateway!Refilled(b)'
               <= Full + (now' - routed[u][i]) * refill_per_second
  <2> DEFINE spent == (Len(routed[u]) - i + 1) * Unit
             grown == (now - routed[u][i]) * refill_per_second
             later == (now' - routed[u][i]) * refill_per_second
  <2>1. routed[u][i] \in Int /\ spent \in Int /\ grown \in Int
    BY <1>1, LimiterTypes, Constants
  <2>2. later = grown + refill_per_second
    BY <1>2, <2>1
  <2>3. spent + Gateway!Refilled(b) <= Full + grown
    BY <1>6 DEF Covered
  <2> HIDE DEF spent, grown, later
  <2>4. spent + Gateway!Refilled(b)' <= Full + later
    BY <1>5, <2>1, <2>2, <2>3, Constants
  <2> QED BY <2>4 DEF spent, later
<1> QED BY <1>1, <1>3, <1>6 DEF Covered

(* The i-th admission and those after it, with the one of now.             *)
LEMMA AdmissionIsCovered ==
  ASSUME LimiterInv, NEW u \in User, Gateway!OwnBucket(u), Gateway!Admits(u),
         NEW c, c = Gateway!Charged(u),
         now' = now, routed' = [routed EXCEPT ![u] = Append(@, now)]
  PROVE  /\ Covered(u, c)'
         /\ \A i \in 1..(Len(routed[u]) + 1) :
              (Len(routed[u]) + 1 - i + 1) * Unit
                <= Full + (now - routed'[u][i]) * refill_per_second
<1> DEFINE left == Gateway!Refilled(Gateway!Load(u))
           n    == Len(routed[u])
<1>1. /\ left \in 0..Full /\ left >= Unit /\ Gateway!Refilled(c) = left - Unit
      /\ c.tokens = left - Unit /\ c.last_refill = now
  BY ChargedIs
<1>2. /\ n \in Nat /\ now \in Nat /\ Len(routed'[u]) = n + 1
      /\ routed'[u][n + 1] = now /\ \A i \in 1..n : routed'[u][i] = routed[u][i]
      /\ \A i \in 1..n : routed[u][i] \in Int
  BY LimiterTypes, Constants
<1>3. ASSUME NEW i \in 1..(n + 1)
      PROVE  /\ (n + 1 - i + 1) * Unit + (left - Unit)
                  <= Full + (now - routed'[u][i]) * refill_per_second
             /\ (n + 1 - i + 1) * Unit <= Full + (now - routed'[u][i]) * refill_per_second
  <2>1. CASE i = n + 1
    <3>1. n + 1 - i + 1 = 1 /\ now - routed'[u][i] = 0
      BY <1>2, <2>1
    <3>2. 1 * Unit = Unit /\ 0 * refill_per_second = 0
      BY Constants
    <3> DEFINE spent == (n + 1 - i + 1) * Unit
               grown == (now - routed'[u][i]) * refill_per_second
    <3>3. spent = Unit /\ grown = 0
      BY <3>1, <3>2
    <3> HIDE DEF left, spent, grown
    <3>4. spent + (left - Unit) <= Full + grown /\ spent <= Full + grown
      BY <1>1, <3>3, Constants
    <3> QED BY <3>4 DEF spent, grown
  <2>2. CASE i \in 1..n
    <3> DEFINE spent == (n - i + 1) * Unit
               grown == (now - routed[u][i]) * refill_per_second
    <3>1. spent + left <= Full + grown
      BY <2>2, LoadIsCovered DEF Covered
    <3>2. spent \in Int /\ grown \in Int
      <4>1. n - i + 1 \in Int /\ now - routed[u][i] \in Int
        BY <1>2, <2>2
      <4> QED BY <4>1, Constants
    <3>3. (n + 1 - i + 1) * Unit = spent + Unit
      <4>1. n + 1 - i + 1 = (n - i + 1) + 1 /\ n - i + 1 \in Int
        BY <1>2, <2>2
      <4> QED BY <4>1, OneMoreTime, Constants
    <3>4. (now - routed'[u][i]) * refill_per_second = grown
      BY <1>2, <2>2
    <3> HIDE DEF left, spent, grown
    <3>5. spent + Unit + (left - Unit) <= Full + grown /\ spent + Unit <= Full + grown
      BY <1>1, <3>1, <3>2, Constants
    <3> QED BY <3>3, <3>4, <3>5
  <2> QED BY <1>2, <2>1, <2>2
<1>4. Gateway!Refilled(c)' = left - Unit
  <2>1. Gateway!Refilled(c)' = Gateway!Refilled(c)
    BY DEF Gateway!Refilled
  <2> QED BY <1>1, <2>1
<1>5. Covered(u, c)' <=> \A i \in 1..Len(routed'[u]) :
        (Len(routed'[u]) - i + 1) * Unit + Gateway!Refilled(c)'
          <= Full + (now' - routed'[u][i]) * refill_per_second
  BY DEF Covered, Full
<1> QED BY <1>2, <1>3, <1>4, <1>5

LEMMA CoveredAsBefore ==
  ASSUME NEW u \in User, now' = now, routed'[u] = routed[u], NEW b
  PROVE  Covered(u, b)' <=> Covered(u, b)
BY DEF Covered, Gateway!Refilled, Full

LEMMA AdmissionsStep ==
  ASSUME LimiterInv, [Gateway!Next]_(Gateway!vars), NEW u \in User, Gateway!OwnBucket(u)
  PROVE  AdmissionsOf(u)'
<1> USE DEF Gateway!limiter
<1>1. AdmissionsOf(u) /\ OldBucket(in_memory[key_of[u]]) /\ OldBucket(counters[file_of[u]])
  BY LimiterTypes, Constants DEF LimiterInv, AdmissionsAreCovered, BucketsAreOld, OldBucket
<1>2. \A v \in User \ {u} : file_of[v] # file_of[u] /\ key_of[v] # key_of[u]
  BY DEF Gateway!OwnBucket
<1>3. ASSUME UNCHANGED <<now, counters>>, routed'[u] = routed[u],
             in_memory'[key_of[u]] = in_memory[key_of[u]] \/ ~in_memory'[key_of[u]].present
      PROVE  AdmissionsOf(u)'
  BY <1>1, <1>3, CoveredAsBefore DEF AdmissionsOf, Full
<1>4. ASSUME NEW r \in Request, Gateway!Allow(r) \/ Gateway!SaveFails(r), sender[r] # u
      PROVE  AdmissionsOf(u)'
  <2>1. /\ UNCHANGED now /\ routed'[u] = routed[u] /\ in_memory'[key_of[u]] = in_memory[key_of[u]]
        /\ counters'[file_of[u]] = counters[file_of[u]]
    BY <1>2, <1>4, LimiterTypes, Constants DEF Gateway!Allow, Gateway!SaveFails
  <2> QED BY <1>1, <2>1, CoveredAsBefore DEF AdmissionsOf, Full
<1>5. ASSUME NEW r \in Request, Gateway!Allow(r) \/ Gateway!SaveFails(r), sender[r] = u
      PROVE  AdmissionsOf(u)'
  <2>1. PICK c : c = Gateway!Charged(u)
    OBVIOUS
  <2>2. c.present /\ Covered(u, c)
    BY <2>1, ChargedIs, ChargedIsCovered
  <2>3. CASE Gateway!SaveFails(r)
    <3>1. UNCHANGED <<now, counters, routed>> /\ in_memory'[key_of[u]] = c
      BY <1>5, <2>1, <2>3, LimiterTypes, Constants DEF Gateway!SaveFails
    <3> QED BY <1>1, <2>2, <3>1, CoveredAsBefore DEF AdmissionsOf, Full
  <2>4. CASE Gateway!Allow(r) /\ ~Gateway!Admits(u)
    <3>1. UNCHANGED <<now, routed>> /\ in_memory'[key_of[u]] = c /\ counters'[file_of[u]] = c
      BY <1>5, <2>1, <2>4, LimiterTypes, Constants DEF Gateway!Allow
    <3> QED BY <1>1, <2>2, <3>1, CoveredAsBefore DEF AdmissionsOf, Full
  <2>5. CASE Gateway!Allow(r) /\ Gateway!Admits(u)
    <3>1. /\ UNCHANGED now /\ routed' = [routed EXCEPT ![u] = Append(@, now)]
          /\ in_memory'[key_of[u]] = c /\ counters'[file_of[u]] = c
      BY <1>5, <2>1, <2>5, LimiterTypes, Constants DEF Gateway!Allow
    <3>2. /\ Covered(u, c)'
          /\ \A i \in 1..(Len(routed[u]) + 1) :
               (Len(routed[u]) + 1 - i + 1) * Unit
                 <= Full + (now - routed'[u][i]) * refill_per_second
      BY <2>1, <2>5, <3>1, AdmissionIsCovered
    <3> DEFINE n == Len(routed[u])
    <3>3. /\ n \in Nat /\ now \in Nat /\ Len(routed'[u]) = n + 1 /\ routed'[u][n + 1] = now
          /\ \A i \in 1..n : routed'[u][i] = routed[u][i]
      BY <3>1, LimiterTypes, Constants
    <3>4. ASSUME NEW i \in 1..(n + 1) PROVE routed'[u][i] <= now
      <4>1. CASE i = n + 1  BY <3>3, <4>1
      <4>2. CASE i \in 1..n  BY <1>1, <3>3, <4>2 DEF AdmissionsOf
      <4> QED BY <3>3, <4>1, <4>2
    <3>5. ASSUME NEW i \in 1..(n + 1), NEW j \in 1..(n + 1), i <= j
          PROVE  (j - i + 1) * Unit
                   <= Full + (routed'[u][j] - routed'[u][i]) * refill_per_second
      <4>1. CASE j = n + 1  BY <3>2, <3>3, <4>1
      <4>2. CASE j \in 1..n
        <5>1. i \in 1..n
          BY <3>3, <3>5, <4>2
        <5> QED BY <1>1, <3>3, <3>5, <4>2, <5>1 DEF AdmissionsOf
      <4> QED BY <3>3, <4>1, <4>2
    <3> QED BY <2>2, <3>1, <3>2, <3>3, <3>4, <3>5 DEF AdmissionsOf, Full
  <2> QED BY <1>5, <2>3, <2>4, <2>5
<1>6. CASE Gateway!Tick
  <2>1. UNCHANGED <<in_memory, counters, routed>> /\ now' = now + 1 /\ now \in Nat
    BY <1>6, LimiterTypes DEF Gateway!Tick
  <2>2. \A b : OldBucket(b) /\ Covered(u, b) => Covered(u, b)'
    BY <1>6, CoveredLater
  <2>3. \A i \in 1..Len(routed[u]) : routed[u][i] <= now'
    <3>1. \A i \in 1..Len(routed[u]) : routed[u][i] \in Int
      BY LimiterTypes, Constants
    <3> QED BY <1>1, <2>1, <3>1 DEF AdmissionsOf
  <2>4. in_memory[key_of[u]].present => Covered(u, in_memory[key_of[u]])'
    BY <1>1, <2>1, <2>2 DEF AdmissionsOf
  <2> QED BY <1>1, <2>1, <2>2, <2>3, <2>4 DEF AdmissionsOf, Full
<1>7. CASE \/ \E r \in Request : \/ Gateway!LoadFails(r) \/ Gateway!TaskDone(r) \/ Gateway!Raises(r)
                                 \/ Gateway!ReadRows(r) \/ Gateway!ReplaceRows(r)
           \/ UNCHANGED Gateway!vars
  BY <1>3, <1>7
  DEF Gateway!vars, Gateway!LoadFails, Gateway!TaskDone, Gateway!Raises, Gateway!ReadRows,
      Gateway!ReplaceRows
<1>8. CASE Gateway!Restart
  <2>1. UNCHANGED <<now, counters, routed>> /\ ~in_memory'[key_of[u]].present
    BY <1>8, Constants DEF Gateway!Restart, Gateway!None
  <2> QED BY <1>3, <2>1
<1> QED
  BY <1>4, <1>5, <1>6, <1>7, <1>8 DEF Gateway!Next, Gateway!Step, Gateway!Served

LEMMA WaitStep ==
  ASSUME LimiterInv, [Gateway!Next]_(Gateway!vars), NEW u \in User, Gateway!OwnBucket(u)
  PROVE  WaitOf(u)'
<1> USE DEF Gateway!limiter, Gateway!Goto
<1> DEFINE mine == {r \in Request : sender[r] = u}
<1> SUFFICES ASSUME \A r \in mine : at'[r] # "failed" PROVE WaitOf(u)'
  BY DEF WaitOf
<1>1. /\ AdmissionsOf(u) /\ WaitOf(u)
      /\ OldBucket(in_memory[key_of[u]]) /\ OldBucket(counters[file_of[u]])
  BY LimiterTypes, Constants
  DEF LimiterInv, AdmissionsAreCovered, WaitIsCredited, BucketsAreOld, OldBucket
<1>2. \A v \in User \ {u} : file_of[v] # file_of[u] /\ key_of[v] # key_of[u]
  BY DEF Gateway!OwnBucket
<1>3. \A r \in mine : at[r] # "failed"
  BY LimiterTypes
  DEF Gateway!Next, Gateway!Step, Gateway!Allow, Gateway!SaveFails, Gateway!LoadFails,
      Gateway!TaskDone, Gateway!Raises, Gateway!ReadRows, Gateway!ReplaceRows,
      Gateway!Tick, Gateway!Restart, Gateway!Running, Gateway!Served, Gateway!vars
<1>4. /\ in_memory[key_of[u]].present => in_memory[key_of[u]] = counters[file_of[u]]
      /\ routed[u] # <<>> =>
           \/ Saved(counters[file_of[u]]) >= Full
           \/ Saved(counters[file_of[u]])
                >= (now - routed[u][Len(routed[u])]) * refill_per_second
  BY <1>1, <1>3 DEF WaitOf
<1>5. ASSUME UNCHANGED now, routed'[u] = routed[u],
             counters'[file_of[u]] = counters[file_of[u]],
             in_memory'[key_of[u]] = in_memory[key_of[u]] \/ ~in_memory'[key_of[u]].present
      PROVE  WaitOf(u)'
  BY <1>4, <1>5 DEF WaitOf, Saved, Full
<1>6. ASSUME NEW r \in Request, Gateway!Allow(r), sender[r] = u
      PROVE  WaitOf(u)'
  <2>1. PICK c : c = Gateway!Charged(u)
    OBVIOUS
  <2>2. PICK left : left = Gateway!Refilled(Gateway!Load(u))
    OBVIOUS
  <2>3. /\ left \in 0..Full /\ Saved(c) = c.tokens /\ c.tokens \in 0..left
        /\ Gateway!Admits(u) <=> left >= Unit
        /\ c.tokens = IF left >= Unit THEN left - Unit ELSE left
    BY <2>1, <2>2, ChargedIs
  <2>4. /\ UNCHANGED now /\ in_memory'[key_of[u]] = c
        /\ counters'[file_of[u]] = c /\ Saved(c)' = Saved(c)
    BY <1>6, <2>1, LimiterTypes, Constants DEF Gateway!Allow, Saved
  <2>5. CASE Gateway!Admits(u)
    <3>1. routed'[u] = Append(routed[u], now)
      BY <1>6, <2>5, LimiterTypes DEF Gateway!Allow
    <3>2. routed'[u][Len(routed'[u])] = now
      BY <3>1, LimiterTypes
    <3>3. (now - now) * refill_per_second = 0 /\ Saved(c) >= 0
      BY <2>3, LimiterTypes, Constants
    <3> QED BY <2>4, <3>2, <3>3 DEF WaitOf
  <2>6. CASE ~Gateway!Admits(u)
    <3>1. routed'[u] = routed[u] /\ Saved(c) = left
      BY <1>6, <2>3, <2>6 DEF Gateway!Allow
    <3>2. CASE routed[u] = <<>>  BY <2>4, <3>1, <3>2 DEF WaitOf
    <3>3. CASE routed[u] # <<>>
      <4>1. Gateway!Load(u) = counters[file_of[u]]
        BY <1>1, <1>4, <3>3 DEF AdmissionsOf, Gateway!Load
      <4>2. left = IF Saved(counters[file_of[u]]) < Full THEN Saved(counters[file_of[u]]) ELSE Full
        BY <2>2, <4>1, RefilledIs
      <4>3. Saved(counters[file_of[u]]) \in Nat
        BY <1>1, RefilledIsCapped, LimiterTypes
      <4>4. \/ left >= Full
            \/ left >= (now - routed[u][Len(routed[u])]) * refill_per_second
        <5> DEFINE due == (now - routed[u][Len(routed[u])]) * refill_per_second
        <5> HIDE DEF due
        <5>1. Saved(counters[file_of[u]]) >= Full \/ Saved(counters[file_of[u]]) >= due
          BY <1>4, <3>3 DEF due
        <5>2. left >= Full \/ left >= due
          BY <4>2, <4>3, <5>1, Constants
        <5> QED BY <5>2 DEF due
      <4>5. counters'[file_of[u]] = c /\ Saved(c)' = left /\ now' = now
        BY <2>4, <3>1
      <4> QED BY <2>4, <3>1, <4>4, <4>5 DEF WaitOf, Full
    <3> QED BY <3>2, <3>3
  <2> QED BY <2>5, <2>6
<1>7. ASSUME NEW r \in Request, Gateway!Allow(r), sender[r] # u
      PROVE  WaitOf(u)'
  <2>1. /\ UNCHANGED now /\ routed'[u] = routed[u] /\ in_memory'[key_of[u]] = in_memory[key_of[u]]
        /\ counters'[file_of[u]] = counters[file_of[u]]
    BY <1>2, <1>7, LimiterTypes, Constants DEF Gateway!Allow
  <2> QED BY <1>5, <2>1
<1>8. ASSUME NEW r \in Request, Gateway!SaveFails(r)
      PROVE  WaitOf(u)'
  <2>1. r \notin mine
    BY <1>8, LimiterTypes DEF Gateway!SaveFails
  <2>2. /\ UNCHANGED <<now, counters, routed>>
        /\ in_memory'[key_of[u]] = in_memory[key_of[u]]
    BY <1>2, <1>8, <2>1, LimiterTypes, Constants DEF Gateway!SaveFails
  <2> QED BY <1>5, <2>2
<1>9. CASE Gateway!Tick
  <2>1. UNCHANGED <<in_memory, counters, routed>> /\ now' = now + 1 /\ now \in Nat
    BY <1>9, LimiterTypes DEF Gateway!Tick
  <2>2. CASE routed[u] = <<>>  BY <1>4, <2>1, <2>2 DEF WaitOf
  <2>3. CASE routed[u] # <<>>
    <3> DEFINE last  == routed[u][Len(routed[u])]
               due   == (now - last) * refill_per_second
               later == (now' - last) * refill_per_second
               kept  == Saved(counters[file_of[u]])
    <3>1. last \in Int /\ due \in Int
      BY <2>1, <2>3, LimiterTypes, Constants
    <3>2. later = due + refill_per_second
      <4>1. now' - last = (now - last) + 1 /\ now - last \in Int
        BY <2>1, <3>1
      <4> QED BY <4>1, OneMoreTime, Constants
    <3>3. kept \in Nat /\ kept' = kept + refill_per_second
      <4>1. ASSUME NEW b, OldBucket(b)
            PROVE  Saved(b) \in Nat /\ Saved(b)' = Saved(b) + refill_per_second
        BY <1>9, <4>1, CoveredLater, RefilledIsCapped, LimiterTypes
      <4> QED BY <1>1, <2>1, <4>1
    <3>4. kept >= Full \/ kept >= due
      BY <1>4, <2>3
    <3> HIDE DEF due, later, kept
    <3>5. kept' >= Full \/ kept' >= later
      BY <3>1, <3>2, <3>3, <3>4, Constants
    <3> QED BY <1>4, <2>1, <3>5 DEF WaitOf, later, kept, Full
  <2> QED BY <2>2, <2>3
<1>10. CASE \/ \E r \in Request : \/ Gateway!LoadFails(r) \/ Gateway!TaskDone(r)
                                  \/ Gateway!Raises(r)
                                  \/ Gateway!ReadRows(r) \/ Gateway!ReplaceRows(r)
            \/ UNCHANGED Gateway!vars
  BY <1>5, <1>10
  DEF Gateway!vars, Gateway!LoadFails, Gateway!TaskDone, Gateway!Raises, Gateway!ReadRows,
      Gateway!ReplaceRows
<1>11. CASE Gateway!Restart
  <2>1. UNCHANGED <<now, counters, routed>> /\ ~in_memory'[key_of[u]].present
    BY <1>11, Constants DEF Gateway!Restart, Gateway!None
  <2> QED BY <1>5, <2>1
<1> QED
  BY <1>6, <1>7, <1>8, <1>9, <1>10, <1>11 DEF Gateway!Next, Gateway!Step, Gateway!Served

LEMMA LimiterInit == Gateway!Init => LimiterInv
<1> SUFFICES ASSUME Gateway!Init PROVE LimiterInv
  OBVIOUS
<1>1. Gateway!None \in Gateway!Buckets /\ Gateway!None.last_refill = 0 /\ ~Gateway!None.present
  BY DEF Gateway!None, Gateway!Buckets
<1>2. MaxRestarts \in Nat
  BY ConstantsAssumption DEF Gateway!ConstantsOK
<1>3. Gateway!TypeOK /\ BucketsAreOld
  BY <1>1, <1>2, Constants DEF Gateway!Init, Gateway!TypeOK, Gateway!Labels, BucketsAreOld
<1>4. AdmissionsAreCovered /\ WaitIsCredited
  BY <1>1, Constants
  DEF Gateway!Init, AdmissionsAreCovered, AdmissionsOf, WaitIsCredited, WaitOf
<1> QED BY <1>3, <1>4 DEF LimiterInv

-----------------------------------------------------------------------------
(***************************************************************************)
(* Omnichannel: the conversation files.  Unless requests appended to a     *)
(* file at once, the one about to replace it read what is there.           *)
(***************************************************************************)
AreAnswers(labels, rows, f) ==
  /\ \A i, j \in 1..Len(rows) : rows[i] = rows[j] => i = j
  /\ \A i \in 1..Len(rows) : labels[rows[i]] = "answered" /\ Gateway!RowsOf(rows[i]) = f

RowsInv ==
  /\ \A f \in File : AreAnswers(at, conversation[f], f)
  /\ \A r \in Request : AreAnswers(at, existing[r], Gateway!RowsOf(r))
  /\ \A r \in Request : at[r] = "replace" /\ Gateway!RowsOf(r) \notin crowded =>
       /\ existing[r] = conversation[Gateway!RowsOf(r)]
       /\ \A s \in Request \ {r} :
            at[s] = "replace" => Gateway!RowsOf(s) # Gateway!RowsOf(r)
  /\ \A r \in Request : at[r] = "answered" =>
       \/ Gateway!RowsOf(r) \in crowded
       \/ \E i \in 1..Len(conversation[Gateway!RowsOf(r)]) :
            conversation[Gateway!RowsOf(r)][i] = r

LEMMA RowsInit == Gateway!Init => RowsInv
BY Constants DEF Gateway!Init, RowsInv, AreAnswers, Gateway!RowsOf

LEMMA RowsTypes ==
  ASSUME LimiterInv
  PROVE  /\ conversation \in [File -> Seq(Request)] /\ existing \in [Request -> Seq(Request)]
         /\ at \in [Request -> Gateway!Labels] /\ \A r \in Request : Gateway!RowsOf(r) \in File
BY Constants DEF LimiterInv, Gateway!TypeOK, Gateway!RowsOf

(* Rows stay rows: nobody takes an answer back.                            *)
LEMMA RowsStay ==
  ASSUME NEW rows \in Seq(Request), NEW f, NEW a, NEW b, AreAnswers(a, rows, f),
         \A r \in Request : a[r] = "answered" => b[r] = "answered"
  PROVE  AreAnswers(b, rows, f)
<1>1. \A i \in 1..Len(rows) : rows[i] \in Request
  OBVIOUS
<1> QED BY <1>1 DEF AreAnswers

LEMMA RowsStep ==
  ASSUME LimiterInv, RowsInv, [Gateway!Next]_(Gateway!vars)
  PROVE  RowsInv'
<1> USE RowsTypes DEF Gateway!Goto
<1>1. \A r \in Request : at[r] = "answered" => at'[r] = "answered"
  BY DEF Gateway!Next, Gateway!Step, Gateway!Allow, Gateway!SaveFails, Gateway!LoadFails,
         Gateway!TaskDone, Gateway!Raises, Gateway!ReadRows, Gateway!ReplaceRows, Gateway!Tick,
         Gateway!Restart, Gateway!Running, Gateway!Served, Gateway!vars
<1>2. \A r : Gateway!RowsOf(r)' = Gateway!RowsOf(r)
  BY DEF Gateway!RowsOf
(* A step that reads and writes no conversation.                           *)
<1>3. ASSUME UNCHANGED <<conversation, existing, crowded>>,
             \A r \in Request : at'[r] \in {"replace", "answered"} => at'[r] = at[r]
      PROVE  RowsInv'
  BY <1>1, <1>2, <1>3, RowsStay DEF RowsInv
<1>4. ASSUME NEW r \in Request,
             \/ Gateway!Allow(r) \/ Gateway!SaveFails(r)
             \/ Gateway!LoadFails(r) \/ Gateway!TaskDone(r) \/ Gateway!Raises(r)
      PROVE  RowsInv'
  BY <1>3, <1>4
  DEF Gateway!Allow, Gateway!SaveFails, Gateway!LoadFails, Gateway!TaskDone, Gateway!Raises
<1>5. CASE Gateway!Tick \/ Gateway!Restart \/ UNCHANGED Gateway!vars
  BY <1>3, <1>5 DEF Gateway!Tick, Gateway!Restart, Gateway!Running, Gateway!vars
<1>6. ASSUME NEW r \in Request, Gateway!ReadRows(r)
      PROVE  RowsInv'
  <2> DEFINE f == Gateway!RowsOf(r)
  <2>1. /\ at[r] = "append" /\ at' = [at EXCEPT ![r] = "replace"]
        /\ existing' = [existing EXCEPT ![r] = conversation[f]] /\ UNCHANGED conversation
        /\ crowded \subseteq crowded'
        /\ \A s \in Request : at[s] = "replace" /\ Gateway!RowsOf(s) = f => f \in crowded'
    BY <1>6 DEF Gateway!ReadRows
  <2>2. \A g \in File : AreAnswers(at', conversation'[g], g)
    BY <1>1, <2>1, RowsStay DEF RowsInv
  <2>3. \A s \in Request : AreAnswers(at', existing'[s], Gateway!RowsOf(s))
    BY <1>1, <1>2, <2>1, RowsStay DEF RowsInv
  <2>4. \A s \in Request : at'[s] = "answered" => at[s] = "answered"
    BY <2>1
  <2> QED BY <1>2, <2>1, <2>2, <2>3, <2>4 DEF RowsInv
<1>7. ASSUME NEW r \in Request, Gateway!ReplaceRows(r)
      PROVE  RowsInv'
  <2> DEFINE f == Gateway!RowsOf(r)
             rows == Append(existing[r], r)
             n == Len(existing[r])
  <2>1. /\ at[r] = "replace" /\ at' = [at EXCEPT ![r] = "answered"]
        /\ conversation' = [conversation EXCEPT ![f] = rows]
        /\ UNCHANGED <<existing, crowded>>
    BY <1>7 DEF Gateway!ReplaceRows, Gateway!WithRow
  <2>2. /\ rows \in Seq(Request) /\ n \in Nat /\ Len(rows) = n + 1 /\ rows[n + 1] = r
        /\ \A i \in 1..n : rows[i] = existing[r][i] /\ rows[i] \in Request
    OBVIOUS
  <2>3. AreAnswers(at', rows, f)
    <3>1. \A i \in 1..n : at[rows[i]] = "answered" /\ Gateway!RowsOf(rows[i]) = f
      BY <2>2 DEF RowsInv, AreAnswers
    <3>2. \A i, j \in 1..n : rows[i] = rows[j] => i = j
      BY <2>2 DEF RowsInv, AreAnswers
    <3>3. \A i \in 1..n : rows[i] # r
      BY <2>1, <3>1
    <3>4. \A i, j \in 1..(n + 1) : rows[i] = rows[j] => i = j
      BY <2>2, <3>2, <3>3
    <3>5. \A i \in 1..(n + 1) : at'[rows[i]] = "answered" /\ Gateway!RowsOf(rows[i]) = f
      BY <1>1, <2>1, <2>2, <3>1
    <3> QED BY <1>2, <2>2, <3>4, <3>5 DEF AreAnswers
  <2>4. \A g \in File : AreAnswers(at', conversation'[g], g)
    BY <1>1, <1>2, <2>1, <2>3, RowsStay DEF RowsInv
  <2>5. \A s \in Request : AreAnswers(at', existing'[s], Gateway!RowsOf(s))
    BY <1>1, <1>2, <2>1, RowsStay DEF RowsInv
  <2>6. \A s \in Request : at'[s] = "replace" /\ Gateway!RowsOf(s) \notin crowded' =>
          /\ existing'[s] = conversation'[Gateway!RowsOf(s)]
          /\ \A t \in Request \ {s} :
               at'[t] = "replace" => Gateway!RowsOf(t) # Gateway!RowsOf(s)
    BY <2>1 DEF RowsInv
  <2>7. ASSUME NEW s \in Request, at'[s] = "answered", Gateway!RowsOf(s) \notin crowded'
        PROVE  \E i \in 1..Len(conversation'[Gateway!RowsOf(s)]) :
                 conversation'[Gateway!RowsOf(s)][i] = s
    <3>1. CASE s = r
      <4>1. conversation'[Gateway!RowsOf(s)] = rows
        BY <2>1, <3>1
      <4> QED BY <2>2, <3>1, <4>1
    <3>2. CASE s # r
      <4>1. at[s] = "answered" /\ Gateway!RowsOf(s) \notin crowded
        BY <2>1, <2>7, <3>2
      <4>2. PICK i \in 1..Len(conversation[Gateway!RowsOf(s)]) :
              conversation[Gateway!RowsOf(s)][i] = s
        BY <4>1 DEF RowsInv
      <4>3. CASE Gateway!RowsOf(s) # f
        <5>1. conversation'[Gateway!RowsOf(s)] = conversation[Gateway!RowsOf(s)]
          BY <2>1, <4>3
        <5> QED BY <4>2, <5>1
      <4>4. CASE Gateway!RowsOf(s) = f
        <5>1. existing[r] = conversation[f]
          BY <2>1, <4>1, <4>4 DEF RowsInv
        <5>2. i \in 1..n /\ rows[i] = s /\ conversation'[Gateway!RowsOf(s)] = rows
          BY <2>1, <2>2, <4>2, <4>4, <5>1
        <5>3. 1..n \subseteq 1..Len(rows)
          BY <2>2
        <5> HIDE DEF rows, n
        <5> QED BY <5>2, <5>3
      <4> QED BY <4>3, <4>4
    <3> QED BY <3>1, <3>2
  <2> QED BY <1>2, <2>4, <2>5, <2>6, <2>7 DEF RowsInv
<1> QED
  BY <1>4, <1>5, <1>6, <1>7 DEF Gateway!Next, Gateway!Step, Gateway!Served

LEMMA GatewayInvariance == Spec => [](part = "gateway" => LimiterInv /\ RowsInv)
<1>1. Init => (part = "gateway" => LimiterInv /\ RowsInv)
  BY LimiterInit, RowsInit DEF Init
<1>2. LimiterInv /\ RowsInv /\ [Gateway!Next]_(Gateway!vars) => (LimiterInv /\ RowsInv)'
  <2>1. LimiterInv /\ [Gateway!Next]_(Gateway!vars) => LimiterInv'
    BY GatewayTypesStep, AdmissionsStep, WaitStep
    DEF LimiterInv, AdmissionsAreCovered, WaitIsCredited, Gateway!OwnBucket
  <2> QED BY <2>1, RowsStep
<1>3. /\ part = "gateway" => LimiterInv /\ RowsInv
      /\ [Next]_vars
      => (part = "gateway" => LimiterInv /\ RowsInv)'
  BY <1>2 DEF Next, vars, gateway, Gateway!vars, Gateway!limiter
<1> QED BY <1>1, <1>3, PTL DEF Spec

(* For every capacity, refill and number of restarts, no user whose file   *)
(* and key in memory are his own is admitted more often than the limit     *)
(* allows.                                                                 *)
THEOREM BurstsStayBounded == Spec => []BurstsAreBounded
<1>1. (part = "gateway" => LimiterInv /\ RowsInv) => BurstsAreBounded
  <2> SUFFICES ASSUME LimiterInv, NEW u \in User, NEW i \in DOMAIN routed[u],
                      NEW j \in DOMAIN routed[u], Gateway!OwnBucket(u), i <= j
               PROVE  (j - i + 1) * Unit
                        <= Full + (routed[u][j] - routed[u][i]) * refill_per_second
    BY DEF BurstsAreBounded, Gateway!BurstsAreBounded, Full
  <2>1. DOMAIN routed[u] = 1..Len(routed[u])
    BY LimiterTypes
  <2> QED BY <2>1 DEF LimiterInv, AdmissionsAreCovered, AdmissionsOf
<1> QED BY <1>1, GatewayInvariance, PTL

(* ... and who waits long enough for a token gets one.                     *)
THEOREM WaitIsRewarded == Spec => []PatienceIsServed
<1>1. (part = "gateway" => LimiterInv /\ RowsInv) => PatienceIsServed
  <2> SUFFICES ASSUME LimiterInv, NEW u \in User, routed[u] # <<>>, Gateway!OwnBucket(u),
                      (now - routed[u][Len(routed[u])]) * refill_per_second >= Unit,
                      \A r \in Request : sender[r] = u => at[r] # "failed"
               PROVE  Gateway!Admits(u)
    BY DEF PatienceIsServed, Gateway!PatienceIsServed, Gateway!Last
  <2> DEFINE due  == (now - routed[u][Len(routed[u])]) * refill_per_second
             kept == Saved(counters[file_of[u]])
  <2>1. AdmissionsOf(u) /\ WaitOf(u) /\ OldBucket(counters[file_of[u]])
    BY LimiterTypes, Constants
    DEF LimiterInv, AdmissionsAreCovered, WaitIsCredited, BucketsAreOld, OldBucket
  <2>2. Gateway!Load(u) = counters[file_of[u]]
    BY <2>1 DEF AdmissionsOf, WaitOf, Gateway!Load
  <2>3. Gateway!Refilled(Gateway!Load(u)) = IF kept < Full THEN kept ELSE Full
    BY <2>2, RefilledIs
  <2>4. (kept >= Full \/ kept >= due) /\ kept \in Nat
    BY <2>1, RefilledIsCapped, LimiterTypes DEF WaitOf
  <2>5. due >= Unit /\ due \in Int
    BY LimiterTypes, Constants
  <2> HIDE DEF due, kept
  <2> QED BY <2>3, <2>4, <2>5, Constants DEF Gateway!Admits
<1> QED BY <1>1, GatewayInvariance, PTL

(* An answer is lost from a conversation only where two requests appended  *)
(* to its file at once, and no row is there twice or in a file of another. *)
THEOREM RowsAreLostByOverlapOnly == Spec => []RowsLostByOverlapOnly
<1>1. (part = "gateway" => LimiterInv /\ RowsInv) => RowsLostByOverlapOnly
  <2> SUFFICES ASSUME LimiterInv, RowsInv PROVE Gateway!RowsLostByOverlapOnly
    BY DEF RowsLostByOverlapOnly
  <2>1. \A r \in Request : at[r] = "answered" =>
          \/ Gateway!Contains(conversation[Gateway!RowsOf(r)], r)
          \/ Gateway!RowsOf(r) \in crowded
    BY DEF RowsInv, Gateway!Contains
  <2>2. ASSUME NEW f \in File
        PROVE  /\ Gateway!IsInjective(conversation[f])
               /\ \A r \in Gateway!ToSet(conversation[f]) :
                    Gateway!RowsOf(r) = f /\ at[r] = "answered"
    <3>1. DOMAIN conversation[f] = 1..Len(conversation[f])
      BY DEF LimiterInv, Gateway!TypeOK
    <3> QED
      BY <3>1 DEF RowsInv, AreAnswers, Gateway!IsInjective, Gateway!ToSet
  <2> QED BY <2>1, <2>2 DEF Gateway!RowsLostByOverlapOnly
<1> QED BY <1>1, GatewayInvariance, PTL

-----------------------------------------------------------------------------
(***************************************************************************)
(* Cassette.  A recording is what a client was given for going on: after   *)
(* all its interactions but the last, another hop, another attempt or      *)
(* another page.  A replay plays them in order, so it is at most as far as *)
(* the recording was, and where the recording ended it ends.               *)
(***************************************************************************)
Continues(x, c) ==
  \/ x.resp.status = "busy"
  \/ x.resp.status = "redirect" /\ c.redirects
  \/ x.resp.status = "ok" /\ ~x.resp.last /\ c.follow /\ x.page < MaxFollowed

Final(x, c) == x.resp.status = "ok" /\ (x.resp.last \/ ~c.follow)

(* The page to ask for after the first k interactions of a tape.           *)
PageAt(tape, k) ==
  IF k = 0 THEN 1
  ELSE IF tape[k].resp.status = "ok" THEN tape[k].page + 1 ELSE tape[k].page

IsTape(tape, c, got) ==
  /\ \A k \in 1..Len(tape) : tape[k].url = c.url /\ tape[k].page = PageAt(tape, k - 1)
  /\ \A k \in 1..Len(tape) : tape[k].resp.status = "ok" =>
       tape[k].page \in 1..Len(got) /\ got[tape[k].page] = tape[k].resp.body
  /\ Len(got) + 1 = PageAt(tape, Len(tape))

(* The client goes on after each of the first n interactions.              *)
GoesOn(tape, c, n) == \A k \in 1..n : Continues(tape[k], c)

(* Where a client is on a page: in which attempt, behind how many          *)
(* redirects, and where they led.                                          *)
Positions == [attempt : Nat, hops : Nat, place : Tapes!Place]

Position(r) == [attempt |-> r.attempt, hops |-> r.hops, place |-> r.place]

(* From p, x leads to q, or would if no request error used up attempts.    *)
Moves(x, p, q) ==
  IF x.resp.status = "ok" THEN q.hops = 0 /\ q.place = "start"
  ELSE IF x.resp.status = "redirect" /\ p.hops < MaxRedirects
  THEN q.attempt >= p.attempt /\ q.hops = p.hops + 1 /\ q.place = x.resp.to
  ELSE q.attempt >= p.attempt + 1 /\ q.hops = 0 /\ q.place = "start"

(* The k-th interaction of a tape was asked for at at[k]; the first n led  *)
(* from there to the next.                                                 *)
Paced(tape, c, asked, n) ==
  /\ asked \in [Nat -> Positions]
  /\ asked[1].hops = 0 /\ asked[1].place = "start"
  /\ \A k \in 1..Len(tape) : asked[k].place = tape[k].place /\ asked[k].attempt < c.retries
  /\ \A k \in 1..n : Moves(tape[k], asked[k], asked[k + 1])

IsRecording(rec) ==
  /\ IsTape(rec.tape, rec.by, rec.got)
  /\ GoesOn(rec.tape, rec.by, Len(rec.tape) - 1)
  /\ rec.ok <=> Len(rec.tape) > 0 /\ Final(rec.tape[Len(rec.tape)], rec.by)
  /\ ~rec.interrupted => \E asked : Paced(rec.tape, rec.by, asked, Len(rec.tape) - 1)

(* A command that records; its attempts count also the request errors,     *)
(* which are not on the tape.                                              *)
RecordsWell(r) ==
  /\ r.at = "record" =>
       /\ r.recording
       /\ ~r.ok
       /\ r.attempt < r.cmd.retries
       /\ Len(r.got) < MaxFollowed
       /\ r.hops = 0 => r.place = "start"
       /\ IsTape(r.tape, r.cmd, r.got)
       /\ GoesOn(r.tape, r.cmd, Len(r.tape))
       /\ ~r.interrupted => \E asked : /\ Paced(r.tape, r.cmd, asked, Len(r.tape))
                                       /\ asked[Len(r.tape) + 1] = Position(r)
  /\ r.at = "saving" => r.recording
  /\ r.at \in {"close", "saving"} /\ r.recording => IsRecording(Tapes!Recorded(r))

(* No answer of the recording is undecodable, no request error made it ask *)
(* for a page again behind a redirect, and it is of these requests.        *)
Faithful(r) ==
  /\ Tapes!RequestOf(r.cmd) = r.source.by
  /\ \A k \in DOMAIN r.source.tape : ~r.source.tape[k].resp.zip
  /\ ~r.source.interrupted

ReplaysWell(r) ==
  /\ r.at = "replay" => ~r.recording /\ ~r.ok /\ r.source # Tapes!Absent
  /\ r.at \in {"replay", "close", "done"} /\ ~r.recording /\ r.source # Tapes!Absent =>
       /\ r.tape = r.source.tape
       /\ IsRecording(r.source)
       /\ r.i \in 0..Len(r.tape)
       /\ Len(r.got) <= Len(r.source.got)
       /\ \A k \in 1..Len(r.got) : r.got[k] = r.source.got[k]
       /\ r.ok => r.source.by.url = r.cmd.url /\ Tapes!PageNo(r) = PageAt(r.tape, r.i)
       /\ r.ok /\ r.at = "done" => r.i = Len(r.tape)

(* The replay is where the recording was, in the same attempt or earlier.  *)
InStep(r, asked) ==
  /\ Paced(r.tape, r.source.by, asked, Len(r.tape) - 1)
  /\ r.i < Len(r.tape) => /\ r.attempt <= asked[r.i + 1].attempt
                          /\ r.hops = asked[r.i + 1].hops
                          /\ r.place = asked[r.i + 1].place

KeepsPace(r) ==
  r.at \in {"replay", "close", "done"} /\ ~r.recording /\ r.source # Tapes!Absent /\ Faithful(r) =>
    /\ r.at = "replay" =>
         /\ Tapes!PageNo(r) = PageAt(r.tape, r.i)
         /\ \A k \in 1..r.i : Continues(r.tape[k], r.cmd)
         /\ \E asked : InStep(r, asked)
    /\ r.at # "replay" => r.ok = r.source.ok /\ (r.ok => r.i = Len(r.tape))

TapesInv ==
  /\ Tapes!TypeOK
  /\ Tapes!Saved => IsRecording(file)
  /\ \A p \in Process : RecordsWell(run[p]) /\ ReplaysWell(run[p]) /\ KeepsPace(run[p])

LEMMA TapeConstants ==
  /\ MaxFollowed \in Nat \ {0} /\ MaxAttempts \in Nat \ {0} /\ MaxRedirects \in Nat
  /\ Encoding \subseteq BOOLEAN
BY ConstantsAssumption DEF Tapes!ConstantsOK

LEMMA TapesInit == Tapes!Init => TapesInv
<1> SUFFICES ASSUME Tapes!Init PROVE TapesInv
  OBVIOUS
<1>1. \A p \in Process : run[p] = Tapes!Idle /\ run[p].at = "idle"
  BY DEF Tapes!Init, Tapes!Idle
<1>2. Tapes!TypeOK /\ ~Tapes!Saved
  BY DEF Tapes!Init, Tapes!TypeOK, Tapes!Saved
<1>3. \A p \in Process : RecordsWell(run[p]) /\ ReplaysWell(run[p]) /\ KeepsPace(run[p])
  BY <1>1 DEF RecordsWell, ReplaysWell, KeepsPace
<1> QED BY <1>2, <1>3 DEF TapesInv

LEMMA Busy ==
  ASSUME Tapes!TypeOK, NEW p \in Process, run[p].at # "idle"
  PROVE  run[p] \in Tapes!Runs
BY DEF Tapes!TypeOK, Tapes!Idle

LEMMA CommandTypes ==
  ASSUME NEW c \in Tapes!Command
  PROVE  /\ c.follow \in BOOLEAN /\ c.redirects \in BOOLEAN /\ c.url \in Url
         /\ c.retries \in 1..MaxAttempts /\ c.retries \in Nat \ {0}
         /\ Tapes!RequestOf(c) \in Tapes!Requests
<1>1. /\ c.follow \in BOOLEAN /\ c.redirects \in BOOLEAN /\ c.url \in Url
      /\ c.retries \in 1..MaxAttempts \cup {1}
  BY DEF Tapes!Command
<1>2. c.retries \in 1..MaxAttempts /\ c.retries \in Nat \ {0}
  BY <1>1, TapeConstants
<1> QED BY <1>1, <1>2 DEF Tapes!RequestOf, Tapes!Requests

LEMMA RunTypes ==
  ASSUME NEW r \in Tapes!Runs
  PROVE  /\ r.cmd \in Tapes!Command /\ r.tape \in Seq(Tapes!Interaction)
         /\ r.i \in Nat /\ r.attempt \in Nat /\ r.got \in Seq(Body)
         /\ r.hops \in 0..MaxRedirects /\ r.hops \in Nat /\ r.place \in Tapes!Place
         /\ r.ok \in BOOLEAN /\ r.recording \in BOOLEAN /\ r.interrupted \in BOOLEAN
         /\ r.source \in Tapes!Recording \cup {Tapes!Absent}
         /\ Tapes!PageNo(r) = Len(r.got) + 1
         /\ Len(r.tape) \in Nat /\ Len(r.got) \in Nat
         /\ Position(r) \in Positions
BY TapeConstants DEF Tapes!Runs, Tapes!PageNo, Position, Positions

LEMMA AnswerTypes ==
  ASSUME NEW resp \in Tapes!Response
  PROVE  /\ resp.status \in {"ok", "busy", "bad", "redirect"} /\ resp.zip \in BOOLEAN
         /\ resp.status = "ok" => resp.body \in Body /\ resp.last \in BOOLEAN
         /\ resp.status = "redirect" => resp.to \in Tapes!Place
BY TapeConstants DEF Tapes!Response

(* What does not change in an attempt.                                     *)
SameCommand(r, s) ==
  /\ s.recording = r.recording /\ s.cmd = r.cmd /\ s.tape = r.tape /\ s.i = r.i
  /\ s.source = r.source /\ s.found = r.found /\ s.interrupted = r.interrupted

(* The client goes on from r to position p, with the same pages.           *)
GoesTo(r, s, p) == s.at = r.at /\ s.ok = r.ok /\ s.got = r.got /\ Position(s) = p

(* Another attempt, or the last one failed.                                *)
LEMMA AgainIs ==
  ASSUME NEW r \in Tapes!Runs
  PROVE  LET s == Tapes!AgainOrFail(r)
         IN  /\ s \in Tapes!Runs /\ SameCommand(r, s) /\ s.got = r.got
             /\ r.attempt + 1 < r.cmd.retries =>
                  GoesTo(r, s, [attempt |-> r.attempt + 1, hops |-> 0, place |-> "start"])
             /\ ~(r.attempt + 1 < r.cmd.retries) => s.at = "close" /\ ~s.ok
<1>1. r.cmd.retries \in 1..MaxAttempts /\ r.attempt \in 0..MaxAttempts - 1
  BY CommandTypes DEF Tapes!Runs
<1>2. CASE r.attempt + 1 < r.cmd.retries
  <2>1. Tapes!AgainOrFail(r) =
          [r EXCEPT !.hops = 0, !.place = "start", !.attempt = r.attempt + 1]
    BY <1>2 DEF Tapes!AgainOrFail, Tapes!FirstHop, Tapes!Runs
  <2>2. r.attempt + 1 \in 0..MaxAttempts - 1 /\ 0 \in 0..MaxRedirects
    BY <1>1, <1>2, TapeConstants
  <2> QED BY <1>2, <2>1, <2>2 DEF SameCommand, GoesTo, Position, Tapes!Runs, Tapes!Place
<1>3. CASE ~(r.attempt + 1 < r.cmd.retries)
  <2>1. Tapes!AgainOrFail(r) = [r EXCEPT !.at = "close", !.ok = FALSE]
    BY <1>3 DEF Tapes!AgainOrFail, Tapes!Ended
  <2> QED BY <1>3, <2>1 DEF SameCommand, Tapes!Runs
<1> QED BY <1>2, <1>3

(* The next hop, or, behind too many, another attempt.                     *)
LEMMA RedirectedIs ==
  ASSUME NEW r \in Tapes!Runs, NEW place \in Tapes!Place
  PROVE  LET s == Tapes!Redirected(r, place)
         IN  /\ r.hops < MaxRedirects =>
                  /\ s \in Tapes!Runs /\ SameCommand(r, s)
                  /\ GoesTo(r, s, [attempt |-> r.attempt, hops |-> r.hops + 1, place |-> place])
             /\ ~(r.hops < MaxRedirects) => s = Tapes!AgainOrFail(r)
<1>1. CASE r.hops < MaxRedirects
  <2>1. Tapes!Redirected(r, place) = [r EXCEPT !.hops = r.hops + 1, !.place = place]
    BY <1>1 DEF Tapes!Redirected, Tapes!Runs
  <2>2. r.hops + 1 \in 0..MaxRedirects
    BY <1>1, RunTypes, TapeConstants
  <2> QED BY <1>1, <2>1, <2>2 DEF SameCommand, GoesTo, Position, Tapes!Runs
<1>2. CASE ~(r.hops < MaxRedirects)
  BY <1>2 DEF Tapes!Redirected
<1> QED BY <1>1, <1>2

LEMMA EndedIs ==
  ASSUME NEW r \in Tapes!Runs, NEW ok \in BOOLEAN
  PROVE  LET s == Tapes!Ended(r, ok)
         IN  /\ s \in Tapes!Runs /\ SameCommand(r, s) /\ s.got = r.got
             /\ s.at = "close" /\ s.ok = ok
BY DEF Tapes!Ended, SameCommand, Tapes!Runs

LEMMA WithPageIs ==
  ASSUME NEW r \in Tapes!Runs, NEW b \in Body
  PROVE  LET s == Tapes!WithPage(r, b)
         IN  /\ s \in Tapes!Runs /\ SameCommand(r, s) /\ s.got = Append(r.got, b)
             /\ s.at = r.at /\ s.ok = r.ok
             /\ Position(s) = [attempt |-> 0, hops |-> 0, place |-> "start"]
<1>1. Append(r.got, b) \in Seq(Body) /\ 0 \in 0..MaxAttempts - 1 /\ 0 \in 0..MaxRedirects
  BY RunTypes, TapeConstants
<1>2. Tapes!WithPage(r, b) =
        [r EXCEPT !.hops = 0, !.place = "start", !.got = Append(r.got, b), !.attempt = 0]
  BY DEF Tapes!WithPage, Tapes!FirstHop, Tapes!Runs
<1> QED BY <1>1, <1>2 DEF SameCommand, Position, Tapes!Runs, Tapes!Place

(* What an answer makes of a command: it goes on ...                       *)
FailsAttempt(r, resp) ==
  \/ resp.status = "busy"
  \/ resp.status = "redirect" /\ r.cmd.redirects /\ ~(r.hops < MaxRedirects)

Advances(r, resp, s) ==
  \/ /\ FailsAttempt(r, resp) /\ r.attempt + 1 < r.cmd.retries
     /\ GoesTo(r, s, [attempt |-> r.attempt + 1, hops |-> 0, place |-> "start"])
  \/ /\ resp.status = "redirect" /\ r.cmd.redirects /\ r.hops < MaxRedirects
     /\ GoesTo(r, s, [attempt |-> r.attempt, hops |-> r.hops + 1, place |-> resp.to])
  \/ /\ resp.status = "ok" /\ ~resp.last /\ r.cmd.follow /\ Tapes!PageNo(r) # MaxFollowed
     /\ s.at = r.at /\ s.ok = r.ok /\ s.got = Append(r.got, resp.body)
     /\ Position(s) = [attempt |-> 0, hops |-> 0, place |-> "start"]

(* ... or ends.                                                            *)
Ends(r, resp, s) ==
  /\ s.at = "close"
  /\ \/ /\ \/ resp.status = "bad"
           \/ resp.status = "redirect" /\ ~r.cmd.redirects
           \/ FailsAttempt(r, resp) /\ ~(r.attempt + 1 < r.cmd.retries)
        /\ ~s.ok /\ s.got = r.got
     \/ /\ resp.status = "ok" /\ ~resp.last /\ r.cmd.follow /\ Tapes!PageNo(r) = MaxFollowed
        /\ ~s.ok /\ s.got = Append(r.got, resp.body)
     \/ /\ resp.status = "ok" /\ (resp.last \/ ~r.cmd.follow)
        /\ s.ok /\ s.got = Append(r.got, resp.body)

LEMMA ReceivedIs ==
  ASSUME NEW r \in Tapes!Runs, NEW resp \in Tapes!Response
  PROVE  LET s == Tapes!Received(r, resp)
         IN  /\ s \in Tapes!Runs /\ SameCommand(r, s)
             /\ Advances(r, resp, s) \/ Ends(r, resp, s)
<1> DEFINE s == Tapes!Received(r, resp)
           t == Tapes!WithPage(r, resp.body)
           again == Tapes!AgainOrFail(r)
<1>1. ASSUME s = again, FailsAttempt(r, resp)
      PROVE  s \in Tapes!Runs /\ SameCommand(r, s) /\ (Advances(r, resp, s) \/ Ends(r, resp, s))
  <2>1. /\ again \in Tapes!Runs /\ SameCommand(r, again) /\ again.got = r.got
        /\ r.attempt + 1 < r.cmd.retries =>
             GoesTo(r, again, [attempt |-> r.attempt + 1, hops |-> 0, place |-> "start"])
        /\ ~(r.attempt + 1 < r.cmd.retries) => again.at = "close" /\ ~again.ok
    BY AgainIs
  <2> QED BY <1>1, <2>1 DEF Advances, Ends
<1>2. CASE resp.status = "busy"
  <2>1. s = again
    BY <1>2 DEF Tapes!Received
  <2> QED BY <1>1, <1>2, <2>1 DEF FailsAttempt
<1>3. CASE resp.status = "bad" \/ (resp.status = "redirect" /\ ~r.cmd.redirects)
  <2>1. s = Tapes!Ended(r, FALSE)
    BY <1>3 DEF Tapes!Received
  <2> QED BY <1>3, <2>1, EndedIs DEF Ends
<1>4. CASE resp.status = "redirect" /\ r.cmd.redirects
  <2>1. s = Tapes!Redirected(r, resp.to) /\ resp.to \in Tapes!Place
    BY <1>4, AnswerTypes DEF Tapes!Received
  <2>2. CASE r.hops < MaxRedirects
    BY <1>4, <2>1, <2>2, RedirectedIs DEF Advances
  <2>3. CASE ~(r.hops < MaxRedirects)
    BY <1>1, <1>4, <2>1, <2>3, RedirectedIs DEF FailsAttempt
  <2> QED BY <2>2, <2>3
<1>5. CASE resp.status = "ok"
  <2>1. /\ t \in Tapes!Runs /\ SameCommand(r, t) /\ t.got = Append(r.got, resp.body)
        /\ t.at = r.at /\ t.ok = r.ok
        /\ Position(t) = [attempt |-> 0, hops |-> 0, place |-> "start"]
    BY <1>5, AnswerTypes, WithPageIs
  <2>2. resp.last \in BOOLEAN /\ r.cmd.follow \in BOOLEAN
    BY <1>5, AnswerTypes, RunTypes, CommandTypes
  <2> HIDE DEF t
  <2>3. CASE resp.last \/ ~r.cmd.follow
    <3>1. s = Tapes!Ended(t, TRUE)
      BY <1>5, <2>3 DEF Tapes!Received, t
    <3> HIDE DEF s
    <3>2. s \in Tapes!Runs /\ SameCommand(t, s) /\ s.got = t.got /\ s.at = "close" /\ s.ok
      BY <2>1, <3>1, EndedIs
    <3> QED BY <1>5, <2>1, <2>3, <3>2 DEF Ends, SameCommand, s
  <2>4. CASE ~resp.last /\ r.cmd.follow /\ Tapes!PageNo(r) = MaxFollowed
    <3>1. s = Tapes!Ended(t, FALSE)
      BY <1>5, <2>4 DEF Tapes!Received, t
    <3> HIDE DEF s
    <3>2. s \in Tapes!Runs /\ SameCommand(t, s) /\ s.got = t.got /\ s.at = "close" /\ ~s.ok
      BY <2>1, <3>1, EndedIs
    <3> QED BY <1>5, <2>1, <2>4, <3>2 DEF Ends, SameCommand, s
  <2>5. CASE ~resp.last /\ r.cmd.follow /\ Tapes!PageNo(r) # MaxFollowed
    <3>1. s = t
      BY <1>5, <2>5 DEF Tapes!Received, t
    <3> QED BY <1>5, <2>1, <2>5, <3>1 DEF Advances
  <2> QED BY <2>2, <2>3, <2>4, <2>5
<1>6. r.cmd.redirects \in BOOLEAN
  BY RunTypes, CommandTypes
<1> QED BY <1>2, <1>3, <1>4, <1>5, <1>6, AnswerTypes

LEMMA InteractionTypes ==
  ASSUME NEW x \in Tapes!Interaction
  PROVE  /\ x.resp \in Tapes!Response /\ x.page \in 1..MaxFollowed /\ x.page \in Nat
         /\ x.place \in Tapes!Place
         /\ x.resp.status \in {"ok", "busy", "bad", "redirect"}
         /\ x.resp.status = "ok" => x.resp.body \in Body /\ x.resp.last \in BOOLEAN
BY AnswerTypes, TapeConstants DEF Tapes!Interaction

LEMMA AppendIs ==
  ASSUME NEW S, NEW tape \in Seq(S), NEW x \in S
  PROVE  /\ Append(tape, x) \in Seq(S) /\ Len(tape) \in Nat
         /\ Len(Append(tape, x)) = Len(tape) + 1
         /\ Append(tape, x)[Len(tape) + 1] = x
         /\ \A k \in 1..Len(tape) : Append(tape, x)[k] = tape[k] /\ tape[k] \in S
OBVIOUS

LEMMA TapeGrows ==
  ASSUME NEW tape \in Seq(Tapes!Interaction), NEW c, NEW got \in Seq(Body),
         IsTape(tape, c, got),
         NEW x \in Tapes!Interaction, x.url = c.url, x.page = Len(got) + 1,
         NEW got2, got2 = IF x.resp.status = "ok" THEN Append(got, x.resp.body) ELSE got
  PROVE  IsTape(Append(tape, x), c, got2)
<1> DEFINE n == Len(tape)
           longer == Append(tape, x)
<1>1. /\ n \in Nat /\ Len(longer) = n + 1 /\ longer[n + 1] = x
      /\ \A k \in 1..n : longer[k] = tape[k] /\ tape[k] \in Tapes!Interaction
  BY AppendIs
<1>2. Len(got) \in Nat /\ x.page = PageAt(tape, n)
  BY DEF IsTape
<1>3. /\ Len(got2) = IF x.resp.status = "ok" THEN Len(got) + 1 ELSE Len(got)
      /\ \A k \in 1..Len(got) : got2[k] = got[k]
      /\ x.resp.status = "ok" => got2[Len(got) + 1] = x.resp.body
  BY InteractionTypes, AppendIs
<1> HIDE DEF longer, n
<1>4. \A k \in 1..(n + 1) : PageAt(longer, k - 1) = PageAt(tape, k - 1)
  BY <1>1 DEF PageAt
<1>5. \A k \in 1..(n + 1) : longer[k].url = c.url /\ longer[k].page = PageAt(longer, k - 1)
  <2> TAKE k \in 1..(n + 1)
  <2>1. CASE k \in 1..n
    BY <1>1, <1>4, <2>1 DEF IsTape, n
  <2>2. CASE k = n + 1
    <3>1. k - 1 = n
      BY <1>1, <2>2
    <3> QED BY <1>1, <1>2, <1>4, <2>2, <3>1
  <2> QED BY <1>1, <2>1, <2>2
<1>6. ASSUME NEW k \in 1..(n + 1), longer[k].resp.status = "ok"
      PROVE  longer[k].page \in 1..Len(got2) /\ got2[longer[k].page] = longer[k].resp.body
  <2>1. CASE k \in 1..n
    <3>1. tape[k].page \in 1..Len(got) /\ got[tape[k].page] = tape[k].resp.body
      BY <1>1, <1>6, <2>1 DEF IsTape, n
    <3> QED BY <1>1, <1>2, <1>3, <2>1, <3>1
  <2>2. CASE k = n + 1
    BY <1>1, <1>2, <1>3, <1>6, <2>2
  <2> QED BY <1>1, <2>1, <2>2
<1>7. Len(got2) + 1 = PageAt(longer, n + 1)
  BY <1>1, <1>2, <1>3 DEF PageAt
<1>8. IsTape(longer, c, got2)
  BY <1>1, <1>5, <1>6, <1>7 DEF IsTape
<1> QED BY <1>8 DEF longer

LEMMA LongerGoesOn ==
  ASSUME NEW tape \in Seq(Tapes!Interaction), NEW c, GoesOn(tape, c, Len(tape)),
         NEW x \in Tapes!Interaction
  PROVE  /\ GoesOn(Append(tape, x), c, Len(tape))
         /\ Continues(x, c) => GoesOn(Append(tape, x), c, Len(tape) + 1)
<1> DEFINE n == Len(tape)
           longer == Append(tape, x)
<1>1. /\ n \in Nat /\ longer[n + 1] = x
      /\ \A k \in 1..n : longer[k] = tape[k]
  BY AppendIs
<1> HIDE DEF longer
<1>2. GoesOn(longer, c, n)
  BY <1>1 DEF GoesOn
<1>3. ASSUME Continues(x, c), NEW k \in 1..(n + 1) PROVE Continues(longer[k], c)
  <2>1. CASE k = n + 1  BY <1>1, <1>3, <2>1
  <2>2. CASE k \in 1..n  BY <1>2, <2>2 DEF GoesOn
  <2> QED BY <1>1, <2>1, <2>2
<1>4. Continues(x, c) => GoesOn(longer, c, n + 1)
  BY <1>3 DEF GoesOn
<1> QED BY <1>2, <1>4 DEF longer

(* An interaction asked for where the client was ...                       *)
LEMMA LongerIsPaced ==
  ASSUME NEW tape \in Seq(Tapes!Interaction), NEW c, NEW asked,
         Paced(tape, c, asked, Len(tape)),
         NEW x \in Tapes!Interaction, x.place = asked[Len(tape) + 1].place,
         asked[Len(tape) + 1].attempt < c.retries
  PROVE  Paced(Append(tape, x), c, asked, Len(tape))
<1> DEFINE n == Len(tape)
           longer == Append(tape, x)
<1>1. /\ n \in Nat /\ Len(longer) = n + 1 /\ longer[n + 1] = x
      /\ \A k \in 1..n : longer[k] = tape[k]
  BY AppendIs
<1> HIDE DEF longer
<1>2. ASSUME NEW k \in 1..(n + 1)
      PROVE  asked[k].place = longer[k].place /\ asked[k].attempt < c.retries
  <2>1. CASE k = n + 1  BY <1>1, <2>1
  <2>2. CASE k \in 1..n  BY <1>1, <2>2 DEF Paced
  <2> QED BY <1>1, <2>1, <2>2
<1>3. \A k \in 1..n : Moves(longer[k], asked[k], asked[k + 1])
  BY <1>1 DEF Paced
<1>4. Paced(longer, c, asked, n)
  BY <1>1, <1>2, <1>3 DEF Paced
<1> QED BY <1>4 DEF longer

(* ... leads it elsewhere, ...                                             *)
LEMMA PaceGoesOn ==
  ASSUME NEW tape \in Seq(Tapes!Interaction), NEW c, NEW asked, NEW n \in Nat,
         Len(tape) = n + 1, Paced(tape, c, asked, n),
         NEW q \in Positions, Moves(tape[n + 1], asked[n + 1], q)
  PROVE  \E later : Paced(tape, c, later, n + 1) /\ later[n + 2] = q
<1> DEFINE later == [asked EXCEPT ![n + 2] = q]
<1>1. asked \in [Nat -> Positions] /\ n + 2 \in Nat /\ 1 \in Nat /\ 1 # n + 2
  BY DEF Paced
<1>2. /\ later \in [Nat -> Positions] /\ later[n + 2] = q
      /\ \A k \in 1..(n + 1) : later[k] = asked[k]
      /\ later[1] = asked[1]
  BY <1>1
<1> HIDE DEF later
<1>3. ASSUME NEW k \in 1..(n + 1) PROVE Moves(tape[k], later[k], later[k + 1])
  <2>1. CASE k = n + 1
    BY <1>2, <2>1
  <2>2. CASE k \in 1..n
    <3>1. k + 1 \in 1..(n + 1)
      BY <2>2
    <3> QED BY <1>2, <2>2, <3>1 DEF Paced
  <2> QED BY <2>1, <2>2
<1>4. Paced(tape, c, later, n + 1)
  BY <1>2, <1>3 DEF Paced
<1> QED BY <1>2, <1>4

(* ... and a request error on a page's own URL only costs an attempt.      *)
LEMMA PaceLosesAnAttempt ==
  ASSUME NEW tape \in Seq(Tapes!Interaction), NEW c, NEW asked,
         Paced(tape, c, asked, Len(tape)),
         asked[Len(tape) + 1].hops = 0, asked[Len(tape) + 1].place = "start",
         NEW q \in Positions, q.hops = 0, q.place = "start",
         q.attempt = asked[Len(tape) + 1].attempt + 1
  PROVE  \E later : Paced(tape, c, later, Len(tape)) /\ later[Len(tape) + 1] = q
<1> DEFINE n == Len(tape)
           later == [asked EXCEPT ![n + 1] = q]
<1>1. asked \in [Nat -> Positions] /\ n \in Nat /\ n + 1 \in Nat /\ 1 \in Nat
  BY DEF Paced
<1>2. /\ later \in [Nat -> Positions] /\ later[n + 1] = q
      /\ \A k \in 1..n : later[k] = asked[k]
  BY <1>1
<1>3. later[1].hops = 0 /\ later[1].place = "start"
  BY <1>1 DEF Paced
<1> HIDE DEF later
<1>4. ASSUME NEW k \in 1..n PROVE Moves(tape[k], later[k], later[k + 1])
  <2>1. CASE k # n
    <3>1. k + 1 \in 1..n
      BY <1>1, <2>1
    <3> QED BY <1>2, <3>1 DEF Paced
  <2>2. CASE k = n
    <3>1. asked[n] \in Positions /\ asked[n + 1] \in Positions
      BY <1>1
    <3>2. Moves(tape[n], asked[n], asked[n + 1])
      BY <2>2 DEF Paced
    <3>3. asked[n].hops \in Nat /\ asked[n].attempt \in Nat /\ asked[n + 1].attempt \in Nat
      BY <3>1 DEF Positions
    <3>4. Moves(tape[n], asked[n], q)
      BY <3>2, <3>3 DEF Moves
    <3> QED BY <1>2, <2>2, <3>4
  <2> QED BY <2>1, <2>2
<1>5. Paced(tape, c, later, n)
  BY <1>2, <1>3, <1>4 DEF Paced
<1> QED BY <1>2, <1>5

Kept(r) == RecordsWell(r) /\ ReplaysWell(r) /\ KeepsPace(r)

(* An answer that a client goes on from takes it where it says.            *)
LEMMA AdvancesIs ==
  ASSUME NEW q \in Tapes!Runs, NEW x \in Tapes!Interaction, NEW s \in Tapes!Runs,
         Advances(q, x.resp, s), x.page = Tapes!PageNo(q), q.attempt < q.cmd.retries
  PROVE  /\ Continues(x, q.cmd) /\ Moves(x, Position(q), Position(s))
         /\ s.at = q.at /\ s.ok = q.ok
         /\ s.attempt < q.cmd.retries /\ (s.hops = 0 => s.place = "start")
         /\ Len(q.got) < MaxFollowed => Len(s.got) < MaxFollowed
<1>1. /\ q.cmd \in Tapes!Command /\ q.attempt \in Nat /\ q.hops \in Nat
      /\ Len(q.got) \in Nat /\ q.got \in Seq(Body) /\ Tapes!PageNo(q) = Len(q.got) + 1
      /\ q.cmd.retries \in Nat \ {0} /\ MaxRedirects \in Nat /\ MaxFollowed \in Nat
  BY RunTypes, CommandTypes, TapeConstants
<1>2. /\ x.page \in 1..MaxFollowed
      /\ x.resp.status = "ok" => x.resp.body \in Body /\ x.resp.last \in BOOLEAN
  BY InteractionTypes
<1>3. /\ Position(q).attempt = q.attempt /\ Position(q).hops = q.hops
      /\ Position(s).attempt = s.attempt /\ Position(s).hops = s.hops
      /\ Position(s).place = s.place
  BY DEF Position
<1>4. CASE FailsAttempt(q, x.resp)
  <2>1. /\ q.attempt + 1 < q.cmd.retries
        /\ GoesTo(q, s, [attempt |-> q.attempt + 1, hops |-> 0, place |-> "start"])
    BY <1>4 DEF Advances, FailsAttempt
  <2> QED BY <1>1, <1>3, <1>4, <2>1 DEF FailsAttempt, GoesTo, Continues, Moves
<1>5. CASE x.resp.status = "redirect" /\ q.cmd.redirects /\ q.hops < MaxRedirects
  <2>1. GoesTo(q, s, [attempt |-> q.attempt, hops |-> q.hops + 1, place |-> x.resp.to])
    BY <1>5 DEF Advances, FailsAttempt
  <2> QED BY <1>1, <1>3, <1>5, <2>1 DEF GoesTo, Continues, Moves
<1>6. CASE x.resp.status = "ok"
  <2>1. /\ ~x.resp.last /\ q.cmd.follow /\ Tapes!PageNo(q) # MaxFollowed
        /\ s.at = q.at /\ s.ok = q.ok /\ s.got = Append(q.got, x.resp.body)
        /\ Position(s) = [attempt |-> 0, hops |-> 0, place |-> "start"]
    BY <1>6 DEF Advances, FailsAttempt
  <2>2. Len(s.got) = Len(q.got) + 1
    BY <1>1, <1>2, <1>6, <2>1
  <2> QED BY <1>1, <1>2, <1>3, <1>6, <2>1, <2>2 DEF Continues, Moves
<1> QED BY <1>4, <1>5, <1>6 DEF Advances

(* A recording is judged by what its command asked for.                    *)
LEMMA RequestedIs ==
  ASSUME NEW s \in Tapes!Runs, IsTape(s.tape, s.cmd, s.got), GoesOn(s.tape, s.cmd, Len(s.tape) - 1),
         s.ok <=> Len(s.tape) > 0 /\ Final(s.tape[Len(s.tape)], s.cmd),
         ~s.interrupted => \E asked : Paced(s.tape, s.cmd, asked, Len(s.tape) - 1)
  PROVE  IsRecording(Tapes!Recorded(s))
<1> DEFINE d == Tapes!RequestOf(s.cmd)
<1>1. /\ d.url = s.cmd.url /\ d.follow = s.cmd.follow /\ d.redirects = s.cmd.redirects
      /\ d.retries = s.cmd.retries
  BY DEF Tapes!RequestOf
<1> HIDE DEF d
<1>2. IsTape(s.tape, d, s.got)
  BY <1>1 DEF IsTape
<1>3. GoesOn(s.tape, d, Len(s.tape) - 1)
  BY <1>1 DEF GoesOn, Continues
<1>4. s.ok <=> Len(s.tape) > 0 /\ Final(s.tape[Len(s.tape)], d)
  BY <1>1 DEF Final
<1>5. ~s.interrupted => \E asked : Paced(s.tape, d, asked, Len(s.tape) - 1)
  BY <1>1 DEF Paced
<1>6. LET rec == Tapes!Recorded(s)
      IN  /\ rec.tape = s.tape /\ rec.by = d /\ rec.got = s.got /\ rec.ok = s.ok
          /\ rec.interrupted = s.interrupted
  BY DEF Tapes!Recorded, d
<1> QED BY <1>2, <1>3, <1>4, <1>5, <1>6 DEF IsRecording

LEMMA AnsweredKeeps ==
  ASSUME NEW r \in Tapes!Runs, RecordsWell(r), r.at = "record", NEW resp \in Tapes!Response
  PROVE  LET s == Tapes!Received(Tapes!Taped(r, resp), resp) IN s \in Tapes!Runs /\ Kept(s)
<1> DEFINE x == [url |-> r.cmd.url, page |-> Tapes!PageNo(r), place |-> r.place, resp |-> resp]
           q == Tapes!Taped(r, resp)
           s == Tapes!Received(q, resp)
           c == r.cmd
           n == Len(r.tape)
<1>1. /\ r.recording /\ ~r.ok /\ r.attempt < c.retries /\ Len(r.got) < MaxFollowed
      /\ IsTape(r.tape, c, r.got) /\ GoesOn(r.tape, c, n)
  BY DEF RecordsWell
<1>2. /\ c \in Tapes!Command /\ r.tape \in Seq(Tapes!Interaction) /\ r.got \in Seq(Body)
      /\ r.attempt \in Nat /\ Len(r.got) \in Nat /\ n \in Nat /\ r.place \in Tapes!Place
      /\ Tapes!PageNo(r) = Len(r.got) + 1
      /\ c.follow \in BOOLEAN /\ c.url \in Url /\ c.retries \in Nat \ {0}
  BY RunTypes, CommandTypes
<1>3. /\ x \in Tapes!Interaction /\ x.url = c.url /\ x.page = Len(r.got) + 1 /\ x.resp = resp
      /\ x.place = r.place
  BY <1>1, <1>2, TapeConstants DEF Tapes!Interaction
<1>4. /\ q \in Tapes!Runs /\ q.tape = Append(r.tape, x) /\ q.at = r.at /\ q.recording = r.recording
      /\ q.cmd = c /\ q.got = r.got /\ q.attempt = r.attempt /\ q.ok = r.ok
      /\ q.interrupted = r.interrupted /\ Position(q) = Position(r)
  <2>1. Append(r.tape, x) \in Seq(Tapes!Interaction)
    BY <1>2, <1>3
  <2>2. q = [r EXCEPT !.tape = Append(r.tape, x)]
    BY DEF Tapes!Taped, Tapes!Runs
  <2> QED BY <2>1, <2>2 DEF Tapes!Runs, Position
<1>5. Tapes!PageNo(q) = Len(r.got) + 1
  BY <1>2, <1>4 DEF Tapes!PageNo
<1> HIDE DEF q, x
<1>6. s \in Tapes!Runs /\ SameCommand(q, s) /\ (Advances(q, resp, s) \/ Ends(q, resp, s))
  BY <1>4, ReceivedIs
<1> HIDE DEF s
<1>7. s.recording /\ s.cmd = c /\ s.tape = Append(r.tape, x) /\ s.interrupted = r.interrupted
  BY <1>1, <1>4, <1>6 DEF SameCommand
<1>8. /\ resp.status \in {"ok", "busy", "bad", "redirect"}
      /\ resp.status = "ok" => resp.body \in Body /\ resp.last \in BOOLEAN
  BY AnswerTypes
<1>9. s.got = IF resp.status = "ok" THEN Append(r.got, resp.body) ELSE r.got
  BY <1>4, <1>6 DEF Advances, Ends, FailsAttempt, GoesTo
<1>10. IsTape(s.tape, c, s.got)
  BY <1>1, <1>2, <1>3, <1>7, <1>9, TapeGrows
<1>11. Len(s.tape) = n + 1 /\ s.tape[n + 1] = x /\ Len(s.tape) \in Nat
  BY <1>2, <1>3, <1>7, AppendIs
<1>12. ASSUME NEW asked, Paced(r.tape, c, asked, n), asked[n + 1] = Position(r)
       PROVE  Paced(s.tape, c, asked, n)
  <2>1. asked[n + 1].place = x.place /\ asked[n + 1].attempt < c.retries
    BY <1>1, <1>3, <1>12 DEF Position
  <2> QED BY <1>2, <1>3, <1>7, <1>12, <2>1, LongerIsPaced
<1>13. ASSUME Advances(q, resp, s) PROVE Kept(s)
  <2>1. /\ Continues(x, c) /\ Moves(x, Position(r), Position(s))
        /\ s.at = "record" /\ ~s.ok
        /\ s.attempt < c.retries /\ (s.hops = 0 => s.place = "start")
        /\ Len(s.got) < MaxFollowed
    BY <1>1, <1>3, <1>4, <1>5, <1>6, <1>13, AdvancesIs
  <2>2. GoesOn(s.tape, c, Len(s.tape))
    BY <1>1, <1>2, <1>3, <1>7, <1>11, <2>1, LongerGoesOn
  <2>3. ASSUME ~s.interrupted
        PROVE  \E asked : /\ Paced(s.tape, c, asked, Len(s.tape))
                          /\ asked[Len(s.tape) + 1] = Position(s)
    <3>1. PICK asked : Paced(r.tape, c, asked, n) /\ asked[n + 1] = Position(r)
      BY <1>7, <2>3 DEF RecordsWell
    <3>2. Paced(s.tape, c, asked, n) /\ Moves(s.tape[n + 1], asked[n + 1], Position(s))
      BY <1>11, <1>12, <2>1, <3>1
    <3>3. s.tape \in Seq(Tapes!Interaction) /\ Position(s) \in Positions
      BY <1>6, RunTypes
    <3>4. \E later : Paced(s.tape, c, later, n + 1) /\ later[n + 2] = Position(s)
      BY <1>2, <1>11, <3>2, <3>3, PaceGoesOn
    <3>5. (n + 1) + 1 = n + 2
      BY <1>2
    <3> QED BY <1>11, <3>4, <3>5
  <2>4. RecordsWell(s)
    BY <1>7, <1>10, <2>1, <2>2, <2>3 DEF RecordsWell
  <2> QED BY <1>6, <1>7, <2>1, <2>4 DEF Kept, ReplaysWell, KeepsPace
<1>14. ASSUME Ends(q, resp, s) PROVE Kept(s)
  <2>1. s.at = "close" /\ Len(s.tape) - 1 = n
    BY <1>2, <1>11, <1>14 DEF Ends
  <2>2. GoesOn(s.tape, c, Len(s.tape) - 1)
    BY <1>1, <1>2, <1>3, <1>7, <2>1, LongerGoesOn
  <2>3. s.ok <=> Len(s.tape) > 0 /\ Final(s.tape[Len(s.tape)], c)
    <3>1. s.ok <=> Final(x, c)
      BY <1>2, <1>3, <1>4, <1>8, <1>14 DEF Ends, Final, FailsAttempt
    <3> QED BY <1>2, <1>11, <3>1
  <2>4. ASSUME ~s.interrupted PROVE \E asked : Paced(s.tape, c, asked, Len(s.tape) - 1)
    <3>1. PICK asked : Paced(r.tape, c, asked, n) /\ asked[n + 1] = Position(r)
      BY <1>7, <2>4 DEF RecordsWell
    <3> QED BY <1>12, <2>1, <3>1
  <2>5. IsRecording(Tapes!Recorded(s))
    BY <1>6, <1>7, <1>10, <2>2, <2>3, <2>4, RequestedIs
  <2> QED BY <1>6, <1>7, <2>1, <2>5 DEF Kept, RecordsWell, ReplaysWell, KeepsPace
<1> QED BY <1>6, <1>13, <1>14 DEF s, q

(* What ends a recording without an answer leaves a recording that failed. *)
LEMMA GivenUp ==
  ASSUME NEW r \in Tapes!Runs, RecordsWell(r), r.at = "record",
         NEW s \in Tapes!Runs, SameCommand(r, s), s.got = r.got, s.at = "close", ~s.ok
  PROVE  Kept(s)
<1>1. /\ r.recording /\ IsTape(r.tape, r.cmd, r.got) /\ GoesOn(r.tape, r.cmd, Len(r.tape))
      /\ s.recording /\ s.tape = r.tape /\ s.cmd = r.cmd /\ s.interrupted = r.interrupted
  BY DEF RecordsWell, SameCommand
<1>2. r.tape \in Seq(Tapes!Interaction) /\ Len(r.tape) \in Nat
  BY RunTypes
<1>3. Len(r.tape) > 0 => ~Final(r.tape[Len(r.tape)], r.cmd)
  BY <1>1, <1>2, InteractionTypes DEF GoesOn, Continues, Final
<1>4. 1..(Len(r.tape) - 1) \subseteq 1..Len(r.tape)
  BY <1>2
<1>5. GoesOn(r.tape, r.cmd, Len(r.tape) - 1)
  BY <1>1, <1>4 DEF GoesOn
<1>6. ~s.interrupted => \E asked : Paced(r.tape, r.cmd, asked, Len(r.tape) - 1)
  BY <1>1, <1>4 DEF RecordsWell, Paced
<1>7. IsRecording(Tapes!Recorded(s))
  BY <1>1, <1>3, <1>5, <1>6, RequestedIs
<1> QED BY <1>1, <1>7 DEF Kept, RecordsWell, ReplaysWell, KeepsPace

LEMMA RequestErrorKeeps ==
  ASSUME NEW r \in Tapes!Runs, RecordsWell(r), r.at = "record"
  PROVE  LET s == [Tapes!AgainOrFail(r) EXCEPT !.interrupted = @ \/ Tapes!Interrupted(r)]
         IN  s \in Tapes!Runs /\ Kept(s)
<1> DEFINE q == Tapes!AgainOrFail(r)
           s == [q EXCEPT !.interrupted = @ \/ Tapes!Interrupted(r)]
<1>1. /\ q \in Tapes!Runs /\ SameCommand(r, q) /\ q.got = r.got
      /\ r.attempt + 1 < r.cmd.retries =>
           GoesTo(r, q, [attempt |-> r.attempt + 1, hops |-> 0, place |-> "start"])
      /\ ~(r.attempt + 1 < r.cmd.retries) => q.at = "close" /\ ~q.ok
  BY AgainIs
<1> HIDE DEF q
<1>2. (q.interrupted \/ Tapes!Interrupted(r)) \in BOOLEAN
  BY <1>1, RunTypes DEF Tapes!Interrupted
<1>3. /\ s \in Tapes!Runs /\ s.recording = r.recording /\ s.cmd = r.cmd /\ s.tape = r.tape
      /\ s.i = r.i /\ s.source = r.source /\ s.found = r.found /\ s.got = r.got
      /\ s.at = q.at /\ s.ok = q.ok /\ Position(s) = Position(q)
      /\ s.attempt = q.attempt /\ s.hops = q.hops /\ s.place = q.place
      /\ s.interrupted = (r.interrupted \/ Tapes!Interrupted(r))
  BY <1>1, <1>2 DEF SameCommand, Position, Tapes!Runs
<1> HIDE DEF s
<1>4. CASE r.attempt + 1 < r.cmd.retries
  <2>1. /\ s.at = "record" /\ s.recording /\ ~s.ok
        /\ s.attempt = r.attempt + 1 /\ s.hops = 0 /\ s.place = "start"
    BY <1>1, <1>3, <1>4 DEF RecordsWell, GoesTo, Position
  <2>2. r.tape \in Seq(Tapes!Interaction) /\ Position(s) \in Positions /\ r.hops \in Nat
        /\ r.interrupted \in BOOLEAN
    BY <1>3, RunTypes
  <2>3. ASSUME ~s.interrupted
        PROVE  \E asked : /\ Paced(r.tape, r.cmd, asked, Len(r.tape))
                          /\ asked[Len(r.tape) + 1] = Position(s)
    <3>1. ~r.interrupted /\ r.hops = 0 /\ r.place = "start"
      <4>1. ~(r.interrupted \/ Tapes!Interrupted(r))
        BY <1>3, <2>3
      <4>2. ~r.interrupted /\ ~Tapes!Interrupted(r)
        BY <4>1
      <4>3. r.hops = 0
        BY <1>4, <2>2, <4>2 DEF Tapes!Interrupted
      <4> QED BY <4>2, <4>3 DEF RecordsWell
    <3>2. PICK asked : /\ Paced(r.tape, r.cmd, asked, Len(r.tape))
                       /\ asked[Len(r.tape) + 1] = Position(r)
      BY <3>1 DEF RecordsWell
    <3> DEFINE q2 == Position(s)
    <3>3. /\ q2.hops = 0 /\ q2.place = "start" /\ q2.attempt = r.attempt + 1
          /\ asked[Len(r.tape) + 1].hops = 0 /\ asked[Len(r.tape) + 1].place = "start"
          /\ asked[Len(r.tape) + 1].attempt = r.attempt
      BY <2>1, <3>1, <3>2 DEF Position
    <3> HIDE DEF q2
    <3>4. q2 \in Positions
      BY <2>2 DEF q2
    <3>5. \E later : Paced(r.tape, r.cmd, later, Len(r.tape)) /\ later[Len(r.tape) + 1] = q2
      BY <2>2, <3>2, <3>3, <3>4, PaceLosesAnAttempt
    <3> QED BY <3>5 DEF q2
  <2>4. RecordsWell(s)
    BY <1>3, <1>4, <2>1, <2>3 DEF RecordsWell
  <2> QED BY <1>3, <2>1, <2>4 DEF Kept, ReplaysWell, KeepsPace, s, q
<1>5. CASE ~(r.attempt + 1 < r.cmd.retries)
  <2>1. SameCommand(r, s) /\ s.got = r.got /\ s.at = "close" /\ ~s.ok
    BY <1>1, <1>3, <1>5, RunTypes DEF SameCommand, Tapes!Interrupted
  <2> QED BY <1>3, <2>1, GivenUp DEF s, q
<1> QED BY <1>4, <1>5

(* Where a replay is: what it knows of the recording it plays.             *)
LEMMA ReplayTypes ==
  ASSUME NEW r \in Tapes!Runs, ReplaysWell(r), r.at \in {"replay", "close", "done"},
         ~r.recording, r.source # Tapes!Absent
  PROVE  /\ r.source \in Tapes!Recording /\ IsRecording(r.source)
         /\ r.tape = r.source.tape /\ r.tape \in Seq(Tapes!Interaction) /\ Len(r.tape) \in Nat
         /\ r.got \in Seq(Body) /\ r.source.got \in Seq(Body)
         /\ Len(r.got) \in Nat /\ Len(r.source.got) \in Nat
         /\ r.i \in 0..Len(r.tape) /\ r.i \in Nat /\ r.attempt \in Nat
         /\ r.cmd.retries \in Nat /\ r.cmd.follow \in BOOLEAN
         /\ r.source.by.follow \in BOOLEAN /\ r.source.ok \in BOOLEAN /\ r.ok \in BOOLEAN
         /\ DOMAIN r.source.tape = 1..Len(r.tape)
<1>1. r.source \in Tapes!Recording
  BY RunTypes
<1>2. /\ r.source.tape \in Seq(Tapes!Interaction) /\ r.source.by \in Tapes!Requests
      /\ r.source.ok \in BOOLEAN /\ r.source.got \in Seq(Body)
  BY <1>1 DEF Tapes!Recording
<1>3. r.source.by.follow \in BOOLEAN
  BY <1>2 DEF Tapes!Requests
<1>4. IsRecording(r.source) /\ r.tape = r.source.tape /\ r.i \in 0..Len(r.tape)
  BY DEF ReplaysWell
<1> QED BY <1>1, <1>2, <1>3, <1>4, RunTypes, CommandTypes

LEMMA PlayedIs ==
  ASSUME NEW r \in Tapes!Runs, ~Tapes!Exhausted(r)
  PROVE  LET q == Tapes!Played(r)
         IN  /\ q \in Tapes!Runs /\ q.i = r.i + 1 /\ q.at = r.at /\ q.got = r.got
             /\ q.ok = r.ok /\ q.attempt = r.attempt /\ q.cmd = r.cmd /\ q.tape = r.tape
             /\ q.hops = r.hops /\ q.place = r.place
             /\ q.recording = r.recording /\ q.source = r.source /\ q.found = r.found
             /\ Tapes!PageNo(q) = Tapes!PageNo(r)
<1>1. Tapes!Played(r) = [r EXCEPT !.i = r.i + 1] /\ r.i + 1 \in Nat
  BY DEF Tapes!Played, Tapes!Runs
<1> QED BY <1>1 DEF Tapes!Runs, Tapes!PageNo

LEMMA PlayingIs ==
  ASSUME NEW r \in Tapes!Runs, ReplaysWell(r), r.at = "replay", ~Tapes!Exhausted(r)
  PROVE  LET x == Tapes!Next1(r)
         IN  /\ r.i + 1 \in 1..Len(r.tape) /\ r.i < Len(r.tape)
             /\ x = r.tape[r.i + 1] /\ x \in Tapes!Interaction
             /\ x.url = r.source.by.url /\ x.page = PageAt(r.tape, r.i)
             /\ x.resp.status = "ok" =>
                  /\ x.page \in 1..Len(r.source.got)
                  /\ r.source.got[x.page] = x.resp.body
             /\ PageAt(r.tape, r.i + 1) =
                  IF x.resp.status = "ok" THEN x.page + 1 ELSE x.page
<1>1. ~r.recording /\ ~r.ok /\ r.source # Tapes!Absent
  BY DEF ReplaysWell
<1>2. /\ IsTape(r.source.tape, r.source.by, r.source.got)
      /\ r.tape = r.source.tape /\ r.tape \in Seq(Tapes!Interaction) /\ Len(r.tape) \in Nat
      /\ r.i \in 0..Len(r.tape)
  BY <1>1, ReplayTypes DEF IsRecording
<1>3. r.i + 1 \in 1..Len(r.tape) /\ r.i < Len(r.tape) /\ (r.i + 1) - 1 = r.i /\ r.i + 1 # 0
  BY <1>2 DEF Tapes!Exhausted
<1>4. r.tape[r.i + 1] \in Tapes!Interaction
  BY <1>2, <1>3
<1> QED BY <1>2, <1>3, <1>4 DEF IsTape, PageAt, Tapes!Next1

LEMMA ReplayedKeeps ==
  ASSUME NEW r \in Tapes!Runs, Kept(r), r.at = "replay",
         Tapes!Matches(r), ~Tapes!Next1(r).resp.zip
  PROVE  LET s == Tapes!Received(Tapes!Played(r), Tapes!Next1(r).resp)
         IN  s \in Tapes!Runs /\ Kept(s)
<1> DEFINE x == Tapes!Next1(r)
           q == Tapes!Played(r)
           s == Tapes!Received(q, x.resp)
           i == r.i + 1
<1>1. /\ ~r.recording /\ ~r.ok /\ r.source # Tapes!Absent
      /\ Len(r.got) <= Len(r.source.got)
      /\ \A k \in 1..Len(r.got) : r.got[k] = r.source.got[k]
  BY DEF Kept, ReplaysWell
<1>2. /\ IsRecording(r.source) /\ r.tape = r.source.tape /\ Len(r.tape) \in Nat
      /\ r.got \in Seq(Body) /\ r.source.got \in Seq(Body)
      /\ Len(r.got) \in Nat /\ Len(r.source.got) \in Nat
      /\ r.i \in Nat /\ r.attempt \in Nat
      /\ r.cmd.retries \in Nat /\ r.cmd.follow \in BOOLEAN
      /\ DOMAIN r.source.tape = 1..Len(r.tape)
  BY <1>1, ReplayTypes DEF Kept
<1>3. x.url = r.cmd.url /\ x.page = Tapes!PageNo(r) /\ x.place = r.place /\ ~Tapes!Exhausted(r)
  BY DEF Tapes!Matches
<1>4. /\ i \in 1..Len(r.tape) /\ r.i < Len(r.tape)
      /\ x = r.tape[i] /\ x \in Tapes!Interaction
      /\ x.url = r.source.by.url
      /\ x.resp.status = "ok" =>
           x.page \in 1..Len(r.source.got) /\ r.source.got[x.page] = x.resp.body
      /\ PageAt(r.tape, i) = IF x.resp.status = "ok" THEN x.page + 1 ELSE x.page
  BY <1>3, PlayingIs DEF Kept
<1>5. /\ q \in Tapes!Runs /\ q.i = i /\ q.at = r.at /\ q.got = r.got
      /\ q.ok = r.ok /\ q.attempt = r.attempt /\ q.cmd = r.cmd /\ q.tape = r.tape
      /\ q.hops = r.hops /\ q.place = r.place
      /\ q.recording = r.recording /\ q.source = r.source
      /\ Tapes!PageNo(q) = Tapes!PageNo(r)
  BY <1>3, PlayedIs
<1>6. /\ x.resp \in Tapes!Response /\ x.page \in 1..MaxFollowed
      /\ x.resp.status \in {"ok", "busy", "bad", "redirect"}
      /\ x.resp.status = "ok" => x.resp.body \in Body /\ x.resp.last \in BOOLEAN
  BY <1>4, InteractionTypes
<1>7. Tapes!PageNo(r) = Len(r.got) + 1
  BY DEF Tapes!PageNo
<1> HIDE DEF q, x
<1>8. s \in Tapes!Runs /\ SameCommand(q, s) /\ (Advances(q, x.resp, s) \/ Ends(q, x.resp, s))
  BY <1>5, <1>6, ReceivedIs
<1> HIDE DEF s
<1>9. /\ ~s.recording /\ s.cmd = r.cmd /\ s.tape = r.tape /\ s.source = r.source
      /\ s.i = i /\ s.at \in {"replay", "close"}
      /\ s.got = IF x.resp.status = "ok" THEN Append(r.got, x.resp.body) ELSE r.got
      /\ Tapes!PageNo(s) = Len(s.got) + 1
  BY <1>1, <1>5, <1>8 DEF SameCommand, Advances, Ends, FailsAttempt, GoesTo, Tapes!PageNo
<1>10. Tapes!PageNo(s) = PageAt(r.tape, i)
  BY <1>2, <1>3, <1>4, <1>6, <1>7, <1>9, AppendIs
<1>11. /\ Len(s.got) <= Len(r.source.got)
       /\ \A k \in 1..Len(s.got) : s.got[k] = r.source.got[k]
  <2>1. CASE x.resp.status = "ok"
    <3>1. /\ Len(s.got) = Len(r.got) + 1 /\ s.got[Len(r.got) + 1] = x.resp.body
          /\ \A k \in 1..Len(r.got) : s.got[k] = r.got[k]
      BY <1>2, <1>6, <1>9, <2>1, AppendIs
    <3>2. Len(r.got) + 1 \in 1..Len(r.source.got)
          /\ r.source.got[Len(r.got) + 1] = x.resp.body
      BY <1>3, <1>4, <1>7, <2>1
    <3>3. ASSUME NEW k \in 1..Len(s.got) PROVE s.got[k] = r.source.got[k]
      <4>1. CASE k = Len(r.got) + 1
        BY <3>1, <3>2, <4>1
      <4>2. CASE k # Len(r.got) + 1
        <5>1. k \in 1..Len(r.got)
          BY <1>2, <3>1, <4>2
        <5> QED BY <1>1, <3>1, <5>1
      <4> QED BY <4>1, <4>2
    <3> QED BY <1>2, <3>1, <3>2, <3>3
  <2>2. CASE x.resp.status # "ok"
    BY <1>1, <1>9, <2>2
  <2> QED BY <2>1, <2>2
<1>12. s.at = "replay" => ~s.ok /\ Advances(q, x.resp, s)
  BY <1>1, <1>5, <1>8 DEF Advances, Ends, GoesTo
<1>13. RecordsWell(s) /\ ReplaysWell(s)
  <2>1. s.i \in 0..Len(s.tape)
    BY <1>2, <1>4, <1>9
  <2>2. RecordsWell(s)
    BY <1>9 DEF RecordsWell
  <2>3. r.source.by.url = r.cmd.url
    BY <1>3, <1>4
  <2> HIDE DEF i
  <2> QED BY <1>1, <1>2, <1>9, <1>10, <1>11, <1>12, <2>1, <2>2, <2>3 DEF ReplaysWell
<1>14. ASSUME Faithful(s) PROVE KeepsPace(s)
  <2> DEFINE c == r.source.by
             n == Len(r.tape)
  <2>1. /\ Faithful(r)
        /\ r.cmd.follow = c.follow /\ r.cmd.retries = c.retries
        /\ r.cmd.redirects = c.redirects
    BY <1>9, <1>14 DEF Faithful, Tapes!RequestOf
  <2>2. \A k \in 1..r.i : Continues(r.tape[k], r.cmd)
    BY <1>1, <2>1 DEF Kept, KeepsPace
  <2>3. PICK asked : InStep(r, asked)
    BY <1>1, <2>1 DEF Kept, KeepsPace
  <2>4. /\ r.attempt <= asked[i].attempt /\ r.hops = asked[i].hops
        /\ Paced(r.tape, c, asked, n - 1) /\ asked[i].attempt < c.retries
        /\ asked[i].attempt \in Nat /\ asked[i].hops \in Nat
    <3>1. r.attempt <= asked[i].attempt /\ r.hops = asked[i].hops /\ Paced(r.tape, c, asked, n - 1)
      BY <1>4, <2>3 DEF InStep
    <3>2. asked[i].attempt < c.retries /\ asked \in [Nat -> Positions]
      BY <1>4, <3>1 DEF Paced
    <3>3. asked[i] \in Positions
      BY <1>2, <3>2
    <3> QED BY <3>1, <3>2, <3>3 DEF Positions
  <2>5. ASSUME i < n
        PROVE  /\ Moves(x, asked[i], asked[i + 1])
               /\ asked[i + 1].attempt < c.retries /\ asked[i + 1].attempt \in Nat
    <3>1. i \in 1..(n - 1) /\ i + 1 \in 1..n /\ i + 1 \in Nat
      BY <1>2, <1>4, <2>5
    <3> QED BY <1>4, <2>4, <3>1 DEF Paced, Positions
  <2> HIDE DEF i, n, c
  <2>6. ASSUME Advances(q, x.resp, s) PROVE KeepsPace(s)
    <3>1. r.attempt < q.cmd.retries
      BY <1>2, <1>5, <2>1, <2>4
    <3>2. /\ s.at = "replay" /\ Continues(x, r.cmd) /\ Moves(x, Position(q), Position(s))
      BY <1>3, <1>4, <1>5, <1>8, <2>6, <3>1, AdvancesIs
    <3>3. \A k \in 1..i : Continues(r.tape[k], r.cmd)
      BY <1>2, <1>4, <2>2, <3>2 DEF i
    <3>4. ASSUME i < n
          PROVE  /\ s.attempt <= asked[i + 1].attempt
                 /\ s.hops = asked[i + 1].hops /\ s.place = asked[i + 1].place
      <4>1. /\ Position(q).attempt = r.attempt /\ Position(q).hops = r.hops
            /\ Position(s).attempt = s.attempt /\ Position(s).hops = s.hops
            /\ Position(s).place = s.place
        BY <1>5 DEF Position
      <4>2. Moves(x, asked[i], asked[i + 1])
        BY <2>5, <3>4
      <4>3. s.hops = asked[i + 1].hops /\ s.place = asked[i + 1].place
        BY <2>4, <3>2, <4>1, <4>2 DEF Moves
      <4>4. \/ s.attempt = 0
            \/ FailsAttempt(q, x.resp) /\ s.attempt = r.attempt + 1
            \/ s.attempt = r.attempt /\ x.resp.status = "redirect"
        BY <1>5, <2>6, <4>1 DEF Advances, GoesTo
      <4>5. s.attempt <= asked[i + 1].attempt
        <5>1. asked[i + 1].attempt \in Nat
          BY <2>5, <3>4
        <5>2. CASE s.attempt = 0
          BY <5>1, <5>2
        <5>3. CASE FailsAttempt(q, x.resp) /\ s.attempt = r.attempt + 1
          <6>1. asked[i + 1].attempt >= asked[i].attempt + 1
            BY <1>5, <2>4, <4>2, <5>3 DEF Moves, FailsAttempt
          <6> QED BY <1>2, <2>4, <5>1, <5>3, <6>1
        <5>4. CASE s.attempt = r.attempt /\ x.resp.status = "redirect"
          <6>1. asked[i + 1].attempt >= asked[i].attempt
            BY <2>4, <4>2, <5>1, <5>4 DEF Moves
          <6> QED BY <1>2, <2>4, <5>1, <5>4, <6>1
        <5> QED BY <4>4, <5>2, <5>3, <5>4
      <4> QED BY <4>3, <4>5
    <3>5. InStep(s, asked)
      BY <1>9, <2>4, <3>4 DEF InStep, n, c
    <3> QED BY <1>9, <1>10, <3>2, <3>3, <3>5 DEF KeepsPace
  <2>7. ASSUME Ends(q, x.resp, s) PROVE KeepsPace(s)
    <3>1. s.at = "close"
      BY <2>7 DEF Ends
    <3>2. i = n
      <4>1. SUFFICES ASSUME i # n PROVE FALSE
        OBVIOUS
      <4>2. i \in 1..(n - 1) /\ i < n
        BY <1>2, <1>4, <4>1 DEF n
      <4>3. Continues(x, c)
        BY <1>2, <1>4, <4>2 DEF IsRecording, GoesOn, n, c
      <4>4. CASE FailsAttempt(q, x.resp)
        <5>1. ~(r.attempt + 1 < r.cmd.retries)
          BY <1>5, <2>7, <4>4 DEF Ends, FailsAttempt
        <5>2. /\ asked[i + 1].attempt >= asked[i].attempt + 1
              /\ asked[i + 1].attempt < c.retries /\ asked[i + 1].attempt \in Nat
          BY <1>5, <2>4, <2>5, <4>2, <4>4 DEF Moves, FailsAttempt
        <5>3. c.retries = r.cmd.retries
          BY <2>1 DEF c
        <5> QED BY <1>2, <2>4, <5>1, <5>2, <5>3
      <4>5. CASE x.resp.status = "ok"
        BY <1>2, <1>3, <1>5, <1>6, <2>1, <2>7, <4>3, <4>5, TapeConstants
        DEF Ends, Continues, FailsAttempt, c
      <4>6. x.resp.status = "redirect" /\ q.cmd.redirects /\ q.hops < MaxRedirects => FALSE
        BY <2>7 DEF Ends, FailsAttempt
      <4> QED BY <1>5, <1>6, <2>1, <4>3, <4>4, <4>5, <4>6 DEF Continues, FailsAttempt, c
    <3>3. s.ok <=> Final(x, r.source.by)
      BY <1>2, <1>5, <1>6, <2>1, <2>7 DEF Ends, Final, FailsAttempt, c
    <3>4. r.source.ok <=> Final(x, r.source.by)
      BY <1>2, <1>4, <3>2 DEF IsRecording, n
    <3>5. s.ok = r.source.ok
      <4>1. s.ok \in BOOLEAN /\ r.source.ok \in BOOLEAN
        BY <1>1, <1>8, ReplayTypes, RunTypes DEF Kept
      <4> QED BY <3>3, <3>4, <4>1
    <3> QED BY <1>9, <3>1, <3>2, <3>5 DEF KeepsPace, n
  <2> QED BY <1>8, <2>6, <2>7
<1>15. KeepsPace(s)
  BY <1>14 DEF KeepsPace
<1> QED BY <1>8, <1>13, <1>15 DEF Kept, s, q, x

(* A replay that gives up on an answer, or tries again, has no success.    *)
LEMMA NoSuccess ==
  ASSUME NEW r \in Tapes!Runs, Kept(r), r.at = "replay",
         NEW s \in Tapes!Runs, s.at \in {"replay", "close"}, ~s.ok,
         s.cmd = r.cmd, s.tape = r.tape, s.source = r.source, s.recording = r.recording,
         s.got = r.got, s.i \in 0..Len(r.tape)
  PROVE  RecordsWell(s) /\ ReplaysWell(s)
<1>1. /\ ~r.recording /\ r.source # Tapes!Absent
      /\ r.tape = r.source.tape /\ IsRecording(r.source)
      /\ Len(r.got) <= Len(r.source.got)
      /\ \A k \in 1..Len(r.got) : r.got[k] = r.source.got[k]
  BY DEF Kept, ReplaysWell
<1> QED BY <1>1 DEF RecordsWell, ReplaysWell

LEMMA UndecodableKeeps ==
  ASSUME NEW r \in Tapes!Runs, Kept(r), r.at = "replay",
         Tapes!Matches(r), Tapes!Next1(r).resp.zip
  PROVE  LET s == Tapes!AgainOrFail(Tapes!Played(r)) IN s \in Tapes!Runs /\ Kept(s)
<1> DEFINE q == Tapes!Played(r)
           s == Tapes!AgainOrFail(q)
<1>1. ~r.recording /\ ~r.ok /\ r.source # Tapes!Absent /\ ~Tapes!Exhausted(r)
  BY DEF Kept, ReplaysWell, Tapes!Matches
<1>2. /\ q \in Tapes!Runs /\ q.i = r.i + 1 /\ q.at = r.at /\ q.got = r.got
      /\ q.ok = r.ok /\ q.cmd = r.cmd /\ q.tape = r.tape
      /\ q.recording = r.recording /\ q.source = r.source
  BY <1>1, PlayedIs
<1> HIDE DEF q
<1>3. /\ s \in Tapes!Runs /\ SameCommand(q, s) /\ s.got = q.got
      /\ s.at \in {q.at, "close"} /\ (s.ok = q.ok \/ ~s.ok)
  BY <1>2, AgainIs DEF GoesTo
<1> HIDE DEF s
<1>4. /\ s.at \in {"replay", "close"} /\ ~s.ok /\ s.i = r.i + 1
      /\ s.cmd = r.cmd /\ s.tape = r.tape /\ s.source = r.source
      /\ s.recording = r.recording /\ s.got = r.got
  BY <1>1, <1>2, <1>3 DEF SameCommand
<1>5. /\ r.i + 1 \in 1..Len(r.tape) /\ Tapes!Next1(r) = r.tape[r.i + 1]
      /\ r.tape = r.source.tape /\ DOMAIN r.source.tape = 1..Len(r.tape)
      /\ Len(r.tape) \in Nat
  BY <1>1, PlayingIs, ReplayTypes DEF Kept
<1>6. s.i \in 0..Len(r.tape)
  BY <1>4, <1>5
<1>7. RecordsWell(s) /\ ReplaysWell(s)
  BY <1>3, <1>4, <1>6, NoSuccess
<1>8. ~Faithful(s)
  BY <1>4, <1>5 DEF Faithful
<1> QED BY <1>3, <1>7, <1>8 DEF Kept, KeepsPace, s, q

LEMMA MismatchKeeps ==
  ASSUME NEW r \in Tapes!Runs, Kept(r), r.at = "replay", ~Tapes!Matches(r)
  PROVE  LET s == Tapes!Ended(IF Tapes!Exhausted(r) THEN r ELSE Tapes!Played(r), FALSE)
         IN  s \in Tapes!Runs /\ Kept(s)
<1> DEFINE q == IF Tapes!Exhausted(r) THEN r ELSE Tapes!Played(r)
           s == Tapes!Ended(q, FALSE)
<1>1. ~r.recording /\ ~r.ok /\ r.source # Tapes!Absent
  BY DEF Kept, ReplaysWell
<1>2. /\ r.tape = r.source.tape /\ r.tape \in Seq(Tapes!Interaction) /\ Len(r.tape) \in Nat
      /\ r.i \in 0..Len(r.tape) /\ r.i \in Nat /\ IsRecording(r.source)
      /\ r.source.ok \in BOOLEAN
      /\ r.cmd.follow \in BOOLEAN /\ r.source.by.follow \in BOOLEAN
  BY <1>1, ReplayTypes DEF Kept
<1>3. /\ q \in Tapes!Runs /\ q.got = r.got /\ q.cmd = r.cmd /\ q.tape = r.tape
      /\ q.recording = r.recording /\ q.source = r.source
      /\ q.i = IF Tapes!Exhausted(r) THEN r.i ELSE r.i + 1
  BY PlayedIs
<1> HIDE DEF q
<1>4. /\ s \in Tapes!Runs /\ SameCommand(q, s) /\ s.got = q.got
      /\ s.at = "close" /\ ~s.ok
  BY <1>3, EndedIs
<1>5. s.ok \in BOOLEAN
  BY <1>4, RunTypes
<1> HIDE DEF s
<1>6. /\ s.cmd = r.cmd /\ s.tape = r.tape /\ s.source = r.source
      /\ s.recording = r.recording /\ s.got = r.got /\ s.i = q.i
  BY <1>3, <1>4 DEF SameCommand
<1>7. s.i \in 0..Len(r.tape)
  BY <1>2, <1>3, <1>6 DEF Tapes!Exhausted
<1>8. RecordsWell(s) /\ ReplaysWell(s)
  BY <1>4, <1>6, <1>7, NoSuccess
<1>9. ASSUME Faithful(s) PROVE ~r.source.ok
  <2>1. /\ Faithful(r) /\ r.cmd.url = r.source.by.url /\ r.cmd.follow = r.source.by.follow
    BY <1>6, <1>9 DEF Faithful, Tapes!RequestOf
  <2>2. /\ Tapes!PageNo(r) = PageAt(r.tape, r.i)
        /\ \A k \in 1..r.i : Continues(r.tape[k], r.cmd)
        /\ \E asked : InStep(r, asked)
    BY <1>1, <2>1 DEF Kept, KeepsPace
  <2>3. Tapes!Exhausted(r)
    <3>1. SUFFICES ASSUME ~Tapes!Exhausted(r) PROVE Tapes!Matches(r)
      OBVIOUS
    <3>2. /\ Tapes!Next1(r).url = r.source.by.url /\ Tapes!Next1(r).page = PageAt(r.tape, r.i)
          /\ Tapes!Next1(r) = r.tape[r.i + 1] /\ r.i + 1 \in 1..Len(r.tape) /\ r.i < Len(r.tape)
      BY <3>1, PlayingIs DEF Kept
    <3>3. Tapes!Next1(r).place = r.place
      BY <2>2, <3>2 DEF InStep, Paced
    <3> QED BY <2>1, <2>2, <3>1, <3>2, <3>3 DEF Tapes!Matches
  <2>4. r.i = Len(r.tape)
    BY <2>3 DEF Tapes!Exhausted
  <2>5. ASSUME Len(r.tape) > 0 PROVE ~Final(r.tape[Len(r.tape)], r.source.by)
    <3>1. Continues(r.tape[Len(r.tape)], r.cmd) /\ r.tape[Len(r.tape)] \in Tapes!Interaction
      BY <1>2, <2>2, <2>4, <2>5
    <3> QED BY <1>2, <2>1, <3>1, InteractionTypes DEF Continues, Final
  <2> QED BY <1>2, <2>5 DEF IsRecording
<1>10. KeepsPace(s)
  BY <1>2, <1>4, <1>5, <1>6, <1>9 DEF KeepsPace
<1> QED BY <1>4, <1>8, <1>10 DEF Kept, s, q

LEMMA CloseReplayKeeps ==
  ASSUME NEW r \in Tapes!Runs, Kept(r), r.at = "close", ~r.recording
  PROVE  LET s == [r EXCEPT !.at = "done", !.ok = @ /\ Tapes!Exhausted(r)]
         IN  s \in Tapes!Runs /\ Kept(s)
<1> DEFINE s == [r EXCEPT !.at = "done", !.ok = @ /\ Tapes!Exhausted(r)]
<1>1. r.ok \in BOOLEAN /\ (r.ok /\ Tapes!Exhausted(r)) \in BOOLEAN
  BY RunTypes
<1>2. /\ s \in Tapes!Runs /\ s.at = "done" /\ s.ok = (r.ok /\ Tapes!Exhausted(r))
      /\ s.recording = r.recording /\ s.cmd = r.cmd /\ s.tape = r.tape /\ s.i = r.i
      /\ s.source = r.source /\ s.got = r.got
  BY <1>1 DEF Tapes!Runs
<1> HIDE DEF s
<1>3. Tapes!PageNo(s) = Tapes!PageNo(r)
  BY <1>2 DEF Tapes!PageNo
<1>4. ReplaysWell(s)
  BY <1>2, <1>3 DEF Kept, ReplaysWell, Tapes!Exhausted
<1>5. ASSUME r.source # Tapes!Absent, Faithful(s)
      PROVE  s.ok = r.source.ok /\ (s.ok => s.i = Len(s.tape))
  <2>1. r.ok = r.source.ok /\ (r.ok => r.i = Len(r.tape))
    BY <1>2, <1>5 DEF Kept, KeepsPace, Faithful
  <2> QED BY <1>1, <1>2, <2>1 DEF Tapes!Exhausted
<1>6. KeepsPace(s)
  BY <1>2, <1>5 DEF KeepsPace
<1> QED BY <1>2, <1>4, <1>6 DEF Kept, RecordsWell, s

LEMMA OneMoves ==
  ASSUME TapesInv, NEW p \in Process, NEW s \in {Tapes!Idle} \cup Tapes!Runs, Kept(s),
         run' = [run EXCEPT ![p] = s],
         overlapped' \in BOOLEAN, disturbed' \in BOOLEAN,
         \/ file' \in {file, Tapes!Absent, Tapes!Torn}
         \/ file' \in Tapes!Recording /\ IsRecording(file')
  PROVE  TapesInv'
<1>1. run \in [Process -> {Tapes!Idle} \cup Tapes!Runs]
  BY DEF TapesInv, Tapes!TypeOK
<1>2. Tapes!TypeOK'
  BY <1>1 DEF TapesInv, Tapes!TypeOK
<1>3. Tapes!Saved' => IsRecording(file')
  BY DEF TapesInv, Tapes!Saved
<1>4. \A o \in Process : run'[o] = IF o = p THEN s ELSE run[o]
  BY <1>1
<1>5. \A o \in Process : RecordsWell(run'[o]) /\ ReplaysWell(run'[o]) /\ KeepsPace(run'[o])
  BY <1>4 DEF TapesInv, Kept
<1> QED BY <1>2, <1>3, <1>5 DEF TapesInv

LEMMA IdleIsKept == Kept(Tapes!Idle) /\ Tapes!Idle.at = "idle"
BY DEF Tapes!Idle, Kept, RecordsWell, ReplaysWell, KeepsPace

LEMMA OpenedKeeps ==
  ASSUME TapesInv, NEW c \in Tapes!Command, NEW p \in Process, Tapes!Open(p, c)
  PROVE  TapesInv'
<1>1. /\ UNCHANGED <<file, disturbed>> /\ overlapped' \in BOOLEAN /\ disturbed \in BOOLEAN
  BY DEF Tapes!Open, TapesInv, Tapes!TypeOK
<1>2. (file # Tapes!Absent) \in BOOLEAN /\ (~Tapes!Replays(c)) \in BOOLEAN
      /\ 0 \in Nat /\ 0 \in 0..MaxAttempts - 1 /\ 0 \in 0..MaxRedirects
      /\ "start" \in Tapes!Place
      /\ <<>> \in Seq(Body) /\ <<>> \in Seq(Tapes!Interaction)
  BY TapeConstants DEF Tapes!Place
<1> DEFINE d == Tapes!Resolved(c)
<1>3. d \in Tapes!Command
  BY DEF Tapes!Resolved, Tapes!Command
<1> HIDE DEF d
<1>4. CASE Tapes!Refuses(c)
  <2> DEFINE s == Tapes!Opened(c, "done", <<>>, Tapes!Absent)
  <2>1. run' = [run EXCEPT ![p] = s]
    BY <1>4 DEF Tapes!Open
  <2>2. s \in Tapes!Runs /\ s.at = "done" /\ s.source = Tapes!Absent
    BY <1>2, <1>3 DEF Tapes!Opened, Tapes!Runs, d
  <2> HIDE DEF s
  <2>3. Kept(s)
    BY <2>2 DEF Kept, RecordsWell, ReplaysWell, KeepsPace
  <2> QED BY <1>1, <2>1, <2>2, <2>3, OneMoves
<1>5. CASE ~Tapes!Refuses(c) /\ Tapes!Replays(c)
  <2> DEFINE s == Tapes!Opened(c, "replay", file.tape, file)
  <2>1. run' = [run EXCEPT ![p] = s]
    BY <1>5 DEF Tapes!Open
  <2>2. /\ file \in Tapes!Recording /\ file # Tapes!Absent /\ IsRecording(file)
    BY <1>5 DEF Tapes!Refuses, Tapes!Saved, TapesInv, Tapes!TypeOK
  <2>3. /\ file.tape \in Seq(Tapes!Interaction) /\ Len(file.tape) \in Nat
        /\ file.got \in Seq(Body) /\ Len(file.got) \in Nat /\ file.ok \in BOOLEAN
    BY <2>2 DEF Tapes!Recording
  <2>4. /\ s \in Tapes!Runs /\ s.at = "replay" /\ s.source = file /\ s.tape = file.tape
        /\ s.i = 0 /\ s.attempt = 0 /\ s.got = <<>> /\ s.ok = FALSE /\ s.recording = FALSE
        /\ s.cmd = d /\ s.hops = 0 /\ s.place = "start"
    BY <1>2, <1>3, <1>5, <2>2, <2>3 DEF Tapes!Opened, Tapes!Runs, d
  <2>5. Tapes!PageNo(s) = 1
    BY <2>4 DEF Tapes!PageNo
  <2> HIDE DEF s
  <2>6. RecordsWell(s) /\ ReplaysWell(s)
    BY <2>2, <2>3, <2>4 DEF RecordsWell, ReplaysWell
  <2>7. ASSUME Faithful(s) PROVE \E asked : InStep(s, asked)
    <3>1. PICK asked : Paced(file.tape, file.by, asked, Len(file.tape) - 1)
      BY <2>2, <2>4, <2>7 DEF Faithful, IsRecording
    <3>2. asked[1] \in Positions
      BY <3>1 DEF Paced
    <3>3. InStep(s, asked)
      <4>1. /\ asked[1].attempt \in Nat /\ asked[1].hops = 0 /\ asked[1].place = "start"
            /\ s.i + 1 = 1
        BY <2>4, <3>1, <3>2 DEF Paced, Positions
      <4>2. Paced(s.tape, s.source.by, asked, Len(s.tape) - 1)
        BY <2>4, <3>1
      <4> QED BY <2>4, <4>1, <4>2 DEF InStep
    <3> QED BY <3>3
  <2>8. KeepsPace(s)
    BY <2>4, <2>5, <2>7 DEF KeepsPace, PageAt
  <2> QED BY <1>1, <2>1, <2>4, <2>6, <2>8, OneMoves DEF Kept
<1>6. CASE ~Tapes!Refuses(c) /\ ~Tapes!Replays(c)
  <2> DEFINE s == Tapes!Opened(c, "record", <<>>, Tapes!Absent)
  <2>1. run' = [run EXCEPT ![p] = s]
    BY <1>6 DEF Tapes!Open
  <2>2. /\ s \in Tapes!Runs /\ s.at = "record" /\ s.source = Tapes!Absent /\ s.tape = <<>>
        /\ s.attempt = 0 /\ s.got = <<>> /\ s.ok = FALSE /\ s.recording = TRUE /\ s.cmd = d
        /\ s.hops = 0 /\ s.place = "start" /\ Position(s) \in Positions
    BY <1>2, <1>3, <1>6 DEF Tapes!Opened, Tapes!Runs, Position, Positions, d
  <2> HIDE DEF s
  <2>3. d.retries \in Nat \ {0}
    BY <1>3, CommandTypes
  <2>4. IsTape(<<>>, d, <<>>) /\ GoesOn(<<>>, d, 0)
    BY DEF IsTape, GoesOn, PageAt
  <2>5. \E asked : Paced(<<>>, d, asked, 0) /\ asked[1] = Position(s)
    <3> DEFINE asked == [k \in Nat |-> Position(s)]
    <3>1. asked \in [Nat -> Positions] /\ asked[1] = Position(s)
      BY <2>2
    <3>2. Position(s).hops = 0 /\ Position(s).place = "start"
      BY <2>2 DEF Position
    <3>3. Paced(<<>>, d, asked, 0)
      BY <3>1, <3>2 DEF Paced
    <3> QED BY <3>1, <3>3
  <2>6. RecordsWell(s)
    BY <2>2, <2>3, <2>4, <2>5, TapeConstants DEF RecordsWell
  <2>7. ReplaysWell(s) /\ KeepsPace(s)
    BY <2>2 DEF ReplaysWell, KeepsPace
  <2> QED BY <1>1, <2>1, <2>2, <2>6, <2>7, OneMoves DEF Kept
<1> QED BY <1>4, <1>5, <1>6

LEMMA RecordedType ==
  ASSUME NEW r \in Tapes!Runs
  PROVE  Tapes!Recorded(r) \in Tapes!Recording
BY RunTypes, CommandTypes DEF Tapes!Recorded, Tapes!Recording

LEMMA DoneKeeps ==
  ASSUME NEW r \in Tapes!Runs, r.recording, NEW ok \in BOOLEAN
  PROVE  LET s == [r EXCEPT !.at = "done", !.ok = ok] IN s \in Tapes!Runs /\ Kept(s)
<1> DEFINE s == [r EXCEPT !.at = "done", !.ok = ok]
<1>1. s \in Tapes!Runs /\ s.at = "done" /\ s.recording
  BY DEF Tapes!Runs
<1> QED BY <1>1 DEF Kept, RecordsWell, ReplaysWell, KeepsPace

LEMMA SavingKeeps ==
  ASSUME NEW r \in Tapes!Runs, r.recording, r.at = "close", Kept(r)
  PROVE  LET s == [r EXCEPT !.at = "saving"] IN s \in Tapes!Runs /\ Kept(s)
<1> DEFINE s == [r EXCEPT !.at = "saving"]
<1>1. /\ s \in Tapes!Runs /\ s.at = "saving" /\ s.recording
      /\ Tapes!Recorded(s) = Tapes!Recorded(r)
  BY DEF Tapes!Runs, Tapes!Recorded
<1> QED BY <1>1 DEF Kept, RecordsWell, ReplaysWell, KeepsPace

(* The steps that only change what one command is.                         *)
LEMMA CommandKeeps ==
  ASSUME TapesInv, NEW p \in Process, NEW s \in {Tapes!Idle} \cup Tapes!Runs, Kept(s),
         Tapes!Set(p, s)
  PROVE  TapesInv'
<1>1. /\ run' = [run EXCEPT ![p] = s] /\ file' = file
      /\ overlapped' \in BOOLEAN /\ disturbed' \in BOOLEAN
  BY DEF Tapes!Set, TapesInv, Tapes!TypeOK
<1> QED BY <1>1, OneMoves

LEMMA StepKeeps ==
  ASSUME TapesInv, NEW p \in Process,
         \/ \E c \in Tapes!Command : Tapes!Open(p, c)
         \/ \E resp \in Tapes!Response : Tapes!Answered(p, resp)
         \/ Tapes!RequestError(p) \/ Tapes!TimedOut(p)
         \/ Tapes!Mismatch(p) \/ Tapes!Replay(p) \/ Tapes!Undecodable(p)
         \/ Tapes!CloseReplay(p) \/ Tapes!CloseUnsaved(p) \/ Tapes!ReplaceFile(p)
         \/ Tapes!ReplaceFails(p) \/ Tapes!SaveRefused(p)
         \/ Tapes!SaveBegins(p) \/ Tapes!SaveEnds(p) \/ Tapes!SaveFails(p)
         \/ Tapes!Exit(p) \/ Tapes!Kill(p)
  PROVE  TapesInv'
<1> DEFINE r == run[p]
<1>1. r.at # "idle" => r \in Tapes!Runs
  BY Busy DEF TapesInv
<1>2. Kept(r) /\ overlapped \in BOOLEAN /\ disturbed \in BOOLEAN
  BY DEF TapesInv, Kept, Tapes!TypeOK
<1>3. ASSUME NEW c \in Tapes!Command, Tapes!Open(p, c) PROVE TapesInv'
  BY <1>3, OpenedKeeps
<1> HIDE DEF r
<1>4. ASSUME NEW resp \in Tapes!Response, Tapes!Answered(p, resp) PROVE TapesInv'
  <2> DEFINE s == Tapes!Received(Tapes!Taped(r, resp), resp)
  <2>1. r.at = "record" /\ Tapes!Set(p, s)
    BY <1>4 DEF Tapes!Answered, r
  <2>2. s \in Tapes!Runs /\ Kept(s)
    BY <1>1, <1>2, <2>1, AnsweredKeeps DEF Kept
  <2> QED BY <2>1, <2>2, CommandKeeps
<1>5. CASE Tapes!RequestError(p)
  <2> DEFINE s == [Tapes!AgainOrFail(r) EXCEPT !.interrupted = @ \/ Tapes!Interrupted(r)]
  <2>1. r.at = "record" /\ Tapes!Set(p, s)
    BY <1>5 DEF Tapes!RequestError, r
  <2>2. s \in Tapes!Runs /\ Kept(s)
    BY <1>1, <1>2, <2>1, RequestErrorKeeps DEF Kept
  <2> QED BY <2>1, <2>2, CommandKeeps
<1>6. CASE Tapes!TimedOut(p)
  <2> DEFINE s == Tapes!Ended(r, FALSE)
  <2>1. r.at = "record" /\ Tapes!Set(p, s)
    BY <1>6 DEF Tapes!TimedOut, r
  <2>2. s \in Tapes!Runs /\ SameCommand(r, s) /\ s.got = r.got /\ s.at = "close" /\ ~s.ok
    BY <1>1, <2>1, EndedIs
  <2>3. Kept(s)
    BY <1>1, <1>2, <2>1, <2>2, GivenUp DEF Kept
  <2> QED BY <2>1, <2>2, <2>3, CommandKeeps
<1>7. CASE Tapes!Mismatch(p)
  <2> DEFINE s == Tapes!Ended(IF Tapes!Exhausted(r) THEN r ELSE Tapes!Played(r), FALSE)
  <2>1. r.at = "replay" /\ ~Tapes!Matches(r) /\ Tapes!Set(p, s)
    BY <1>7 DEF Tapes!Mismatch, r
  <2>2. s \in Tapes!Runs /\ Kept(s)
    BY <1>1, <1>2, <2>1, MismatchKeeps
  <2> QED BY <2>1, <2>2, CommandKeeps
<1>8. CASE Tapes!Replay(p)
  <2> DEFINE s == Tapes!Received(Tapes!Played(r), Tapes!Next1(r).resp)
  <2>1. /\ r.at = "replay" /\ Tapes!Matches(r) /\ ~Tapes!Next1(r).resp.zip
        /\ Tapes!Set(p, s)
    BY <1>8 DEF Tapes!Replay, r
  <2>2. s \in Tapes!Runs /\ Kept(s)
    BY <1>1, <1>2, <2>1, ReplayedKeeps
  <2> QED BY <2>1, <2>2, CommandKeeps
<1>9. CASE Tapes!Undecodable(p)
  <2> DEFINE s == Tapes!AgainOrFail(Tapes!Played(r))
  <2>1. /\ r.at = "replay" /\ Tapes!Matches(r) /\ Tapes!Next1(r).resp.zip
        /\ Tapes!Set(p, s)
    BY <1>9 DEF Tapes!Undecodable, r
  <2>2. s \in Tapes!Runs /\ Kept(s)
    BY <1>1, <1>2, <2>1, UndecodableKeeps
  <2> QED BY <2>1, <2>2, CommandKeeps
<1>10. CASE Tapes!CloseReplay(p)
  <2> DEFINE s == [r EXCEPT !.at = "done", !.ok = @ /\ Tapes!Exhausted(r)]
  <2>1. r.at = "close" /\ ~r.recording /\ Tapes!Set(p, s)
    BY <1>10 DEF Tapes!CloseReplay, r
  <2>2. s \in Tapes!Runs /\ Kept(s)
    BY <1>1, <1>2, <2>1, CloseReplayKeeps
  <2> QED BY <2>1, <2>2, CommandKeeps
<1>11. CASE Tapes!CloseUnsaved(p)
  <2> DEFINE s == [r EXCEPT !.at = "done"]
  <2>1. r.at = "close" /\ r.recording /\ Tapes!Set(p, s)
    BY <1>11 DEF Tapes!CloseUnsaved, r
  <2>2. r.ok \in BOOLEAN /\ s = [r EXCEPT !.at = "done", !.ok = r.ok]
    BY <1>1, <2>1, RunTypes DEF Tapes!Runs
  <2>3. s \in Tapes!Runs /\ Kept(s)
    BY <1>1, <2>1, <2>2, DoneKeeps
  <2> QED BY <2>1, <2>3, CommandKeeps
<1>12. CASE Tapes!ReplaceFile(p)
  <2> DEFINE s == [r EXCEPT !.at = "done"]
  <2>1. /\ r.at = "close" /\ r.recording /\ run' = [run EXCEPT ![p] = s]
        /\ file' = Tapes!Recorded(r) /\ UNCHANGED <<overlapped, disturbed>>
    BY <1>12 DEF Tapes!ReplaceFile, TapesInv, Tapes!TypeOK, r
  <2>2. r.ok \in BOOLEAN /\ s = [r EXCEPT !.at = "done", !.ok = r.ok]
    BY <1>1, <2>1, RunTypes DEF Tapes!Runs
  <2>3. s \in Tapes!Runs /\ Kept(s)
    BY <1>1, <2>1, <2>2, DoneKeeps
  <2>4. file' \in Tapes!Recording /\ IsRecording(file')
    BY <1>1, <1>2, <2>1, RecordedType DEF Kept, RecordsWell
  <2> QED BY <1>2, <2>1, <2>3, <2>4, OneMoves
<1>13. CASE Tapes!SaveBegins(p)
  <2> DEFINE s == [r EXCEPT !.at = "saving"]
  <2>1. /\ r.at = "close" /\ r.recording /\ run' = [run EXCEPT ![p] = s]
        /\ file' = Tapes!Torn /\ UNCHANGED <<overlapped, disturbed>>
    BY <1>13 DEF Tapes!SaveBegins, TapesInv, Tapes!TypeOK, r
  <2>2. s \in Tapes!Runs /\ Kept(s)
    BY <1>1, <1>2, <2>1, SavingKeeps
  <2> QED BY <1>2, <2>1, <2>2, OneMoves
<1>14. CASE Tapes!SaveEnds(p)
  <2> DEFINE s == [r EXCEPT !.at = "done"]
  <2>1. /\ r.at = "saving" /\ run' = [run EXCEPT ![p] = s]
        /\ file' \in {Tapes!Recorded(r), Tapes!Torn, file}
        /\ UNCHANGED <<overlapped, disturbed>>
    BY <1>14 DEF Tapes!SaveEnds, TapesInv, Tapes!TypeOK, r
  <2>2. r.recording /\ IsRecording(Tapes!Recorded(r)) /\ Tapes!Recorded(r) \in Tapes!Recording
    BY <1>1, <1>2, <2>1, RecordedType DEF Kept, RecordsWell
  <2>3. r.ok \in BOOLEAN /\ s = [r EXCEPT !.at = "done", !.ok = r.ok]
    BY <1>1, <2>1, RunTypes DEF Tapes!Runs
  <2>4. s \in Tapes!Runs /\ Kept(s)
    BY <1>1, <2>1, <2>2, <2>3, DoneKeeps
  <2> HIDE DEF s
  <2>5. CASE file' = Tapes!Recorded(r)
    BY <1>2, <2>1, <2>2, <2>4, <2>5, OneMoves
  <2>6. CASE file' \in {file, Tapes!Absent, Tapes!Torn}
    BY <1>2, <2>1, <2>4, <2>6, OneMoves
  <2> QED BY <2>1, <2>5, <2>6
<1>15. CASE Tapes!SaveFails(p)
  <2> DEFINE s == [r EXCEPT !.at = "done", !.ok = FALSE]
  <2>1. /\ r.at = "saving" /\ run' = [run EXCEPT ![p] = s]
        /\ file' = file /\ overlapped' = overlapped /\ disturbed' = TRUE
    BY <1>15 DEF Tapes!SaveFails, TapesInv, Tapes!TypeOK, r
  <2>2. s \in Tapes!Runs /\ Kept(s)
    BY <1>1, <1>2, <2>1, DoneKeeps DEF Kept, RecordsWell
  <2> QED BY <1>2, <2>1, <2>2, OneMoves
<1>16. CASE Tapes!Exit(p)
  <2>1. Tapes!Set(p, Tapes!Idle)
    BY <1>16 DEF Tapes!Exit
  <2> QED BY <2>1, IdleIsKept, CommandKeeps
<1>17. CASE Tapes!Kill(p)
  <2>1. /\ run' = [run EXCEPT ![p] = Tapes!Idle]
        /\ file' = file /\ overlapped' = overlapped /\ disturbed' \in BOOLEAN
    BY <1>2, <1>17 DEF Tapes!Kill
  <2> QED BY <1>2, <2>1, IdleIsKept, OneMoves
<1>18. CASE Tapes!ReplaceFails(p)
  <2> DEFINE s == [r EXCEPT !.at = "done", !.ok = FALSE]
  <2>1. /\ r.at = "close" /\ r.recording /\ run' = [run EXCEPT ![p] = s]
        /\ file' \in {file, Tapes!Recorded(r)} /\ UNCHANGED <<overlapped, disturbed>>
    BY <1>18 DEF Tapes!ReplaceFails, TapesInv, Tapes!TypeOK, r
  <2>2. s \in Tapes!Runs /\ Kept(s)
    BY <1>1, <2>1, DoneKeeps
  <2>3. Tapes!Recorded(r) \in Tapes!Recording /\ IsRecording(Tapes!Recorded(r))
    BY <1>1, <1>2, <2>1, RecordedType DEF Kept, RecordsWell
  <2> HIDE DEF s
  <2> QED BY <1>2, <2>1, <2>2, <2>3, OneMoves
<1>19. CASE Tapes!SaveRefused(p)
  <2> DEFINE s == [r EXCEPT !.at = "done", !.ok = FALSE]
  <2>1. r.at = "close" /\ r.recording /\ Tapes!Set(p, s)
    BY <1>19 DEF Tapes!SaveRefused, r
  <2>2. s \in Tapes!Runs /\ Kept(s)
    BY <1>1, <2>1, DoneKeeps
  <2> QED BY <2>1, <2>2, CommandKeeps
<1> QED
  BY <1>3, <1>4, <1>5, <1>6, <1>7, <1>8, <1>9, <1>10, <1>11, <1>12, <1>13, <1>14, <1>15,
     <1>16, <1>17, <1>18, <1>19

LEMMA TapesNext == TapesInv /\ [Tapes!Next]_(Tapes!vars) => TapesInv'
<1> SUFFICES ASSUME TapesInv, [Tapes!Next]_(Tapes!vars) PROVE TapesInv'
  OBVIOUS
<1>1. CASE UNCHANGED Tapes!vars
  BY <1>1 DEF Tapes!vars, TapesInv, Tapes!TypeOK, Tapes!Saved
<1>2. CASE Tapes!Remove
  BY <1>2 DEF Tapes!Remove, TapesInv, Tapes!TypeOK, Tapes!Saved
<1>3. CASE Tapes!Next /\ ~Tapes!Remove
  BY <1>3, StepKeeps DEF Tapes!Next
<1> QED BY <1>1, <1>2, <1>3

LEMMA TapesInvariance == Spec => [](part = "tapes" => TapesInv)
<1>1. Init => (part = "tapes" => TapesInv)
  BY TapesInit DEF Init
<1>2. (part = "tapes" => TapesInv) /\ [Next]_vars => (part = "tapes" => TapesInv)'
  BY TapesNext DEF Next, vars, tapes, Tapes!vars
<1> QED BY <1>1, <1>2, PTL DEF Spec

(* For every number of pages, attempts and processes, a replay that        *)
(* succeeds gives the pages of the recording, all and in order: the keys   *)
(* compared in handle_request and assert_exhausted of cassette.py are      *)
(* enough.                                                                 *)
THEOREM ReplaysAreSound == Spec => []ReplayIsSound
<1>1. (part = "tapes" => TapesInv) => ReplayIsSound
  <2>1. SUFFICES ASSUME part = "tapes" => TapesInv, part = "tapes",
                        NEW p \in Process, Tapes!ReplayOf(p), run[p].ok
                 PROVE  /\ run[p].source.by.url = run[p].cmd.url
                        /\ run[p].source.got = run[p].got
    BY DEF ReplayIsSound, Tapes!ReplayIsSound
  <2> DEFINE r == run[p]
  <2>2. r.at = "done" /\ ~r.recording /\ r.source # Tapes!Absent
    BY <2>1 DEF Tapes!ReplayOf
  <2>3. r \in Tapes!Runs /\ ReplaysWell(r)
    BY <2>1, <2>2, Busy DEF TapesInv
  <2> HIDE DEF r
  <2>4. /\ r.tape = r.source.tape /\ IsTape(r.tape, r.source.by, r.source.got)
        /\ \A k \in 1..Len(r.got) : r.got[k] = r.source.got[k]
        /\ r.source.by.url = r.cmd.url /\ Tapes!PageNo(r) = PageAt(r.tape, Len(r.tape))
    BY <2>1, <2>2, <2>3 DEF ReplaysWell, IsRecording, r
  <2>5. /\ r.got \in Seq(Body) /\ r.source.got \in Seq(Body)
        /\ Len(r.got) \in Nat /\ Len(r.source.got) \in Nat
    BY <2>2, <2>3, ReplayTypes
  <2>6. Len(r.got) = Len(r.source.got)
    BY <2>4, <2>5 DEF IsTape, Tapes!PageNo
  <2>7. r.source.got = r.got
    BY <2>4, <2>5, <2>6
  <2> QED BY <2>4, <2>7 DEF r
<1> QED BY <1>1, TapesInvariance, PTL

(* For the same, and every limit on redirects, a replay of the requests    *)
(* that were recorded ends as the recording did, unless that asked for a   *)
(* page again behind a redirect: no busy answer makes it give up earlier,  *)
(* as it counts no attempt that the recording did not.                     *)
THEOREM ReplaysReproduce == Spec => []ReplayReproduces
<1>1. (part = "tapes" => TapesInv) => ReplayReproduces
  <2>1. SUFFICES ASSUME part = "tapes" => TapesInv, part = "tapes",
                        NEW p \in Process, Tapes!ReplayOf(p), Faithful(run[p])
                 PROVE  run[p].ok = run[p].source.ok
    BY DEF ReplayReproduces, Tapes!ReplayReproduces, Faithful
  <2>2. run[p].at = "done" /\ ~run[p].recording /\ run[p].source # Tapes!Absent
    BY <2>1 DEF Tapes!ReplayOf
  <2>3. KeepsPace(run[p])
    BY <2>1 DEF TapesInv
  <2> QED BY <2>1, <2>2, <2>3 DEF KeepsPace
<1> QED BY <1>1, TapesInvariance, PTL
=============================================================================
