-------------------------- MODULE PatchApplyProofs --------------------------
(***************************************************************************)
(* Proofs about PatchApply, for every set of patches, number of files and  *)
(* number of attempts; after them those about AtomicFile.                  *)
(*                                                                         *)
(* ZeroMeansApplied rests on Current: the text a command is about to write *)
(* is the one it read with its patch added, unless another command read it *)
(* meanwhile; so nobody takes a patch out of a file that nobody overlaps,  *)
(* and Passed keeps the files behind the loop patched.                     *)
(***************************************************************************)
EXTENDS PatchApply, AtomicFile, FiniteSetTheorems, TLAPS

Shown(p, f) == p \in content[f] \/ f \in overlapped

AtWrite ==
  \A p \in Patch : pc[p] = "write" =>
    /\ at[p] \in File /\ options[p].mode = "apply"
    /\ at[p] \in files_touched[p]

Current ==
  \A p \in Patch : pc[p] = "write" /\ at[p] \notin overlapped =>
    /\ content[at[p]] = old[p]
    /\ \A q \in Patch \ {p} : pc[q] = "write" => at[q] # at[p]

Passed ==
  \A p \in Patch : options[p].mode = "apply" =>
    /\ pc[p] = "start" => at[p] = 1
    /\ pc[p] \in {"loop", "write"} => \A f \in File : f < at[p] => Shown(p, f)
    /\ pc[p] = "report" /\ status_code[p] = 0 => \A f \in File : Shown(p, f)
    /\ pc[p] = "exited" /\ exit[p] = 0 => \A f \in File : Shown(p, f)

Noted ==
  \A p \in Patch :
    /\ wrote[p] \subseteq files_touched[p]
    /\ options[p].mode # "apply" => wrote[p] = {}
    /\ options[p].mode = "apply" /\ pc[p] \in {"start", "loop"} => wrote[p] = files_touched[p]
    /\ pc[p] = "write" => files_touched[p] = wrote[p] \cup {at[p]}

Reported ==
  \A p \in Patch :
    /\ reported[p] => pc[p] = "exited"
    /\ options[p].mode = "apply" /\ (pc[p] = "report" \/ reported[p]) =>
         /\ \E f \in File : files_touched[p] \subseteq wrote[p] \cup {f}
         /\ status_code[p] = 0 => wrote[p] = files_touched[p]

Spent ==
  \A p \in Patch :
    /\ IsFiniteSet(files_touched[p])
    /\ Cardinality(files_touched[p]) <= options[p].max_total
    /\ pc[p] \in {"start", "loop", "write"} =>
         Cardinality(files_touched[p]) <= total_changed[p]

IndInv ==
  TypeOK /\ AtWrite /\ Current /\ Passed /\ Noted /\ Reported /\ Spent

-----------------------------------------------------------------------------
LEMMA InitIndInv == Init => IndInv
  <1> SUFFICES ASSUME Init PROVE IndInv
    OBVIOUS
  <1> USE FilesAssumption DEF Init, File
  <1>1. TypeOK
    BY DEF TypeOK, Options, Labels, NoExit
  <1>2. AtWrite /\ Current /\ Passed /\ Noted
    BY DEF AtWrite, Current, Passed, Noted
  <1>3. Reported
    BY DEF Reported
  <1>4. Spent
    BY FS_EmptySet DEF Spent
  <1> QED
    BY <1>1, <1>2, <1>3, <1>4 DEF IndInv

LEMMA TypesStep ==
  ASSUME IndInv, NEW p \in Patch, Step(p) PROVE TypeOK'
  <1> USE FilesAssumption
      DEF IndInv, TypeOK, File, files, report, outcome, Goto, Labels, NoExit, Traceback
  <1>1. CASE Start(p)
    <2>1. at' \in [Patch -> 1..(Files + 1)] /\ files_touched' \in [Patch -> SUBSET File]
      BY <1>1 DEF Start, NewReport
    <2>2. \A q \in Patch : files_touched'[q] \subseteq 1..at'[q]
      BY <1>1 DEF Start, NewReport
    <2>3. options' \in [Patch -> Options] /\ pc' \in [Patch -> Labels]
      BY <1>1 DEF Start
    <2>4. total_changed' \in [Patch -> Nat] /\ starts' \in Nat
      BY <1>1 DEF Start
    <2>5. /\ status_code' \in [Patch -> 0..2] /\ exit' \in [Patch -> {0, 1, 2, NoExit}]
          /\ reported' \in [Patch -> BOOLEAN] /\ wrote' \in [Patch -> SUBSET File]
      BY <1>1 DEF Start, NewReport
    <2> QED
      BY <1>1, <2>1, <2>2, <2>3, <2>4, <2>5 DEF Start
  <1>2. CASE Validate(p)
    <2>1. pc' \in [Patch -> Labels] /\ status_code' \in [Patch -> 0..2]
      <3>1. CASE Goto(p, "loop") /\ UNCHANGED status_code
        BY <3>1
      <3>2. CASE Fails(p)
        BY <3>2 DEF Fails
      <3> QED
        BY <1>2, <3>1, <3>2 DEF Validate
    <2> QED
      BY <1>2, <2>1 DEF Validate
  <1>3. CASE Refused(p)
    BY <1>3 DEF Refused, Fails
  <1>4. CASE Undecodable(p)
    BY <1>4 DEF Undecodable
  <1>5. CASE Unchanged(p)
    <2>1. at[p] \in 1..Files /\ at' = [at EXCEPT ![p] = at[p] + 1]
      BY <1>5 DEF Unchanged, AtFile
    <2>2. at' \in [Patch -> 1..(Files + 1)] /\ \A q \in Patch : at[q] <= at'[q]
      BY <2>1
    <2>3. \A q \in Patch : files_touched[q] \subseteq 1..at'[q]
      BY <2>2
    <2> QED
      BY <1>5, <2>2, <2>3 DEF Unchanged
  <1>6. CASE TooMuch(p)
    BY <1>6 DEF TooMuch, Changes, AtFile, Fails
  <1>7. CASE Change(p)
    <2>1. at[p] \in 1..Files
      BY <1>7 DEF Change, Changes, AtFile
    <2>2. /\ at' \in [Patch -> 1..(Files + 1)] /\ pc' \in [Patch -> Labels]
          /\ \A q \in Patch : at[q] <= at'[q]
      <3>1. CASE Applies(p)
        BY <1>7, <3>1 DEF Change
      <3>2. CASE ~Applies(p)
        <4>1. at' = [at EXCEPT ![p] = at[p] + 1] /\ UNCHANGED pc
          BY <1>7, <3>2 DEF Change
        <4> QED
          BY <2>1, <4>1
      <3> QED
        BY <3>1, <3>2
    <2>3. /\ files_touched' \in [Patch -> SUBSET File]
          /\ \A q \in Patch : files_touched'[q] \subseteq files_touched[q] \cup {at[q]}
      BY <1>7, <2>1 DEF Change, Touched
    <2>4. \A q \in Patch : files_touched'[q] \subseteq 1..at'[q]
      <3> SUFFICES ASSUME NEW q \in Patch PROVE files_touched'[q] \subseteq 1..at'[q]
        OBVIOUS
      <3>1. at[q] \in 1..(Files + 1) /\ at'[q] \in 1..(Files + 1) /\ at[q] <= at'[q]
        BY <2>2
      <3>2. files_touched[q] \cup {at[q]} \subseteq 1..at'[q]
        BY <3>1
      <3> QED
        BY <2>3, <3>2
    <2>5. total_changed' \in [Patch -> Nat] /\ old' \in [Patch -> SUBSET Patch]
      BY <1>7, <2>1 DEF Change, Changes
    <2>6. overlapped' \subseteq File
      <3>1. overlapped' \subseteq overlapped \cup {at[p]}
        BY <1>7 DEF Change, Overlap
      <3> QED
        BY <2>1, <3>1
    <2> QED
      BY <1>7, <2>2, <2>3, <2>4, <2>5, <2>6 DEF Change
  <1>8. CASE WriteFile(p)
    <2>1. at[p] \in 1..Files /\ at' = [at EXCEPT ![p] = at[p] + 1]
      BY <1>8 DEF WriteFile, AtWrite
    <2>2. at' \in [Patch -> 1..(Files + 1)] /\ \A q \in Patch : at[q] <= at'[q]
      BY <2>1
    <2>3. \A q \in Patch : files_touched[q] \subseteq 1..at'[q]
      BY <2>2
    <2>4. content' \in [File -> SUBSET Patch] /\ wrote' \in [Patch -> SUBSET File]
      BY <1>8, <2>1 DEF WriteFile, Replace
    <2> QED
      BY <1>8, <2>2, <2>3, <2>4 DEF WriteFile
  <1>9. CASE WriteFails(p)
    <2>1. at[p] \in 1..Files
      BY <1>9 DEF WriteFails, AtWrite
    <2>2. content' \in [File -> SUBSET Patch] /\ wrote' \in [Patch -> SUBSET File]
      <3>1. CASE Replace(p)
        BY <2>1, <3>1 DEF Replace
      <3>2. CASE UNCHANGED <<content, wrote>>
        BY <3>2
      <3> QED
        BY <1>9, <3>1, <3>2 DEF WriteFails
    <2>3. pc' \in [Patch -> Labels] /\ status_code' \in [Patch -> 0..2] /\ UNCHANGED at
      BY <1>9 DEF WriteFails, Abandon, Fails
    <2> QED
      BY <1>9, <2>2, <2>3 DEF WriteFails
  <1>10. CASE Complete(p)
    BY <1>10 DEF Complete
  <1>11. CASE Return(p)
    BY <1>11 DEF Return
  <1>12. CASE ReportFails(p)
    BY <1>12 DEF ReportFails
  <1>13. CASE Kill(p)
    BY <1>13 DEF Kill
  <1> QED
    BY <1>1, <1>2, <1>3, <1>4, <1>5, <1>6, <1>7, <1>8, <1>9, <1>10, <1>11, <1>12, <1>13 DEF Step

LEMMA AtWriteStep ==
  ASSUME IndInv, NEW p \in Patch, Step(p) PROVE AtWrite'
  <1> USE DEF IndInv, TypeOK, AtWrite, files, report, outcome, Goto
  <1>1. CASE Start(p)
    BY <1>1 DEF Start, NewReport
  <1>2. CASE Validate(p)
    BY <1>2 DEF Validate, Fails
  <1>3. CASE Refused(p)
    BY <1>3 DEF Refused, Fails
  <1>4. CASE Undecodable(p)
    BY <1>4 DEF Undecodable
  <1>5. CASE Unchanged(p)
    BY <1>5 DEF Unchanged, AtFile
  <1>6. CASE TooMuch(p)
    BY <1>6 DEF TooMuch, Fails
  <1>7. CASE Change(p)
    BY <1>7 DEF Change, Changes, AtFile, Touched, Applies
  <1>8. CASE WriteFile(p)
    BY <1>8 DEF WriteFile
  <1>9. CASE WriteFails(p)
    BY <1>9 DEF WriteFails, Abandon, Fails
  <1>10. CASE Complete(p)
    BY <1>10 DEF Complete
  <1>11. CASE Return(p)
    BY <1>11 DEF Return
  <1>12. CASE ReportFails(p)
    BY <1>12 DEF ReportFails
  <1>13. CASE Kill(p)
    BY <1>13 DEF Kill
  <1> QED
    BY <1>1, <1>2, <1>3, <1>4, <1>5, <1>6, <1>7, <1>8, <1>9, <1>10, <1>11, <1>12, <1>13 DEF Step

LEMMA CurrentStep ==
  ASSUME IndInv, NEW p \in Patch, Step(p) PROVE Current'
  <1> USE DEF IndInv, TypeOK, Current, AtWrite, files, report, outcome, Goto
  <1>1. CASE Start(p)
    BY <1>1 DEF Start
  <1>2. CASE Validate(p)
    BY <1>2 DEF Validate, Fails
  <1>3. CASE Refused(p)
    BY <1>3 DEF Refused, Fails
  <1>4. CASE Undecodable(p)
    BY <1>4 DEF Undecodable
  <1>5. CASE Unchanged(p)
    BY <1>5 DEF Unchanged, AtFile
  <1>6. CASE TooMuch(p)
    BY <1>6 DEF TooMuch, Changes, AtFile, Fails
  <1>7. CASE Change(p)
    <2>1. CASE Applies(p)
      BY <1>7, <2>1 DEF Change, Changes, AtFile, Overlap
    <2>2. CASE ~Applies(p)
      BY <1>7, <2>2 DEF Change, Changes, AtFile
    <2> QED
      BY <2>1, <2>2
  <1>8. CASE WriteFile(p)
    BY <1>8 DEF WriteFile, Replace
  <1>9. CASE WriteFails(p)
    BY <1>9 DEF WriteFails, Replace, Abandon, Fails
  <1>10. CASE Complete(p)
    BY <1>10 DEF Complete
  <1>11. CASE Return(p)
    BY <1>11 DEF Return
  <1>12. CASE ReportFails(p)
    BY <1>12 DEF ReportFails
  <1>13. CASE Kill(p)
    BY <1>13 DEF Kill
  <1> QED
    BY <1>1, <1>2, <1>3, <1>4, <1>5, <1>6, <1>7, <1>8, <1>9, <1>10, <1>11, <1>12, <1>13 DEF Step

(* No step takes a patch out of a file that is not overlapped. *)
LEMMA ShownStays ==
  ASSUME IndInv, NEW p \in Patch, Step(p),
         NEW q \in Patch, NEW f \in File, Shown(q, f)
  PROVE  Shown(q, f)'
  <1> USE DEF IndInv, TypeOK, Shown, files
  <1>1. CASE content' = [content EXCEPT ![at[p]] = old[p] \cup {p}]
             /\ pc[p] = "write" /\ UNCHANGED overlapped
    BY <1>1 DEF Current, AtWrite
  <1>2. CASE UNCHANGED content /\ overlapped \subseteq overlapped'
    BY <1>2
  <1> QED
    BY <1>1, <1>2 DEF Step, Start, Validate, Refused, Undecodable, Unchanged, TooMuch, Change,
       Overlap, WriteFile, WriteFails, Replace, Complete, Return, ReportFails, Kill

LEMMA PassedStep ==
  ASSUME IndInv, NEW p \in Patch, Step(p) PROVE Passed'
  <1> SUFFICES ASSUME NEW q \in Patch, options'[q].mode = "apply"
               PROVE  /\ pc'[q] = "start" => at'[q] = 1
                      /\ pc'[q] \in {"loop", "write"} =>
                           \A f \in File : f < at'[q] => Shown(q, f)'
                      /\ pc'[q] = "report" /\ status_code'[q] = 0 =>
                           \A f \in File : Shown(q, f)'
                      /\ pc'[q] = "exited" /\ exit'[q] = 0 =>
                           \A f \in File : Shown(q, f)'
    BY DEF Passed
  <1>0. \A f \in File : Shown(q, f) => Shown(q, f)'
    BY ShownStays
  <1>00. pc \in [Patch -> Labels] /\ at \in [Patch -> 1..(Files + 1)]
    BY DEF IndInv, TypeOK
  <1> USE <1>0, <1>00 DEF IndInv, Passed, files, report, outcome, Goto
  <1>1. CASE Start(p)
    BY <1>1 DEF Start, NewReport, TypeOK
  <1>2. CASE Validate(p)
    <2>1. CASE Goto(p, "loop") /\ UNCHANGED status_code
      BY <1>2, <2>1 DEF Validate, TypeOK, File
    <2>2. CASE Fails(p)
      BY <1>2, <2>2 DEF Validate, Fails, TypeOK
    <2> QED
      BY <1>2, <2>1, <2>2 DEF Validate
  <1>3. CASE Refused(p)
    BY <1>3 DEF Refused, Fails, TypeOK
  <1>4. CASE Undecodable(p)
    BY <1>4 DEF Undecodable, Traceback, TypeOK
  <1>5. CASE Unchanged(p)
    BY <1>5 DEF Unchanged, AtFile, Shown, File, TypeOK
  <1>6. CASE TooMuch(p)
    BY <1>6 DEF TooMuch, Fails, TypeOK
  <1>7. CASE Change(p)
    <2>1. CASE Applies(p)
      BY <1>7, <2>1 DEF Change, Changes, AtFile
    <2>2. CASE ~Applies(p)
      BY <1>7, <2>2 DEF Change, Changes, AtFile, Applies
    <2> QED
      BY <2>1, <2>2
  <1>8. CASE WriteFile(p)
    <2>1. content' = [content EXCEPT ![at[p]] = old[p] \cup {p}] /\ at[p] \in File
      BY <1>8 DEF WriteFile, Replace, AtWrite
    <2>2. \A f \in File : f = at[p] => Shown(p, f)'
      BY <2>1 DEF Shown, TypeOK
    <2>3. /\ at' = [at EXCEPT ![p] = at[p] + 1] /\ pc' = [pc EXCEPT ![p] = "loop"]
          /\ UNCHANGED <<options, status_code, exit>> /\ pc[p] = "write"
      BY <1>8 DEF WriteFile
    <2>4. \A f \in File : f < at[p] + 1 => f < at[p] \/ f = at[p]
      BY <2>1 DEF File
    <2> HIDE DEF Shown
    <2> QED
      BY <2>2, <2>3, <2>4
  <1>9. CASE WriteFails(p)
    BY <1>9 DEF WriteFails, Abandon, Fails, TypeOK
  <1>10. CASE Complete(p)
    <2>1. at[p] > Files /\ pc[p] = "loop"
      BY <1>10 DEF Complete
    <2>2. \A f \in File : f < at[p]
      BY <2>1, FilesAssumption DEF File
    <2>3. UNCHANGED <<options, at, exit>> /\ pc' = [pc EXCEPT ![p] = "report"]
      BY <1>10 DEF Complete
    <2>4. \A r \in Patch \ {p} : status_code'[r] = status_code[r]
      BY <1>10 DEF Complete, TypeOK
    <2> QED
      BY <2>1, <2>2, <2>3, <2>4
  <1>11. CASE Return(p)
    BY <1>11 DEF Return, TypeOK
  <1>12. CASE ReportFails(p)
    BY <1>12 DEF ReportFails, Traceback, TypeOK
  <1>13. CASE Kill(p)
    BY <1>13 DEF Kill
  <1> QED
    BY <1>1, <1>2, <1>3, <1>4, <1>5, <1>6, <1>7, <1>8, <1>9, <1>10, <1>11, <1>12, <1>13 DEF Step

LEMMA NotedStep ==
  ASSUME IndInv, NEW p \in Patch, Step(p) PROVE Noted'
  <1> USE DEF IndInv, TypeOK, Noted, AtWrite, files, report, outcome, Goto
  <1>1. CASE Start(p)
    BY <1>1 DEF Start, NewReport
  <1>2. CASE Validate(p)
    BY <1>2 DEF Validate, Fails
  <1>3. CASE Refused(p)
    BY <1>3 DEF Refused, Fails
  <1>4. CASE Undecodable(p)
    BY <1>4 DEF Undecodable
  <1>5. CASE Unchanged(p)
    BY <1>5 DEF Unchanged, AtFile
  <1>6. CASE TooMuch(p)
    BY <1>6 DEF TooMuch, Changes, AtFile, Fails
  <1>7. CASE Change(p)
    BY <1>7 DEF Change, Changes, AtFile, Touched, Applies
  <1>8. CASE WriteFile(p)
    BY <1>8 DEF WriteFile, Replace
  <1>9. CASE WriteFails(p)
    <2>1. CASE Replace(p)
      BY <1>9, <2>1 DEF WriteFails, Replace, Abandon, Fails
    <2>2. CASE UNCHANGED <<content, wrote>>
      BY <1>9, <2>2 DEF WriteFails, Abandon, Fails
    <2> QED
      BY <1>9, <2>1, <2>2 DEF WriteFails
  <1>10. CASE Complete(p)
    BY <1>10 DEF Complete
  <1>11. CASE Return(p)
    BY <1>11 DEF Return
  <1>12. CASE ReportFails(p)
    BY <1>12 DEF ReportFails
  <1>13. CASE Kill(p)
    BY <1>13 DEF Kill
  <1> QED
    BY <1>1, <1>2, <1>3, <1>4, <1>5, <1>6, <1>7, <1>8, <1>9, <1>10, <1>11, <1>12, <1>13 DEF Step

LEMMA ReportedStep ==
  ASSUME IndInv, NEW p \in Patch, Step(p) PROVE Reported'
  <1>0. 1 \in File
    BY FilesAssumption DEF File
  <1> USE <1>0 DEF IndInv, TypeOK, Reported, Noted, AtWrite, files, report, outcome, Goto
  <1>1. CASE Start(p)
    BY <1>1 DEF Start, NewReport
  <1>2. CASE Validate(p)
    BY <1>2 DEF Validate, Fails
  <1>3. CASE Refused(p)
    BY <1>3 DEF Refused, Fails, AtFile
  <1>4. CASE Undecodable(p)
    BY <1>4 DEF Undecodable, AtFile
  <1>5. CASE Unchanged(p)
    BY <1>5 DEF Unchanged, AtFile
  <1>6. CASE TooMuch(p)
    BY <1>6 DEF TooMuch, Changes, AtFile, Fails
  <1>7. CASE Change(p)
    BY <1>7 DEF Change, Changes, AtFile, Touched
  <1>8. CASE WriteFile(p)
    BY <1>8 DEF WriteFile, Replace
  <1>9. CASE WriteFails(p)
    <2>1. CASE Replace(p)
      BY <1>9, <2>1 DEF WriteFails, Replace, Abandon, Fails
    <2>2. CASE UNCHANGED <<content, wrote>>
      BY <1>9, <2>2 DEF WriteFails, Abandon, Fails
    <2> QED
      BY <1>9, <2>1, <2>2 DEF WriteFails
  <1>10. CASE Complete(p)
    BY <1>10 DEF Complete
  <1>11. CASE Return(p)
    BY <1>11 DEF Return
  <1>12. CASE ReportFails(p)
    BY <1>12 DEF ReportFails
  <1>13. CASE Kill(p)
    BY <1>13 DEF Kill
  <1> QED
    BY <1>1, <1>2, <1>3, <1>4, <1>5, <1>6, <1>7, <1>8, <1>9, <1>10, <1>11, <1>12, <1>13 DEF Step

LEMMA OneMore ==
  ASSUME NEW S, NEW x, IsFiniteSet(S)
  PROVE  IsFiniteSet(S \cup {x}) /\ Cardinality(S \cup {x}) <= Cardinality(S) + 1
  <1>1. Cardinality(S) \in Nat
    BY FS_CardinalityType
  <1>2. /\ IsFiniteSet(S \cup {x})
        /\ Cardinality(S \cup {x}) = IF x \in S THEN Cardinality(S) ELSE Cardinality(S) + 1
    BY FS_AddElement
  <1> QED
    BY <1>1, <1>2

LEMMA SpentStep ==
  ASSUME IndInv, NEW p \in Patch, Step(p) PROVE Spent'
  <1>0. \A q \in Patch : Cardinality(files_touched[q]) \in Nat
    BY FS_CardinalityType DEF IndInv, Spent
  <1>00. \A q \in Patch : options[q].max_total \in Nat
    BY DEF IndInv, TypeOK, Options, File
  <1> USE <1>0, <1>00 DEF IndInv, TypeOK, Spent, files, report, outcome, Goto
  <1>1. CASE Start(p)
    <2>1. options' \in [Patch -> Options] /\ options'[p].max_total \in Nat
      BY <1>1 DEF Start, Options, File
    <2>2. /\ files_touched' = [files_touched EXCEPT ![p] = {}]
          /\ total_changed' = [total_changed EXCEPT ![p] = 0]
          /\ pc' = [pc EXCEPT ![p] = "start"]
      BY <1>1 DEF Start, NewReport
    <2>3. \A q \in Patch \ {p} : options'[q] = options[q]
      BY <1>1 DEF Start
    <2> QED
      BY <2>1, <2>2, <2>3, FS_EmptySet
  <1>2. CASE Validate(p)
    BY <1>2 DEF Validate, Fails
  <1>3. CASE Refused(p)
    BY <1>3 DEF Refused, Fails
  <1>4. CASE Undecodable(p)
    BY <1>4 DEF Undecodable
  <1>5. CASE Unchanged(p)
    BY <1>5 DEF Unchanged
  <1>6. CASE TooMuch(p)
    BY <1>6 DEF TooMuch, Changes, Fails
  <1>7. CASE Change(p)
    <2>1. /\ files_touched' = [files_touched EXCEPT ![p] = files_touched[p] \cup {at[p]}]
          /\ total_changed' = [total_changed EXCEPT ![p] = total_changed[p] + 1]
          /\ total_changed[p] + 1 <= options[p].max_total
          /\ UNCHANGED options /\ pc[p] = "loop"
          /\ \A q \in Patch \ {p} : pc'[q] = pc[q]
      BY <1>7 DEF Change, Changes, AtFile, Touched, Exceeds
    <2>2. /\ IsFiniteSet(files_touched[p] \cup {at[p]})
          /\ Cardinality(files_touched[p] \cup {at[p]}) <= Cardinality(files_touched[p]) + 1
      BY OneMore
    <2>3. Cardinality(files_touched[p] \cup {at[p]}) \in Nat
      BY <2>2, FS_CardinalityType
    <2> QED
      BY <2>1, <2>2, <2>3
  <1>8. CASE WriteFile(p)
    BY <1>8 DEF WriteFile
  <1>9. CASE WriteFails(p)
    BY <1>9 DEF WriteFails, Abandon, Fails
  <1>10. CASE Complete(p)
    BY <1>10 DEF Complete
  <1>11. CASE Return(p)
    BY <1>11 DEF Return
  <1>12. CASE ReportFails(p)
    BY <1>12 DEF ReportFails
  <1>13. CASE Kill(p)
    BY <1>13 DEF Kill
  <1> QED
    BY <1>1, <1>2, <1>3, <1>4, <1>5, <1>6, <1>7, <1>8, <1>9, <1>10, <1>11, <1>12, <1>13 DEF Step

LEMMA NextIndInv == IndInv /\ [Next]_vars => IndInv'
  <1> SUFFICES ASSUME IndInv, [Next]_vars PROVE IndInv'
    OBVIOUS
  <1>1. ASSUME NEW p \in Patch, Step(p) PROVE IndInv'
    BY <1>1, TypesStep, AtWriteStep, CurrentStep, PassedStep, NotedStep, ReportedStep,
       SpentStep DEF IndInv
  <1>2. CASE UNCHANGED vars
    BY <1>2 DEF vars, files, report, outcome, IndInv, TypeOK, AtWrite, Current, Passed, Shown,
       Noted, Reported, Spent
  <1> QED
    BY <1>1, <1>2 DEF Next, Ended

LEMMA Invariance == Spec => []IndInv
  <1> QED
    BY InitIndInv, NextIndInv, PTL DEF Spec

(* The commands' variables keep their types.                               *)
THEOREM TypesHold == Spec => []TypeOK
  <1>1. IndInv => TypeOK
    BY DEF IndInv
  <1> QED
    BY <1>1, Invariance, PTL

(* Exit code 0 of a command means that every file shows its patch, or was  *)
(* read by another command just when it was to be replaced.                *)
THEOREM AppliedAtZero == Spec => []ZeroMeansApplied
  <1>1. IndInv => ZeroMeansApplied
    BY DEF IndInv, Passed, Shown, ZeroMeansApplied
  <1> QED
    BY <1>1, Invariance, PTL

(* The report names what was replaced and at most one file more, also when *)
(* the command failed.                                                     *)
THEOREM HonestReports == Spec => []ReportIsHonest
  <1>1. IndInv => ReportIsHonest
    <2> SUFFICES ASSUME IndInv, NEW p \in Patch, reported[p], options[p].mode = "apply"
                 PROVE  /\ wrote[p] \subseteq files_touched[p]
                        /\ Cardinality(files_touched[p] \ wrote[p]) <= 1
                        /\ status_code[p] = 0 => wrote[p] = files_touched[p]
      BY DEF ReportIsHonest
    <2>1. PICK f \in File : files_touched[p] \subseteq wrote[p] \cup {f}
      BY DEF IndInv, Reported
    <2>2. files_touched[p] \ wrote[p] \subseteq {f}
      BY <2>1
    <2>3. IsFiniteSet({f}) /\ Cardinality({f}) = 1
      BY FS_Singleton
    <2>4. Cardinality(files_touched[p] \ wrote[p]) <= 1
      BY <2>2, <2>3, FS_Subset
    <2> QED
      BY <2>4 DEF IndInv, Noted, Reported
  <1> QED
    BY <1>1, Invariance, PTL

(* Nothing is replaced by --check and --dry-run, and never more than the   *)
(* limit allows.                                                           *)
THEOREM BudgetIsKept == Spec => []BudgetHolds
  <1>1. IndInv => BudgetHolds
    <2> SUFFICES ASSUME IndInv, NEW p \in Patch
                 PROVE  /\ options[p].mode # "apply" => wrote[p] = {}
                        /\ Cardinality(wrote[p]) <= options[p].max_total
      BY DEF BudgetHolds
    <2>1. wrote[p] \subseteq files_touched[p] /\ IsFiniteSet(files_touched[p])
      BY DEF IndInv, Noted, Spent
    <2>2. /\ Cardinality(wrote[p]) <= Cardinality(files_touched[p])
          /\ Cardinality(wrote[p]) \in Nat /\ Cardinality(files_touched[p]) \in Nat
      BY <2>1, FS_Subset, FS_CardinalityType
    <2>3. options[p].max_total \in Nat
      BY DEF IndInv, TypeOK, Options, File
    <2> QED
      BY <2>2, <2>3 DEF IndInv, Noted, Spent
  <1> QED
    BY <1>1, Invariance, PTL

-----------------------------------------------------------------------------
(***************************************************************************)
(* The write of one file, which PatchApply takes to be one step: proofs    *)
(* about AtomicFile, for any number of calls and of power losses.  Readers *)
(* see an atomic register, never a part of a document, and what was        *)
(* acknowledged as durable is never replaced by something older.           *)
(***************************************************************************)

(* Only whole contents can be read back from the disk.                     *)
PendingIsWhole == pending \cap Writer \subseteq data

SyncedIsOnDisk == \A w \in Writer : stage[w] = "synced" => w \in data

(* A call has a stamp from its os.replace on, and none after a running     *)
(* call has replaced the target unless its own came later.                 *)
StampsInOrder ==
  /\ \A v \in Writer \cup {Initial} : stamp[v] <= clock
  /\ \A w \in Writer :
       /\ stage[w] \in {"idle", "open", "written", "synced"} => stamp[w] = 0
       /\ stage[w] = "replaced" => stamp[w] > 0 /\ stamp[target] >= stamp[w]

TempsAreOwned ==
  \A w \in temps : stage[w] \in {"open", "written", "synced", "cleanup"} \/ w \in keepsTemp

AtomicInv ==
  /\ FileTypeOK
  /\ target \in pending
  /\ PendingIsWhole /\ SyncedIsOnDisk /\ StampsInOrder /\ TempsAreOwned
  /\ DurableSurvives

LEMMA AtomicInitInv == FileInit => AtomicInv
BY ContentsAssumption DEF ContentsOK, FileInit, AtomicInv, FileTypeOK, Stages, PendingIsWhole,
       SyncedIsOnDisk, StampsInOrder, TempsAreOwned, DurableSurvives

(* What a power loss leaves of a replacement is the replacement.           *)
LEMMA OnDiskIsWhole ==
  ASSUME AtomicInv, NEW v \in pending
  PROVE  OnDisk(v) = v
BY DEF AtomicInv, FileTypeOK, PendingIsWhole, OnDisk

(* The steps of one call.                                                  *)
LEMMA CallInv ==
  ASSUME AtomicInv, NEW w \in Writer, WriterStep(w) \/ KillWriter(w)
  PROVE  AtomicInv'
<1> USE DEF AtomicInv, FileTypeOK, Stages, Active, Reaches,
            PendingIsWhole, SyncedIsOnDisk, StampsInOrder, TempsAreOwned, DurableSurvives
<1>1. CASE CreateFails(w)  BY <1>1 DEF CreateFails
<1>2. CASE Create(w)  BY <1>2 DEF Create
<1>3. CASE Write(w)  BY <1>3 DEF Write
<1>4. CASE SyncData(w)  BY <1>4 DEF SyncData
<1>5. CASE Raises(w)  BY <1>5 DEF Raises
<1>6. CASE ReplaceTarget(w)
  <2>1. /\ w \notin {v \in Writer : stage[v] \in {"durable", "replaced"}}
        /\ stamp' = [stamp EXCEPT ![w] = clock + 1] /\ clock' = clock + 1
        /\ target' = w /\ pending' = pending \cup {w}
        /\ stage' = [stage EXCEPT ![w] = "replaced"]
        /\ temps' = temps \ {w} /\ w \in data
        /\ UNCHANGED <<data, keepsTemp, losses>>
    BY <1>6 DEF ReplaceTarget
  <2>2. /\ FileTypeOK' /\ target' \in pending'
        /\ PendingIsWhole' /\ SyncedIsOnDisk' /\ TempsAreOwned'
    BY <2>1
  <2>3. StampsInOrder'
    BY <2>1
  <2>4. DurableSurvives'
    BY <2>1
  <2> QED BY <2>2, <2>3, <2>4
<1>7. CASE SyncDirectory(w)  BY <1>7 DEF SyncDirectory
<1>8. CASE SkipDirectory(w)  BY <1>8 DEF SkipDirectory
<1>9. CASE SyncDirectoryFails(w)  BY <1>9 DEF SyncDirectoryFails
<1>10. CASE CleanUp(w)  BY <1>10 DEF CleanUp
<1>11. CASE KillWriter(w)  BY <1>11 DEF KillWriter
<1> QED
  BY <1>1, <1>2, <1>3, <1>4, <1>5, <1>6, <1>7, <1>8, <1>9, <1>10, <1>11 DEF WriterStep

LEMMA PowerLossInv ==
  ASSUME AtomicInv, PowerLoss
  PROVE  AtomicInv'
<1>1. PICK v \in pending : target' = OnDisk(v) /\ pending' = {v}
  BY DEF PowerLoss
<1>2. target' = v
  BY <1>1, OnDiskIsWhole
<1> QED
  BY <1>1, <1>2
  DEF PowerLoss, AtomicInv, FileTypeOK, Stages, Active, PendingIsWhole,
      SyncedIsOnDisk,
      StampsInOrder, TempsAreOwned, DurableSurvives

LEMMA AtomicNextInv == AtomicInv /\ [FileNext]_fileVars => AtomicInv'
<1> SUFFICES ASSUME AtomicInv, [FileNext]_fileVars PROVE AtomicInv'
  OBVIOUS
<1>1. CASE \E w \in Writer : WriterStep(w) \/ KillWriter(w)  BY <1>1, CallInv
<1>2. CASE PowerLoss  BY <1>2, PowerLossInv
<1>3. CASE UNCHANGED fileVars
  BY <1>3 DEF fileVars, AtomicInv, FileTypeOK, PendingIsWhole, SyncedIsOnDisk,
              StampsInOrder,
              TempsAreOwned, DurableSurvives
<1> QED BY <1>1, <1>2, <1>3 DEF FileNext, AllReturned

LEMMA AtomicInvariance == FileSpec => []AtomicInv
BY AtomicInitInv, AtomicNextInv, PTL DEF FileSpec

(* The variables keep their types.                                         *)
THEOREM AtomicTypesHold == FileSpec => []FileTypeOK
<1>1. AtomicInv => FileTypeOK
  BY DEF AtomicInv
<1> QED BY <1>1, AtomicInvariance, PTL

(* Whatever fails, is killed or loses power, a reader of the target finds  *)
(* a whole document.                                                       *)
THEOREM NothingPartial == FileSpec => []NeverPartial
<1>1. AtomicInv => NeverPartial
  BY ContentsAssumption DEF ContentsOK, AtomicInv, FileTypeOK, NeverPartial
<1> QED BY <1>1, AtomicInvariance, PTL

(* A write acknowledged after the directory was synced is not rolled back. *)
THEOREM DurabilityHolds == FileSpec => []DurableSurvives
<1>1. AtomicInv => DurableSurvives
  BY DEF AtomicInv
<1> QED BY <1>1, AtomicInvariance, PTL

(* A temporary file is left behind only by a kill, a power loss or a       *)
(* failing unlink.                                                         *)
THEOREM NoLitterHolds == FileSpec => []NoLitter
<1>1. AtomicInv => NoLitter
  BY DEF AtomicInv, TempsAreOwned, NoLitter, Returned
<1> QED BY <1>1, AtomicInvariance, PTL

-----------------------------------------------------------------------------
Calls == [w \in Writer |-> Status(w)]

(* A step of a call that moves it from one status to the next changes the  *)
(* calls of the register in that place only.                               *)
LEMMA CallsChange ==
  ASSUME NEW w \in Writer, \A v \in Writer \ {w} : Status(v)' = Status(v)
  PROVE  Calls' = [Calls EXCEPT ![w] = Status(w)']
BY DEF Calls

LEMMA OthersKeepStatus ==
  ASSUME AtomicInv, NEW w \in Writer, WriterStep(w) \/ KillWriter(w)
  PROVE  \A v \in Writer \ {w} : Status(v)' = Status(v)
<1>1. \A v \in Writer \ {w} : stage'[v] = stage[v] /\ stamp'[v] = stamp[v]
  BY DEF AtomicInv, FileTypeOK, WriterStep, KillWriter, Reaches, CreateFails,
         Create, Write, SyncData, Raises, ReplaceTarget,
         SyncDirectory, SkipDirectory, SyncDirectoryFails, CleanUp
<1> QED BY <1>1 DEF Status

LEMMA StepRefines ==
  ASSUME AtomicInv, NEW w \in Writer, WriterStep(w) \/ KillWriter(w)
  PROVE  [Register!Next]_(Register!vars)
<1>1. Calls' = [Calls EXCEPT ![w] = Status(w)']
  BY CallsChange, OthersKeepStatus
<1>2. Calls[w] = Status(w) /\ DOMAIN Calls = Writer
  BY DEF Calls
<1>3. Status(w)' = Status(w) => Calls' = Calls
  BY <1>1, <1>2 DEF Calls
<1> USE DEF AtomicInv, FileTypeOK, Reaches, StampsInOrder
<1>4. CASE CreateFails(w)
  <2>1. Status(w) = "idle" /\ Status(w)' = "error" /\ UNCHANGED <<target, pending>>
    BY <1>4 DEF CreateFails, Status
  <2> QED BY <2>1, <1>1, <1>2 DEF Register!Next, Register!Fail, Calls
<1>5. CASE Create(w)
  <2>1. Status(w) = "idle" /\ Status(w)' = "active" /\ UNCHANGED <<target, pending>>
    BY <1>5 DEF Create, Status
  <2> QED BY <2>1, <1>1, <1>2 DEF Register!Next, Register!Begin, Calls
<1>6. CASE \/ Write(w) \/ SyncData(w)
           \/ Raises(w) \/ SyncDirectoryFails(w)
  <2>1. Status(w)' = Status(w) /\ UNCHANGED <<target, pending>>
    BY <1>6 DEF Write, SyncData, Raises, SyncDirectoryFails,
                Status
  <2> QED BY <2>1, <1>3 DEF Register!vars, Calls
<1>7. CASE ReplaceTarget(w)
  <2>1. /\ Status(w) = "active" /\ Status(w)' = "effective"
        /\ target' = w /\ pending' = pending \cup {w}
    BY <1>7 DEF ReplaceTarget, Status
  <2> QED BY <2>1, <1>1, <1>2 DEF Register!Next, Register!TakeEffect, Calls
<1>8. CASE SyncDirectory(w)
  <2>1. /\ Status(w) = "effective" /\ Status(w)' = "ok"
        /\ UNCHANGED target /\ pending' \in {pending, {target}}
    BY <1>8 DEF SyncDirectory, Status
  <2> QED BY <2>1, <1>1, <1>2 DEF Register!Next, Register!Succeed, Calls
<1>9. CASE SkipDirectory(w)
  <2>1. /\ Status(w) = "effective" /\ Status(w)' = "ok"
        /\ UNCHANGED target /\ pending' \in {pending, {target}}
    BY <1>9 DEF SkipDirectory, Status
  <2> QED BY <2>1, <1>1, <1>2 DEF Register!Next, Register!Succeed, Calls
<1>10. CASE CleanUp(w)
  <2>1. /\ Status(w) \in {"active", "effective"} /\ Status(w)' = "error"
        /\ UNCHANGED <<target, pending>>
    BY <1>10 DEF CleanUp, Status
  <2> QED BY <2>1, <1>1, <1>2 DEF Register!Next, Register!Fail, Calls
<1>11. CASE KillWriter(w)
  <2>1. /\ Status(w) \in {"active", "effective"} /\ Status(w)' = "dead"
        /\ UNCHANGED <<target, pending>>
    BY <1>11 DEF KillWriter, Active, Status
  <2> QED BY <2>1, <1>1, <1>2 DEF Register!Next, Register!Die, Calls
<1> QED
  BY <1>4, <1>5, <1>6, <1>7, <1>8, <1>9, <1>10, <1>11 DEF WriterStep

LEMMA PowerLossRefines ==
  ASSUME AtomicInv, PowerLoss
  PROVE  Register!PowerLoss
<1>1. PICK v \in pending : target' = OnDisk(v) /\ pending' = {v}
  BY DEF PowerLoss
<1>2. target' = v /\ target' \in pending /\ pending' = {target'}
  BY <1>1, OnDiskIsWhole
<1>3. ASSUME NEW w \in Writer
      PROVE  Status(w)' =
               IF Status(w) \in {"active", "effective"} THEN "dead" ELSE Status(w)
  <2>1. /\ stage'[w] = IF stage[w] \in Active THEN "killed" ELSE stage[w]
        /\ stage[w] \in Stages /\ UNCHANGED stamp
    BY DEF PowerLoss, AtomicInv, FileTypeOK
  <2>2. CASE stage[w] \in Active  BY <2>1, <2>2 DEF Status, Active
  <2>3. CASE stage[w] \notin Active  BY <2>1, <2>3
    DEF Status, Active, Stages
  <2> QED BY <2>2, <2>3
<1> QED BY <1>2, <1>3 DEF Register!PowerLoss

(* The file implements the atomic register.                                *)
THEOREM AtomicRefinement == FileSpec => IsRegister
<1>1. FileInit => Register!Init
  BY DEF FileInit, Register!Init, Status
<1>2. AtomicInv /\ [FileNext]_fileVars => [Register!Next]_(Register!vars)
  <2> SUFFICES ASSUME AtomicInv, [FileNext]_fileVars
               PROVE  [Register!Next]_(Register!vars)
    OBVIOUS
  <2>1. CASE \E w \in Writer : WriterStep(w) \/ KillWriter(w)  BY <2>1, StepRefines
  <2>2. CASE PowerLoss  BY <2>2, PowerLossRefines DEF Register!Next
  <2>3. CASE UNCHANGED fileVars  BY <2>3 DEF fileVars, Register!vars, Status
  <2> QED BY <2>1, <2>2, <2>3 DEF FileNext, AllReturned
<1> QED BY <1>1, <1>2, AtomicInvariance, PTL DEF FileSpec, IsRegister,
                                                 Register!Spec
=============================================================================
