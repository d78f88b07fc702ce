----------------------------- MODULE PatchApply -----------------------------
(***************************************************************************)
(* `sdetkit patch`, main of src/sdetkit/patch.py: commands that each apply *)
(* a spec to the same files, one file after the other, possibly at the     *)
(* same time, failing or killed anywhere, and run again.                   *)
(*                                                                         *)
(* A file is its place in the sorted spec; its text is the set of specs    *)
(* whose operations it shows.  Operations are taken to be idempotent, as   *)
(* the inserting ones and the upserts are (a replace_once need not be).    *)
(* A change counts one against --max-total-bytes-changed.                  *)
(***************************************************************************)
EXTENDS Naturals, FiniteSets

CONSTANTS Patch,    \* specs, each with a command that applies it
          Files,    \* number of files in a spec
          MaxStarts \* bound: commands started

ASSUME FilesAssumption == Files \in Nat \ {0}
ASSUME MaxStartsAssumption == MaxStarts \in Nat

VARIABLES content,    \* per file, the patches in its text
          trouble,    \* per file, what keeps the operations from being applied
          options,    \* per patch, those of its command
          pc, at,     \* per patch, where its command is and at which file
          old,        \* the text it read there
          total_changed, files_touched, status_code,
          exit,       \* the exit code of the last command
          reported,   \* did it write its report?
          wrote,      \* history: files it replaced
          overlapped, \* history: files read while another command was to write them
          starts

files == <<content, trouble, overlapped>>
report == <<files_touched, status_code>>
outcome == <<exit, reported>>
vars == <<files, options, pc, at, old, total_changed, report, outcome, wrote, starts>>

File == 1..Files

Options == [mode : {"apply", "check", "dry_run"},
            report_json : {"no", "fresh", "exists"},
            max_total : File]

NoExit == 99

Traceback == 1 \* of an exception that main lets through

Labels == {"idle", "start", "loop", "write", "report", "exited", "killed"}

Goto(p, label) == pc' = [pc EXCEPT ![p] = label]

Init ==
  /\ content = [f \in File |-> {}]
  /\ trouble \in [File -> {"none", "refused", "undecodable"}]
  /\ options = [p \in Patch |-> [mode |-> "apply", report_json |-> "no", max_total |-> Files]]
  /\ pc = [p \in Patch |-> "idle"] /\ at = [p \in Patch |-> 1]
  /\ old = [p \in Patch |-> {}] /\ total_changed = [p \in Patch |-> 0]
  /\ files_touched = [p \in Patch |-> {}] /\ status_code = [p \in Patch |-> 2]
  /\ exit = [p \in Patch |-> NoExit] /\ reported = [p \in Patch |-> FALSE]
  /\ wrote = [p \in Patch |-> {}] /\ overlapped = {} /\ starts = 0

(* Mutant: the report of the last command is gone on with. *)
OldReport(p) == UNCHANGED report

NewReport(p) ==
  /\ files_touched' = [files_touched EXCEPT ![p] = {}]
  /\ status_code' = [status_code EXCEPT ![p] = 2]

(* A command is started, or started again with other options. *)
Start(p) ==
  /\ starts < MaxStarts /\ pc[p] \in {"idle", "exited", "killed"}
  /\ starts' = starts + 1
  /\ \E o \in Options : options' = [options EXCEPT ![p] = o]
  /\ Goto(p, "start")
  /\ at' = [at EXCEPT ![p] = 1] /\ total_changed' = [total_changed EXCEPT ![p] = 0]
  /\ NewReport(p)
  /\ exit' = [exit EXCEPT ![p] = NoExit] /\ reported' = [reported EXCEPT ![p] = FALSE]
  /\ wrote' = [wrote EXCEPT ![p] = {}]
  /\ UNCHANGED <<files, old>>

(* What the except clause catches: an error is printed, the report stands. *)
Fails(p) ==
  /\ Goto(p, "report")
  /\ status_code' = [status_code EXCEPT ![p] = 2]

(* Limits, root, spec: accepted, or an error before any file is looked at. *)
Validate(p) ==
  /\ pc[p] = "start"
  /\ \/ Goto(p, "loop") /\ UNCHANGED status_code
     \/ Fails(p)
  /\ UNCHANGED <<files, options, at, old, total_changed, files_touched, outcome, wrote, starts>>

AtFile(p) == pc[p] = "loop" /\ at[p] \in File

(* A missing file or a link, operations that do not match, a large file.   *)
Refused(p) ==
  /\ AtFile(p) /\ trouble[at[p]] = "refused"
  /\ Fails(p)
  /\ UNCHANGED <<files, options, at, old, total_changed, files_touched, outcome, wrote, starts>>

(* UnicodeDecodeError is neither of the exceptions that are caught.        *)
Undecodable(p) ==
  /\ AtFile(p) /\ trouble[at[p]] = "undecodable"
  /\ Goto(p, "exited")
  /\ exit' = [exit EXCEPT ![p] = Traceback]
  /\ UNCHANGED <<files, options, at, old, total_changed, report, reported, wrote, starts>>

Unchanged(p) ==
  /\ AtFile(p) /\ trouble[at[p]] = "none" /\ p \in content[at[p]]
  /\ at' = [at EXCEPT ![p] = @ + 1]
  /\ UNCHANGED <<files, options, pc, old, total_changed, report, outcome, wrote, starts>>

(* Mutant: what was changed before this file is compared with the limit. *)
ExceedsLate(p) == total_changed[p] > options[p].max_total

Exceeds(p) == total_changed[p] + 1 > options[p].max_total

Changes(p) ==
  /\ AtFile(p) /\ trouble[at[p]] = "none" /\ p \notin content[at[p]]
  /\ old' = [old EXCEPT ![p] = content[at[p]]]
  /\ total_changed' = [total_changed EXCEPT ![p] = @ + 1]

TooMuch(p) ==
  /\ Changes(p) /\ Exceeds(p)
  /\ Fails(p)
  /\ UNCHANGED <<files, options, at, files_touched, outcome, wrote, starts>>

(* Mutant: the report names a file when the loop comes to the next one. *)
TouchedLater(p) == files_touched' = [files_touched EXCEPT ![p] = 1..(at[p] - 1)]

Touched(p) == files_touched' = [files_touched EXCEPT ![p] = @ \cup {at[p]}]

Overlap(p) ==
  overlapped' = IF \E q \in Patch \ {p} : pc[q] = "write" /\ at[q] = at[p]
                THEN overlapped \cup {at[p]} ELSE overlapped

Applies(p) == options[p].mode = "apply"

(* The diff is printed and the file noted. *)
Change(p) ==
  /\ Changes(p) /\ ~Exceeds(p)
  /\ Touched(p)
  /\ IF Applies(p)
     THEN Goto(p, "write") /\ Overlap(p) /\ UNCHANGED at
     ELSE at' = [at EXCEPT ![p] = @ + 1] /\ UNCHANGED <<pc, overlapped>>
  /\ UNCHANGED <<content, trouble, options, status_code, outcome, wrote, starts>>

Replace(p) ==
  /\ content' = [content EXCEPT ![at[p]] = old[p] \cup {p}]
  /\ wrote' = [wrote EXCEPT ![p] = @ \cup {at[p]}]

(* _write_atomic. *)
WriteFile(p) ==
  /\ pc[p] = "write"
  /\ Replace(p)
  /\ Goto(p, "loop") /\ at' = [at EXCEPT ![p] = @ + 1]
  /\ UNCHANGED <<trouble, overlapped, options, old, total_changed, report, outcome, starts>>

(* Mutant: a file that cannot be written is passed over. *)
PassOver(p) == Goto(p, "loop") /\ at' = [at EXCEPT ![p] = @ + 1] /\ UNCHANGED status_code

Abandon(p) == Fails(p) /\ UNCHANGED at

(* OSError, before the file is replaced or, from the directory, after it.  *)
WriteFails(p) ==
  /\ pc[p] = "write"
  /\ Replace(p) \/ UNCHANGED <<content, wrote>>
  /\ Abandon(p)
  /\ UNCHANGED <<trouble, overlapped, options, old, total_changed, files_touched, outcome, starts>>

Complete(p) ==
  /\ pc[p] = "loop" /\ at[p] > Files
  /\ status_code' = [status_code EXCEPT ![p] =
       IF options[p].mode = "check" /\ files_touched[p] # {} THEN 1 ELSE 0]
  /\ Goto(p, "report")
  /\ UNCHANGED <<files, options, at, old, total_changed, files_touched, outcome, wrote, starts>>

Return(p) ==
  /\ pc[p] = "report" /\ options[p].report_json # "exists"
  /\ Goto(p, "exited")
  /\ reported' = [reported EXCEPT ![p] = options[p].report_json = "fresh"]
  /\ exit' = [exit EXCEPT ![p] = status_code[p]]
  /\ UNCHANGED <<files, options, at, old, total_changed, report, wrote, starts>>

(* _write_report is outside of the try: a report that is there already and *)
(* no --force, or a write that fails, and the exception ends the command.  *)
ReportFails(p) ==
  /\ pc[p] = "report" /\ options[p].report_json # "no"
  /\ Goto(p, "exited")
  /\ exit' = [exit EXCEPT ![p] = Traceback]
  /\ UNCHANGED <<files, options, at, old, total_changed, report, reported, wrote, starts>>

Kill(p) ==
  /\ pc[p] \notin {"idle", "exited", "killed"}
  /\ Goto(p, "killed")
  /\ UNCHANGED <<files, options, at, old, total_changed, report, outcome, wrote, starts>>

Ended ==
  /\ starts = MaxStarts /\ \A p \in Patch : pc[p] \in {"idle", "exited", "killed"}
  /\ UNCHANGED vars

Step(p) ==
  \/ Start(p) \/ Validate(p)
  \/ Refused(p) \/ Undecodable(p) \/ Unchanged(p) \/ TooMuch(p) \/ Change(p)
  \/ WriteFile(p) \/ WriteFails(p)
  \/ Complete(p) \/ Return(p) \/ ReportFails(p) \/ Kill(p)

Next == (\E p \in Patch : Step(p)) \/ Ended

Spec == Init /\ [][Next]_vars

-----------------------------------------------------------------------------
TypeOK ==
  /\ content \in [File -> SUBSET Patch]
  /\ trouble \in [File -> {"none", "refused", "undecodable"}]
  /\ options \in [Patch -> Options]
  /\ pc \in [Patch -> Labels] /\ at \in [Patch -> 1..(Files + 1)]
  /\ old \in [Patch -> SUBSET Patch]
  /\ total_changed \in [Patch -> Nat]
  /\ files_touched \in [Patch -> SUBSET File] /\ \A p \in Patch : files_touched[p] \subseteq 1..at[p]
  /\ status_code \in [Patch -> 0..2] /\ exit \in [Patch -> {0, 1, 2, NoExit}]
  /\ reported \in [Patch -> BOOLEAN] /\ wrote \in [Patch -> SUBSET File]
  /\ overlapped \subseteq File /\ starts \in Nat

(* docs/patch-harness.md:65, exit code 0 is "changes applied               *)
(* successfully": every file of the spec shows the patch, also after other *)
(* commands and whatever earlier attempts failed or were killed, unless    *)
(* another command read the file while it was about to be replaced.        *)
ZeroMeansApplied ==
  \A p \in Patch : pc[p] = "exited" /\ options[p].mode = "apply" /\ exit[p] = 0 =>
    \A f \in File : p \in content[f] \/ f \in overlapped

(* The report of a command that failed half-way names every file that was  *)
(* replaced, and at most one that was not; after a success none.           *)
ReportIsHonest ==
  \A p \in Patch : reported[p] /\ options[p].mode = "apply" =>
    /\ wrote[p] \subseteq files_touched[p]
    /\ Cardinality(files_touched[p] \ wrote[p]) <= 1
    /\ status_code[p] = 0 => wrote[p] = files_touched[p]

(* --check and --dry-run replace nothing, and no command replaces more     *)
(* than its limit, also when it fails for exceeding it.                    *)
BudgetHolds ==
  \A p \in Patch :
    /\ options[p].mode # "apply" => wrote[p] = {}
    /\ Cardinality(wrote[p]) <= options[p].max_total

(* docs/patch-harness.md:66: 1 is the exit code of a --check that detected *)
(* required changes.                                                       *)
OneMeansCheckFailed ==
  \A p \in Patch : exit[p] = 1 =>
    options[p].mode = "check" /\ files_touched[p] # {}
=============================================================================
