---------------------------- MODULE CheckPlanner ----------------------------
(***************************************************************************)
(* The check planner, src/sdetkit/checks/planner.py: which profile an      *)
(* invocation resolves to, which checks it selects and in which order,     *)
(* which it skips, and how far the test checks are narrowed.               *)
(*                                                                         *)
(* A registry maps checks to what CheckDefinition says of them.  A request *)
(* is what the planner reads: the requested profile, the changed files and *)
(* the facts about the host that _resolve_profile looks at.  Planning puts *)
(* the steps defined here together.                                        *)
(***************************************************************************)
EXTENDS Naturals, Sequences, FiniteSets, SequencesExt

CONSTANTS CheckId,      \* every id a profile or a dependency may name
          SmallChange   \* most changed files that still allow targeting (8)

PythonSurface == {"source", "tests", "python"}

(* A changed file is its first path component, its suffix, and whether the  *)
(* test module it maps to exists.                                           *)
ChangedFile == [head : {"tests", "src", "docs", "scripts", "root"},
                suffix : {"py", "md", "toml"},
                has_test : BOOLEAN]

(* classify_changed_files, one file: the head decides before the suffix. *)
Area(f) ==
  CASE f.head = "tests"   -> "tests"
    [] f.head = "src"     -> "source"
    [] f.head = "docs"    -> "docs"
    [] f.head = "scripts" -> "tooling"
    [] f.head = "root"    -> CASE f.suffix = "md" -> "docs"
                               [] f.suffix = "py" -> "python"
                               [] OTHER           -> "root"

Areas(files) == {Area(f) : f \in files}

DocsOnly(files) == files # {} /\ \A f \in files : f.head = "docs" \/ f.suffix = "md"

(* _resolve_profile: the first condition that holds decides. *)
ResolveProfile(req) ==
  IF req.profile # "adaptive" THEN req.profile
  ELSE IF req.ci_like THEN "strict"
  ELSE IF DocsOnly(req.changed) \/ ~req.has_tests \/ ~req.tool_ready THEN "quick"
  ELSE "standard"

(* _infer_test_targets: the changed files that lead to an existing test. *)
TestTargets(files) ==
  {f \in files : f.head \in {"tests", "src"} /\ f.suffix = "py" /\ f.has_test}

(* _targeting_for: as above, the first condition that holds decides. *)
TargetMode(reg, req, c) ==
  LET resolved == ResolveProfile(req)
      narrow == /\ req.targeted
                /\ req.changed # {} /\ Cardinality(req.changed) <= SmallChange
                /\ Areas(req.changed) \cap PythonSurface # {}
                /\ TestTargets(req.changed) # {}
  IN  IF c \notin reg.tests \/ resolved = "strict" \/ req.profile = "strict" THEN "full"
      ELSE IF narrow THEN "targeted"
      ELSE "smoke"

(***************************************************************************)
(* The local variables of plan() and of _resolve_dependencies.  `calls' is *)
(* the stack: the loop over requested_ids and the calls of visit in        *)
(* progress, each with the names it has not come to yet.                   *)
(***************************************************************************)
RequestedIds(reg, req) == reg.check_ids[ResolveProfile(req)]

Started(reg, req) ==
  [at |-> "visit", calls |-> <<[of |-> "requested_ids", left |-> RequestedIds(reg, req)]>>,
   seen |-> {}, ordered |-> <<>>,
   pos |-> 1, selected |-> <<>>, skipped |-> {}]

Visiting(w) == w.at = "visit" /\ Last(w.calls).left # <<>>
Returning(w) == w.at = "visit" /\ Last(w.calls).left = <<>> /\ Len(w.calls) > 1
Resolving(w) == w.at = "visit" /\ Last(w.calls).left = <<>> /\ Len(w.calls) = 1
Sorting(w) == w.at = "items" /\ w.pos <= Len(w.ordered)

(* The next name of the innermost loop, and the loop past it.              *)
Due(w) == Head(Last(w.calls).left)
Passed(w) == [w EXCEPT !.calls[Len(w.calls)].left = Tail(@)]

(* Mutant: dependencies are not followed. *)
EnteredAlone(reg, w, c) ==
  [w EXCEPT !.seen = @ \cup {c}, !.calls = Append(@, [of |-> c, left |-> <<>>])]

Entered(reg, w, c) ==
  [w EXCEPT !.seen = @ \cup {c},
            !.calls = Append(@, [of |-> c, left |-> reg.dependencies[c]])]

(* visit: nothing if the check is seen; a name that is not registered      *)
(* raises KeyError.                                                        *)
Visited(reg, w) ==
  CASE Due(w) \in w.seen -> Passed(w)
    [] Due(w) \notin w.seen /\ Due(w) \notin reg.checks -> [w EXCEPT !.at = "KeyError"]
    [] OTHER -> Entered(reg, Passed(w), Due(w))

(* Mutant: a check is placed before what was placed so far. *)
ReturnedFirst(w) ==
  [w EXCEPT !.ordered = <<Last(w.calls).of>> \o @, !.calls = Front(@)]

(* visit returns: all the dependencies of the check are behind it.         *)
Returned(w) ==
  [w EXCEPT !.ordered = Append(@, Last(w.calls).of), !.calls = Front(@)]

(* The checks that are not selected, one after the other. *)
Resolved(reg, req, w) ==
  [w EXCEPT !.at = "items",
            !.skipped = reg.checks \ (ToSet(w.ordered) \cup ToSet(RequestedIds(reg, req)))]

(* The next selected check: planned, unless a prerequisite is missing. *)
Sorted(req, w) ==
  LET c == w.ordered[w.pos]
  IN  IF c \in req.missing_prereqs
      THEN [w EXCEPT !.pos = @ + 1, !.skipped = @ \cup {c}]
      ELSE [w EXCEPT !.pos = @ + 1, !.selected = Append(@, c)]

NoPlan == [status |-> "none"]

KeyError == [status |-> "KeyError"]

(* The CheckPlan that is returned. *)
PlanOf(reg, req, w) ==
  [status        |-> "ok",
   profile       |-> ResolveProfile(req),
   selected      |-> w.selected,
   skipped       |-> w.skipped,
   dependencies  |-> [c \in CheckId |-> IF c \in reg.checks
                                        THEN ToSet(reg.dependencies[c]) ELSE {}],
   parallel_safe |-> reg.parallel_safe,
   blocking      |-> reg.checks \ reg.advisory_only,
   cacheable     |-> reg.cacheable,
   wired         |-> reg.wired,
   max_attempts  |-> reg.max_attempts,
   target_mode   |-> [c \in CheckId |-> TargetMode(reg, req, c)]]

=============================================================================
