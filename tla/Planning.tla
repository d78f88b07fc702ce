------------------------------ MODULE Planning ------------------------------
(***************************************************************************)
(* CheckPlanner.plan, step by step: the depth first search over the        *)
(* dependencies with its stack of calls (_resolve_dependencies), and the   *)
(* loop that sorts the selected checks into planned and skipped.           *)
(***************************************************************************)
EXTENDS CheckPlanner

CONSTANT Inputs  \* the registries and requests, in pairs

RegistryOK(reg) ==
  /\ reg.checks \subseteq CheckId
  /\ reg.dependencies \in [reg.checks -> Seq(CheckId)]
  /\ reg.check_ids \in [{"quick", "standard", "strict"} -> Seq(CheckId)]
  /\ reg.parallel_safe \subseteq CheckId /\ reg.cacheable \subseteq CheckId
  /\ reg.wired \subseteq CheckId /\ reg.tests \subseteq CheckId
  /\ reg.max_attempts \in [CheckId -> Nat \ {0}]

RequestOK(req) ==
  /\ req.profile \in {"quick", "standard", "strict", "adaptive"}
  /\ req.changed \subseteq ChangedFile
  /\ {req.ci_like, req.has_tests, req.tool_ready, req.targeted} \subseteq BOOLEAN

InputsOK == \A input \in Inputs : RegistryOK(input[1]) /\ RequestOK(input[2])

ASSUME InputsAssumption == InputsOK

VARIABLES registry,  \* the registry snapshot planned from
          request,   \* the invocation
          work,      \* the planner's local variables
          made       \* the planner's answer, NoPlan before

planningVars == <<registry, request, work, made>>

PlanningInit ==
  /\ \E input \in Inputs : registry = input[1] /\ request = input[2]
  /\ work = Started(registry, request)
  /\ made = NoPlan

Works(w) ==
  /\ work' = w
  /\ UNCHANGED <<registry, request, made>>

Visit == Visiting(work) /\ Works(Visited(registry, work))

ReturnVisit == Returning(work) /\ Works(Returned(work))

Resolve == Resolving(work) /\ Works(Resolved(registry, request, work))

Sort == Sorting(work) /\ Works(Sorted(request, work))

Answers(p) ==
  /\ made = NoPlan
  /\ made' = p
  /\ UNCHANGED <<registry, request, work>>

Finish ==
  /\ work.at = "items" /\ ~Sorting(work)
  /\ Answers(PlanOf(registry, request, work))

RaiseKeyError == work.at = "KeyError" /\ Answers(KeyError)

(* The plan is handed to the runner. *)
Planned ==
  /\ made # NoPlan
  /\ UNCHANGED planningVars

PlanningNext == Visit \/ ReturnVisit \/ Resolve \/ Sort \/ Finish \/ RaiseKeyError \/ Planned

PlanningSpec == PlanningInit /\ [][PlanningNext]_planningVars

-----------------------------------------------------------------------------
Made == made.status = "ok"

(* The registered checks may name others that are not.                     *)
Closed(reg, ids, s) ==
  /\ ids \subseteq s
  /\ \A c \in s \cap reg.checks : ToSet(reg.dependencies[c]) \subseteq s

(* Reference definition, without any traversal: the least set that has the *)
(* requested checks and the dependencies of its members.                   *)
Closure(reg, ids) ==
  CHOOSE s \in SUBSET CheckId :
    /\ Closed(reg, ids, s)
    /\ \A t \in SUBSET CheckId : Closed(reg, ids, t) => s \subseteq t

(* No check reaches itself: some order puts every dependency first.        *)
Acyclic(reg) ==
  ~\E s \in (SUBSET reg.checks) \ {{}} :
      \A c \in s : ToSet(reg.dependencies[c]) \cap s # {}

(* The planner takes exactly the dependency closure of the profile: a check *)
(* is planned, skipped for a missing prerequisite, or not selected, never   *)
(* two of these, and planning fails exactly when the closure leaves the     *)
(* registry.                                                                *)
SelectionIsTheClosure ==
  LET closure == Closure(registry, ToSet(RequestedIds(registry, request)))
  IN  /\ made.status = "KeyError" => ~(closure \subseteq registry.checks)
      /\ Made =>
           /\ closure \subseteq registry.checks
           /\ ToSet(made.selected) = closure \ request.missing_prereqs
           /\ made.skipped = registry.checks \ ToSet(made.selected)
           /\ \A i, j \in DOMAIN made.selected : made.selected[i] = made.selected[j] => i = j

(* In a plan from an acyclic registry every dependency of a selected check  *)
(* is skipped or stands before it: the order the runner relies on.          *)
PlanOrderIsTopological ==
  Made /\ Acyclic(registry) =>
    \A i \in DOMAIN made.selected : \A d \in made.dependencies[made.selected[i]] :
      d \in made.skipped \/ \E j \in 1..(i - 1) : made.selected[j] = d
=============================================================================
