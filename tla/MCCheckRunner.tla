---------------------------- MODULE MCCheckRunner ---------------------------
(* CheckRunner on plans the planner makes from small registries: the shape  *)
(* of the built-in one (tests_full after lint and typing, not parallel      *)
(* safe), chains, and cyclic ones.                                          *)
EXTENDS CheckRunner

MCCheckId == {"lint", "typing", "tests_full", "doctor"}

Shape(lint, typing, tests, doctor) ==
  [c \in MCCheckId |-> CASE c = "lint" -> lint [] c = "typing" -> typing
                         [] c = "tests_full" -> tests [] c = "doctor" -> doctor]

MCShapes == {Shape(lint, typing, tests, doctor) :
               lint \in {<<>>, <<"doctor">>}, typing \in {<<>>, <<"lint">>},
               tests \in {<<"lint">>, <<"lint", "typing">>, <<"doctor">>},
               doctor \in {<<>>, <<"lint">>, <<"tests_full">>}}

MCRegistries ==
  {[checks        |-> MCCheckId,
    dependencies  |-> shape,
    check_ids     |-> [p \in {"strict", "quick"} |->
                         IF p = "strict" THEN <<"doctor", "tests_full", "typing">>
                                         ELSE <<"typing">>],
    parallel_safe |-> MCCheckId \ exclusive,
    advisory_only |-> {"lint"},
    cacheable     |-> {"lint"},
    wired         |-> MCCheckId \ {"doctor"},
    tests         |-> {"tests_full"},
    max_attempts  |-> [c \in MCCheckId |-> IF c = "tests_full" THEN 2 ELSE 1]] :
    shape \in MCShapes, exclusive \in {{"tests_full"}, {"tests_full", "typing"}}}

MCRequests ==
  {[profile |-> p, ci_like |-> FALSE, has_tests |-> TRUE, tool_ready |-> TRUE,
    targeted |-> TRUE, changed |-> {}, missing_prereqs |-> m] :
      p \in {"strict", "quick"}, m \in {{}, {"lint"}}}

(* What the planner makes of a registry and a request: the steps of         *)
(* Planning, one after the other.                                           *)
Step(reg, req, w) ==
  CASE Visiting(w)  -> Visited(reg, w)
    [] Returning(w) -> Returned(w)
    [] Resolving(w) -> Resolved(reg, req, w)
    [] Sorting(w)   -> Sorted(req, w)
    [] OTHER        -> w

EnoughSteps == 30

PlanFor(reg, req) ==
  LET work[n \in 0..EnoughSteps] ==
        IF n = 0 THEN Started(reg, req) ELSE Step(reg, req, work[n - 1])
  IN  PlanOf(reg, req, work[EnoughSteps])

MCPlans == {PlanFor(reg, req) : reg \in MCRegistries, req \in MCRequests}

ASSUME PlansAreMade ==
  \A reg \in MCRegistries, req \in MCRequests :
    LET p == PlanFor(reg, req)
    IN  ToSet(p.selected) \cup p.skipped = MCCheckId
=============================================================================
