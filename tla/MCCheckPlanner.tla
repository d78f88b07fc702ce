--------------------------- MODULE MCCheckPlanner ---------------------------
(* Planning over every dependency relation on three registered checks and   *)
(* one name nobody registered, in every order and with a name given twice,  *)
(* and over the requests that reach every branch of the profile resolution. *)
EXTENDS Planning

MCChecks == {"lint", "typing", "tests"}

MCCheckId == MCChecks \cup {"ghost"}

Orders(S) ==
  {f \in [1..Cardinality(S) -> S] : \A i, j \in DOMAIN f : f[i] = f[j] => i = j}

DependencyChoices ==
  UNION {Orders(S) : S \in SUBSET MCChecks}
  \cup {<<"ghost">>, <<"lint", "ghost">>, <<"lint", "lint">>}

RegistryWith(deps) ==
  [checks        |-> MCChecks,
   dependencies  |-> deps,
   check_ids     |-> [p \in {"quick", "standard", "strict"} |->
                        CASE p = "quick" -> <<"lint">>
                          [] p = "standard" -> <<"tests", "lint">>
                          [] p = "strict" -> <<"lint", "tests">>],
   parallel_safe |-> {"lint", "typing"},
   advisory_only |-> {"typing"},
   cacheable     |-> MCChecks,
   wired         |-> MCChecks,
   tests         |-> {"tests"},
   max_attempts  |-> [c \in MCCheckId |-> 1]]

AllRegistries == {RegistryWith(deps) : deps \in [MCChecks -> DependencyChoices]}

BuiltinLike ==
  RegistryWith([c \in MCChecks |-> IF c = "tests" THEN <<"lint", "typing">> ELSE <<>>])

SrcFile(t) == [head |-> "src", suffix |-> "py", has_test |-> t]
DocFile == [head |-> "docs", suffix |-> "md", has_test |-> FALSE]
TestNote == [head |-> "tests", suffix |-> "md", has_test |-> FALSE]
ConfigFile == [head |-> "root", suffix |-> "toml", has_test |-> FALSE]

AllRequests ==
  {[profile |-> p, ci_like |-> ci, has_tests |-> host # "no tests",
    tool_ready |-> host # "no tools", targeted |-> tg, changed |-> ch,
    missing_prereqs |-> mp] :
      p \in {"quick", "standard", "strict", "adaptive"}, ci \in BOOLEAN,
      host \in {"ready", "no tests", "no tools"}, tg \in BOOLEAN,
      ch \in {{}, {SrcFile(TRUE)}, {SrcFile(FALSE)}, {DocFile, TestNote},
              {SrcFile(TRUE), DocFile, ConfigFile}},
      mp \in {{}, {"lint"}}}

Explicit ==
  {r \in AllRequests : /\ r.profile \in {"standard", "strict"} /\ r.changed = {}
                       /\ ~r.ci_like /\ r.has_tests /\ r.tool_ready /\ r.targeted}

MCInputs == (AllRegistries \X Explicit) \cup ({BuiltinLike} \X AllRequests)
=============================================================================
