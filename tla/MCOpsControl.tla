---------------------------- MODULE MCOpsControl ----------------------------
(* OpsControl on the tasks of the ci profile that have or are dependencies, *)
(* and on a dependency cycle.                                               *)
EXTENDS OpsControl

MCTask == {"quality", "report-build", "security-fix", "security-scan"}

MCRank == [n \in MCTask |-> CASE n = "quality" -> 1 [] n = "report-build" -> 2
                              [] n = "security-fix" -> 3 [] n = "security-scan" -> 4]

Only(pairs) == [n \in MCTask |-> {p[2] : p \in {q \in pairs : q[1] = n}}]

MCDependencies ==
  {Only({<<"security-fix", "security-scan">>, <<"report-build", "security-scan">>}),
   Only({<<"report-build", "security-fix">>, <<"security-fix", "security-scan">>}),
   Only({<<"security-scan", "security-fix">>, <<"security-fix", "security-scan">>,
         <<"report-build", "security-fix">>})}
=============================================================================
