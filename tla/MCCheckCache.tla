---------------------------- MODULE MCCheckCache ----------------------------
(* CheckCache with a check of one file, a flaky check of both files, and a  *)
(* skip where the second file is missing its content.                       *)
EXTENDS CheckCache

MCPath == {"src", "cfg"}

MCOutcomes ==
  [c \in Check |->
     [t \in [MCPath -> Content] |->
        CASE c = "lint" /\ t["src"] = "ok" -> {"passed"}
          [] c = "lint" /\ t["src"] # "ok" -> {"failed"}
          [] c = "tests" /\ t["cfg"] # "ok" -> {"skipped"}
          [] c = "tests" /\ t["cfg"] = "ok" /\ t["src"] = "ok" -> {"passed"}
          [] OTHER -> {"passed", "failed"}]]

(* Both files are as they should be at first.                               *)
MCInit == Init /\ tree = [p \in MCPath |-> "ok"]

MCSpec == MCInit /\ [][Next]_vars
=============================================================================
