---------------------------- MODULE MCOpsHistory ----------------------------
(* Instances of OpsHistory for TLC: runs are alike, and so are texts.      *)
EXTENDS OpsHistory, TLC

Symmetry == Permutations(Run) \cup Permutations(Text)
=============================================================================
