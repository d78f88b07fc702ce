----------------------------- MODULE MCCassette -----------------------------
(* URLs, page contents and processes are interchangeable.                  *)
EXTENDS Cassette, TLC

Symmetry == Permutations(Process) \cup Permutations(Url) \cup Permutations(Body)
=============================================================================
