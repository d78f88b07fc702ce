------------------------------- MODULE MCParts -------------------------------
(* An instance of Parts for TLC.                                           *)
EXTENDS Parts, TLC

CONSTANTS r1, r2, r3, r4, u1, u2, u3, f1, f2, f3, k1, k2

(* Two requests of one user, and one each of two others, who share a key   *)
(* in memory; all have files of their own.                                 *)
Senders == (r1 :> u1) @@ (r2 :> u1) @@ (r3 :> u2) @@ (r4 :> u3)
OwnFiles == (u1 :> f1) @@ (u2 :> f2) @@ (u3 :> f3)
SharedKey == (u1 :> k1) @@ (u2 :> k2) @@ (u3 :> k2)

(* Workflow texts and runs are interchangeable.                            *)
Symmetry == Permutations(Text) \cup Permutations(Run)
=============================================================================
