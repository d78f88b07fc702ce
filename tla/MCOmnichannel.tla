---------------------------- MODULE MCOmnichannel ----------------------------
(* Instances of Omnichannel for TLC. *)
EXTENDS Omnichannel, TLC

CONSTANTS r1, r2, r3, r4, u1, u2, f1, f2, k1, k2

(* Three requests of one user, one of another. *)
Senders == (r1 :> u1) @@ (r2 :> u1) @@ (r3 :> u1) @@ (r4 :> u2)

(* Two users with files of their own, and two whose names differ by a      *)
(* character that may not be in a file name.                               *)
OwnFiles == (u1 :> f1) @@ (u2 :> f2)
SharedFile == (u1 :> f1) @@ (u2 :> f1)

(* Two users with keys of their own in memory, and two with one key, as    *)
(* user 'b:c' of channel 'a' and user 'c' of channel 'a:b', whose files    *)
(* differ.                                                                 *)
OwnKeys == (u1 :> k1) @@ (u2 :> k2)
SharedKey == (u1 :> k1) @@ (u2 :> k1)
=============================================================================
