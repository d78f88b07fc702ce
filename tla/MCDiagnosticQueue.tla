-------------------------- MODULE MCDiagnosticQueue -------------------------
(* DiagnosticQueue with two or three jobs, claimed in the order j2, j1, j3  *)
(* whatever order they are enqueued in.                                     *)
EXTENDS DiagnosticQueue

CONSTANTS j1, j2, j3

MCSortKey == [j \in Job |-> CASE j = j2 -> 1 [] j = j1 -> 2 [] OTHER -> 3]
=============================================================================
