--------------------------- MODULE AtomicRegister ---------------------------
(***************************************************************************)
(* What src/sdetkit/utils/atomicio.py promises its callers: a file that    *)
(* takes one whole value at a time.  A call takes effect at most once,     *)
(* between its start and its return; a call that reports success has taken *)
(* effect.  After a power loss the file is one of the values it had since  *)
(* it was last known to be on disk.                                        *)
(***************************************************************************)
CONSTANTS Writer,    \* calls, each with a payload of its own
          Initial    \* the content before the first of them

VARIABLES value,     \* what a reader of the file sees
          survivors, \* what may be read after a power loss
          call       \* per call: idle, active, effective, ok, error or dead

vars == <<value, survivors, call>>

Init ==
  /\ value = Initial
  /\ survivors = {Initial}
  /\ call = [w \in Writer |-> "idle"]

Begin(w) ==
  /\ call[w] = "idle"
  /\ call' = [call EXCEPT ![w] = "active"]
  /\ UNCHANGED <<value, survivors>>

TakeEffect(w) ==
  /\ call[w] = "active"
  /\ call' = [call EXCEPT ![w] = "effective"]
  /\ value' = w
  /\ survivors' = survivors \cup {w}

(* The value is known to be on disk when the call returns, or it is not.   *)
Succeed(w) ==
  /\ call[w] = "effective"
  /\ call' = [call EXCEPT ![w] = "ok"]
  /\ survivors' \in {survivors, {value}}
  /\ UNCHANGED value

(* An error says nothing of whether the call took effect.                  *)
Fail(w) ==
  /\ call[w] \in {"idle", "active", "effective"}
  /\ call' = [call EXCEPT ![w] = "error"]
  /\ UNCHANGED <<value, survivors>>

Die(w) ==
  /\ call[w] \in {"active", "effective"}
  /\ call' = [call EXCEPT ![w] = "dead"]
  /\ UNCHANGED <<value, survivors>>

PowerLoss ==
  /\ value' \in survivors
  /\ survivors' = {value'}
  /\ call' = [w \in Writer |->
                IF call[w] \in {"active", "effective"} THEN "dead" ELSE call[w]]

Next ==
  \/ \E w \in Writer : Begin(w) \/ TakeEffect(w) \/ Succeed(w) \/ Fail(w) \/ Die(w)
  \/ PowerLoss

Spec == Init /\ [][Next]_vars
=============================================================================
