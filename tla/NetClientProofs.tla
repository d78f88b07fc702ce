--------------------------- MODULE NetClientProofs ---------------------------
(***************************************************************************)
(* Proofs about the circuit breaker of NetClient, for any number of        *)
(* callers, retries and failures: it backs off, lets one probe through,    *)
(* and a half-open mark without a probe comes from an outcome that was     *)
(* not recorded.                                                           *)
(***************************************************************************)
EXTENDS NetClient, TLAPS

Numbers ==
  /\ failures \in 0..failure_threshold /\ opened \in Closed..reset_seconds
  /\ attempt \in [Caller -> 0..(Retries - 1)] /\ sent \in [Caller -> 0..Retries]
  /\ streak \in 0..failure_threshold /\ quiet \in 0..reset_seconds

Flags ==
  /\ half_open_used \in BOOLEAN /\ unsettled \in BOOLEAN
  /\ pc \in [Caller -> Labels] /\ probing \in [Caller -> BOOLEAN]

(* The breaker is open after a streak of failures as long as the threshold, *)
(* since the last of them.                                                 *)
OpenSince ==
  /\ failures = streak
  /\ opened # Closed => failures = failure_threshold /\ opened = quiet
  /\ opened = Closed => failures < failure_threshold

MarkNeedsOpen == half_open_used => opened = reset_seconds

ProbeCount ==
  /\ half_open_used => probes = 1
  /\ ~half_open_used => probes = 0

ProbesAreOut == \A c \in Caller : probing[c] => pc[c] = "exchange"

NothingLost == Faults = {} => ~unsettled

(* Each pass through the loop sends once.                                  *)
Budget ==
  \A c \in Caller :
    /\ pc[c] = "loop" => sent[c] = attempt[c]
    /\ pc[c] \in {"exchange", "sleep"} => sent[c] = attempt[c] + 1
    /\ pc[c] = "sleep" => attempt[c] < Retries - 1

IndInv ==
  /\ Numbers /\ Flags /\ Budget /\ OpenSince /\ MarkNeedsOpen /\ ProbeCount
  /\ MarkIsBacked /\ ProbesAreOut /\ NothingLost

LEMMA Types == TypeOK <=> Numbers /\ Flags
BY DEF TypeOK, Numbers, Flags

LEMMA InitIndInv == Init => IndInv
<1> SUFFICES ASSUME Init PROVE IndInv
  OBVIOUS
<1> USE RetriesAssumption, failure_thresholdAssumption, reset_secondsAssumption DEF Init
<1>1. Numbers
  BY DEF Numbers, Closed
<1>2. Flags
  BY Zenon DEF Flags, Labels
<1>3. OpenSince /\ Budget
  BY DEF OpenSince, Budget
<1>4. MarkNeedsOpen /\ ProbeCount /\ MarkIsBacked /\ ProbesAreOut /\ NothingLost
  BY DEF MarkNeedsOpen, ProbeCount, MarkIsBacked, ProbesAreOut, NothingLost
<1> QED BY <1>1, <1>2, <1>3, <1>4 DEF IndInv

(* What a record leaves of the breaker.                                    *)
LEMMA AfterRecord ==
  ASSUME IndInv, RecordFailure \/ RecordSuccess
  PROVE  /\ failures' \in 0..failure_threshold /\ opened' \in Closed..reset_seconds
         /\ streak' \in 0..failure_threshold /\ quiet' \in 0..reset_seconds
         /\ OpenSince' /\ ~half_open_used' /\ half_open_used' \in BOOLEAN /\ probes' = 0
<1>1. /\ failures' \in 0..failure_threshold /\ opened' \in Closed..reset_seconds
      /\ streak' \in 0..failure_threshold /\ quiet' \in 0..reset_seconds
      /\ OpenSince' /\ probes' = 0
  BY failure_thresholdAssumption, reset_secondsAssumption
  DEF RecordFailure, RecordSuccess, UpTo, IndInv, Numbers, Closed, OpenSince
<1>2. half_open_used' = FALSE \/ (half_open_used' = half_open_used /\ opened = Closed)
  BY failure_thresholdAssumption
  DEF RecordFailure, RecordSuccess, IndInv, Numbers, OpenSince
<1>3. half_open_used => opened # Closed
  BY reset_secondsAssumption DEF IndInv, MarkNeedsOpen, Closed
<1>4. half_open_used \in BOOLEAN
  BY DEF IndInv, Flags
<1>5. half_open_used' = FALSE
  BY <1>2, <1>3, <1>4, Zenon
<1> QED BY <1>1, <1>5

(* An exchange that is settled with a record keeps the invariant.          *)
LEMMA SettledIndInv ==
  ASSUME IndInv, NEW c \in Caller, NEW label \in Ended \cup {"sleep"}, Settle(c, label),
         UNCHANGED attempt, label = "sleep" => AttemptsLeft(c),
         RecordFailure \/ RecordSuccess
  PROVE  IndInv'
<1>1. /\ failures' \in 0..failure_threshold /\ opened' \in Closed..reset_seconds
      /\ streak' \in 0..failure_threshold /\ quiet' \in 0..reset_seconds
      /\ OpenSince' /\ ~half_open_used' /\ half_open_used' \in BOOLEAN /\ probes' = 0
  BY AfterRecord
<1>2. Numbers'
  BY <1>1 DEF IndInv, Numbers, Settle
<1>3. Flags'
  BY <1>1, Zenon DEF IndInv, Flags, Settle, Goto, Labels
<1>4. MarkNeedsOpen' /\ ProbeCount' /\ MarkIsBacked'
  BY <1>1 DEF MarkNeedsOpen, ProbeCount, MarkIsBacked
<1>5. ProbesAreOut' /\ NothingLost'
  BY DEF IndInv, Flags, ProbesAreOut, NothingLost, Settle, Goto
<1>6. Budget'
  BY DEF IndInv, Flags, Budget, Settle, Goto, AttemptsLeft, Ended
<1> QED BY <1>1, <1>2, <1>3, <1>4, <1>5, <1>6 DEF IndInv

LEMMA FailsIndInv ==
  ASSUME IndInv, NEW c \in Caller, Fails(c)
  PROVE  IndInv'
<1>1. PICK label \in Ended \cup {"sleep"} :
        Settle(c, label) /\ (label = "sleep" => AttemptsLeft(c))
  BY DEF Fails, TimedOut, RequestError, TooManyRequests, BadStatus, Retry, Ended
<1>2. RecordFailure /\ UNCHANGED attempt
  BY DEF Fails, TimedOut, RequestError, TooManyRequests, BadStatus, Retry
<1> QED BY <1>1, <1>2, SettledIndInv

LEMMA SucceededIndInv ==
  ASSUME IndInv, NEW c \in Caller, Succeeded(c)
  PROVE  IndInv'
<1>1. Settle(c, "response") /\ RecordSuccess /\ UNCHANGED attempt
  BY DEF Succeeded
<1>2. "response" \in Ended
  BY DEF Ended
<1> QED BY <1>1, <1>2, SettledIndInv

(* What goes out goes out of a closed breaker, or as the one probe.        *)
LEMMA SendVerdict ==
  ASSUME IndInv, NEW c \in Caller, Send(c)
  PROVE  \/ opened = Closed /\ Verdict = "yes"
         \/ opened # Closed /\ opened = reset_seconds /\ ~half_open_used /\ Verdict = "probe"
<1>1. CASE opened = Closed  BY <1>1 DEF Verdict
<1>2. CASE opened # Closed
  <2>1. ~(opened < reset_seconds) /\ ~half_open_used /\ Verdict = "probe"
    BY <1>2 DEF Send, Verdict
  <2>2. opened = reset_seconds
    BY <2>1, reset_secondsAssumption DEF IndInv, Numbers, Closed
  <2> QED BY <1>2, <2>1, <2>2
<1> QED BY <1>1, <1>2

LEMMA SendIndInv ==
  ASSUME IndInv, NEW c \in Caller, Send(c)
  PROVE  IndInv'
<1>1. Numbers'
  BY RetriesAssumption DEF IndInv, Numbers, Send, Budget
<1>2. half_open_used' \in BOOLEAN /\ UNCHANGED unsettled
  BY DEF Send
<1>3. Flags'
  BY <1>2, Zenon DEF IndInv, Flags, Send, Goto, Labels
<1>4. OpenSince'
  BY DEF IndInv, OpenSince, Send
<1>5. ASSUME opened = Closed, Verdict = "yes"
      PROVE  MarkNeedsOpen' /\ ProbeCount' /\ MarkIsBacked'
  <2>1. ~half_open_used
    BY <1>5, reset_secondsAssumption DEF IndInv, MarkNeedsOpen, Closed
  <2>2. ~half_open_used'
    BY <1>5, <2>1, Zenon DEF Send
  <2>3. probes' = probes
    BY <1>5 DEF Send
  <2> QED BY <2>1, <2>2, <2>3 DEF IndInv, MarkNeedsOpen, ProbeCount, MarkIsBacked
<1>6. ASSUME opened # Closed, opened = reset_seconds, ~half_open_used, Verdict = "probe"
      PROVE  MarkNeedsOpen' /\ ProbeCount' /\ MarkIsBacked'
  <2>1. half_open_used'
    BY <1>6, Zenon DEF Send
  <2>2. probing'[c]
    BY <1>6, Zenon DEF Send, IndInv, Flags
  <2>3. probes' = 1 /\ UNCHANGED opened
    BY <1>6 DEF Send, IndInv, ProbeCount
  <2> QED BY <1>6, <2>1, <2>2, <2>3 DEF MarkNeedsOpen, ProbeCount, MarkIsBacked
<1>7. ProbesAreOut' /\ NothingLost'
  BY DEF IndInv, Flags, ProbesAreOut, NothingLost, Send, Goto
<1>8. Budget'
  BY DEF IndInv, Flags, Numbers, Budget, Send, Goto
<1> QED BY <1>1, <1>3, <1>4, <1>5, <1>6, <1>7, <1>8, SendVerdict DEF IndInv

(* Steps that leave the breaker alone.                                     *)
LEMMA UnrecordedIndInv ==
  ASSUME IndInv, NEW c \in Caller, Undecodable(c) \/ Cancelled(c)
  PROVE  IndInv'
<1>1. PICK label \in Ended : Goto(c, label)
  BY DEF Undecodable, Cancelled, Ended
<1>2. /\ UNCHANGED <<failures, opened, half_open_used, attempt, sent, streak, quiet, probes>>
      /\ probing' = [probing EXCEPT ![c] = FALSE] /\ unsettled' = (unsettled \/ probing[c])
      /\ Faults # {}
  BY DEF Undecodable, Cancelled, breaker, history
<1>3. Numbers' /\ OpenSince' /\ MarkNeedsOpen' /\ ProbeCount'
  BY <1>2 DEF IndInv, Numbers, OpenSince, MarkNeedsOpen, ProbeCount
<1>4. unsettled' \in BOOLEAN
  BY <1>2
<1>5. Flags'
  BY <1>1, <1>2, <1>4, Zenon DEF IndInv, Flags, Goto, Labels
<1>6. Budget' /\ ProbesAreOut' /\ NothingLost'
  BY <1>1, <1>2 DEF IndInv, Flags, Budget, ProbesAreOut, NothingLost, Goto, Ended
<1>7. MarkIsBacked'
  BY <1>2 DEF IndInv, Flags, MarkIsBacked
<1> QED BY <1>3, <1>5, <1>6, <1>7 DEF IndInv

LEMMA QuietStepIndInv ==
  ASSUME IndInv, NEW c \in Caller, Call(c) \/ Refused(c) \/ Wake(c)
  PROVE  IndInv'
<1>1. PICK label \in Ended \cup {"loop"} : Goto(c, label)
  BY DEF Call, Refused, Wake, Ended
<1>2. UNCHANGED <<failures, opened, half_open_used, streak, quiet, probes, probing, unsettled>>
  BY DEF Call, Refused, Wake, breaker, history
<1>3. Numbers'
  BY <1>2, RetriesAssumption DEF Call, Refused, Wake, IndInv, Numbers, Budget
<1>4. OpenSince' /\ MarkNeedsOpen' /\ ProbeCount' /\ NothingLost' /\ MarkIsBacked'
  BY <1>2 DEF IndInv, OpenSince, MarkNeedsOpen, ProbeCount, NothingLost, MarkIsBacked
<1>5. Flags'
  BY <1>1, <1>2, Zenon DEF IndInv, Flags, Goto, Labels
<1>6. Budget'
  BY <1>1, RetriesAssumption
  DEF Call, Refused, Wake, IndInv, Flags, Numbers, Budget, Goto, Ended
<1>7. ProbesAreOut'
  BY <1>1, <1>2 DEF Call, Refused, Wake, IndInv, Flags, ProbesAreOut, Goto, Ended
<1> QED BY <1>3, <1>4, <1>5, <1>6, <1>7 DEF IndInv

LEMMA TickIndInv ==
  ASSUME IndInv, Tick
  PROVE  IndInv'
<1>1. Numbers' /\ OpenSince'
  BY failure_thresholdAssumption, reset_secondsAssumption
  DEF Tick, UpTo, IndInv, Numbers, OpenSince, Closed, calls
<1>2. UNCHANGED <<pc, attempt, sent, probing, half_open_used, probes, unsettled>>
  BY DEF Tick, calls
<1>3. half_open_used => opened' = reset_seconds
  BY reset_secondsAssumption DEF Tick, UpTo, IndInv, MarkNeedsOpen, Closed
<1>4. Flags' /\ Budget' /\ ProbeCount' /\ ProbesAreOut' /\ NothingLost'
  BY <1>2 DEF IndInv, Flags, Budget, ProbeCount, ProbesAreOut, NothingLost
<1>5. MarkNeedsOpen' /\ MarkIsBacked'
  BY <1>2, <1>3 DEF IndInv, MarkNeedsOpen, MarkIsBacked
<1> QED BY <1>1, <1>4, <1>5 DEF IndInv
LEMMA NextIndInv == IndInv /\ [Next]_vars => IndInv'
<1> SUFFICES ASSUME IndInv, [Next]_vars PROVE IndInv'
  OBVIOUS
<1>1. CASE Tick  BY <1>1, TickIndInv
<1>2. ASSUME NEW c \in Caller, Step(c) PROVE IndInv'
  BY <1>2, FailsIndInv, SucceededIndInv, SendIndInv, UnrecordedIndInv, QuietStepIndInv DEF Step
<1>3. CASE UNCHANGED vars
  BY <1>3 DEF vars, breaker, calls, history, IndInv, Numbers, Flags, Budget, OpenSince,
              MarkNeedsOpen, ProbeCount, MarkIsBacked, ProbesAreOut, NothingLost
<1> QED BY <1>1, <1>2, <1>3 DEF Next

LEMMA Inductive == Spec => []IndInv
BY InitIndInv, NextIndInv, PTL DEF Spec

(* The variables keep their types: no attempt beyond the retry policy.     *)
THEOREM TypesHold == Spec => []TypeOK
<1>1. IndInv => TypeOK
  BY Types DEF IndInv
<1> QED BY <1>1, Inductive, PTL

(* An open breaker admits one call per record.                             *)
THEOREM OneProbeAtATime == Spec => []OneProbe
<1>1. IndInv => OneProbe
  BY DEF IndInv, Flags, ProbeCount, OneProbe
<1> QED BY <1>1, Inductive, PTL

(* A half-open mark stands for a probe, or for one given up unrecorded.    *)
THEOREM MarksAreBacked == Spec => []MarkIsBacked
<1>1. IndInv => MarkIsBacked
  BY DEF IndInv
<1> QED BY <1>1, Inductive, PTL

(* After a streak of failures nothing is sent before reset_seconds passed  *)
(* without another.                                                        *)
THEOREM Backoff == Spec => BacksOff
<1>1. IndInv /\ [Next]_vars =>
        [\A c \in Caller : sent'[c] > sent[c] /\ streak = failure_threshold => quiet = reset_seconds]_vars
  <2> SUFFICES ASSUME IndInv, Next, NEW c \in Caller, sent'[c] > sent[c], streak = failure_threshold
               PROVE  quiet = reset_seconds
    OBVIOUS
  <2>1. PICK d \in Caller : Step(d)
    <3>1. ~Tick
      BY DEF Tick, calls, IndInv, Numbers
    <3> QED BY <3>1 DEF Next
  <2>2. ~(\/ Refused(d) \/ Fails(d) \/ Succeeded(d) \/ Wake(d) \/ Undecodable(d) \/ Cancelled(d))
    BY DEF Refused, Fails, TimedOut, RequestError, TooManyRequests, BadStatus, Retry, Settle,
           Succeeded, Wake, Undecodable, Cancelled, IndInv, Numbers
  <2>3. ~Call(d)
    BY RetriesAssumption DEF Call, IndInv, Numbers
  <2>4. Send(d)
    BY <2>1, <2>2, <2>3 DEF Step
  <2>5. opened # Closed
    BY failure_thresholdAssumption DEF IndInv, OpenSince, Numbers
  <2>6. opened = reset_seconds
    BY <2>4, <2>5, SendVerdict
  <2> QED BY <2>5, <2>6 DEF IndInv, OpenSince
<1> QED BY <1>1, Inductive, PTL DEF Spec, BacksOff

(* Where every outcome is recorded, an open breaker admits a call once     *)
(* reset_seconds have passed and none is out.                              *)
THEOREM AllowedAfterReset ==
  ASSUME Faults = {}
  PROVE  Spec => []AllowsAfterReset
<1>1. IndInv => AllowsAfterReset
  BY reset_secondsAssumption
  DEF IndInv, Closed, MarkIsBacked, ProbesAreOut, NothingLost, AllowsAfterReset, Verdict
<1> QED BY <1>1, Inductive, PTL
=============================================================================
