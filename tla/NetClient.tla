------------------------------ MODULE NetClient ------------------------------
(***************************************************************************)
(* Calls of the HTTP client, src/sdetkit/netclient.py, that share one      *)
(* CircuitBreaker: request and _request_json of SdetHttpClient, and        *)
(* _request_json of SdetAsyncHttpClient, the same loop with an await at    *)
(* every exchange and sleep, where the calls interleave.                   *)
(*                                                                         *)
(* Time is the time since the breaker opened, which is all allow() reads;  *)
(* it stops at reset_seconds.  The count of failures stops at the          *)
(* threshold it is compared with.  The clock is time.monotonic.            *)
(***************************************************************************)
EXTENDS Integers

CONSTANTS Caller,            \* tasks that make calls, one after the other
          Retries,           \* RetryPolicy.retries
          retry_on_429,
          failure_threshold, \* of the breaker
          reset_seconds,
          Faults             \* subset of {"undecodable", "cancelled"}: what leaves no record

ASSUME RetriesAssumption == Retries \in Nat \ {0}
ASSUME retry_on_429Assumption == retry_on_429 \in BOOLEAN
ASSUME failure_thresholdAssumption == failure_threshold \in Nat \ {0}
ASSUME reset_secondsAssumption == reset_seconds \in Nat
ASSUME FaultsAssumption == Faults \subseteq {"undecodable", "cancelled"}

VARIABLES failures, opened, half_open_used, \* the breaker; opened: seconds since then
          pc,        \* per caller: at the loop, exchanging, sleeping, or how the call ended
          attempt,
          sent,      \* history: exchanges of the call
          probing,   \* history: was the exchange admitted by an open breaker?
          streak,    \* history: failures recorded since the last success
          quiet,     \* history: seconds since the last recorded failure
          probes,    \* history: exchanges an open breaker admitted since the last record
          unsettled  \* history: was a probe given up without a record?

breaker == <<failures, opened, half_open_used>>
calls == <<pc, attempt, sent, probing>>
history == <<streak, quiet, probes>>
vars == <<breaker, calls, history, unsettled>>

Closed == -1 \* opened when _opened_at is None

Ended == {"response", "circuit_open", "timeout", "failed", "status", "undecodable", "cancelled"}

Labels == {"idle", "loop", "exchange", "sleep"} \cup Ended

UpTo(bound, n) == IF n < bound THEN n ELSE bound

Goto(c, label) == pc' = [pc EXCEPT ![c] = label]

Init ==
  /\ failures = 0 /\ opened = Closed /\ half_open_used = FALSE
  /\ pc = [c \in Caller |-> "idle"]
  /\ attempt = [c \in Caller |-> 0] /\ sent = [c \in Caller |-> 0]
  /\ probing = [c \in Caller |-> FALSE]
  /\ streak = 0 /\ quiet = reset_seconds /\ probes = 0 /\ unsettled = FALSE

-----------------------------------------------------------------------------
(* Mutant: an open breaker that may be retried lets every call through. *)
AnyProbe ==
  IF opened = Closed THEN "yes" ELSE IF opened < reset_seconds THEN "no" ELSE "probe"

(* CircuitBreaker.allow: whether a call may go out, and as a probe or not. *)
Verdict ==
  IF opened = Closed THEN "yes"
  ELSE IF opened < reset_seconds \/ half_open_used THEN "no" ELSE "probe"

RecordSuccess ==
  /\ failures' = 0 /\ opened' = Closed /\ half_open_used' = FALSE
  /\ streak' = 0 /\ probes' = 0 /\ UNCHANGED quiet

(* Mutant: only the failure that reaches the threshold opens the breaker. *)
RecordFailureOnce ==
  /\ failures' = UpTo(failure_threshold, failures + 1)
  /\ IF failures + 1 = failure_threshold
     THEN opened' = 0 /\ half_open_used' = FALSE
     ELSE UNCHANGED <<opened, half_open_used>>
  /\ streak' = UpTo(failure_threshold, streak + 1) /\ quiet' = 0 /\ probes' = 0

(* Mutant: a failed probe leaves the half-open mark. *)
RecordFailureKeepsMark ==
  /\ failures' = UpTo(failure_threshold, failures + 1)
  /\ opened' = IF failures + 1 >= failure_threshold THEN 0 ELSE opened
  /\ streak' = UpTo(failure_threshold, streak + 1) /\ quiet' = 0 /\ probes' = 0
  /\ UNCHANGED half_open_used

RecordFailure ==
  /\ failures' = UpTo(failure_threshold, failures + 1)
  /\ IF failures + 1 >= failure_threshold
     THEN opened' = 0 /\ half_open_used' = FALSE
     ELSE UNCHANGED <<opened, half_open_used>>
  /\ streak' = UpTo(failure_threshold, streak + 1) /\ quiet' = 0 /\ probes' = 0

-----------------------------------------------------------------------------
(* A caller starts a call, or makes the next one. *)
Call(c) ==
  /\ pc[c] \in {"idle"} \cup Ended
  /\ Goto(c, "loop")
  /\ attempt' = [attempt EXCEPT ![c] = 0] /\ sent' = [sent EXCEPT ![c] = 0]
  /\ UNCHANGED <<breaker, probing, history, unsettled>>

(* The head of the loop: allow() raises or the request goes out. *)
Refused(c) ==
  /\ pc[c] = "loop" /\ Verdict = "no"
  /\ Goto(c, "circuit_open")
  /\ UNCHANGED <<breaker, attempt, sent, probing, history, unsettled>>

Send(c) ==
  /\ pc[c] = "loop" /\ Verdict # "no"
  /\ Goto(c, "exchange")
  /\ half_open_used' = (half_open_used \/ Verdict = "probe")
  /\ sent' = [sent EXCEPT ![c] = @ + 1]
  /\ probing' = [probing EXCEPT ![c] = opened # Closed]
  /\ probes' = IF opened # Closed THEN probes + 1 ELSE probes
  /\ UNCHANGED <<failures, opened, attempt, streak, quiet, unsettled>>

Settle(c, label) ==
  /\ pc[c] = "exchange"
  /\ Goto(c, label)
  /\ probing' = [probing EXCEPT ![c] = FALSE]
  /\ UNCHANGED <<sent, unsettled>>

(* httpx.TimeoutException: not retried. *)
TimedOut(c) ==
  /\ Settle(c, "timeout")
  /\ RecordFailure
  /\ UNCHANGED attempt

(* Mutant: the last attempt is retried as well. *)
AlwaysRetry(c, more) ==
  /\ Settle(c, "sleep")
  /\ RecordFailure
  /\ UNCHANGED attempt

(* Any other httpx.RequestError, and a 429 that is to be retried, when      *)
(* there are attempts left: sleep and go on.                               *)
Retry(c, more) ==
  /\ more
  /\ Settle(c, "sleep")
  /\ RecordFailure
  /\ UNCHANGED attempt

(* The backoff or the server's Retry-After has passed. *)
Wake(c) ==
  /\ pc[c] = "sleep"
  /\ Goto(c, "loop")
  /\ attempt' = [attempt EXCEPT ![c] = @ + 1]
  /\ UNCHANGED <<breaker, sent, probing, history, unsettled>>

AttemptsLeft(c) == attempt[c] < Retries - 1

RequestError(c) ==
  \/ Retry(c, AttemptsLeft(c))
  \/ /\ ~AttemptsLeft(c)
     /\ Settle(c, "failed")
     /\ RecordFailure
     /\ UNCHANGED attempt

TooManyRequests(c) == retry_on_429 /\ Retry(c, AttemptsLeft(c))

(* Any other status outside 2xx: request returns the response,             *)
(* _request_json raises HttpStatusError.                                   *)
BadStatus(c) ==
  /\ Settle(c, "status")
  /\ RecordFailure
  /\ UNCHANGED attempt

(* Mutant: a success leaves the half-open mark for the next opening. *)
ForgetHalfOpen(c) ==
  /\ Settle(c, "response")
  /\ failures' = 0 /\ opened' = Closed /\ UNCHANGED half_open_used
  /\ streak' = 0 /\ probes' = 0 /\ UNCHANGED <<quiet, attempt>>

(* 2xx, and a body that can be decoded if it is to be. *)
Succeeded(c) ==
  /\ Settle(c, "response")
  /\ RecordSuccess
  /\ UNCHANGED attempt

(* _request_json: r.json() raises, which nothing records. *)
Undecodable(c) ==
  /\ "undecodable" \in Faults
  /\ pc[c] = "exchange"
  /\ Goto(c, "undecodable")
  /\ probing' = [probing EXCEPT ![c] = FALSE]
  /\ unsettled' = (unsettled \/ probing[c])
  /\ UNCHANGED <<breaker, attempt, sent, history>>

(* The task of an async call is cancelled while it waits for the answer.   *)
Cancelled(c) ==
  /\ "cancelled" \in Faults
  /\ pc[c] = "exchange"
  /\ Goto(c, "cancelled")
  /\ probing' = [probing EXCEPT ![c] = FALSE]
  /\ unsettled' = (unsettled \/ probing[c])
  /\ UNCHANGED <<breaker, attempt, sent, history>>

Tick ==
  /\ opened \in 0..(reset_seconds - 1) \/ quiet < reset_seconds
  /\ opened' = IF opened = Closed THEN Closed ELSE UpTo(reset_seconds, opened + 1)
  /\ quiet' = UpTo(reset_seconds, quiet + 1)
  /\ UNCHANGED <<failures, half_open_used, calls, streak, probes, unsettled>>

Fails(c) == TimedOut(c) \/ RequestError(c) \/ TooManyRequests(c) \/ BadStatus(c)

Step(c) ==
  \/ Call(c) \/ Refused(c) \/ Send(c) \/ Fails(c) \/ Succeeded(c) \/ Wake(c)
  \/ Undecodable(c) \/ Cancelled(c)

Next == Tick \/ \E c \in Caller : Step(c)

Spec == Init /\ [][Next]_vars

(* Time passes; a call that waits is answered, by a success when nothing   *)
(* fails, and sleeps end; the callers go on calling.                       *)
Fairness ==
  /\ WF_vars(Tick)
  /\ \A c \in Caller : WF_vars(Call(c) \/ Refused(c) \/ Send(c) \/ Wake(c)
                               \/ Fails(c) \/ Succeeded(c))

FairSpec == Spec /\ Fairness

-----------------------------------------------------------------------------
TypeOK ==
  /\ failures \in 0..failure_threshold /\ opened \in Closed..reset_seconds
  /\ half_open_used \in BOOLEAN
  /\ pc \in [Caller -> Labels] /\ attempt \in [Caller -> 0..(Retries - 1)]
  /\ sent \in [Caller -> 0..Retries] /\ probing \in [Caller -> BOOLEAN]
  /\ streak \in 0..failure_threshold /\ quiet \in 0..reset_seconds
  /\ unsettled \in BOOLEAN

(* After failure_threshold failures in a row, of whichever calls, nothing  *)
(* is sent until reset_seconds passed without a further failure, however   *)
(* late the answers of the calls already out come in.                      *)
BacksOff ==
  [][\A c \in Caller :
       sent'[c] > sent[c] /\ streak = failure_threshold => quiet = reset_seconds]_vars

(* An open breaker admits one call; the next is admitted only after an     *)
(* outcome was recorded, of that call or of any other.                     *)
OneProbe == probes <= 1

(* The half-open mark is set only on an open breaker, and stands for a     *)
(* probe whose outcome will be recorded, unless one was given up without a *)
(* record.                                                                 *)
MarkIsBacked ==
  half_open_used =>
    /\ opened = reset_seconds
    /\ unsettled \/ \E c \in Caller : probing[c]

(* tests/test_netclient_breaker.py:7, "opens_and_then_allows_after_reset": *)
(* when reset_seconds have passed and no call is out, the next one may.    *)
AllowsAfterReset ==
  opened = reset_seconds /\ (\A c \in Caller : pc[c] # "exchange") => Verdict # "no"

(* Once the server stops failing, the breaker closes for good, whichever   *)
(* calls are under way and however their attempts are spread, provided     *)
(* that no probe was given up without a record.                            *)
ClosesAgain ==
  []~unsettled /\ (<>[][\A c \in Caller : ~Fails(c)]_vars) => <>[](opened = Closed)
=============================================================================
