----------------------------- MODULE CallModel -----------------------------
(***************************************************************************)
(* callModel (packages/core/src/llm.ts): one call of the model, with its   *)
(* race between the provider, the hard timer and the caller's abort, the   *)
(* single re-send without `temperature`, and the bounded retries after a   *)
(* backoff.  Time is counted in ticks; a timer that is due fires before    *)
(* time goes on.  The provider need not answer and need not heed its abort *)
(* signal.                                                                 *)
(*                                                                         *)
(* An error is abstracted to what the retry decision tells apart.  Usage,  *)
(* tokens and the wording of errors are left out.                          *)
(***************************************************************************)
EXTENDS Integers

CONSTANTS
  MaxRetries,  \* settings.maxRetries
  Timeout,     \* settings.timeoutMs, in ticks
  Backoffs,    \* the waits a retry may take, in ticks
  MaxBackoff   \* the longest of them (the 30 s cap of retryAfterMs)

ASSUME CallModelAssumption ==
  /\ MaxRetries \in Nat /\ Timeout \in Nat \ {0} /\ MaxBackoff \in Nat
  /\ Backoffs \subseteq 0 .. MaxBackoff

VARIABLES
  pc,        \* "top", "racing", "settled", "backoff" or "returned"
  attempt,   \* retries taken
  omitTemperature,
  timedOut,  \* of the present request
  first,     \* what settled Promise.race; "none" while it is open
  age,       \* ticks since the present request was sent
  wait,      \* ticks left of the backoff
  elapsed,   \* ticks since the call
  aborted,   \* input.signal.aborted
  requests,  \* provider requests sent
  outcome    \* what the caller got

clocks == <<age, wait, elapsed>>
vars == <<pc, attempt, omitTemperature, timedOut, first, clocks, aborted, requests, outcome>>

(* Failures: the provider's own ("retryable" is 429, 5xx and network       *)
(* faults; "aborted" an abort nobody asked for), and AskSqlErrors a custom *)
(* model throws, which classifyLlmError returns as they are.               *)
Failures == {"temperature", "retryable", "fatal", "aborted", "own", "ownRetryable"}

(* One request, one per retry, and the re-send without `temperature`.      *)
RequestBudget == MaxRetries + 2

Init ==
  /\ pc = "top" /\ attempt = 0 /\ omitTemperature = FALSE
  /\ timedOut = FALSE /\ first = "none"
  /\ age = 0 /\ wait = 0 /\ elapsed = 0
  /\ aborted \in BOOLEAN
  /\ requests = 0 /\ outcome = "none"

Return(o) == pc' = "returned" /\ outcome' = o

(* The request leaves with fresh timers.                                   *)
Send ==
  /\ pc' = "racing" /\ timedOut' = FALSE /\ first' = "none" /\ age' = 0
  /\ requests' = requests + 1

(* Mutant: the signal is tested once, before the loop.                     *)
SendUnlessStarted ==
  \/ aborted /\ requests = 0 /\ Return("CANCELLED")
     /\ UNCHANGED <<timedOut, first, age, requests>>
  \/ (~aborted \/ requests > 0) /\ Send /\ UNCHANGED outcome

(* The top of the loop: a call never starts after cancellation.            *)
LoopTop ==
  \/ aborted /\ Return("CANCELLED") /\ UNCHANGED <<timedOut, first, age, requests>>
  \/ ~aborted /\ Send /\ UNCHANGED outcome

Begin ==
  /\ pc = "top"
  /\ LoopTop
  /\ UNCHANGED <<attempt, omitTemperature, wait, elapsed, aborted>>

-----------------------------------------------------------------------------
(* Promise.race                                                            *)

(* callOnce resolves or rejects.  After the soft timer the text may be cut *)
(* short: a stream that ends quietly on abort resolves like a whole one.   *)
ProviderSettles(what) ==
  /\ pc = "racing"
  /\ pc' = "settled" /\ first' = what
  /\ UNCHANGED <<attempt, omitTemperature, timedOut, clocks, aborted, requests, outcome>>

(* `timer`: aborts the controller, which the provider may ignore.          *)
SoftTimeout ==
  /\ pc = "racing" /\ age = Timeout /\ ~timedOut
  /\ timedOut' = TRUE
  /\ UNCHANGED <<pc, attempt, omitTemperature, first, clocks, aborted, requests, outcome>>

(* `hardTimer`, armed after `timer` and due with it.                       *)
HardTimeout ==
  /\ pc = "racing" /\ timedOut
  /\ pc' = "settled" /\ first' = "hard"
  /\ UNCHANGED <<attempt, omitTemperature, timedOut, clocks, aborted, requests, outcome>>

(* The caller's abort rejects the race, and the backoff's sleep.  It may   *)
(* also come after the race is settled and before the code resumes.        *)
Abort ==
  /\ ~aborted /\ aborted' = TRUE
  /\ \/ pc \in {"racing", "backoff"} /\ pc' = "settled" /\ first' = "abort"
     \/ pc \notin {"racing", "backoff"} /\ UNCHANGED <<pc, first>>
  /\ UNCHANGED <<attempt, omitTemperature, timedOut, clocks, requests, outcome>>

-----------------------------------------------------------------------------
(* The code after the race                                                 *)

Resumes == pc = "settled"

(* The first test of the catch block.                                      *)
TimedOut == first # "text" /\ timedOut /\ ~aborted

(* A provider that rejects `temperature` gets one re-send, outside the     *)
(* retry budget.                                                           *)
Resend ==
  /\ Resumes /\ ~TimedOut /\ ~aborted
  /\ first = "temperature" /\ ~omitTemperature
  /\ omitTemperature' = TRUE
  /\ Send
  /\ UNCHANGED <<attempt, wait, elapsed, aborted, outcome>>

(* classifyLlmError's `retryable`, within maxRetries and not after a cancel. *)
CanRetry ==
  first \in {"retryable", "ownRetryable"} /\ attempt < MaxRetries /\ ~aborted

StartBackoff(ticks) ==
  /\ Resumes /\ ~TimedOut /\ CanRetry
  /\ attempt' = attempt + 1
  /\ pc' = "backoff" /\ wait' = ticks
  /\ UNCHANGED <<omitTemperature, timedOut, first, age, elapsed, aborted, requests, outcome>>

(* classifyLlmError: an AskSqlError is what it is, and any other error of  *)
(* an aborted call is the abort.                                           *)
Classify(err) ==
  CASE err = "abort" -> "CANCELLED"
    [] err = "hard" -> "LLM_TIMEOUT"
    [] err \in {"own", "ownRetryable"} -> "own"
    [] aborted /\ err \in {"temperature", "retryable", "fatal", "aborted"} -> "CANCELLED"
    [] ~aborted /\ err = "aborted" -> "LLM_TIMEOUT"
    [] OTHER -> "error"

Finish ==
  /\ Resumes
  /\ \/ first = "text" /\ Return("text")
     \/ TimedOut /\ Return("LLM_TIMEOUT")
     \/ /\ first # "text" /\ ~TimedOut /\ ~CanRetry
        /\ ~(first = "temperature" /\ ~omitTemperature /\ ~aborted)
        /\ Return(Classify(first))
  /\ UNCHANGED <<attempt, omitTemperature, timedOut, first, clocks, aborted, requests>>

(* The sleep's timer resolves it: the loop resumes at its top, later than  *)
(* an abort that comes in between.                                         *)
Wake ==
  /\ pc = "backoff" /\ wait = 0
  /\ pc' = "top"
  /\ UNCHANGED <<attempt, omitTemperature, timedOut, first, clocks, aborted, requests, outcome>>

(* Time passes while no timer is due and the code is waiting.              *)
Tick ==
  /\ \/ pc = "racing" /\ age < Timeout /\ age' = age + 1 /\ UNCHANGED wait
     \/ pc = "backoff" /\ wait > 0 /\ wait' = wait - 1 /\ UNCHANGED age
  /\ elapsed' = elapsed + 1
  /\ UNCHANGED <<pc, attempt, omitTemperature, timedOut, first, aborted, requests, outcome>>

(* The caller has its answer.                                              *)
Done == pc = "returned" /\ UNCHANGED vars

Next ==
  \/ Begin \/ SoftTimeout \/ HardTimeout \/ Abort
  \/ \E what \in Failures \cup {"text"} : ProviderSettles(what)
  \/ Resend \/ (\E ticks \in Backoffs : StartBackoff(ticks)) \/ Finish \/ Wake
  \/ Tick \/ Done

Spec == Init /\ [][Next]_vars

(* The event loop runs what is due and the clock goes on; the provider     *)
(* owes nothing.                                                           *)
Fairness ==
  /\ WF_vars(Begin) /\ WF_vars(SoftTimeout) /\ WF_vars(HardTimeout)
  /\ WF_vars(Resend) /\ WF_vars(\E ticks \in Backoffs : StartBackoff(ticks))
  /\ WF_vars(Finish) /\ WF_vars(Wake) /\ WF_vars(Tick)

LiveSpec == Spec /\ Fairness

-----------------------------------------------------------------------------
(* callModel's variables hold what its branches assume.                    *)
TypeOK ==
  /\ pc \in {"top", "racing", "settled", "backoff", "returned"}
  /\ attempt \in 0 .. MaxRetries
  /\ omitTemperature \in BOOLEAN /\ timedOut \in BOOLEAN /\ aborted \in BOOLEAN
  /\ first \in {"none", "text", "hard", "abort"} \cup Failures
  /\ age \in 0 .. Timeout /\ wait \in 0 .. MaxBackoff /\ elapsed \in Nat
  /\ requests \in Nat
  /\ outcome \in {"none", "text", "CANCELLED", "LLM_TIMEOUT", "own", "error"}

(* The re-send of callModel costs one request beyond the retries, however  *)
(* it is mixed with them.                                                  *)
RequestsBounded == requests <= RequestBudget

(* The caller of callModel is never kept waiting longer than every request *)
(* and every backoff at its limit, whatever the provider does.             *)
WaitBounded == elapsed <= RequestBudget * Timeout + MaxRetries * MaxBackoff

(* A request that timed out is the last one: its time is not spent again.  *)
TimeoutIsFinal == [][requests' > requests => ~timedOut]_vars

(* Every call settles although the provider may never answer.              *)
CallSettles == <>(outcome # "none")

(* The caller's view: the race's winner counts once it is in, when the     *)
(* code no longer looks at the signal.                                     *)
Decided ==
  CASE pc = "settled" /\ first = "text" -> "text"
    [] pc = "settled" /\ first = "hard" -> "LLM_TIMEOUT"
    [] OTHER -> outcome

Promise == INSTANCE ModelCall
  WITH Budget <- RequestBudget, cancelled <- aborted, outcome <- Decided

(* callModel implements ModelCall: no request and no reply after a cancel. *)
KeepsPromise == Promise!Spec

-----------------------------------------------------------------------------
(* The strengthening the proofs induct on.                                 *)

Extra == IF omitTemperature THEN 1 ELSE 0

(* Where the code is decides what the race, the signal and the timers may  *)
(* be, and that a retry or the re-send is paid for before it is sent.      *)
ControlInv ==
  /\ pc # "returned" <=> outcome = "none"
  /\ pc \in {"racing", "backoff"} => ~aborted
  /\ pc \in {"top", "backoff"} => ~timedOut
  /\ pc \in {"racing", "settled", "backoff"} => requests > 0
  /\ pc = "settled" => first # "none"
  /\ pc = "settled" /\ first = "abort" => aborted
  /\ requests <= attempt + Extra + (IF pc \in {"top", "backoff"} THEN 0 ELSE 1)

(* Each request sent is charged Timeout, each retry MaxBackoff.            *)
Charged == requests * Timeout + attempt * MaxBackoff

TimeInv ==
  /\ elapsed <= Charged
  /\ pc = "racing" => elapsed + Timeout <= Charged + age
  /\ pc = "backoff" => elapsed + wait <= Charged

CallInv == TypeOK /\ ControlInv /\ TimeInv
=============================================================================
