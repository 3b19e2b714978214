-------------------------------- MODULE Retry --------------------------------
(***************************************************************************)
(* retry.Do (internal/retry): call a function until it succeeds, fails     *)
(* with an error that is not retryable, has been tried often enough, or    *)
(* the context is cancelled during a pause.                                *)
(*                                                                         *)
(* The module holds the loop; what the function does is up to the module   *)
(* that extends it, which calls FuncReturned with the function's error.    *)
(* The function of the specification below returns anything.               *)
(***************************************************************************)
EXTENDS Integers

CONSTANTS
    Operations,  \* options callers pass: records of maxAttempts, initialDelay, maxDelay
    Horizon      \* bound on the attempts explored when there is no limit

ASSUME OptionsAssumption ==
    /\ Operations \subseteq [maxAttempts : Int, initialDelay : Int, maxDelay : Int]
    /\ Horizon \in Nat

\* The defaults of Do, durations in seconds: 0 attempts stand for 3, a negative
\* number for no limit.
WithoutDefaults(o) == o
WithDefaults(o) ==
    LET initial == IF o.initialDelay <= 0 THEN 1 ELSE o.initialDelay
        max     == IF o.maxDelay <= 0 THEN 30 ELSE o.maxDelay
    IN  [maxAttempts  |-> IF o.maxAttempts = 0 THEN 3 ELSE o.maxAttempts,
         initialDelay |-> initial,
         maxDelay     |-> IF max < initial THEN initial ELSE max]

VARIABLES
    op,        \* the operation, defaults applied
    loop,      \* "call", "sleep" or "returned"
    attempt,   \* the variable i of the loop
    failures,  \* increments of op.FailureCounter
    delay,     \* duration of the latest pause
    result,    \* what Do returns: "none" is a nil error, "pending" before
    lastErr    \* history: the error of the function's latest call

retryVars == <<op, loop, attempt, failures, delay, result, lastErr>>

RetryInit ==
    /\ \E o \in Operations : op = WithDefaults(o)
    /\ loop = "call"
    /\ attempt = 1
    /\ failures = 0
    /\ delay = 0
    /\ result = "pending"
    /\ lastErr = "none"

\* The pause after attempt i failed: it doubles up to maxDelay.
DelayAfterUncapped(i) == 2^(i - 1) * op.initialDelay
DelayAfter(i) ==
    LET expDelay == 2^(i - 1) * op.initialDelay
    IN  IF i > 11 \/ expDelay > op.maxDelay THEN op.maxDelay ELSE expDelay

\* This was the last attempt.
OutOfAttempts == attempt = op.maxAttempts

\* op.FailureCounter.Inc, before the check for the last attempt.
CountFailureLate == failures' = IF OutOfAttempts THEN failures ELSE failures + 1
CountFailure == failures' = failures + 1

DoReturns(err) ==
    /\ loop' = "returned"
    /\ result' = err

\* The loop's body after op.Func returned err.
FuncReturned(err) ==
    /\ loop = "call"
    /\ lastErr' = err
    /\ UNCHANGED op
    /\ IF err \in {"none", "fatal"}
         THEN DoReturns(err) /\ UNCHANGED <<attempt, failures, delay>>
         ELSE /\ CountFailure
              /\ IF OutOfAttempts
                   THEN DoReturns("maxAttempts") /\ UNCHANGED <<attempt, delay>>
                   ELSE /\ loop' = "sleep"
                        /\ delay' = DelayAfter(attempt)
                        /\ UNCHANGED <<attempt, result>>

\* SleepContext ends with the timer: i++ and the condition of the for statement,
\* behind which Do returns nil.
SleepEnds ==
    /\ loop = "sleep"
    /\ attempt < Horizon
    /\ attempt' = attempt + 1
    /\ IF op.maxAttempts < 0 \/ attempt' <= op.maxAttempts
         THEN loop' = "call" /\ UNCHANGED result
         ELSE DoReturns("none")
    /\ UNCHANGED <<op, failures, delay, lastErr>>

\* SleepContext ends with the context.
SleepCancelled ==
    /\ loop = "sleep"
    /\ DoReturns("cancelled")
    /\ UNCHANGED <<op, attempt, failures, delay, lastErr>>

AnyFunc == \E err \in {"none", "fatal", "retryable"} : FuncReturned(err)

RetryNext == AnyFunc \/ SleepEnds \/ SleepCancelled

RetrySpec == RetryInit /\ [][RetryNext]_retryVars

-----------------------------------------------------------------------------
RetryTypeOK ==
    /\ op \in [maxAttempts : Int \ {0}, initialDelay : Nat \ {0}, maxDelay : Nat \ {0}]
    /\ loop \in {"call", "sleep", "returned"}
    /\ attempt \in Nat \ {0}
    /\ failures \in Nat
    /\ result \in {"pending", "none", "fatal", "maxAttempts", "cancelled"}
    /\ lastErr \in {"none", "fatal", "retryable"}

\* Do returns nil only when the function succeeded: the return behind the loop,
\* which would turn a last failure into a success, is never reached.
SuccessIsReal == result = "none" => lastErr = "none"

\* The counter of failures is exact: one for each retryable failure and none for
\* a success, a fatal error or a cancelled pause, and Do gives up for the number
\* of attempts only after exactly MaxAttempts of them.
FailuresExact ==
    /\ failures = IF lastErr = "retryable" THEN attempt - (IF loop = "call" THEN 1 ELSE 0)
                                           ELSE attempt - 1
    /\ result = "maxAttempts" => failures = op.maxAttempts

\* What Do reports is what happened: its result and its counter of failures.
OutcomeExact == SuccessIsReal /\ FailuresExact

\* Pauses never get shorter from one attempt to the next and stay within the
\* configured bounds, also when there is no limit to the attempts.
BackoffMonotone ==
    [][loop' = "sleep" /\ loop = "call" =>
          /\ delay' >= delay
          /\ op.initialDelay <= delay' /\ delay' <= op.maxDelay]_retryVars
=============================================================================
