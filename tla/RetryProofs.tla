----------------------------- MODULE RetryProofs -----------------------------
(***************************************************************************)
(* Proofs that retry.Do reports success only for a success, counts         *)
(* failures exactly and makes pauses that grow within their bounds, for    *)
(* every choice of options.                                                *)
(***************************************************************************)
EXTENDS Retry, TLAPS

\* What each control point knows: attempts left in "call" and "sleep", and the
\* failures so far.
LoopInv ==
    /\ loop = "call" => /\ failures = attempt - 1 /\ result = "pending"
                        /\ op.maxAttempts < 0 \/ attempt <= op.maxAttempts
    /\ loop = "sleep" => /\ failures = attempt /\ result = "pending" /\ lastErr = "retryable"
                         /\ op.maxAttempts < 0 \/ attempt < op.maxAttempts

RetryInv == RetryTypeOK /\ LoopInv /\ SuccessIsReal /\ FailuresExact

LEMMA DefaultsType ==
    ASSUME NEW o \in Operations
    PROVE  WithDefaults(o) \in [maxAttempts : Int \ {0}, initialDelay : Nat \ {0}, maxDelay : Nat \ {0}]
<1>1. o \in [maxAttempts : Int, initialDelay : Int, maxDelay : Int]  BY OptionsAssumption
<1> QED  BY <1>1 DEF WithDefaults

LEMMA InitRetry == RetryInit => RetryInv
<1> SUFFICES ASSUME RetryInit PROVE RetryInv  OBVIOUS
<1>1. op \in [maxAttempts : Int \ {0}, initialDelay : Nat \ {0}, maxDelay : Nat \ {0}]
  BY DefaultsType DEF RetryInit
<1>2. op.maxAttempts \in Int \ {0}  BY <1>1
<1> QED
  BY <1>1, <1>2 DEF RetryInit, RetryInv, RetryTypeOK, LoopInv, SuccessIsReal, FailuresExact

LEMMA StepRetry == ASSUME RetryInv, [RetryNext]_retryVars PROVE RetryInv'
<1>0. /\ RetryTypeOK /\ LoopInv /\ SuccessIsReal /\ FailuresExact
      /\ op.maxAttempts \in Int \ {0} /\ attempt \in Nat \ {0} /\ failures \in Nat
  BY DEF RetryInv, RetryTypeOK
<1>1. ASSUME NEW err \in {"none", "fatal", "retryable"}, FuncReturned(err) PROVE RetryInv'
  <2>1. CASE err \in {"none", "fatal"}
    BY <1>0, <1>1, <2>1
    DEF FuncReturned, DoReturns, RetryInv, RetryTypeOK, LoopInv, SuccessIsReal, FailuresExact
  <2>2. CASE err = "retryable" /\ OutOfAttempts
    BY <1>0, <1>1, <2>2
    DEF FuncReturned, CountFailure, OutOfAttempts, DoReturns, RetryInv, RetryTypeOK, LoopInv,
        SuccessIsReal, FailuresExact
  <2>3. CASE err = "retryable" /\ ~OutOfAttempts
    BY <1>0, <1>1, <2>3
    DEF FuncReturned, CountFailure, OutOfAttempts, RetryInv, RetryTypeOK, LoopInv,
        SuccessIsReal, FailuresExact
  <2> QED  BY <1>1, <2>1, <2>2, <2>3
<1>2. CASE SleepEnds
  <2>1. op.maxAttempts < 0 \/ attempt' <= op.maxAttempts
    BY <1>0, <1>2 DEF SleepEnds, LoopInv
  <2> QED
    BY <1>0, <1>2, <2>1
    DEF SleepEnds, RetryInv, RetryTypeOK, LoopInv, SuccessIsReal, FailuresExact
<1>3. CASE SleepCancelled
  BY <1>0, <1>3
  DEF SleepCancelled, DoReturns, RetryInv, RetryTypeOK, LoopInv, SuccessIsReal, FailuresExact
<1>4. CASE UNCHANGED retryVars
  BY <1>0, <1>4 DEF retryVars, RetryInv, RetryTypeOK, LoopInv, SuccessIsReal, FailuresExact
<1> QED  BY <1>1, <1>2, <1>3, <1>4 DEF RetryNext, AnyFunc

LEMMA RetryInvariance == RetrySpec => []RetryInv
BY InitRetry, StepRetry, PTL DEF RetrySpec

\* Whatever the options, Do returns a nil error only if the function's last call
\* succeeded (the return statement behind the loop is dead code), the failure
\* counter has one increment per retryable failure, and Do gives up after exactly
\* maxAttempts of them.
THEOREM OutcomeAlwaysExact == RetrySpec => []OutcomeExact
<1>1. RetryInv => OutcomeExact  BY DEF RetryInv, OutcomeExact
<1> QED  BY <1>1, RetryInvariance, PTL

\* Whatever the options, the variables of the loop keep their types: attempts and
\* pauses are positive, and no caller's zero or negative option gets through.
THEOREM RetryTypeCorrect == RetrySpec => []RetryTypeOK
<1>1. RetryInv => RetryTypeOK  BY DEF RetryInv
<1> QED  BY <1>1, RetryInvariance, PTL

-----------------------------------------------------------------------------
(* The pauses. *)

\* The powers of two a shift computes before the pause is capped whatever it is.
LEMMA Powers ==
    ASSUME NEW x
    PROVE  /\ x = 0 => 2^x = 1
           /\ x = 1 => 2^x = 2
           /\ x = 2 => 2^x = 4
           /\ x = 3 => 2^x = 8
           /\ x = 4 => 2^x = 16
           /\ x = 5 => 2^x = 32
           /\ x = 6 => 2^x = 64
           /\ x = 7 => 2^x = 128
           /\ x = 8 => 2^x = 256
           /\ x = 9 => 2^x = 512
           /\ x = 10 => 2^x = 1024
<1>1. x = 0 => 2^x = 1  BY 2^0 = 1, Zenon
<1>2. x = 1 => 2^x = 2  BY 2^1 = 2, Zenon
<1>3. x = 2 => 2^x = 4  BY 2^2 = 4, Zenon
<1>4. x = 3 => 2^x = 8  BY 2^3 = 8, Zenon
<1>5. x = 4 => 2^x = 16  BY 2^4 = 16, Zenon
<1>6. x = 5 => 2^x = 32  BY 2^5 = 32, Zenon
<1>7. x = 6 => 2^x = 64  BY 2^6 = 64, Zenon
<1>8. x = 7 => 2^x = 128  BY 2^7 = 128, Zenon
<1>9. x = 8 => 2^x = 256  BY 2^8 = 256, Zenon
<1>10. x = 9 => 2^x = 512  BY 2^9 = 512, Zenon
<1>11. x = 10 => 2^x = 1024  BY 2^10 = 1024, Zenon
<1> QED  BY <1>1, <1>2, <1>3, <1>4, <1>5, <1>6, <1>7, <1>8, <1>9, <1>10, <1>11

LEMMA Doubling ==
    /\ \A i \in 1..11 : 2^(i - 1) \in Nat \ {0}
    /\ \A i \in 1..10 : 2^((i + 1) - 1) = 2 * 2^(i - 1)
<1>1. ASSUME NEW i \in 1..11 PROVE 2^(i - 1) \in Nat \ {0}
  <2>1. i - 1 \in 0..10  OBVIOUS
  <2> QED  BY <2>1, Powers
<1>2. ASSUME NEW i \in 1..10 PROVE 2^((i + 1) - 1) = 2 * 2^(i - 1)
  <2>1. i - 1 \in 0..9 /\ (i + 1) - 1 = (i - 1) + 1  OBVIOUS
  <2> QED  BY <2>1, Powers
<1> QED  BY <1>1, <1>2

LEMMA Products ==
    ASSUME NEW p \in Nat \ {0}, NEW d \in Nat \ {0}
    PROVE  p * d \in Nat /\ d <= p * d /\ p * d <= (2 * p) * d
OBVIOUS

\* Options with their defaults, and how pauses follow from them.
Sane(o) ==
    /\ o.initialDelay \in Nat \ {0} /\ o.maxDelay \in Nat \ {0}
    /\ o.initialDelay <= o.maxDelay

LEMMA PausesGrow ==
    ASSUME Sane(op), NEW i \in Nat \ {0}
    PROVE  /\ DelayAfter(i) \in op.initialDelay..op.maxDelay
           /\ DelayAfter(i) <= DelayAfter(i + 1)
<1> DEFINE d == op.initialDelay
           m == op.maxDelay
<1>1. d \in Nat \ {0} /\ m \in Nat \ {0} /\ d <= m  BY DEF Sane
<1> HIDE DEF d, m
<1>2. \A j : DelayAfter(j) = IF j > 11 \/ 2^(j - 1) * d > m THEN m ELSE 2^(j - 1) * d
  BY DEF DelayAfter, d, m
<1>3. CASE i \in 1..10
  <2>1. /\ 2^(i - 1) \in Nat \ {0} /\ 2^((i + 1) - 1) = 2 * 2^(i - 1)
    <3>1. i \in 1..11  BY <1>3
    <3> QED  BY <1>3, <3>1, Doubling
  <2>2. /\ 2^(i - 1) * d \in Nat /\ d <= 2^(i - 1) * d
        /\ 2^(i - 1) * d <= 2^((i + 1) - 1) * d
        /\ 2^((i + 1) - 1) * d \in Nat
    <3> DEFINE p == 2^(i - 1)
    <3>1. p \in Nat \ {0} /\ 2 * p \in Nat \ {0}  BY <2>1
    <3> HIDE DEF p
    <3>2. p * d \in Nat /\ d <= p * d /\ p * d <= (2 * p) * d /\ (2 * p) * d \in Nat
      BY <3>1, <1>1, Products
    <3> QED  BY <2>1, <3>2 DEF p
  <2>3. ~(i > 11) /\ ~(i + 1 > 11)  BY <1>3
  <2>4. /\ DelayAfter(i) = IF 2^(i - 1) * d > m THEN m ELSE 2^(i - 1) * d
        /\ DelayAfter(i + 1) = IF 2^((i + 1) - 1) * d > m THEN m ELSE 2^((i + 1) - 1) * d
    BY <1>2, <2>3
  <2> QED
    <3> DEFINE a == 2^(i - 1) * d
               b == 2^((i + 1) - 1) * d
    <3>1. /\ DelayAfter(i) = IF a > m THEN m ELSE a
          /\ DelayAfter(i + 1) = IF b > m THEN m ELSE b
          /\ a \in Nat /\ b \in Nat /\ d <= a /\ a <= b
      BY <2>2, <2>4
    <3> HIDE DEF a, b
    <3>2. DelayAfter(i) \in d..m /\ DelayAfter(i) <= DelayAfter(i + 1)  BY <3>1, <1>1
    <3> QED  BY <3>2 DEF d, m
<1>4. CASE i = 11
  <2>1. DelayAfter(i + 1) = m  BY <1>2, <1>4
  <2>2. 2^(i - 1) \in Nat \ {0}  BY <1>4, Doubling
  <2>3. 2^(i - 1) * d \in Nat /\ d <= 2^(i - 1) * d
    <3> DEFINE p == 2^(i - 1)
    <3>1. p \in Nat \ {0}  BY <2>2
    <3> HIDE DEF p
    <3>2. p * d \in Nat /\ d <= p * d  BY <3>1, <1>1, Products
    <3> QED  BY <3>2 DEF p
  <2>4. DelayAfter(i) = m \/ (DelayAfter(i) = 2^(i - 1) * d /\ ~(2^(i - 1) * d > m))
    BY <1>2
  <2>5. DelayAfter(i) \in d..m
    <3> DEFINE a == 2^(i - 1) * d
    <3>1. a \in Nat /\ d <= a /\ (DelayAfter(i) = m \/ (DelayAfter(i) = a /\ ~(a > m)))
      BY <2>3, <2>4
    <3> HIDE DEF a
    <3> QED  BY <3>1, <1>1
  <2> QED  BY <1>1, <2>1, <2>5 DEF d, m
<1>5. CASE i > 11
  <2>1. DelayAfter(i) = m /\ DelayAfter(i + 1) = m  BY <1>2, <1>5
  <2> QED  BY <1>1, <2>1 DEF d, m
<1> QED  BY <1>3, <1>4, <1>5

\* The latest pause is the one of the attempt before, none before the first.
PauseInv ==
    /\ Sane(op)
    /\ loop = "call" => delay = IF attempt = 1 THEN 0 ELSE DelayAfter(attempt - 1)
    /\ loop = "sleep" => delay = DelayAfter(attempt)

LEMMA InitPause == RetryInit => PauseInv
<1> SUFFICES ASSUME RetryInit PROVE PauseInv  OBVIOUS
<1>1. PICK o \in Operations : op = WithDefaults(o)  BY DEF RetryInit
<1>2. o.initialDelay \in Int /\ o.maxDelay \in Int  BY OptionsAssumption
<1>3. Sane(op)  BY <1>1, <1>2 DEF WithDefaults, Sane
<1> QED  BY <1>3 DEF RetryInit, PauseInv

LEMMA StepPause ==
    ASSUME RetryTypeOK, PauseInv, [RetryNext]_retryVars
    PROVE  /\ PauseInv'
           /\ loop' = "sleep" /\ loop = "call" =>
                /\ delay' >= delay
                /\ op.initialDelay <= delay' /\ delay' <= op.maxDelay
<1>1. attempt \in Nat \ {0} /\ loop \in {"call", "sleep", "returned"} /\ Sane(op)
  BY DEF RetryTypeOK, PauseInv
<1>2. op' = op
  BY DEF RetryNext, AnyFunc, FuncReturned, SleepEnds, SleepCancelled, retryVars
<1>3. Sane(op)' /\ \A i : DelayAfter(i)' = DelayAfter(i)
  BY <1>1, <1>2 DEF Sane, DelayAfter
<1>4. ASSUME NEW err \in {"none", "fatal", "retryable"}, FuncReturned(err)
      PROVE  /\ PauseInv'
             /\ loop' = "sleep" => delay' = DelayAfter(attempt) /\ loop = "call"
  <2>1. CASE err \in {"none", "fatal"} \/ OutOfAttempts
    BY <1>3, <1>4, <2>1 DEF FuncReturned, DoReturns, PauseInv
  <2>2. CASE err = "retryable" /\ ~OutOfAttempts
    <3>1. /\ loop = "call" /\ loop' = "sleep" /\ attempt' = attempt
          /\ delay' = DelayAfter(attempt)
      BY <1>4, <2>2 DEF FuncReturned
    <3> QED  BY <1>3, <3>1 DEF PauseInv
  <2> QED  BY <1>4, <2>1, <2>2
<1>5. CASE SleepEnds
  <2>1. attempt' = attempt + 1 /\ delay' = delay /\ loop = "sleep" /\ loop' \in {"call", "returned"}
    BY <1>5 DEF SleepEnds, DoReturns
  <2>2. attempt' # 1 /\ attempt' - 1 = attempt  BY <1>1, <2>1
  <2> QED  BY <1>3, <2>1, <2>2 DEF PauseInv
<1>6. CASE SleepCancelled
  BY <1>3, <1>6 DEF SleepCancelled, DoReturns, PauseInv
<1>7. CASE UNCHANGED retryVars
  BY <1>3, <1>7 DEF retryVars, PauseInv
<1>8. /\ DelayAfter(attempt) \in op.initialDelay..op.maxDelay
      /\ loop = "call" => DelayAfter(attempt) >= delay
  <2>1. DelayAfter(attempt) \in op.initialDelay..op.maxDelay  BY <1>1, PausesGrow
  <2>2. CASE attempt = 1
    BY <1>1, <2>1, <2>2 DEF PauseInv, Sane
  <2>3. CASE attempt # 1
    <3>1. attempt - 1 \in Nat \ {0} /\ (attempt - 1) + 1 = attempt  BY <1>1, <2>3
    <3>2. /\ DelayAfter(attempt - 1) <= DelayAfter(attempt)
          /\ DelayAfter(attempt - 1) \in op.initialDelay..op.maxDelay
      BY <1>1, <3>1, PausesGrow
    <3> QED  BY <1>1, <2>1, <2>3, <3>2 DEF PauseInv, Sane
  <2> QED  BY <2>1, <2>2, <2>3
<1>9. op.initialDelay \in Nat /\ op.maxDelay \in Nat  BY <1>1 DEF Sane
<1>10. PauseInv'
  BY <1>4, <1>5, <1>6, <1>7 DEF RetryNext, AnyFunc
<1>11. loop' = "sleep" /\ loop = "call" => delay' = DelayAfter(attempt)
  BY <1>4 DEF RetryNext, AnyFunc, SleepEnds, SleepCancelled, retryVars
<1> QED  BY <1>8, <1>9, <1>10, <1>11

\* Whatever the options, and with or without a limit to the attempts, pauses grow
\* from one attempt to the next and stay between the initial and the maximal delay,
\* also past the attempt from which on no shift is computed.
THEOREM BackoffAlwaysMonotone == RetrySpec => BackoffMonotone
<1>1. RetryInv /\ PauseInv /\ [RetryNext]_retryVars =>
        PauseInv' /\ [loop' = "sleep" /\ loop = "call" =>
                        /\ delay' >= delay
                        /\ op.initialDelay <= delay' /\ delay' <= op.maxDelay]_retryVars
  BY StepPause DEF RetryInv
<1> QED  BY <1>1, InitPause, RetryInvariance, PTL DEF RetrySpec, BackoffMonotone
=============================================================================
