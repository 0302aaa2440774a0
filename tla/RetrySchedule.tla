--------------------------- MODULE RetrySchedule ---------------------------
(***************************************************************************)
(* How long a message waits after each failed attempt                      *)
(* (internal/service/service.go: retryDelay, durationJitter, and their use *)
(* in handleDelivery).  One message fails again and again; the random part *)
(* of every wait is any value the code may draw.                           *)
(***************************************************************************)
EXTENDS Integers

CONSTANTS
  Second,     \* clock units in a second; the code has 10^9
  MaxAttempts \* bound: failed attempts

ASSUME SecondAssumption == Second \in Nat /\ Second >= 5
ASSUME AttemptsAssumption == MaxAttempts \in Nat

VARIABLES
  attempts, \* attempts that failed; the row's retry_count is one less
  wait      \* from the last one to the next

vars == <<attempts, wait>>

\* 1 << count, for the counts the code shifts by.
Shifted == <<2, 4, 8, 16, 32, 64, 128, 256, 512>>

\* Variant: the boundary is one too early.
RetryDelayEarly(count) ==
  IF count > 7 THEN 900 * Second ELSE Shifted[count] * Second

\* retryDelay: seconds that double, then fifteen minutes.
RetryDelay(count) ==
  IF count > 9 THEN 900 * Second ELSE Shifted[count] * Second

\* durationJitter: rand.Int64N draws from zero up to its argument, without it.
Jitter(d) == {d - (d \div 10) + r : r \in 0 .. (d \div 5) - 1}

Init == attempts = 0 /\ wait = 0

\* Variant: the count is the row's retry_count, and starts the table over.
CountAgain == (attempts % 9) + 1

\* handleDelivery passes RetryCount + 1, the number of the attempt that failed.
Count == attempts + 1

Fail ==
  /\ attempts < MaxAttempts
  /\ wait' \in Jitter(RetryDelay(Count))
  /\ attempts' = attempts + 1

Next == Fail
Spec == Init /\ [][Next]_vars

-----------------------------------------------------------------------------
\* Types: no wait that retryDelay and durationJitter give is negative.
TypeOK == attempts \in 0 .. MaxAttempts /\ wait \in Nat

\* Each of the first ten waits is longer than the one before it, whatever was
\* drawn: the jitter never undoes the doubling, nor does the step at the boundary
\* from 512 seconds to the fifteen minutes that all later waits are about.
WaitsGrow == [][attempts < 10 => wait' > wait]_vars

\* No wait is a tenth over fifteen minutes, and from the tenth on none is a tenth
\* under it: a message that keeps failing is tried about four times an hour.
WaitsLevelOut ==
  /\ wait < 990 * Second
  /\ attempts >= 10 => wait >= 810 * Second
=============================================================================
