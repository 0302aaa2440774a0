------------------------------ MODULE Counters ------------------------------
(***************************************************************************)
(* The delivery counters of internal/observability/metrics.go beside the   *)
(* rows they are about: where handleDelivery of internal/service observes  *)
(* an attempt and its result, and where a row moves without being          *)
(* observed.  A transaction is one step here; Delivery has its parts.      *)
(***************************************************************************)
EXTENDS OutboxRow, FiniteSets

CONSTANTS
  Worker,     \* goroutines with a delivery in hand, of any server
  Message,    \* the messages of the channel
  MaxRetries, \* limit of each of them
  MaxAge,     \* MESSAGE_RETRY_MAX_AGE, 0 for none
  Lease,      \* of an attempt
  MaxTime,    \* bound: the time
  MaxFaults   \* bound: answers that are lost and workers that die

CountersAssumption ==
  /\ IsFiniteSet(Message) /\ MaxRetries \in Int
  /\ MaxAge \in Nat /\ Lease \in Nat \ {0} /\ MaxTime \in Nat /\ MaxFaults \in Nat

VARIABLES
  row,      \* the table
  hand,     \* what each worker is trying: message and copy of the row, or Nothing
  attempts, \* delivery_attempts_total
  results,  \* delivery_results_total by outcome
  dead,     \* dead_messages_total
  now, faults

vars == <<row, hand, attempts, results, dead, now, faults>>
counters == <<attempts, results, dead>>

Nothing == [message |-> "none"]
Outcomes == {"sent", "retry", "dead", "invalid", "completion_error"}

Init ==
  /\ row = [m \in Message |-> SubmittedRow(MaxRetries, 0, 0, MaxAge)]
  /\ hand = [w \in Worker |-> Nothing]
  /\ attempts = 0 /\ results = [o \in Outcomes |-> 0] /\ dead = 0
  /\ now = 0 /\ faults = MaxFaults

Tick == now < MaxTime /\ now' = now + 1 /\ UNCHANGED <<row, hand, counters, faults>>

\* ReserveDispatch: no counter is told what becomes of a row.
Reserve ==
  /\ {m \in Message : Due(row[m], now)} # {}
  /\ row' = [m \in Message |-> IF Due(row[m], now) THEN Reserved(row[m], now, 1) ELSE row[m]]
  /\ UNCHANGED <<hand, counters, now, faults>>

\* Claim, and observeDeliveryAttempt when it hands the row out.
Claim(w, m) ==
  LET r == Leased(row[m], now, Lease, row[m].attempts + 1)
  IN  /\ hand[w] = Nothing
      /\ row' = [row EXCEPT ![m] = Claimed(@, now, Lease, @.attempts + 1)]
      /\ IF Grants(row[m], now)
         THEN hand' = [hand EXCEPT ![w] = [message |-> m, copy |-> r]] /\ attempts' = attempts + 1
         ELSE UNCHANGED <<hand, attempts>>
      /\ UNCHANGED <<results, dead, now, faults>>

\* The same with a commit whose answer is lost.
ClaimLost(w, m) ==
  /\ faults > 0 /\ faults' = faults - 1
  /\ hand[w] = Nothing
  /\ row' = [row EXCEPT ![m] = Claimed(@, now, Lease, @.attempts + 1)]
  /\ UNCHANGED <<hand, counters, now>>

\* Variant: what the provider said, whatever became of it.
OutcomeOfCall(o, finished) == IF o.state = "failed" THEN "retry" ELSE o.state

\* deliveryOutcome, and the outcome of a Finish that returns an error.
Outcome(o, finished) ==
  CASE ~finished                         -> "completion_error"
    [] finished /\ o.state = "sent"      -> "sent"
    [] finished /\ o.state = "failed"    -> "retry"
    [] finished /\ o.state = "dead"      -> "dead"

\* ObserveDeliveryResult: whether dead_messages_total goes up as well.
CountedDead(o, finished) == IF Outcome(o, finished) = "dead" THEN 1 ELSE 0

\* observeDeliveryResult.
Observe(o, finished) ==
  /\ results' = [results EXCEPT ![Outcome(o, finished)] = @ + 1]
  /\ dead' = dead + CountedDead(o, finished)
  /\ UNCHANGED attempts

\* The provider's answer, Finish, and observeDeliveryResult.  A Finish that does
\* not find its lease returns an error; one that finds it may fail as well, with
\* its row written or not.
Ends(w) ==
  /\ hand[w] # Nothing
  /\ hand' = [hand EXCEPT ![w] = Nothing]
  /\ \E o \in {Succeeded(hand[w].copy), Failed(hand[w].copy, now, 1, "provider")} :
       LET m == hand[w].message
           fits == StillLeased(row[m], o, now)
           written == [row EXCEPT ![m] = Completed(o)]
       IN  \/ /\ row' = IF fits THEN written ELSE row
              /\ Observe(o, fits) /\ UNCHANGED faults
           \/ /\ fits /\ faults > 0 /\ faults' = faults - 1
              /\ row' \in {row, written} /\ Observe(o, FALSE)
  /\ UNCHANGED now

\* The worker dies between the observation of its attempt and that of its result.
Dies(w) ==
  /\ hand[w] # Nothing /\ faults > 0 /\ faults' = faults - 1
  /\ hand' = [hand EXCEPT ![w] = Nothing]
  /\ UNCHANGED <<row, counters, now>>

Next ==
  \/ Tick \/ Reserve
  \/ \E w \in Worker : Ends(w) \/ Dies(w) \/ \E m \in Message : Claim(w, m) \/ ClaimLost(w, m)

Spec == Init /\ [][Next]_vars

-----------------------------------------------------------------------------
InState(state) == {m \in Message : row[m].state = state}
InHand == {w \in Worker : hand[w] # Nothing}
Counted == results["sent"] + results["retry"] + results["dead"] + results["invalid"]
             + results["completion_error"]

\* The attempts that a row has on its account, and those of all rows.
OnAccount(m) == {m} \X (1 .. row[m].attempts)
RowAttempts == Cardinality(UNION {OnAccount(m) : m \in Message})

\* Types: a worker (handleDelivery) holds a copy of a row, and counters are numbers.
TypeOK ==
  /\ \A m \in Message : row[m] \in Row
  /\ \A w \in Worker : hand[w] # Nothing => hand[w].message \in Message /\ hand[w].copy \in Row
  /\ attempts \in Nat /\ results \in [Outcomes -> Nat] /\ dead \in Nat
  /\ now \in 0 .. MaxTime /\ faults \in 0 .. MaxFaults

\* A message that is counted sent or dead is so in the table, and none is counted
\* twice: a repeated notification, a late completion and a completion with its
\* answer lost do not add to these counters.
CountsAreTrue ==
  /\ results["sent"] <= Cardinality(InState("sent"))
  /\ results["dead"] <= Cardinality(InState("dead"))
  /\ dead = results["dead"]

\* Every attempt the rows have on account was observed, and has its result unless it
\* is under way; each exception is an answer that was lost or a worker that died.
AttemptsAccounted ==
  /\ RowAttempts - attempts \in 0 .. MaxFaults - faults
  /\ attempts - Counted - Cardinality(InHand) \in 0 .. MaxFaults - faults

\* metrics.go:91-95: "Total messages transitioned to dead by channel."
DeadCounted == faults = MaxFaults => dead = Cardinality(InState("dead"))
=============================================================================
