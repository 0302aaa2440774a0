--------------------------- MODULE DeliveryProofs ---------------------------
(***************************************************************************)
(* Proofs about Delivery for any rows, any servers and any timing.         *)
(***************************************************************************)
EXTENDS DeliveryInv, FiniteSetTheorems, TLAPS

USE NoTimeAssumption, MsgAssumption, RetryLimitsAssumption, DelayAssumption,
    BoundAssumption

-----------------------------------------------------------------------------
(* What the transactions do to a row. *)

\* Every row operator of outbox_repo gives a row.
LEMMA RowTypes ==
  ASSUME NEW r \in Row, NEW now \in Int, NEW delay \in Nat, NEW token \in Nat,
         NEW error \in RowError, NEW limit \in Int
  PROVE  /\ AbsentRow \in Row
         /\ SubmittedRow(limit, now, delay, RetryMaxAge) \in Row
         /\ MakeDead(r) \in Row
         /\ Reserved(r, now, delay) \in Row
         /\ Leased(r, now, delay, token) \in Row
         /\ Claimed(r, now, delay, token) \in Row
         /\ Succeeded(r) \in Row
         /\ Failed(r, now, delay, error) \in Row
         /\ Completed(r) \in Row
         /\ AgedRow(r) \in Row
<1>0. /\ r.state \in RowState /\ r.maxRetries \in Int /\ r.attempts \in Nat
      /\ r.retryCount \in Nat /\ r.token \in Nat /\ r.leaseUntil \in Time
      /\ r.dispatchAfter \in Time /\ r.nextRetryAt \in Time
      /\ r.deadline \in Time /\ r.lastError \in RowError /\ r.sentAt \in BOOLEAN
  BY DEF Row
<1>a. \A t \in Time : Aged(t) \in Time
  BY DEF Aged, Time
<1>b. /\ now \in Time /\ now + delay \in Time /\ NoTime \in Time
      /\ now + delay + RetryMaxAge \in Time /\ r.attempts + 1 \in Nat
      /\ NoToken \in Nat
  BY <1>0 DEF Time, NoToken
<1>c. /\ {"pending", "sending", "failed", "sent", "dead"} \subseteq RowState
      /\ {"none", "unknown", "exhausted"} \subseteq RowError
  BY DEF RowState, RowError
<1> HIDE DEF Time, RowState, RowError
<1>1. MakeDead(r) \in Row
  BY <1>b, <1>c DEF MakeDead, Row
<1>2. Recovered(r, now) \in Row
  BY <1>b, <1>c DEF Recovered, Row
<1>3. \A q \in Row : [q EXCEPT !.dispatchAfter = now + delay] \in Row
  BY <1>b DEF Row
<1>4. Reserved(r, now, delay) \in Row
  <2>1. CASE Exhausted(r, now)
    BY <2>1, <1>1 DEF Reserved
  <2>2. CASE ~Exhausted(r, now) /\ r.state = "sending"
    BY <2>2, <1>2, <1>3 DEF Reserved
  <2>3. CASE ~Exhausted(r, now) /\ r.state # "sending"
    BY <2>3, <1>3 DEF Reserved
  <2> QED  BY <2>1, <2>2, <2>3
<1>5. Leased(r, now, delay, token) \in Row
  BY <1>0, <1>b, <1>c DEF Leased, Row
<1>6. Claimed(r, now, delay, token) \in Row
  BY <1>1, <1>5 DEF Claimed, Grants
<1>7. Succeeded(r) \in Row
  BY <1>c DEF Succeeded, Row
<1>8. Failed(r, now, delay, error) \in Row
  BY <1>b, <1>c DEF Failed, Row
<1>9. Completed(r) \in Row
  BY <1>0, <1>b, <1>c DEF Completed, Row
<1>10. AgedRow(r) \in Row
  BY <1>0, <1>a DEF AgedRow, Row
<1>11. AbsentRow \in Row
  BY <1>b DEF AbsentRow, Row, RowState, RowError
<1>12. SubmittedRow(limit, now, delay, RetryMaxAge) \in Row
  BY <1>11, <1>b, <1>c DEF SubmittedRow, Row
<1> QED  BY <1>11, <1>1, <1>4, <1>5, <1>6, <1>7, <1>8, <1>9, <1>10, <1>12

-----------------------------------------------------------------------------
(* Steps that touch no row and carry no claim forward. *)

Counters == <<row, minted, called, confirmed>>

WorkerRests(w, v) ==
  \/ v.pc = "claim" /\ v.clock = Now
  \/ v.pc \in {"idle", "got", "settle", "stopped"} /\ v.clock \in {Now, w.clock}
  \/ v.pc = w.pc /\ v.id = w.id /\ v.clock = w.clock /\ v.outbox = w.outbox

RelayRests(r, q) ==
  \/ q = r
  \/ q.pc = "scan" /\ q.clock = Now
  \/ q.pc \in {"idle", "publish", "stopped"} /\ q.clock \in {Now, r.clock}

\* Such a step keeps the invariant.
LEMMA QuietStep ==
  ASSUME Inv, TypeOK', UNCHANGED Counters,
         \A s \in Server : WorkerRests(worker[s], worker'[s]),
         \A s \in Server : RelayRests(relay[s], relay'[s])
  PROVE  Inv'
<1> USE DEF Inv, Counters
<1>1. LeaseShape'
  BY DEF LeaseShape
<1>2. AttemptsCounted'
  BY DEF AttemptsCounted
<1>3. CallsUnderTokens'
  BY DEF CallsUnderTokens
<1>4. ClaimsExclusive'
  BY DEF ClaimsExclusive, Holding, WorkerRests
<1>5. CopyFaithful'
  BY DEF CopyFaithful, Holding, WorkerRests, RetryLimitReached
<1>6. LocksExclusive'
  BY DEF LocksExclusive, WorkerRests, RelayRests
<1>7. SelectionHolds'
  BY DEF SelectionHolds, WorkerRests, RelayRests, Exists, Due, Reached
<1>8. ClocksBounded'
  BY DEF ClocksBounded, WorkerRests, RelayRests, WorkerWaits, RelayWaits, Now
<1>9. GivesUpOnlyWhenExhausted'
  BY DEF GivesUpOnlyWhenExhausted
<1>10. AttemptsInWindow'
  BY DEF AttemptsInWindow, WorkerRests
<1>11. LeaseOutlivesCall'
  BY DEF LeaseOutlivesCall, WorkerRests
<1> QED
  BY <1>1, <1>2, <1>3, <1>4, <1>5, <1>6, <1>7, <1>8, <1>9, <1>10, <1>11

\* The queue stays a queue when a notification comes back or is added.
LEMMA QueueTypes ==
  ASSUME TypeOK, NEW i \in Id, NEW s \in Server
  PROVE  /\ Enqueued(queue, i) \in [Id -> 0 .. MaxCopies]
         /\ Returned(s) \in [Id -> 0 .. MaxCopies]
         /\ queue[i] > 0 =>
              [queue EXCEPT ![i] = @ - 1] \in [Id -> 0 .. MaxCopies]
<1>1. \A j \in Id : Enqueued(queue, j) \in [Id -> 0 .. MaxCopies]
  BY DEF Enqueued, TypeOK
<1>2. worker[s].id \in Id
  BY DEF TypeOK, Worker
<1> QED  BY <1>1, <1>2 DEF Returned, TypeOK

\* The two goroutines at rest have the right type.
LEMMA IdleTypes ==
  AbsentRow \in Row /\ IdleWorker \in Worker /\ IdleRelay \in Relay
<1>1. AbsentRow \in Row
  BY DEF AbsentRow, Row, RowState, RowError, Time, NoToken
<1> QED
  BY <1>1 DEF IdleWorker, Worker, WorkerPC, Verdict, Id, IdleRelay, Relay, RelayPC, Now

\* The program counters a step writes are program counters.
LEMMA KnownPCs ==
  /\ Now \in Int
  /\ {"idle", "got", "claim", "txn", "claimed", "calling", "finish", "settle",
      "stopped"} \subseteq WorkerPC
  /\ {"idle", "scan", "reserve", "publish", "stopped"} \subseteq RelayPC
  BY DEF WorkerPC, RelayPC, Now

\* The relay's move from one record to another keeps every type it should.
LEMMA RelayMoves ==
  ASSUME Inv, NEW s \in Server, NEW q \in Relay, RelayRests(relay[s], q),
         relay' = [relay EXCEPT ![s] = q],
         queue' \in [Id -> 0 .. MaxCopies], faults' \in 0 .. MaxFaults,
         UNCHANGED row, RelayUnchanged
  PROVE  Inv'
<1>1. TypeOK'
  BY DEF Inv, TypeOK, RelayUnchanged
<1>2. \A t \in Server : WorkerRests(worker[t], worker'[t])
  BY DEF WorkerRests, RelayUnchanged
<1>3. \A t \in Server : RelayRests(relay[t], relay'[t])
  BY DEF RelayRests, Inv, TypeOK
<1>4. UNCHANGED Counters
  BY DEF Counters, RelayUnchanged
<1> QED  BY <1>1, <1>2, <1>3, <1>4, QuietStep

\* The steps of the relay that commit nothing.
LEMMA RelayQuiet ==
  ASSUME Inv, NEW s \in Server,
         \/ RelayReadClock(s) \/ RelayPublish(s) \/ RelayPublishFails(s)
         \/ RelayStops(s)
         \/ RelayScan(s) /\ Scanned(relay[s].clock) = {}
         \/ RelayReserveFails(s) /\ row' = row
  PROVE  Inv'
<1>0. /\ relay \in [Server -> Relay] /\ relay[s] \in Relay
      /\ faults \in 0 .. MaxFaults /\ queue \in [Id -> 0 .. MaxCopies]
      /\ \A m \in Msg : Enqueued(queue, m) \in [Id -> 0 .. MaxCopies]
  BY QueueTypes DEF Inv, TypeOK, Id
<1>1. \A f : f = faults - 1 /\ faults > 0 => f \in 0 .. MaxFaults
  BY <1>0
<1>2. CASE RelayReadClock(s)
  <2> DEFINE q == [relay[s] EXCEPT !.pc = "scan", !.clock = Now]
  <2>1. relay' = [relay EXCEPT ![s] = q]
    BY <1>2, <1>0 DEF RelayReadClock
  <2>2. q \in Relay /\ q.pc = "scan" /\ q.clock = Now
    BY <1>0, KnownPCs DEF Relay
  <2>3. RelayRests(relay[s], q)
    BY <2>2 DEF RelayRests
  <2> HIDE DEF q
  <2> QED  BY <2>1, <2>2, <2>3, <1>2, <1>0, RelayMoves DEF RelayReadClock
<1>3. CASE RelayPublish(s)
  <2>1. PICK m \in relay[s].batch : /\ relay' = [relay EXCEPT ![s] = Published(s, m)]
                                    /\ queue' = Enqueued(queue, m)
    BY <1>3 DEF RelayPublish
  <2>2. Published(s, m) \in Relay /\ RelayRests(relay[s], Published(s, m))
    BY <1>0, <1>3, IdleTypes
       DEF Published, Relay, RelayRests, IdleRelay, RelayPublish
  <2>3. m \in Msg
    BY <1>0 DEF Relay
  <2> QED  BY <2>1, <2>2, <2>3, <1>3, <1>0, RelayMoves DEF RelayPublish
<1>4. IdleRelay \in Relay /\ RelayRests(relay[s], IdleRelay)
  BY IdleTypes DEF RelayRests, IdleRelay
<1>5. CASE RelayPublishFails(s)
  <2>1. queue' \in [Id -> 0 .. MaxCopies]
    BY <1>5, <1>0 DEF RelayPublishFails, Relay
  <2>2. faults' \in 0 .. MaxFaults
    BY <1>5, <1>0, <1>1 DEF RelayPublishFails, RelayFault, Fault
  <2> QED  BY <2>1, <2>2, <1>5, <1>4, RelayMoves DEF RelayPublishFails
<1>6. CASE RelayStops(s)
  <2> DEFINE q == [IdleRelay EXCEPT !.pc = "stopped"]
  <2>1. q \in Relay /\ RelayRests(relay[s], q)
    BY IdleTypes, KnownPCs DEF Relay, RelayRests, IdleRelay
  <2>2. relay' = [relay EXCEPT ![s] = q]
    BY <1>6 DEF RelayStops
  <2> HIDE DEF q
  <2> QED  BY <2>1, <2>2, <1>6, <1>0, RelayMoves DEF RelayStops
<1>7. CASE RelayScan(s) /\ Scanned(relay[s].clock) = {}
  BY <1>7, <1>4, <1>0, RelayMoves DEF RelayScan
<1>8. CASE RelayReserveFails(s) /\ row' = row
  <2>1. faults' \in 0 .. MaxFaults
    BY <1>8, <1>0, <1>1 DEF RelayReserveFails, RelayFault, Fault
  <2> QED  BY <2>1, <1>8, <1>4, <1>0, RelayMoves DEF RelayReserveFails
<1> QED  BY <1>2, <1>3, <1>5, <1>6, <1>7, <1>8

-----------------------------------------------------------------------------
(* The steps of the consumer that commit nothing and carry no claim. *)

\* A worker record that rests, put in place of s's.
LEMMA WorkerMoves ==
  ASSUME Inv, NEW s \in Server, NEW w \in Worker, WorkerRests(worker[s], w),
         worker' = [worker EXCEPT ![s] = w],
         queue' \in [Id -> 0 .. MaxCopies], faults' \in 0 .. MaxFaults,
         UNCHANGED <<stopping, relay>>, UNCHANGED Counters
  PROVE  Inv'
<1>1. TypeOK'
  BY DEF Inv, TypeOK, Counters
<1>2. \A t \in Server : WorkerRests(worker[t], worker'[t])
  BY DEF WorkerRests, Inv, TypeOK
<1>3. \A t \in Server : RelayRests(relay[t], relay'[t])
  BY DEF RelayRests
<1> QED  BY <1>1, <1>2, <1>3, QuietStep

\* The same, for a notification that is only to be settled.
LEMMA SettleMoves ==
  ASSUME Inv, NEW s \in Server, NEW v \in Verdict, ToSettle(s, v),
         queue' = queue, faults' \in 0 .. MaxFaults,
         UNCHANGED <<stopping, relay>>, UNCHANGED Counters
  PROVE  Inv'
<1> DEFINE w == [IdleWorker EXCEPT !.pc = "settle", !.id = worker[s].id,
                                   !.held = worker[s].held, !.verdict = v]
<1>1. worker[s] \in Worker /\ queue \in [Id -> 0 .. MaxCopies]
  BY DEF TypeOK, Inv
<1>2. w \in Worker /\ w.pc = "settle" /\ w.clock = Now
  BY <1>1, IdleTypes DEF IdleWorker, Worker, WorkerPC, Verdict
<1>3. worker' = [worker EXCEPT ![s] = w]
  BY DEF ToSettle
<1> HIDE DEF w
<1> QED  BY <1>1, <1>2, <1>3, WorkerMoves DEF WorkerRests

\* The steps of the consumer that touch no row and no claim.
LEMMA WorkerQuiet ==
  ASSUME Inv, NEW s \in Server,
         \/ Receive(s) \/ Admit(s) \/ ClaimUnknown(s) \/ ClaimCollides(s)
         \/ Settle(s) \/ WorkerStops(s) \/ ConnectionLost(s)
         \/ ClaimFails(s) /\ UNCHANGED <<row, minted>>
         \/ FinishFails(s) /\ row' = row
  PROVE  Inv'
<1>0. /\ worker \in [Server -> Worker] /\ worker[s] \in Worker
      /\ faults \in 0 .. MaxFaults /\ queue \in [Id -> 0 .. MaxCopies]
      /\ Returned(s) \in [Id -> 0 .. MaxCopies]
  BY QueueTypes DEF Inv, TypeOK, Id
<1>1. \A f : f = faults - 1 /\ faults > 0 => f \in 0 .. MaxFaults
  BY <1>0
<1>2. {"ack", "requeue", "drop"} \subseteq Verdict
  BY DEF Verdict
<1>3. CASE Receive(s)
  <2>1. PICK i \in Id :
          /\ queue[i] > 0
          /\ queue' = [queue EXCEPT ![i] = @ - 1]
          /\ worker' = [worker EXCEPT ![s] =
                          [IdleWorker EXCEPT !.pc = "got", !.id = i, !.held = TRUE]]
    BY <1>3 DEF Receive
  <2> DEFINE w == [IdleWorker EXCEPT !.pc = "got", !.id = i, !.held = TRUE]
  <2>2. w \in Worker /\ WorkerRests(worker[s], w)
    BY IdleTypes DEF IdleWorker, Worker, WorkerPC, WorkerRests
  <2>3. queue' \in [Id -> 0 .. MaxCopies]
    BY <2>1, QueueTypes DEF Inv
  <2> HIDE DEF w
  <2> QED  BY <2>1, <2>2, <2>3, <1>0, <1>3, WorkerMoves DEF Receive, Counters, w
<1>4. CASE Admit(s)
  <2>1. CASE stopping[s]
    BY <2>1, <1>4, <1>2, <1>0, SettleMoves DEF Admit, Counters
  <2>2. CASE ~stopping[s]
    <3> DEFINE w == [worker[s] EXCEPT !.pc = "claim", !.clock = Now]
    <3>1. w \in Worker /\ w.pc = "claim" /\ w.clock = Now
      BY <1>0, KnownPCs DEF Worker
    <3>2. worker' = [worker EXCEPT ![s] = w]
      BY <2>2, <1>4, <1>0 DEF Admit
    <3>3. WorkerRests(worker[s], w)
      BY <3>1 DEF WorkerRests
    <3> HIDE DEF w
    <3> QED  BY <3>1, <3>2, <3>3, <1>0, <1>4, WorkerMoves DEF Admit, Counters
  <2> QED  BY <2>1, <2>2
<1>5. CASE ClaimUnknown(s) \/ ClaimCollides(s)
  BY <1>5, <1>2, <1>0, SettleMoves DEF ClaimUnknown, ClaimCollides, Counters
<1>6. CASE ClaimFails(s) /\ UNCHANGED <<row, minted>>
  BY <1>6, <1>2, <1>1, SettleMoves DEF ClaimFails, Counters, Fault
<1>7. CASE FinishFails(s) /\ row' = row
  BY <1>7, <1>2, <1>1, SettleMoves DEF FinishFails, Counters, Fault
<1>8. CASE Settle(s)
  <2>1. IdleWorker \in Worker /\ WorkerRests(worker[s], IdleWorker)
    BY IdleTypes DEF IdleWorker, WorkerRests
  <2> QED  BY <2>1, <1>8, <1>0, WorkerMoves DEF Settle, Counters
<1>9. CASE WorkerStops(s)
  <2> DEFINE w == [worker[s] EXCEPT !.pc = "stopped"]
  <2>1. w \in Worker /\ w.pc = "stopped" /\ w.clock = worker[s].clock
    BY <1>0 DEF Worker, WorkerPC
  <2>2. worker' = [worker EXCEPT ![s] = w]
    BY <1>9, <1>0 DEF WorkerStops
  <2> HIDE DEF w
  <2>3. WorkerRests(worker[s], w)
    BY <2>1 DEF WorkerRests
  <2> QED  BY <2>1, <2>2, <2>3, <1>0, <1>9, WorkerMoves DEF WorkerStops, Counters
<1>10. CASE ConnectionLost(s)
  <2> DEFINE w == [worker[s] EXCEPT !.held = FALSE]
  <2>1. w \in Worker /\ WorkerRests(worker[s], w)
    BY <1>0 DEF Worker, WorkerRests
  <2>2. worker' = [worker EXCEPT ![s] = w]
    BY <1>10, <1>0 DEF ConnectionLost
  <2> HIDE DEF w
  <2>3. faults' \in 0 .. MaxFaults /\ queue' \in [Id -> 0 .. MaxCopies]
    BY <1>10, <1>0, <1>1 DEF ConnectionLost, RelayFault, Fault
  <2> QED  BY <2>1, <2>2, <2>3, <1>0, <1>10, WorkerMoves
           DEF ConnectionLost, Counters
<1> QED  BY <1>3, <1>4, <1>5, <1>6, <1>7, <1>8, <1>9, <1>10

-----------------------------------------------------------------------------
(* The steps of a server as a whole. *)

\* What happens to a server from outside: shutdown, crash and restart.
LEMMA ServerQuiet ==
  ASSUME Inv, NEW s \in Server, BeginShutdown(s) \/ Crash(s) \/ Redeploy(s)
  PROVE  Inv'
<1>0. /\ faults \in 0 .. MaxFaults /\ queue \in [Id -> 0 .. MaxCopies]
      /\ Returned(s) \in [Id -> 0 .. MaxCopies]
  BY QueueTypes DEF Inv, TypeOK, Id
<1>1. CASE BeginShutdown(s)
  <2>1. TypeOK'
    BY <1>1, <1>0 DEF Inv, TypeOK, BeginShutdown, Fault
  <2> QED  BY <1>1, <2>1, QuietStep
           DEF BeginShutdown, Counters, WorkerRests, RelayRests
<1>2. CASE Crash(s) \/ Redeploy(s)
  <2>1. Restart(s) /\ faults' \in 0 .. MaxFaults
    BY <1>2, <1>0 DEF Crash, Redeploy, Fault
  <2>2. TypeOK'
    BY <2>1, <1>0, IdleTypes DEF Inv, TypeOK, Restart
  <2>3. \A t \in Server : WorkerRests(worker[t], worker'[t])
    BY <2>1 DEF Restart, WorkerRests, IdleWorker, Inv, TypeOK
  <2>4. \A t \in Server : RelayRests(relay[t], relay'[t])
    BY <2>1 DEF Restart, RelayRests, IdleRelay, Inv, TypeOK
  <2> QED  BY <2>1, <2>2, <2>3, <2>4, QuietStep DEF Restart, Counters
<1> QED  BY <1>1, <1>2

\* A notification more in the queue changes nothing that Inv speaks of.
LEMMA InjectQuiet ==
  ASSUME Inv, NEW i \in Id, Inject(i)
  PROVE  Inv'
<1>1. Enqueued(queue, i) \in [Id -> 0 .. MaxCopies]
  BY DEF Inv, TypeOK, Enqueued
<1>2. TypeOK'
  BY <1>1 DEF Inv, TypeOK, Inject, Fault
<1> QED  BY <1>2, QuietStep DEF Inject, Counters, WorkerRests, RelayRests

-----------------------------------------------------------------------------
(* The steps that change a row or carry a claim. *)

\* The first states satisfy the invariant: no rows, no claims.
LEMMA InitInv == Init => Inv
<1> SUFFICES ASSUME Init PROVE Inv
  OBVIOUS
<1> USE DEF Init
<1>1. TypeOK
  <2>1. AbsentRow \in Row
    BY DEF AbsentRow, Row, RowState, RowError, Time, NoToken
  <2> QED  BY <2>1, IdleTypes DEF TypeOK
<1>2. \A m \in Msg : row[m] = AbsentRow /\ minted[m] = 0
  OBVIOUS
<1>3. \A s \in Server : worker[s] = IdleWorker /\ relay[s] = IdleRelay
  OBVIOUS
<1>4. LeaseShape /\ GivesUpOnlyWhenExhausted
  BY <1>2 DEF LeaseShape, GivesUpOnlyWhenExhausted, AbsentRow, NoToken
<1>5. AttemptsCounted
  BY <1>2 DEF AttemptsCounted, AbsentRow, NoToken
<1>6. CallsUnderTokens
  BY DEF CallsUnderTokens
<1>7. ClaimsExclusive /\ CopyFaithful
  BY <1>3 DEF ClaimsExclusive, CopyFaithful, Holding, IdleWorker
<1>8. LocksExclusive /\ SelectionHolds
  BY <1>3 DEF LocksExclusive, SelectionHolds, IdleWorker, IdleRelay
<1>9. ClocksBounded
  BY <1>3 DEF ClocksBounded, WorkerWaits, RelayWaits, IdleWorker, IdleRelay, Now
<1>10. AttemptsInWindow /\ LeaseOutlivesCall
  BY <1>3 DEF AttemptsInWindow, LeaseOutlivesCall, IdleWorker
<1> QED  BY <1>1, <1>4, <1>5, <1>6, <1>7, <1>8, <1>9, <1>10 DEF Inv

\* A new row is pending, without attempts, and in nobody's hands.
LEMMA AcceptStep ==
  ASSUME Inv, NEW m \in Msg, Accept(m)
  PROVE  Inv'
<1> USE DEF Inv
<1>1. PICK limit \in RetryLimits, delay \in ScheduleDelays :
        row' = [row EXCEPT ![m] = SubmittedRow(limit, Now, delay, RetryMaxAge)]
  BY DEF Accept
<1> DEFINE new == SubmittedRow(limit, Now, delay, RetryMaxAge)
<1>2. /\ row \in [Msg -> Row] /\ row' = [row EXCEPT ![m] = new]
      /\ row[m] = AbsentRow /\ row[m].state = "none" /\ minted[m] = 0
  BY <1>1 DEF Accept, TypeOK, AttemptsCounted, AbsentRow
<1>3. new \in Row
  <2>1. AbsentRow \in Row /\ limit \in Int /\ delay \in Nat /\ Now \in Int
    BY IdleTypes, KnownPCs
  <2>2. "none" \in RowError
    BY DEF RowError
  <2> QED  BY <2>1, <2>2, RowTypes
<1>4. /\ new.state = "pending" /\ new.attempts = 0 /\ new.token = NoToken
      /\ new.maxRetries = limit
  BY DEF SubmittedRow, AbsentRow
<1> HIDE DEF new
<1>5. UNCHANGED <<queue, stopping, worker, relay, minted, called, confirmed,
                  faults>>
  BY DEF Accept
<1>6. TypeOK'
  BY <1>2, <1>3, <1>5 DEF TypeOK
<1>7. LeaseShape'
  BY <1>2, <1>4 DEF LeaseShape
<1>8. AttemptsCounted'
  BY <1>2, <1>4, <1>5 DEF AttemptsCounted, NoToken
<1>9. CallsUnderTokens'
  BY <1>5 DEF CallsUnderTokens
<1>10. ClaimsExclusive'
  BY <1>5 DEF ClaimsExclusive, Holding
<1>11. \A s \in Server : Holding(s) => worker[s].id # m
  BY <1>2 DEF ClaimsExclusive
<1>12. CopyFaithful'
  BY <1>2, <1>5, <1>11 DEF CopyFaithful, Holding, RetryLimitReached
<1>13. LocksExclusive'
  BY <1>5 DEF LocksExclusive
<1>14. SelectionHolds'
  <2>1. \A s \in Server : relay[s].pc = "reserve" => m \notin relay[s].batch
    BY <1>2 DEF SelectionHolds, Due
  <2> QED  BY <1>2, <1>4, <1>5, <2>1 DEF SelectionHolds, Exists, TypeOK, Relay
<1>15. ClocksBounded'
  BY <1>5 DEF ClocksBounded, WorkerWaits, RelayWaits
<1>16. GivesUpOnlyWhenExhausted'
  BY <1>2, <1>4 DEF GivesUpOnlyWhenExhausted
<1>17. AttemptsInWindow'
  BY <1>5 DEF AttemptsInWindow
<1>18. LeaseOutlivesCall'
  BY <1>2, <1>5, <1>11 DEF LeaseOutlivesCall, Holding
<1> QED  BY <1>6, <1>7, <1>8, <1>9, <1>10, <1>12, <1>13, <1>14, <1>15, <1>16,
            <1>17, <1>18

-----------------------------------------------------------------------------
(* The relay's transaction. *)

\* The part of a dead row that says it was not given up early.
SpentRow(r) == \/ r.maxRetries >= 0 /\ r.attempts > r.maxRetries
               \/ r.deadline # NoTime /\ r.deadline <= 0

\* What the loop body of ReserveDispatch keeps of a row that was due.
LEMMA ReservedFacts ==
  ASSUME NEW r \in Row, NEW now \in Int, now <= 0, Due(r, now),
         r.state = "sending" <=> r.token # NoToken
  PROVE  LET q == Reserved(r, now, Interval)
         IN  /\ q \in Row /\ q.token = NoToken
             /\ q.state \in {"pending", "failed", "dead"}
             /\ q.attempts = r.attempts /\ q.maxRetries = r.maxRetries
             /\ q.state = "dead" => SpentRow(q)
<1>1. Reserved(r, now, Interval) \in Row
  <2>1. "none" \in RowError /\ NoToken \in Nat
    BY DEF RowError, NoToken
  <2> QED  BY <2>1, RowTypes
<1>2. r.state \in {"pending", "failed", "sending"}
  BY DEF Due
<1>3. CASE Exhausted(r, now)
  <2>1. Reserved(r, now, Interval) = MakeDead(r)
    BY <1>3 DEF Reserved
  <2>2. /\ MakeDead(r).state = "dead" /\ MakeDead(r).token = NoToken
        /\ MakeDead(r).attempts = r.attempts /\ MakeDead(r).deadline = r.deadline
        /\ MakeDead(r).maxRetries = r.maxRetries
    BY DEF MakeDead, Row
  <2>3. r.deadline # NoTime => r.deadline \in Int
    BY DEF Row, Time
  <2>4. SpentRow(MakeDead(r))
    BY <2>2, <2>3, <1>3 DEF SpentRow, Exhausted
  <2> QED  BY <1>1, <2>1, <2>2, <2>4
<1>4. CASE ~Exhausted(r, now)
  <2> DEFINE q == IF r.state = "sending" THEN Recovered(r, now) ELSE r
  <2>1. Reserved(r, now, Interval) = [q EXCEPT !.dispatchAfter = now + Interval]
    BY <1>4 DEF Reserved
  <2>2. /\ q.state \in {"pending", "failed"} /\ q.token = NoToken
        /\ q.attempts = r.attempts /\ q.maxRetries = r.maxRetries
    BY <1>2 DEF Recovered, Row
  <2>3. q \in Row
    BY DEF Recovered, Row, RowState, RowError, Time, NoToken
  <2> HIDE DEF q
  <2> QED  BY <1>1, <2>1, <2>2, <2>3 DEF Row
<1> QED  BY <1>3, <1>4

\* A committed reservation keeps the invariant, whatever its relay does next.
LEMMA ReserveStep ==
  ASSUME Inv, NEW s \in Server, relay[s].pc = "reserve", row' = ReservedRows(s),
         NEW q \in Relay, q.pc \in {"idle", "publish"}, q.clock = Now,
         relay' = [relay EXCEPT ![s] = q],
         UNCHANGED queue, faults' \in 0 .. MaxFaults, RelayUnchanged
  PROVE  Inv'
<1> USE DEF Inv
<1> DEFINE b == relay[s].batch
           now == relay[s].clock
<1>0. /\ row \in [Msg -> Row] /\ relay[s] \in Relay /\ now \in Int /\ now <= 0
      /\ now >= -MaxStall /\ b \subseteq Msg
      /\ relay \in [Server -> Relay] /\ worker \in [Server -> Worker]
  BY DEF TypeOK, Relay, ClocksBounded, RelayWaits
<1>1. \A m \in b :
        /\ row'[m] \in Row /\ row'[m].token = NoToken
        /\ row'[m].state \in {"pending", "failed", "dead"}
        /\ row'[m].attempts = row[m].attempts
        /\ row'[m].maxRetries = row[m].maxRetries
        /\ row'[m].state = "dead" => SpentRow(row'[m])
  <2> SUFFICES ASSUME NEW m \in b
               PROVE  /\ row'[m] \in Row /\ row'[m].token = NoToken
                      /\ row'[m].state \in {"pending", "failed", "dead"}
                      /\ row'[m].attempts = row[m].attempts
                      /\ row'[m].maxRetries = row[m].maxRetries
                      /\ row'[m].state = "dead" => SpentRow(row'[m])
    OBVIOUS
  <2>1. row'[m] = Reserved(row[m], now, Interval)
    BY <1>0 DEF ReservedRows
  <2>2. row[m] \in Row /\ Due(row[m], now)
    BY <1>0 DEF SelectionHolds
  <2>3. row[m].state = "sending" <=> row[m].token # NoToken
    BY <1>0 DEF LeaseShape
  <2> HIDE DEF b, now
  <2> QED  BY <1>0, <2>1, <2>2, <2>3, ReservedFacts
<1>2. \A m \in Msg \ b : row'[m] = row[m]
  BY DEF ReservedRows
<1>3. UNCHANGED <<queue, stopping, worker, minted, called, confirmed>>
  BY DEF RelayUnchanged
<1>4. row' \in [Msg -> Row]
  BY <1>1, <1>2, <1>0 DEF ReservedRows
<1>5. relay'[s] = q /\ \A t \in Server \ {s} : relay'[t] = relay[t]
  BY <1>0
<1>6. TypeOK'
  BY <1>3, <1>4 DEF TypeOK
<1>7. LeaseShape'
  BY <1>0, <1>1, <1>2 DEF LeaseShape
<1>8. AttemptsCounted'
  BY <1>0, <1>1, <1>2, <1>3 DEF AttemptsCounted, NoToken, TypeOK
<1>9. CallsUnderTokens'
  BY <1>3 DEF CallsUnderTokens
<1>10. ClaimsExclusive'
  BY <1>3 DEF ClaimsExclusive, Holding
<1>11. CopyFaithful'
  <2>1. \A t \in Server : Holding(t) =>
          worker[t].id \in Msg /\ worker[t].outbox.token # NoToken
    BY DEF ClaimsExclusive, NoToken
  <2>2. \A t \in Server : Holding(t) =>
          /\ row'[worker[t].id].maxRetries = row[worker[t].id].maxRetries
          /\ row'[worker[t].id].attempts = row[worker[t].id].attempts
          /\ \/ row'[worker[t].id].token = row[worker[t].id].token
             \/ row'[worker[t].id].token = NoToken
    BY <1>1, <1>2, <2>1
  <2> HIDE DEF b, now
  <2> QED  BY <1>3, <2>1, <2>2 DEF CopyFaithful, Holding, RetryLimitReached
<1>12. LocksExclusive'
  BY <1>3, <1>5 DEF LocksExclusive
<1>13. SelectionHolds'
  <2>1. \A t \in Server : worker[t].pc = "txn" => worker[t].id \notin b
    BY DEF LocksExclusive
  <2>2. \A t \in Server \ {s} :
          relay[t].pc = "reserve" => /\ relay[t].batch \cap b = {}
                                     /\ relay[t].batch \subseteq Msg
    BY <1>0 DEF LocksExclusive, Relay
  <2>3. \A t \in Server : worker'[t].pc = "txn" => Exists(worker[t].id)'
    BY <2>1, <1>2, <1>3 DEF SelectionHolds, Exists
  <2>4. \A t \in Server :
          relay'[t].pc = "reserve" =>
            \A m \in relay'[t].batch : Due(row[m], relay[t].clock)'
    <3> SUFFICES ASSUME NEW t \in Server, relay'[t].pc = "reserve",
                        NEW m \in relay'[t].batch
                 PROVE  Due(row'[m], relay'[t].clock)
      OBVIOUS
    <3>1. t # s /\ relay'[t] = relay[t]
      BY <1>5
    <3>2. row'[m] = row[m]
      BY <3>1, <2>2, <1>2
    <3> QED  BY <3>1, <3>2 DEF SelectionHolds
  <2> QED  BY <2>3, <2>4, <1>3 DEF SelectionHolds
<1>14. ClocksBounded'
  BY <1>3, <1>5 DEF ClocksBounded, WorkerWaits, RelayWaits, Now
<1>15. GivesUpOnlyWhenExhausted'
  BY <1>1, <1>2 DEF GivesUpOnlyWhenExhausted, SpentRow
<1>16. AttemptsInWindow'
  BY <1>3 DEF AttemptsInWindow
<1>17. LeaseOutlivesCall'
  <2> SUFFICES ASSUME MaxStall + AttemptTimeout < Lease, NEW t \in Server,
                      worker[t].pc \in {"claimed", "calling"}
               PROVE  worker[t].id \notin b
    BY <1>2, <1>3 DEF LeaseOutlivesCall, ClaimsExclusive, Holding
  <2>1. worker[t].id \in Msg /\ worker[t].outbox.token # NoToken
    BY DEF ClaimsExclusive, Holding, NoToken
  <2>2. row[worker[t].id].leaseUntil > 0
    <3>1. worker[t].clock \in Int /\ row[worker[t].id].leaseUntil \in Time
      BY <1>0, <2>1 DEF Worker, Row
    <3>2. row[worker[t].id].leaseUntil # NoTime
      BY <2>1 DEF LeaseOutlivesCall, LeaseShape
    <3>3. CASE worker[t].pc = "claimed"
      BY <3>1, <3>2, <3>3 DEF LeaseOutlivesCall, ClocksBounded, WorkerWaits, Time
    <3>4. CASE worker[t].pc = "calling"
      BY <3>1, <3>2, <3>4 DEF LeaseOutlivesCall, ClocksBounded, Time
    <3> QED  BY <3>3, <3>4
  <2>3. row[worker[t].id].state = "sending" /\ row[worker[t].id].leaseUntil \in Int
    <3>1. row[worker[t].id].leaseUntil \in Time
      BY <1>0, <2>1 DEF Row
    <3> QED  BY <2>1, <3>1 DEF LeaseOutlivesCall, LeaseShape, Time
  <2> QED  BY <2>2, <2>3, <1>0 DEF SelectionHolds, Due, Reached
<1> QED  BY <1>6, <1>7, <1>8, <1>9, <1>10, <1>11, <1>12, <1>13, <1>14, <1>15,
            <1>16, <1>17

\* A relay takes the locks of the rows it selected.
LEMMA ScanStep ==
  ASSUME Inv, NEW s \in Server, RelayScan(s), Scanned(relay[s].clock) # {}
  PROVE  Inv'
<1> USE DEF Inv
<1> DEFINE b == Scanned(relay[s].clock)
           q == [relay[s] EXCEPT !.pc = "reserve", !.batch = b]
<1>0. /\ relay \in [Server -> Relay] /\ relay[s] \in Relay
      /\ relay[s].pc = "scan"
      /\ relay' = [relay EXCEPT ![s] = q]
      /\ UNCHANGED <<row, queue, stopping, worker, minted, called, confirmed,
                     faults>>
  BY DEF TypeOK, RelayScan, RelayUnchanged
<1>1. b \subseteq Msg /\ \A m \in b : Due(row[m], relay[s].clock) /\ ~Locked(m)
  BY DEF Scanned
<1> HIDE DEF b
<1>2. /\ q \in Relay /\ q.pc = "reserve" /\ q.batch = b
      /\ q.clock = relay[s].clock
  BY <1>0, <1>1, KnownPCs DEF Relay
<1> HIDE DEF q
<1>3. relay'[s] = q /\ \A t \in Server \ {s} : relay'[t] = relay[t]
  BY <1>0
<1>4. TypeOK'
  BY <1>0, <1>2 DEF TypeOK
<1>5. LeaseShape' /\ AttemptsCounted' /\ CallsUnderTokens'
  BY <1>0 DEF LeaseShape, AttemptsCounted, CallsUnderTokens
<1>6. ClaimsExclusive' /\ CopyFaithful'
  BY <1>0 DEF ClaimsExclusive, CopyFaithful, Holding, RetryLimitReached
<1>7. LocksExclusive'
  BY <1>0, <1>1, <1>2, <1>3 DEF LocksExclusive, Locked
<1>8. SelectionHolds'
  BY <1>0, <1>1, <1>2, <1>3 DEF SelectionHolds, Exists, Due, Reached
<1>9. ClocksBounded'
  BY <1>0, <1>2, <1>3 DEF ClocksBounded, WorkerWaits, RelayWaits
<1>10. GivesUpOnlyWhenExhausted' /\ AttemptsInWindow' /\ LeaseOutlivesCall'
  BY <1>0 DEF GivesUpOnlyWhenExhausted, AttemptsInWindow, LeaseOutlivesCall
<1> QED  BY <1>4, <1>5, <1>6, <1>7, <1>8, <1>9, <1>10

-----------------------------------------------------------------------------
(* The consumer's claim. *)

\* Claim locks a row that no other transaction has.
LEMMA ClaimLockStep ==
  ASSUME Inv, NEW s \in Server, ClaimLock(s)
  PROVE  Inv'
<1> USE DEF Inv
<1> DEFINE w == [worker[s] EXCEPT !.pc = "txn"]
<1>0. /\ worker \in [Server -> Worker] /\ worker[s] \in Worker
      /\ worker[s].pc = "claim" /\ worker' = [worker EXCEPT ![s] = w]
      /\ Exists(worker[s].id) /\ ~Locked(worker[s].id)
      /\ UNCHANGED <<row, queue, stopping, relay, minted, called, confirmed,
                     faults>>
  BY DEF TypeOK, ClaimLock
<1>1. /\ w \in Worker /\ w.pc = "txn" /\ w.id = worker[s].id
      /\ w.clock = worker[s].clock
  BY <1>0, KnownPCs DEF Worker
<1> HIDE DEF w
<1>2. worker'[s] = w /\ \A t \in Server \ {s} : worker'[t] = worker[t]
  BY <1>0
<1>3. TypeOK'
  BY <1>0, <1>1 DEF TypeOK
<1>4. LeaseShape' /\ AttemptsCounted' /\ CallsUnderTokens'
  BY <1>0 DEF LeaseShape, AttemptsCounted, CallsUnderTokens
<1>5. ClaimsExclusive'
  BY <1>0, <1>1, <1>2 DEF ClaimsExclusive, Holding
<1>6. CopyFaithful'
  BY <1>0, <1>1, <1>2 DEF CopyFaithful, Holding, RetryLimitReached
<1>7. LocksExclusive'
  BY <1>0, <1>1, <1>2 DEF LocksExclusive, Locked
<1>8. SelectionHolds'
  BY <1>0, <1>1, <1>2 DEF SelectionHolds, Exists, Due, Reached
<1>9. ClocksBounded'
  BY <1>0, <1>1, <1>2 DEF ClocksBounded, WorkerWaits, RelayWaits
<1>10. GivesUpOnlyWhenExhausted' /\ AttemptsInWindow' /\ LeaseOutlivesCall'
  BY <1>0, <1>1, <1>2
     DEF GivesUpOnlyWhenExhausted, AttemptsInWindow, LeaseOutlivesCall
<1> QED  BY <1>3, <1>4, <1>5, <1>6, <1>7, <1>8, <1>9, <1>10

\* What a claim of the row r at `now' does to it.
LEMMA ClaimedFacts ==
  ASSUME NEW r \in Row, NEW now \in Int, now <= 0, NEW token \in Nat \ {0},
         r.state # "none", r.state = "sending" <=> r.token # NoToken
  PROVE  LET q == Claimed(r, now, Lease, token)
         IN  /\ q \in Row
             /\ q.maxRetries = r.maxRetries
             /\ Grants(r, now) =>
                  /\ r.token = NoToken
                  /\ q.state = "sending" /\ q.token = token
                  /\ q.attempts = r.attempts + 1 /\ q.retryCount = r.attempts
                  /\ q.leaseUntil = now + Lease
                  /\ r.maxRetries >= 0 => r.attempts <= r.maxRetries
                  /\ q.nextRetryAt = NoTime \/ q.nextRetryAt <= now
                  /\ q.deadline = NoTime \/ q.deadline > now
             /\ ~Grants(r, now) =>
                  \/ q = r
                  \/ /\ q.state = "dead" /\ q.token = NoToken
                     /\ q.attempts = r.attempts /\ SpentRow(q)
                     /\ r.state \in {"pending", "failed"}
<1>0. /\ r.attempts \in Nat /\ r.maxRetries \in Int
      /\ r.nextRetryAt # NoTime => r.nextRetryAt \in Int
      /\ r.deadline # NoTime => r.deadline \in Int
  BY DEF Row, Time
<1>1. Claimed(r, now, Lease, token) \in Row
  <2>1. "none" \in RowError
    BY DEF RowError
  <2> QED  BY <2>1, RowTypes
<1>2. CASE NotClaimable(r, now)
  <2>1. Claimed(r, now, Lease, token) = r /\ ~Grants(r, now)
    BY <1>2 DEF Claimed, Grants
  <2> QED  BY <2>1
<1>3. CASE Grants(r, now)
  <2> DEFINE q == Leased(r, now, Lease, token)
  <2>1. Claimed(r, now, Lease, token) = q
    BY <1>3 DEF Claimed, Grants
  <2>2. /\ q.state = "sending" /\ q.token = token /\ q.maxRetries = r.maxRetries
        /\ q.attempts = r.attempts + 1 /\ q.retryCount = r.attempts
        /\ q.leaseUntil = now + Lease /\ q.nextRetryAt = r.nextRetryAt
        /\ q.deadline = r.deadline
    BY DEF Leased, Row
  <2>3. /\ r.token = NoToken
        /\ r.nextRetryAt = NoTime \/ r.nextRetryAt <= now
        /\ r.deadline = NoTime \/ r.deadline > now
        /\ r.maxRetries >= 0 => r.attempts <= r.maxRetries
    BY <1>0, <1>3 DEF Grants, NotClaimable, Exhausted
  <2> HIDE DEF q
  <2> QED  BY <1>1, <1>3, <2>1, <2>2, <2>3
<1>4. CASE ~NotClaimable(r, now) /\ ~Grants(r, now)
  <2> DEFINE q == MakeDead(r)
  <2>1. Claimed(r, now, Lease, token) = q
    BY <1>4 DEF Claimed
  <2>2. /\ q.state = "dead" /\ q.token = NoToken /\ q.attempts = r.attempts
        /\ q.maxRetries = r.maxRetries /\ q.deadline = r.deadline
    BY DEF MakeDead, Row
  <2>3. SpentRow(q) /\ r.state \in {"pending", "failed"}
    BY <1>0, <1>4, <2>2 DEF SpentRow, Exhausted, Grants, NotClaimable
  <2> HIDE DEF q
  <2> QED  BY <1>1, <1>4, <2>1, <2>2, <2>3
<1> QED  BY <1>2, <1>3, <1>4

\* A committed claim keeps the invariant, whether its worker learns of it
\* or goes on to settle its notification.
LEMMA ClaimRowsStep ==
  ASSUME Inv, NEW s \in Server, worker[s].pc = "txn", row' = ClaimedRows(s),
         minted' = IF Grants(row[worker[s].id], worker[s].clock)
                   THEN [minted EXCEPT ![worker[s].id] = @ + 1] ELSE minted,
         NEW w \in Worker, worker' = [worker EXCEPT ![s] = w],
         \/ w.pc = "settle" /\ w.clock = Now
         \/ /\ Grants(row[worker[s].id], worker[s].clock)
            /\ w.pc = "claimed" /\ w.id = worker[s].id
            /\ w.clock = worker[s].clock
            /\ w.outbox = ClaimedRows(s)[worker[s].id],
         UNCHANGED <<queue, stopping, relay, called, confirmed>>,
         faults' \in 0 .. MaxFaults
  PROVE  Inv'
<1> USE DEF Inv
<1> DEFINE n == worker[s].id
           now == worker[s].clock
           token == minted[n] + 1
           q == Claimed(row[n], now, Lease, token)
<1>0. /\ row \in [Msg -> Row] /\ worker \in [Server -> Worker]
      /\ minted \in [Msg -> Nat] /\ n \in Msg /\ row[n].state # "none"
      /\ row[n] \in Row /\ now \in Int /\ now <= 0 /\ now >= -MaxStall
      /\ token \in Nat \ {0}
  <2>1. /\ row \in [Msg -> Row] /\ worker \in [Server -> Worker]
        /\ minted \in [Msg -> Nat]
    BY DEF TypeOK
  <2>2. n \in Msg /\ row[n].state # "none"
    BY DEF SelectionHolds, Exists
  <2>3. now \in Int /\ now <= 0 /\ now >= -MaxStall
    BY <2>1 DEF ClocksBounded, WorkerWaits, Worker
  <2>4. row[n] \in Row /\ minted[n] \in Nat
    BY <2>1, <2>2
  <2> HIDE DEF n, now
  <2> QED  BY <2>1, <2>2, <2>3, <2>4
<1>1. row' = [row EXCEPT ![n] = q]
  BY DEF ClaimedRows
<1>2. row[n].state = "sending" <=> row[n].token # NoToken
  BY <1>0 DEF LeaseShape
<1>3. /\ q \in Row
      /\ q.maxRetries = row[n].maxRetries
      /\ Grants(row[n], now) =>
           /\ row[n].token = NoToken
           /\ q.state = "sending" /\ q.token = token
           /\ q.attempts = row[n].attempts + 1 /\ q.retryCount = row[n].attempts
           /\ q.leaseUntil = now + Lease
           /\ row[n].maxRetries >= 0 => row[n].attempts <= row[n].maxRetries
           /\ q.nextRetryAt = NoTime \/ q.nextRetryAt <= now
           /\ q.deadline = NoTime \/ q.deadline > now
      /\ ~Grants(row[n], now) =>
           \/ q = row[n]
           \/ /\ q.state = "dead" /\ q.token = NoToken
              /\ q.attempts = row[n].attempts /\ SpentRow(q)
              /\ row[n].state \in {"pending", "failed"}
  <2> HIDE DEF n, now, token
  <2> QED  BY <1>0, <1>2, ClaimedFacts
<1> DEFINE granted == Grants(row[n], now)
<1>4. /\ row'[n] = q /\ \A m \in Msg \ {n} : row'[m] = row[m]
      /\ granted => /\ minted'[n] = token
                    /\ \A m \in Msg \ {n} : minted'[m] = minted[m]
      /\ ~granted => minted' = minted
      /\ worker'[s] = w /\ \A t \in Server \ {s} : worker'[t] = worker[t]
      /\ w.pc = "settle" \/ (granted /\ w.pc = "claimed")
      /\ w.pc = "claimed" => w.id = n /\ w.clock = now /\ w.outbox = q
      /\ w.pc = "settle" => w.clock = Now
  BY <1>0, <1>1
<1>5. minted' \in [Msg -> Nat] /\ \A m \in Msg : minted[m] <= minted'[m]
  BY <1>0, <1>4
<1>6. TypeOK'
  BY <1>0, <1>1, <1>3, <1>5 DEF TypeOK
<1> HIDE DEF q, token, granted, n, now
<1>7. LeaseShape'
  <2>1. q.state = "sending" => q.leaseUntil # NoTime
    BY <1>0, <1>2, <1>3 DEF LeaseShape, granted
  <2>2. q.state = "sending" <=> q.token # NoToken
    BY <1>0, <1>2, <1>3 DEF granted, NoToken
  <2> QED  BY <2>1, <2>2, <1>4 DEF LeaseShape
<1>8. AttemptsCounted'
  <2>1. q.state # "none"
    BY <1>0, <1>3 DEF granted
  <2>2. minted[n] + 1 = token
    BY DEF token
  <2>3. /\ q.attempts = minted'[n] /\ q.token <= minted'[n]
        /\ q.maxRetries >= 0 => q.attempts <= q.maxRetries + 1
    <3>1. CASE granted
      BY <3>1, <2>2, <1>0, <1>3, <1>4 DEF AttemptsCounted, granted, Row
    <3>2. CASE ~granted
      BY <3>2, <1>0, <1>3, <1>4 DEF AttemptsCounted, granted, NoToken
    <3> QED  BY <3>1, <3>2
  <2> QED  BY <2>1, <2>3, <1>4 DEF AttemptsCounted
<1>9. CallsUnderTokens'
  <2>1. \A m \in Msg : 1 .. minted[m] \subseteq 1 .. minted'[m]
    BY <1>5, <1>0
  <2> QED  BY <2>1 DEF CallsUnderTokens
<1>10. ClaimsExclusive'
  <2>1. \A t \in Server \ {s} : Holding(t)' <=> Holding(t)
    BY <1>4 DEF Holding
  <2>2. w.pc = "claimed" => /\ w.outbox.token = token /\ token = minted'[n]
                            /\ token \notin called[n] /\ n \in Msg
    <3>1. called[n] \subseteq 1 .. minted[n] /\ token = minted[n] + 1
      BY <1>0 DEF CallsUnderTokens, token
    <3> QED  BY <3>1, <1>0, <1>3, <1>4 DEF granted
  <2>3. \A t \in Server : Holding(t) /\ worker[t].id = n =>
          worker[t].outbox.token # token
    BY <1>0 DEF ClaimsExclusive, token
  <2>4. \A t \in Server \ {s} : Holding(t) =>
          /\ worker[t].id \in Msg
          /\ worker[t].outbox.token \in 1 .. minted'[worker[t].id]
    <3>1. \A m \in Msg : 1 .. minted[m] \subseteq 1 .. minted'[m]
      BY <1>5, <1>0
    <3> QED  BY <3>1 DEF ClaimsExclusive
  <2>5. token \in 1 .. token
    BY <1>0 DEF token
  <2>6. \A t \in Server :
          Holding(t)' =>
            /\ worker'[t].id \in Msg
            /\ worker'[t].outbox.token \in 1 .. minted'[worker'[t].id]
            /\ worker'[t].pc = "claimed" =>
                 worker'[t].outbox.token \notin called'[worker'[t].id]
            /\ worker'[t].pc = "calling" =>
                 worker'[t].outbox.token \in called'[worker'[t].id]
    <3> SUFFICES ASSUME NEW t \in Server, Holding(t)'
                 PROVE  /\ worker'[t].id \in Msg
                        /\ worker'[t].outbox.token \in 1 .. minted'[worker'[t].id]
                        /\ worker'[t].pc = "claimed" =>
                             worker'[t].outbox.token \notin called'[worker'[t].id]
                        /\ worker'[t].pc = "calling" =>
                             worker'[t].outbox.token \in called'[worker'[t].id]
      OBVIOUS
    <3>1. CASE t = s
      BY <3>1, <2>2, <2>5, <1>4 DEF Holding
    <3>2. CASE t # s
      BY <3>2, <2>1, <2>4, <1>4 DEF ClaimsExclusive
    <3> QED  BY <3>1, <3>2
  <2>7. \A t, u \in Server :
          Holding(t)' /\ Holding(u)' /\ t # u /\ worker'[t].id = worker'[u].id =>
            worker'[t].outbox.token # worker'[u].outbox.token
    BY <2>1, <2>2, <2>3, <1>4 DEF ClaimsExclusive, Holding
  <2> QED  BY <2>6, <2>7 DEF ClaimsExclusive
<1>11. CopyFaithful'
  <2>1. \A t \in Server \ {s} : Holding(t) =>
          /\ row'[worker[t].id].maxRetries = row[worker[t].id].maxRetries
          /\ row'[worker[t].id].token = worker[t].outbox.token =>
               /\ row[worker[t].id].token = worker[t].outbox.token
               /\ row'[worker[t].id].attempts = row[worker[t].id].attempts
    <3> SUFFICES ASSUME NEW t \in Server \ {s}, Holding(t)
                 PROVE  LET m == worker[t].id
                        IN  /\ row'[m].maxRetries = row[m].maxRetries
                            /\ row'[m].token = worker[t].outbox.token =>
                                 /\ row[m].token = worker[t].outbox.token
                                 /\ row'[m].attempts = row[m].attempts
      OBVIOUS
    <3>1. worker[t].outbox.token \in 1 .. minted[worker[t].id] /\ worker[t].id \in Msg
      BY DEF ClaimsExclusive
    <3>2. CASE worker[t].id # n
      BY <3>1, <3>2, <1>4
    <3>3. CASE worker[t].id = n
      <4>1. /\ worker[t].outbox.token # minted[n] + 1
            /\ worker[t].outbox.token # 0
        BY <3>1, <3>3, <1>0
      <4>2. worker[t].outbox.token # token /\ worker[t].outbox.token # NoToken
        BY <4>1 DEF token, NoToken
      <4> QED  BY <3>3, <4>2, <1>3, <1>4 DEF granted
    <3> QED  BY <3>2, <3>3
  <2>2. w.pc = "claimed" =>
          /\ w.outbox.maxRetries = q.maxRetries
          /\ w.outbox.attempts = w.outbox.retryCount + 1
          /\ w.outbox.attempts = q.attempts /\ w.outbox.state = "sending"
    BY <1>3, <1>4 DEF granted
  <2> SUFFICES ASSUME NEW t \in Server, Holding(t)'
               PROVE  LET o == worker'[t].outbox
                          r == row'[worker'[t].id]
                      IN  /\ o.maxRetries = r.maxRetries
                          /\ o.attempts = o.retryCount + 1
                          /\ r.token = o.token => o.attempts = r.attempts
                          /\ worker'[t].pc # "finish" => o.state = "sending"
                          /\ worker'[t].pc = "finish" =>
                               /\ o.state \in {"sent", "failed", "dead"}
                               /\ o.state = "sent" =>
                                    o.token \in confirmed'[worker'[t].id]
                               /\ o.state = "dead" =>
                                    \/ RetryLimitReached(o)
                                    \/ o.deadline # NoTime /\ o.deadline <= 0
    BY DEF CopyFaithful, RetryLimitReached
  <2>3. CASE t = s
    BY <2>2, <2>3, <1>4 DEF Holding
  <2>4. CASE t # s
    <3>1. worker'[t] = worker[t] /\ Holding(t) /\ t \in Server \ {s}
      BY <2>4, <1>4 DEF Holding
    <3> QED  BY <3>1, <2>1 DEF CopyFaithful
  <2> QED  BY <2>3, <2>4
<1>12. LocksExclusive'
  BY <1>4 DEF LocksExclusive
<1>13. SelectionHolds'
  <2>1. \A t \in Server \ {s} : worker[t].pc = "txn" => worker[t].id # n
    BY DEF LocksExclusive, n
  <2>2. \A t \in Server : relay[t].pc = "reserve" =>
          n \notin relay[t].batch /\ relay[t].batch \subseteq Msg
    BY DEF LocksExclusive, n, TypeOK, Relay
  <2>3. \A t \in Server : worker'[t].pc = "txn" => Exists(worker[t].id)'
    <3> SUFFICES ASSUME NEW t \in Server, worker'[t].pc = "txn"
                 PROVE  /\ worker'[t].id \in Msg
                        /\ row'[worker'[t].id].state # "none"
      BY DEF Exists
    <3>1. t # s /\ worker'[t] = worker[t]
      BY <1>4
    <3>2. worker[t].id \in Msg /\ row[worker[t].id].state # "none"
      BY <3>1 DEF SelectionHolds, Exists
    <3>3. worker[t].id # n
      BY <3>1, <2>1
    <3>4. row'[worker[t].id] = row[worker[t].id]
      BY <3>2, <3>3, <1>4
    <3> QED  BY <3>1, <3>2, <3>4
  <2>4. \A t \in Server :
          relay'[t].pc = "reserve" =>
            \A m \in relay'[t].batch : Due(row[m], relay[t].clock)'
    <3> SUFFICES ASSUME NEW t \in Server, relay[t].pc = "reserve",
                        NEW m \in relay[t].batch
                 PROVE  Due(row'[m], relay[t].clock)
      OBVIOUS
    <3>1. row'[m] = row[m]
      BY <2>2, <1>4
    <3> QED  BY <3>1 DEF SelectionHolds
  <2> QED  BY <2>3, <2>4 DEF SelectionHolds
<1>14. ClocksBounded'
  BY <1>0, <1>4 DEF ClocksBounded, WorkerWaits, RelayWaits, Now, now
<1>15. GivesUpOnlyWhenExhausted'
  BY <1>3, <1>4 DEF GivesUpOnlyWhenExhausted, SpentRow, granted
<1>16. AttemptsInWindow'
  <2>1. q.nextRetryAt # NoTime => q.nextRetryAt \in Int
    BY <1>3 DEF Row, Time
  <2>2. w.pc = "claimed" =>
          /\ w.outbox.nextRetryAt = NoTime \/ w.outbox.nextRetryAt <= 0
          /\ w.outbox.deadline = NoTime \/ w.outbox.deadline > w.clock
    BY <2>1, <1>0, <1>3, <1>4 DEF granted
  <2> QED  BY <2>2, <1>4 DEF AttemptsInWindow
<1>17. LeaseOutlivesCall'
  <2> SUFFICES ASSUME MaxStall + AttemptTimeout < Lease, NEW t \in Server,
                      worker'[t].pc \in {"claimed", "calling"}
               PROVE  /\ row'[worker'[t].id].token = worker'[t].outbox.token
                      /\ row'[worker'[t].id].leaseUntil >= worker'[t].clock + Lease
                           - (IF worker'[t].pc = "claimed" THEN 0 ELSE MaxStall)
    BY DEF LeaseOutlivesCall
  <2>1. CASE t = s
    <3>1. w.pc = "claimed" /\ granted
      BY <2>1, <1>4
    <3> QED  BY <2>1, <3>1, <1>0, <1>3, <1>4 DEF granted
  <2>2. CASE t # s
    <3>1. worker'[t] = worker[t]
      BY <2>2, <1>4
    <3>2. /\ worker[t].id \in Msg
          /\ row[worker[t].id].token = worker[t].outbox.token
          /\ worker[t].outbox.token # NoToken
      BY <3>1 DEF LeaseOutlivesCall, ClaimsExclusive, Holding, NoToken
    <3>3. worker[t].id = n => row[n].state = "sending" /\ row[n].token # NoToken
      BY <3>2, <1>2
    <3>4. worker[t].id = n => q = row[n]
      BY <3>3, <1>3 DEF granted
    <3>5. row'[worker[t].id] = row[worker[t].id]
      BY <3>2, <3>4, <1>4
    <3> QED  BY <3>1, <3>5 DEF LeaseOutlivesCall
  <2> QED  BY <2>1, <2>2
<1> QED  BY <1>6, <1>7, <1>8, <1>9, <1>10, <1>11, <1>12, <1>13, <1>14, <1>15,
            <1>16, <1>17

\* ClaimCommit, and ClaimFails when the commit went through.
LEMMA ClaimCommitStep ==
  ASSUME Inv, NEW s \in Server,
         \/ ClaimCommit(s)
         \/ /\ ClaimFails(s) /\ worker[s].pc = "txn"
            /\ row' = ClaimedRows(s)
            /\ minted' = IF Grants(row[worker[s].id], worker[s].clock)
                         THEN [minted EXCEPT ![worker[s].id] = @ + 1] ELSE minted
  PROVE  Inv'
<1> DEFINE granted == Grants(row[worker[s].id], worker[s].clock)
           settled(v) == [IdleWorker EXCEPT !.pc = "settle", !.id = worker[s].id,
                            !.held = worker[s].held, !.verdict = v]
           claimed == [worker[s] EXCEPT !.pc = "claimed",
                                        !.outbox = ClaimedRows(s)[worker[s].id]]
<1>0. /\ worker \in [Server -> Worker] /\ worker[s] \in Worker
      /\ faults \in 0 .. MaxFaults
      /\ \A f : f = faults - 1 /\ faults > 0 => f \in 0 .. MaxFaults
  BY DEF Inv, TypeOK
<1>1. \A v \in Verdict : /\ settled(v) \in Worker /\ settled(v).pc = "settle"
                         /\ settled(v).clock = Now
  BY <1>0, IdleTypes, KnownPCs DEF IdleWorker, Worker
<1>2. "ack" \in Verdict /\ "requeue" \in Verdict
  BY DEF Verdict
<1>3. CASE ClaimCommit(s) /\ granted
  <2>1. worker' = [worker EXCEPT ![s] = claimed] /\ worker[s].pc = "txn"
    BY <1>3, <1>0 DEF ClaimCommit
  <2>2. worker[s].id \in Msg /\ row \in [Msg -> Row]
    BY <2>1 DEF Inv, TypeOK, SelectionHolds, Exists
  <2>3. ClaimedRows(s)[worker[s].id] \in Row
    <3>1. row[worker[s].id] \in Row /\ worker[s].clock \in Int
      BY <2>2, <1>0 DEF Worker
    <3>2. minted[worker[s].id] \in Nat
      BY <2>2 DEF Inv, TypeOK
    <3>3. minted[worker[s].id] + 1 \in Nat
      BY <3>2
    <3>4. "none" \in RowError /\ Lease \in Nat
      BY DEF RowError
    <3>5. ClaimedRows(s)[worker[s].id] =
            Claimed(row[worker[s].id], worker[s].clock, Lease,
                    minted[worker[s].id] + 1)
      BY <2>2 DEF ClaimedRows
    <3>6. \A r \in Row, now \in Int, tok \in Nat : Claimed(r, now, Lease, tok) \in Row
      BY <3>4, RowTypes
    <3> QED  BY <3>1, <3>3, <3>5, <3>6
  <2>4. /\ claimed \in Worker /\ claimed.pc = "claimed"
        /\ claimed.id = worker[s].id /\ claimed.clock = worker[s].clock
        /\ claimed.outbox = ClaimedRows(s)[worker[s].id]
    BY <2>3, <1>0, KnownPCs DEF Worker
  <2> HIDE DEF claimed
  <2> QED  BY <2>1, <2>4, <1>0, <1>3, ClaimRowsStep DEF ClaimCommit
<1>4. CASE ClaimCommit(s) /\ ~granted
  <2>1. worker' = [worker EXCEPT ![s] = settled("ack")] /\ worker[s].pc = "txn"
    BY <1>4 DEF ClaimCommit, ToSettle
  <2>2. settled("ack") \in Worker /\ settled("ack").pc = "settle"
        /\ settled("ack").clock = Now
    BY <1>1, <1>2
  <2> HIDE DEF settled
  <2> QED  BY <2>1, <2>2, <1>0, <1>4, ClaimRowsStep DEF ClaimCommit
<1>5. CASE /\ ClaimFails(s) /\ worker[s].pc = "txn"
           /\ row' = ClaimedRows(s)
           /\ minted' = IF granted THEN [minted EXCEPT ![worker[s].id] = @ + 1] ELSE minted
  <2>1. worker' = [worker EXCEPT ![s] = settled("requeue")]
    BY <1>5 DEF ClaimFails, ToSettle
  <2>2. settled("requeue") \in Worker /\ settled("requeue").pc = "settle"
        /\ settled("requeue").clock = Now
    BY <1>1, <1>2
  <2> HIDE DEF settled
  <2> QED  BY <2>1, <2>2, <1>0, <1>5, ClaimRowsStep DEF ClaimFails, Fault
<1> QED  BY <1>3, <1>4, <1>5

-----------------------------------------------------------------------------
(* The provider call and its outcome. *)

\* The provider call starts under a token not used before.
LEMMA StartCallStep ==
  ASSUME Inv, NEW s \in Server, StartCall(s)
  PROVE  Inv'
<1> USE DEF Inv
<1> DEFINE w == [worker[s] EXCEPT !.pc = "calling", !.clock = Now]
           n == worker[s].id
           token == worker[s].outbox.token
<1>0. /\ worker \in [Server -> Worker] /\ worker[s] \in Worker
      /\ worker[s].pc = "claimed" /\ worker' = [worker EXCEPT ![s] = w]
      /\ called' = [called EXCEPT ![n] = @ \cup {token}]
      /\ UNCHANGED <<row, queue, stopping, relay, minted, confirmed, faults>>
  BY DEF TypeOK, StartCall
<1>1. /\ w \in Worker /\ w.pc = "calling" /\ w.id = n /\ w.clock = Now
      /\ w.outbox = worker[s].outbox
  BY <1>0, KnownPCs DEF Worker
<1>2. /\ n \in Msg /\ token \in 1 .. minted[n] /\ token \notin called[n]
      /\ called \in [Msg -> SUBSET Nat] /\ minted \in [Msg -> Nat]
  BY <1>0 DEF ClaimsExclusive, Holding, TypeOK
<1>3. /\ called'[n] = called[n] \cup {token}
      /\ \A m \in Msg \ {n} : called'[m] = called[m]
      /\ called' \in [Msg -> SUBSET Nat]
  BY <1>0, <1>2
<1> HIDE DEF w
<1>4. worker'[s] = w /\ \A t \in Server \ {s} : worker'[t] = worker[t]
  BY <1>0
<1>5. TypeOK'
  BY <1>0, <1>1, <1>3 DEF TypeOK
<1>6. LeaseShape' /\ AttemptsCounted' /\ GivesUpOnlyWhenExhausted'
  BY <1>0 DEF LeaseShape, AttemptsCounted, GivesUpOnlyWhenExhausted
<1>7. CallsUnderTokens'
  BY <1>0, <1>2, <1>3 DEF CallsUnderTokens
<1>8. ClaimsExclusive'
  <2>1. \A t \in Server : Holding(t)' => Holding(t)
    BY <1>0, <1>1, <1>4 DEF Holding
  <2>2. \A t \in Server : /\ worker'[t].id = worker[t].id
                          /\ worker'[t].outbox = worker[t].outbox
    BY <1>1, <1>4
  <2>3. Holding(s)
    BY <1>0 DEF Holding
  <2>4. \A t \in Server \ {s} : Holding(t) /\ worker[t].id = n =>
          worker[t].outbox.token # token
    BY <2>3 DEF ClaimsExclusive
  <2>5. \A t \in Server :
          Holding(t)' =>
            /\ worker'[t].pc = "claimed" =>
                 worker'[t].outbox.token \notin called'[worker'[t].id]
            /\ worker'[t].pc = "calling" =>
                 worker'[t].outbox.token \in called'[worker'[t].id]
    <3> SUFFICES ASSUME NEW t \in Server, Holding(t)'
                 PROVE  /\ worker'[t].pc = "claimed" =>
                             worker'[t].outbox.token \notin called'[worker'[t].id]
                        /\ worker'[t].pc = "calling" =>
                             worker'[t].outbox.token \in called'[worker'[t].id]
      OBVIOUS
    <3>1. CASE t = s
      BY <3>1, <1>1, <1>3, <1>4
    <3>2. CASE t # s
      <4>1. worker'[t] = worker[t] /\ Holding(t) /\ worker[t].id \in Msg
        BY <3>2, <2>1, <1>4 DEF ClaimsExclusive
      <4>2. worker[t].id = n => worker[t].outbox.token # token
        BY <3>2, <4>1, <2>4
      <4> QED  BY <4>1, <4>2, <1>3 DEF ClaimsExclusive
    <3> QED  BY <3>1, <3>2
  <2> QED  BY <1>0, <2>1, <2>2, <2>5 DEF ClaimsExclusive
<1>9. CopyFaithful'
  <2>1. worker[s].outbox.state = "sending"
    BY <1>0 DEF CopyFaithful, Holding
  <2> QED  BY <1>0, <1>1, <1>4, <2>1 DEF CopyFaithful, Holding, RetryLimitReached
<1>10. LocksExclusive' /\ SelectionHolds'
  BY <1>0, <1>1, <1>4 DEF LocksExclusive, SelectionHolds, Exists, Due, Reached
<1>11. ClocksBounded'
  BY <1>0, <1>1, <1>4 DEF ClocksBounded, WorkerWaits, RelayWaits, Now
<1>12. AttemptsInWindow'
  BY <1>1, <1>4 DEF AttemptsInWindow
<1>13. LeaseOutlivesCall'
  <2> SUFFICES ASSUME MaxStall + AttemptTimeout < Lease
               PROVE  /\ row[n].token = token
                      /\ row[n].leaseUntil >= Now + Lease - MaxStall
    BY <1>0, <1>1, <1>4 DEF LeaseOutlivesCall
  <2>1. row[n].token = token /\ row[n].leaseUntil >= worker[s].clock + Lease
    BY <1>0 DEF LeaseOutlivesCall
  <2>2. worker[s].clock \in Int /\ worker[s].clock >= -MaxStall
    BY <1>0 DEF Worker, ClocksBounded, WorkerWaits
  <2>3. row[n].leaseUntil \in Int
    <3>1. row[n] \in Row /\ token # NoToken
      <4> HIDE DEF n, token
      <4> QED  BY <1>2 DEF TypeOK, NoToken
    <3> QED  BY <3>1, <2>1, <1>2 DEF Row, Time, LeaseShape
  <2> QED  BY <2>1, <2>2, <2>3 DEF Now
<1> QED  BY <1>5, <1>6, <1>7, <1>8, <1>9, <1>10, <1>11, <1>12, <1>13

\* The outcome a worker writes into its copy keeps the claim's numbers.
LEMMA OutcomeStep ==
  ASSUME Inv, NEW s \in Server, worker[s].pc \in {"claimed", "calling"},
         NEW out \in Row, ToFinish(s, out),
         out.state \in {"sent", "failed", "dead"},
         out.token = worker[s].outbox.token,
         out.maxRetries = worker[s].outbox.maxRetries,
         out.attempts = worker[s].outbox.attempts,
         out.retryCount = worker[s].outbox.retryCount,
         out.state = "sent" => out.token \in confirmed'[worker[s].id],
         out.state = "dead" => \/ RetryLimitReached(out)
                               \/ out.deadline # NoTime /\ out.deadline <= 0,
         \/ confirmed' = confirmed
         \/ /\ worker[s].pc = "calling"
            /\ confirmed' = [confirmed EXCEPT ![worker[s].id] = @ \cup {out.token}],
         UNCHANGED <<row, queue, stopping, relay, minted, called, faults>>
  PROVE  Inv'
<1> USE DEF Inv
<1> DEFINE w == [worker[s] EXCEPT !.pc = "finish", !.clock = Now, !.outbox = out]
           n == worker[s].id
<1>0. /\ worker \in [Server -> Worker] /\ worker[s] \in Worker
      /\ worker' = [worker EXCEPT ![s] = w] /\ Holding(s)
  BY DEF TypeOK, ToFinish, Holding
<1>1. /\ w \in Worker /\ w.pc = "finish" /\ w.id = n /\ w.clock = Now
      /\ w.outbox = out
  BY <1>0, KnownPCs DEF Worker
<1> HIDE DEF w
<1>2. worker'[s] = w /\ \A t \in Server \ {s} : worker'[t] = worker[t]
  BY <1>0
<1>3. /\ n \in Msg /\ out.token \in Nat /\ confirmed \in [Msg -> SUBSET Nat]
      /\ worker[s].pc = "calling" => out.token \in called[n]
  BY <1>0 DEF ClaimsExclusive, TypeOK, Row
<1>4. /\ confirmed' \in [Msg -> SUBSET Nat]
      /\ \A m \in Msg : confirmed[m] \subseteq confirmed'[m]
      /\ \A m \in Msg : confirmed'[m] \subseteq called[m]
  <2>1. \A m \in Msg : confirmed[m] \subseteq called[m]
    BY DEF CallsUnderTokens
  <2> QED  BY <1>3, <2>1
<1>5. TypeOK'
  BY <1>0, <1>1, <1>4 DEF TypeOK
<1>6. LeaseShape' /\ AttemptsCounted' /\ GivesUpOnlyWhenExhausted'
  BY DEF LeaseShape, AttemptsCounted, GivesUpOnlyWhenExhausted
<1>7. CallsUnderTokens'
  BY <1>4 DEF CallsUnderTokens
<1>8. ClaimsExclusive'
  <2>1. \A t \in Server : /\ Holding(t)' <=> Holding(t)
                          /\ Holding(t) => worker'[t].id = worker[t].id
                          /\ Holding(t) => worker'[t].outbox.token = worker[t].outbox.token
    BY <1>0, <1>1, <1>2 DEF Holding
  <2>2. \A t \in Server : worker'[t].pc # "finish" => worker'[t].pc = worker[t].pc
    BY <1>1, <1>2
  <2>3. \A t \in Server :
          worker'[t].pc \in {"claimed", "calling"} => Holding(t)
    BY <2>2 DEF Holding
  <2> QED  BY <2>1, <2>2, <2>3 DEF ClaimsExclusive
<1>9. CopyFaithful'
  <2>1. \A t \in Server \ {s} : Holding(t) => worker[t].id \in Msg
    BY DEF ClaimsExclusive
  <2> SUFFICES ASSUME NEW t \in Server, Holding(t)'
               PROVE  LET o == worker'[t].outbox
                          r == row[worker'[t].id]
                      IN  /\ o.maxRetries = r.maxRetries
                          /\ o.attempts = o.retryCount + 1
                          /\ r.token = o.token => o.attempts = r.attempts
                          /\ worker'[t].pc # "finish" => o.state = "sending"
                          /\ worker'[t].pc = "finish" =>
                               /\ o.state \in {"sent", "failed", "dead"}
                               /\ o.state = "sent" =>
                                    o.token \in confirmed'[worker'[t].id]
                               /\ o.state = "dead" =>
                                    \/ RetryLimitReached(o)
                                    \/ o.deadline # NoTime /\ o.deadline <= 0
    BY DEF CopyFaithful, RetryLimitReached
  <2>2. CASE t = s
    BY <2>2, <1>0, <1>1, <1>2 DEF CopyFaithful
  <2>3. CASE t # s
    <3>1. worker'[t] = worker[t] /\ Holding(t) /\ worker[t].id \in Msg
      BY <2>1, <2>3, <1>2 DEF Holding
    <3> QED  BY <3>1, <1>4 DEF CopyFaithful
  <2> QED  BY <2>2, <2>3
<1>10. LocksExclusive' /\ SelectionHolds'
  BY <1>1, <1>2 DEF LocksExclusive, SelectionHolds, Exists, Due, Reached
<1>11. ClocksBounded'
  BY <1>1, <1>2 DEF ClocksBounded, WorkerWaits, RelayWaits, Now
<1>12. AttemptsInWindow'
  BY <1>1, <1>2 DEF AttemptsInWindow
<1>13. LeaseOutlivesCall'
  BY <1>1, <1>2 DEF LeaseOutlivesCall
<1> QED  BY <1>5, <1>6, <1>7, <1>8, <1>9, <1>10, <1>11, <1>12, <1>13

\* What a failed attempt leaves in the worker's copy.
LEMMA FailedFacts ==
  ASSUME NEW o \in Row, NEW d \in BackoffDelays, NEW e \in RowError
  PROVE  LET f == Failed(o, Now, d, e)
         IN  /\ f \in Row /\ f.state \in {"failed", "dead"}
             /\ f.token = o.token /\ f.maxRetries = o.maxRetries
             /\ f.attempts = o.attempts /\ f.retryCount = o.retryCount
             /\ f.deadline = o.deadline
             /\ f.state = "dead" => \/ RetryLimitReached(f)
                                    \/ f.deadline # NoTime /\ f.deadline <= 0
<1> DEFINE f == Failed(o, Now, d, e)
<1>1. f \in Row
  <2>1. Now \in Int /\ d \in Nat /\ NoToken \in Nat
    BY KnownPCs DEF NoToken
  <2>2. o.maxRetries \in Int
    BY DEF Row
  <2> QED  BY <2>1, <2>2, RowTypes
<1>2. /\ f.token = o.token /\ f.maxRetries = o.maxRetries
      /\ f.attempts = o.attempts /\ f.retryCount = o.retryCount
      /\ f.deadline = o.deadline
      /\ f.state = IF \/ RetryLimitReached(o)
                      \/ o.deadline # NoTime /\ Now >= o.deadline
                   THEN "dead" ELSE "failed"
  BY DEF Failed, Row
<1>3. f.state = "dead" => \/ RetryLimitReached(f)
                          \/ f.deadline # NoTime /\ f.deadline <= 0
  <2>1. o.deadline # NoTime => o.deadline \in Int
    BY DEF Row, Time
  <2> HIDE DEF f
  <2> QED  BY <1>2, <2>1 DEF RetryLimitReached, Now
<1>4. f.state \in {"failed", "dead"}
  BY <1>2
<1> QED  BY <1>1, <1>2, <1>3, <1>4

\* What a successful attempt leaves in the worker's copy.
LEMMA SucceededFacts ==
  ASSUME NEW o \in Row
  PROVE  LET g == Succeeded(o)
         IN  /\ g \in Row /\ g.state = "sent"
             /\ g.token = o.token /\ g.maxRetries = o.maxRetries
             /\ g.attempts = o.attempts /\ g.retryCount = o.retryCount
<1>1. "sent" \in RowState
  BY DEF RowState
<1> HIDE DEF RowState
<1> QED  BY <1>1 DEF Succeeded, Row

\* The provider call ends and the copy of the row takes the outcome.
LEMMA CallEndStep ==
  ASSUME Inv, NEW s \in Server,
         SkipCall(s) \/ CallAccepted(s) \/ CallRefused(s)
  PROVE  Inv'
<1> DEFINE o == worker[s].outbox
<1>0. o \in Row /\ worker[s] \in Worker
  BY DEF Inv, TypeOK, Worker
<1>1. "invalid" \in RowError /\ "provider" \in RowError
  BY DEF RowError
<1>2. CASE SkipCall(s)
  <2>1. PICK d \in BackoffDelays : ToFinish(s, Failed(o, Now, d, "invalid"))
    BY <1>2 DEF SkipCall
  <2> DEFINE out == Failed(o, Now, d, "invalid")
  <2>2. /\ out \in Row /\ out.state \in {"failed", "dead"}
        /\ out.token = o.token /\ out.maxRetries = o.maxRetries
        /\ out.attempts = o.attempts /\ out.retryCount = o.retryCount
        /\ out.state = "dead" => \/ RetryLimitReached(out)
                                 \/ out.deadline # NoTime /\ out.deadline <= 0
    BY <1>0, <1>1, FailedFacts
  <2> HIDE DEF out
  <2>3. ToFinish(s, out)
    BY <2>1 DEF out
  <2> QED  BY <1>2, <2>2, <2>3, OutcomeStep DEF SkipCall
<1>3. CASE CallRefused(s)
  <2>1. PICK d \in BackoffDelays : ToFinish(s, Failed(o, Now, d, "provider"))
    BY <1>3 DEF CallRefused
  <2> DEFINE out == Failed(o, Now, d, "provider")
  <2>2. /\ out \in Row /\ out.state \in {"failed", "dead"}
        /\ out.token = o.token /\ out.maxRetries = o.maxRetries
        /\ out.attempts = o.attempts /\ out.retryCount = o.retryCount
        /\ out.state = "dead" => \/ RetryLimitReached(out)
                                 \/ out.deadline # NoTime /\ out.deadline <= 0
    BY <1>0, <1>1, FailedFacts
  <2> HIDE DEF out
  <2>3. ToFinish(s, out)
    BY <2>1 DEF out
  <2> QED  BY <1>3, <2>2, <2>3, OutcomeStep DEF CallRefused
<1>4. ASSUME CallAccepted(s), NEW d \in BackoffDelays,
             ToFinish(s, Failed(o, Now, d, "provider"))
      PROVE  Inv'
  <2> DEFINE out == Failed(o, Now, d, "provider")
  <2>1. /\ out \in Row /\ out.state \in {"failed", "dead"}
        /\ out.token = o.token /\ out.maxRetries = o.maxRetries
        /\ out.attempts = o.attempts /\ out.retryCount = o.retryCount
        /\ out.state = "dead" => \/ RetryLimitReached(out)
                                 \/ out.deadline # NoTime /\ out.deadline <= 0
    BY <1>0, <1>1, FailedFacts
  <2> HIDE DEF out
  <2>2. ToFinish(s, out)
    BY <1>4 DEF out
  <2> QED  BY <1>4, <2>1, <2>2, OutcomeStep DEF CallAccepted
<1>5. ASSUME CallAccepted(s), ToFinish(s, Succeeded(o))
      PROVE  Inv'
  <2> DEFINE out == Succeeded(o)
  <2>1. /\ out \in Row /\ out.state = "sent"
        /\ out.token = o.token /\ out.maxRetries = o.maxRetries
        /\ out.attempts = o.attempts /\ out.retryCount = o.retryCount
    BY <1>0, SucceededFacts
  <2>2. out.token \in confirmed'[worker[s].id]
    <3>1. worker[s].id \in Msg /\ confirmed \in [Msg -> SUBSET Nat]
      BY <1>5 DEF Inv, TypeOK, ClaimsExclusive, Holding, CallAccepted
    <3> QED  BY <1>5, <2>1, <3>1 DEF CallAccepted
  <2> HIDE DEF out
  <2>3. ToFinish(s, out)
    BY <1>5 DEF out
  <2> QED  BY <1>5, <2>1, <2>2, <2>3, OutcomeStep DEF CallAccepted
<1> QED  BY <1>2, <1>3, <1>4, <1>5 DEF CallAccepted

\* RelayCommit, and RelayReserveFails when the commit went through.
LEMMA RelayCommitStep ==
  ASSUME Inv, NEW s \in Server,
         \/ RelayCommit(s)
         \/ /\ RelayReserveFails(s) /\ relay[s].pc = "reserve"
            /\ row' = ReservedRows(s)
  PROVE  Inv'
<1>0. /\ relay[s] \in Relay /\ faults \in 0 .. MaxFaults
      /\ \A f : f = faults - 1 /\ faults > 0 => f \in 0 .. MaxFaults
  BY DEF Inv, TypeOK
<1>1. IdleRelay \in Relay /\ IdleRelay.pc = "idle" /\ IdleRelay.clock = Now
  BY IdleTypes DEF IdleRelay
<1> DEFINE p == [pc |-> "publish", clock |-> Now, batch |-> ToPublish(s)]
<1>2. p \in Relay /\ p.pc = "publish" /\ p.clock = Now
  <2>1. ToPublish(s) \subseteq Msg
    BY <1>0 DEF ToPublish, Relay
  <2> QED  BY <2>1, KnownPCs DEF Relay
<1>3. CASE RelayCommit(s) /\ ToPublish(s) = {}
  BY <1>0, <1>1, <1>3, ReserveStep DEF RelayCommit
<1>4. CASE RelayCommit(s) /\ ToPublish(s) # {}
  <2>1. relay' = [relay EXCEPT ![s] = p]
    BY <1>4 DEF RelayCommit
  <2> HIDE DEF p
  <2> QED  BY <1>0, <1>2, <1>4, <2>1, ReserveStep DEF RelayCommit
<1>5. CASE /\ RelayReserveFails(s) /\ relay[s].pc = "reserve"
           /\ row' = ReservedRows(s)
  BY <1>0, <1>1, <1>5, ReserveStep DEF RelayReserveFails, RelayFault, Fault
<1> QED  BY <1>3, <1>4, <1>5

-----------------------------------------------------------------------------
(* The consumer's Finish. *)

\* What Finish writes keeps the numbers of the copy and ends its claim.
LEMMA CompletedFacts ==
  ASSUME NEW o \in Row
  PROVE  LET c == Completed(o)
         IN  /\ c \in Row /\ c.state = o.state /\ c.token = NoToken
             /\ c.maxRetries = o.maxRetries /\ c.attempts = o.attempts
             /\ c.deadline = o.deadline
<1>1. Completed(o) \in Row
  <2>1. NoToken \in Nat /\ NoTime \in Time /\ "none" \in RowError
    BY DEF NoToken, Time, RowError
  <2> HIDE DEF Time, RowError, RowState
  <2> QED  BY <2>1 DEF Completed, Row
<1> QED  BY <1>1 DEF Completed, Row

\* A completion keeps the invariant: it matches only the claim it is for.
LEMMA FinishStep ==
  ASSUME Inv, NEW s \in Server, worker[s].pc = "finish",
         ~Locked(worker[s].id), row' = FinishedRows(s),
         NEW v \in Verdict, ToSettle(s, v),
         UNCHANGED <<queue, stopping, relay, minted, called, confirmed>>,
         faults' \in 0 .. MaxFaults
  PROVE  Inv'
<1> DEFINE w == [IdleWorker EXCEPT !.pc = "settle", !.id = worker[s].id,
                                   !.held = worker[s].held, !.verdict = v]
           n == worker[s].id
           o == worker[s].outbox
           c == Completed(o)
<1>1. CASE ~Matches(s)
  BY <1>1, SettleMoves DEF FinishedRows, Counters
<1>2. CASE Matches(s)
  <2> USE DEF Inv
  <2>0. /\ row \in [Msg -> Row] /\ worker \in [Server -> Worker]
        /\ worker[s] \in Worker /\ o \in Row /\ Holding(s)
    BY DEF TypeOK, Worker, Holding
  <2>1. w \in Worker /\ w.pc = "settle" /\ w.clock = Now
    BY <2>0, IdleTypes, KnownPCs DEF IdleWorker, Worker
  <2>2. worker' = [worker EXCEPT ![s] = w]
    BY DEF ToSettle
  <2>3. n \in Msg /\ o.token # NoToken
    BY <2>0 DEF ClaimsExclusive, NoToken
  <2>4. /\ o.state \in {"sent", "failed", "dead"} /\ o.attempts = o.retryCount + 1
        /\ o.maxRetries = row[n].maxRetries
        /\ row[n].token = o.token => o.attempts = row[n].attempts
        /\ o.state = "dead" => \/ RetryLimitReached(o)
                               \/ o.deadline # NoTime /\ o.deadline <= 0
    BY <2>0 DEF CopyFaithful
  <2>5. row[n].token = o.token
    BY <1>2 DEF Matches, StillLeased
  <2>6. /\ c \in Row /\ c.state = o.state /\ c.token = NoToken
        /\ c.maxRetries = o.maxRetries /\ c.attempts = o.attempts
        /\ c.deadline = o.deadline
    BY <2>0, CompletedFacts
  <2>7. row' = [row EXCEPT ![n] = c]
    BY <1>2 DEF FinishedRows
  <2> HIDE DEF w, n, c
  <2>8. c.state = "dead" => SpentRow(c)
    <3>1. o.maxRetries \in Int /\ o.retryCount \in Nat
      BY <2>0 DEF Row
    <3> HIDE DEF o
    <3> QED  BY <3>1, <2>4, <2>6 DEF SpentRow, RetryLimitReached
  <2>9. /\ row'[n] = c /\ \A m \in Msg \ {n} : row'[m] = row[m]
        /\ worker'[s] = w /\ \A t \in Server \ {s} : worker'[t] = worker[t]
    BY <2>0, <2>2, <2>3, <2>7
  <2>10. \A t \in Server \ {s} : Holding(t) =>
           /\ worker[t].id \in Msg /\ worker[t].outbox.token # NoToken
           /\ worker[t].id = n => worker[t].outbox.token # o.token
    BY <2>0 DEF ClaimsExclusive, NoToken, n
  <2>11. \A t \in Server : Holding(t)' => t \in Server \ {s} /\ Holding(t)
    BY <2>1, <2>9 DEF Holding
  <2>12. TypeOK'
    BY <2>0, <2>1, <2>2, <2>6, <2>7 DEF TypeOK
  <2>13. LeaseShape'
    BY <2>4, <2>6, <2>9 DEF LeaseShape
  <2>14. AttemptsCounted'
    BY <2>3, <2>4, <2>5, <2>6, <2>9 DEF AttemptsCounted, TypeOK, NoToken
  <2>15. CallsUnderTokens'
    BY DEF CallsUnderTokens
  <2>16. ClaimsExclusive'
    BY <2>9, <2>11 DEF ClaimsExclusive
  <2>17. CopyFaithful'
    <3> SUFFICES ASSUME NEW t \in Server \ {s}, Holding(t), worker'[t] = worker[t]
                 PROVE  LET q == worker[t].outbox
                            r == row'[worker[t].id]
                        IN  /\ q.maxRetries = r.maxRetries
                            /\ q.attempts = q.retryCount + 1
                            /\ r.token = q.token => q.attempts = r.attempts
                            /\ worker[t].pc # "finish" => q.state = "sending"
                            /\ worker[t].pc = "finish" =>
                                 /\ q.state \in {"sent", "failed", "dead"}
                                 /\ q.state = "sent" =>
                                      q.token \in confirmed[worker[t].id]
                                 /\ q.state = "dead" =>
                                      \/ RetryLimitReached(q)
                                      \/ q.deadline # NoTime /\ q.deadline <= 0
      BY <2>9, <2>11 DEF CopyFaithful, RetryLimitReached
    <3>1. CASE worker[t].id = n
      BY <3>1, <2>4, <2>6, <2>9, <2>10 DEF CopyFaithful
    <3>2. CASE worker[t].id # n
      BY <3>2, <2>9, <2>10 DEF CopyFaithful
    <3> QED  BY <3>1, <3>2
  <2>18. LocksExclusive'
    BY <2>1, <2>9 DEF LocksExclusive
  <2>19. SelectionHolds'
    <3>1. \A t \in Server : /\ worker[t].pc = "txn" => worker[t].id # n
                            /\ relay[t].pc = "reserve" => n \notin relay[t].batch
      BY DEF Locked, n
    <3>2. \A t \in Server : worker'[t].pc = "txn" =>
            /\ worker'[t] = worker[t] /\ worker[t].id \in Msg \ {n}
      BY <3>1, <2>1, <2>9 DEF SelectionHolds, Exists
    <3>3. \A t \in Server : relay[t].pc = "reserve" =>
            relay[t].batch \subseteq Msg \ {n}
      BY <3>1 DEF TypeOK, Relay
    <3>4. \A t \in Server : worker'[t].pc = "txn" => Exists(worker[t].id)'
      BY <3>2, <2>9 DEF SelectionHolds, Exists
    <3>5. \A t \in Server :
            relay'[t].pc = "reserve" =>
              \A m \in relay'[t].batch : Due(row[m], relay[t].clock)'
      <4> SUFFICES ASSUME NEW t \in Server, relay[t].pc = "reserve",
                          NEW m \in relay[t].batch
                   PROVE  Due(row'[m], relay[t].clock)
        OBVIOUS
      <4>1. row'[m] = row[m]
        BY <3>3, <2>9
      <4> QED  BY <4>1 DEF SelectionHolds
    <3> QED  BY <3>4, <3>5 DEF SelectionHolds
  <2>20. ClocksBounded'
    BY <2>1, <2>9 DEF ClocksBounded, WorkerWaits, RelayWaits, Now
  <2>21. GivesUpOnlyWhenExhausted'
    BY <2>8, <2>9 DEF GivesUpOnlyWhenExhausted, SpentRow
  <2>22. AttemptsInWindow'
    BY <2>1, <2>9 DEF AttemptsInWindow
  <2>23. LeaseOutlivesCall'
    <3> SUFFICES ASSUME MaxStall + AttemptTimeout < Lease, NEW t \in Server \ {s},
                        worker[t].pc \in {"claimed", "calling"}
                 PROVE  row'[worker[t].id] = row[worker[t].id]
      BY <2>1, <2>9 DEF LeaseOutlivesCall
    <3>1. Holding(t) /\ row[worker[t].id].token = worker[t].outbox.token
      BY DEF LeaseOutlivesCall, Holding
    <3> QED  BY <3>1, <2>5, <2>9, <2>10
  <2> QED  BY <2>12, <2>13, <2>14, <2>15, <2>16, <2>17, <2>18, <2>19, <2>20,
              <2>21, <2>22, <2>23
<1> QED  BY <1>1, <1>2

\* Finish, and FinishFails when its UPDATE went through.
LEMMA FinishCommitStep ==
  ASSUME Inv, NEW s \in Server,
         \/ Finish(s)
         \/ /\ FinishFails(s) /\ ~Locked(worker[s].id)
            /\ row' = FinishedRows(s)
  PROVE  Inv'
<1>0. /\ faults \in 0 .. MaxFaults
      /\ \A f : f = faults - 1 /\ faults > 0 => f \in 0 .. MaxFaults
  BY DEF Inv, TypeOK
<1>1. "ack" \in Verdict /\ "requeue" \in Verdict
  BY DEF Verdict
<1>2. CASE Finish(s)
  BY <1>0, <1>1, <1>2, FinishStep DEF Finish
<1>3. CASE /\ FinishFails(s) /\ ~Locked(worker[s].id)
           /\ row' = FinishedRows(s)
  BY <1>0, <1>1, <1>3, FinishStep DEF FinishFails, Fault
<1> QED  BY <1>2, <1>3

-----------------------------------------------------------------------------
(* The passing of time. *)

\* Aging a timestamp that has been reached keeps it reached, and keeps its
\* place among the readings that are still in use.
LEMMA AgedTimes ==
  /\ \A t \in Time : Aged(t) \in Time /\ (Aged(t) = NoTime <=> t = NoTime)
  /\ \A t \in Time : t # NoTime /\ t <= 0 => Aged(t) <= 0
  /\ \A t \in Time, now \in Int :
       t # NoTime /\ t <= now => Aged(t) <= now - 1 \/ Aged(t) < -MaxStall
  /\ \A t \in Time, now \in Int :
       t # NoTime /\ t > now /\ now > -MaxStall => Aged(t) > now - 1
  /\ \A t \in Time, now \in Int :
       t # NoTime /\ t >= now => Aged(t) >= now - 1
  BY DEF Aged, Time

\* What aging leaves alone in a row.
LEMMA AgedRowFacts ==
  ASSUME NEW r \in Row
  PROVE  /\ AgedRow(r) \in Row
         /\ AgedRow(r).state = r.state /\ AgedRow(r).token = r.token
         /\ AgedRow(r).maxRetries = r.maxRetries
         /\ AgedRow(r).attempts = r.attempts
         /\ AgedRow(r).retryCount = r.retryCount
         /\ AgedRow(r).leaseUntil = Aged(r.leaseUntil)
         /\ AgedRow(r).dispatchAfter = Aged(r.dispatchAfter)
         /\ AgedRow(r).nextRetryAt = Aged(r.nextRetryAt)
         /\ AgedRow(r).deadline = Aged(r.deadline)
         /\ r = AbsentRow => AgedRow(r) = AbsentRow
<1>1. \A t \in Time : Aged(t) \in Time
  BY AgedTimes
<1>2. AgedRow(r) \in Row
  <2> HIDE DEF Time, RowState, RowError
  <2> QED  BY <1>1 DEF AgedRow, Row
<1>3. Aged(NoTime) = NoTime
  BY DEF Aged
<1>4. r = AbsentRow => AgedRow(r) = AbsentRow
  <2> SUFFICES ASSUME r = AbsentRow PROVE AgedRow(r) = r
    OBVIOUS
  <2>1. /\ r.leaseUntil = NoTime /\ r.dispatchAfter = NoTime
        /\ r.nextRetryAt = NoTime /\ r.deadline = NoTime
    BY DEF AbsentRow
  <2> QED  BY <1>3, <2>1 DEF AgedRow, Row
<1> QED  BY <1>2, <1>4 DEF AgedRow, Row

\* A row that was due at a reading in use is still due a tick later.
LEMMA AgedDue ==
  ASSUME NEW r \in Row, NEW now \in Int, now > -MaxStall, Due(r, now)
  PROVE  Due(AgedRow(r), now - 1)
<1>1. \A t \in Time : Reached(t, now) => Reached(Aged(t), now - 1)
  <2> SUFFICES ASSUME NEW t \in Time, t # NoTime, t <= now
               PROVE  Aged(t) <= now - 1
    BY AgedTimes DEF Reached
  <2>1. Aged(t) \in Int
    BY AgedTimes DEF Time
  <2> QED  BY <2>1, AgedTimes
<1>2. /\ r.leaseUntil \in Time /\ r.dispatchAfter \in Time
      /\ r.nextRetryAt \in Time
  BY DEF Row
<1> QED  BY <1>1, <1>2, AgedRowFacts DEF Due

\* Time passes: rows, copies and readings age together.
LEMMA TickStep ==
  ASSUME Inv, Tick
  PROVE  Inv'
<1> USE DEF Inv
<1>0. /\ row \in [Msg -> Row] /\ worker \in [Server -> Worker]
      /\ relay \in [Server -> Relay]
      /\ UNCHANGED <<queue, stopping, minted, called, confirmed, faults>>
  BY DEF TypeOK, Tick
<1>1. \A m \in Msg : row'[m] = AgedRow(row[m]) /\ row[m] \in Row
  BY <1>0 DEF Tick
<1> DEFINE Runs(s) == WorkerWaits(s) \/ worker[s].pc = "calling"
<1>2. \A s \in Server :
        /\ worker[s] \in Worker /\ worker[s].outbox \in Row
        /\ worker[s].clock \in Int
        /\ worker'[s].pc = worker[s].pc /\ worker'[s].id = worker[s].id
        /\ ~Runs(s) => worker'[s] = worker[s]
        /\ Runs(s) => /\ worker'[s].clock = worker[s].clock - 1
                      /\ worker'[s].outbox = AgedRow(worker[s].outbox)
        /\ worker'[s] \in Worker
  <2> SUFFICES ASSUME NEW s \in Server
               PROVE  /\ worker[s] \in Worker /\ worker[s].outbox \in Row
                      /\ worker[s].clock \in Int
                      /\ worker'[s].pc = worker[s].pc
                      /\ worker'[s].id = worker[s].id
                      /\ ~Runs(s) => worker'[s] = worker[s]
                      /\ Runs(s) =>
                           /\ worker'[s].clock = worker[s].clock - 1
                           /\ worker'[s].outbox = AgedRow(worker[s].outbox)
                      /\ worker'[s] \in Worker
    OBVIOUS
  <2>1. /\ worker[s] \in Worker /\ worker[s].outbox \in Row
        /\ worker[s].clock \in Int
    BY <1>0 DEF Worker
  <2>2. worker'[s] = IF Runs(s)
                     THEN [worker[s] EXCEPT !.clock = @ - 1, !.outbox = AgedRow(@)]
                     ELSE worker[s]
    BY DEF Tick
  <2> HIDE DEF Runs
  <2>3. AgedRow(worker[s].outbox) \in Row
    BY <2>1, AgedRowFacts
  <2>4. CASE Runs(s)
    <3> DEFINE w == [worker[s] EXCEPT !.clock = worker[s].clock - 1,
                                      !.outbox = AgedRow(worker[s].outbox)]
    <3>1. worker'[s] = w
      BY <2>2, <2>4
    <3>2. worker[s].clock - 1 \in Int
      BY <2>1
    <3>3. /\ w \in Worker /\ w.pc = worker[s].pc /\ w.id = worker[s].id
          /\ w.clock = worker[s].clock - 1
          /\ w.outbox = AgedRow(worker[s].outbox)
      BY <2>1, <2>3, <3>2 DEF Worker
    <3> HIDE DEF w
    <3> QED  BY <2>1, <2>4, <3>1, <3>3
  <2> QED  BY <2>1, <2>2, <2>4
<1>3. \A s \in Server :
        /\ relay[s].clock \in Int /\ relay[s].batch \subseteq Msg
        /\ relay'[s].pc = relay[s].pc /\ relay'[s].batch = relay[s].batch
        /\ RelayWaits(s) => relay'[s].clock = relay[s].clock - 1
        /\ ~RelayWaits(s) => relay'[s] = relay[s]
        /\ relay'[s] \in Relay
  <2> SUFFICES ASSUME NEW s \in Server
               PROVE  /\ relay[s].clock \in Int /\ relay[s].batch \subseteq Msg
                      /\ relay'[s].pc = relay[s].pc
                      /\ relay'[s].batch = relay[s].batch
                      /\ RelayWaits(s) => relay'[s].clock = relay[s].clock - 1
                      /\ ~RelayWaits(s) => relay'[s] = relay[s]
                      /\ relay'[s] \in Relay
    OBVIOUS
  <2>1. /\ relay[s] \in Relay /\ relay[s].clock \in Int
        /\ relay[s].batch \subseteq Msg
    BY <1>0 DEF Relay
  <2>2. relay'[s] = IF RelayWaits(s)
                    THEN [relay[s] EXCEPT !.clock = relay[s].clock - 1]
                    ELSE relay[s]
    BY DEF Tick
  <2> DEFINE q == [relay[s] EXCEPT !.clock = relay[s].clock - 1]
  <2>3. relay[s].clock - 1 \in Int
    BY <2>1
  <2>4. /\ q \in Relay /\ q.pc = relay[s].pc /\ q.batch = relay[s].batch
        /\ q.clock = relay[s].clock - 1
    BY <2>1, <2>3 DEF Relay
  <2> QED  BY <2>1, <2>2, <2>4
<1>4. \A s \in Server :
        /\ worker[s].pc = "calling" => worker[s].clock > -AttemptTimeout
        /\ WorkerWaits(s) => worker[s].clock > -MaxStall
        /\ RelayWaits(s) => relay[s].clock > -MaxStall
  BY DEF Tick
<1>5. \A s \in Server :
        /\ WorkerWaits(s)' <=> WorkerWaits(s)
        /\ RelayWaits(s)' <=> RelayWaits(s)
        /\ Holding(s)' <=> Holding(s)
        /\ Holding(s) => Runs(s)
  BY <1>2, <1>3 DEF WorkerWaits, RelayWaits, Holding
<1> HIDE DEF Runs
<1>6. TypeOK'
  <2>1. row' \in [Msg -> Row]
    <3>1. \A m \in Msg : AgedRow(row[m]) \in Row
      BY <1>1, AgedRowFacts
    <3> QED  BY <3>1 DEF Tick
  <2>2. worker' \in [Server -> Worker]
    <3>1. worker' = [s \in Server |-> worker'[s]]
      BY DEF Tick
    <3> QED  BY <3>1, <1>2
  <2>3. relay' \in [Server -> Relay]
    <3>1. relay' = [s \in Server |-> relay'[s]]
      BY DEF Tick
    <3> QED  BY <3>1, <1>3
  <2> QED  BY <1>0, <2>1, <2>2, <2>3 DEF TypeOK
<1>7. \A m \in Msg :
        /\ row'[m].state = row[m].state /\ row'[m].token = row[m].token
        /\ row'[m].maxRetries = row[m].maxRetries
        /\ row'[m].attempts = row[m].attempts
        /\ row'[m].leaseUntil = Aged(row[m].leaseUntil)
        /\ row'[m].deadline = Aged(row[m].deadline)
        /\ row[m] = AbsentRow => row'[m] = AbsentRow
        /\ row[m].leaseUntil \in Time /\ row[m].deadline \in Time
  BY <1>1, AgedRowFacts DEF Row
<1>8. \A s \in Server : Holding(s) =>
        LET o == worker[s].outbox
            q == worker'[s].outbox
        IN  /\ q.state = o.state /\ q.token = o.token
            /\ q.maxRetries = o.maxRetries /\ q.attempts = o.attempts
            /\ q.retryCount = o.retryCount
            /\ q.nextRetryAt = Aged(o.nextRetryAt) /\ o.nextRetryAt \in Time
            /\ q.deadline = Aged(o.deadline) /\ o.deadline \in Time
  BY <1>2, <1>5, AgedRowFacts DEF Row
<1>9. LeaseShape'
  BY <1>7, AgedTimes DEF LeaseShape
<1>10. AttemptsCounted'
  BY <1>0, <1>7 DEF AttemptsCounted
<1>11. CallsUnderTokens'
  BY <1>0 DEF CallsUnderTokens
<1>12. ClaimsExclusive'
  BY <1>0, <1>2, <1>5, <1>8 DEF ClaimsExclusive
<1>13. CopyFaithful'
  <2> SUFFICES ASSUME NEW s \in Server, Holding(s)
               PROVE  LET q == worker'[s].outbox
                          r == row'[worker[s].id]
                      IN  /\ q.maxRetries = r.maxRetries
                          /\ q.attempts = q.retryCount + 1
                          /\ r.token = q.token => q.attempts = r.attempts
                          /\ worker[s].pc # "finish" => q.state = "sending"
                          /\ worker[s].pc = "finish" =>
                               /\ q.state \in {"sent", "failed", "dead"}
                               /\ q.state = "sent" =>
                                    q.token \in confirmed[worker[s].id]
                               /\ q.state = "dead" =>
                                    \/ RetryLimitReached(q)
                                    \/ q.deadline # NoTime /\ q.deadline <= 0
    BY <1>0, <1>2, <1>5 DEF CopyFaithful, RetryLimitReached
  <2>1. worker[s].id \in Msg
    BY DEF ClaimsExclusive
  <2> DEFINE o == worker[s].outbox
             q == worker'[s].outbox
             n == worker[s].id
  <2>2. /\ q.state = o.state /\ q.token = o.token
        /\ q.maxRetries = o.maxRetries /\ q.attempts = o.attempts
        /\ q.retryCount = o.retryCount
        /\ q.deadline = Aged(o.deadline) /\ o.deadline \in Time
    BY <1>8
  <2>3. /\ row'[n].maxRetries = row[n].maxRetries
        /\ row'[n].token = row[n].token /\ row'[n].attempts = row[n].attempts
    BY <1>7, <2>1
  <2>4. o.deadline # NoTime /\ o.deadline <= 0 =>
          q.deadline # NoTime /\ q.deadline <= 0
    BY <2>2, AgedTimes
  <2>5. RetryLimitReached(o) <=> RetryLimitReached(q)
    BY <2>2 DEF RetryLimitReached
  <2>6. /\ o.maxRetries = row[n].maxRetries
        /\ o.attempts = o.retryCount + 1
        /\ row[n].token = o.token => o.attempts = row[n].attempts
        /\ worker[s].pc # "finish" => o.state = "sending"
        /\ worker[s].pc = "finish" =>
             /\ o.state \in {"sent", "failed", "dead"}
             /\ o.state = "sent" => o.token \in confirmed[n]
             /\ o.state = "dead" => \/ RetryLimitReached(o)
                                    \/ o.deadline # NoTime /\ o.deadline <= 0
    BY DEF CopyFaithful
  <2> HIDE DEF o, q, n, Inv
  <2> QED  BY <2>2, <2>3, <2>4, <2>5, <2>6 DEF o, q, n
<1>14. LocksExclusive'
  BY <1>2, <1>3 DEF LocksExclusive
<1>15. SelectionHolds'
  <2>1. \A s \in Server : worker'[s].pc = "txn" => Exists(worker[s].id)'
    <3> SUFFICES ASSUME NEW s \in Server, worker[s].pc = "txn"
                 PROVE  Exists(worker[s].id)'
      BY <1>2
    <3>1. worker[s].id \in Msg /\ row[worker[s].id].state # "none"
      BY DEF SelectionHolds, Exists
    <3>2. row'[worker[s].id].state = row[worker[s].id].state
      BY <3>1, <1>7
    <3>3. worker'[s].id = worker[s].id
      BY <1>2
    <3> QED  BY <3>1, <3>2, <3>3 DEF Exists
  <2>2. \A s \in Server :
          relay'[s].pc = "reserve" =>
            \A m \in relay'[s].batch : Due(row[m], relay[s].clock)'
    <3> SUFFICES ASSUME NEW s \in Server, relay[s].pc = "reserve",
                        NEW m \in relay[s].batch
                 PROVE  Due(row'[m], relay'[s].clock)
      BY <1>3
    <3>1. RelayWaits(s) /\ m \in Msg
      BY <1>3 DEF RelayWaits
    <3>2. Due(row[m], relay[s].clock)
      BY DEF SelectionHolds
    <3> QED  BY <3>1, <3>2, <1>1, <1>3, <1>4, AgedDue
  <2> QED  BY <2>1, <2>2 DEF SelectionHolds
<1>16. ClocksBounded'
  BY <1>2, <1>3, <1>4, <1>5 DEF ClocksBounded, Runs
<1>17. GivesUpOnlyWhenExhausted'
  BY <1>7, AgedTimes DEF GivesUpOnlyWhenExhausted
<1>18. AttemptsInWindow'
  <2> SUFFICES ASSUME NEW s \in Server, worker[s].pc = "claimed"
               PROVE  LET q == worker'[s].outbox
                      IN  /\ q.nextRetryAt = NoTime \/ q.nextRetryAt <= 0
                          /\ q.deadline = NoTime \/ q.deadline > worker'[s].clock
    BY <1>2 DEF AttemptsInWindow
  <2>1. Holding(s) /\ WorkerWaits(s) /\ Runs(s)
    BY <1>5 DEF Holding, WorkerWaits
  <2> QED  BY <2>1, <1>2, <1>4, <1>8, AgedTimes DEF AttemptsInWindow
<1>19. LeaseOutlivesCall'
  <2> SUFFICES ASSUME MaxStall + AttemptTimeout < Lease, NEW s \in Server,
                      worker[s].pc \in {"claimed", "calling"}
               PROVE  LET r == row'[worker[s].id]
                          slack == IF worker[s].pc = "claimed" THEN 0 ELSE MaxStall
                      IN  /\ r.token = worker'[s].outbox.token
                          /\ r.leaseUntil >= worker'[s].clock + Lease - slack
    BY <1>2 DEF LeaseOutlivesCall
  <2>1. Holding(s) /\ Runs(s) /\ worker[s].id \in Msg
    BY <1>5 DEF Holding, ClaimsExclusive
  <2>2. /\ row[worker[s].id].leaseUntil # NoTime
        /\ row[worker[s].id].token = worker[s].outbox.token
    BY <2>1 DEF LeaseOutlivesCall, LeaseShape, ClaimsExclusive, NoToken
  <2> DEFINE slack == IF worker[s].pc = "claimed" THEN 0 ELSE MaxStall
  <2>3. /\ row[worker[s].id].leaseUntil >= worker[s].clock + Lease - slack
        /\ worker[s].clock + Lease - slack \in Int
        /\ worker'[s].clock + Lease - slack = (worker[s].clock + Lease - slack) - 1
    BY <2>1, <1>2 DEF LeaseOutlivesCall
  <2> HIDE DEF slack
  <2>4. Aged(row[worker[s].id].leaseUntil) >= worker'[s].clock + Lease - slack
    BY <2>1, <2>2, <2>3, <1>7, AgedTimes
  <2> QED  BY <2>1, <2>2, <2>4, <1>7, <1>8 DEF slack
<1> QED  BY <1>6, <1>9, <1>10, <1>11, <1>12, <1>13, <1>14, <1>15, <1>16,
            <1>17, <1>18, <1>19

-----------------------------------------------------------------------------
(* The invariant holds in every behaviour. *)

\* Every step of a relay keeps the invariant.
LEMMA RelayKeeps ==
  ASSUME Inv, NEW s \in Server,
         RelayStep(s) \/ RelayReserveFails(s) \/ RelayPublishFails(s)
  PROVE  Inv'
<1>1. CASE RelayReadClock(s) \/ RelayPublish(s) \/ RelayStops(s)
           \/ RelayPublishFails(s)
  BY <1>1, RelayQuiet
<1>2. CASE RelayScan(s)
  BY <1>2, RelayQuiet, ScanStep
<1>3. CASE RelayCommit(s)
  BY <1>3, RelayCommitStep
<1>4. CASE RelayReserveFails(s)
  BY <1>4, RelayQuiet, RelayCommitStep DEF RelayReserveFails
<1> QED  BY <1>1, <1>2, <1>3, <1>4 DEF RelayStep

\* Every step of a consumer keeps the invariant.
LEMMA WorkerKeeps ==
  ASSUME Inv, NEW s \in Server,
         WorkerStep(s) \/ ClaimFails(s) \/ FinishFails(s)
  PROVE  Inv'
<1>1. CASE Receive(s) \/ Admit(s) \/ ClaimUnknown(s) \/ ClaimCollides(s)
           \/ Settle(s) \/ WorkerStops(s)
  BY <1>1, WorkerQuiet
<1>2. CASE ClaimLock(s)
  BY <1>2, ClaimLockStep
<1>3. CASE ClaimCommit(s)
  BY <1>3, ClaimCommitStep
<1>4. CASE ClaimFails(s)
  BY <1>4, WorkerQuiet, ClaimCommitStep DEF ClaimFails
<1>5. CASE StartCall(s)
  BY <1>5, StartCallStep
<1>6. CASE SkipCall(s) \/ CallAccepted(s) \/ CallRefused(s)
  BY <1>6, CallEndStep
<1>7. CASE Finish(s)
  BY <1>7, FinishCommitStep
<1>8. CASE FinishFails(s)
  BY <1>8, WorkerQuiet, FinishCommitStep DEF FinishFails
<1> QED  BY <1>1, <1>2, <1>3, <1>4, <1>5, <1>6, <1>7, <1>8 DEF WorkerStep

\* Inv is inductive.
LEMMA NextInv == Inv /\ [Next]_vars => Inv'
<1> SUFFICES ASSUME Inv, [Next]_vars PROVE Inv'
  OBVIOUS
<1>1. ASSUME NEW m \in Msg, Accept(m) PROVE Inv'
  BY <1>1, AcceptStep
<1>2. ASSUME NEW i \in Id, Inject(i) PROVE Inv'
  BY <1>2, InjectQuiet
<1>3. ASSUME NEW s \in Server, RelayStep(s) PROVE Inv'
  BY <1>3, RelayKeeps
<1>4. ASSUME NEW s \in Server, WorkerStep(s) PROVE Inv'
  BY <1>4, WorkerKeeps
<1>5. ASSUME NEW s \in Server, FaultyStep(s) PROVE Inv'
  BY <1>5, RelayKeeps, WorkerKeeps, WorkerQuiet, ServerQuiet DEF FaultyStep
<1>6. ASSUME NEW s \in Server, Redeploy(s) PROVE Inv'
  BY <1>6, ServerQuiet
<1>7. CASE Tick
  BY <1>7, TickStep
<1>8. CASE UNCHANGED vars
  <2>1. TypeOK'
    BY <1>8 DEF Inv, TypeOK, vars
  <2> QED  BY <1>8, <2>1, QuietStep DEF vars, Counters, WorkerRests, RelayRests
<1> QED  BY <1>1, <1>2, <1>3, <1>4, <1>5, <1>6, <1>7, <1>8 DEF Next

\* The inductive invariant: whatever the servers, the timing and the faults,
\* the claims, the copies and the locks of the transactions of delivery.go
\* stay consistent with the table.
THEOREM Invariance == Spec => []Inv
<1>1. Init => Inv
  BY InitInv
<1>2. Inv /\ [Next]_vars => Inv'
  BY NextInv
<1> QED  BY <1>1, <1>2, PTL DEF Spec

\* Every variable keeps its type.
THEOREM TypeCorrect == Spec => []TypeOK
<1>1. Inv => TypeOK
  BY DEF Inv
<1> QED  BY <1>1, Invariance, PTL

\* A submission with a retry limit gets at most one provider call more than
\* retries, for any number of servers, crashes and duplicates, and no claim is used
\* for two, although a worker may go on after its lease or its connection is gone.
THEOREM BudgetKept == Spec => []CallsWithinBudget
<1>1. Inv => CallsWithinBudget
  <2> SUFFICES ASSUME Inv, NEW m \in Msg, row[m].maxRetries >= 0
               PROVE  Cardinality(called[m]) <= row[m].maxRetries + 1
    BY DEF Inv, ClaimsExclusive, Holding, CallsWithinBudget
  <2>1. /\ minted[m] \in Nat /\ row[m].maxRetries \in Int
        /\ minted[m] <= row[m].maxRetries + 1
    <3>1. minted[m] \in Nat /\ row[m] \in Row
      BY DEF Inv, TypeOK
    <3>2. row[m].maxRetries \in Int
      BY <3>1 DEF Row
    <3>3. row[m].attempts = minted[m] /\ row[m].attempts <= row[m].maxRetries + 1
      BY DEF Inv, AttemptsCounted
    <3> QED  BY <3>1, <3>2, <3>3
  <2>2. called[m] \subseteq 1 .. minted[m]
    BY DEF Inv, CallsUnderTokens
  <2>3. IsFiniteSet(1 .. minted[m]) /\ Cardinality(1 .. minted[m]) = minted[m]
    <3>1. \A n \in Nat : IsFiniteSet(1 .. n) /\ Cardinality(1 .. n) = n
      <4> SUFFICES ASSUME NEW n \in Nat
                   PROVE  IsFiniteSet(1 .. n) /\ Cardinality(1 .. n) = n
        OBVIOUS
      <4>1. /\ IsFiniteSet(1 .. n)
            /\ Cardinality(1 .. n) = IF 1 > n THEN 0 ELSE n - 1 + 1
        BY FS_Interval
      <4> QED  BY <4>1
    <3> QED  BY <2>1, <3>1
  <2>4. Cardinality(called[m]) <= minted[m] /\ Cardinality(called[m]) \in Nat
    BY <2>2, <2>3, FS_Subset, FS_CardinalityType
  <2> QED  BY <2>1, <2>4
<1> QED  BY <1>1, Invariance, PTL

\* A row is declared dead only when its retries or its retry age are used up.
THEOREM GivenUpLast == Spec => []GivesUpOnlyWhenExhausted
<1>1. Inv => GivesUpOnlyWhenExhausted
  BY DEF Inv
<1> QED  BY <1>1, Invariance, PTL

\* No attempt is prepared before its row is due or from a claim read at or
\* after its deadline.
THEOREM AttemptsOnTime == Spec => []AttemptsInWindow
<1>1. Inv => AttemptsInWindow
  BY DEF Inv
<1> QED  BY <1>1, Invariance, PTL

\* Leases longer than the longest stall and the longest call together
\* exclude concurrent provider calls for a row.
THEOREM CallsExclusive == Spec => []OneCallAtATime
<1>1. Inv => OneCallAtATime
  <2> SUFFICES ASSUME Inv, MaxStall + AttemptTimeout < Lease,
                      NEW s \in Server, NEW t \in Server, s # t,
                      worker[s].pc = "calling", worker[t].pc = "calling",
                      worker[s].id = worker[t].id
               PROVE  FALSE
    BY DEF OneCallAtATime
  <2>1. /\ row[worker[s].id].token = worker[s].outbox.token
        /\ row[worker[t].id].token = worker[t].outbox.token
    BY DEF Inv, LeaseOutlivesCall
  <2> QED  BY <2>1 DEF Inv, ClaimsExclusive, Holding
<1> QED  BY <1>1, Invariance, PTL

-----------------------------------------------------------------------------
(* What a step may never do to a row. *)

\* The five ways in which a step of the system can change a row.
LEMMA RowChanges ==
  ASSUME Inv, [Next]_vars, NEW m \in Msg, row'[m] # row[m]
  PROVE  \/ /\ row[m].state = "none" /\ row'[m].state = "pending"
            /\ \E limit \in RetryLimits, delay \in ScheduleDelays :
                 row'[m] = SubmittedRow(limit, Now, delay, RetryMaxAge)
         \/ \E s \in Server : /\ Due(row[m], relay[s].clock)
                              /\ relay[s].clock \in Int /\ relay[s].clock <= 0
                              /\ row'[m] = Reserved(row[m], relay[s].clock, Interval)
         \/ \E s \in Server : /\ worker[s].clock \in Int /\ worker[s].clock <= 0
                              /\ row[m].state # "none"
                              /\ row'[m] = Claimed(row[m], worker[s].clock, Lease,
                                                   minted[m] + 1)
         \/ \E s \in Server : /\ worker[s].pc = "finish" /\ worker[s].id = m
                              /\ Matches(s)
                              /\ row'[m] = Completed(worker[s].outbox)
         \/ row'[m] = AgedRow(row[m])
<1> DEFINE Submitted ==
             /\ row[m].state = "none" /\ row'[m].state = "pending"
             /\ \E limit \in RetryLimits, delay \in ScheduleDelays :
                  row'[m] = SubmittedRow(limit, Now, delay, RetryMaxAge)
           ByRelay(s) == /\ Due(row[m], relay[s].clock)
                         /\ relay[s].clock \in Int /\ relay[s].clock <= 0
                         /\ row'[m] = Reserved(row[m], relay[s].clock, Interval)
           ByClaim(s) == /\ worker[s].clock \in Int /\ worker[s].clock <= 0
                         /\ row[m].state # "none"
                         /\ row'[m] = Claimed(row[m], worker[s].clock, Lease,
                                              minted[m] + 1)
           ByFinish(s) == /\ worker[s].pc = "finish" /\ worker[s].id = m
                          /\ Matches(s)
                          /\ row'[m] = Completed(worker[s].outbox)
<1>0. /\ row \in [Msg -> Row]
      /\ \A s \in Server : /\ worker[s].clock \in Int /\ worker[s].clock <= 0
                           /\ relay[s].clock \in Int /\ relay[s].clock <= 0
  BY DEF Inv, TypeOK, Worker, Relay, ClocksBounded
<1>1. ASSUME NEW n \in Msg, Accept(n) PROVE Submitted
  <2>1. PICK limit \in RetryLimits, delay \in ScheduleDelays :
          row' = [row EXCEPT ![n] = SubmittedRow(limit, Now, delay, RetryMaxAge)]
    BY <1>1 DEF Accept
  <2>2. n = m /\ row[n].state = "none"
    BY <1>0, <1>1, <2>1 DEF Accept
  <2>3. row'[m] = SubmittedRow(limit, Now, delay, RetryMaxAge)
    BY <1>0, <2>1, <2>2
  <2> QED  BY <2>2, <2>3 DEF SubmittedRow, AbsentRow
<1>2. ASSUME NEW s \in Server, relay[s].pc = "reserve", row' = ReservedRows(s)
      PROVE  ByRelay(s)
  <2>1. m \in relay[s].batch /\ row'[m] = Reserved(row[m], relay[s].clock, Interval)
    BY <1>2 DEF ReservedRows
  <2>2. Due(row[m], relay[s].clock)
    BY <1>2, <2>1 DEF Inv, SelectionHolds
  <2> QED  BY <1>0, <2>1, <2>2
<1>3. ASSUME NEW s \in Server, worker[s].pc = "txn", row' = ClaimedRows(s)
      PROVE  ByClaim(s)
  <2>1. worker[s].id \in Msg /\ row[worker[s].id].state # "none"
    BY <1>3 DEF Inv, SelectionHolds, Exists
  <2>2. worker[s].id = m
    BY <1>0, <1>3, <2>1 DEF ClaimedRows
  <2>3. row'[m] = Claimed(row[m], worker[s].clock, Lease, minted[m] + 1)
    BY <1>0, <1>3, <2>2 DEF ClaimedRows
  <2> QED  BY <1>0, <2>1, <2>2, <2>3
<1>4. ASSUME NEW s \in Server, worker[s].pc = "finish", row' = FinishedRows(s)
      PROVE  ByFinish(s)
  <2>1. Matches(s) /\ row' = [row EXCEPT ![worker[s].id] = Completed(worker[s].outbox)]
    BY <1>4 DEF FinishedRows
  <2>2. worker[s].id = m
    BY <1>0, <2>1
  <2> QED  BY <1>0, <1>4, <2>1, <2>2
<1>5. CASE Tick
  BY <1>5 DEF Tick
<1>6. ASSUME NEW s \in Server, RelayStep(s) PROVE ByRelay(s)
  <2>1. RelayCommit(s)
    BY <1>6 DEF RelayStep, RelayReadClock, RelayScan, RelayPublish, RelayStops
  <2> QED  BY <2>1, <1>2 DEF RelayCommit
<1>7. ASSUME NEW s \in Server, WorkerStep(s) PROVE ByClaim(s) \/ ByFinish(s)
  <2>1. ClaimCommit(s) \/ Finish(s)
    BY <1>7 DEF WorkerStep, Receive, Admit, ClaimLock, ClaimUnknown,
         ClaimCollides, SkipCall, StartCall, CallAccepted, CallRefused, Settle,
         WorkerStops
  <2> QED  BY <2>1, <1>3, <1>4 DEF ClaimCommit, Finish
<1>8. ASSUME NEW s \in Server, FaultyStep(s)
      PROVE  ByRelay(s) \/ ByClaim(s) \/ ByFinish(s)
  <2>1. \/ relay[s].pc = "reserve" /\ row' = ReservedRows(s)
        \/ worker[s].pc = "txn" /\ row' = ClaimedRows(s)
        \/ worker[s].pc = "finish" /\ row' = FinishedRows(s)
    BY <1>8 DEF FaultyStep, RelayReserveFails, RelayPublishFails, ClaimFails,
         FinishFails, ConnectionLost, BeginShutdown, Crash, Restart
  <2> QED  BY <2>1, <1>2, <1>3, <1>4
<1>9. ASSUME NEW s \in Server, Redeploy(s) PROVE FALSE
  BY <1>9 DEF Redeploy, Restart
<1>10. ASSUME NEW i \in Id, Inject(i) PROVE FALSE
  BY <1>10 DEF Inject
<1>11. Next
  BY DEF vars
<1> HIDE DEF Submitted, ByRelay, ByClaim, ByFinish
<1>12. \/ Submitted
       \/ \E s \in Server : ByRelay(s) \/ ByClaim(s) \/ ByFinish(s)
       \/ Tick
  BY <1>1, <1>6, <1>7, <1>8, <1>9, <1>10, <1>11 DEF Next
<1> QED  BY <1>5, <1>12 DEF Submitted, ByRelay, ByClaim, ByFinish

\* The row operators seen from the row they are applied to: none brings a
\* terminal row back, and none but a completion makes a row sent.
LEMMA RowMoves ==
  ASSUME Inv, [Next]_vars, NEW m \in Msg
  PROVE  /\ row[m].state \in Terminal => row'[m].state = row[m].state
         /\ row'[m].state = "sent" => row[m].state = "sent" \/ row[m].token \in confirmed[m]
         /\ row[m].token # NoToken /\ row'[m].token # row[m].token =>
              \/ row[m].leaseUntil <= 0
              \/ \E s \in Server : /\ worker[s].pc = "finish" /\ worker[s].id = m
                                   /\ worker[s].outbox.token = row[m].token
<1> DEFINE Final == row[m].state \in Terminal => row'[m].state = row[m].state
           Won == row'[m].state = "sent" =>
                    row[m].state = "sent" \/ row[m].token \in confirmed[m]
           Kept == row[m].token # NoToken /\ row'[m].token # row[m].token =>
                     \/ row[m].leaseUntil <= 0
                     \/ \E s \in Server :
                          /\ worker[s].pc = "finish" /\ worker[s].id = m
                          /\ worker[s].outbox.token = row[m].token
           Good == Final /\ Won /\ Kept
<1>0. /\ row[m] \in Row /\ minted[m] \in Nat
      /\ row[m].state = "sending" <=> row[m].token # NoToken
      /\ row[m].state = "none" => row[m].token = NoToken
      /\ row[m].leaseUntil \in Time
  BY DEF Inv, TypeOK, LeaseShape, Row
<1>1. CASE row'[m] = row[m]
  BY <1>1
<1>2. CASE row[m].state = "none" /\ row'[m].state = "pending"
  BY <1>0, <1>2 DEF Terminal
<1>3. ASSUME NEW s \in Server, Due(row[m], relay[s].clock),
             relay[s].clock \in Int, relay[s].clock <= 0,
             row'[m] = Reserved(row[m], relay[s].clock, Interval)
      PROVE  Good
  <2>1. row'[m].state \in {"pending", "failed", "dead"}
    BY <1>0, <1>3, ReservedFacts
  <2>2. row[m].state \notin Terminal
    BY <1>3 DEF Due, Terminal
  <2>3. row[m].state = "sending" => row[m].leaseUntil # NoTime
    BY DEF Inv, LeaseShape
  <2>4. row[m].token # NoToken => row[m].leaseUntil <= 0
    <3>1. row[m].leaseUntil # NoTime => row[m].leaseUntil \in Int
      BY <1>0 DEF Time
    <3> QED  BY <1>0, <1>3, <2>3, <3>1 DEF Due, Reached
  <2> QED  BY <2>1, <2>2, <2>4
<1>4. ASSUME NEW s \in Server, worker[s].clock \in Int, worker[s].clock <= 0,
             row[m].state # "none",
             row'[m] = Claimed(row[m], worker[s].clock, Lease, minted[m] + 1)
      PROVE  Good
  <2>1. CASE NotClaimable(row[m], worker[s].clock)
    <3>1. row'[m] = row[m]
      BY <1>4, <2>1 DEF Claimed, Grants
    <3> QED  BY <3>1
  <2>2. CASE ~NotClaimable(row[m], worker[s].clock)
    <3>1. row[m].state \in {"pending", "failed"}
      BY <2>2 DEF NotClaimable
    <3>2. row'[m].state \in {"sending", "dead"}
      <4>1. \A r \in Row, now \in Int, token \in Nat :
              ~NotClaimable(r, now) =>
                Claimed(r, now, Lease, token).state \in {"sending", "dead"}
        <5> SUFFICES ASSUME NEW r \in Row, NEW now \in Int, NEW token \in Nat,
                            ~NotClaimable(r, now)
                     PROVE  Claimed(r, now, Lease, token).state \in {"sending", "dead"}
          OBVIOUS
        <5>1. Leased(r, now, Lease, token).state = "sending"
          BY DEF Leased, Row
        <5>2. MakeDead(r).state = "dead"
          BY DEF MakeDead, Row
        <5> QED  BY <5>1, <5>2 DEF Claimed
      <4>2. minted[m] + 1 \in Nat
        BY <1>0
      <4> QED  BY <1>0, <1>4, <2>2, <4>1, <4>2
    <3> QED  BY <1>0, <3>1, <3>2 DEF Terminal
  <2> QED  BY <2>1, <2>2
<1>5. ASSUME NEW s \in Server, worker[s].pc = "finish", worker[s].id = m,
             Matches(s), row'[m] = Completed(worker[s].outbox)
      PROVE  Good
  <2>1. row[m].state = "sending" /\ row[m].token = worker[s].outbox.token
    BY <1>5 DEF Matches, StillLeased
  <2>2. worker[s].outbox.state = "sent" => worker[s].outbox.token \in confirmed[m]
    BY <1>5 DEF Inv, CopyFaithful, Holding
  <2>3. row'[m].state = worker[s].outbox.state
    BY <1>5, CompletedFacts DEF Inv, TypeOK, Worker
  <2> QED  BY <1>5, <2>1, <2>2, <2>3 DEF Terminal
<1>6. CASE row'[m] = AgedRow(row[m])
  BY <1>0, <1>6, AgedRowFacts
<1> HIDE DEF Good
<1>7. Good
  BY <1>1, <1>2, <1>3, <1>4, <1>5, <1>6, RowChanges DEF Good
<1> QED  BY <1>7 DEF Good

\* Sent and dead rows stay as they are, whoever comes late.
THEOREM TerminalKept == Spec => TerminalIsFinal
<1>1. Inv /\ [Next]_vars =>
        [\A m \in Msg : row[m].state \in Terminal =>
                          row'[m].state = row[m].state]_vars
  BY RowMoves
<1> QED  BY <1>1, Invariance, PTL DEF Spec, TerminalIsFinal

\* A row is recorded as sent only for the attempt the provider took.
THEOREM SuccessIsGenuine == Spec => SentUnderWinningClaim
<1>1. Inv /\ [Next]_vars =>
        [\A m \in Msg : row[m].state # "sent" /\ row'[m].state = "sent" =>
                          row[m].token \in confirmed[m]]_vars
  BY RowMoves
<1> QED  BY <1>1, Invariance, PTL DEF Spec, SentUnderWinningClaim

\* A lease keeps everybody but its holder away until it runs out.
THEOREM LeasesRespected == Spec => LeaseProtects
<1>1. Inv /\ [Next]_vars =>
        [\A m \in Msg :
           row[m].token # NoToken /\ row'[m].token # row[m].token =>
             \/ row[m].leaseUntil <= 0
             \/ \E s \in Server : /\ worker[s].pc = "finish" /\ worker[s].id = m
                                  /\ worker[s].outbox.token = row[m].token]_vars
  BY RowMoves
<1> QED  BY <1>1, Invariance, PTL DEF Spec, LeaseProtects

-----------------------------------------------------------------------------
(* How long a row can be out of the relay's sight. *)

\* A timestamp at most one of the waits ahead.
Within(t) == t = NoTime \/ \E d \in Waits : t <= d

\* Leases, dispatches and retries are within the waits, and so is the retry that a
\* worker is about to write from its copy.
WaitsBounded ==
  /\ \A m \in Msg : /\ Within(row[m].leaseUntil)
                     /\ Within(row[m].dispatchAfter)
                     /\ Within(row[m].nextRetryAt)
  /\ \A s \in Server :
       worker[s].pc = "finish" /\ worker[s].outbox.state = "failed" =>
         Within(worker[s].outbox.nextRetryAt)

\* The waits are natural numbers, and there is one.
LEMMA WaitsAreNat == Waits \subseteq Nat /\ Lease \in Waits /\ Interval \in Waits
BY DelayAssumption, BoundAssumption DEF Waits

\* A timestamp that has been reached, or is one of the waits ahead, is within them.
LEMMA WithinFacts ==
  /\ Within(NoTime)
  /\ \A t \in Int, d \in Waits : t <= d => Within(t)
  /\ \A t \in Time : Within(t) => Aged(t) \in Time /\ Within(Aged(t))
<1>1. ASSUME NEW t \in Time, Within(t), t # NoTime PROVE Within(Aged(t))
  <2>1. PICK d \in Waits : t <= d
    BY <1>1 DEF Within
  <2>2. d \in Int /\ t \in Int /\ Aged(t) \in Int /\ Aged(t) <= t
    BY <1>1, WaitsAreNat, BoundAssumption DEF Time, Aged
  <2>3. Aged(t) <= d
    BY <2>1, <2>2
  <2> QED  BY <2>3 DEF Within
<1>2. Aged(NoTime) = NoTime
  BY DEF Aged
<1> QED  BY <1>1, <1>2, AgedTimes DEF Within

\* A row whose timestamps are within the waits is due after one of them.
LEMMA WithinIsDue ==
  ASSUME NEW r \in Row, r.state \in {"pending", "failed", "sending"},
         Within(r.leaseUntil), Within(r.dispatchAfter), Within(r.nextRetryAt)
  PROVE  \E d \in Waits : Due(r, d)
<1>0. /\ r.leaseUntil \in Time /\ r.dispatchAfter \in Time /\ r.nextRetryAt \in Time
      /\ Waits \subseteq Int
  BY WaitsAreNat DEF Row
<1>1. \A t \in Time : Within(t) => \E d \in Waits : Reached(t, d)
  BY WaitsAreNat DEF Within, Reached
<1>2. CASE r.state = "sending"
  BY <1>0, <1>1, <1>2 DEF Due
<1>3. CASE r.state # "sending"
  <2>1. PICK d \in Waits : Reached(r.nextRetryAt, d)
    BY <1>0, <1>1
  <2>2. PICK e \in Waits : Reached(r.dispatchAfter, e)
    BY <1>0, <1>1
  <2>3. CASE d <= e
    <3>1. Reached(r.nextRetryAt, e)
      BY <1>0, <2>1, <2>3 DEF Reached, Time
    <3> QED  BY <1>3, <2>2, <3>1 DEF Due
  <2>4. CASE e <= d
    <3>1. Reached(r.dispatchAfter, d)
      BY <1>0, <2>2, <2>4 DEF Reached, Time
    <3> QED  BY <1>3, <2>1, <3>1 DEF Due
  <2> QED  BY <1>0, <2>3, <2>4
<1> QED  BY <1>2, <1>3

\* No step puts a row off beyond the waits.
LEMMA RowWaits ==
  ASSUME Inv, WaitsBounded, [Next]_vars, NEW m \in Msg
  PROVE  /\ Within(row'[m].leaseUntil) /\ Within(row'[m].dispatchAfter)
         /\ Within(row'[m].nextRetryAt)
<1> DEFINE Fine(r) == /\ Within(r.leaseUntil) /\ Within(r.dispatchAfter)
                      /\ Within(r.nextRetryAt)
<1>0. /\ row[m] \in Row /\ Fine(row[m])
      /\ Lease \in Nat /\ Interval \in Nat /\ Waits \subseteq Nat
  BY WaitsAreNat, BoundAssumption DEF Inv, TypeOK, WaitsBounded
<1>1. ASSUME NEW limit \in RetryLimits, NEW delay \in ScheduleDelays,
             row'[m] = SubmittedRow(limit, Now, delay, RetryMaxAge)
      PROVE  Fine(row'[m])
  <2>1. delay \in Waits /\ delay \in Nat
    BY DelayAssumption DEF Waits
  <2>2. /\ row'[m].leaseUntil = NoTime /\ row'[m].dispatchAfter = NoTime
        /\ row'[m].nextRetryAt \in {NoTime, Now + delay}
    BY <1>1 DEF SubmittedRow, AbsentRow
  <2>3. Now + delay \in Int /\ Now + delay <= delay
    BY <2>1 DEF Now
  <2>4. Within(Now + delay)
    BY <2>1, <2>3, WithinFacts
  <2> QED  BY <2>2, <2>4, WithinFacts
<1>2. ASSUME NEW now \in Int, now <= 0, row'[m] = Reserved(row[m], now, Interval)
      PROVE  Fine(row'[m])
  <2>1. Within(now) /\ Within(now + Interval)
    <3>1. now <= Interval /\ now + Interval <= Interval /\ now + Interval \in Int
      BY <1>0, <1>2
    <3> QED  BY <1>2, <3>1, WaitsAreNat, WithinFacts
  <2>2. CASE Exhausted(row[m], now)
    <3>1. /\ row'[m].leaseUntil = NoTime /\ row'[m].dispatchAfter = NoTime
          /\ row'[m].nextRetryAt = NoTime
      BY <1>0, <1>2, <2>2 DEF Reserved, MakeDead, Row
    <3> QED  BY <3>1, WithinFacts
  <2>3. CASE ~Exhausted(row[m], now)
    <3>1. /\ row'[m].leaseUntil \in {NoTime, row[m].leaseUntil}
          /\ row'[m].dispatchAfter = now + Interval
          /\ row'[m].nextRetryAt \in {now, row[m].nextRetryAt}
      <4> DEFINE q == IF row[m].state = "sending" THEN Recovered(row[m], now) ELSE row[m]
      <4>1. row'[m] = [q EXCEPT !.dispatchAfter = now + Interval]
        BY <1>2, <2>3 DEF Reserved
      <4>2. /\ q.leaseUntil \in {NoTime, row[m].leaseUntil}
            /\ q.nextRetryAt \in {now, row[m].nextRetryAt}
            /\ DOMAIN q = DOMAIN row[m]
        BY <1>0 DEF Recovered, Row
      <4>3. q = [f \in DOMAIN row[m] |-> q[f]]
        BY <1>0 DEF Recovered, Row
      <4> HIDE DEF q
      <4> QED  BY <1>0, <4>1, <4>2, <4>3 DEF Row
    <3> QED  BY <1>0, <2>1, <3>1, WithinFacts
  <2> QED  BY <2>2, <2>3
<1>3. ASSUME NEW now \in Int, now <= 0,
             row'[m] = Claimed(row[m], now, Lease, minted[m] + 1)
      PROVE  Fine(row'[m])
  <2>1. Within(now + Lease)
    <3>1. now + Lease \in Int /\ now + Lease <= Lease
      BY <1>0, <1>3
    <3> QED  BY <3>1, WaitsAreNat, WithinFacts
  <2>2. CASE NotClaimable(row[m], now)
    BY <1>0, <1>3, <2>2 DEF Claimed, Grants
  <2>3. CASE Grants(row[m], now)
    <3>1. row'[m] = Leased(row[m], now, Lease, minted[m] + 1)
      BY <1>3, <2>3 DEF Claimed, Grants
    <3>2. /\ row'[m].leaseUntil = now + Lease
          /\ row'[m].dispatchAfter = row[m].dispatchAfter
          /\ row'[m].nextRetryAt = row[m].nextRetryAt
      BY <1>0, <3>1 DEF Leased, Row
    <3> QED  BY <1>0, <2>1, <3>2
  <2>4. CASE ~NotClaimable(row[m], now) /\ ~Grants(row[m], now)
    <3>1. /\ row'[m].leaseUntil = NoTime /\ row'[m].dispatchAfter = NoTime
          /\ row'[m].nextRetryAt = NoTime
      BY <1>0, <1>3, <2>4 DEF Claimed, MakeDead, Row
    <3> QED  BY <3>1, WithinFacts
  <2> QED  BY <2>2, <2>3, <2>4
<1>4. ASSUME NEW s \in Server, worker[s].pc = "finish", row'[m] = Completed(worker[s].outbox)
      PROVE  Fine(row'[m])
  <2>1. worker[s].outbox \in Row
    BY DEF Inv, TypeOK, Worker
  <2>2. /\ row'[m].leaseUntil = NoTime /\ row'[m].dispatchAfter = NoTime
        /\ row'[m].nextRetryAt = IF worker[s].outbox.state = "failed"
                                 THEN worker[s].outbox.nextRetryAt ELSE NoTime
    BY <1>4, <2>1 DEF Completed, Row
  <2>3. worker[s].outbox.state = "failed" => Within(worker[s].outbox.nextRetryAt)
    BY <1>4 DEF WaitsBounded
  <2> QED  BY <2>2, <2>3, WithinFacts
<1>5. ASSUME row'[m] = AgedRow(row[m]) PROVE Fine(row'[m])
  <2>1. /\ row[m].leaseUntil \in Time /\ row[m].dispatchAfter \in Time
        /\ row[m].nextRetryAt \in Time
    BY <1>0 DEF Row
  <2> QED  BY <1>0, <1>5, <2>1, AgedRowFacts, WithinFacts
<1>6. ASSUME row'[m] = row[m] PROVE Fine(row'[m])
  BY <1>0, <1>6
<1> HIDE DEF Fine
<1>7. Fine(row'[m])
  <2> DEFINE Submits == \E limit \in RetryLimits, delay \in ScheduleDelays :
                          row'[m] = SubmittedRow(limit, Now, delay, RetryMaxAge)
             Reserves == \E now \in Int :
                           now <= 0 /\ row'[m] = Reserved(row[m], now, Interval)
             Claims == \E now \in Int :
                         now <= 0 /\ row'[m] = Claimed(row[m], now, Lease, minted[m] + 1)
             Finishes == \E s \in Server : /\ worker[s].pc = "finish"
                                          /\ row'[m] = Completed(worker[s].outbox)
  <2>1. \/ row'[m] = row[m] \/ row'[m] = AgedRow(row[m])
        \/ Submits \/ Reserves \/ Claims \/ Finishes
    BY RowChanges
  <2>2. Submits => Fine(row'[m])
    BY <1>1
  <2>3. Reserves => Fine(row'[m])
    BY <1>2
  <2>4. Claims => Fine(row'[m])
    BY <1>3
  <2>5. Finishes => Fine(row'[m])
    BY <1>4
  <2> HIDE DEF Submits, Reserves, Claims, Finishes
  <2> QED  BY <1>5, <1>6, <2>1, <2>2, <2>3, <2>4, <2>5
<1> QED  BY <1>7 DEF Fine

\* A worker that is to write a failure waits for a backoff counted from the end of its
\* attempt, and that time runs while it waits for its turn.
LEMMA CopyWaits ==
  ASSUME Inv, WaitsBounded, [Next]_vars, NEW s \in Server,
         worker'[s].pc = "finish", worker'[s].outbox.state = "failed"
  PROVE  Within(worker'[s].outbox.nextRetryAt)
<1>0. worker \in [Server -> Worker] /\ worker[s] \in Worker /\ worker[s].outbox \in Row
  BY DEF Inv, TypeOK, Worker
<1>1. CASE worker'[s] = worker[s]
  BY <1>1 DEF WaitsBounded
<1>2. ASSUME NEW e \in RowError, NEW d \in BackoffDelays,
             ToFinish(s, Failed(worker[s].outbox, Now, d, e))
      PROVE  Within(worker'[s].outbox.nextRetryAt)
  <2>1. worker'[s].outbox = Failed(worker[s].outbox, Now, d, e)
    BY <1>0, <1>2 DEF ToFinish, Worker
  <2>2. worker'[s].outbox.nextRetryAt = Now + d
    BY <1>0, <2>1 DEF Failed, Row
  <2>3. d \in Waits /\ Now + d \in Int /\ Now + d <= d
    BY DelayAssumption DEF Waits, Now
  <2> QED  BY <2>2, <2>3, WithinFacts
<1>3. CASE ToFinish(s, Succeeded(worker[s].outbox))
  <2>1. worker'[s].outbox.state = "sent"
    BY <1>0, <1>3 DEF ToFinish, Succeeded, Worker, Row
  <2> QED  BY <2>1
<1>4. CASE Tick
  <2>1. \/ worker'[s] = worker[s]
        \/ worker'[s] = [worker[s] EXCEPT !.clock = @ - 1, !.outbox = AgedRow(@)]
    BY <1>4 DEF Tick
  <2>2. CASE worker'[s] = [worker[s] EXCEPT !.clock = @ - 1, !.outbox = AgedRow(@)]
    <3>1. worker'[s].pc = worker[s].pc /\ worker'[s].outbox = AgedRow(worker[s].outbox)
      BY <1>0, <2>2 DEF Worker
    <3>2. /\ worker[s].outbox.state = "failed"
          /\ worker'[s].outbox.nextRetryAt = Aged(worker[s].outbox.nextRetryAt)
          /\ worker[s].outbox.nextRetryAt \in Time
      BY <1>0, <3>1, AgedRowFacts DEF Row
    <3>3. Within(worker[s].outbox.nextRetryAt)
      BY <3>1, <3>2 DEF WaitsBounded
    <3> QED  BY <3>2, <3>3, WithinFacts
  <2> QED  BY <1>1, <2>1, <2>2
<1>5. ASSUME NEW t \in Server, WorkerStep(t), t = s PROVE Within(worker'[s].outbox.nextRetryAt)
  <2>1. "invalid" \in RowError /\ "provider" \in RowError
    BY DEF RowError
  <2>2. CASE SkipCall(s)
    BY <1>2, <2>1, <2>2 DEF SkipCall
  <2>3. CASE CallAccepted(s)
    BY <1>2, <1>3, <2>1, <2>3 DEF CallAccepted
  <2>4. CASE CallRefused(s)
    BY <1>2, <2>1, <2>4 DEF CallRefused
  <2>5. CASE ~(SkipCall(s) \/ CallAccepted(s) \/ CallRefused(s))
    <3>1. ASSUME NEW verdict, ToSettle(s, verdict) PROVE worker'[s].pc # "finish"
      BY <1>0, <3>1 DEF ToSettle, IdleWorker
    <3>2. CASE Receive(s) \/ Settle(s)
      <4>1. CASE Receive(s)
        <5>1. PICK i \in Id :
                worker' = [worker EXCEPT ![s] =
                             [IdleWorker EXCEPT !.pc = "got", !.id = i, !.held = TRUE]]
          BY <4>1 DEF Receive
        <5> QED  BY <1>0, <5>1 DEF IdleWorker
      <4>2. CASE Settle(s)
        BY <1>0, <4>2 DEF Settle, IdleWorker
      <4> QED  BY <3>2, <4>1, <4>2
    <3>3. CASE Admit(s)
      BY <1>0, <3>1, <3>3 DEF Admit, Worker
    <3>4. CASE ClaimLock(s) \/ StartCall(s) \/ WorkerStops(s)
      BY <1>0, <3>4 DEF ClaimLock, StartCall, WorkerStops, Worker
    <3>5. CASE ClaimUnknown(s) \/ ClaimCollides(s) \/ Finish(s)
      BY <3>1, <3>5 DEF ClaimUnknown, ClaimCollides, Finish
    <3>6. CASE ClaimCommit(s)
      <4>1. CASE Grants(row[worker[s].id], worker[s].clock)
        BY <1>0, <3>6, <4>1 DEF ClaimCommit, Worker
      <4>2. CASE ~Grants(row[worker[s].id], worker[s].clock)
        BY <3>1, <3>6, <4>2 DEF ClaimCommit
      <4> QED  BY <4>1, <4>2
    <3> QED  BY <1>5, <2>5, <3>2, <3>3, <3>4, <3>5, <3>6 DEF WorkerStep
  <2> QED  BY <2>2, <2>3, <2>4, <2>5
<1>6. ASSUME NEW t \in Server, WorkerStep(t), t # s PROVE worker'[s] = worker[s]
  BY <1>0, <1>6 DEF WorkerStep, Receive, Admit, ClaimLock, ClaimUnknown, ClaimCollides,
     ClaimCommit, SkipCall, StartCall, CallAccepted, CallRefused, Finish, Settle,
     WorkerStops, ToSettle, ToFinish
<1>7. ASSUME NEW t \in Server, FaultyStep(t) \/ Redeploy(t)
      PROVE  \/ worker'[s] = worker[s]
             \/ worker'[s].pc # "finish"
             \/ worker'[s].pc = worker[s].pc /\ worker'[s].outbox = worker[s].outbox
  <2>1. ASSUME NEW verdict, ToSettle(t, verdict)
        PROVE  worker'[s] = worker[s] \/ worker'[s].pc # "finish"
    BY <1>0, <2>1 DEF ToSettle, IdleWorker
  <2>2. CASE ClaimFails(t) \/ FinishFails(t)
    BY <2>1, <2>2 DEF ClaimFails, FinishFails
  <2>3. CASE RelayReserveFails(t) \/ RelayPublishFails(t) \/ BeginShutdown(t)
    BY <2>3 DEF RelayReserveFails, RelayPublishFails, BeginShutdown, RelayUnchanged
  <2>4. CASE ConnectionLost(t)
    BY <1>0, <2>4 DEF ConnectionLost, Worker
  <2>5. CASE Crash(t) \/ Redeploy(t)
    BY <1>0, <2>5 DEF Crash, Redeploy, Restart, IdleWorker
  <2> QED  BY <1>7, <2>2, <2>3, <2>4, <2>5 DEF FaultyStep
<1>8. ASSUME NEW t \in Server, RelayStep(t) PROVE worker'[s] = worker[s]
  BY <1>8 DEF RelayStep, RelayReadClock, RelayScan, RelayCommit, RelayPublish, RelayStops,
     RelayUnchanged
<1>9. CASE UNCHANGED vars
  BY <1>1, <1>9 DEF vars
<1>10. ASSUME \/ \E m \in Msg : Accept(m)
              \/ \E i \in Id : Inject(i)
       PROVE  worker'[s] = worker[s]
  BY <1>10 DEF Accept, Inject
<1>11. CASE worker'[s].pc = worker[s].pc /\ worker'[s].outbox = worker[s].outbox
  BY <1>11 DEF WaitsBounded
<1>12. \/ \E m \in Msg : Accept(m)
       \/ \E i \in Id : Inject(i)
       \/ \E t \in Server : RelayStep(t) \/ WorkerStep(t) \/ FaultyStep(t) \/ Redeploy(t)
       \/ Tick
       \/ UNCHANGED vars
  BY DEF Next
<1> QED  BY <1>1, <1>4, <1>5, <1>6, <1>7, <1>8, <1>9, <1>10, <1>11, <1>12

\* Whatever servers die, answers are lost and old copies are written, an unfinished row
\* comes up for the relay within its schedule, a backoff, a lease or an interval.
THEOREM RowsComeUp == Spec => []NoneForgotten
<1>1. Init => WaitsBounded
  <2> SUFFICES ASSUME Init PROVE WaitsBounded
    OBVIOUS
  <2>1. \A m \in Msg : row[m] = AbsentRow
    BY DEF Init
  <2>2. \A s \in Server : worker[s].pc # "finish"
    BY DEF Init, IdleWorker
  <2> QED  BY <2>1, <2>2, WithinFacts DEF WaitsBounded, AbsentRow
<1>2. Inv /\ WaitsBounded /\ [Next]_vars => WaitsBounded'
  <2> SUFFICES ASSUME Inv, WaitsBounded, [Next]_vars PROVE WaitsBounded'
    OBVIOUS
  <2>1. \A m \in Msg : /\ Within(row'[m].leaseUntil) /\ Within(row'[m].dispatchAfter)
                       /\ Within(row'[m].nextRetryAt)
    BY RowWaits
  <2>2. \A s \in Server :
          worker'[s].pc = "finish" /\ worker'[s].outbox.state = "failed" =>
            Within(worker'[s].outbox.nextRetryAt)
    BY CopyWaits
  <2> QED  BY <2>1, <2>2 DEF WaitsBounded, Within
<1>3. Inv /\ WaitsBounded => NoneForgotten
  <2> SUFFICES ASSUME Inv, WaitsBounded, NEW m \in Msg,
                      row[m].state \in {"pending", "failed", "sending"}
               PROVE  \E d \in Waits : Due(row[m], d)
    BY DEF NoneForgotten
  <2>1. row[m] \in Row
    BY DEF Inv, TypeOK
  <2> QED  BY <2>1, WithinIsDue DEF WaitsBounded
<1> QED  BY <1>1, <1>2, <1>3, Invariance, PTL DEF Spec
=============================================================================
