--------------------------- MODULE PromiseProofs ---------------------------
(***************************************************************************)
(* The proof that Delivery implements OutboxPromise for every message.     *)
(***************************************************************************)
EXTENDS DeliveryProofs, DeliveryPromise

\* The ways in which a step concerns the message m.
Untouched(m) ==
  row'[m] = row[m] /\ minted'[m] = minted[m] /\ confirmed'[m] = confirmed[m]

BySubmission(m) ==
  /\ row[m].state = "none"
  /\ \E limit \in RetryLimits, delay \in ScheduleDelays :
       row'[m] = SubmittedRow(limit, Now, delay, RetryMaxAge)
  /\ minted'[m] = minted[m] /\ confirmed'[m] = confirmed[m]

ByRelay(m, s) ==
  /\ relay[s].clock \in Int /\ relay[s].clock <= 0
  /\ Due(row[m], relay[s].clock)
  /\ row'[m] = Reserved(row[m], relay[s].clock, Interval)
  /\ minted'[m] = minted[m] /\ confirmed'[m] = confirmed[m]

ByClaim(m, s) ==
  /\ worker[s].clock \in Int /\ worker[s].clock <= 0
  /\ row[m].state # "none"
  /\ row'[m] = Claimed(row[m], worker[s].clock, Lease, minted[m] + 1)
  /\ minted'[m] = IF Grants(row[m], worker[s].clock)
                  THEN minted[m] + 1 ELSE minted[m]
  /\ confirmed'[m] = confirmed[m]

ByProvider(m, s) ==
  /\ worker[s].pc = "calling" /\ worker[s].id = m
  /\ confirmed'[m] = confirmed[m] \cup {worker[s].outbox.token}
  /\ row'[m] = row[m] /\ minted'[m] = minted[m]

ByFinish(m, s) ==
  /\ worker[s].pc = "finish" /\ worker[s].id = m /\ Matches(s)
  /\ row'[m] = Completed(worker[s].outbox)
  /\ minted'[m] = minted[m] /\ confirmed'[m] = confirmed[m]

ByTime(m) ==
  /\ Tick
  /\ row'[m] = AgedRow(row[m])
  /\ minted'[m] = minted[m] /\ confirmed'[m] = confirmed[m]

Story(m) ==
  \/ Untouched(m) \/ BySubmission(m) \/ ByTime(m)
  \/ \E s \in Server :
       ByRelay(m, s) \/ ByClaim(m, s) \/ ByProvider(m, s) \/ ByFinish(m, s)

\* Every step of the system is one of these for every message.
LEMMA EveryStep ==
  ASSUME Inv, [Next]_vars, NEW m \in Msg
  PROVE  Story(m)
<1>0. /\ row \in [Msg -> Row] /\ minted \in [Msg -> Nat]
      /\ confirmed \in [Msg -> SUBSET Nat]
      /\ \A s \in Server : /\ worker[s].clock \in Int /\ worker[s].clock <= 0
                           /\ relay[s].clock \in Int /\ relay[s].clock <= 0
  BY DEF Inv, TypeOK, Worker, Relay, ClocksBounded
<1>1. ASSUME NEW n \in Msg, Accept(n) PROVE Untouched(m) \/ BySubmission(m)
  <2>1. PICK limit \in RetryLimits, delay \in ScheduleDelays :
          row' = [row EXCEPT ![n] = SubmittedRow(limit, Now, delay, RetryMaxAge)]
    BY <1>1 DEF Accept
  <2>2. row[n].state = "none" /\ minted' = minted /\ confirmed' = confirmed
    BY <1>1 DEF Accept
  <2>3. CASE n = m
    <3>1. row'[m] = SubmittedRow(limit, Now, delay, RetryMaxAge)
      BY <1>0, <2>1, <2>3
    <3> QED  BY <2>2, <2>3, <3>1 DEF BySubmission
  <2>4. CASE n # m
    BY <1>0, <2>1, <2>2, <2>4 DEF Untouched
  <2> QED  BY <2>3, <2>4
<1>2. ASSUME NEW s \in Server, relay[s].pc = "reserve", row' = ReservedRows(s),
             UNCHANGED <<minted, confirmed>>
      PROVE  Untouched(m) \/ ByRelay(m, s)
  <2>1. CASE m \in relay[s].batch
    <3>1. row'[m] = Reserved(row[m], relay[s].clock, Interval)
      BY <1>2, <2>1 DEF ReservedRows
    <3>2. Due(row[m], relay[s].clock)
      BY <1>2, <2>1 DEF Inv, SelectionHolds
    <3> QED  BY <1>0, <1>2, <3>1, <3>2 DEF ByRelay
  <2>2. CASE m \notin relay[s].batch
    BY <1>2, <2>2 DEF ReservedRows, Untouched
  <2> QED  BY <2>1, <2>2
<1>3. ASSUME NEW s \in Server, worker[s].pc = "txn", row' = ClaimedRows(s),
             confirmed' = confirmed,
             minted' = IF Grants(row[worker[s].id], worker[s].clock)
                       THEN [minted EXCEPT ![worker[s].id] = @ + 1] ELSE minted
      PROVE  Untouched(m) \/ ByClaim(m, s)
  <2>1. worker[s].id \in Msg /\ row[worker[s].id].state # "none"
    BY <1>3 DEF Inv, SelectionHolds, Exists
  <2>2. CASE worker[s].id = m
    <3>1. row'[m] = Claimed(row[m], worker[s].clock, Lease, minted[m] + 1)
      BY <1>0, <1>3, <2>2 DEF ClaimedRows
    <3>2. minted'[m] = IF Grants(row[m], worker[s].clock)
                       THEN minted[m] + 1 ELSE minted[m]
      BY <1>0, <1>3, <2>2
    <3> QED  BY <1>0, <1>3, <2>1, <2>2, <3>1, <3>2 DEF ByClaim
  <2>3. CASE worker[s].id # m
    BY <1>0, <1>3, <2>3 DEF ClaimedRows, Untouched
  <2> QED  BY <2>2, <2>3
<1>4. ASSUME NEW s \in Server, worker[s].pc = "finish", row' = FinishedRows(s),
             UNCHANGED <<minted, confirmed>>
      PROVE  Untouched(m) \/ ByFinish(m, s)
  <2>1. CASE Matches(s) /\ worker[s].id = m
    <3>1. row'[m] = Completed(worker[s].outbox)
      BY <1>0, <1>4, <2>1 DEF FinishedRows
    <3> QED  BY <1>4, <2>1, <3>1 DEF ByFinish
  <2>2. CASE ~(Matches(s) /\ worker[s].id = m)
    BY <1>0, <1>4, <2>2 DEF FinishedRows, Untouched
  <2> QED  BY <2>1, <2>2
<1>5. ASSUME NEW s \in Server, CallAccepted(s)
      PROVE  Untouched(m) \/ ByProvider(m, s)
  <2>1. /\ worker[s].pc = "calling" /\ row' = row /\ minted' = minted
        /\ confirmed' = [confirmed EXCEPT ![worker[s].id] =
                           @ \cup {worker[s].outbox.token}]
    BY <1>5 DEF CallAccepted
  <2>2. CASE worker[s].id = m
    BY <1>0, <2>1, <2>2 DEF ByProvider
  <2>3. CASE worker[s].id # m
    BY <1>0, <2>1, <2>3 DEF Untouched
  <2> QED  BY <2>2, <2>3
<1>6. ASSUME Tick PROVE ByTime(m)
  BY <1>6 DEF Tick, ByTime
<1>7. ASSUME NEW s \in Server, RelayStep(s)
      PROVE  Untouched(m) \/ ByRelay(m, s)
  <2>1. CASE RelayCommit(s)
    BY <1>2, <2>1 DEF RelayCommit, RelayUnchanged
  <2>2. CASE ~RelayCommit(s)
    BY <1>7, <2>2 DEF RelayStep, RelayReadClock, RelayScan, RelayPublish,
         RelayStops, RelayUnchanged, Untouched
  <2> QED  BY <2>1, <2>2
<1>8. ASSUME NEW s \in Server, WorkerStep(s)
      PROVE  \/ Untouched(m) \/ ByClaim(m, s) \/ ByProvider(m, s)
             \/ ByFinish(m, s)
  <2>1. CASE ClaimCommit(s)
    <3>1. worker[s].pc = "txn" /\ row' = ClaimedRows(s) /\ confirmed' = confirmed
      BY <2>1 DEF ClaimCommit
    <3>2. minted' = IF Grants(row[worker[s].id], worker[s].clock)
                    THEN [minted EXCEPT ![worker[s].id] = @ + 1] ELSE minted
      BY <2>1 DEF ClaimCommit
    <3> QED  BY <1>3, <3>1, <3>2
  <2>2. CASE Finish(s)
    BY <1>4, <2>2 DEF Finish
  <2>3. CASE CallAccepted(s)
    BY <1>5, <2>3
  <2>4. CASE ~ClaimCommit(s) /\ ~Finish(s) /\ ~CallAccepted(s)
    BY <1>8, <2>4 DEF WorkerStep, Receive, Admit, ClaimLock, ClaimUnknown,
       ClaimCollides, SkipCall, StartCall, CallRefused, Settle, WorkerStops,
       Untouched
  <2> QED  BY <2>1, <2>2, <2>3, <2>4
<1>9. ASSUME NEW s \in Server, FaultyStep(s)
      PROVE  \/ Untouched(m) \/ ByRelay(m, s) \/ ByClaim(m, s)
             \/ ByFinish(m, s)
  <2>1. CASE RelayReserveFails(s)
    BY <1>2, <2>1 DEF RelayReserveFails, RelayUnchanged, Untouched
  <2>2. CASE ClaimFails(s)
    <3>1. confirmed' = confirmed
      BY <2>2 DEF ClaimFails
    <3>2. CASE UNCHANGED <<row, minted>>
      BY <3>1, <3>2 DEF Untouched
    <3>3. CASE ~UNCHANGED <<row, minted>>
      <4>1. /\ worker[s].pc = "txn" /\ row' = ClaimedRows(s)
            /\ minted' = IF Grants(row[worker[s].id], worker[s].clock)
                         THEN [minted EXCEPT ![worker[s].id] = @ + 1] ELSE minted
        BY <2>2, <3>3 DEF ClaimFails
      <4> QED  BY <1>3, <3>1, <4>1
    <3> QED  BY <3>2, <3>3
  <2>3. CASE FinishFails(s)
    BY <1>4, <2>3 DEF FinishFails, Untouched
  <2>4. CASE RelayPublishFails(s) \/ ConnectionLost(s) \/ BeginShutdown(s) \/ Crash(s)
    BY <2>4 DEF RelayPublishFails, RelayUnchanged, ConnectionLost,
       BeginShutdown, Crash, Restart, Untouched
  <2> QED  BY <1>9, <2>1, <2>2, <2>3, <2>4 DEF FaultyStep
<1>10. ASSUME NEW s \in Server, Redeploy(s) PROVE Untouched(m)
  BY <1>10 DEF Redeploy, Restart, Untouched
<1>11. ASSUME NEW i \in Id, Inject(i) PROVE Untouched(m)
  BY <1>11 DEF Inject, Untouched
<1>12. CASE UNCHANGED vars
  BY <1>12 DEF vars, Untouched, Story
<1>13. CASE Next
  <2>1. \/ \E n \in Msg : Accept(n)
        \/ \E i \in Id : Inject(i)
        \/ \E s \in Server :
             RelayStep(s) \/ WorkerStep(s) \/ FaultyStep(s) \/ Redeploy(s)
        \/ Tick
    BY <1>13 DEF Next
  <2>2. \/ Untouched(m) \/ BySubmission(m) \/ ByTime(m)
        \/ \E s \in Server : ByRelay(m, s) \/ ByClaim(m, s)
                             \/ ByProvider(m, s) \/ ByFinish(m, s)
    BY <2>1, <1>1, <1>6, <1>7, <1>8, <1>9, <1>10, <1>11
  <2> QED  BY <2>2 DEF Story
<1> QED  BY <1>12, <1>13 DEF Story

-----------------------------------------------------------------------------
(* What the operators on rows do to the limit and the deadline: nothing. *)

\* The relay and a claim leave the retry limit and the deadline as they were.
LEMMA LimitsKept ==
  ASSUME NEW r \in Row, NEW now \in Int, NEW token \in Nat
  PROVE  /\ Reserved(r, now, Interval).deadline = r.deadline
         /\ Reserved(r, now, Interval).maxRetries = r.maxRetries
         /\ Claimed(r, now, Lease, token).deadline = r.deadline
         /\ Claimed(r, now, Lease, token).maxRetries = r.maxRetries
<1>1. /\ MakeDead(r).deadline = r.deadline
      /\ MakeDead(r).maxRetries = r.maxRetries
  BY DEF MakeDead, Row
<1>2. /\ Leased(r, now, Lease, token).deadline = r.deadline
      /\ Leased(r, now, Lease, token).maxRetries = r.maxRetries
  BY DEF Leased, Row
<1>3. /\ Recovered(r, now) \in Row
      /\ Recovered(r, now).deadline = r.deadline
      /\ Recovered(r, now).maxRetries = r.maxRetries
  BY DEF Recovered, Row, RowState, RowError, Time, NoToken
<1>4. /\ Reserved(r, now, Interval).deadline = r.deadline
      /\ Reserved(r, now, Interval).maxRetries = r.maxRetries
  <2>1. CASE Exhausted(r, now)
    BY <1>1, <2>1 DEF Reserved
  <2>2. CASE ~Exhausted(r, now)
    <3> DEFINE q == IF r.state = "sending" THEN Recovered(r, now) ELSE r
    <3>1. Reserved(r, now, Interval) = [q EXCEPT !.dispatchAfter = now + Interval]
      BY <2>2 DEF Reserved
    <3>2. q \in Row /\ q.deadline = r.deadline /\ q.maxRetries = r.maxRetries
      BY <1>3
    <3> HIDE DEF q
    <3> QED  BY <3>1, <3>2 DEF Row
  <2> QED  BY <2>1, <2>2
<1>5. Claimed(r, now, Lease, token) \in {r, Leased(r, now, Lease, token), MakeDead(r)}
  BY DEF Claimed, Grants
<1> QED  BY <1>1, <1>2, <1>4, <1>5

\* A deadline that a reading of the clock has reached is reached now.
LEMMA ExhaustedIsLate ==
  ASSUME NEW r \in Row, NEW now \in Int, now <= 0, Exhausted(r, now)
  PROVE  (r.maxRetries >= 0 /\ r.attempts > r.maxRetries) \/ Late(r)
<1>1. r.deadline # NoTime => r.deadline \in Int
  BY DEF Row, Time
<1> QED  BY <1>1 DEF Exhausted, Late, Now

\* The lease of a row is that of its last claim, whatever happens to it.
LEMMA LeaseIsLastKept ==
  ASSUME Inv, MappingInv, [Next]_vars
  PROVE  LeaseIsLast'
<1> SUFFICES ASSUME NEW m \in Msg, row'[m].state = "sending"
             PROVE  row'[m].token = minted'[m]
  BY DEF LeaseIsLast
<1>0. /\ row[m] \in Row /\ minted[m] \in Nat
      /\ row[m].state = "sending" => row[m].token = minted[m]
      /\ row[m].state = "sending" <=> row[m].token # NoToken
  BY DEF Inv, TypeOK, MappingInv, LeaseIsLast, LeaseShape
<1>1. CASE Untouched(m)
  BY <1>0, <1>1 DEF Untouched
<1>2. CASE BySubmission(m)
  BY <1>2 DEF BySubmission, SubmittedRow, AbsentRow
<1>3. CASE ByTime(m)
  BY <1>0, <1>3, AgedRowFacts DEF ByTime
<1>4. ASSUME NEW s \in Server, ByRelay(m, s) PROVE FALSE
  <2>1. row'[m].state \in {"pending", "failed", "dead"}
    BY <1>0, <1>4, ReservedFacts DEF ByRelay
  <2> QED  BY <2>1
<1>5. ASSUME NEW s \in Server, ByClaim(m, s)
      PROVE  row'[m].token = minted'[m]
  <2>1. minted[m] + 1 \in Nat \ {0} /\ minted[m] + 1 \in Nat
    BY <1>0
  <2>2. CASE Grants(row[m], worker[s].clock)
    BY <1>0, <1>5, <2>1, <2>2, ClaimedFacts DEF ByClaim
  <2>3. CASE ~Grants(row[m], worker[s].clock)
    <3>1. row'[m] = row[m] \/ row'[m].state = "dead"
      BY <1>0, <1>5, <2>1, <2>3, ClaimedFacts DEF ByClaim
    <3> QED  BY <1>0, <1>5, <2>3, <3>1 DEF ByClaim
  <2> QED  BY <2>2, <2>3
<1>6. ASSUME NEW s \in Server, ByProvider(m, s)
      PROVE  row'[m].token = minted'[m]
  BY <1>0, <1>6 DEF ByProvider
<1>7. ASSUME NEW s \in Server, ByFinish(m, s) PROVE FALSE
  <2>1. worker[s].outbox \in Row
    BY DEF Inv, TypeOK, Worker
  <2>2. worker[s].outbox.state # "sending"
    BY <1>7 DEF ByFinish, Inv, CopyFaithful, Holding
  <2> QED  BY <1>7, <2>1, <2>2, CompletedFacts DEF ByFinish
<1>8. Story(m)
  BY EveryStep
<1> QED  BY <1>1, <1>2, <1>3, <1>4, <1>5, <1>6, <1>7, <1>8 DEF Story

\* What becomes of the copy of the row that a worker carries.
Carries(s) ==
  /\ Holding(s) /\ row' = row
  /\ worker'[s].id = worker[s].id
  /\ worker'[s].outbox.token = worker[s].outbox.token
  /\ worker'[s].outbox.deadline = worker[s].outbox.deadline

TakesUp(s) == worker'[s].outbox = row'[worker'[s].id]

\* The copy a worker holds is taken over from the row or carried along.
LEMMA CopyStory ==
  ASSUME Inv, [Next]_vars, ~Tick, NEW s \in Server, Holding(s)'
  PROVE  worker'[s] = worker[s] \/ Carries(s) \/ TakesUp(s)
<1> DEFINE Good == worker'[s] = worker[s] \/ Carries(s) \/ TakesUp(s)
<1>0. /\ worker \in [Server -> Worker] /\ worker'[s].pc \in {"claimed", "calling", "finish"}
      /\ worker[s].outbox \in Row
      /\ row \in [Msg -> Row]
  BY DEF Inv, TypeOK, Holding, Worker
<1>1. ASSUME NEW t \in Server, t # s, WorkerStep(t) \/ FaultyStep(t) \/ Redeploy(t)
      PROVE  worker'[s] = worker[s]
  BY <1>0, <1>1 DEF WorkerStep, FaultyStep, Receive, Admit, ClaimLock,
     ClaimUnknown, ClaimCollides, ClaimCommit, SkipCall, StartCall,
     CallAccepted, CallRefused, Finish, Settle, WorkerStops,
     RelayReserveFails, RelayPublishFails, ClaimFails, FinishFails,
     ConnectionLost, BeginShutdown, Crash, Redeploy, Restart, RelayUnchanged,
     ToSettle, ToFinish
<1>2. ASSUME NEW t \in Server, RelayStep(t) PROVE worker'[s] = worker[s]
  BY <1>2 DEF RelayStep, RelayReadClock, RelayScan, RelayCommit, RelayPublish,
     RelayStops, RelayUnchanged
<1>3. ASSUME StartCall(s) PROVE Carries(s)
  <2>1. worker'[s] = [worker[s] EXCEPT !.pc = "calling", !.clock = Now]
    BY <1>0, <1>3 DEF StartCall
  <2> QED  BY <1>0, <1>3, <2>1 DEF StartCall, Carries, Holding, Worker
<1>4. ASSUME NEW o \in Row, ToFinish(s, o), o.token = worker[s].outbox.token,
             o.deadline = worker[s].outbox.deadline, Holding(s), row' = row
      PROVE  Carries(s)
  <2>1. worker'[s] = [worker[s] EXCEPT !.pc = "finish", !.clock = Now, !.outbox = o]
    BY <1>0, <1>4 DEF ToFinish
  <2> QED  BY <1>0, <1>4, <2>1 DEF Carries, Worker
<1>5. ASSUME SkipCall(s) \/ CallRefused(s) \/ CallAccepted(s) PROVE Carries(s)
  <2>1. Holding(s) /\ row' = row
    BY <1>5 DEF SkipCall, CallRefused, CallAccepted, Holding
  <2>2. \A d \in BackoffDelays, e \in RowError :
          LET f == Failed(worker[s].outbox, Now, d, e)
          IN  f \in Row /\ f.token = worker[s].outbox.token
              /\ f.deadline = worker[s].outbox.deadline
    BY <1>0, FailedFacts
  <2>3. LET g == Succeeded(worker[s].outbox)
        IN  g \in Row /\ g.token = worker[s].outbox.token
            /\ g.deadline = worker[s].outbox.deadline
    BY <1>0, SucceededFacts DEF Succeeded, Row
  <2>4. {"invalid", "provider"} \subseteq RowError
    BY DEF RowError
  <2>5. \/ ToFinish(s, Succeeded(worker[s].outbox))
        \/ \E d \in BackoffDelays, e \in {"invalid", "provider"} :
             ToFinish(s, Failed(worker[s].outbox, Now, d, e))
    BY <1>5 DEF SkipCall, CallRefused, CallAccepted
  <2>6. CASE ToFinish(s, Succeeded(worker[s].outbox))
    BY <1>4, <2>1, <2>3, <2>6
  <2>7. ASSUME NEW d \in BackoffDelays, NEW e \in {"invalid", "provider"},
               ToFinish(s, Failed(worker[s].outbox, Now, d, e))
        PROVE  Carries(s)
    <3> DEFINE f == Failed(worker[s].outbox, Now, d, e)
    <3>1. f \in Row /\ f.token = worker[s].outbox.token
          /\ f.deadline = worker[s].outbox.deadline
      BY <2>2, <2>4
    <3>2. ToFinish(s, f)
      BY <2>7
    <3> HIDE DEF f
    <3> QED  BY <1>4, <2>1, <3>1, <3>2
  <2> QED  BY <2>5, <2>6, <2>7
<1>6. ASSUME ClaimCommit(s) PROVE TakesUp(s)
  <2>1. CASE Grants(row[worker[s].id], worker[s].clock)
    <3>1. worker'[s] = [worker[s] EXCEPT !.pc = "claimed",
                                         !.outbox = ClaimedRows(s)[worker[s].id]]
      BY <1>0, <1>6, <2>1 DEF ClaimCommit
    <3>2. row' = ClaimedRows(s)
      BY <1>6 DEF ClaimCommit
    <3> QED  BY <1>0, <3>1, <3>2 DEF TakesUp, Worker
  <2>2. CASE ~Grants(row[worker[s].id], worker[s].clock)
    <3>1. worker'[s].pc = "settle"
      BY <1>0, <1>6, <2>2 DEF ClaimCommit, ToSettle, IdleWorker
    <3> QED  BY <1>0, <3>1
  <2> QED  BY <2>1, <2>2
<1>7. ASSUME WorkerStep(s) PROVE Good
  <2>1. CASE StartCall(s) \/ SkipCall(s) \/ CallRefused(s) \/ CallAccepted(s)
             \/ ClaimCommit(s)
    BY <1>3, <1>5, <1>6, <2>1
  <2>2. ASSUME NEW v \in Verdict, ToSettle(s, v) PROVE FALSE
    BY <1>0, <2>2 DEF ToSettle, IdleWorker
  <2>3. CASE Receive(s) \/ Admit(s) \/ ClaimLock(s) \/ ClaimUnknown(s)
             \/ ClaimCollides(s) \/ Finish(s) \/ Settle(s) \/ WorkerStops(s)
    <3>1. {"ack", "drop", "requeue"} \subseteq Verdict
      BY DEF Verdict
    <3>2. ~ClaimUnknown(s) /\ ~ClaimCollides(s) /\ ~Finish(s)
      BY <2>2, <3>1 DEF ClaimUnknown, ClaimCollides, Finish
    <3>3. ~Receive(s) /\ ~Settle(s) /\ ~WorkerStops(s) /\ ~ClaimLock(s)
      <4>1. ~Receive(s)
        BY <1>0 DEF Receive, IdleWorker
      <4>2. ~Settle(s)
        BY <1>0 DEF Settle, IdleWorker
      <4>3. ~WorkerStops(s)
        BY <1>0 DEF WorkerStops, Worker
      <4>4. ~ClaimLock(s)
        BY <1>0 DEF ClaimLock, Worker
      <4> QED  BY <4>1, <4>2, <4>3, <4>4
    <3>4. ~Admit(s)
      <4> SUFFICES ASSUME Admit(s) PROVE FALSE
        OBVIOUS
      <4>1. ~ToSettle(s, "requeue")
        BY <2>2, <3>1
      <4>2. worker'[s].pc = "claim"
        BY <1>0, <4>1 DEF Admit, Worker
      <4> QED  BY <1>0, <4>2
    <3> QED  BY <2>3, <3>2, <3>3, <3>4
  <2> QED  BY <1>7, <2>1, <2>3 DEF WorkerStep
<1>8. ASSUME FaultyStep(s) PROVE Good
  <2>1. ASSUME ToSettle(s, "requeue") PROVE FALSE
    BY <1>0, <2>1 DEF ToSettle, IdleWorker
  <2>2. ~ClaimFails(s) /\ ~FinishFails(s)
    BY <2>1 DEF ClaimFails, FinishFails
  <2>3. ~Crash(s)
    BY <1>0 DEF Crash, Restart, IdleWorker
  <2>4. RelayReserveFails(s) \/ RelayPublishFails(s) \/ BeginShutdown(s)
          => worker' = worker
    BY DEF RelayReserveFails, RelayPublishFails, BeginShutdown, RelayUnchanged
  <2>5. ConnectionLost(s) => Carries(s)
    <3> SUFFICES ASSUME ConnectionLost(s) PROVE Carries(s)
      OBVIOUS
    <3>1. worker'[s] = [worker[s] EXCEPT !.held = FALSE] /\ row' = row
      BY <1>0 DEF ConnectionLost
    <3> QED  BY <1>0, <3>1 DEF Carries, Holding, Worker
  <2> QED  BY <1>8, <2>2, <2>3, <2>4, <2>5 DEF FaultyStep
<1>9. ASSUME Redeploy(s) PROVE FALSE
  BY <1>0, <1>9 DEF Redeploy, Restart, IdleWorker
<1>10. ASSUME NEW m \in Msg, Accept(m) PROVE worker' = worker
  BY <1>10 DEF Accept
<1>11. ASSUME NEW i \in Id, Inject(i) PROVE worker' = worker
  BY <1>11 DEF Inject
<1>12. CASE UNCHANGED vars
  BY <1>12 DEF vars
<1>13. CASE Next
  <2>1. \/ \E m \in Msg : Accept(m)
        \/ \E i \in Id : Inject(i)
        \/ \E t \in Server :
             RelayStep(t) \/ WorkerStep(t) \/ FaultyStep(t) \/ Redeploy(t)
    BY <1>13 DEF Next
  <2>2. ASSUME NEW t \in Server,
               RelayStep(t) \/ WorkerStep(t) \/ FaultyStep(t) \/ Redeploy(t)
        PROVE  Good
    <3>1. CASE RelayStep(t)
      BY <1>2, <3>1
    <3>2. CASE t # s /\ ~RelayStep(t)
      BY <1>1, <2>2, <3>2
    <3>3. CASE t = s /\ ~RelayStep(t)
      BY <1>7, <1>8, <1>9, <2>2, <3>3
    <3> QED  BY <3>1, <3>2, <3>3
  <2> QED  BY <2>1, <2>2, <1>10, <1>11
<1> QED  BY <1>12, <1>13

\* The retry age a worker judges by stays that of its row.
LEMMA DeadlineSharedKept ==
  ASSUME Inv, MappingInv, [Next]_vars
  PROVE  DeadlineShared'
<1> SUFFICES ASSUME NEW s \in Server, Holding(s)',
                    row'[worker'[s].id].token = worker'[s].outbox.token
             PROVE  worker'[s].outbox.deadline = row'[worker'[s].id].deadline
  BY DEF DeadlineShared
<1> DEFINE m == worker'[s].id
           o == worker[s].outbox
<1>0. /\ row \in [Msg -> Row] /\ worker \in [Server -> Worker] /\ o \in Row
      /\ minted \in [Msg -> Nat]
      /\ Holding(s) /\ row[worker[s].id].token = o.token
           => o.deadline = row[worker[s].id].deadline
      /\ Holding(s) => worker[s].id \in Msg /\ o.token \in 1 .. minted[worker[s].id]
  BY DEF Inv, TypeOK, Worker, MappingInv, DeadlineShared, ClaimsExclusive
<1>1. CASE Tick
  <2>1. /\ worker'[s].pc = worker[s].pc /\ m = worker[s].id
        /\ worker'[s].outbox = IF WorkerWaits(s) \/ worker[s].pc = "calling"
                               THEN AgedRow(o) ELSE o
        /\ row' = [n \in Msg |-> AgedRow(row[n])]
    BY <1>0, <1>1 DEF Tick, Worker
  <2>2. Holding(s) /\ (WorkerWaits(s) \/ worker[s].pc = "calling")
    BY <2>1 DEF Holding, WorkerWaits
  <2>3. worker'[s].outbox = AgedRow(o) /\ row'[m] = AgedRow(row[m]) /\ m \in Msg
    BY <1>0, <2>1, <2>2
  <2>4. row[m] \in Row
    BY <1>0, <2>3
  <2>5. o.deadline = row[m].deadline
    BY <1>0, <2>1, <2>2, <2>3, <2>4, AgedRowFacts
  <2> QED  BY <1>0, <2>3, <2>4, <2>5, AgedRowFacts
<1>2. CASE ~Tick /\ TakesUp(s)
  BY <1>2 DEF TakesUp
<1>3. CASE ~Tick /\ Carries(s)
  BY <1>0, <1>3 DEF Carries
<1>4. CASE ~Tick /\ worker'[s] = worker[s]
  <2>1. Holding(s) /\ m = worker[s].id /\ worker'[s].outbox = o /\ m \in Msg
        /\ o.token \in 1 .. minted[m] /\ row[m] \in Row /\ minted[m] \in Nat
        /\ row'[m].token = o.token
    BY <1>0, <1>4 DEF Holding
  <2>2. /\ row[m].state = "sending" <=> row[m].token # NoToken
        /\ row[m].token = o.token => o.deadline = row[m].deadline
    BY <1>0, <2>1 DEF Inv, LeaseShape
  <2> HIDE DEF m, o
  <2>3. ASSUME Untouched(m) PROVE o.deadline = row'[m].deadline
    BY <2>1, <2>2, <2>3 DEF Untouched
  <2>4. ~BySubmission(m)
    <3>1. BySubmission(m) => row'[m].token = 0
      BY DEF BySubmission, SubmittedRow, AbsentRow, NoToken
    <3> QED  BY <2>1, <3>1
  <2>5. ~ByTime(m)
    BY <1>4 DEF ByTime
  <2>6. ASSUME NEW t \in Server, ByRelay(m, t) PROVE FALSE
    <3>1. row'[m].token = NoToken
      BY <2>1, <2>2, <2>6, ReservedFacts DEF ByRelay
    <3> QED  BY <2>1, <3>1 DEF NoToken
  <2>7. ASSUME NEW t \in Server, ByFinish(m, t) PROVE FALSE
    <3>1. worker[t].outbox \in Row
      BY <1>0 DEF Worker
    <3>2. row'[m].token = NoToken
      BY <2>7, <3>1, CompletedFacts DEF ByFinish
    <3> QED  BY <2>1, <3>2 DEF NoToken
  <2>8. ASSUME NEW t \in Server, ByProvider(m, t)
        PROVE  o.deadline = row'[m].deadline
    BY <2>1, <2>2, <2>8 DEF ByProvider
  <2>9. ASSUME NEW t \in Server, ByClaim(m, t)
        PROVE  o.deadline = row'[m].deadline
    <3>1. minted[m] + 1 \in Nat \ {0}
      BY <2>1
    <3>2. CASE Grants(row[m], worker[t].clock)
      <4>1. row'[m].token = minted[m] + 1
        BY <2>1, <2>2, <2>9, <3>1, <3>2, ClaimedFacts DEF ByClaim
      <4> QED  BY <2>1, <4>1
    <3>3. CASE ~Grants(row[m], worker[t].clock)
      <4>1. row'[m] = row[m] \/ row'[m].token = NoToken
        BY <2>1, <2>2, <2>9, <3>1, <3>3, ClaimedFacts DEF ByClaim
      <4> QED  BY <2>1, <2>2, <4>1 DEF NoToken
    <3> QED  BY <3>2, <3>3
  <2>10. Story(m)
    BY <2>1, EveryStep
  <2>11. o.deadline = row'[m].deadline
    BY <2>1, <2>2, <2>3, <2>4, <2>5, <2>6, <2>7, <2>8, <2>9, <2>10
       DEF Story
  <2> QED  BY <2>1, <2>11 DEF m
<1> QED  BY <1>1, <1>2, <1>3, <1>4, CopyStory

\* What the refinement mapping needs holds in every reachable state: leases
\* are those of the last claim, and workers judge by their row's deadline.
THEOREM MappingInvariance == Spec => []MappingInv
<1>1. Init => MappingInv
  BY DEF Init, MappingInv, LeaseIsLast, DeadlineShared, AbsentRow, Holding,
     IdleWorker
<1>2. Inv /\ MappingInv /\ [Next]_vars => MappingInv'
  BY LeaseIsLastKept, DeadlineSharedKept DEF MappingInv
<1> QED  BY <1>1, <1>2, Invariance, PTL DEF Spec

-----------------------------------------------------------------------------
(* Every step of the system is a step of the promise, or none. *)

\* The step simulation of the refinement.
LEMMA Simulation ==
  ASSUME Inv, MappingInv, [Next]_vars, NEW m \in Msg
  PROVE  Kept(m)
<1> DEFINE r == row[m]
           q == row'[m]
<1>0. /\ r \in Row /\ minted[m] \in Nat /\ confirmed[m] \subseteq Nat
      /\ r.attempts = minted[m] /\ r.maxRetries \in Int
      /\ r.state = "none" => r = AbsentRow
      /\ r.state = "sending" <=> r.token # NoToken
      /\ r.state = "sending" => r.token = minted[m]
      /\ r.state \in RowState
      /\ r.deadline \in Time
  BY DEF Inv, TypeOK, AttemptsCounted, LeaseShape, MappingInv, LeaseIsLast, Row
<1> HIDE DEF r
<1>1. CASE Untouched(m)
  BY <1>1 DEF Kept, Untouched, Promise!pvars
<1>2. CASE BySubmission(m)
  <2>1. PICK limit \in RetryLimits, delay \in ScheduleDelays :
          q = SubmittedRow(limit, Now, delay, RetryMaxAge)
    BY <1>2 DEF BySubmission
  <2>2. /\ q.state = "pending" /\ q.maxRetries = limit
        /\ q.deadline = IF RetryMaxAge > 0 THEN Now + delay + RetryMaxAge ELSE NoTime
    BY <2>1 DEF SubmittedRow, AbsentRow
  <2>3. limit \in Nat \cup {-1} /\ delay \in Nat /\ RetryMaxAge \in Nat
    BY RetryLimitsAssumption, DelayAssumption
  <2>4. ~Late(q)
    BY <2>2, <2>3 DEF Late, Now
  <2>5. r.state = "none" /\ ~Late(r)
    BY <1>0, <1>2 DEF BySubmission, Late, AbsentRow, r
  <2>6. minted'[m] = minted[m] /\ confirmed'[m] = confirmed[m]
    BY <1>2 DEF BySubmission
  <2> HIDE DEF q
  <2>7. Late(q) = Late(r)
    BY <2>4, <2>5 DEF Late
  <2>8. Promise(m)!Submit
    BY <2>2, <2>3, <2>5, <2>6, <2>7 DEF Promise!Submit, PhaseOf, r, q
  <2> QED  BY <2>8 DEF Kept, Promise!PNext
<1>3. CASE ByTime(m)
  <2>1. q = AgedRow(r) /\ minted'[m] = minted[m] /\ confirmed'[m] = confirmed[m]
    BY <1>3 DEF ByTime, r
  <2>2. /\ q.state = r.state /\ q.maxRetries = r.maxRetries
        /\ q.deadline = Aged(r.deadline)
    BY <1>0, <2>1, AgedRowFacts
  <2>3. Late(r) => Late(q)
    BY <1>0, <2>2, AgedTimes DEF Late, Now
  <2>4. CASE ~(~Late(r) /\ Late(q))
    <3>1. Late(q) = Late(r)
      BY <2>3, <2>4 DEF Late
    <3> QED  BY <2>1, <2>2, <3>1 DEF Kept, Promise!pvars, r
  <2>5. CASE ~Late(r) /\ Late(q)
    <3>1. r.state # "none"
      BY <1>0, <2>1, <2>5, AgedRowFacts
    <3>2. PhaseOf(r.state) # "absent"
      BY <1>0, <3>1 DEF PhaseOf, RowState
    <3>3. Promise(m)!Expire
      BY <2>1, <2>2, <2>5, <3>2 DEF Promise!Expire, r
    <3> QED  BY <3>3 DEF Kept, Promise!PNext
  <2> QED  BY <2>4, <2>5
<1>4. ASSUME NEW s \in Server, ByRelay(m, s) PROVE Kept(m)
  <2> DEFINE now == relay[s].clock
  <2>1. /\ now \in Int /\ now <= 0 /\ Due(r, now) /\ q = Reserved(r, now, Interval)
        /\ minted'[m] = minted[m] /\ confirmed'[m] = confirmed[m]
    BY <1>4 DEF ByRelay, r
  <2> HIDE DEF now
  <2>2. r.state \in {"pending", "failed", "sending"}
    BY <2>1 DEF Due
  <2>3. /\ q.state \in {"pending", "failed", "dead"}
        /\ q.maxRetries = r.maxRetries /\ q.deadline = r.deadline
    <3>1. 0 \in Nat
      OBVIOUS
    <3> QED  BY <1>0, <2>1, <3>1, ReservedFacts, LimitsKept
  <2>4. q.state = "dead" <=> Exhausted(r, now)
    <3>1. MakeDead(r).state = "dead"
      BY <1>0 DEF MakeDead, Row
    <3>2. ~Exhausted(r, now) => q.state \in {"pending", "failed"}
      <4>1. Recovered(r, now).state = "failed" /\ Recovered(r, now) \in Row
        BY <1>0, <2>1 DEF Recovered, Row, RowState, RowError, Time, NoToken
      <4> QED  BY <1>0, <2>1, <2>2, <4>1 DEF Reserved, Row
    <3> QED  BY <2>1, <3>1, <3>2 DEF Reserved
  <2>5. Late(q) = Late(r)
    BY <2>3 DEF Late
  <2>6. CASE q.state = "dead"
    <3>1. (r.maxRetries >= 0 /\ minted[m] > r.maxRetries) \/ Late(r)
      BY <1>0, <2>1, <2>4, <2>6, ExhaustedIsLate
    <3>2. Promise(m)!GiveUp
      BY <2>1, <2>2, <2>3, <2>5, <2>6, <3>1 DEF Promise!GiveUp, PhaseOf, r
    <3> QED  BY <3>2 DEF Kept, Promise!PNext
  <2>7. CASE q.state # "dead" /\ r.state = "sending"
    <3>1. Promise(m)!Fail
      BY <2>1, <2>3, <2>5, <2>7 DEF Promise!Fail, PhaseOf, r
    <3> QED  BY <3>1 DEF Kept, Promise!PNext
  <2>8. CASE q.state # "dead" /\ r.state # "sending"
    <3>1. PhaseOf(q.state) = PhaseOf(r.state)
      BY <2>2, <2>3, <2>8 DEF PhaseOf
    <3> QED  BY <2>1, <2>3, <2>5, <3>1 DEF Kept, Promise!pvars, r
  <2> QED  BY <2>6, <2>7, <2>8
<1>5. ASSUME NEW s \in Server, ByClaim(m, s) PROVE Kept(m)
  <2> DEFINE now == worker[s].clock
  <2>1. /\ now \in Int /\ now <= 0 /\ r.state # "none"
        /\ q = Claimed(r, now, Lease, minted[m] + 1)
        /\ minted'[m] = IF Grants(r, now) THEN minted[m] + 1 ELSE minted[m]
        /\ confirmed'[m] = confirmed[m]
    BY <1>5 DEF ByClaim, r
  <2> HIDE DEF now
  <2>2. minted[m] + 1 \in Nat \ {0} /\ minted[m] + 1 \in Nat
    BY <1>0
  <2>3. q.maxRetries = r.maxRetries /\ q.deadline = r.deadline
    BY <1>0, <2>1, <2>2, LimitsKept
  <2>4. Late(q) = Late(r)
    BY <2>3 DEF Late
  <2>5. CASE Grants(r, now)
    <3>1. /\ q.state = "sending"
          /\ r.maxRetries >= 0 => r.attempts <= r.maxRetries
      BY <1>0, <2>1, <2>2, <2>5, ClaimedFacts
    <3>2. r.state \in {"pending", "failed"}
      BY <2>5 DEF Grants, NotClaimable
    <3>3. Promise(m)!Attempt
      BY <1>0, <2>1, <2>3, <2>4, <2>5, <3>1, <3>2 DEF Promise!Attempt, PhaseOf, r
    <3> QED  BY <3>3 DEF Kept, Promise!PNext
  <2>6. CASE ~Grants(r, now) /\ NotClaimable(r, now)
    <3>1. q = r
      BY <2>1, <2>6 DEF Claimed
    <3> QED  BY <2>1, <2>6, <3>1 DEF Kept, Promise!pvars, r
  <2>7. CASE ~Grants(r, now) /\ ~NotClaimable(r, now)
    <3>1. q.state = "dead" /\ r.state \in {"pending", "failed"}
      <4>1. MakeDead(r).state = "dead"
        BY <1>0 DEF MakeDead, Row
      <4> QED  BY <2>1, <2>7, <4>1 DEF Claimed, NotClaimable
    <3>2. (r.maxRetries >= 0 /\ minted[m] > r.maxRetries) \/ Late(r)
      <4>1. Exhausted(r, now)
        BY <2>7 DEF Grants
      <4> QED  BY <1>0, <2>1, <4>1, ExhaustedIsLate
    <3>3. Promise(m)!GiveUp
      BY <2>1, <2>3, <2>4, <2>7, <3>1, <3>2 DEF Promise!GiveUp, PhaseOf, r
    <3> QED  BY <3>3 DEF Kept, Promise!PNext
  <2> QED  BY <2>5, <2>6, <2>7
<1>6. ASSUME NEW s \in Server, ByProvider(m, s) PROVE Kept(m)
  <2>1. worker[s].outbox.token \in 1 .. minted[m]
    BY <1>6 DEF ByProvider, Inv, ClaimsExclusive, Holding
  <2>2. /\ confirmed'[m] = confirmed[m] \cup {worker[s].outbox.token}
        /\ row'[m] = row[m] /\ minted'[m] = minted[m]
    BY <1>6 DEF ByProvider
  <2>3. Promise(m)!Take
    BY <2>1, <2>2 DEF Promise!Take
  <2> QED  BY <2>3 DEF Kept, Promise!PNext
<1>7. ASSUME NEW s \in Server, ByFinish(m, s) PROVE Kept(m)
  <2> DEFINE o == worker[s].outbox
  <2>1. /\ o \in Row /\ q = Completed(o) /\ worker[s].pc = "finish"
        /\ worker[s].id = m /\ Matches(s)
        /\ minted'[m] = minted[m] /\ confirmed'[m] = confirmed[m]
    BY <1>7 DEF ByFinish, Inv, TypeOK, Worker
  <2>2. r.state = "sending" /\ r.token = o.token
    BY <2>1 DEF Matches, StillLeased, r
  <2>3. /\ o.maxRetries = r.maxRetries /\ o.attempts = o.retryCount + 1
        /\ o.attempts = r.attempts /\ o.deadline = r.deadline
        /\ o.state \in {"sent", "failed", "dead"}
        /\ o.state = "sent" => o.token \in confirmed[m]
        /\ o.state = "dead" => \/ RetryLimitReached(o)
                               \/ o.deadline # NoTime /\ o.deadline <= 0
    BY <2>1, <2>2 DEF Inv, CopyFaithful, Holding, MappingInv, DeadlineShared, r
  <2> HIDE DEF o
  <2>4. /\ q.state = o.state /\ q.maxRetries = r.maxRetries
        /\ q.deadline = r.deadline
    BY <2>1, <2>3, CompletedFacts
  <2>5. Late(q) = Late(r)
    BY <2>4 DEF Late
  <2>6. CASE o.state = "sent"
    <3>1. minted[m] \in confirmed[m]
      BY <1>0, <2>2, <2>3, <2>6
    <3>2. Promise(m)!Succeed
      BY <2>1, <2>2, <2>4, <2>5, <2>6, <3>1 DEF Promise!Succeed, PhaseOf, r
    <3> QED  BY <3>2 DEF Kept, Promise!PNext
  <2>7. CASE o.state = "failed"
    <3>1. Promise(m)!Fail
      BY <2>1, <2>2, <2>4, <2>5, <2>7 DEF Promise!Fail, PhaseOf, r
    <3> QED  BY <3>1 DEF Kept, Promise!PNext
  <2>8. CASE o.state = "dead"
    <3>1. (r.maxRetries >= 0 /\ minted[m] > r.maxRetries) \/ Late(r)
      <4>1. o.retryCount \in Nat
        BY <2>1 DEF Row
      <4> QED  BY <1>0, <2>3, <2>8, <4>1 DEF RetryLimitReached, Late, Now
    <3>2. Promise(m)!GiveUp
      BY <2>1, <2>2, <2>4, <2>5, <2>8, <3>1 DEF Promise!GiveUp, PhaseOf, r
    <3> QED  BY <3>2 DEF Kept, Promise!PNext
  <2> QED  BY <2>3, <2>6, <2>7, <2>8
<1> QED
  BY <1>1, <1>2, <1>3, <1>4, <1>5, <1>6, <1>7, EveryStep DEF Story

\* A message that was never submitted is absent in the promise.
LEMMA PromiseBegins == Init => \A m \in Msg : Promise(m)!PInit
<1> SUFFICES ASSUME Init, NEW m \in Msg PROVE Promise(m)!PInit
  OBVIOUS
<1> QED
  BY DEF Init, Promise!PInit, AbsentRow, PhaseOf, Late

\* Delivery implements OutboxPromise, whatever the servers, the timing and
\* the faults: each message waits, is attempted within its budget, and ends
\* sent only by its current attempt, dead only when exhausted.
THEOREM Implementation == Spec => PromiseKept
<1>1. Init => \A m \in Msg : Promise(m)!PInit
  BY PromiseBegins
<1>2. Inv /\ MappingInv /\ [Next]_vars => [\A m \in Msg : Kept(m)]_vars
  BY Simulation
<1> QED
  BY <1>1, <1>2, Invariance, MappingInvariance, PTL DEF Spec, PromiseKept
=============================================================================
