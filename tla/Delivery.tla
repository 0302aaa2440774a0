------------------------------ MODULE Delivery ------------------------------
(***************************************************************************)
(* The delivery of one channel of kaftar: the servers that share a         *)
(* PostgreSQL outbox and a RabbitMQ queue.  Each server runs one relay     *)
(* goroutine, which reserves due rows and publishes a notification for     *)
(* each (service.relay, outbox_repo.ReserveDispatch), and one consumer     *)
(* goroutine, which takes a notification, claims its row under a lease,    *)
(* calls the provider and records the outcome (service.handleDelivery,     *)
(* outbox_repo.Claim and Finish).                                          *)
(*                                                                         *)
(* Time is counted from the present: a timestamp t stands for the instant  *)
(* t units from now, a reading of the clock is 0, and Tick moves every     *)
(* timestamp one unit into the past.  The servers' clocks are synchronized *)
(* (docs/queue-contract.md requires it).  A timestamp older than every     *)
(* reading in use stays where it is, which no comparison can tell.         *)
(***************************************************************************)
EXTENDS OutboxRow, FiniteSets

CONSTANTS
  Msg,            \* submissions; their order is that of (created_at, id)
  Server,         \* processes of cmd/main.go that serve the channel
  Stranger,       \* an id no row of this channel has
  Undecodable,    \* submissions whose stored payload no longer decodes
  RetryLimits,    \* normalized max_retries, -1 for no limit
  ScheduleDelays, \* send_at minus the time of acceptance, 0 for none
  RetryMaxAge,    \* MESSAGE_RETRY_MAX_AGE, 0 for none
  BackoffDelays,  \* what durationJitter(retryDelay(n)) can be
  Lease,          \* the 60 seconds of Claim
  Interval,       \* the 10 seconds of ReserveDispatch
  BatchLimit,     \* the 32 rows of ReserveDispatch
  AttemptTimeout, \* the 30 seconds of a provider call
  MaxStall,       \* bound: age of a clock reading still in use
  MaxCopies,      \* bound: copies of a notification the queue counts
  MaxFaults       \* bound: crashes, lost replies, failed calls

ASSUME MsgAssumption == Msg \subseteq Nat \ {0} /\ Stranger \notin Msg
ASSUME UndecodableAssumption == Undecodable \subseteq Msg
ASSUME RetryLimitsAssumption == RetryLimits \subseteq Nat \cup {-1}
ASSUME DelayAssumption ==
  /\ ScheduleDelays \subseteq Nat
  /\ RetryMaxAge \in Nat
  /\ BackoffDelays \subseteq Nat \ {0}
ASSUME BoundAssumption ==
  /\ Lease \in Nat \ {0} /\ Interval \in Nat /\ BatchLimit \in Nat \ {0}
  /\ AttemptTimeout \in Nat /\ MaxStall \in Nat
  /\ MaxCopies \in Nat \ {0} /\ MaxFaults \in Nat

VARIABLES
  row,        \* row[m]: the committed row of m
  queue,      \* queue[i]: copies of the notification of i ready in RabbitMQ
  stopping,   \* stopping[s]: service.stopping, set by BeginShutdown
  worker,     \* worker[s]: the consumer goroutine of s
  relay,      \* relay[s]: the relay goroutine of s
  minted,     \* minted[m]: how many tokens Claim has handed out for m
  called,     \* called[m]: tokens under which a provider call of m started
  confirmed,  \* confirmed[m]: tokens under which the provider took m
  faults      \* what is left of the budget of faults

vars == <<row, queue, stopping, worker, relay, minted, called, confirmed, faults>>

Id == Msg \cup {Stranger}

Now == 0        \* what time.Now() gives, time being counted from the present

WorkerPC == {"idle", "got", "claim", "txn", "claimed", "calling", "finish",
             "settle", "stopped"}
RelayPC == {"idle", "scan", "reserve", "publish", "stopped"}
Verdict == {"ack", "requeue", "drop"}

\* `id' is the notification in hand, `held' whether the broker still waits
\* for its ack, `clock' the last reading of time.Now(), `outbox' the copy
\* of the row Claim returned, `verdict' what to tell the broker.
Worker == [pc: WorkerPC, id: Id, held: BOOLEAN, clock: Int, outbox: Row,
           verdict: Verdict]

IdleWorker == [pc |-> "idle", id |-> Stranger, held |-> FALSE, clock |-> Now,
               outbox |-> AbsentRow, verdict |-> "ack"]

Relay == [pc: RelayPC, clock: Int, batch: SUBSET Msg]

IdleRelay == [pc |-> "idle", clock |-> Now, batch |-> {}]

Exists(m) == m \in Msg /\ row[m].state # "none"

\* A row that a transaction still holds FOR UPDATE.
Locked(m) ==
  \E s \in Server :
    \/ worker[s].pc = "txn" /\ worker[s].id = m
    \/ relay[s].pc = "reserve" /\ m \in relay[s].batch

\* The queue with one more copy of i; MaxCopies stands for "many".
Enqueued(q, i) == [q EXCEPT ![i] = IF @ < MaxCopies THEN @ + 1 ELSE @]

\* What the broker does with a delivery whose channel is gone.
Returned(s) ==
  IF worker[s].held THEN Enqueued(queue, worker[s].id) ELSE queue

Fault == faults > 0 /\ faults' = faults - 1

\* A call of s's relay fails, or takes the connection with it; a shutdown
\* cancels the relay's context, and then that needs no other fault.
RelayFault(s) == Fault \/ (stopping[s] /\ UNCHANGED faults)

-----------------------------------------------------------------------------
Init ==
  /\ row = [m \in Msg |-> AbsentRow]
  /\ queue = [i \in Id |-> 0]
  /\ stopping = [s \in Server |-> FALSE]
  /\ worker = [s \in Server |-> IdleWorker]
  /\ relay = [s \in Server |-> IdleRelay]
  /\ minted = [m \in Msg |-> 0]
  /\ called = [m \in Msg |-> {}]
  /\ confirmed = [m \in Msg |-> {}]
  /\ faults = MaxFaults

\* accept: the submission's row is committed (Submission.tla has the detail).
Accept(m) ==
  /\ row[m].state = "none"
  /\ \E limit \in RetryLimits, delay \in ScheduleDelays :
       row' = [row EXCEPT ![m] = SubmittedRow(limit, Now, delay, RetryMaxAge)]
  /\ UNCHANGED <<queue, stopping, worker, relay, minted, called, confirmed,
                 faults>>

\* A notification nobody's relay just published: of an unknown id, of a row
\* of another channel, or one that an older server or a producer sent.
Inject(i) ==
  /\ Fault
  /\ queue' = Enqueued(queue, i)
  /\ UNCHANGED <<row, stopping, worker, relay, minted, called, confirmed>>

-----------------------------------------------------------------------------
(* The relay goroutine. *)

RelayUnchanged == UNCHANGED <<stopping, worker, minted, called, confirmed>>

\* time.Now() is read before ReserveDispatch opens its transaction.
RelayReadClock(s) ==
  /\ relay[s].pc = "idle" /\ ~stopping[s]
  /\ relay' = [relay EXCEPT ![s].pc = "scan", ![s].clock = Now]
  /\ UNCHANGED <<row, queue, faults>> /\ RelayUnchanged

\* SELECT ... ORDER BY created_at, id LIMIT n FOR UPDATE SKIP LOCKED.
Scanned(now) ==
  LET due == {m \in Msg : Due(row[m], now) /\ ~Locked(m)}
  IN  {m \in due : Cardinality({n \in due : n < m}) < BatchLimit}

RelayScan(s) ==
  /\ relay[s].pc = "scan"
  /\ LET rows == Scanned(relay[s].clock)
     IN  relay' = IF rows = {}
                  THEN [relay EXCEPT ![s] = IdleRelay]
                  ELSE [relay EXCEPT ![s].pc = "reserve", ![s].batch = rows]
  /\ UNCHANGED <<row, queue, faults>> /\ RelayUnchanged

\* The table once the transaction of s's relay is committed.
ReservedRows(s) ==
  [m \in Msg |-> IF m \in relay[s].batch
                 THEN Reserved(row[m], relay[s].clock, Interval)
                 ELSE row[m]]

\* The rows ReserveDispatch returns: those it did not declare dead.
ToPublish(s) == {m \in relay[s].batch : ~Exhausted(row[m], relay[s].clock)}

RelayCommit(s) ==
  /\ relay[s].pc = "reserve"
  /\ row' = ReservedRows(s)
  /\ relay' = [relay EXCEPT ![s] =
       IF ToPublish(s) = {}
       THEN IdleRelay
       ELSE [pc |-> "publish", clock |-> Now, batch |-> ToPublish(s)]]
  /\ UNCHANGED <<queue, faults>> /\ RelayUnchanged

\* The transaction fails, or commits and the relay gets an error all the
\* same; either way the relay goes on to its pause.
RelayReserveFails(s) ==
  /\ relay[s].pc \in {"scan", "reserve"}
  /\ RelayFault(s)
  /\ relay' = [relay EXCEPT ![s] = IdleRelay]
  /\ \/ row' = row
     \/ relay[s].pc = "reserve" /\ row' = ReservedRows(s)
  /\ UNCHANGED queue /\ RelayUnchanged

\* The relay after the first row of its batch.
Published(s, m) ==
  IF relay[s].batch = {m} THEN IdleRelay ELSE [relay[s] EXCEPT !.batch = @ \ {m}]

RelayPublish(s) ==
  /\ relay[s].pc = "publish" /\ ~stopping[s]
  /\ \E m \in relay[s].batch :
       /\ \A n \in relay[s].batch : m <= n
       /\ queue' = Enqueued(queue, m)
       /\ relay' = [relay EXCEPT ![s] = Published(s, m)]
  /\ UNCHANGED <<row, faults>> /\ RelayUnchanged

\* publish returns an error, whether or not the broker took the message;
\* the rest of the batch is given up until dispatch_after.
RelayPublishFails(s) ==
  /\ relay[s].pc = "publish"
  /\ RelayFault(s)
  /\ \E m \in relay[s].batch :
       /\ \A n \in relay[s].batch : m <= n
       /\ queue' \in {queue, Enqueued(queue, m)}
  /\ relay' = [relay EXCEPT ![s] = IdleRelay]
  /\ UNCHANGED row /\ RelayUnchanged

\* The relay sees its context cancelled between two steps and returns.
RelayStops(s) ==
  /\ relay[s].pc \in {"idle", "publish"} /\ stopping[s]
  /\ relay' = [relay EXCEPT ![s] = [IdleRelay EXCEPT !.pc = "stopped"]]
  /\ UNCHANGED <<row, queue, faults>> /\ RelayUnchanged

-----------------------------------------------------------------------------
(* The consumer goroutine. *)

\* handleDelivery has decided what to tell the broker.
ToSettle(s, verdict) ==
  worker' = [worker EXCEPT ![s] =
    [IdleWorker EXCEPT !.pc = "settle", !.id = worker[s].id,
                       !.held = worker[s].held, !.verdict = verdict]]

\* Prefetch is 1: the broker hands out one notification at a time.
Receive(s) ==
  /\ worker[s].pc = "idle" /\ ~stopping[s]
  /\ \E i \in Id :
       /\ queue[i] > 0
       /\ queue' = [queue EXCEPT ![i] = @ - 1]
       /\ worker' = [worker EXCEPT ![s] =
                       [IdleWorker EXCEPT !.pc = "got", !.id = i, !.held = TRUE]]
  /\ UNCHANGED <<row, stopping, relay, minted, called, confirmed, faults>>

\* The stopping check of handleDelivery, which then reads the clock.
Admit(s) ==
  /\ worker[s].pc = "got"
  /\ IF stopping[s]
     THEN ToSettle(s, "requeue")
     ELSE worker' = [worker EXCEPT ![s].pc = "claim", ![s].clock = Now]
  /\ UNCHANGED <<row, queue, stopping, relay, minted, called, confirmed, faults>>

\* SELECT ... FOR UPDATE SKIP LOCKED finds the row and locks it.
ClaimLock(s) ==
  /\ worker[s].pc = "claim"
  /\ Exists(worker[s].id) /\ ~Locked(worker[s].id)
  /\ worker' = [worker EXCEPT ![s].pc = "txn"]
  /\ UNCHANGED <<row, queue, stopping, relay, minted, called, confirmed, faults>>

\* ErrRecordNotFound: there is no such row in this channel.
ClaimUnknown(s) ==
  /\ worker[s].pc = "claim" /\ ~Exists(worker[s].id)
  /\ ToSettle(s, "drop")
  /\ UNCHANGED <<row, queue, stopping, relay, minted, called, confirmed, faults>>

\* ErrRecordNotFound again: SKIP LOCKED hides the row from this transaction,
\* and the notification is rejected like an unknown one.
ClaimCollides(s) ==
  /\ worker[s].pc = "claim" /\ Exists(worker[s].id) /\ Locked(worker[s].id)
  /\ ToSettle(s, "drop")
  /\ UNCHANGED <<row, queue, stopping, relay, minted, called, confirmed, faults>>

\* The row of s's claim before and after its transaction.
ClaimedRows(s) ==
  LET w == worker[s]
  IN  [row EXCEPT ![w.id] = Claimed(@, w.clock, Lease, minted[w.id] + 1)]

\* The transaction commits: the worker has the row, or nothing to do.
ClaimCommit(s) ==
  LET w == worker[s]
  IN  /\ w.pc = "txn"
      /\ row' = ClaimedRows(s)
      /\ IF Grants(row[w.id], w.clock)
         THEN /\ minted' = [minted EXCEPT ![w.id] = @ + 1]
              /\ worker' = [worker EXCEPT ![s].pc = "claimed",
                                          ![s].outbox = ClaimedRows(s)[w.id]]
         ELSE /\ ToSettle(s, "ack")
              /\ UNCHANGED minted
      /\ UNCHANGED <<queue, stopping, relay, called, confirmed, faults>>

\* Claim returns another error, with the transaction rolled back or, when
\* only the answer to COMMIT is lost, committed: claimed under a token nobody
\* has, or made dead.
ClaimFails(s) ==
  LET w == worker[s]
  IN  /\ w.pc \in {"claim", "txn"}
      /\ Fault
      /\ ToSettle(s, "requeue")
      /\ \/ UNCHANGED <<row, minted>>
         \/ /\ w.pc = "txn"
            /\ row' = ClaimedRows(s)
            /\ minted' = IF Grants(row[w.id], w.clock)
                         THEN [minted EXCEPT ![w.id] = @ + 1] ELSE minted
      /\ UNCHANGED <<queue, stopping, relay, called, confirmed>>

\* The attempt is over for s: the clock is read again and the copy of the
\* row takes the outcome.
ToFinish(s, outcome) ==
  worker' = [worker EXCEPT ![s].pc = "finish", ![s].clock = Now,
                           ![s].outbox = outcome]

\* A payload that does not decode: a failed attempt with no provider call.
SkipCall(s) ==
  /\ worker[s].pc = "claimed" /\ worker[s].id \in Undecodable
  /\ \E d \in BackoffDelays :
       ToFinish(s, Failed(worker[s].outbox, Now, d, "invalid"))
  /\ UNCHANGED <<row, queue, stopping, relay, minted, called, confirmed, faults>>

\* sender.Send; the clock now tells when the call started.
StartCall(s) ==
  /\ worker[s].pc = "claimed" /\ worker[s].id \notin Undecodable
  /\ worker' = [worker EXCEPT ![s].pc = "calling", ![s].clock = Now]
  /\ called' = [called EXCEPT ![worker[s].id] = @ \cup {worker[s].outbox.token}]
  /\ UNCHANGED <<row, queue, stopping, relay, minted, confirmed, faults>>

\* The provider took the message; s learns it or gets an error (a lost
\* answer, the attempt's timeout).
CallAccepted(s) ==
  LET o == worker[s].outbox
  IN  /\ worker[s].pc = "calling"
      /\ confirmed' = [confirmed EXCEPT ![worker[s].id] = @ \cup {o.token}]
      /\ \/ ToFinish(s, Succeeded(o))
         \/ \E d \in BackoffDelays : ToFinish(s, Failed(o, Now, d, "provider"))
      /\ UNCHANGED <<row, queue, stopping, relay, minted, called, faults>>

\* The provider did not take the message and s gets an error.
CallRefused(s) ==
  /\ worker[s].pc = "calling"
  /\ \E d \in BackoffDelays :
       ToFinish(s, Failed(worker[s].outbox, Now, d, "provider"))
  /\ UNCHANGED <<row, queue, stopping, relay, minted, called, confirmed, faults>>

\* The table after Finish's UPDATE, and whether it matched a row.
Matches(s) == StillLeased(row[worker[s].id], worker[s].outbox, worker[s].clock)
FinishedRows(s) ==
  IF Matches(s)
  THEN [row EXCEPT ![worker[s].id] = Completed(worker[s].outbox)]
  ELSE row

\* The UPDATE waits for the row's lock; no row matched is ErrLeaseLost.
Finish(s) ==
  /\ worker[s].pc = "finish" /\ ~Locked(worker[s].id)
  /\ row' = FinishedRows(s)
  /\ ToSettle(s, IF Matches(s) THEN "ack" ELSE "requeue")
  /\ UNCHANGED <<queue, stopping, relay, minted, called, confirmed, faults>>

\* Finish returns another error: not run, or run and its answer lost.
FinishFails(s) ==
  /\ worker[s].pc = "finish"
  /\ Fault
  /\ ToSettle(s, "requeue")
  /\ \/ row' = row
     \/ ~Locked(worker[s].id) /\ row' = FinishedRows(s)
  /\ UNCHANGED <<queue, stopping, relay, minted, called, confirmed>>

\* Ack or Nack reaches the broker; on a lost channel it does nothing.
Settle(s) ==
  /\ worker[s].pc = "settle"
  /\ queue' = IF worker[s].verdict = "requeue" THEN Returned(s) ELSE queue
  /\ worker' = [worker EXCEPT ![s] = IdleWorker]
  /\ UNCHANGED <<row, stopping, relay, minted, called, confirmed, faults>>

\* The consumer sees its polling context cancelled between deliveries.
WorkerStops(s) ==
  /\ worker[s].pc = "idle" /\ stopping[s]
  /\ worker' = [worker EXCEPT ![s].pc = "stopped"]
  /\ UNCHANGED <<row, queue, stopping, relay, minted, called, confirmed, faults>>

-----------------------------------------------------------------------------
(* What happens to a server. *)

\* The AMQP connection dies, or publish closes it because its context is
\* over: the broker takes the delivery back, the worker goes on with it.
ConnectionLost(s) ==
  /\ worker[s].held
  /\ RelayFault(s)
  /\ queue' = Returned(s)
  /\ worker' = [worker EXCEPT ![s].held = FALSE]
  /\ UNCHANGED <<row, stopping, relay, minted, called, confirmed>>

\* SIGTERM: service.BeginShutdown.
BeginShutdown(s) ==
  /\ ~stopping[s]
  /\ Fault
  /\ stopping' = [stopping EXCEPT ![s] = TRUE]
  /\ UNCHANGED <<row, queue, worker, relay, minted, called, confirmed>>

\* s is started again, with nothing of what its last process had in memory;
\* PostgreSQL rolls back, and RabbitMQ takes back, what that process held.
Restart(s) ==
  /\ queue' = Returned(s)
  /\ stopping' = [stopping EXCEPT ![s] = FALSE]
  /\ worker' = [worker EXCEPT ![s] = IdleWorker]
  /\ relay' = [relay EXCEPT ![s] = IdleRelay]
  /\ UNCHANGED <<row, minted, called, confirmed>>

\* The process dies at any point, the end of the shutdown grace included.
Crash(s) == Fault /\ Restart(s)

\* A server that has shut down is deployed again.
Redeploy(s) ==
  /\ worker[s].pc = "stopped" /\ relay[s].pc = "stopped"
  /\ Restart(s) /\ UNCHANGED faults

-----------------------------------------------------------------------------
(* Time. *)

\* A timestamp one unit later; older than every reading, it need not move.
Aged(t) == IF t = NoTime \/ t < -MaxStall THEN t ELSE t - 1

AgedRow(r) ==
  [r EXCEPT !.leaseUntil = Aged(@), !.dispatchAfter = Aged(@),
            !.nextRetryAt = Aged(@), !.deadline = Aged(@)]

\* The places where a clock reading waits to be used.
WorkerWaits(s) == worker[s].pc \in {"claim", "txn", "claimed", "finish"}
RelayWaits(s) == relay[s].pc \in {"scan", "reserve"}

\* Time passes unless a provider call would outlive its timeout or a
\* reading would be older than MaxStall when used.
Tick ==
  /\ \A s \in Server :
       /\ worker[s].pc = "calling" => worker[s].clock > -AttemptTimeout
       /\ WorkerWaits(s) => worker[s].clock > -MaxStall
       /\ RelayWaits(s) => relay[s].clock > -MaxStall
  /\ row' = [m \in Msg |-> AgedRow(row[m])]
  /\ worker' = [s \in Server |->
       IF WorkerWaits(s) \/ worker[s].pc = "calling"
       THEN [worker[s] EXCEPT !.clock = @ - 1, !.outbox = AgedRow(@)]
       ELSE worker[s]]
  /\ relay' = [s \in Server |->
       IF RelayWaits(s) THEN [relay[s] EXCEPT !.clock = @ - 1] ELSE relay[s]]
  /\ UNCHANGED <<queue, stopping, minted, called, confirmed, faults>>

-----------------------------------------------------------------------------
RelayStep(s) ==
  \/ RelayReadClock(s) \/ RelayScan(s) \/ RelayCommit(s)
  \/ RelayPublish(s) \/ RelayStops(s)

WorkerStep(s) ==
  \/ Receive(s) \/ Admit(s) \/ ClaimLock(s) \/ ClaimUnknown(s)
  \/ ClaimCollides(s) \/ ClaimCommit(s)
  \/ SkipCall(s) \/ StartCall(s) \/ CallAccepted(s) \/ CallRefused(s)
  \/ Finish(s) \/ Settle(s) \/ WorkerStops(s)

FaultyStep(s) ==
  \/ RelayReserveFails(s) \/ RelayPublishFails(s)
  \/ ClaimFails(s) \/ FinishFails(s)
  \/ ConnectionLost(s) \/ BeginShutdown(s) \/ Crash(s)

Next ==
  \/ \E m \in Msg : Accept(m)
  \/ \E i \in Id : Inject(i)
  \/ \E s \in Server :
       RelayStep(s) \/ WorkerStep(s) \/ FaultyStep(s) \/ Redeploy(s)
  \/ Tick

Spec == Init /\ [][Next]_vars

\* What the deployment keeps doing: time passes, no goroutine stalls for
\* ever, a server that was shut down is started again, and the claims do not
\* for ever come in just the milliseconds in which another transaction holds
\* the row.
Fairness ==
  /\ WF_vars(Tick)
  /\ \A s \in Server :
       /\ WF_vars(RelayStep(s))
       /\ WF_vars(WorkerStep(s))
       /\ WF_vars(Redeploy(s))
       /\ <>[][~ClaimCollides(s)]_vars

FairSpec == Spec /\ Fairness

-----------------------------------------------------------------------------
(* What the delivery of a channel promises. *)

\* Types: rows, copies and transactions keep the shape of entity.Outbox, and the
\* histories hold tokens.
TypeOK ==
  /\ row \in [Msg -> Row]
  /\ queue \in [Id -> 0 .. MaxCopies]
  /\ stopping \in [Server -> BOOLEAN]
  /\ worker \in [Server -> Worker]
  /\ relay \in [Server -> Relay]
  /\ minted \in [Msg -> Nat]
  /\ called \in [Msg -> SUBSET Nat]
  /\ confirmed \in [Msg -> SUBSET Nat]
  /\ faults \in 0 .. MaxFaults

\* A submission with a retry limit gets at most limit + 1 provider calls,
\* whatever crashes, duplicates and lost answers come between: attempts is
\* raised in the transaction of Claim, before the call, and a claim is good for
\* one call (a worker about to call holds a token under which none was started).
CallsWithinBudget ==
  /\ \A m \in Msg :
       row[m].maxRetries >= 0 => Cardinality(called[m]) <= row[m].maxRetries + 1
  /\ \A s \in Server :
       worker[s].pc = "claimed" =>
         worker[s].outbox.token \notin called[worker[s].id]

\* What a row can be told to wait for: its schedule, a backoff, a lease, the
\* answer to a notification.
Waits == ScheduleDelays \cup BackoffDelays \cup {Lease, Interval}

\* No unfinished row is ever put off for longer than one of these, and then the
\* query of ReserveDispatch finds it, whoever died with it in hand, whatever answer
\* was lost and however old the copy that Finish wrote.
NoneForgotten ==
  \A m \in Msg :
    row[m].state \in {"pending", "failed", "sending"} =>
      \E d \in Waits : Due(row[m], d)

\* A row is given up only when the retries are used up or its retry age is
\* reached, although three places of the code can declare it dead, two of
\* them from a copy or a clock reading that is not the latest.
GivesUpOnlyWhenExhausted ==
  \A m \in Msg :
    row[m].state = "dead" =>
      \/ row[m].maxRetries >= 0 /\ row[m].attempts > row[m].maxRetries
      \/ row[m].deadline # NoTime /\ row[m].deadline <= 0

\* A provider call is never prepared before the row is due (send_at, backoff)
\* nor from a claim read at or after the retry deadline, however late or
\* often its notification arrives.
AttemptsInWindow ==
  \A s \in Server :
    LET o == worker[s].outbox
    IN  worker[s].pc = "claimed" =>
          /\ o.nextRetryAt = NoTime \/ o.nextRetryAt <= 0
          /\ o.deadline = NoTime \/ o.deadline > worker[s].clock

\* When a lease outlives the longest stall and the longest call together,
\* no two workers are in provider calls for one row at the same time.
OneCallAtATime ==
  MaxStall + AttemptTimeout < Lease =>
    \A s, t \in Server :
      worker[s].pc = "calling" /\ worker[t].pc = "calling" /\ s # t =>
        worker[s].id # worker[t].id

\* A row becomes sent only under a token with which the provider took the
\* message: a worker that lost its lease cannot record its own success over
\* the attempt that replaced it.
SentUnderWinningClaim ==
  [][\A m \in Msg :
       row[m].state # "sent" /\ row'[m].state = "sent" =>
         row[m].token \in confirmed[m]]_vars

\* Nobody takes a row from the worker that leases it: until the lease runs
\* out, its token goes away only in the Finish of the worker that holds it.
LeaseProtects ==
  [][\A m \in Msg :
       row[m].token # NoToken /\ row'[m].token # row[m].token =>
         \/ row[m].leaseUntil <= 0
         \/ \E s \in Server : /\ worker[s].pc = "finish" /\ worker[s].id = m
                              /\ worker[s].outbox.token = row[m].token]_vars

\* A row that is sent or dead stays so: no late notification, relay or
\* completion brings it back.
TerminalIsFinal ==
  [][\A m \in Msg :
       row[m].state \in Terminal => row'[m].state = row[m].state]_vars

\* Every accepted submission ends sent or dead, with nothing lost for good
\* between PostgreSQL, the queue and the provider.
EveryAcceptedEnds ==
  \A m \in Msg : row[m].state # "none" ~> row[m].state \in Terminal
=============================================================================
