# Verification of kaftar

kaftar accepts messages over HTTP and AMQP, stores each as a row of a
PostgreSQL outbox, and delivers it to a provider (Mattermost, Bale, SMS,
e-mail, HTTP) through RabbitMQ notifications. This directory holds TLA+
specifications of that machinery, the TLC runs that check them and the proofs
that TLAPS checks. Paths below are relative to `src/server/` unless they begin
with `docs/`.

## 1. The system

| part | code | state | operations |
|---|---|---|---|
| outbox row | `internal/repository/outbox_repo/delivery.go`, `internal/repository/model/outbox.go` | state, attempts, retry count, lease token and end, dispatch and retry times, deadline | `ReserveDispatch`, `Claim`, `Finish` |
| relay | `internal/service/service.go` `relay` | batch in hand, clock reading | reserve due rows, publish a notification for each |
| consumer | `service.go` `consume`, `consumeConnection`, `handleDelivery` | delivery in hand, copy of the row | claim, call the provider, finish, settle |
| publishing | `service.go` `publish`, `awaitConfirmation` | a channel, returns, confirmations, a five-second context | publish one notification with confirmation |
| broker connection | `service.go` `mqConnection`, `pkg/rabbitmq` | one connection per process, shared | dial, close under a deadline |
| submission | `service.go` `Send`, `accept`; `outbox_repo/repo.go` `Create`, `Delete`; `migrate.go` | rows, unique index on (channel, key) | accept by HTTP or AMQP, deduplicate |
| lifecycle | `service.go` `New`, `BeginShutdown`, `Shutdown`; `internal/app`, `cmd/main.go` | `stopping`, three contexts | start, drain, stop |
| retry schedule | `service.go` `retryDelay`, `durationJitter`, `retryLimitReached` | none | backoff |
| health | `internal/observability/health.go`, `service.go` `Health` | worker health | liveness, readiness |
| metrics and statistics | `internal/observability/metrics.go`, `repo.go` `Stats` | gauges | periodic refresh, scrape |
| migration | `outbox_repo/migrate.go` | schema version | upgrade of old rows |
| providers | `internal/service/{mattermost,bale,sms,email,http,providerhttp}` | none | one call per attempt |
| HTTP API | `internal/api/http`, `internal/api/dto` | none | decode, `Send`, status codes |

How they interact. The row is the only authority. The relay of any server puts
a notification with the row's id into the channel's queue and marks the row
dispatched for ten seconds; the consumer of any server takes a notification,
claims the row under a token and a lease of sixty seconds, calls the provider
for up to thirty, and finishes the row with an UPDATE fenced by the token. A
row whose lease ran out is recovered by the relay that meets it. Notifications
may be lost, repeated or late: the relay publishes again, and `Claim` decides.
The goroutines of a process share one AMQP connection.

What is hard. Servers act on clock readings taken before their transaction
opens; row locks are taken with SKIP LOCKED, so that a colliding claim looks
like an unknown id; any commit may succeed with its answer lost; a process may
die between any two steps; a lease may run out during a call; a publication
that is over time closes everybody's connection; two submissions may race for
one key across servers; a message may be requeued for ever or dropped too soon.
`PROJECT.json` lists each hazard at its line.

What makes each part correct.

* rows: terminal states are final; a token fences its attempt; the budget of
  `max_retries + 1` calls is kept under every failure, and used up before a
  row is given up; attempts stay between schedule and deadline.
* relay and consumer: every accepted row ends sent or dead; one call per claim;
  calls for a row do not overlap while leases are long enough.
* publishing: success means routed; it always returns; it spares the shared
  connection unless its time is over.
* submission: an acknowledged submission is stored, one id per key, conflicts
  are real, no direct message is lost or goes round for ever.
* connection: one for all goroutines of a process, whoever breaks it; nobody
  waits for it for ever; nothing stays open after a clean shutdown.
* lifecycle: an attempt that began before the signal is recorded if the grace
  period covers it; an exit without an error left nothing behind; the shutdown
  ends.
* health: an answer in time, true of this request, that blames the right
  component, although a call may never return.
* metrics: no mixture of two refreshes, nothing hidden between two statements,
  counters that agree with the rows.
* migration: no server on a table half migrated, no old row lost or robbed of
  its budget.
* providers: sent means taken by everyone; a repetition needs a lost answer;
  nothing goes to an address, or out of a protection, it must not; an attempt
  ends.
* HTTP API: repetitions of a request are one message however they are spelled.

## 2. Modules

| module | models | role |
|---|---|---|
| `OutboxRow` | `delivery.go` and the row arithmetic of `accept` and `handleDelivery` | pure operators on one row |
| `Delivery` | `relay`, `consumeConnection`, `handleDelivery` with an id, and their transactions | the state machine of one channel |
| `OutboxPromise` | what `docs/queue-contract.md` lets a submitter rely on | abstract specification of one message, without servers, leases or clocks |
| `DeliveryPromise` | | refinement mapping from `Delivery` to `OutboxPromise` |
| `DeliveryInv`, `DeliveryProofs`, `PromiseProofs` | | inductive invariant, theorems, the refinement proved |
| `Submission` | `Send`, `accept`, `Create`, `Delete`, the direct branch of `handleDelivery` | how submissions become rows |
| `SubmissionPromise` | what the same contract lets a submitter rely on before delivery | abstract specification of a table with a key, without threads, transactions or a queue |
| `Publish` | `publish`, `awaitConfirmation` | what is one step, `RelayPublish`, in `Delivery` |
| `Connection` | `mqConnection`, `consume`, `consumeConnection`, `Shutdown`, `pkg/rabbitmq` | the connection under all of these |
| `Lifecycle` | `main`, `app.New`, `app.Shutdown`, `http.Shutdown`, `service.Shutdown` | a process from start to exit |
| `Health` | `health.go`, `service.Health`, `rabbitmq.Check` | one readiness or liveness request |
| `Collector` | `StartOutboxCollector`, `refreshOutbox`, `Stats` | gauges over a moving table |
| `Counters` | `ObserveDeliveryAttempt`, `ObserveDeliveryResult` and where they are called | counters beside the rows |
| `Migration` | `migrate.go`, and `ReserveDispatch` on what it leaves | servers that upgrade a table together |
| `HttpApi` | `internal/api/http/handler`, `internal/api/dto`, `internal/entity` | requests, validation, normal form, status codes |
| `ProviderCalls` | `mattermost`, `bale`, `sms`, `providerhttp` | the calls of an attempt and what is made of their answers |
| `Smtp` | `email/sender.go`, `email/smtp.go` | an SMTP session command by command |
| `Webhook` | `http/sender.go`, `http/destination.go` | an attempt at a webhook under the destination policy |
| `RetrySchedule` | `retryDelay`, `durationJitter` | the waits between attempts |
| `MCDelivery`, `MCSubmission`, `MCRequests` | | instances for TLC |
| `MCServer` | `Lifecycle`, `Connection`, `Health` | one process: the three models side by side |
| `MCMetrics` | `Collector`, `Counters` | gauges and counters side by side |
| `MCMessages` | `HttpApi`, `Migration`, `RetrySchedule`, `ProviderCalls`, `Smtp`, `Webhook` | what a message meets around its delivery |
| `SubmissionProofs`, `PublishProofs`, `LifecycleProofs` | | theorems about these modules |
| `ServerProofs`, `MetricsProofs`, `MessagesProofs` | | theorems about the models side by side |

How they fit together. `Delivery.Accept` is what `Submission.Commit` does to the table;
`Delivery.RelayPublish` and `RelayPublishFails` are the two outcomes of
`Publish`, which is why the failing one may or may not leave a notification in
the queue. `Publish` has one publication in detail and the connection as a flag;
`Connection` has the connection in detail and a publication as one step. A call
to the provider is one step in `Delivery`, taken or not, its answer lost or not:
`ProviderCalls`, `Smtp` and `Webhook` have what is inside it. `Counters` and
`Migration` extend `OutboxRow`, so that they move rows with the operators
`Delivery` uses.

`MCServer`, `MCMetrics` and `MCMessages` put models that share no variable
into one state space, one alive at a time. They do not interact in the code
either, except through what each of them already has as its environment (a
shutdown, a changing table, a lost answer): their product would multiply the
states and show nothing more. In each behaviour of such a module one of the
models starts from any of its initial states while the others are at an end they
do reach.

### Delivery

* `row` is the committed table. A transaction is two steps: the one that locks
  (`RelayScan`, `ClaimLock`) and the one that commits (`RelayCommit`,
  `ClaimCommit`), with the rows locked in between. `RelayReserveFails` and
  `ClaimFails` roll back, or commit and lose the answer, be it a claim or a row
  that `Claim` gives up. `Finish` is one UPDATE that waits for the lock.
* `relay[s].pc`: `idle` is the pause, `scan` after `time.Now()`, `reserve` with
  locked rows, `publish` with a batch in order of (created_at, id).
* `worker[s].pc` follows `handleDelivery`: `got` before the stopping check,
  `claim` after `time.Now()`, `txn` with the row locked, `claimed` with a copy
  of the row, `calling`, `finish`, `settle`.
* Time is relative: a timestamp t is the instant t units from now, a clock
  reading is 0, and `Tick` ages every timestamp and every reading in use.
  That makes the state space finite without a bound on how long a run lasts.
  A timestamp older than every reading that may still be used stays where it
  is; no comparison can tell. The servers' clocks are synchronized, as
  `docs/queue-contract.md` requires.
* `Tick` waits for a reading to be used before it is older than `MaxStall`, and
  for a provider call to end within `AttemptTimeout`. Both are constants; the
  proofs hold for every value of them.
* `queue[i]` counts copies, `MaxCopies` standing for "many": a further copy of a
  notification behind that many changes nothing but the number of duplicates.
* Crashes, shutdowns, failed calls, lost answers, lost connections and stray
  notifications draw on `faults`; the budget bounds TLC's runs, and the
  theorems hold for every budget. A shutdown cancels the relay's transaction
  and publication, and closes the connection, without a further fault.
* Left out: the pauses of one second (an `idle` step may take any time), the
  relay's loop over channels, log lines and metrics, the text of errors.

### Submission

A thread is a goroutine that serves one submission at a time; a direct message
is given back to the queue when its thread dies or refuses it. The INSERT is a
step of its own from its COMMIT: another INSERT of the same key waits in
between, as PostgreSQL's unique index does, which is the guard of `Insert`. The
SELECT after a conflict sees a later state of the table. `told[u]` collects the
answers that reached the submitter or the broker. Keys stand for pairs of
channel and key, contents for fingerprints. `Malformed` and `Disabled` are the
submissions that validation or a missing sender refuses.

`SubmissionPromise` has two variables, the entries and the answers, and two
steps: an entry is recorded under an id and a key that no entry has, or an answer
is given that is true of the entries of that moment. An acceptance of a
submission without a key names an entry of its own; a message is told nothing
that is not for good. The mapping (`Promise` in `Submission`) forgets threads,
queue and the deletion mark: an entry whose row is deleted still counts.

### Publish

The steps of `publish` that wait for the broker (`Answered`), the write, the
select of `awaitConfirmation` with every ready case possible, the deferred
calls in their order, and the goroutine of `AfterFunc`, which closes the
connection it was given even when `publish` has gone on. The broker answers in
order, returns a mandatory message that no queue takes before it confirms it,
may die, may lose the queue, or may never answer. The context may be over at any
moment after the dial: by its five seconds or by a shutdown.

### Connection, Lifecycle, Health

`Connection`: a user's `pc` says whether it waits for `connectionMu`, dials,
sets up or serves; `closing` are the `AfterFunc` hooks that have fired and
still have to close the connection they were given, which may no longer be
`current`. The broker may kill a connection, fall silent, and speak again.
`close` is the deferred `channel.Close`, an RPC that waits for the broker's
close-ok. A publication waits there with its hook armed. A consumer has disarmed
its set-up hook by then (`service.go:366`), so that a silent broker holds it until
the heartbeat of ten seconds that `pkg/rabbitmq` asks for gives the connection up
(`HeartbeatMissed`), or the end of the grace period cancels `workCtx`
(`WorkHookCloses`, whose deferred `stopWork` comes after the close).

`Lifecycle`: `main` follows `main()` through `app.New`, the signal, and the
steps of the shutdown in their order. A call takes time and is broken off when
its context is cancelled; `Limit` is what the code grants each. `stall` bounds,
per behaviour, database calls and dials, which have no limit of their own;
`GraceCoversAttempt` speaks of behaviours in which two stalls and a call fit
into the grace period, `ShutdownComplete` of all.

`Health`: the two reads of `service.Health`, a goroutine per dependency and a
watcher per check, both timeouts. Local checks make no call and are one step. A
call may never return, not even after its context is over: `RequestEnds` is that
the request is answered all the same.
`Found` (in `MCServer`) takes one of several states that are alike.

### Collector, Counters

`Collector` has each statement of `Stats` and each operation on a gauge vector
as a step; rows move in between. `WithLabelValues` creates a gauge, which shows 0
until the `Set` after it: two steps, and a scrape may come between them.
`published`, `steady` and `seen` are history; `published` is what the last good
refresh wrote to a vector, nothing once the vector is reset. `NeverMixed` is
therefore that a vector has the values of the last good refresh or some of the new
ones (`PartOf`), with one gauge at most still at its first 0.
`Counters` has a delivery attempt in the steps between which it is observed; its
`Finish` may also fail while the lease is in force, with the row written or not.

### Migration

The transaction of `Migrate` under the advisory lock, with its loop over the old
rows as steps, on a copy that the commit makes the table. `RefusedForOwner` is
that a server is refused over keys that two rows have, or that have no
fingerprint, and over nothing else. Some of the old rows are soft-deleted: gorm's
query for duplicates and the loop pass over them (`Live`), the unique index does
not (`NotUnique`). A key that a live and a deleted row share therefore gets as far
as `CREATE UNIQUE INDEX` (`migrate.go:74`), and the server is refused with the
database's error in place of the message about owner reconciliation.

### HttpApi

A request is a record of what the handlers tell apart: whether its body binds,
its query parses, a field is empty. `Normal` is the message that is stored and
fingerprinted. SMS recipients are sequences of small values with blanks and
repetitions, since their order and number matter to the sender.

### ProviderCalls, Smtp, Webhook

Each has several attempts at one message, with the provider free in its answers:
of `ProviderCalls` in status, body and, for SMS, the number of entries and of those
accepted. `sms/sender.go:64` compares numbers and not whose entries they are, so
that "sent means taken" needs a provider that accepts no more entries than it took
(`Honest`). For mail it is that the session that counts as sent had its message
taken for every recipient, and that none is taken for some only.
`unknown` and `lost` count attempts after which the sender cannot know;
repetitions are measured against them. `Smtp` has the thirty-second deadline
and the context that race, `Webhook` the resolver, which may answer differently
at each attempt, and the connection that is kept between two.

### Variants

An operator whose comment begins with "Variant:" is not part of a model. It is
the operator after it with a slip, such as a guard dropped, a token not reset or
a wrong error class. Replacing the one by the other makes the property that is
meant to notice fail; `PROJECT.json` (`mutants`) pairs them.

## 3. Runs

| run | instance | distinct states | question |
|---|---|---|---|
| `DeliveryLeaseHeld` | 2 servers, 1 row, lease 3 > stall 1 + call 1 | 230 481 | overlapping calls, stolen leases |
| `DeliveryLeaseLost` | 2 servers, 1 row, lease 1 < call + stall | 718 341 | the inductive invariant; late completions; every step a step of the promise |
| `DeliveryFaults` | 1 server, 1 row, 2 faults, limits none and 1, schedule, retry age, lease 1 | 854 962 | budget, schedule; no row put off too long; every accepted row ends |
| `DeliveryBatch` | 1 server, 2 rows in a batch, one undecodable, 1 fault | 367 494 | every accepted row ends |
| `SubmissionRivals` | 2 threads, 3 rivals for a key, 2 tries, 2 faults, 1 deletion | 1 681 175 | true and consistent answers; every step a step of the promise |
| `SubmissionMessages` | 2 threads, 3 direct messages (keyed, unkeyed, invalid) and a request to a disabled channel, 2 faults | 185 045 | kept, answered as promised, settled; rows paid for by faults |
| `PublishSmall` | 2 publications, 2 faults | 2 106 | success is routed, always returns, spares the connection |
| `ServerWhole` | a request, a worker, a relay; 2 faults, 5 dials; 2 dependencies, 2 channels, 1 change during the request, component timeout below and equal to the check's | 160 386 | complete shutdown, one connection, true and timely readiness, nothing hangs |
| `MetricsTrue` | 2 rows on one or two channels and 1 failed refresh; 2 messages, 2 workers and 1 lost attempt | 611 074 | gauges and counters agree with the rows, gauges catch up |
| `MessagesAround` | 3 requests of 4 channels; 2 servers and 2 old rows, 1 crash; 3 attempts at each kind of provider; 11 waits | 242 044 | one message under every spelling, upgrade, sent means taken, explained repetitions, permitted destinations, growing waits |
| `SubmissionDeleted` | 1 thread, 3 rivals, 1 deletion | stops at the violation | finding 1 of section 7 |
| `CountersDead` | 2 messages, 2 workers, a retry age, no fault | stops at the violation | finding 2 of section 7 |

Why these bounds. Overlap and lost leases are between two parties, so two
servers and one row reach them; the lease takes both sides of stall plus call.
In `DeliveryFaults` one server stands for several in succession: a lease of one
unit lets its relay recover the row while its own worker is still calling, and
redelivery brings a second attempt. Two faults allow a failure during the
recovery from another. A limit of one retry is the smallest with a failed and
a last attempt, -1 is the unlimited one, 0 is in `DeliveryBatch`. A batch of
two is the smallest that can break off. Three rivals for a key, by HTTP and by
AMQP and one of other content, have all pairs; two tries are a retry. A direct
message without a key that is stored, loses its server before the ack and is
delivered again becomes a second row, and one under a key does not: both are in
`SubmissionMessages`, where `DuplicatesNeedFaults` counts rows against faults, and
two faults allow a third row. Two publications are what one closing hook needs to hit the next one.

In `ServerWhole` the grace period is four units, a provider call one, and a stall
one or two: with one, two stalls and a call fit into it, with two they do not. A
worker and the relay are the two that fight over a connection; five dials let
each lose its connection twice. `MetricsTrue` needs two rows for a channel to
keep one while it loses the other and for two channels, and a row that is due
later for an age below zero. In `MessagesAround` the eleventh wait is the first
that must not grow; three attempts are a lost answer, a repetition of it, and one
more that nothing explains; the old rows are one of each kind that `Migrate` and
`ReserveDispatch` treat differently; body limits of zero and one with bodies of
up to two are below, at and above the limit.

Servers (or threads) are interchangeable, so the safety runs with two of them
use symmetry; no run with liveness does.

`CHECK_DEADLOCK FALSE` stands where a bounded number of submissions or
publications comes to its end. The `Delivery` runs check deadlock: `Tick` is
always to come.

## 4. Fairness

`Delivery`: weak fairness of `Tick`, of each relay and each worker (goroutines
run, and the operations they wait for end by timeout), and of `Redeploy` (a
server that was shut down is started again). Faults have none, and their number
is bounded in a run: no system with unbounded failures delivers. One assumption
is not about scheduling: `<>[][~ClaimCollides]`, that claims do not for ever
hit just the moment in which another transaction holds the row. A collision
drops the notification, and the relay's next round, ten seconds later, publishes
another; a system in which each of these collides again would never deliver, and
the code has nothing against it but probability.

Rows without a retry limit end by their retry age or by a provider that takes
them; with neither, "every accepted row ends" is not promised, and no run
asks for it.

`Connection`: weak fairness of every goroutine, strong fairness of taking the
mutex (Go's mutex starves nobody) and weak fairness of the heartbeat, since the
client library closes a connection on which nothing comes by its own clock. There
is none of the broker's answers; that consumers come to be connected is claimed
under the premise that it stays with them. `Lifecycle`: weak fairness of main, each
goroutine and time; a request may never end, and the shutdown must not wait for it.
`Health`: the handler, the watchers and time; none of dependencies, nor of the
goroutines that call them. `Collector`: the collector's goroutine. `Smtp` and `Webhook`: only time, and what happens once it is over; the
server may never answer. `Migration`: servers are started again, rows for the
owner are put right, time passes.

`Submission`: weak fairness of each thread and of its redeployment. `Publish`:
weak fairness of the relay's own steps and of the clock, none of the broker's.

## 5. What is proved

Every theorem below is about a specification of section 2, for every value of
its constants that satisfies the named assumptions of its module, and is derived
from those assumptions alone. A module's bounds on faults, tries, dials, attempts
and the like are constants too: a theorem holds for each of their values.

| module | is about | for any |
|---|---|---|
| `DeliveryProofs` | `Delivery` | servers, natural numbers as messages, leases, timeouts, retry limits |
| `PromiseProofs` | `Delivery` as an implementation of `OutboxPromise` | the same |
| `SubmissionProofs` | `Submission` | submissions, keys, contents; finitely many threads |
| `PublishProofs` | `Publish` | number of publications and faults |
| `LifecycleProofs` | `Lifecycle` | requests, workers, grace period, duration of calls |
| `ServerProofs` | `MCServer`: `Lifecycle`, `Connection`, `Health` | consumers, dials, channels, dependencies' changes, health timeouts |
| `MetricsProofs` | `MCMetrics`: `Collector`, `Counters` | finitely many rows and messages, channels, workers, limits, leases |
| `MessagesProofs` | `MCMessages`: `HttpApi`, `Migration`, `RetrySchedule`, `ProviderCalls`, `Smtp`, `Webhook` | finitely many requests; old rows, servers, recipients, addresses, limits |

None of the invariants that the runs check is inductive as it stands. Each proof
module states the strengthening it needs as a conjunction of named parts, and has
one lemma for each action or kind of action. In a module that puts several
models side by side the strengthenings are proved one model at a time:
a step of another model leaves this one's variables alone.

### Delivery and its promise

| theorem | statement |
|---|---|
| `Invariance` | `Spec => []Inv` |
| `TypeCorrect` | `Spec => []TypeOK` |
| `BudgetKept` | at most `max_retries + 1` provider calls, one per claim |
| `GivenUpLast` | dead means exhausted |
| `AttemptsOnTime` | attempts between schedule and deadline |
| `CallsExclusive` | no overlapping calls if `MaxStall + AttemptTimeout < Lease` |
| `RowsComeUp` | `NoneForgotten`: an unfinished row is due again within its schedule, a backoff, a lease or an interval |
| `TerminalKept` | sent and dead are final |
| `SuccessIsGenuine` | sent only under a token with which the provider took the message |
| `LeasesRespected` | only the holder ends a lease that has not run out |
| `MappingInvariance` | the lease in force is the last claim's, and its holder judges by the row's deadline |
| `Implementation` | `Spec => PromiseKept`: first states map to first states, each step to a step of the promise or to none |

What a worker may do depends on the copy of the row it carries, and the row may
change under it. `Inv` says what the copy still means.

* `LeaseShape`: a row has a token exactly while it is sending.
* `AttemptsCounted`, `CallsUnderTokens`: attempts equals the number of tokens
  handed out, calls are made under those tokens only. With the guard of `Claim`
  this bounds the calls: the budget is a bound on tokens, not on notifications.
* `ClaimsExclusive`: a token in a worker's hands is in no other's, and was used
  for a call exactly if the worker is past that point.
* `CopyFaithful`: the copy has the row's limit, its attempts while the token is
  the same, and an outcome that agrees with what the provider did. The fence of
  `Finish` turns this into `SentUnderWinningClaim`.
* `LocksExclusive`, `SelectionHolds`: what a transaction read under its locks
  is true when it commits.
* `ClocksBounded`, `LeaseOutlivesCall`: readings are at most `MaxStall` old, so
  a lease dated from one still has `Lease - MaxStall` to run when the call begins.

There is one lemma per kind of step: steps that change no row
(`RelayQuiet`, `WorkerQuiet`, `ServerQuiet`, `InjectQuiet`), the transactions
(`AcceptStep`, `RelayCommitStep`, the claim and finish steps), the beginning and
the end of a call, and `TickStep`. Action properties follow from `Inv` by
`RowMoves`, which says that a step that changes a row is a submission, a
reservation, a claim, a completion or the passage of time.

`NoneForgotten` is the part of `EveryAcceptedEnds` that needs no fairness: no death
of a server and no lost answer leaves a row with a timestamp so late, or so null, that
the relay's query never comes to it. Its own strengthening is `WaitsBounded`, since
`Finish` writes the retry time of a copy that has aged with the row.

The refinement mapping reads the phase off the row's state, the number of
attempts off the tokens handed out, and whether the retry age is reached off the
deadline. The proof tells the story of each kind of step (`BySubmission`,
`ByRelay`, `ByClaim`, `ByProvider`, `ByFinish`, `ByTime`) and shows what it does
to one row. `MappingInv` is needed because a completion is only a `Succeed` or a
`GiveUp` of the current attempt if the token it matched is the current one.

### Submission

| theorem | statement |
|---|---|
| `Invariance`, `TypeCorrect` | `Spec => []Inv`, `Spec => []TypeOK` |
| `AcceptedIsStored` | `AnswersAreTrue`: what a submitter was told is stored is stored, with its key and content; only a row of other content makes a conflict |
| `KeysHaveOneId` | `OneIdPerKey`: whoever is accepted under a key is told the same id |
| `MessagesKept` | `MessageKept`: no direct message is lost that is neither stored nor refused for good |
| `DuplicatesArePaid` | `DuplicatesNeedFaults`: at most one row for each time sent and each fault, at most one under a key |
| `PromiseIsKept` | `Spec => KeepsPromise`: `Submission` implements `SubmissionPromise` |

* `IndexHolds` is the unique index over transactions as well as rows: of a key
  there is one row, or one thread between its INSERT and its COMMIT.
* `AnswersBornOut` extends the answers given to those a thread is about to give:
  between the SELECT that decided an answer and the reply, rows are only added or
  marked deleted, so the table goes on bearing it out (`StillBornOut`).
* `DeliveriesCounted`, `RowsCounted` are an account: rows, waiting deliveries and
  threads that may still store are paid for by times sent and faults. A row that
  a commit with a lost answer leaves behind is paid for by that fault, which is
  why the conclusion counts faults and not retries.
* `PromiseInv` is what the refinement needs besides. `Numbered`: ids are handed
  out in order and none twice, neither to two rows nor to a row and a thread that is
  between INSERT and COMMIT; with `IndexHolds` a commit is therefore a
  `Record` of the promise. `Promised`: the answer a thread carries already is one
  the promise allows, and entries are never taken back, so it still is when it is
  given (`HoldsStays`). A commit whose answer is lost is a `Record` and no reply.
  Deletion changes no entry, which is why the promise needs none.

### Publish

| theorem | statement |
|---|---|
| `Invariance`, `TypeCorrect` | `Spec => []Inv`, `Spec => []TypeOK` |
| `ReportedIsRouted` | `ConfirmedMeansRouted`: success means that the queue has the notification |
| `ClosedForAReason` | `ConnectionSpared`: only the network, or a publication whose time is over, closes the shared connection |

`AnsweredOnce` lists the four things the broker may owe a channel, and
`AckFollowsReturn` says that an ack that is on its way or has come belongs to a
message the queue has taken or follows its return. The order of the two frames is
all that `awaitConfirmation` has to go by; the preference it gives to a return
that is ready with an ack is what the lemma `AwaitStep` turns on.

### One process

| theorem | statement |
|---|---|
| `LifeInvariance`, `LifeTypeCorrect` | the invariant and the types of `Lifecycle` |
| `GraceIsEnough` | `GraceCoversAttempt`: if two stalls and a call fit into the grace period, no attempt's outcome is lost |
| `NothingLeftBehind` | `ShutdownComplete`: a shutdown without an error left no goroutine, request or attempt |
| `ServerInvariance`, `ServerTypeCorrect` | the same with `Connection` and `Health` |
| `OneForAll` | `ConnectionShared`: one open connection, late hooks hit the connection they were set for, none is left open |
| `AnswersAreFresh` | `ReadinessIsTrue`: in time, about this request, with the true cause |
| `ServerShutsDown` | both of `Lifecycle`'s, in `MCServer` |

`AttemptsBegan` relates two clocks: an attempt that is under way during a shutdown
began before it, so the grace period has lost no more than the attempt has taken,
call by call. `WaitedFor` is what main has waited for at each of its stages,
unless it gave up. Of the guard of `Tick` the proofs use only that no call outlives
its limit, so they hold even if main and the goroutines dawdle.

`DialledWhenDead` is what keeps connections apart: a goroutine that holds the
mutex found the current connection dead, and a dead connection does not come back.
For a readiness request `True` and `PastIsKept` compare a verdict with what was up
and down since the request began, `Results` carries that across the time in which
a call has returned and nobody has read its result, and `Reports` keeps what has been
read.

### Metrics

| theorem | statement |
|---|---|
| `ScrapesAreTrue` | `GaugesTrue`: values of one refresh or a part of them, nothing hidden, no age of a row that did not wait |
| `CountersAreTrue` | `CountsTrue`: counters and rows agree but for lost answers and dead workers |
| `MetricsTypeCorrect` | `MetricsTypeOK` |

`CountsWritten` and `AgesWritten` say at each stage of `refreshOutbox` which gauges
are set, that no more than one is only created, and that the ages are those of one
reading of the clock. `Backlog` and `Covered` carry a row that waits through the whole refresh from the
statement that counted it to the gauge that shows it, although other rows of its
channel come and go in between; `Witnessed` does the opposite for ages.

The account of the counters, `Totals`, is about sums over all rows: attempts on
the rows' accounts, attempts observed, results. A step changes one row and one
worker's hand, so each of these moves by at most one (`AccountsGained`,
`HandFacts`, `TotalsMove`). `LeaseNamed` is needed because `Finish` writes a whole
copy: a copy whose token is the row's has the row's attempts too.

### Around the delivery

| theorem | statement |
|---|---|
| `WaitsTypeCorrect`, `LevelOut`, `Grow` | waits stay in their ranges, level out at fifteen minutes and a tenth, and grow until then whatever the jitter (`WaitsGrow`) |
| `AnswersAreRight` | `AnswersAgree`: a repetition gets the id it had however it is spelled, and only a different request a conflict |
| `RequestsAreRight` | `RequestsAgree`: that, and the sender, which validates a stored message again, sends what was fingerprinted |
| `UpgradeIsWhole` | `NothingHalfMigrated`: the safety part of `Upgraded` |
| `EndsAreExplained` | `EndsForReason`: the safety part of `AttemptEnds` |
| `SentIsTaken` | `SentMeansTaken`: sent was taken for everyone, with every sender |
| `RepetitionsExplained` | `RepeatsExplained`: nobody gets a message again but after a lost answer, no post without its file |
| `PolicyHolds` | `OnlyPermitted`: no blocked address, nothing of a refused message, no password outside TLS |
| `MessagesTypeCorrect` | `MessagesTypeOK` |

* The API: `ApiInv` ties every answer to a row with the request's fingerprint
  (`ToldStored`, `ConflictStored`) and `PrintsTell` shows that two requests have
  one fingerprint exactly if they mean the same, for every channel and spelling.
  That the sender agrees (`NormalStays`) is a fact about recipients of any number:
  tidying them twice is tidying them once. `Picked` names the places of a list that
  are kept, `Least` (every set of natural numbers that is not empty has a least
  member) stands in for induction to enumerate them (`Enumerated`), and
  `CompactedFacts` shows that no two neighbours of what is left are the same.
* The migration: while a server has the lock (`OneMigrator`), the rows the loop has
  visited are filled in and the others are as they were (`RowsFilled`), and no
  later reservation undoes that (`ReservedFacts`).
* The attempts: whoever has the message before an attempt succeeds got it in one
  that failed with its answer missing (`TakenUnknown`, `TakenLost`); an SMTP
  session has named all recipients before it sends the message (`AllNamed`); every
  address still to be dialled has been judged (`AllPermitted`).
* Ends: an SMTP session that is cut short has a deadline or a cancellation to name
  (`MailEndsInv`); while a webhook dials, what it has reached and what it has
  still to dial are together what it looked up (`HookEndsInv`).
* The types have bounds that no single step shows, so they have an invariant of
  their own (`ProviderBounds`, `MailBounds`, `HookBounds`): a webhook's server may
  take a message twice in one attempt, since a request on a kept connection that
  breaks is made again, so `HookBounds` counts how often it still may.

TLC has checked each strengthening on the instance of its run before it was proved.

Assumptions that are not mere types: a message has a number other than the
stranger's; leases, timeouts and limits are natural numbers; there is a submission, a
channel, a recipient, and an address the policy permits, so that a model that is
"over" can be; a second has at least five clock units, so that a tenth of the
smallest wait can be told (the code's has 10^9); the row `Migrate` meets is one the
old version could leave. All are in the modules that declare the constants, and
TLC evaluates them in the runs.

## 6. Only model-checked

* Liveness: `EveryAcceptedEnds`, `MessagesSettled` (in `SettledAsPromised`),
  `PublicationEnds`, `NothingHangs`, `GaugesCatchUp`, of `AttemptEnds` that an
  attempt does end, and of `Upgraded` that every old row comes back
  (`LegacyRowsReturn`). Fairness speaks of ENABLED, which this prover does not
  treat. What of these is safety is proved: `NoneForgotten`, `KeepsPromise`,
  `NothingHalfMigrated`, `EndsForReason`.
* The two findings of section 7, which are counterexamples.

A run shows these for its instance alone.

## 7. Findings

1. Deletion does not free a key. `docs/queue-contract.md:36`: "Deleting a row ends its deduplication
protection." `repo.Delete` sets `deleted_at` and leaves the row
(`repo.go:67-69`, `model/base.go:12`). The unique index (`migrate.go:74`) holds
deleted rows too, so a later submission with the key inserts nothing, and the
SELECT of `Create` (`repo.go:32`), which gorm restricts to undeleted rows,
finds nothing. `Create` then returns gorm's record-not-found error: HTTP answers
500, and a direct message is requeued again and again. `SubmissionDeleted` shows
the submission that is kept from inserting by a row nobody can find. No code of
the server calls `Delete` today; an SQL DELETE by an operator does free the
key.

2. Not every dead message is counted. `metrics.go:91-95` describes a counter of
"Total messages transitioned to dead by channel." Only `ObserveDeliveryResult`
adds to it, with what `handleDelivery`'s own attempt came to. A row that
`ReserveDispatch` or `Claim` declares dead (`delivery.go:36-40`), because the
attempt that used up its budget was lost or its retry age was reached while it
waited, is counted nowhere. `CountersDead` shows such a row.

A remark without a run: `docs/observability.md:98-99` says that nonpositive
health timeouts fall back to their defaults. `NewHealth` (`health.go:95-97`) gives
a nonpositive component timeout the value of the whole check's timeout instead,
three seconds by default and not two. `ServerWhole` checks readiness under both
that value and a shorter one.

## 8. Not modelled, and the plan

Not modelled: configuration, logging and the opening of the database, which run
once and keep no state a behaviour depends on (that they may fail is in
`Lifecycle`); the HTTP middleware's request counters and the normalization of
their labels; the wording of errors, the fields of a status answer and the
rendering of messages; SQL beyond what a statement reads and writes.

Abstracted: texts count as empty or not, valid or not; the characters of
addresses and header names, and CIDR arithmetic, are the membership of an address
in a set; the duration of an operation matters only where something limits it.

What is left for later work: an abstract specification of `Connection` (one
connection behind a mutex) with the refinement proved as those of `Delivery` and
`Submission` are, and the composition the text of section 2 argues for: that the
steps of `Publish` and `Submission` in detail add up to the single steps
`RelayPublish` and `Accept` of `Delivery`.
