----------------------------- MODULE Submission -----------------------------
(***************************************************************************)
(* How submissions become rows.  An HTTP request (service.Send) and an     *)
(* AMQP message with no id (the direct branch of handleDelivery) both end  *)
(* in service.accept and outbox_repo.Create, which inserts the row unless  *)
(* its idempotency key is taken and then looks for the row that took it.   *)
(*                                                                         *)
(* A thread is one goroutine of one server: an HTTP handler or a consumer. *)
(* A key stands for a pair of channel and key; the content of a submission *)
(* stands for its fingerprint.                                             *)
(*                                                                         *)
(* An operator introduced as a variant is not part of the model: it is the *)
(* definition that follows it with a slip, put in its place to see that a  *)
(* property notices.                                                       *)
(***************************************************************************)
EXTENDS Naturals, FiniteSets

CONSTANTS
  Submission,   \* HTTP requests and AMQP messages
  Direct,       \* those that come by AMQP
  KeyOf,        \* KeyOf[u]: the idempotency key of u
  NoKey,        \* the empty key, which is never taken
  ContentOf,    \* ContentOf[u]: payload, retry limit and send_at of u
  Malformed,    \* submissions that accept finds invalid
  Disabled,     \* submissions to a channel with no sender
  Thread,
  MaxTries,     \* bound: times a submitter sends one submission
  MaxFaults,    \* bound: crashes, shutdowns, failed calls, lost connections
  MaxDeletes    \* bound: calls of Delete

ASSUME SubmissionAssumption ==
  /\ Direct \subseteq Submission /\ Malformed \subseteq Submission
  /\ Submission # {} /\ IsFiniteSet(Thread)
ASSUME SubmissionBounds ==
  MaxTries \in Nat /\ MaxFaults \in Nat /\ MaxDeletes \in Nat

VARIABLES
  tries,     \* tries[u]: how often u was sent
  waiting,   \* waiting[u]: requests and ready messages no thread has yet
  thread,    \* thread[t]: the goroutine t
  stopping,  \* stopping[t]: service.stopping of t's server
  table,     \* the committed rows
  minted,    \* how many rows were inserted, the id of the last
  told,      \* told[u]: the answers that reached the submitter or the broker
  faults,    \* what is left of the budget of faults
  deletes    \* what is left of the budget of deletes

vars == <<tries, waiting, thread, stopping, table, minted, told, faults, deletes>>

NoId == 0

\* submissionOutcome of the error that Send or accept returns.
Answer == {"accepted", "invalid", "unavailable", "shutting_down", "conflict",
           "error"}

PC == {"idle", "got", "insert", "commit", "select", "reply"}

\* `held': the request or the delivery can still be answered.
IdleThread == [pc |-> "idle", sub |-> CHOOSE u \in Submission : TRUE,
               held |-> FALSE, id |-> NoId, answer |-> "error"]

KeyTaken(u) == KeyOf[u] # NoKey /\ \E r \in table : KeyOf[r.by] = KeyOf[u]

\* Variant: a look for the key instead of an index that waits.
NeverPending(t) == FALSE

\* Another transaction has inserted the key and is not committed yet.
KeyPending(t) ==
  /\ KeyOf[thread[t].sub] # NoKey
  /\ \E s \in Thread : /\ thread[s].pc = "commit"
                       /\ KeyOf[thread[s].sub] = KeyOf[thread[t].sub]

Fault == faults > 0 /\ faults' = faults - 1

Init ==
  /\ tries = [u \in Submission |-> 0]
  /\ waiting = [u \in Submission |-> 0]
  /\ thread = [t \in Thread |-> IdleThread]
  /\ stopping = [t \in Thread |-> FALSE]
  /\ table = {}
  /\ minted = 0
  /\ told = [u \in Submission |-> {}]
  /\ faults = MaxFaults
  /\ deletes = MaxDeletes

-----------------------------------------------------------------------------
(* The submitter. *)

\* A client sends u, or sends it again because it does not know the answer;
\* a producer publishes u, or publishes it again.
Submit(u) ==
  /\ tries[u] < MaxTries
  /\ tries' = [tries EXCEPT ![u] = @ + 1]
  /\ waiting' = [waiting EXCEPT ![u] = @ + 1]
  /\ UNCHANGED <<thread, stopping, table, minted, told, faults, deletes>>

-----------------------------------------------------------------------------
(* The thread that serves it. *)

GoesTo(t, pc) == thread' = [thread EXCEPT ![t].pc = pc]
Answers(t, answer, id) ==
  thread' = [thread EXCEPT ![t] =
               [@ EXCEPT !.pc = "reply", !.answer = answer, !.id = id]]

Receive(t) ==
  /\ thread[t].pc = "idle"
  /\ \E u \in Submission :
       /\ waiting[u] > 0
       /\ u \in Direct => ~stopping[t]
       /\ waiting' = [waiting EXCEPT ![u] = @ - 1]
       /\ thread' = [thread EXCEPT ![t] =
                       [IdleThread EXCEPT !.pc = "got", !.sub = u, !.held = TRUE]]
  /\ UNCHANGED <<tries, stopping, table, minted, told, faults, deletes>>

\* The checks of Send or handleDelivery, then those of accept, up to the call
\* of Create.
Admit(t) ==
  LET u == thread[t].sub
  IN  /\ thread[t].pc = "got"
      /\ CASE stopping[t] -> Answers(t, "shutting_down", NoId)
           [] ~stopping[t] /\ u \in Disabled \ Direct ->
                Answers(t, "unavailable", NoId)
           [] ~stopping[t] /\ u \in Malformed /\ u \notin Disabled \ Direct ->
                Answers(t, "invalid", NoId)
           [] OTHER -> GoesTo(t, "insert")
      /\ UNCHANGED <<tries, waiting, stopping, table, minted, told, faults,
                     deletes>>

\* INSERT ... ON CONFLICT DO NOTHING.  It waits for a transaction that has
\* inserted the same key; the unique index also holds soft-deleted rows.
Insert(t) ==
  /\ thread[t].pc = "insert" /\ ~KeyPending(t)
  /\ IF KeyTaken(thread[t].sub)
     THEN GoesTo(t, "select") /\ UNCHANGED minted
     ELSE /\ minted' = minted + 1
          /\ thread' = [thread EXCEPT ![t] =
                          [@ EXCEPT !.pc = "commit", !.id = minted']]
  /\ UNCHANGED <<tries, waiting, stopping, table, told, faults, deletes>>

\* The table with the row t has inserted.
WithRow(t) ==
  table \cup {[id |-> thread[t].id, by |-> thread[t].sub, deleted |-> FALSE]}

Commit(t) ==
  /\ thread[t].pc = "commit"
  /\ table' = WithRow(t)
  /\ Answers(t, "accepted", thread[t].id)
  /\ UNCHANGED <<tries, waiting, stopping, minted, told, faults, deletes>>

\* First(&existing), which does not see soft-deleted rows: with none found
\* Create returns gorm's error, which no caller takes for a conflict.
Existing(u) == {r \in table : ~r.deleted /\ KeyOf[r.by] = KeyOf[u]}

\* Variant: any row of the key will do.
LookupByKey(u) ==
  IF Existing(u) = {}
  THEN [answer |-> "error", id |-> NoId]
  ELSE [answer |-> "accepted", id |-> (CHOOSE r \in Existing(u) : TRUE).id]

\* Variant: a key that is taken is always a conflict.
LookupAsConflict(u) ==
  [answer |-> IF Existing(u) = {} THEN "error" ELSE "conflict", id |-> NoId]

Lookup(u) ==
  IF Existing(u) = {}
  THEN [answer |-> "error", id |-> NoId]
  ELSE LET r == CHOOSE r \in Existing(u) : TRUE
       IN  IF ContentOf[r.by] = ContentOf[u]
           THEN [answer |-> "accepted", id |-> r.id]
           ELSE [answer |-> "conflict", id |-> NoId]

Select(t) ==
  /\ thread[t].pc = "select"
  /\ LET found == Lookup(thread[t].sub)
     IN  Answers(t, found.answer, found.id)
  /\ UNCHANGED <<tries, waiting, stopping, table, minted, told, faults, deletes>>

\* A statement or the COMMIT fails; a COMMIT may fail for the client alone.
CreateFails(t) ==
  /\ thread[t].pc \in {"insert", "commit", "select"}
  /\ Fault
  /\ Answers(t, "error", NoId)
  /\ \/ UNCHANGED table
     \/ thread[t].pc = "commit" /\ table' = WithRow(t)
  /\ UNCHANGED <<tries, waiting, stopping, minted, told, deletes>>

\* Variant: every failure is permanent.
NeverRequeued(answer) == FALSE

\* Variant: no failure is permanent.
RequeuedIfRefused(answer) == answer # "accepted"

\* Variant: what has just been stored is given back as well.
RequeuedIfStored(answer) == answer \notin {"invalid", "conflict"}

\* What the consumer gives back to the broker instead of settling it.
Requeued(answer) == answer \notin {"accepted", "invalid", "conflict"}

\* Variant: given back even if the broker has taken it back before.
ReturnedAgain(t) ==
  IF thread[t].sub \in Direct
  THEN [waiting EXCEPT ![thread[t].sub] = @ + 1]
  ELSE waiting

\* The queue once the delivery in t's hands has come back to it.
Returned(t) ==
  IF thread[t].held /\ thread[t].sub \in Direct
  THEN [waiting EXCEPT ![thread[t].sub] = @ + 1]
  ELSE waiting

\* The HTTP response is written, or Ack or Nack is sent.
Reply(t) ==
  LET u == thread[t].sub
      again == u \in Direct /\ Requeued(thread[t].answer)
  IN  /\ thread[t].pc = "reply"
      /\ waiting' = IF again THEN Returned(t) ELSE waiting
      /\ told' = IF thread[t].held /\ ~again
                 THEN [told EXCEPT ![u] = @ \cup
                         {[answer |-> thread[t].answer, id |-> thread[t].id]}]
                 ELSE told
      /\ thread' = [thread EXCEPT ![t] = IdleThread]
      /\ UNCHANGED <<tries, stopping, table, minted, faults, deletes>>

-----------------------------------------------------------------------------
(* What happens to the thread and to its rows. *)

\* The client goes away, or the AMQP connection dies and the broker takes
\* the message back; the thread goes on.
ConnectionLost(t) ==
  /\ thread[t].held
  /\ Fault
  /\ waiting' = Returned(t)
  /\ thread' = [thread EXCEPT ![t].held = FALSE]
  /\ UNCHANGED <<tries, stopping, table, minted, told, deletes>>

Restart(t) ==
  /\ waiting' = Returned(t)
  /\ thread' = [thread EXCEPT ![t] = IdleThread]
  /\ stopping' = [stopping EXCEPT ![t] = FALSE]
  /\ UNCHANGED <<tries, table, minted, told, deletes>>

Crash(t) == Fault /\ Restart(t)

BeginShutdown(t) ==
  /\ ~stopping[t]
  /\ Fault
  /\ stopping' = [stopping EXCEPT ![t] = TRUE]
  /\ UNCHANGED <<tries, waiting, thread, table, minted, told, deletes>>

\* The server that was shut down is started again.
Redeploy(t) ==
  /\ stopping[t] /\ thread[t].pc = "idle"
  /\ Restart(t) /\ UNCHANGED faults

\* repo.Delete: gorm sets deleted_at and leaves the row.
Delete(r) ==
  /\ deletes > 0 /\ ~r.deleted
  /\ deletes' = deletes - 1
  /\ table' = (table \ {r}) \cup {[r EXCEPT !.deleted = TRUE]}
  /\ UNCHANGED <<tries, waiting, thread, stopping, minted, told, faults>>

-----------------------------------------------------------------------------
ThreadStep(t) ==
  Receive(t) \/ Admit(t) \/ Insert(t) \/ Commit(t) \/ Select(t) \/ Reply(t)

FaultyStep(t) ==
  CreateFails(t) \/ ConnectionLost(t) \/ BeginShutdown(t) \/ Crash(t)

Next ==
  \/ \E u \in Submission : Submit(u)
  \/ \E t \in Thread : ThreadStep(t) \/ FaultyStep(t) \/ Redeploy(t)
  \/ \E r \in table : Delete(r)

Spec == Init /\ [][Next]_vars

\* No goroutine stalls for ever, a server that was shut down is started again.
Fairness ==
  \A t \in Thread : WF_vars(ThreadStep(t)) /\ WF_vars(Redeploy(t))

FairSpec == Spec /\ Fairness

-----------------------------------------------------------------------------
(* What acceptance promises (docs/queue-contract.md). *)

\* Types: what threads, table and answers (Send, accept, Create) can hold; no message
\* is given back to the queue more often than it may be delivered.
TypeOK ==
  /\ tries \in [Submission -> 0 .. MaxTries]
  /\ waiting \in [Submission -> 0 .. MaxTries]
  /\ thread \in [Thread -> [pc: PC, sub: Submission, held: BOOLEAN, id: Nat,
                            answer: Answer]]
  /\ stopping \in [Thread -> BOOLEAN]
  /\ table \subseteq [id: Nat, by: Submission, deleted: BOOLEAN]
  /\ minted \in Nat
  /\ told \in [Submission -> SUBSET [answer: Answer, id: Nat]]
  /\ faults \in 0 .. MaxFaults /\ deletes \in 0 .. MaxDeletes

\* An answer of 200, or an Ack, means that the row is committed, with the
\* key and the content of the submission and not those of another; a conflict
\* is announced only to a submission whose key belongs to a row of other
\* content, so that a retry of what was accepted is never refused.
AnswersAreTrue ==
  \A u \in Submission : \A a \in told[u] :
    /\ a.answer = "accepted" =>
         \E r \in table : /\ r.id = a.id
                          /\ KeyOf[r.by] = KeyOf[u]
                          /\ ContentOf[r.by] = ContentOf[u]
    /\ a.answer = "conflict" =>
         \E r \in table : /\ KeyOf[r.by] = KeyOf[u]
                          /\ ContentOf[r.by] # ContentOf[u]

\* However many submitters, servers and retries race for a key, all that are
\* accepted under it get the same id.
OneIdPerKey ==
  \A u, v \in Submission : \A a \in told[u], b \in told[v] :
    /\ KeyOf[u] = KeyOf[v] /\ KeyOf[u] # NoKey
    /\ a.answer = "accepted" /\ b.answer = "accepted"
    => a.id = b.id

\* The producer's message has come to its end: stored, or refused for good.
SettledForGood(u) ==
  \E a \in told[u] : a.answer \in {"accepted", "invalid", "conflict"}

\* A direct message that is neither stored nor refused for good is in the
\* queue or in the hands of a consumer that will settle it: crashes,
\* shutdowns and failed inserts lose none.
MessageKept ==
  \A u \in Direct :
    tries[u] > 0 /\ ~SettledForGood(u) =>
      \/ waiting[u] > 0
      \/ \E t \in Thread : thread[t].held /\ thread[t].sub = u

\* A submission has more rows than it was sent times only where something
\* failed between its commit and its acknowledgement, and none twice if keyed.
DuplicatesNeedFaults ==
  \A u \in Submission :
    LET rows == {r \in table : r.by = u}
    IN  /\ Cardinality(rows) <= tries[u] + (MaxFaults - faults)
        /\ KeyOf[u] # NoKey => Cardinality(rows) <= 1

\* Every direct message is settled at last, the invalid and the conflicting
\* ones too, instead of going round between broker and consumer.
MessagesSettled ==
  \A u \in Direct : tries[u] > 0 ~> SettledForGood(u)

\* The table as the promise sees it, where a deleted row still counts.
Entries == {[id |-> r.id, by |-> r.by] : r \in table}

Promise == INSTANCE SubmissionPromise WITH entries <- Entries, answers <- told

\* The threads, with their races, retries, failed commits and crashes, give the
\* answers that one thread alone would give: an id belongs to one row for ever, a
\* key too, the id told for a submission without a key is that of a row of its own,
\* and nothing invalid is stored or valid refused as invalid (accept, Create).
KeepsPromise == Promise!PSpec

\* That, and the messages are settled.
SettledAsPromised == KeepsPromise /\ MessagesSettled

\* docs/queue-contract.md: "Deleting a row ends its deduplication
\* protection", so only an undeleted row can hold a key against a submission.
DeletionFreesKey ==
  [][\A t \in Thread :
       thread[t].pc = "insert" /\ thread'[t].pc = "select" =>
         Existing(thread[t].sub) # {}]_vars
=============================================================================
