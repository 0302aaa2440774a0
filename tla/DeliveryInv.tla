---------------------------- MODULE DeliveryInv ----------------------------
(***************************************************************************)
(* The inductive invariant behind the safety properties of Delivery: who   *)
(* may change a row, and what a worker's copy of a row still says about    *)
(* it.  DeliveryProofs proves it; TLC checks it as the property of a run.  *)
(***************************************************************************)
EXTENDS Delivery

\* The workers that carry a claim, in the order they get there.
Holding(s) == worker[s].pc \in {"claimed", "calling", "finish"}

\* A row has a token and a lease exactly while it is sending.
LeaseShape ==
  \A m \in Msg :
    /\ row[m].state = "sending" <=> row[m].token # NoToken
    /\ row[m].state = "sending" => row[m].leaseUntil # NoTime

\* Attempts are counted by Claim alone, which hands out one token for each
\* and stops at the retry limit.
AttemptsCounted ==
  \A m \in Msg :
    /\ row[m].state = "none" => row[m] = AbsentRow
    /\ row[m].attempts = minted[m]
    /\ row[m].token <= minted[m]
    /\ row[m].maxRetries >= 0 => row[m].attempts <= row[m].maxRetries + 1

\* Provider calls are made, and can succeed, only under tokens handed out.
CallsUnderTokens ==
  \A m \in Msg :
    /\ called[m] \subseteq 1 .. minted[m]
    /\ confirmed[m] \subseteq called[m]

\* A claim, once granted, belongs to one worker, which has called the
\* provider under it if and only if it is past that point.
ClaimsExclusive ==
  /\ \A s \in Server :
       Holding(s) =>
         /\ worker[s].id \in Msg
         /\ worker[s].outbox.token \in 1 .. minted[worker[s].id]
         /\ worker[s].pc = "claimed" =>
              worker[s].outbox.token \notin called[worker[s].id]
         /\ worker[s].pc = "calling" =>
              worker[s].outbox.token \in called[worker[s].id]
  /\ \A s, t \in Server :
       Holding(s) /\ Holding(t) /\ s # t /\ worker[s].id = worker[t].id =>
         worker[s].outbox.token # worker[t].outbox.token

\* What the copy of a holder says: the retry arithmetic of the row it
\* claimed, and an outcome that matches what happened.
CopyFaithful ==
  \A s \in Server :
    Holding(s) =>
      LET o == worker[s].outbox
          r == row[worker[s].id]
      IN  /\ o.maxRetries = r.maxRetries
          /\ o.attempts = o.retryCount + 1
          /\ r.token = o.token => o.attempts = r.attempts
          /\ worker[s].pc # "finish" => o.state = "sending"
          /\ worker[s].pc = "finish" =>
               /\ o.state \in {"sent", "failed", "dead"}
               /\ o.state = "sent" => o.token \in confirmed[worker[s].id]
               /\ o.state = "dead" => \/ RetryLimitReached(o)
                                      \/ o.deadline # NoTime /\ o.deadline <= 0

\* Row locks: a row is in at most one open transaction.
LocksExclusive ==
  /\ \A s, t \in Server :
       worker[s].pc = "txn" /\ worker[t].pc = "txn" /\ s # t =>
         worker[s].id # worker[t].id
  /\ \A s, t \in Server :
       worker[s].pc = "txn" /\ relay[t].pc = "reserve" =>
         worker[s].id \notin relay[t].batch
  /\ \A s, t \in Server :
       relay[s].pc = "reserve" /\ relay[t].pc = "reserve" /\ s # t =>
         relay[s].batch \cap relay[t].batch = {}

\* What a transaction selected a row for is still true when it commits.
SelectionHolds ==
  /\ \A s \in Server : worker[s].pc = "txn" => Exists(worker[s].id)
  /\ \A s \in Server :
       relay[s].pc = "reserve" =>
         \A m \in relay[s].batch : Due(row[m], relay[s].clock)

\* Readings of the clock are in the past, and not too far back.
ClocksBounded ==
  \A s \in Server :
    /\ worker[s].clock <= 0 /\ relay[s].clock <= 0
    /\ WorkerWaits(s) => worker[s].clock >= -MaxStall
    /\ worker[s].pc = "calling" => worker[s].clock >= -AttemptTimeout
    /\ RelayWaits(s) => relay[s].clock >= -MaxStall

\* The lease of a worker that has not finished calling, if leases are long.
LeaseOutlivesCall ==
  MaxStall + AttemptTimeout < Lease =>
    \A s \in Server :
      worker[s].pc \in {"claimed", "calling"} =>
        LET r == row[worker[s].id]
            slack == IF worker[s].pc = "claimed" THEN 0 ELSE MaxStall
        IN  /\ r.token = worker[s].outbox.token
            /\ r.leaseUntil >= worker[s].clock + Lease - slack

\* Everything a step relies on, each part at its own name.
Inv ==
  /\ TypeOK
  /\ LeaseShape
  /\ AttemptsCounted
  /\ CallsUnderTokens
  /\ ClaimsExclusive
  /\ CopyFaithful
  /\ LocksExclusive
  /\ SelectionHolds
  /\ ClocksBounded
  /\ GivesUpOnlyWhenExhausted
  /\ AttemptsInWindow
  /\ LeaseOutlivesCall
=============================================================================
