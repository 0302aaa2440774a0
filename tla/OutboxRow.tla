----------------------------- MODULE OutboxRow -----------------------------
(***************************************************************************)
(* One row of the PostgreSQL table "outboxes" and what the transactions of *)
(* internal/repository/outbox_repo/delivery.go do to it.  The operators    *)
(* are pure: they take the row a transaction has locked, the clock reading *)
(* its caller passed as "now", and give the row the transaction writes.    *)
(*                                                                         *)
(* A timestamp is an integer or NoTime, SQL's NULL.  Nothing here depends  *)
(* on where the origin of time is.                                         *)
(*                                                                         *)
(* An operator introduced as a variant is not part of the model: it is the *)
(* operator that follows it with a slip, put in its place to see that a    *)
(* property of Delivery notices.                                           *)
(***************************************************************************)
EXTENDS Integers

CONSTANT NoTime                       \* a NULL timestamp column
ASSUME NoTimeAssumption == NoTime \notin Int

Time == Int \cup {NoTime}

RowState == {"none", "pending", "sending", "failed", "sent", "dead"}
Terminal == {"sent", "dead"}

\* What the last_error column can say, abstracted to its origin.
RowError == {"none", "provider", "invalid", "unknown", "exhausted"}

\* Tokens are the successive values of uuid.NewString(); 0 is the empty one.
NoToken == 0

Row == [state: RowState, maxRetries: Int, attempts: Nat, retryCount: Nat,
        token: Nat, leaseUntil: Time, dispatchAfter: Time, nextRetryAt: Time,
        deadline: Time, lastError: RowError, sentAt: BOOLEAN]

\* The row of a message nobody has submitted yet (there is none).
AbsentRow ==
  [state |-> "none", maxRetries |-> 0, attempts |-> 0, retryCount |-> 0,
   token |-> NoToken, leaseUntil |-> NoTime, dispatchAfter |-> NoTime,
   nextRetryAt |-> NoTime, deadline |-> NoTime, lastError |-> "none",
   sentAt |-> FALSE]

-----------------------------------------------------------------------------
\* accept: the row of a submission made at `now', due `delay' later.
SubmittedRow(maxRetries, now, delay, maxAge) ==
  [AbsentRow EXCEPT
     !.state = "pending",
     !.maxRetries = maxRetries,
     !.nextRetryAt = IF delay > 0 THEN now + delay ELSE NoTime,
     !.deadline = IF maxAge > 0 THEN now + delay + maxAge ELSE NoTime]

\* Variant: one attempt too many.
ExhaustedLate(r, now) ==
  \/ r.maxRetries >= 0 /\ r.attempts > r.maxRetries + 1
  \/ r.deadline # NoTime /\ now >= r.deadline

\* exhausted: more attempts than retries, or an age limit reached.
Exhausted(r, now) ==
  \/ r.maxRetries >= 0 /\ r.attempts > r.maxRetries
  \/ r.deadline # NoTime /\ now >= r.deadline

\* Variant: SQL's NULL forgotten.
ReachedIfSet(t, now) == t # NoTime /\ t <= now

\* A nullable column that is not later than `now'.
Reached(t, now) == t = NoTime \/ t <= now

\* Variant: a running attempt is taken over whatever its lease.
DueWhileSending(r, now) ==
  \/ /\ r.state \in {"pending", "failed"}
     /\ Reached(r.nextRetryAt, now)
     /\ Reached(r.dispatchAfter, now)
  \/ r.state = "sending"

\* Variant: a lost attempt is never taken over.
DueUnlessSending(r, now) ==
  /\ r.state \in {"pending", "failed"}
  /\ Reached(r.nextRetryAt, now)
  /\ Reached(r.dispatchAfter, now)

\* The WHERE clause of ReserveDispatch.
Due(r, now) ==
  \/ /\ r.state \in {"pending", "failed"}
     /\ Reached(r.nextRetryAt, now)
     /\ Reached(r.dispatchAfter, now)
  \/ /\ r.state = "sending"
     /\ Reached(r.leaseUntil, now)

MakeDead(r) ==
  [r EXCEPT !.state = "dead", !.token = NoToken, !.leaseUntil = NoTime,
            !.nextRetryAt = NoTime, !.dispatchAfter = NoTime,
            !.lastError = "exhausted"]

\* An attempt whose lease ran out: the code does not know how it ended.
Recovered(r, now) ==
  [r EXCEPT !.state = "failed", !.lastError = "unknown", !.token = NoToken,
            !.leaseUntil = NoTime, !.nextRetryAt = now]

\* The body of the loop of ReserveDispatch.
Reserved(r, now, interval) ==
  IF Exhausted(r, now)
  THEN MakeDead(r)
  ELSE [IF r.state = "sending" THEN Recovered(r, now) ELSE r
          EXCEPT !.dispatchAfter = now + interval]

-----------------------------------------------------------------------------
\* Variant: next_retry_at not looked at.
NotClaimableByState(r, now) == r.state \notin {"pending", "failed"}

\* Claim leaves the row alone and returns nil, nil.
NotClaimable(r, now) ==
  \/ r.state \notin {"pending", "failed"}
  \/ r.nextRetryAt # NoTime /\ now < r.nextRetryAt

\* Claim returns the row to its caller.
Grants(r, now) == ~NotClaimable(r, now) /\ ~Exhausted(r, now)

\* Variant: a lease that is over when it begins.
LeasedForNothing(r, now, lease, token) ==
  [r EXCEPT !.state = "sending", !.attempts = @ + 1, !.retryCount = r.attempts,
            !.token = token, !.leaseUntil = now]

\* Variant: the token of the first claim given to all.
LeasedWithOldToken(r, now, lease, token) ==
  [r EXCEPT !.state = "sending", !.attempts = @ + 1, !.retryCount = r.attempts,
            !.token = 1, !.leaseUntil = now + lease]

\* The row Claim hands out, and writes.
Leased(r, now, lease, token) ==
  [r EXCEPT !.state = "sending", !.attempts = @ + 1, !.retryCount = r.attempts,
            !.token = token, !.leaseUntil = now + lease]

\* What Claim leaves in the table.
Claimed(r, now, lease, token) ==
  CASE NotClaimable(r, now) -> r
    [] Grants(r, now)       -> Leased(r, now, lease, token)
    [] OTHER                -> MakeDead(r)

-----------------------------------------------------------------------------
\* Variant: one retry too few.
RetryLimitNear(o) == o.maxRetries >= 0 /\ o.retryCount + 1 >= o.maxRetries

\* retryLimitReached, on the copy of the row the worker holds.
RetryLimitReached(o) == o.maxRetries >= 0 /\ o.retryCount >= o.maxRetries

\* handleDelivery after a nil error of the provider.
Succeeded(o) == [o EXCEPT !.state = "sent"]

\* Variant: the backoff counted from the end of the lease.
FailedAfterLease(o, now, delay, error) ==
  [o EXCEPT !.state = IF RetryLimitReached(o) THEN "dead" ELSE "failed",
            !.lastError = error,
            !.nextRetryAt = o.leaseUntil + delay]

\* handleDelivery after an error read at `now', with `delay' of backoff.
Failed(o, now, delay, error) ==
  LET giveUp == \/ RetryLimitReached(o)
                \/ o.deadline # NoTime /\ now >= o.deadline
  IN  [o EXCEPT !.state = IF giveUp THEN "dead" ELSE "failed",
                !.lastError = error,
                !.nextRetryAt = now + delay]

\* Variant: the token stays in the finished row.
CompletedWithToken(o) ==
  [o EXCEPT !.leaseUntil = NoTime, !.dispatchAfter = NoTime,
            !.sentAt = (o.state = "sent") \/ @,
            !.nextRetryAt = IF o.state = "failed" THEN @ ELSE NoTime,
            !.lastError = IF o.state = "sent" THEN "none" ELSE @]

\* The row Finish writes from the worker's copy.
Completed(o) ==
  [o EXCEPT !.token = NoToken, !.leaseUntil = NoTime, !.dispatchAfter = NoTime,
            !.sentAt = (o.state = "sent") \/ @,
            !.nextRetryAt = IF o.state = "failed" THEN @ ELSE NoTime,
            !.lastError = IF o.state = "sent" THEN "none" ELSE @]

\* Variant: without the fence, any running attempt is finished.
StillSending(r, o, now) == r.state = "sending"

\* The WHERE clause of Finish's UPDATE: r is the stored row, o the copy.
StillLeased(r, o, now) ==
  /\ r.state = "sending"
  /\ r.token = o.token
  /\ r.leaseUntil # NoTime /\ r.leaseUntil > now
=============================================================================
