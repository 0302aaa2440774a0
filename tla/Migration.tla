----------------------------- MODULE Migration -----------------------------
(***************************************************************************)
(* The schema migration that every server runs before it opens its doors   *)
(* (internal/repository/outbox_repo/migrate.go, app.initDB): one           *)
(* transaction under an advisory lock.  Servers may start together, crash  *)
(* in the middle and be started again; some rows are for the owner of the  *)
(* data to put right.  The relay of a server that is up then meets the     *)
(* rows that the old version left.                                         *)
(***************************************************************************)
EXTENDS OutboxRow, FiniteSets

CONSTANTS
  Server,
  Id,           \* keys of the rows
  MaxAge,       \* RetryMaxAge
  OldRow,       \* rows of the old version
  Interval,     \* the dispatch interval
  MaxClock,     \* bound: the clock
  MaxCrashes    \* bound: crashes

Nobody == "nobody"

VARIABLES
  old,      \* the rows as the old version left them
  keys,     \* keys[r]: the key if any, no fingerprint (legacy), soft-deleted
  rows,     \* the table
  schema,   \* "old", or "new": indexes and migration record are there
  lock,     \* holder of the advisory lock
  work,     \* the rows as the transaction sees them
  todo,     \* rows its loop has not reached
  server,   \* server[s]: "down", "waiting", "working", "up" or "refused"
  clock,
  crashes

vars == <<old, keys, rows, schema, lock, work, todo, server, clock, crashes>>

OldState == {"pending", "sending", "failed", "sent", "dead"}

MigrationAssumption ==
  /\ MaxAge \in Int /\ Interval \in Nat \ {0}
  /\ MaxClock \in Nat \ {0} /\ MaxCrashes \in Nat /\ Nobody \notin Server
  /\ OldRow \subseteq [state : OldState, retryCount : Nat, maxRetries : Int,
                         nextRetryAt : Time]

\* What AutoMigrate makes of an old row: the new columns are NULL.
Widened(o) ==
  [AbsentRow EXCEPT !.state = o.state, !.retryCount = o.retryCount,
                    !.maxRetries = o.maxRetries, !.nextRetryAt = o.nextRetryAt,
                    !.sentAt = (o.state = "sent")]

Key == {"none", "k1", "k2", "k2 legacy", "k1 deleted", "deleted"}
Keyed(r) == keys[r] \notin {"none", "deleted"}
KeyOf(r) == CASE keys[r] = "k2 legacy"  -> "k2"
              [] keys[r] = "k1 deleted" -> "k1"
              [] OTHER                  -> keys[r]

\* The rows that gorm's queries see.
Live == {r \in Id : keys[r] \notin {"k1 deleted", "deleted"}}

\* All rows were created at time zero.
Created == 0

Init ==
  /\ old \in [Id -> OldRow] /\ keys \in [Id -> Key \ {"deleted"}]
  /\ rows = [r \in Id |-> Widened(old[r])] /\ work = rows
  /\ schema = "old" /\ lock = Nobody /\ todo = {}
  /\ server = [s \in Server |-> "down"] /\ clock = 1 /\ crashes = 0

-----------------------------------------------------------------------------
(* The migration. *)

SharesKey(r, q) == r # q /\ Keyed(r) /\ KeyOf(r) = KeyOf(q)

\* The duplicates the first query looks for, and those that CREATE UNIQUE INDEX
\* finds: for the index a soft-deleted row is like any other.
Duplicated == \E r, q \in Live : SharesKey(r, q)
NotUnique == \E r, q \in Id : SharesKey(r, q)

Legacy(r) == keys[r] = "k2 legacy"

Eligible(o) == IF o.nextRetryAt # NoTime THEN o.nextRetryAt ELSE Created

\* The UPDATE of the loop; time.Unix(0, 0) is long past.
Migrated(row, o) ==
  [row EXCEPT !.deadline = IF MaxAge > 0 THEN Eligible(o) + MaxAge ELSE NoTime,
              !.attempts = IF o.state = "pending" THEN 0 ELSE o.retryCount + 1,
              !.leaseUntil = IF o.state = "sending" THEN 0 ELSE @]

Start(s) ==
  /\ server[s] = "down" /\ server' = [server EXCEPT ![s] = "waiting"]
  /\ UNCHANGED <<old, keys, rows, schema, lock, work, todo, clock, crashes>>

\* pg_advisory_xact_lock returns.
LockFree == lock = Nobody

\* The transaction ends, and the lock with it.
Leaves(s, how) ==
  /\ server' = [server EXCEPT ![s] = how]
  /\ lock' = IF lock = s THEN Nobody ELSE lock

\* The migration's record is there.
AlreadyDone == schema = "new"

\* The lock, the record, the duplicates.
BeginMigration(s) ==
  /\ server[s] = "waiting" /\ LockFree
  /\ IF AlreadyDone THEN Leaves(s, "up") /\ UNCHANGED <<work, todo>>
     ELSE IF Duplicated THEN Leaves(s, "refused") /\ UNCHANGED <<work, todo>>
     ELSE /\ server' = [server EXCEPT ![s] = "working"] /\ lock' = s
          /\ work' = rows /\ todo' = Live
  /\ UNCHANGED <<old, keys, rows, schema, clock, crashes>>

\* Variant: the loop ends with its first batch.
MigrateBatch(s) ==
  /\ server[s] = "working" /\ todo = Live
  /\ \E r \in todo :
       IF Legacy(r)
       THEN Leaves(s, "refused") /\ work' = rows /\ todo' = {}
       ELSE /\ work' = [work EXCEPT ![r] = Migrated(@, old[r])]
            /\ todo' = {} /\ UNCHANGED <<server, lock>>
  /\ UNCHANGED <<old, keys, rows, schema, clock, crashes>>

\* One round of the loop over the rows.
MigrateRow(s) ==
  /\ server[s] = "working"
  /\ \E r \in todo :
       IF Legacy(r)
       THEN Leaves(s, "refused") /\ work' = rows /\ todo' = {}
       ELSE /\ work' = [work EXCEPT ![r] = Migrated(@, old[r])]
            /\ todo' = todo \ {r} /\ UNCHANGED <<server, lock>>
  /\ UNCHANGED <<old, keys, rows, schema, clock, crashes>>

\* Indexes, record, commit.  CREATE INDEX fails if the index is there or cannot be
\* unique.
FinishMigration(s) ==
  /\ server[s] = "working" /\ todo = {}
  /\ IF schema = "new" \/ NotUnique
     THEN Leaves(s, "refused") /\ UNCHANGED <<rows, schema>>
     ELSE Leaves(s, "up") /\ rows' = work /\ schema' = "new"
  /\ work' = rows' /\ UNCHANGED <<old, keys, todo, clock, crashes>>

\* The connection is gone, and the database rolls the transaction back.
Crash(s) ==
  /\ server[s] \in {"working", "up"} /\ crashes < MaxCrashes
  /\ Leaves(s, "down") /\ crashes' = crashes + 1 /\ UNCHANGED rows
  /\ IF lock = s THEN work' = rows /\ todo' = {} ELSE UNCHANGED <<work, todo>>
  /\ UNCHANGED <<old, keys, schema, clock>>

-----------------------------------------------------------------------------
(* The world around it. *)

\* The owner of the data sees to the rows, and starts the server again.
Reconcile(s) ==
  /\ server[s] = "refused"
  /\ keys' = [r \in Id |-> IF r \in Live THEN "none" ELSE "deleted"]
  /\ server' = [server EXCEPT ![s] = "down"]
  /\ UNCHANGED <<old, rows, schema, lock, work, todo, clock, crashes>>

Tick ==
  /\ clock < MaxClock /\ clock' = clock + 1
  /\ UNCHANGED <<old, keys, rows, schema, lock, work, todo, server, crashes>>

\* ReserveDispatch, by a server that is up.
Reserve(s) ==
  /\ server[s] = "up"
  /\ \E r \in {q \in Live : Due(rows[q], clock)} :
       rows' = [rows EXCEPT ![r] = Reserved(@, clock, Interval)]
  /\ UNCHANGED <<old, keys, schema, lock, work, todo, server, clock, crashes>>

Next ==
  \/ \E s \in Server : Start(s) \/ BeginMigration(s) \/ MigrateRow(s)
       \/ FinishMigration(s) \/ Crash(s) \/ Reconcile(s) \/ Reserve(s)
  \/ Tick

\* Servers are started until they run, the owner does what is asked, time passes.
Fairness ==
  /\ WF_vars(Tick)
  /\ \A s \in Server : WF_vars(Start(s) \/ BeginMigration(s) \/ MigrateRow(s)
                               \/ FinishMigration(s) \/ Reconcile(s) \/ Reserve(s))

Spec == Init /\ [][Next]_vars /\ Fairness

-----------------------------------------------------------------------------
\* Types: who holds the lock of Migrate is the server at work in its transaction.
TypeOK ==
  /\ old \in [Id -> OldRow] /\ keys \in [Id -> Key] /\ rows \in [Id -> Row] /\ work \in [Id -> Row]
  /\ schema \in {"old", "new"} /\ lock \in Server \cup {Nobody} /\ todo \subseteq Id
  /\ server \in [Server -> {"down", "waiting", "working", "up", "refused"}]
  /\ (lock # Nobody => server[lock] = "working")
  /\ clock \in 1 .. MaxClock /\ crashes \in 0 .. MaxCrashes

\* No server works on a table that is not migrated, and none meets a row with the
\* columns half filled or a key that two rows have, whatever crashed before.
UpMeansMigrated ==
  (\E s \in Server : server[s] = "up") =>
    /\ schema = "new" /\ ~NotUnique
    /\ \A r \in Live : (MaxAge > 0 => rows[r].deadline # NoTime)
                       /\ (old[r].state # "pending" => rows[r].attempts > 0)

\* A server that is started fails only over rows that are the owner's to put
\* right, deleted ones included: never because another one is starting, has started
\* or has crashed.
RefusedForOwner ==
  [][\A s \in Server : server'[s] = "refused" /\ server[s] # "refused"
       => NotUnique \/ \E r \in Id : Legacy(r)]_vars

\* The migration gives up no message: a row of the old version that the new one
\* declares dead has had the attempts it may have, or is too old by its own dates.
BuriedWithReason ==
  \A r \in Id : rows[r].state = "dead" /\ old[r].state # "dead" =>
    \/ old[r].state # "pending" /\ old[r].retryCount >= old[r].maxRetries
    \/ MaxAge > 0 /\ clock >= Eligible(old[r]) + MaxAge

\* Every row that the old version neither finished nor deleted comes back: it is
\* dispatched, or declared dead.  The ones it was sending do not stay so.
LegacyRowsReturn ==
  <>(\A r \in Live : rows[r].state # "sending"
                     /\ (old[r].state \in {"pending", "failed", "sending"} =>
                           rows[r].dispatchAfter # NoTime \/ rows[r].state = "dead"))
=============================================================================
