-------------------------- MODULE DeliveryPromise --------------------------
(***************************************************************************)
(* Delivery implements OutboxPromise, message by message: the refinement   *)
(* mapping reads the phase of a message off its row, and takes for its     *)
(* attempts the claims the row was given.                                  *)
(***************************************************************************)
EXTENDS DeliveryInv

\* The states of entity.OutboxState that the promise tells apart.
PhaseOf(state) ==
  CASE state = "none"                  -> "absent"
    [] state \in {"pending", "failed"} -> "waiting"
    [] state = "sending"               -> "attempting"
    [] OTHER                           -> state

Late(r) == r.deadline # NoTime /\ r.deadline <= Now

Promise(m) ==
  INSTANCE OutboxPromise WITH phase  <- PhaseOf(row[m].state),
                              limit  <- row[m].maxRetries,
                              claims <- minted[m],
                              taken  <- confirmed[m],
                              late   <- Late(row[m])

\* The lease in force is that of the last claim: with it the attempt that is
\* recorded as sent is the current one, and no older.
LeaseIsLast ==
  \A m \in Msg : row[m].state = "sending" => row[m].token = minted[m]

\* The worker that holds the lease judges the retry age as the row would.
DeadlineShared ==
  \A s \in Server :
    Holding(s) /\ row[worker[s].id].token = worker[s].outbox.token =>
      worker[s].outbox.deadline = row[worker[s].id].deadline

\* What the mapping needs beyond Inv.
MappingInv == LeaseIsLast /\ DeadlineShared

\* The step of a message that is a step of its promise, or none.
Kept(m) == [Promise(m)!PNext]_(Promise(m)!pvars)

\* The servers that share the outbox and the queue, with every crash, lost
\* answer and duplicate, keep for each message what one row, one attempt
\* after another, would: Promise(m)!PSpec holds for every m.
PromiseKept ==
  /\ \A m \in Msg : Promise(m)!PInit
  /\ [][\A m \in Msg : Kept(m)]_vars
=============================================================================
