--------------------------- MODULE OutboxPromise ---------------------------
(***************************************************************************)
(* What kaftar promises about one accepted message, with no servers,       *)
(* queue, leases or clocks in it: the message waits, is attempted, waits   *)
(* again, and ends sent or dead (docs/queue-contract.md, at-least-once     *)
(* delivery).  Delivery is shown to implement it, one instance for every   *)
(* message (DeliveryPromise).                                              *)
(*                                                                         *)
(* The provider may take an attempt long after it was given up, more than  *)
(* one attempt may be taken, and a dead message may have been taken: the   *)
(* duplicates the contract warns of.  What it rules out is a message sent  *)
(* that nobody took, an attempt beyond the budget, and a way back.         *)
(***************************************************************************)
EXTENDS Integers

VARIABLES
  phase,   \* where the message is
  limit,   \* its retries, -1 for no limit
  claims,  \* the attempts handed out so far
  taken,   \* the attempts the provider took
  late     \* its retry age is reached

pvars == <<phase, limit, claims, taken, late>>

PInit ==
  /\ phase = "absent" /\ limit = 0 /\ claims = 0
  /\ taken = {} /\ late = FALSE

Submit ==
  /\ phase = "absent" /\ phase' = "waiting"
  /\ limit' \in Nat \cup {-1}
  /\ UNCHANGED <<claims, taken, late>>

\* The current attempt is the one with the number `claims'.
Attempt ==
  /\ phase = "waiting" /\ phase' = "attempting"
  /\ limit >= 0 => claims <= limit
  /\ claims' = claims + 1
  /\ UNCHANGED <<limit, taken, late>>

\* Any attempt ever handed out may still be taken.
Take ==
  /\ \E k \in 1 .. claims : taken' = taken \cup {k}
  /\ UNCHANGED <<phase, limit, claims, late>>

Succeed ==
  /\ phase = "attempting" /\ phase' = "sent"
  /\ claims \in taken
  /\ UNCHANGED <<limit, claims, taken, late>>

Fail ==
  /\ phase = "attempting" /\ phase' = "waiting"
  /\ UNCHANGED <<limit, claims, taken, late>>

GiveUp ==
  /\ phase \in {"waiting", "attempting"} /\ phase' = "dead"
  /\ (limit >= 0 /\ claims > limit) \/ late
  /\ UNCHANGED <<limit, claims, taken, late>>

Expire ==
  /\ phase # "absent" /\ ~late /\ late'
  /\ UNCHANGED <<phase, limit, claims, taken>>

PNext == Submit \/ Attempt \/ Take \/ Succeed \/ Fail \/ GiveUp \/ Expire

PSpec == PInit /\ [][PNext]_pvars
=============================================================================
