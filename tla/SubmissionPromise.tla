------------------------- MODULE SubmissionPromise -------------------------
(***************************************************************************)
(* What kaftar promises to those who submit messages, with no threads,     *)
(* transactions, retries or queue in it (docs/queue-contract.md,           *)
(* Idempotency): an entry is made once and for all, under an id of its     *)
(* own, and an answer says what the entries are when it is given.          *)
(* Submission is shown to implement it.                                    *)
(*                                                                         *)
(* Of a submission without a key there may be many entries, one for every  *)
(* time it was sent or taken for lost; an answer names one of its own.     *)
(* What the promise rules out is a second entry under a key, an answer     *)
(* that names another's entry, and a refusal without its reason.           *)
(***************************************************************************)
CONSTANTS
  Submission, \* what is submitted, by HTTP or as a message
  Direct,     \* the messages
  KeyOf, NoKey, ContentOf,
  Malformed,  \* what is refused for good
  Disabled    \* what has no sender

VARIABLES
  entries, \* what was accepted: the id and the submission of each
  answers  \* answers[u]: what the submitter of u was told

pvars == <<entries, answers>>

NoId == 0

PInit == entries = {} /\ answers = [u \in Submission |-> {}]

\* A message for a channel without a sender waits for one; a request does not.
Unserved == Disabled \ Direct

SameKey(e, u) == KeyOf[u] # NoKey /\ KeyOf[e.by] = KeyOf[u]

\* An entry is made, of a submission that nothing speaks against.
Record ==
  \E e \in entries' :
    /\ entries' = entries \cup {e}
    /\ e.by \in Submission \ (Malformed \cup Unserved)
    /\ \A f \in entries : f.id # e.id /\ ~SameKey(f, e.by)
    /\ UNCHANGED answers

\* The entry that an acceptance of u names: of its key, or its own.
Names(e, u) ==
  /\ ContentOf[e.by] = ContentOf[u]
  /\ e.by = u \/ SameKey(e, u)

\* The answer a is one that u can be given now.  To a message there is no other answer
\* than one for good.
Holds(a, u) ==
  \/ a.answer = "accepted" /\ \E e \in entries : e.id = a.id /\ Names(e, u)
  \/ /\ a.id = NoId
     /\ \/ /\ a.answer = "conflict"
           /\ \E e \in entries : SameKey(e, u) /\ ContentOf[e.by] # ContentOf[u]
        \/ a.answer = "invalid" /\ u \in Malformed
        \/ a.answer = "unavailable" /\ u \in Unserved
        \/ a.answer \in {"shutting_down", "error"} /\ u \notin Direct

Reply ==
  \E u \in Submission : \E a \in answers'[u] :
    /\ answers' = [answers EXCEPT ![u] = @ \cup {a}]
    /\ Holds(a, u)
    /\ UNCHANGED entries

PNext == Record \/ Reply

PSpec == PInit /\ [][PNext]_pvars
=============================================================================
