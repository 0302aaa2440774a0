------------------------------ MODULE Webhook ------------------------------
(***************************************************************************)
(* The attempts of one outbound HTTP message (internal/service/http: send, *)
(* destinationPolicy).  Each attempt may open a connection: the host is    *)
(* looked up again, the addresses are judged and tried in order.  The      *)
(* lookup may answer differently every time, and a connection that is kept *)
(* open is used again without one.                                         *)
(***************************************************************************)
EXTENDS Integers, Sequences, SequencesExt

CONSTANTS
  Address,       \* addresses the host may resolve to
  Special,       \* those in the ranges no configuration allows
  Private,       \* private and loopback addresses
  Excepted,      \* those inside AllowedPrivateCIDRs
  RequestLimit, ResponseLimit, \* body limits; a negative one is no limit
  MaxLength,     \* bound: length of a body
  MaxAddresses,  \* bound: addresses in an answer of the resolver
  MaxAttempts    \* bound: attempts of the message

NoAddress == "no address"

WebhookAssumption ==
  /\ Special \cup Private \cup Excepted \subseteq Address /\ NoAddress \notin Address
  /\ RequestLimit \in Int /\ ResponseLimit \in Int
  /\ MaxLength \in Nat /\ MaxAddresses \in Nat /\ MaxAttempts \in Nat \ {0}

VARIABLES
  message,  \* what of the message the checks look at
  pc,       \* "idle", "lookup", "dial", "request" or "body"
  answer,   \* the resolver's addresses that are still to be tried
  conn,     \* the address the connection goes to, kept between attempts
  reused,   \* the connection is from an earlier attempt
  reply,    \* the status of the response
  attempts,
  result,   \* "none", "sent", "failed", "canceled" or "limit"
  taken,    \* how often the server at the other end took the message
  reached,  \* history: the addresses dialled
  looked,   \* history: the addresses of the last answer
  expired   \* the time of the attempt is over

vars == <<message, pc, answer, conn, reused, reply, attempts, result, taken,
          reached, looked, expired>>

\* listed: scheme, user info and fragment are as validate wants them and the
\* host and port are in the allow list; header: no header is refused.
Message == [listed : BOOLEAN, header : BOOLEAN, length : 0 .. MaxLength]

Init ==
  /\ message \in Message
  /\ pc = "idle" /\ answer = <<>> /\ conn = NoAddress /\ reused = FALSE
  /\ reply = 0 /\ attempts = 0 /\ result = "none" /\ taken = 0 /\ reached = {} /\ looked = {}
  /\ expired = FALSE

-----------------------------------------------------------------------------
(* The policy. *)

\* Variant: an exception is looked for first.
PermitsExcepted(a) == a \in Excepted \/ a \notin Special \cup Private

\* permits: an exception lifts the rule for private addresses, and no other.
Permits(a) == a \notin Special /\ (a \in Private => a \in Excepted)

\* dialContext: the addresses it will try; one that is blocked blocks them all.
Dialled(addresses) ==
  IF \A i \in DOMAIN addresses : Permits(addresses[i]) THEN addresses ELSE <<>>

\* The size checks of send and readBody.
Within(length, limit) == limit >= 0 => length <= limit

\* Nothing of a message that is refused goes to the network.
Sendable ==
  /\ Within(message.length, RequestLimit) /\ message.listed /\ message.header

-----------------------------------------------------------------------------
(* An attempt. *)

Counts == UNCHANGED <<taken, reused>>

Ends(outcome) == pc' = "idle" /\ result' = outcome

\* handleDelivery, with another attempt left; the checks of send.
Begin ==
  /\ pc = "idle" /\ result # "sent" /\ attempts < MaxAttempts
  /\ attempts' = attempts + 1 /\ expired' = FALSE
  /\ IF ~Sendable
     THEN Ends(IF Within(message.length, RequestLimit) THEN "failed" ELSE "limit")
     ELSE /\ pc' = (IF conn = NoAddress THEN "lookup" ELSE "request")
          /\ result' = "none"
  /\ reused' = (conn # NoAddress)
  /\ UNCHANGED <<message, answer, conn, reply, reached, looked, taken>>

\* DNS, or the address the URL itself gives.
LooksUp ==
  /\ pc = "lookup" /\ ~expired
  /\ \E addresses \in SeqOf(Address, MaxAddresses) :
       /\ answer' = Dialled(addresses) /\ looked' = ToSet(addresses)
       /\ IF answer' = <<>> THEN Ends("failed") ELSE pc' = "dial" /\ UNCHANGED result
  /\ UNCHANGED <<message, conn, reply, attempts, reached, expired>> /\ Counts

Dials ==
  /\ pc = "dial" /\ ~expired
  /\ conn' = Head(answer) /\ answer' = <<>> /\ pc' = "request"
  /\ reached' = reached \cup {Head(answer)}
  /\ UNCHANGED <<message, reply, attempts, result, looked, expired>> /\ Counts

\* The loop of dialContext goes on to the next address.
NextAddress == Tail(answer)

DialFails ==
  /\ pc = "dial" /\ ~expired
  /\ answer' = NextAddress /\ reached' = reached \cup {Head(answer)}
  /\ IF answer' = <<>> THEN Ends("failed") ELSE UNCHANGED <<pc, result>>
  /\ UNCHANGED <<message, conn, reply, attempts, looked, expired>> /\ Counts

\* The answer's header; redirects are answers like any other.
Answers ==
  /\ pc = "request" /\ ~expired
  /\ reply' \in {204, 302, 500} /\ taken' = taken + 1 /\ pc' = "body"
  /\ UNCHANGED <<message, answer, conn, reused, attempts, result, reached,
                 looked, expired>>

\* send: the body first, then the status.
Outcome(length) ==
  IF ~Within(length, ResponseLimit) THEN "limit"
  ELSE IF reply \in 200 .. 299 THEN "sent" ELSE "failed"

ReadsBody ==
  /\ pc = "body" /\ ~expired
  /\ \E length \in 0 .. MaxLength : Ends(Outcome(length))
  /\ conn' \in {conn, NoAddress}
  /\ UNCHANGED <<message, answer, reused, reply, attempts, taken, reached, looked, expired>>

\* The connection breaks; the server may have the message or not.
Breaks ==
  /\ pc \in {"request", "body"} /\ Ends("failed") /\ conn' = NoAddress
  /\ taken' \in (IF pc = "request" THEN {taken, taken + 1} ELSE {taken})
  /\ UNCHANGED <<message, answer, reused, reply, attempts, reached, looked, expired>>

\* net/http: a request on a connection from an earlier attempt that breaks is
\* made again on a new one, when its method or headers say that it may be.
MakesAgain ==
  /\ pc = "request" /\ reused /\ ~expired
  /\ pc' = "lookup" /\ conn' = NoAddress /\ reused' = FALSE
  /\ taken' \in {taken, taken + 1}
  /\ UNCHANGED <<message, answer, reply, attempts, result, reached, looked, expired>>

-----------------------------------------------------------------------------
(* Time. *)

\* Variant: the end of the attempt does not reach the dialler.
HeedsTimeNotDialling == pc \in {"request", "body"}

\* What the context ends: the resolver, the dial, the request and its body.
HeedsTime == pc # "idle"

\* The attempt's time is over, the client's Timeout is, or the server stops.
Expires ==
  /\ pc # "idle" /\ ~expired /\ expired' = TRUE
  /\ UNCHANGED <<message, pc, answer, conn, reply, attempts, result, reached, looked>>
  /\ Counts

EndsByTime ==
  /\ HeedsTime /\ expired /\ Ends("canceled")
  /\ answer' = <<>> /\ conn' = NoAddress
  /\ taken' \in (IF pc = "request" THEN {taken, taken + 1} ELSE {taken})
  /\ UNCHANGED <<message, reused, reply, attempts, reached, looked, expired>>

\* A kept connection is closed by either side.
Forgotten ==
  /\ pc = "idle" /\ conn # NoAddress /\ conn' = NoAddress
  /\ UNCHANGED <<message, pc, answer, reply, attempts, result, reached, looked, expired>>
  /\ Counts

Next ==
  \/ Begin \/ LooksUp \/ Dials \/ DialFails \/ Answers \/ ReadsBody \/ Breaks \/ MakesAgain
  \/ Expires \/ EndsByTime \/ Forgotten

\* The clock runs, and what waits for the network hears of it.  The server and
\* the resolver are free not to answer.
Fairness == WF_vars(Expires) /\ WF_vars(EndsByTime)
Spec == Init /\ [][Next]_vars /\ Fairness

-----------------------------------------------------------------------------
\* Types: an attempt (send) has addresses left to try exactly while it dials.
TypeOK ==
  /\ message \in Message /\ pc \in {"idle", "lookup", "dial", "request", "body"}
  /\ answer \in Seq(Address) /\ (pc = "dial" <=> answer # <<>>)
  /\ conn \in Address \cup {NoAddress} /\ reply \in {0, 204, 302, 500}
  /\ attempts \in 0 .. MaxAttempts
  /\ result \in {"none", "sent", "failed", "canceled", "limit"}
  /\ taken \in 0 .. 2 * MaxAttempts /\ reused \in BOOLEAN
  /\ reached \cup looked \subseteq Address /\ expired \in BOOLEAN

\* Whatever the resolver answers, and however often it changes its answer, no
\* connection goes to an address in a range that is never allowed, and to a
\* private one only inside an exception.
OnlyPermitted == \A a \in reached : a \notin Special /\ (a \in Private => a \in Excepted)

\* An answer that mixes good and blocked addresses is not used at all.
MixedUnused == pc = "dial" => looked \cap Special = {}

\* A message that is too long, has a header of its own for the connection, or
\* goes to a destination that is not listed leaves nothing in the network, not
\* on a connection that is already open either.  A limit of zero is a limit.
RefusedStaysHome ==
  \/ ~message.listed \/ ~message.header
  \/ RequestLimit >= 0 /\ message.length > RequestLimit
  => reached = {} /\ taken = 0

\* Sent means that the server took the message and said so with 2xx.
SentMeansTaken == result = "sent" => taken > 0 /\ reply = 204

\* One address that does not answer does not keep the others from being tried:
\* an attempt that fails over its dials has tried every address.
NoAddressSkipped == [][DialFails /\ pc' = "idle" => looked \subseteq reached']_vars

\* Whatever the resolver, the addresses and the server do, an attempt ends.
AttemptEnds == pc # "idle" ~> pc = "idle"
=============================================================================
