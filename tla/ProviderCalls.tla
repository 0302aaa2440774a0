--------------------------- MODULE ProviderCalls ---------------------------
(***************************************************************************)
(* The attempts of one message at the HTTP providers (internal/service:    *)
(* mattermost, bale, sms, providerhttp).  Send makes one call, or for      *)
(* Mattermost with a file two; the provider may take a call for some of    *)
(* the recipients, answer it in any way, or not at all, and an attempt     *)
(* that ends with an error is made again from the beginning.               *)
(***************************************************************************)
EXTENDS Integers, Sequences, FiniteSets

CONSTANTS
  Recipient,  \* the receptors of an SMS
  One,        \* the recipient of a message to one chat or channel
  MaxAttempts \* bound: attempts of the message

ProviderCallsAssumption ==
  IsFiniteSet(Recipient) /\ One \in Recipient /\ MaxAttempts \in Nat \ {0}

\* Messages as the senders tell them apart.
Shape == {"invalid", "short", "long", "file", "files", "emptyFile"}
Sender == {"bale", "mattermost", "sms"}

VARIABLES
  sender, shape,
  step,     \* calls of the attempt that are answered; 0 between attempts
  running,  \* an attempt is being made
  attempts,
  result,   \* "none", "failed" or "sent": the last attempt's
  uploads,  \* files the provider keeps
  taken,    \* taken[r]: how often the provider took the message for r
  unknown   \* history: attempts that failed although the message was taken

vars == <<sender, shape, step, running, attempts, result, uploads, taken, unknown>>

To == IF sender = "sms" THEN Recipient ELSE {One}

Init ==
  /\ sender \in Sender
  /\ shape \in (IF sender = "sms" THEN {"invalid", "short"} ELSE Shape)
  /\ step = 0 /\ running = FALSE /\ attempts = 0 /\ result = "none"
  /\ uploads = 0 /\ taken = [r \in Recipient |-> 0] /\ unknown = 0

-----------------------------------------------------------------------------
(* What Send does with a message. *)

\* The checks before the first call.
Refused == shape \in {"invalid", "files", "emptyFile"}

\* The calls of Send, in order.
Calls ==
  CASE sender = "bale"       -> IF shape = "short" THEN <<"sendMessage">>
                                                   ELSE <<"sendDocument">>
    [] sender = "mattermost" -> IF shape = "short" THEN <<"post">>
                                                   ELSE <<"upload", "post">>
    [] sender = "sms"        -> <<"send">>

Call == Calls[step + 1]
IsLast == step + 1 = Len(Calls)

-----------------------------------------------------------------------------
(* Answers. *)

Count == 0 .. Cardinality(Recipient) + 1

\* The status of an answer; whether its body can be read and is within
\* ResponseLimit; whether the provider says ok in it; how many entries it has,
\* and how many with an id and no status of a refusal.
Reply == [status : {200, 201, 302, 500}, readable : BOOLEAN, ok : BOOLEAN,
          entries : Count, accepted : Count]

\* 0 stands for every 2xx.
Expected ==
  CASE sender = "bale" -> 0 [] sender = "sms" -> 200 [] sender = "mattermost" -> 201

\* providerhttp.Response has a body to return.
HasBody(reply) ==
  /\ reply.status \in 200 .. 299
  /\ Expected # 0 => reply.status = Expected
  /\ reply.readable

\* Variant: of several entries one is enough.
GoodForOne(reply) ==
  HasBody(reply) /\ (sender # "mattermost" => reply.ok) /\ reply.accepted > 0

\* What do, Send of sms, post and upload make of it.  An SMS provider must have
\* as many entries as there are receptors, and accept in each; nobody compares
\* whose they are.  The others have one id to look for.
Good(reply) ==
  /\ HasBody(reply)
  /\ sender # "mattermost" => reply.ok
  /\ IF sender = "sms"
     THEN reply.entries = Cardinality(To) /\ reply.accepted = reply.entries
     ELSE reply.accepted > 0

\* A provider answers with the entries it has, and accepts no more than it took.
Honest(reply, takers) ==
  reply.accepted <= reply.entries /\ reply.accepted <= Cardinality(takers)

-----------------------------------------------------------------------------
(* An attempt. *)

\* handleDelivery, with another attempt left.
Begin ==
  /\ ~running /\ result # "sent" /\ attempts < MaxAttempts
  /\ attempts' = attempts + 1
  /\ running' = ~Refused /\ step' = 0
  /\ result' = IF Refused THEN "failed" ELSE "none"
  /\ UNCHANGED <<sender, shape, uploads, taken, unknown>>

\* The provider's side of a call.
Takes(takers) ==
  IF Call = "upload"
  THEN uploads' = uploads + (IF takers = {} THEN 0 ELSE 1) /\ UNCHANGED taken
  ELSE /\ taken' = [r \in Recipient |-> taken[r] + (IF r \in takers THEN 1 ELSE 0)]
       /\ UNCHANGED uploads

\* The call returns an error, and so does Send.
EndsWithError(takers) ==
  /\ running' = FALSE /\ result' = "failed" /\ step' = 0
  /\ unknown' = IF Call # "upload" /\ takers # {} THEN unknown + 1 ELSE unknown

Succeeds ==
  /\ step' = IF IsLast THEN 0 ELSE step + 1
  /\ running' = ~IsLast
  /\ result' = IF IsLast THEN "sent" ELSE result
  /\ UNCHANGED unknown

\* The provider answers.
Answered ==
  /\ running
  /\ \E takers \in SUBSET To, reply \in Reply :
       /\ Honest(reply, takers) /\ Takes(takers)
       /\ IF Good(reply) THEN Succeeds ELSE EndsWithError(takers)
  /\ UNCHANGED <<sender, shape, attempts>>

\* No answer: the connection fails, the attempt's time is over, the server
\* stops.  SafeError makes a fixed text of it.
Unanswered ==
  /\ running
  /\ \E takers \in SUBSET To : Takes(takers) /\ EndsWithError(takers)
  /\ UNCHANGED <<sender, shape, attempts>>

Next == Begin \/ Answered \/ Unanswered

\* An attempt ends: the client's timeout and the attempt's see to it.
Spec == Init /\ [][Next]_vars

-----------------------------------------------------------------------------
\* Types: a call of an attempt (Send) is answered only while the attempt runs.
TypeOK ==
  /\ sender \in Sender /\ shape \in Shape
  /\ step \in 0 .. 1 /\ (step = 1 => running) /\ running \in BOOLEAN
  /\ attempts \in 0 .. MaxAttempts /\ result \in {"none", "failed", "sent"}
  /\ uploads \in 0 .. MaxAttempts /\ unknown \in 0 .. MaxAttempts
  /\ taken \in [Recipient -> 0 .. MaxAttempts]

\* A success is the whole message for every recipient: no status code, entry or
\* id missing from an answer is taken for one.
SentMeansTaken == result = "sent" => \A r \in To : taken[r] > 0

\* No post of a file goes out without a file uploaded for it.
PostHasFile ==
  sender = "mattermost" /\ shape \in {"long", "file"} => taken[One] <= uploads

\* A recipient gets a message again only after an attempt that failed although
\* the provider had taken the message: there are no other repetitions.
RepeatsExplained == \A r \in Recipient : taken[r] <= unknown + 1
=============================================================================
