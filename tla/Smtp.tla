------------------------------- MODULE Smtp -------------------------------
(***************************************************************************)
(* The attempts of one e-mail (internal/service/email: Send, DialAndSend). *)
(* An attempt is one SMTP session with a server that may refuse any        *)
(* command or fall silent.  Time ends a session in two ways that race: the *)
(* deadline of the connection and the context, whose end closes it.        *)
(***************************************************************************)
EXTENDS Integers, FiniteSets

CONSTANTS
  Recipients, \* how many To, Cc and Bcc name; they are 1, 2, ...
  MaxAttempts \* bound: attempts of the message

SmtpAssumption == Recipients \in Nat \ {0} /\ MaxAttempts \in Nat \ {0}

Recipient == 1 .. Recipients

VARIABLES
  port465,  \* the configured port is 465: TLS from the start
  pc,       \* the command whose answer is awaited, or "idle"
  secured,  \* the session is inside TLS
  asked,    \* recipients named to the server in this session
  named,    \* those it accepted
  taken,    \* taken[r]: how often the server took the message for r
  attempts,
  result,   \* "none", "sent", or how the last attempt failed
  deadline, \* the deadline of the connection is over
  ctx,      \* ctx.Err(): "none", "canceled" or "deadline"
  shown,    \* history: the password went out outside TLS
  lost,     \* history: attempts whose message was taken and not answered for
  cutShort  \* history: time or cancellation broke the last attempt off

session == <<secured, asked, named, deadline, ctx>>
vars == <<port465, pc, session, taken, attempts, result, shown, lost, cutShort>>

Command == {"dial", "handshake", "greet", "ehlo", "starttls", "auth", "mail",
            "rcpt", "data", "write", "quit"}
Running == pc \in Command

Init ==
  /\ port465 \in BOOLEAN /\ pc = "idle"
  /\ secured = FALSE /\ asked = 0 /\ named = {} /\ deadline = FALSE /\ ctx = "none"
  /\ taken = [r \in Recipient |-> 0] /\ attempts = 0 /\ result = "none"
  /\ shown = FALSE /\ lost = 0 /\ cutShort = FALSE

-----------------------------------------------------------------------------
(* Begin and end of an attempt. *)

\* handleDelivery, with another attempt left; DialAndSend's new context.
Begin ==
  /\ pc = "idle" /\ result # "sent" /\ attempts < MaxAttempts
  /\ pc' = "dial" /\ attempts' = attempts + 1 /\ result' = "none" /\ cutShort' = FALSE
  /\ secured' = FALSE /\ asked' = 0 /\ named' = {} /\ deadline' = FALSE /\ ctx' = "none"
  /\ UNCHANGED <<port465, taken, shown, lost>>

\* The deferred function of DialAndSend: what an error is called.
Reason == IF ctx # "none" THEN ctx ELSE IF deadline THEN "deadline" ELSE "failed"

\* What the session waits for fails: SetDeadline, or Close by AfterFunc.
Cut == deadline \/ ctx # "none"

\* Variant: the error of Quit is the attempt's.
AfterCutAlways == Reason

\* What Send returns when the session breaks: the error of Quit is dropped.
AfterCut == IF pc = "quit" THEN "sent" ELSE Reason

Ends(outcome) == pc' = "idle" /\ result' = outcome /\ UNCHANGED <<port465, attempts, session>>

\* The answer does not come in time.
BrokenOff ==
  /\ Running /\ Cut
  /\ Ends(AfterCut) /\ cutShort' = (pc # "quit")
  /\ UNCHANGED <<taken, shown, lost>>

\* The server took the message, but its answer does not come.
AnswerLost ==
  /\ pc = "write" /\ taken' = [r \in Recipient |-> taken[r] + (IF r \in named THEN 1 ELSE 0)]
  /\ Ends(Reason) /\ lost' = lost + 1 /\ cutShort' = Cut /\ UNCHANGED shown

-----------------------------------------------------------------------------
(* The commands, in order, and the answers to them. *)

Goes(next) == pc' = next /\ UNCHANGED <<port465, attempts, result, cutShort, lost, deadline, ctx>>

AfterGreet == IF port465 THEN "auth" ELSE "ehlo"

\* Dial, TLS, greeting, EHLO, STARTTLS.
Connects ==
  /\ \/ pc = "dial" /\ Goes(IF port465 THEN "handshake" ELSE "greet") /\ UNCHANGED secured
     \/ pc = "handshake" /\ Goes("greet") /\ secured' = TRUE
     \/ pc = "greet" /\ Goes(AfterGreet) /\ UNCHANGED secured
     \/ pc = "ehlo" /\ Goes("starttls") /\ UNCHANGED secured
     \/ pc = "starttls" /\ Goes("auth") /\ secured' = TRUE
  /\ UNCHANGED <<asked, named, taken, shown>>

\* PlainAuth, once the server has answered EHLO.
Authenticates ==
  /\ pc = "auth" /\ Goes("mail") /\ shown' = (shown \/ ~secured)
  /\ UNCHANGED <<secured, asked, named, taken>>

\* MAIL, RCPT for one recipient after the other, DATA.
NamesRecipients ==
  /\ \/ pc = "mail" /\ Goes("rcpt") /\ UNCHANGED <<asked, named>>
     \/ /\ pc = "rcpt" /\ asked' = asked + 1 /\ named' = named \cup {asked + 1}
        /\ Goes(IF asked + 1 < Recipients THEN "rcpt" ELSE "data")
     \/ pc = "data" /\ Goes("write") /\ UNCHANGED <<asked, named>>
  /\ UNCHANGED <<secured, taken, shown>>

\* The answer to the end of the data: the server has the message.
Accepted ==
  /\ pc = "write" /\ Goes("quit")
  /\ taken' = [r \in Recipient |-> taken[r] + (IF r \in named THEN 1 ELSE 0)]
  /\ UNCHANGED <<secured, asked, named, shown>>

\* An answer that is an error, or the end of the connection, ends the session;
\* an EHLO without STARTTLS does.
Refused == Ends(AfterCut) /\ UNCHANGED <<taken, shown, lost, cutShort>>

Refuses == Running /\ ~Cut /\ Refused

\* The answer to QUIT.
Quits == pc = "quit" /\ Ends("sent") /\ UNCHANGED <<taken, shown, lost, cutShort>>

-----------------------------------------------------------------------------
(* Time. *)

Clock == UNCHANGED <<port465, pc, secured, asked, named, taken, attempts, result,
                     shown, lost, cutShort>>

\* Thirty seconds, or what is left of the attempt's.
DeadlinePasses == Running /\ ~deadline /\ deadline' = TRUE /\ UNCHANGED ctx /\ Clock

\* The context's own timer runs out a little earlier or later.
ContextExpires == Running /\ ctx = "none" /\ ctx' = "deadline" /\ UNCHANGED deadline /\ Clock

\* Shutdown cancels the attempts that still run.
Cancelled == Running /\ ctx = "none" /\ ctx' = "canceled" /\ UNCHANGED deadline /\ Clock

Next ==
  \/ Begin \/ Connects \/ Authenticates \/ NamesRecipients \/ Accepted \/ Quits
  \/ Refuses \/ AnswerLost \/ BrokenOff
  \/ DeadlinePasses \/ ContextExpires \/ Cancelled

\* Time passes, and a goroutine whose connection is closed gets its error.  No
\* fairness for the server: it may never answer.
Fairness == WF_vars(DeadlinePasses) /\ WF_vars(BrokenOff)
Spec == Init /\ [][Next]_vars /\ Fairness

-----------------------------------------------------------------------------
\* Types: a session (DialAndSend) names no more recipients than it has asked for.
TypeOK ==
  /\ port465 \in BOOLEAN /\ pc \in Command \cup {"idle"} /\ secured \in BOOLEAN
  /\ asked \in 0 .. Recipients /\ named \subseteq 1 .. asked
  /\ taken \in [Recipient -> 0 .. MaxAttempts] /\ attempts \in 0 .. MaxAttempts
  /\ result \in {"none", "sent", "failed", "canceled", "deadline"}
  /\ deadline \in BOOLEAN /\ ctx \in {"none", "canceled", "deadline"}
  /\ shown \in BOOLEAN /\ lost \in 0 .. MaxAttempts /\ cutShort \in BOOLEAN

\* A mail that counts as sent was taken for every recipient, To, Cc and Bcc.
SentMeansTaken == result = "sent" => \A r \in Recipient : taken[r] > 0

\* A message goes to all its recipients or to none: one recipient the server
\* refuses keeps the message from the others too.
AllOrNone == \A r, s \in Recipient : taken[r] = taken[s]

\* A message is taken again only after an attempt whose acceptance never came
\* back.  Once the server has accepted, nothing that happens to the session, QUIT
\* or a lost connection, makes a failed attempt of it.
RepeatsExplained == \A r \in Recipient : taken[r] <= lost + 1

\* The password stays inside TLS, whatever the server says it supports.
PasswordProtected == ~shown

\* An attempt broken off by time or by the shutdown is reported as such, whichever
\* of the two timers was first; it is not taken for the server's refusal.
ReasonIsKept == pc = "idle" /\ cutShort => result \in {"canceled", "deadline"}

\* A silent server holds no attempt forever.
AttemptEnds == Running ~> ~Running
=============================================================================
