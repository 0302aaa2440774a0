----------------------------- MODULE MCMessages -----------------------------
(***************************************************************************)
(* Instances of the models of what a message meets around its delivery:    *)
(* the API that reads it (HttpApi), the migration of the rows that an      *)
(* older version left (Migration), the attempts at the providers           *)
(* (ProviderCalls, Smtp, Webhook) and the waits between them               *)
(* (RetrySchedule).  They follow one another, and none sees the state of   *)
(* another: in each behaviour one of them is alive, from any of its        *)
(* initial states, and the others are over, in a state that they reach and *)
(* where they have no step left.                                           *)
(***************************************************************************)
EXTENDS RetrySchedule, MCRequests, Sequences, FiniteSets, FiniteSetsExt

CONSTANTS Request, Enabled, MaxRequests, MaxFaults
VARIABLES table, told, stopping, faults

Api == INSTANCE HttpApi
apiVars == <<table, told, stopping, faults>>

CONSTANTS NoTime, Server, Id, MaxAge, OldRow, Interval, MaxClock, MaxCrashes
VARIABLES old, keys, rows, schema, lock, work, todo, server, clock, crashes

Upgrade == INSTANCE Migration
upgradeVars == <<old, keys, rows, schema, lock, work, todo, server, clock, crashes>>

CONSTANTS Receptor, One, MaxTries
VARIABLES sender, shape, step, running, tries, outcome, uploads, takenFor, unknown

Provider == INSTANCE ProviderCalls WITH
  Recipient <- Receptor, MaxAttempts <- MaxTries, attempts <- tries, result <- outcome,
  taken <- takenFor
providerVars == <<sender, shape, step, running, tries, outcome, uploads, takenFor, unknown>>

CONSTANTS Addressees
VARIABLES port465, command, secured, asked, named, delivered, sessions, verdict,
          deadline, ctx, shown, lost, cutShort

Mail == INSTANCE Smtp WITH
  Recipients <- Addressees, MaxAttempts <- MaxTries, pc <- command, taken <- delivered,
  attempts <- sessions, result <- verdict
mailVars == <<port465, command, secured, asked, named, delivered, sessions, verdict,
              deadline, ctx, shown, lost, cutShort>>

CONSTANTS Address, Special, Private, Excepted, RequestLimit, ResponseLimit, MaxLength,
          MaxAddresses
VARIABLES message, pc, answer, conn, reused, reply, calls, result, taken, reached,
          looked, expired

Hook == INSTANCE Webhook WITH MaxAttempts <- MaxTries, attempts <- calls
hookVars == <<message, pc, answer, conn, reused, reply, calls, result, taken, reached,
              looked, expired>>

Old(state, retryCount, maxRetries, nextRetryAt) ==
  [state |-> state, retryCount |-> retryCount, maxRetries |-> maxRetries,
   nextRetryAt |-> nextRetryAt]

SentRow == Old("sent", 1, 1, NoTime)

\* Requests that reach Send.
Readable == {r \in Request : Api!Handled(r).passes}

ASSUME MessagesAssumption ==
  /\ Api!HttpApiAssumption /\ Upgrade!MigrationAssumption
  /\ Provider!ProviderCallsAssumption /\ Mail!SmtpAssumption /\ Hook!WebhookAssumption
  /\ MaxAttempts > 0 /\ NoTime \notin Int /\ SentRow \in OldRow
  /\ kSubset(MaxRequests, Readable) # {}
  /\ \E a \in Address : Hook!Permits(a)

\* One old row of each kind that the migration and the dispatch after it tell apart.
OldRows ==
  {Old("pending", 0, 0, NoTime), Old("pending", 0, 1, 2), Old("failed", 0, 1, 2),
   Old("sending", 0, 1, NoTime), Old("sending", 1, 1, NoTime), SentRow}

-----------------------------------------------------------------------------
\* The message has failed as often as it may.
WaitingOver == attempts = MaxAttempts /\ wait = RetryDelay(MaxAttempts)

\* The server refused its last requests because it stops.
ApiOver ==
  /\ table = <<>> /\ stopping = TRUE /\ faults = 0
  /\ told = {[request |-> r, code |-> 503, id |-> Api!NoId] :
               r \in CHOOSE some \in kSubset(MaxRequests, Readable) : TRUE}

\* Every server is up, on rows that were sent long ago.
UpgradeOver ==
  /\ old = [r \in Id |-> SentRow] /\ keys = [r \in Id |-> "none"]
  /\ rows = [r \in Id |-> Upgrade!Migrated(Upgrade!Widened(SentRow), SentRow)]
  /\ work = rows /\ schema = "new" /\ lock = Upgrade!Nobody /\ todo = {}
  /\ server = [s \in Server |-> "up"] /\ clock = MaxClock /\ crashes = MaxCrashes

\* The first attempt sent the message.
ProviderOver ==
  /\ sender = "sms" /\ shape = "short" /\ step = 0 /\ running = FALSE
  /\ tries = 1 /\ outcome = "sent" /\ uploads = 0 /\ unknown = 0
  /\ takenFor = [r \in Receptor |-> 1]

MailOver ==
  /\ port465 = TRUE /\ command = "idle" /\ secured = TRUE
  /\ asked = Addressees /\ named = Mail!Recipient
  /\ delivered = [r \in Mail!Recipient |-> 1] /\ sessions = 1 /\ verdict = "sent"
  /\ deadline = FALSE /\ ctx = "none" /\ shown = FALSE /\ lost = 0 /\ cutShort = FALSE

HookOver ==
  LET a == CHOOSE a \in Address : Hook!Permits(a)
  IN  /\ message = [listed |-> TRUE, header |-> TRUE, length |-> 0]
      /\ pc = "idle" /\ answer = <<>> /\ conn = Hook!NoAddress /\ reused = FALSE
      /\ reply = 204 /\ calls = 1 /\ result = "sent" /\ taken = 1
      /\ reached = {a} /\ looked = {a} /\ expired = FALSE

AttemptsOver == ProviderOver /\ MailOver /\ HookOver
attemptVars == <<providerVars, mailVars, hookVars>>

MessagesInit ==
  \/ Init /\ ApiOver /\ UpgradeOver /\ AttemptsOver
  \/ WaitingOver /\ Api!Init /\ UpgradeOver /\ AttemptsOver
  \/ WaitingOver /\ ApiOver /\ Upgrade!Init /\ AttemptsOver
  \/ WaitingOver /\ ApiOver /\ UpgradeOver
     /\ \/ Provider!Init /\ MailOver /\ HookOver
        \/ ProviderOver /\ Mail!Init /\ HookOver
        \/ ProviderOver /\ MailOver /\ Hook!Init

MessagesNext ==
  \/ Next /\ UNCHANGED <<apiVars, upgradeVars, attemptVars>>
  \/ Api!Next /\ UNCHANGED <<vars, upgradeVars, attemptVars>>
  \/ Upgrade!Next /\ UNCHANGED <<vars, apiVars, attemptVars>>
  \/ Provider!Next /\ UNCHANGED <<vars, apiVars, upgradeVars, mailVars, hookVars>>
  \/ Mail!Next /\ UNCHANGED <<vars, apiVars, upgradeVars, providerVars, hookVars>>
  \/ Hook!Next /\ UNCHANGED <<vars, apiVars, upgradeVars, providerVars, mailVars>>

MessagesSpec ==
  /\ MessagesInit
  /\ [][MessagesNext]_<<vars, apiVars, upgradeVars, attemptVars>>
  /\ Upgrade!Fairness /\ Mail!Fairness /\ Hook!Fairness

-----------------------------------------------------------------------------
\* The types of the six.
MessagesTypeOK ==
  /\ TypeOK /\ WaitsLevelOut /\ Api!TypeOK /\ Upgrade!TypeOK
  /\ Provider!TypeOK /\ Mail!TypeOK /\ Hook!TypeOK

\* The API tells one message from another as its submitter would (fingerprint, Send,
\* Status): a repetition gets the id it had, however it is spelled, and only a
\* different request a conflict; ids are of one message and stay known.
AnswersAgree == Api!RepetitionsAgree /\ Api!IdsAreApart /\ Api!IdsStayKnown

\* That, and what was stored passes the checks of its sender.
RequestsAgree == AnswersAgree /\ Api!SenderAgrees

\* A row of the old version never meets a server with its columns half filled and is
\* not given up without its attempts or its time; a server that is started fails only
\* over rows for the owner of the data (Migrate, ReserveDispatch).
NothingHalfMigrated ==
  [](Upgrade!UpMeansMigrated /\ Upgrade!BuriedWithReason) /\ Upgrade!RefusedForOwner

\* That, and what was unfinished comes back.
Upgraded == NothingHalfMigrated /\ Upgrade!LegacyRowsReturn

\* An attempt that counts as sent reached everyone it was for, with every sender: no
\* status, entry or id missing from an answer passes for one, no lost answer to QUIT
\* for a mail that was not taken, and none is taken for some only (Send of each sender).
SentMeansTaken ==
  /\ Provider!SentMeansTaken /\ Hook!SentMeansTaken
  /\ Mail!SentMeansTaken /\ Mail!AllOrNone

\* Nobody gets a message again but after an attempt whose acceptance never came back,
\* and no post goes out without its file (Send of each sender).
RepeatsExplained ==
  Provider!RepeatsExplained /\ Provider!PostHasFile /\ Mail!RepeatsExplained

\* Nothing goes where it must not, whatever the resolver and the server say: no
\* connection to an address the policy blocks, no part of a message that is refused,
\* no password outside TLS (dialContext, send, DialAndSend).
OnlyPermitted ==
  /\ Hook!OnlyPermitted /\ Hook!MixedUnused /\ Hook!RefusedStaysHome
  /\ Mail!PasswordProtected

\* An e-mail's attempt that time breaks off is reported as that, and a webhook's that
\* fails over its dials has tried every address (DialAndSend, dialContext).
EndsForReason == []Mail!ReasonIsKept /\ Hook!NoAddressSkipped

\* That, and a silent server holds no attempt forever.
AttemptEnds == Mail!AttemptEnds /\ Hook!AttemptEnds /\ EndsForReason
=============================================================================
