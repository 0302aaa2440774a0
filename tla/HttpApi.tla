------------------------------ MODULE HttpApi ------------------------------
(***************************************************************************)
(* What the HTTP API makes of a request (internal/api/http/handler and     *)
(* dto, the checks of internal/entity, and Send, accept and Status of      *)
(* internal/service): how it is read, checked and brought into a normal    *)
(* form, which status code answers it, and what is stored.  Requests are   *)
(* served one at a time here; how they race is in Submission.              *)
(***************************************************************************)
EXTENDS Integers, Sequences, FiniteSets, SequencesExt

CONSTANTS
  Request,     \* the requests that are sent
  Enabled,     \* channels with a sender
  MaxRequests, \* bound: different requests and answers
  MaxFaults    \* bound: failures of the database

Channel == {"sms", "email", "mattermost", "bale", "http"}

NoKey == ""
NoText == ""

\* The fields of a channel's message that its handler and Validate tell apart.
IsMessage(channel, m) ==
  CASE channel = "sms"        -> m \in [to : Seq(STRING), text : BOOLEAN]
    [] channel = "http"       -> m \in [url : STRING, method : STRING, headers : BOOLEAN]
    [] channel = "email"      -> DOMAIN m = {"to", "subject", "attachments"}
    [] channel = "mattermost" -> DOMAIN m = {"channelId", "text", "attachments"}
    [] channel = "bale"       -> DOMAIN m = {"chatId", "attachments"}

\* A request: whether its body binds to the dto; whether its query parses;
\* max_retries; send_at (none is 0, one outside the years 1 to 9999 is below);
\* the key, "bad" for one that is too long or not printable.
\* Texts and recipients other than those of an SMS only count as empty or not.
IsRequest(r) ==
  /\ r.channel \in Channel /\ IsMessage(r.channel, r.message)
  /\ r.binds \in BOOLEAN /\ r.parses \in BOOLEAN
  /\ r.maxRetries \in Int /\ r.sendAt \in Int /\ r.key \in {NoKey, "key", "bad"}

HttpApiAssumption ==
  /\ IsFiniteSet(Request) /\ \A r \in Request : IsRequest(r)
  /\ Enabled \subseteq Channel
  /\ MaxRequests \in Nat /\ MaxFaults \in Nat

VARIABLES
  table,    \* the rows, as a sequence: the index is the id
  told,     \* the requests with their status codes and ids
  stopping, \* service.stopping
  faults

vars == <<table, told, stopping, faults>>

NoId == 0
Init == table = <<>> /\ told = {} /\ stopping = FALSE /\ faults = MaxFaults

-----------------------------------------------------------------------------
(* The dto: attachments. *)

Supplied(a) == a.name /\ a.data # "none"

\* AttachmentToEntity fails on data that is not base64.
Decodes(attachments) ==
  \A i \in DOMAIN attachments : Supplied(attachments[i]) => attachments[i].data # "bad"

\* What it makes of the others: the ones without a name or data are left out.
Attachments(attachments) == SelectSeq(attachments, Supplied)

-----------------------------------------------------------------------------
(* The messages: Validate, which for an SMS also tidies the recipients. *)

\* The elements of s at the positions I, in their order.
Picked(s, I) ==
  LET n  == Cardinality(I)
      at == CHOOSE f \in [1 .. n -> I] : \A i, j \in 1 .. n : i < j => f[i] < f[j]
  IN  [i \in 1 .. n |-> s[at[i]]]

\* SMSMessage.Validate drops the empty recipients (slices.DeleteFunc), then all but
\* one of equal neighbours (slices.Compact).
NotEmpty(s) == Picked(s, {i \in DOMAIN s : s[i] # NoText})
Compacted(s) == Picked(s, {i \in DOMAIN s : i = 1 \/ s[i] # s[i - 1]})
Recipients(to) == Compacted(NotEmpty(to))

ValidSMS(m) == Recipients(m.to) # <<>> /\ m.text
ValidEmail(m) == m.to /\ m.subject
ValidMattermost(m) == m.text /\ m.channelId
ValidHTTP(m) == m.url \in {"url", " url "} /\ m.headers

\* A Bale message is looked at when it is sent.
Valid(channel, m) ==
  CASE channel = "sms" -> ValidSMS(m)     [] channel = "email" -> ValidEmail(m)
    [] channel = "http" -> ValidHTTP(m)   [] channel = "mattermost" -> ValidMattermost(m)
    [] channel = "bale" -> TRUE

\* EffectiveMethod: upper case, without spaces, POST when there is none.
EffectiveMethod(method) ==
  IF method \in {NoText, "post", " POST "} THEN "POST" ELSE method

\* Variant: the method is stored as it came.
NormalAsGiven(channel, m) ==
  CASE channel = "sms"  -> [m EXCEPT !.to = Recipients(@)]
    [] channel = "http" -> [m EXCEPT !.url = "url"]
    [] OTHER            -> m

\* The message accept stores: an outbound request with its method and its URL
\* trimmed, an SMS as Validate left it.
Normal(channel, m) ==
  CASE channel = "sms"  -> [m EXCEPT !.to = Recipients(@)]
    [] channel = "http" -> [m EXCEPT !.method = EffectiveMethod(@), !.url = "url"]
    [] OTHER            -> m

-----------------------------------------------------------------------------
(* The handlers, up to the call of Send: whether they get there, and with    *)
(* what message.                                                             *)

Parsed(r) == r.binds /\ r.parses
Passes(m) == [passes |-> TRUE, message |-> m]
Stops     == [passes |-> FALSE]

WithAttachments(r) ==
  IF Parsed(r) /\ Decodes(r.message.attachments)
  THEN Passes([r.message EXCEPT !.attachments = Attachments(@)])
  ELSE Stops

sendSMS(r)        == IF Parsed(r) THEN Passes(r.message) ELSE Stops
sendHTTP(r)       == IF Parsed(r) THEN Passes(r.message) ELSE Stops
sendEmail(r)      == WithAttachments(r)
sendMattermost(r) == WithAttachments(r)
SendBale(r)       == WithAttachments(r)

Handled(r) ==
  CASE r.channel = "sms" -> sendSMS(r)     [] r.channel = "email" -> sendEmail(r)
    [] r.channel = "bale" -> SendBale(r)   [] r.channel = "mattermost" -> sendMattermost(r)
    [] r.channel = "http" -> sendHTTP(r)

-----------------------------------------------------------------------------
(* Send and accept. *)

\* normalizeMaxRetries.
Retries(n) == IF n < 0 THEN -1 ELSE n

\* What the fingerprint is taken of.
PrintOf(r, m) == [message |-> Normal(r.channel, m), maxRetries |-> Retries(r.maxRetries),
                sendAt |-> r.sendAt]

\* The unique index: only keys that are not empty, and within their channel.
SameKey(row, r) == r.key # NoKey /\ row.channel = r.channel /\ row.key = r.key

Taken(r) == {id \in DOMAIN table : SameKey(table[id], r)}

\* sendSubmissionError, and 200.
Code(outcome) ==
  CASE outcome = "accepted" -> 200  [] outcome = "invalid" -> 400
    [] outcome = "conflict" -> 409  [] outcome \in {"unavailable", "shutting_down"} -> 503
    [] outcome = "error" -> 500

Answer(r, outcome, id) == told' = told \cup {[request |-> r, code |-> Code(outcome), id |-> id]}

Store(r, m) ==
  table' = Append(table, [channel |-> r.channel, key |-> r.key, print |-> PrintOf(r, m)])

\* The checks of accept.
Invalid(r, m) == r.key = "bad" \/ ~Valid(r.channel, m) \/ r.sendAt < 0

\* Why Send refuses a request that its handler has read.
Refusal(r, m) ==
  CASE stopping -> "shutting_down"
    [] ~stopping /\ r.channel \notin Enabled -> "unavailable"
    [] ~stopping /\ r.channel \in Enabled /\ Invalid(r, m) -> "invalid"
    [] OTHER -> "none"

\* The handler, Send, accept and Create for one request.
Post(r) ==
  /\ LET handled == Handled(r)
         m == handled.message
     IN  CASE ~handled.passes -> Answer(r, "invalid", NoId) /\ UNCHANGED table
           [] handled.passes /\ Refusal(r, m) # "none" ->
                Answer(r, Refusal(r, m), NoId) /\ UNCHANGED table
           [] OTHER ->
                IF Taken(r) = {}
                THEN Store(r, m) /\ Answer(r, "accepted", Len(table'))
                ELSE \E id \in Taken(r) :
                       /\ IF table[id].print = PrintOf(r, m)
                          THEN Answer(r, "accepted", id) ELSE Answer(r, "conflict", NoId)
                       /\ UNCHANGED table
  /\ UNCHANGED <<stopping, faults>>

\* The same with a database that fails, before or after the commit.
PostFails(r) ==
  /\ faults > 0 /\ faults' = faults - 1
  /\ Handled(r).passes /\ Refusal(r, Handled(r).message) = "none"
  /\ \/ UNCHANGED table
     \/ Taken(r) = {} /\ Store(r, Handled(r).message)
  /\ Answer(r, "error", NoId) /\ UNCHANGED stopping

-----------------------------------------------------------------------------
(* Status. *)

\* service.Status looks an id up whatever route it came by.
Found(route, id) == id \in DOMAIN table

StatusOf(route, id) == IF Found(route, id) THEN 200 ELSE 404

\* All routes but one ask for an id first.
StatusWithId(route, id) == IF id = NoId THEN 400 ELSE StatusOf(route, id)

statusSMS(id)        == StatusOf("sms", id)
statusEmail(id)      == StatusWithId("email", id)
statusMattermost(id) == StatusWithId("mattermost", id)
StatusBale(id)       == StatusWithId("bale", id)
statusHTTP(id)       == StatusWithId("http", id)

StatusCode(route, id) ==
  CASE route = "sms" -> statusSMS(id)    [] route = "email" -> statusEmail(id)
    [] route = "bale" -> StatusBale(id)  [] route = "mattermost" -> statusMattermost(id)
    [] route = "http" -> statusHTTP(id)

\* BeginShutdown.
Stop == ~stopping /\ stopping' = TRUE /\ UNCHANGED <<table, told, faults>>

Next ==
  \/ \E r \in Request : Cardinality(told) < MaxRequests /\ (Post(r) \/ PostFails(r))
  \/ Stop

Spec == Init /\ [][Next]_vars

-----------------------------------------------------------------------------
\* Types: only messages of enabled channels are stored, and an id is told exactly
\* with a 200 (Send, Status).
TypeOK ==
  /\ \A id \in DOMAIN table : table[id].channel \in Enabled /\ table[id].key \in {NoKey, "key"}
  /\ \A t \in told : t.request \in Request /\ t.code \in {200, 400, 409, 500, 503}
                     /\ t.id \in 0 .. Len(table) /\ (t.code = 200 <=> t.id # NoId)
  /\ stopping \in BOOLEAN /\ faults \in 0 .. MaxFaults /\ Cardinality(told) \in 0 .. MaxRequests

\* docs/queue-contract.md, read as a reference: when two requests say the same.
SameMeaning(r, q) ==
  LET m == Handled(r).message
      n == Handled(q).message
  IN  /\ r.channel = q.channel /\ r.sendAt = q.sendAt
      /\ r.maxRetries = q.maxRetries \/ (r.maxRetries < 0 /\ q.maxRetries < 0)
      /\ CASE r.channel = "sms" ->
                m.text = n.text /\ Recipients(m.to) = Recipients(n.to)
           [] r.channel = "http" ->
                m.headers = n.headers /\ EffectiveMethod(m.method) = EffectiveMethod(n.method)
           [] OTHER -> m = n

\* A client that repeats a request under its key, spelled differently if it likes,
\* gets the id it had; it gets a conflict only when the request says something else.
RepetitionsAgree ==
  \A s, t \in told :
    /\ s.request.channel = t.request.channel /\ s.request.key = t.request.key
    /\ s.request.key = "key" /\ s.code = 200 /\ t.code \in {200, 409}
    => (t.code = 200 /\ t.id = s.id <=> SameMeaning(s.request, t.request))

\* Without a key every request that is accepted is a message of its own, and no two
\* channels share an id.
IdsAreApart ==
  \A s, t \in told :
    s.code = 200 /\ t.code = 200 /\ s.id = t.id =>
      /\ s.request.channel = t.request.channel
      /\ s.request = t.request \/ s.request.key = "key"

\* The stored message is its own normal form: a sender that checks it again finds
\* nothing to refuse, and tidying it again changes nothing, so that the SMS sender,
\* which does not tidy, asks for as many ids as there are recipients.
SenderAgrees ==
  \A id \in DOMAIN table :
    LET row == table[id] IN /\ Valid(row.channel, row.print.message)
                            /\ Normal(row.channel, row.print.message) = row.print.message

\* An id the API gave is known to it from then on, on every route, and no route
\* knows an id before it is given.
IdsStayKnown ==
  \A route \in Channel :
    /\ \A t \in told : t.code = 200 => StatusCode(route, t.id) = 200
    /\ \A id \in {NoId, Len(table) + 1} : StatusCode(route, id) # 200
=============================================================================
