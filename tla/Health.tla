------------------------------ MODULE Health ------------------------------
(***************************************************************************)
(* One readiness request (internal/observability/health.go, service.Health *)
(* and rabbitmq.Check): a snapshot of the service in two reads, a check of *)
(* each component in a goroutine of its own, which another one watches     *)
(* under the component's timeout, and a report made of what the watchers   *)
(* say.  Dependencies go up and down, the service stops and the client     *)
(* leaves at any moment.  The checks that make no call are one step.       *)
(***************************************************************************)
EXTENDS Integers

CONSTANTS
  Channel,                    \* the channels of the program
  Enabled,                    \* those with a sender
  ConfiguredCheckTimeout,     \* HEALTH_CHECK_TIMEOUT
  ConfiguredTimeouts,         \* the values of HEALTH_COMPONENT_TIMEOUT to look at
  DefaultCheckTimeout,        \* 3 seconds
  MaxFlips                    \* bound: changes in the system under check

HealthAssumption ==
  /\ Enabled \subseteq Channel
  /\ ConfiguredCheckTimeout \in Int /\ ConfiguredTimeouts \subseteq Int
  /\ DefaultCheckTimeout \in Nat \ {0}
  /\ MaxFlips \in Nat

Dependency == [kind : {"postgres", "rabbitmq"}, channel : {"all"}]
Relay == [kind |-> "relay", channel |-> "all"]
Consumer == [kind : {"consumer"}, channel : Enabled]
Provider == [kind : {"provider"}, channel : Channel]

\* The checks that make no call, and all of them.
Local == {Relay} \cup Consumer \cup Provider
Component == Dependency \cup Local

Critical(c) == c.kind # "provider"

\* NewHealth, on the check's timeout and on a component's.
CheckTimeout ==
  IF ConfiguredCheckTimeout <= 0 THEN DefaultCheckTimeout ELSE ConfiguredCheckTimeout

Effective(timeout) ==
  IF timeout <= 0 \/ timeout > CheckTimeout THEN CheckTimeout ELSE timeout

VARIABLES
  ComponentTimeout, \* config.ComponentTimeout, which no step changes
  service,  \* stopping, relayRunning and the consumers, as they are
  up,       \* the dependencies that answer
  flips,    \* changes still allowed
  pc,       \* of the handler
  snapshot, \* what Readiness read of the service
  age,      \* time since the checks began
  ctx,      \* of the checks: "live", "deadline" or "canceled"
  runner,   \* runner[d]: the goroutine that calls d, and its buffered result
  check,    \* check[c]: what the watcher of c reported, and when
  answer,   \* what the client gets: 200 if it is ready, otherwise 503
  past      \* history: what was up, down and stopping during the request

vars == <<service, up, flips, pc, snapshot, age, ctx, runner, check, answer, past>>

Verdict == [status : {"healthy", "degraded", "disabled", "unhealthy"},
            reason : {"", "canceled", "disabled", "disconnected",
                      "remote_unverified", "shutting_down", "stopped", "timeout",
                      "unavailable"}]
V(status, reason) == [status |-> status, reason |-> reason]
Unhealthy(reason) == V("unhealthy", reason)

NoAnswer == [ready |-> FALSE, status |-> "none"]
NoCheck == [verdict |-> V("", ""), at |-> -1]
Reported(c) == check[c] # NoCheck
Unread == V("", "")
NoRunner == [pc |-> "none", verdict |-> Unread]

Service == [stopping : BOOLEAN, relay : BOOLEAN,
            consumer : [Enabled -> {"stopped", "running", "connected"}]]

Init ==
  /\ ComponentTimeout \in {Effective(timeout) : timeout \in ConfiguredTimeouts}
  /\ service \in Service /\ snapshot = service
  /\ up \in SUBSET Dependency /\ flips = MaxFlips
  /\ pc = "none" /\ age = 0 /\ ctx = "live"
  /\ runner = [d \in Dependency |-> NoRunner]
  /\ check = [c \in Component |-> NoCheck]
  /\ answer = NoAnswer
  /\ past = [up |-> {}, down |-> {}, stopping |-> FALSE]

-----------------------------------------------------------------------------
(* What goes on meanwhile.  Init has every state in which a request may find *)
(* the system; once the snapshot is taken nothing reads the service.         *)

Seen(ups) ==
  past' = [past EXCEPT !.up = @ \cup ups, !.down = @ \cup (Dependency \ ups)]

Flip(d) ==
  /\ pc \in {"workers", "checks"} /\ flips > 0 /\ flips' = flips - 1
  /\ up' = IF d \in up THEN up \ {d} ELSE up \cup {d}
  /\ Seen(up')
  /\ UNCHANGED <<service, pc, snapshot, age, ctx, runner, check, answer>>

\* BeginShutdown; setRelayRunning(false); setConsumerHealth.
ServiceMoves ==
  /\ pc = "workers" /\ flips > 0 /\ flips' = flips - 1
  /\ \/ ~service.stopping /\ service' = [service EXCEPT !.stopping = TRUE]
     \/ service.stopping /\ service.relay /\ service' = [service EXCEPT !.relay = FALSE]
     \/ \E ch \in Enabled, s \in {"stopped", "running", "connected"} :
          /\ s # service.consumer[ch] /\ (s = "stopped" <=> service.stopping)
          /\ service' = [service EXCEPT !.consumer[ch] = s]
  /\ UNCHANGED <<up, pc, snapshot, age, ctx, runner, check, answer, past>>

\* The client closes its connection: the context of the request is cancelled.
ClientLeaves ==
  /\ pc = "checks" /\ ctx = "live" /\ ctx' = "canceled"
  /\ UNCHANGED <<service, up, flips, pc, snapshot, age, runner, check, answer, past>>

-----------------------------------------------------------------------------
(* Liveness and Readiness. *)

Liveness ==
  /\ pc = "none" /\ pc' = "answered"
  /\ answer' = [ready |-> ~service.stopping,
                status |-> IF service.stopping THEN "unhealthy" ELSE "healthy"]
  /\ UNCHANGED <<service, up, flips, snapshot, age, ctx, runner, check, past>>

\* service.Health reads stopping under one lock ...
Ask ==
  /\ pc = "none" /\ pc' = "workers"
  /\ snapshot' = [snapshot EXCEPT !.stopping = service.stopping]
  /\ past' = [up |-> up, down |-> Dependency \ up, stopping |-> service.stopping]
  /\ UNCHANGED <<service, up, flips, age, ctx, runner, check, answer>>

\* ... and the workers under another; then every check starts.
StartChecks ==
  /\ pc = "workers" /\ pc' = "checks"
  /\ snapshot' = [service EXCEPT !.stopping = snapshot.stopping]
  /\ runner' = [d \in Dependency |-> [NoRunner EXCEPT !.pc = "running"]]
  /\ UNCHANGED <<service, up, flips, age, ctx, check, answer, past>>

\* failedCheck.
FailedCheck ==
  Unhealthy(CASE ctx = "deadline" -> "timeout"
              [] ctx = "canceled" -> "canceled"
              [] OTHER            -> "unavailable")

RelayVerdict ==
  CASE snapshot.stopping -> Unhealthy("shutting_down")
    [] ~snapshot.stopping /\ ~snapshot.relay -> Unhealthy("stopped")
    [] OTHER -> V("healthy", "")

ConsumerVerdict(ch) ==
  CASE snapshot.stopping -> Unhealthy("shutting_down")
    [] ~snapshot.stopping /\ snapshot.consumer[ch] = "stopped" -> Unhealthy("stopped")
    [] ~snapshot.stopping /\ snapshot.consumer[ch] = "running" -> Unhealthy("disconnected")
    [] OTHER -> V("healthy", "")

ProviderVerdict(ch) ==
  IF ch \in Enabled THEN V("degraded", "remote_unverified") ELSE V("disabled", "disabled")

LocalVerdict(c) ==
  CASE c \in Consumer -> ConsumerVerdict(c.channel)
    [] c \in Provider -> ProviderVerdict(c.channel)
    [] OTHER          -> RelayVerdict

CutOff == IF ctx = "live" THEN {} ELSE {FailedCheck}

\* A result that is there at once, or the cancelled context: select takes any.
ReportLocal ==
  /\ pc = "checks" /\ \A c \in Local : ~Reported(c)
  /\ \E cut \in SUBSET Local :
       /\ ctx = "live" => cut = {}
       /\ check' = [c \in Component |->
                     CASE c \in Dependency -> check[c]
                       [] c \in cut -> [verdict |-> FailedCheck, at |-> age]
                       [] OTHER -> [verdict |-> LocalVerdict(c), at |-> age]]
  /\ UNCHANGED <<service, up, flips, pc, snapshot, age, ctx, runner, answer, past>>

\* What a call may return, if anybody is there to read it; one to a
\* dependency that is down may also hang.
Verdicts(d) ==
  (IF d \in up THEN {V("healthy", "")} ELSE {})
  \cup (IF d \notin up \/ ctx # "live" THEN {FailedCheck} ELSE {})

CallReturns(d) ==
  /\ runner[d].pc = "running"
  /\ \E v \in IF Reported(d) THEN {Unread} ELSE Verdicts(d) :
       runner' = [runner EXCEPT ![d] = [pc |-> "ended", verdict |-> v]]
  /\ UNCHANGED <<service, up, flips, pc, snapshot, age, ctx, check, answer, past>>

\* completed has room for the result: the goroutine ends, watched or not.
RunnerEnds(d) == CallReturns(d)

Result(d) == IF runner[d].pc = "ended" THEN {runner[d].verdict} ELSE {}

\* The select of runCheck: the result, or the end of the component's context.
Outcomes(d) == Result(d) \cup CutOff

Report(d) ==
  /\ pc = "checks" /\ ~Reported(d)
  /\ \E v \in Outcomes(d) : check' = [check EXCEPT ![d] = [verdict |-> v, at |-> age]]
  /\ runner' = [runner EXCEPT ![d].verdict = Unread]
  /\ UNCHANGED <<service, up, flips, pc, snapshot, age, ctx, answer, past>>

\* Variant: a check that was cut off is not held against a component.
ReadyUnlessDown ==
  \A c \in Component :
    Critical(c) => \/ check[c].verdict.status = "healthy"
                   \/ check[c].verdict.reason = "timeout"

\* Report.Ready.
Ready == \A c \in Component : Critical(c) => check[c].verdict.status = "healthy"

\* aggregateStatus.
Aggregate ==
  IF \E c \in Component : Critical(c) /\ check[c].verdict.status # "healthy"
  THEN "unhealthy"
  ELSE IF \A c \in Component : check[c].verdict.status \in {"healthy", "disabled"}
       THEN "healthy" ELSE "degraded"

\* Readiness has every check; it returns and cancels what is still running.
Answer ==
  /\ pc = "checks" /\ pc' = "answered"
  /\ \A c \in Component : Reported(c)
  /\ answer' = [ready |-> Ready, status |-> Aggregate]
  /\ ctx' = IF ctx = "live" THEN "canceled" ELSE ctx
  /\ UNCHANGED <<service, up, flips, snapshot, age, runner, check, past>>

-----------------------------------------------------------------------------
(* Time: nothing that is ready to go waits for it. *)

Deadline ==
  /\ pc = "checks" /\ ctx = "live" /\ age = ComponentTimeout
  /\ ctx' = "deadline"
  /\ UNCHANGED <<service, up, flips, pc, snapshot, age, runner, check, answer, past>>

Tick ==
  /\ pc = "checks" /\ age <= CheckTimeout
  /\ ctx = "live" => age # ComponentTimeout
  /\ (\A c \in Local : Reported(c)) /\ (\E d \in Dependency : ~Reported(d))
  /\ \A d \in Dependency : ~Reported(d) => Outcomes(d) = {}
  /\ age' = age + 1
  /\ UNCHANGED <<service, up, flips, pc, snapshot, ctx, runner, check, answer, past>>

Next ==
  /\ UNCHANGED ComponentTimeout
  /\ \/ \E d \in Dependency : Flip(d)
     \/ ServiceMoves \/ ClientLeaves \/ Liveness
     \/ Ask \/ StartChecks \/ ReportLocal \/ Answer \/ Deadline \/ Tick
     \/ \E d \in Dependency : RunnerEnds(d) \/ Report(d)

\* The goroutines of the request run and time passes; a call to a dependency may
\* hang for ever, whatever its context says.
Fairness ==
  /\ WF_vars(StartChecks) /\ WF_vars(ReportLocal) /\ WF_vars(Answer)
  /\ WF_vars(Deadline) /\ WF_vars(Tick)
  /\ \A d \in Dependency : WF_vars(Report(d))

Spec == Init /\ [][Next]_<<vars, ComponentTimeout>>
FairSpec == Spec /\ Fairness

-----------------------------------------------------------------------------
\* Types; every verdict is one of the fixed codes of docs/observability.md, and
\* the status of an answer agrees with its code.
TypeOK ==
  /\ ComponentTimeout \in 1 .. CheckTimeout
  /\ up \subseteq Dependency /\ flips \in 0 .. MaxFlips
  /\ pc \in {"none", "workers", "checks", "answered"}
  /\ pc = "answered" => (answer.ready <=> answer.status \in {"healthy", "degraded"})
  /\ age \in 0 .. CheckTimeout + 1 /\ ctx \in {"live", "deadline", "canceled"}
  /\ \A d \in Dependency :
       /\ runner[d].pc \in {"none", "running", "ended"}
       /\ runner[d].pc = "ended" => runner[d].verdict \in Verdict \cup {Unread}
  /\ \A c \in Component :
       Reported(c) => check[c].verdict \in Verdict /\ check[c].at \in 0 .. age

\* However long its dependencies hang, a request is over within CheckTimeout
\* and no check of a component takes longer than its own timeout.
AnsweredInTime ==
  /\ pc = "checks" => age <= CheckTimeout
  /\ \A c \in Component : check[c].at <= ComponentTimeout
  /\ pc = "checks" /\ age > ComponentTimeout => \A c \in Component : Reported(c)

\* A ready answer vouches for this request, not for an earlier moment: each
\* dependency answered during it, shutdown had not begun before it, and every
\* worker was at its work when the snapshot was taken.
ReadyIsFresh ==
  answer.ready /\ check[Relay] # NoCheck =>
    /\ Dependency \subseteq past.up
    /\ ~past.stopping
    /\ snapshot.relay /\ \A ch \in Enabled : snapshot.consumer[ch] = "connected"

\* A reason names the true cause: no dependency is called unavailable that was
\* up all along, no timeout is reported early, none is cancelled under a client
\* that stays.
BlameIsRight ==
  \A c \in Component :
    /\ check[c].verdict.reason = "unavailable" => c \in past.down
    /\ check[c].verdict.reason = "timeout" => check[c].at = ComponentTimeout
    /\ check[c].verdict.reason = "canceled" => check[c].at >= 0 /\ ctx = "canceled"

\* A readiness request is answered although a call it makes never returns, not
\* even at the end of its context.
RequestEnds == pc \in {"workers", "checks"} ~> pc = "answered"
=============================================================================
