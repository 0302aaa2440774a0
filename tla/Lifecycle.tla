----------------------------- MODULE Lifecycle -----------------------------
(***************************************************************************)
(* The life of one server process: app.New builds database, service and    *)
(* observability in this order, main waits for a signal, and Shutdown      *)
(* takes everything down within one grace period: HTTP admission, requests *)
(* in flight, relay and consumers, collector, database (cmd/main.go,       *)
(* api/http/http.go, app/app.go, service.Shutdown).                        *)
(*                                                                         *)
(* A worker's delivery is here what shutdown can do to it: it is claimed,  *)
(* called and recorded, each step a call that takes time and ends early    *)
(* when workCtx is cancelled.  Delivery.tla has the rest.  Time is counted *)
(* in the units of Grace; a step with no call in it takes none.            *)
(***************************************************************************)
EXTENDS Integers

CONSTANTS
  Request,        \* HTTP submissions
  Worker,         \* the consumer goroutines, one for each enabled channel
  Grace,          \* the 35 seconds of main
  AttemptTimeout, \* the 30 seconds of a provider call
  Stalls,         \* bound: the longest times that database calls and dials may take
  MaxDeliveries   \* bound: deliveries the broker hands to a worker

ASSUME TimesAssumption ==
  Grace \in Nat /\ AttemptTimeout \in Nat /\ Stalls \subseteq Nat /\ MaxDeliveries \in Nat

VARIABLES
  main,        \* where the main goroutine is
  failed,      \* an error is among those that Shutdown joins
  grace,       \* what is left of shutdownCtx
  listening,   \* the HTTP server takes requests
  stopping,    \* service.stopping
  cancelled,   \* the contexts that are cancelled
  request,     \* request[r]
  worker,      \* worker[w].pc and the time its call has taken
  relay,       \* the relay goroutine, likewise
  collector,   \* the outbox collector, likewise
  outcome,     \* outcome[w]: what became of the last attempt of w
  left,        \* left[w]: deliveries still to come
  db,          \* the pool: "none", "open" or "closed"
  stall        \* the longest a database call or a dial takes in this behaviour

vars == <<main, failed, grace, listening, stopping, cancelled, request, worker,
          relay, collector, outcome, left, db, stall>>

Startup == {"initDB", "initService", "initObservability"}
MainPC == Startup \cup {"serving", "begin", "drain", "service", "runtime",
                        "collector", "close", "exited"}
WorkerPC == {"unborn", "connecting", "idle", "got", "claim", "calling", "finish",
             "stopped"}
LoopPC == {"unborn", "pause", "busy", "stopped"}

\* The parent of both others is runtime (service.New, app.New).
Cancelled(ctx) == ctx \in cancelled \/ "runtime" \in cancelled

Alive == main # "exited"
Expired == grace = 0
InFlight(r) == request[r] \in {"arrived", "storing"}

\* service.finished is closed: WaitGroup of the relay and the consumers.
Finished == relay.pc = "stopped" /\ \A w \in Worker : worker[w].pc = "stopped"

At(pc) == [pc |-> pc, spent |-> 0]

Init ==
  /\ main = "initDB" /\ failed = FALSE /\ grace = Grace
  /\ listening = FALSE /\ stopping = FALSE /\ cancelled = {}
  /\ request = [r \in Request |-> "none"]
  /\ worker = [w \in Worker |-> At("unborn")]
  /\ relay = At("unborn") /\ collector = At("unborn")
  /\ outcome = [w \in Worker |-> "none"]
  /\ left = [w \in Worker |-> MaxDeliveries]
  /\ db = "none" /\ stall \in Stalls

-----------------------------------------------------------------------------
(* main, app.New and the three Shutdowns. *)

MainKeeps == UNCHANGED <<request, worker, outcome, left, stall>>

\* Connect, migrate, then the repository.
InitDB ==
  /\ main = "initDB" /\ main' = "initService"
  /\ db' = "open"
  /\ UNCHANGED <<failed, grace, listening, stopping, cancelled, relay, collector>>
  /\ MainKeeps

\* The senders, then service.New, which starts the relay and the consumers.
InitService ==
  /\ main = "initService" /\ main' = "initObservability"
  /\ worker' = [w \in Worker |-> At("connecting")]
  /\ relay' = At("pause")
  /\ UNCHANGED <<failed, grace, listening, stopping, cancelled, request,
                 collector, outcome, left, db, stall>>

\* Health, the collector, and the goroutine that serves HTTP.
InitObservability ==
  /\ main = "initObservability" /\ main' = "serving"
  /\ collector' = At("busy") /\ listening' = TRUE
  /\ UNCHANGED <<failed, grace, stopping, cancelled, relay, db>> /\ MainKeeps

\* logger.Fatal: a step of app.New or server.Start fails.
Fatal ==
  /\ main \in Startup \cup {"serving"} /\ main' = "exited"
  /\ failed' = TRUE
  /\ UNCHANGED <<grace, listening, stopping, cancelled, relay, collector, db>>
  /\ MainKeeps

\* SIGTERM; the grace period begins, and BeginShutdown takes admissionMu.
Signal ==
  /\ main = "serving" /\ main' = "begin"
  /\ stopping' = TRUE
  /\ UNCHANGED <<failed, grace, listening, cancelled, relay, collector, db>>
  /\ MainKeeps

\* The end of BeginShutdown, stopPolling, and the start of echo.Shutdown.
StopPolling ==
  /\ main = "begin" /\ main' = "drain"
  /\ cancelled' = cancelled \cup {"polling"} /\ listening' = FALSE
  /\ UNCHANGED <<failed, grace, stopping, relay, collector, db>> /\ MainKeeps

\* echo.Shutdown returns: no request is in flight, or the context is done.
Drained ==
  /\ main = "drain" /\ main' = "service"
  /\ \/ (\A r \in Request : ~InFlight(r)) /\ UNCHANGED failed
     \/ Expired /\ failed' = TRUE
  /\ UNCHANGED <<grace, listening, stopping, cancelled, relay, collector, db>>
  /\ MainKeeps

\* The select of service.Shutdown, and cancelWork in both of its branches.
StopService ==
  /\ main = "service" /\ main' = "runtime"
  /\ \/ Finished /\ UNCHANGED failed
     \/ Expired /\ failed' = TRUE
  /\ cancelled' = cancelled \cup {"work"}
  /\ UNCHANGED <<grace, listening, stopping, relay, collector, db>> /\ MainKeeps

CancelRuntime ==
  /\ main = "runtime" /\ main' = "collector"
  /\ cancelled' = cancelled \cup {"runtime"}
  /\ UNCHANGED <<failed, grace, listening, stopping, relay, collector, db>>
  /\ MainKeeps

\* Variant: the collector is told to stop and not waited for.
CollectorLeft ==
  /\ main = "collector" /\ main' = "close"
  /\ UNCHANGED <<failed, grace, listening, stopping, cancelled, relay, collector, db>>
  /\ MainKeeps

\* waitForCollector.
CollectorGone ==
  /\ main = "collector" /\ main' = "close"
  /\ \/ collector.pc = "stopped" /\ UNCHANGED failed
     \/ Expired /\ failed' = TRUE
  /\ UNCHANGED <<grace, listening, stopping, cancelled, relay, collector, db>>
  /\ MainKeeps

\* The pool is closed and main returns, or calls Fatal with the joined error.
CloseDatabase ==
  /\ main = "close" /\ main' = "exited"
  /\ db' = "closed"
  /\ UNCHANGED <<failed, grace, listening, stopping, cancelled, relay, collector>>
  /\ MainKeeps

MainStep ==
  \/ InitDB \/ InitService \/ InitObservability \/ StopPolling \/ Drained
  \/ StopService \/ CancelRuntime \/ CollectorGone \/ CloseDatabase

-----------------------------------------------------------------------------
(* Requests. *)

RequestKeeps == UNCHANGED <<main, failed, grace, listening, stopping, cancelled,
                            worker, relay, collector, outcome, left, db, stall>>

Arrive(r) ==
  /\ Alive /\ listening /\ request[r] = "none"
  /\ request' = [request EXCEPT ![r] = "arrived"]
  /\ RequestKeeps

\* The admission check of Send, under admissionMu.
AdmitRequest(r) ==
  /\ Alive /\ request[r] = "arrived"
  /\ request' = [request EXCEPT ![r] = IF stopping THEN "refused" ELSE "storing"]
  /\ RequestKeeps

\* The INSERT ends: for a request nothing bounds how long it takes.
Answer(r) ==
  /\ Alive /\ request[r] = "storing"
  /\ request' = [request EXCEPT ![r] = IF db = "open" THEN "accepted" ELSE "error"]
  /\ RequestKeeps

-----------------------------------------------------------------------------
(* The goroutines of the service and of the collector. *)

WorkerKeeps == UNCHANGED <<main, failed, grace, listening, stopping, cancelled,
                           request, relay, collector, db, stall>>

Goes(w, pc) == worker' = [worker EXCEPT ![w] = At(pc)]

\* mqConnection and the setup of the channel: done, or to be tried again.
Connect(w) ==
  /\ Alive /\ worker[w].pc = "connecting"
  /\ IF Cancelled("polling")
     THEN Goes(w, "stopped")
     ELSE Goes(w, "idle") \/ Goes(w, "connecting")
  /\ UNCHANGED <<outcome, left>> /\ WorkerKeeps

\* The delivery loop sees the cancelled context, or a delivery.
Receive(w) ==
  /\ Alive /\ worker[w].pc = "idle"
  /\ \/ Cancelled("polling") /\ Goes(w, "stopped") /\ UNCHANGED left
     \/ /\ ~Cancelled("polling") /\ left[w] > 0
        /\ Goes(w, "got") /\ left' = [left EXCEPT ![w] = @ - 1]
  /\ UNCHANGED outcome /\ WorkerKeeps

\* The admission check of handleDelivery.
AdmitDelivery(w) ==
  /\ Alive /\ worker[w].pc = "got"
  /\ Goes(w, IF stopping THEN "idle" ELSE "claim")
  /\ UNCHANGED <<outcome, left>> /\ WorkerKeeps

\* A call under workCtx on an open pool can succeed.
Usable == db = "open" /\ ~Cancelled("work")

\* Claim: a row, or none to be had.
Claim(w) ==
  /\ Alive /\ worker[w].pc = "claim"
  /\ \/ /\ Usable /\ Goes(w, "calling")
        /\ outcome' = [outcome EXCEPT ![w] = "open"]
     \/ Goes(w, "idle") /\ UNCHANGED outcome
  /\ UNCHANGED left /\ WorkerKeeps

\* Send returns: by its answer, its timeout or the cancelled context.
CallEnds(w) ==
  /\ Alive /\ worker[w].pc = "calling"
  /\ Goes(w, "finish")
  /\ UNCHANGED <<outcome, left>> /\ WorkerKeeps

\* Finish records the outcome, or it is lost with the attempt's lease.
Finish(w) ==
  /\ Alive /\ worker[w].pc = "finish"
  /\ Goes(w, "idle")
  /\ outcome' = [outcome EXCEPT ![w] = IF Usable THEN "recorded" ELSE "lost"]
  /\ UNCHANGED left /\ WorkerKeeps

WorkerStep(w) ==
  \/ Connect(w) \/ Receive(w) \/ AdmitDelivery(w) \/ Claim(w) \/ CallEnds(w)
  \/ Finish(w)

\* Between two rounds a loop pauses; in a round it makes one call.
LoopStep(loop, ctx) ==
  \/ loop.pc = "pause" /\ ~Cancelled(ctx) /\ loop' = At("busy")
  \/ loop.pc = "busy" /\ loop' = At("pause")
  \/ loop.pc = "pause" /\ Cancelled(ctx) /\ loop' = At("stopped")

RelayStep ==
  /\ Alive /\ LoopStep(relay, "polling")
  /\ UNCHANGED <<main, failed, grace, listening, stopping, cancelled, request,
                 worker, collector, outcome, left, db, stall>>

CollectorStep ==
  /\ Alive /\ LoopStep(collector, "runtime")
  /\ UNCHANGED <<main, failed, grace, listening, stopping, cancelled, request,
                 worker, relay, outcome, left, db, stall>>

-----------------------------------------------------------------------------
(* Time. *)

InCall(w) == worker[w].pc \in {"connecting", "claim", "calling", "finish"}

\* Variant: Send is called with workCtx itself.
LimitForgotten(w) == IF worker[w].pc = "calling" THEN Grace + 2 ELSE stall

\* The attempt's timeout of handleDelivery; the others end by themselves.
Limit(w) == IF worker[w].pc = "calling" THEN AttemptTimeout ELSE stall

\* The worker has something to do that takes no time.
Prompt(w) ==
  \/ worker[w].pc = "got"
  \/ worker[w].pc = "idle" /\ Cancelled("polling")
  \/ worker[w].pc \in {"claim", "calling", "finish"} /\ Cancelled("work")

LoopPrompt(loop, ctx) == loop.pc = "pause" /\ Cancelled(ctx)

Aged(p, busy) == IF busy THEN [p EXCEPT !.spent = @ + 1] ELSE p

Tick ==
  /\ Alive /\ main \notin Startup
  /\ ~ENABLED MainStep
  /\ \A w \in Worker : ~Prompt(w) /\ (InCall(w) => worker[w].spent < Limit(w))
  /\ ~LoopPrompt(relay, "polling") /\ ~LoopPrompt(collector, "runtime")
  /\ relay.pc = "busy" => relay.spent < stall
  /\ collector.pc = "busy" => collector.spent < stall
  /\ grace' = IF main = "serving" \/ Expired THEN grace ELSE grace - 1
  /\ worker' = [w \in Worker |-> Aged(worker[w], InCall(w))]
  /\ relay' = Aged(relay, relay.pc = "busy")
  /\ collector' = Aged(collector, collector.pc = "busy")
  /\ UNCHANGED <<main, failed, listening, stopping, cancelled, request, outcome,
                 left, db, stall>>

Next ==
  \/ MainStep \/ Fatal \/ Signal
  \/ \E r \in Request : Arrive(r) \/ AdmitRequest(r) \/ Answer(r)
  \/ \E w \in Worker : WorkerStep(w)
  \/ RelayStep \/ CollectorStep \/ Tick

\* Goroutines run and time passes; a request may take for ever.
Fairness ==
  /\ WF_vars(MainStep) /\ WF_vars(Tick)
  /\ WF_vars(RelayStep) /\ WF_vars(CollectorStep)
  /\ \A w \in Worker : WF_vars(WorkerStep(w))

Spec == Init /\ [][Next]_vars
FairSpec == Spec /\ Fairness

-----------------------------------------------------------------------------
\* Types, and no call lasts longer than its limit.
TypeOK ==
  /\ main \in MainPC /\ failed \in BOOLEAN /\ grace \in 0 .. Grace
  /\ listening \in BOOLEAN /\ stopping \in BOOLEAN
  /\ cancelled \subseteq {"polling", "work", "runtime"}
  /\ request \in [Request -> {"none", "arrived", "storing", "accepted",
                              "refused", "error"}]
  /\ \A w \in Worker : /\ worker[w].pc \in WorkerPC
                         /\ worker[w].spent \in 0 .. Limit(w)
  /\ relay.pc \in LoopPC /\ collector.pc \in LoopPC
  /\ outcome \in [Worker -> {"none", "open", "recorded", "lost"}]
  /\ db \in {"none", "open", "closed"} /\ stall \in Stalls

\* When main returns without an error, nothing was left behind: no attempt
\* without its outcome, no request without its answer, no goroutine.
CleanExitIsComplete ==
  main = "exited" /\ ~failed =>
    /\ Finished /\ collector.pc = "stopped"
    /\ \A w \in Worker : outcome[w] \in {"none", "recorded"}
    /\ \A r \in Request : ~InFlight(r)

\* The relationship docs/hardening-design.md asks for: a grace period longer
\* than the calls of one delivery loses no outcome, however long the requests
\* in flight take to drain and whatever the workers were doing at the signal.
GraceCoversAttempt ==
  2 * stall + AttemptTimeout < Grace =>
    \A w \in Worker : outcome[w] # "lost"

\* The pool is open under everything that could still use it, unless the
\* grace period ran out.
DatabaseClosedLast ==
  db = "closed" /\ ~Expired =>
    /\ Finished /\ collector.pc = "stopped"
    /\ \A r \in Request : request[r] # "storing"

\* An exit without an error left nothing behind, and the pool is closed under
\* nobody while there is time (Service.Shutdown, app.Shutdown).
ShutdownComplete == CleanExitIsComplete /\ DatabaseClosedLast

\* A shutdown, once begun, ends, even with a request that never does.
ShutdownEnds == main = "begin" ~> main = "exited"
=============================================================================
