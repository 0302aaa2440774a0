--------------------------- MODULE LifecycleProofs ---------------------------
(***************************************************************************)
(* Proofs about Lifecycle for any requests, any workers, any grace period  *)
(* and any duration of the calls.  They hold even if time may pass while   *)
(* main or a goroutine has something prompt to do: of the guard of Tick    *)
(* they use only that no call outlives its limit.                          *)
(***************************************************************************)
EXTENDS Lifecycle, TLAPS

USE TimesAssumption

-----------------------------------------------------------------------------
(* The inductive invariant. *)

Process == [pc: WorkerPC, spent: Nat]
Loop == [pc: LoopPC, spent: Nat]

\* TypeOK, and the shape of the processes.
LifeTypes ==
  /\ TypeOK
  /\ worker \in [Worker -> Process] /\ relay \in Loop /\ collector \in Loop
  /\ left \in [Worker -> Nat]

ShuttingDown == {"begin", "drain", "service", "runtime", "collector", "close"}

\* What main has done by the time it is where it is.
MainProgress ==
  /\ main \in Startup \cup {"serving"} => ~stopping /\ cancelled = {}
  /\ main \in ShuttingDown => stopping
  /\ ~stopping => grace = Grace
  /\ main = "initDB" => db = "none"
  /\ main \in {"initDB", "initService"} =>
       \A w \in Worker : worker[w].pc = "unborn"
  /\ main \notin {"initDB", "exited"} => db = "open"
  /\ db = "closed" => main = "exited"
  /\ main = "exited" => failed \/ db = "closed"
  /\ listening => main \in {"serving", "begin", "exited"}
  /\ Cancelled("work") => main \in {"runtime", "collector", "close", "exited"}
  /\ main \in {"runtime", "collector", "close"} => Cancelled("work")

\* A worker that is in an attempt when shutdown begins took it up before, so
\* that the grace period is no shorter by more than the attempt has taken.
AttemptsBegan ==
  stopping =>
    \A w \in Worker :
      /\ worker[w].pc = "claim" => Grace - grace <= worker[w].spent
      /\ worker[w].pc = "calling" => Grace - grace <= stall + worker[w].spent
      /\ worker[w].pc = "finish" =>
           Grace - grace <= stall + AttemptTimeout + worker[w].spent

InAttempt(w) == worker[w].pc \in {"claim", "calling", "finish"}
GraceSuffices == 2 * stall + AttemptTimeout < Grace

\* A grace period that is long enough sees every attempt out.
NoneCutShort ==
  GraceSuffices =>
    \A w \in Worker :
      /\ outcome[w] # "lost"
      /\ stopping /\ Cancelled("work") => ~InAttempt(w)

\* Nothing went wrong yet, or the grace period did not run out.
Clean == ~failed \/ ~Expired

\* What main waited for is over, unless it gave up waiting.
WaitedFor ==
  /\ Clean /\ (main \in {"service", "runtime", "collector", "close"} \/ db = "closed") =>
       \A r \in Request : ~InFlight(r)
  /\ Clean /\ (main \in {"runtime", "collector", "close"} \/ db = "closed") => Finished
  /\ Clean /\ (main = "close" \/ db = "closed") => collector.pc = "stopped"
  /\ failed => main = "exited" \/ Expired

\* An attempt's outcome is open while the attempt lasts, and lost only in a
\* shutdown that reports an error.
OutcomesTold ==
  \A w \in Worker :
    /\ outcome[w] = "open" => worker[w].pc \in {"calling", "finish"}
    /\ outcome[w] = "lost" => failed

LifeInv ==
  /\ LifeTypes
  /\ MainProgress
  /\ AttemptsBegan
  /\ NoneCutShort
  /\ WaitedFor
  /\ OutcomesTold

-----------------------------------------------------------------------------
(* What kinds of steps there are. *)

mainVars == <<main, failed, grace, listening, stopping, cancelled, db>>

\* A process that begins to do something else.
LEMMA Fresh ==
  /\ \A pc \in WorkerPC : At(pc) \in Process
  /\ \A pc \in LoopPC : At(pc) \in Loop
  /\ \A pc : At(pc).pc = pc /\ At(pc).spent = 0
BY DEF At, Process, Loop

\* The first states.
LEMMA InitLife == Init => LifeInv
<1> SUFFICES ASSUME Init PROVE LifeInv
  OBVIOUS
<1>0. "unborn" \in WorkerPC /\ "unborn" \in LoopPC /\ "initDB" \in Startup
      /\ "initDB" \notin ShuttingDown
  BY DEF WorkerPC, LoopPC, Startup, ShuttingDown
<1>1. \A w \in Worker : worker[w].pc = "unborn" /\ worker[w].spent = 0
  BY Fresh DEF Init
<1>2. TypeOK
  <2>1. \A w \in Worker : worker[w].spent \in 0 .. Limit(w)
    BY <1>1 DEF Init, Limit
  <2>2. relay.pc \in LoopPC /\ collector.pc \in LoopPC
    BY <1>0, Fresh DEF Init
  <2>3. main \in MainPC /\ grace \in 0 .. Grace /\ db \in {"none", "open", "closed"}
        /\ stall \in Stalls
    BY DEF Init, MainPC, Startup
  <2>4. failed \in BOOLEAN /\ listening \in BOOLEAN /\ stopping \in BOOLEAN
    BY DEF Init
  <2> QED  BY <1>0, <1>1, <2>1, <2>2, <2>3, <2>4 DEF Init, TypeOK
<1>3. LifeTypes
  BY <1>0, <1>2, Fresh DEF Init, LifeTypes
<1>4. MainProgress
  BY <1>0, <1>1 DEF Init, MainProgress, Cancelled
<1>5. AttemptsBegan /\ NoneCutShort /\ OutcomesTold
  BY <1>1 DEF Init, AttemptsBegan, NoneCutShort, OutcomesTold
<1>6. WaitedFor
  BY DEF Init, WaitedFor
<1> QED  BY <1>3, <1>4, <1>5, <1>6 DEF LifeInv

\* What a step of main leaves to be shown.
LEMMA MainMoves ==
  ASSUME LifeInv, MainKeeps, UNCHANGED <<grace, relay>>,
         main' \in MainPC, failed' \in BOOLEAN, listening' \in BOOLEAN,
         stopping' \in BOOLEAN, cancelled' \subseteq {"polling", "work", "runtime"},
         db' \in {"none", "open", "closed"}, collector' \in Loop,
         failed => failed',
         MainProgress', WaitedFor',
         stopping' => stopping \/ grace = Grace,
         GraceSuffices /\ stopping' /\ Cancelled("work")' =>
           (stopping /\ Cancelled("work")) \/ \A w \in Worker : ~InAttempt(w)
  PROVE  LifeInv'
<1> USE DEF MainKeeps
<1>1. TypeOK'
  BY DEF LifeInv, LifeTypes, TypeOK, Limit, Loop
<1>2. LifeTypes'
  BY <1>1 DEF LifeInv, LifeTypes
<1>3. AttemptsBegan'
  <2>1. CASE stopping
    BY <2>1 DEF LifeInv, AttemptsBegan
  <2>2. CASE ~stopping
    <3>1. stall \in Nat
      BY DEF LifeInv, LifeTypes, TypeOK
    <3> QED  BY <2>2, <3>1 DEF LifeInv, LifeTypes, TypeOK, AttemptsBegan, Process
  <2> QED  BY <2>1, <2>2
<1>4. NoneCutShort'
  BY DEF LifeInv, NoneCutShort, GraceSuffices, InAttempt
<1>5. OutcomesTold'
  BY DEF LifeInv, OutcomesTold
<1> QED  BY <1>2, <1>3, <1>4, <1>5 DEF LifeInv

\* An error that Shutdown has found is not forgotten.
LEMMA FailedStays ==
  ASSUME LifeInv, (UNCHANGED failed) \/ failed' = TRUE
  PROVE  failed' \in BOOLEAN /\ (failed => failed')
<1>1. failed \in BOOLEAN
  BY DEF LifeInv, LifeTypes, TypeOK
<1>2. CASE UNCHANGED failed
  BY <1>1, <1>2
<1>3. CASE failed' = TRUE
  BY <1>3
<1> QED  BY <1>2, <1>3

\* The three steps of app.New.
LEMMA StartupSteps == LifeInv /\ (InitDB \/ InitObservability) => LifeInv'
<1>1. ASSUME LifeInv, InitDB PROVE LifeInv'
  <2> USE DEF InitDB
  <2>1. MainProgress'
    BY <1>1 DEF LifeInv, MainProgress, MainKeeps, Cancelled, Startup, ShuttingDown
  <2>2. WaitedFor'
    BY <1>1 DEF LifeInv, WaitedFor, MainProgress, Expired
  <2> QED  BY <1>1, <2>1, <2>2, MainMoves
           DEF LifeInv, LifeTypes, TypeOK, MainPC, Startup, MainProgress, Cancelled
<1>2. ASSUME LifeInv, InitObservability PROVE LifeInv'
  <2> USE DEF InitObservability
  <2>1. MainProgress'
    BY <1>2 DEF LifeInv, MainProgress, MainKeeps, Cancelled, Startup, ShuttingDown
  <2>2. WaitedFor'
    BY <1>2 DEF LifeInv, WaitedFor, MainProgress, Expired
  <2>3. collector' \in Loop
    BY <1>2, Fresh DEF LoopPC
  <2> QED  BY <1>2, <2>1, <2>2, <2>3, MainMoves
           DEF LifeInv, LifeTypes, TypeOK, MainPC, Startup, MainProgress, Cancelled
<1> QED  BY <1>1, <1>2

\* service.New starts the goroutines.
LEMMA InitServiceStep == LifeInv /\ InitService => LifeInv'
<1> SUFFICES ASSUME LifeInv, InitService PROVE LifeInv'
  OBVIOUS
<1>1. /\ main = "initService" /\ main' = "initObservability"
      /\ worker' = [w \in Worker |-> At("connecting")]
      /\ relay' = At("pause")
      /\ UNCHANGED <<failed, grace, listening, stopping, cancelled, request,
                     collector, outcome, left, db, stall>>
      /\ ~stopping
  BY DEF InitService, LifeInv, MainProgress, Startup
<1>2. worker' \in [Worker -> Process] /\ relay' \in Loop
      /\ \A w \in Worker : worker'[w].pc = "connecting" /\ worker'[w].spent = 0
  BY <1>1, Fresh DEF WorkerPC, LoopPC
<1>3. TypeOK'
  <2>1. \A w \in Worker : worker'[w].spent \in 0 .. Limit(w)'
    BY <1>1, <1>2 DEF LifeInv, LifeTypes, TypeOK, Limit
  <2>2. relay'.pc \in LoopPC
    BY <1>2 DEF Loop
  <2> QED  BY <1>1, <1>2, <2>1, <2>2
           DEF LifeInv, LifeTypes, TypeOK, MainPC, Startup, WorkerPC
<1>4. LifeTypes'
  BY <1>1, <1>2, <1>3 DEF LifeInv, LifeTypes
<1>5. MainProgress'
  BY <1>1 DEF LifeInv, MainProgress, Cancelled, Startup, ShuttingDown
<1>6. AttemptsBegan' /\ NoneCutShort'
  BY <1>1 DEF LifeInv, AttemptsBegan, NoneCutShort, GraceSuffices
<1>7. WaitedFor'
  BY <1>1 DEF LifeInv, WaitedFor, MainProgress, Expired
<1>8. OutcomesTold'
  <2>1. \A w \in Worker : outcome[w] # "open"
    BY <1>1 DEF LifeInv, OutcomesTold, MainProgress
  <2> QED  BY <1>1, <2>1 DEF LifeInv, OutcomesTold
<1> QED  BY <1>4, <1>5, <1>6, <1>7, <1>8 DEF LifeInv

\* An error while starting ends the process.
LEMMA FatalStep == LifeInv /\ Fatal => LifeInv'
<1> SUFFICES ASSUME LifeInv, Fatal PROVE LifeInv'
  OBVIOUS
<1> USE DEF Fatal
<1>1. MainProgress'
  BY DEF LifeInv, MainProgress, MainKeeps, Cancelled, Startup, ShuttingDown
<1>2. WaitedFor'
  BY DEF LifeInv, WaitedFor, MainProgress, Startup
<1>3. ~stopping /\ ~Cancelled("work")'
  BY DEF LifeInv, MainProgress, Cancelled
<1> QED  BY <1>1, <1>2, <1>3, MainMoves DEF LifeInv, LifeTypes, TypeOK, MainPC

\* The grace period begins when admission ends.
LEMMA SignalStep == LifeInv /\ Signal => LifeInv'
<1> SUFFICES ASSUME LifeInv, Signal PROVE LifeInv'
  OBVIOUS
<1> USE DEF Signal
<1>1. MainProgress'
  BY DEF LifeInv, MainProgress, MainKeeps, Cancelled, Startup, ShuttingDown
<1>2. WaitedFor'
  BY DEF LifeInv, WaitedFor, MainProgress, Expired
<1>3. grace = Grace /\ ~Cancelled("work")'
  BY DEF LifeInv, MainProgress, Cancelled
<1> QED  BY <1>1, <1>2, <1>3, MainMoves DEF LifeInv, LifeTypes, TypeOK, MainPC

\* Listening and polling end.
LEMMA StopPollingStep == LifeInv /\ StopPolling => LifeInv'
<1> SUFFICES ASSUME LifeInv, StopPolling PROVE LifeInv'
  OBVIOUS
<1> USE DEF StopPolling
<1>1. Cancelled("work")' <=> Cancelled("work")
  BY DEF Cancelled
<1>2. MainProgress'
  BY <1>1 DEF LifeInv, MainProgress, MainKeeps, Startup, ShuttingDown
<1>3. WaitedFor'
  BY DEF LifeInv, WaitedFor, MainProgress, Expired
<1> QED  BY <1>1, <1>2, <1>3, MainMoves DEF LifeInv, LifeTypes, TypeOK, MainPC

\* No request is in flight any more, or the grace period is over.
LEMMA DrainedStep == LifeInv /\ Drained => LifeInv'
<1> SUFFICES ASSUME LifeInv, Drained PROVE LifeInv'
  OBVIOUS
<1> USE DEF Drained
<1>1. Cancelled("work")' <=> Cancelled("work")
  BY DEF Cancelled
<1>2. MainProgress'
  BY <1>1 DEF LifeInv, MainProgress, MainKeeps, Startup, ShuttingDown
<1>3. WaitedFor'
  BY DEF LifeInv, WaitedFor, MainProgress, Clean, Expired, InFlight, MainKeeps
<1>4. failed' \in BOOLEAN /\ (failed => failed')
  BY FailedStays
<1> QED  BY <1>1, <1>2, <1>3, <1>4, MainMoves
         DEF LifeInv, LifeTypes, TypeOK, MainPC

\* workCtx is cancelled when the goroutines have ended, or when the grace
\* period is over; none of them is in an attempt by then.
LEMMA StopServiceStep == LifeInv /\ StopService => LifeInv'
<1> SUFFICES ASSUME LifeInv, StopService PROVE LifeInv'
  OBVIOUS
<1> USE DEF StopService
<1>1. MainProgress'
  BY DEF LifeInv, MainProgress, MainKeeps, Cancelled, Startup, ShuttingDown
<1>2. WaitedFor'
  BY DEF LifeInv, WaitedFor, MainProgress, Clean, Expired, InFlight, Finished, MainKeeps
<1>3. ASSUME GraceSuffices, NEW w \in Worker PROVE ~InAttempt(w)
  <2>1. CASE Finished
    BY <2>1 DEF Finished, InAttempt
  <2>2. CASE Expired
    <3>1. stopping
      BY DEF LifeInv, MainProgress, ShuttingDown
    <3>2. /\ worker[w].pc = "calling" => worker[w].spent <= AttemptTimeout
          /\ worker[w].pc \in {"claim", "finish"} => worker[w].spent <= stall
          /\ worker[w].spent \in Nat /\ stall \in Nat
      BY DEF LifeInv, LifeTypes, TypeOK, Limit
    <3> QED  BY <1>3, <2>2, <3>1, <3>2
             DEF LifeInv, AttemptsBegan, Expired, InAttempt, GraceSuffices
  <2> QED  BY <2>1, <2>2
<1>4. stopping' = stopping
  OBVIOUS
<1>5. failed' \in BOOLEAN /\ (failed => failed')
  BY FailedStays
<1> QED  BY <1>1, <1>2, <1>3, <1>4, <1>5, MainMoves
         DEF LifeInv, LifeTypes, TypeOK, MainPC

\* The rest of app.Shutdown.
LEMMA CancelRuntimeStep == LifeInv /\ CancelRuntime => LifeInv'
<1> SUFFICES ASSUME LifeInv, CancelRuntime PROVE LifeInv'
  OBVIOUS
<1> USE DEF CancelRuntime
<1>1. Cancelled("work")' /\ Cancelled("work")
  BY DEF Cancelled, LifeInv, MainProgress
<1>2. MainProgress'
  BY <1>1 DEF LifeInv, MainProgress, MainKeeps, Startup, ShuttingDown
<1>3. WaitedFor'
  BY DEF LifeInv, WaitedFor, MainProgress, Clean, Expired, InFlight, Finished, MainKeeps
<1> QED  BY <1>1, <1>2, <1>3, MainMoves DEF LifeInv, LifeTypes, TypeOK, MainPC

\* waitForCollector.
LEMMA CollectorGoneStep == LifeInv /\ CollectorGone => LifeInv'
<1> SUFFICES ASSUME LifeInv, CollectorGone PROVE LifeInv'
  OBVIOUS
<1> USE DEF CollectorGone
<1>1. Cancelled("work")' <=> Cancelled("work")
  BY DEF Cancelled
<1>2. MainProgress'
  BY <1>1 DEF LifeInv, MainProgress, MainKeeps, Startup, ShuttingDown
<1>3. WaitedFor'
  BY DEF LifeInv, WaitedFor, MainProgress, Clean, Expired, InFlight, Finished, MainKeeps
<1>4. failed' \in BOOLEAN /\ (failed => failed')
  BY FailedStays
<1> QED  BY <1>1, <1>2, <1>3, <1>4, MainMoves
         DEF LifeInv, LifeTypes, TypeOK, MainPC

\* The pool is closed last.
LEMMA CloseDatabaseStep == LifeInv /\ CloseDatabase => LifeInv'
<1> SUFFICES ASSUME LifeInv, CloseDatabase PROVE LifeInv'
  OBVIOUS
<1> USE DEF CloseDatabase
<1>1. Cancelled("work")' /\ Cancelled("work")
  BY DEF Cancelled, LifeInv, MainProgress
<1>2. MainProgress'
  BY <1>1 DEF LifeInv, MainProgress, MainKeeps, Startup, ShuttingDown
<1>3. WaitedFor'
  BY DEF LifeInv, WaitedFor, MainProgress, Clean, Expired, InFlight, Finished, MainKeeps
<1> QED  BY <1>1, <1>2, <1>3, MainMoves DEF LifeInv, LifeTypes, TypeOK, MainPC

-----------------------------------------------------------------------------
(* Steps of the requests and of the goroutines. *)

\* A request that is new while the server listens, or one that moves on.
LEMMA RequestSteps ==
  ASSUME LifeInv, NEW r \in Request, Arrive(r) \/ AdmitRequest(r) \/ Answer(r)
  PROVE  LifeInv'
<1>1. RequestKeeps /\ Alive
  BY DEF Arrive, AdmitRequest, Answer
<1>2. request' \in [Request -> {"none", "arrived", "storing", "accepted",
                                "refused", "error"}]
  BY DEF Arrive, AdmitRequest, Answer, LifeInv, LifeTypes, TypeOK
<1>3. LifeTypes'
  <2>1. TypeOK'
    BY <1>1, <1>2 DEF RequestKeeps, LifeInv, LifeTypes, TypeOK, Limit
  <2> QED  BY <1>1, <2>1 DEF RequestKeeps, LifeInv, LifeTypes
<1>4. MainProgress'
  BY <1>1 DEF RequestKeeps, LifeInv, MainProgress, Cancelled
<1>5. AttemptsBegan' /\ NoneCutShort' /\ OutcomesTold'
  BY <1>1 DEF RequestKeeps, LifeInv, AttemptsBegan, NoneCutShort, OutcomesTold,
              GraceSuffices, InAttempt, Cancelled
<1>6. WaitedFor'
  <2>1. CASE Arrive(r)
    <3>1. main \in {"serving", "begin"} /\ db # "closed"
      BY <1>1, <2>1 DEF Arrive, Alive, LifeInv, MainProgress
    <3> QED  BY <1>1, <3>1 DEF RequestKeeps, LifeInv, WaitedFor, Expired
  <2>2. CASE AdmitRequest(r) \/ Answer(r)
    <3>1. \A q \in Request : InFlight(q)' => InFlight(q)
      BY <2>2 DEF AdmitRequest, Answer, InFlight, LifeInv, LifeTypes, TypeOK
    <3> QED  BY <1>1, <3>1
             DEF RequestKeeps, LifeInv, WaitedFor, Clean, Expired, Finished
  <2> QED  BY <2>1, <2>2
<1> QED  BY <1>3, <1>4, <1>5, <1>6 DEF LifeInv

\* A consumer goroutine that goes from one place to another: what each of its
\* steps has to show.  An attempt is not begun in a shutdown, and one that is
\* under way moves on from call to call.
LEMMA WorkerMoves ==
  ASSUME LifeInv, Alive, WorkerKeeps, NEW w \in Worker, NEW pc \in WorkerPC,
         Goes(w, pc), worker[w].pc \notin {"unborn", "stopped"},
         left' \in [Worker -> Nat],
         outcome' \in [Worker -> {"none", "open", "recorded", "lost"}],
         \A v \in Worker \ {w} : outcome'[v] = outcome[v],
         pc = "claim" => ~stopping,
         pc = "calling" => worker[w].pc = "claim" /\ ~Cancelled("work"),
         pc = "finish" => worker[w].pc = "calling",
         outcome'[w] = "open" => pc \in {"calling", "finish"},
         outcome'[w] = "lost" => failed /\ ~GraceSuffices
  PROVE  LifeInv'
<1> USE DEF WorkerKeeps
<1>1. worker' = [worker EXCEPT ![w] = At(pc)] /\ At(pc) \in Process
      /\ At(pc).pc = pc /\ At(pc).spent = 0
  BY Fresh DEF Goes
<1>2. worker' \in [Worker -> Process] /\ worker'[w] = At(pc)
      /\ \A v \in Worker \ {w} : worker'[v] = worker[v]
  BY <1>1 DEF LifeInv, LifeTypes
<1>3. stall \in Nat /\ grace \in Nat /\ Grace \in Nat
  BY DEF LifeInv, LifeTypes, TypeOK
<1>4. LifeTypes'
  <2>1. \A v \in Worker : worker'[v].pc \in WorkerPC /\ worker'[v].spent \in 0 .. Limit(v)'
    BY <1>1, <1>2, <1>3 DEF LifeInv, LifeTypes, TypeOK, Limit
  <2>2. TypeOK'
    BY <2>1 DEF LifeInv, LifeTypes, TypeOK
  <2> QED  BY <1>2, <2>2 DEF LifeInv, LifeTypes
<1>5. MainProgress'
  BY DEF LifeInv, MainProgress, Cancelled
<1>6. AttemptsBegan'
  <2>1. /\ worker[w].pc = "claim" => worker[w].spent <= stall
        /\ worker[w].pc = "calling" => worker[w].spent <= AttemptTimeout
        /\ worker[w].spent \in Nat
    BY <1>3 DEF LifeInv, LifeTypes, TypeOK, Limit
  <2> QED  BY <1>1, <1>2, <1>3, <2>1 DEF LifeInv, AttemptsBegan
<1>7. NoneCutShort'
  <2> SUFFICES ASSUME GraceSuffices, NEW v \in Worker
               PROVE  outcome'[v] # "lost"
                      /\ (stopping /\ Cancelled("work") => ~InAttempt(v)')
    BY DEF NoneCutShort, GraceSuffices, Cancelled
  <2>1. CASE v = w
    BY <1>1, <1>2, <2>1 DEF LifeInv, NoneCutShort, InAttempt
  <2>2. CASE v # w
    BY <1>2, <2>2 DEF LifeInv, NoneCutShort, InAttempt
  <2> QED  BY <2>1, <2>2
<1>8. WaitedFor'
  <2>1. ~Finished
    BY DEF Finished
  <2> QED  BY <2>1 DEF LifeInv, WaitedFor, MainProgress, Clean, Expired, InFlight, Alive
<1>9. OutcomesTold'
  BY <1>1, <1>2 DEF LifeInv, OutcomesTold
<1> QED  BY <1>4, <1>5, <1>6, <1>7, <1>8, <1>9 DEF LifeInv

\* Before an attempt: the connection, the delivery, the admission check.
LEMMA ReceivingSteps ==
  ASSUME LifeInv, NEW w \in Worker, Connect(w) \/ Receive(w) \/ AdmitDelivery(w)
  PROVE  LifeInv'
<1>1. Alive /\ WorkerKeeps /\ UNCHANGED outcome
      /\ worker[w].pc \in {"connecting", "idle", "got"}
  BY DEF Connect, Receive, AdmitDelivery
<1>2. left' \in [Worker -> Nat]
  BY DEF Connect, Receive, AdmitDelivery, LifeInv, LifeTypes
<1>3. PICK pc \in {"stopped", "idle", "connecting", "got", "claim"} :
        Goes(w, pc) /\ (pc = "claim" => ~stopping)
  BY DEF Connect, Receive, AdmitDelivery
<1>4. outcome' \in [Worker -> {"none", "open", "recorded", "lost"}]
      /\ outcome'[w] # "open"
      /\ (outcome'[w] = "lost" => failed /\ ~GraceSuffices)
  BY <1>1 DEF LifeInv, LifeTypes, TypeOK, OutcomesTold, NoneCutShort
<1>5. pc \in WorkerPC
  BY DEF WorkerPC
<1> QED  BY <1>1, <1>2, <1>3, <1>4, <1>5, WorkerMoves

\* The attempt.  Its outcome is lost only if the pool or workCtx is gone by
\* the time it is to be recorded.
LEMMA AttemptSteps ==
  ASSUME LifeInv, NEW w \in Worker, Claim(w) \/ CallEnds(w) \/ Finish(w)
  PROVE  LifeInv'
<1>1. Alive /\ WorkerKeeps /\ UNCHANGED left /\ left' \in [Worker -> Nat]
      /\ worker[w].pc \in {"claim", "calling", "finish"}
  BY DEF Claim, CallEnds, Finish, LifeInv, LifeTypes
<1>2. {"idle", "calling", "finish"} \subseteq WorkerPC
  BY DEF WorkerPC
<1>3. outcome \in [Worker -> {"none", "open", "recorded", "lost"}]
      /\ (outcome[w] = "open" => worker[w].pc \in {"calling", "finish"})
      /\ (outcome[w] = "lost" => failed /\ ~GraceSuffices)
  BY DEF LifeInv, LifeTypes, TypeOK, OutcomesTold, NoneCutShort
<1>4. CASE Claim(w)
  <2>1. CASE Usable /\ Goes(w, "calling") /\ outcome' = [outcome EXCEPT ![w] = "open"]
    BY <1>1, <1>2, <1>3, <1>4, <2>1, WorkerMoves DEF Claim, Usable
  <2>2. CASE Goes(w, "idle") /\ UNCHANGED outcome
    BY <1>1, <1>2, <1>3, <1>4, <2>2, WorkerMoves DEF Claim
  <2> QED  BY <1>4, <2>1, <2>2 DEF Claim
<1>5. CASE CallEnds(w)
  BY <1>1, <1>2, <1>3, <1>5, WorkerMoves DEF CallEnds
<1>6. CASE Finish(w)
  <2>1. ASSUME ~Usable PROVE failed /\ ~GraceSuffices
    <3>1. main \notin {"initDB", "exited"}
      BY <1>1 DEF Alive, LifeInv, MainProgress
    <3>2. Cancelled("work") /\ main \in {"runtime", "collector", "close"}
      BY <2>1, <3>1 DEF Usable, LifeInv, MainProgress
    <3>3. ~Finished /\ stopping /\ InAttempt(w)
      BY <1>1, <3>2 DEF Finished, InAttempt, LifeInv, MainProgress, ShuttingDown
    <3> QED  BY <3>2, <3>3 DEF LifeInv, WaitedFor, Clean, NoneCutShort
  <2>2. outcome' = [outcome EXCEPT ![w] = IF Usable THEN "recorded" ELSE "lost"]
        /\ Goes(w, "idle")
    BY <1>6 DEF Finish
  <2>3. outcome' \in [Worker -> {"none", "open", "recorded", "lost"}]
        /\ outcome'[w] = (IF Usable THEN "recorded" ELSE "lost")
        /\ \A v \in Worker \ {w} : outcome'[v] = outcome[v]
    BY <1>3, <2>2
  <2> QED  BY <1>1, <1>2, <2>1, <2>2, <2>3, WorkerMoves
<1> QED  BY <1>4, <1>5, <1>6

\* A step of the relay or of the collector.
LEMMA RoundSteps ==
  ASSUME LifeInv, RelayStep \/ CollectorStep PROVE LifeInv'
<1>1. UNCHANGED <<main, failed, grace, listening, stopping, cancelled, request,
                  worker, outcome, left, db, stall>>
  BY DEF RelayStep, CollectorStep
<1>2. relay' \in Loop /\ collector' \in Loop
      /\ (relay.pc = "stopped" => relay'.pc = "stopped")
      /\ (collector.pc = "stopped" => collector'.pc = "stopped")
  <2>1. relay \in Loop /\ collector \in Loop
    BY DEF LifeInv, LifeTypes
  <2>2. CASE RelayStep
    BY <2>1, <2>2, Fresh DEF RelayStep, LoopStep, LoopPC
  <2>3. CASE CollectorStep
    BY <2>1, <2>3, Fresh DEF CollectorStep, LoopStep, LoopPC
  <2> QED  BY <2>2, <2>3
<1>3. LifeTypes'
  <2>1. relay'.pc \in LoopPC /\ collector'.pc \in LoopPC
    BY <1>2 DEF Loop
  <2>2. TypeOK'
    BY <1>1, <2>1 DEF LifeInv, LifeTypes, TypeOK, Limit
  <2> QED  BY <1>1, <1>2, <2>2 DEF LifeInv, LifeTypes
<1>4. MainProgress'
  BY <1>1 DEF LifeInv, MainProgress, Cancelled
<1>5. AttemptsBegan' /\ NoneCutShort' /\ OutcomesTold'
  BY <1>1 DEF LifeInv, AttemptsBegan, NoneCutShort, OutcomesTold,
              GraceSuffices, InAttempt, Cancelled
<1>6. WaitedFor'
  BY <1>1, <1>2 DEF LifeInv, WaitedFor, Clean, Expired, Finished, InFlight
<1> QED  BY <1>3, <1>4, <1>5, <1>6 DEF LifeInv

\* A unit of time: no call outlives its limit, and while the grace period
\* shrinks by one every call in an attempt grows by one.
LEMMA TickStep == LifeInv /\ Tick => LifeInv'
<1> SUFFICES ASSUME LifeInv, Tick PROVE LifeInv'
  OBVIOUS
<1>1. /\ main \notin Startup /\ main # "exited"
      /\ \A w \in Worker : InCall(w) => worker[w].spent < Limit(w)
      /\ grace' = IF main = "serving" \/ Expired THEN grace ELSE grace - 1
      /\ worker' = [w \in Worker |-> Aged(worker[w], InCall(w))]
      /\ relay' = Aged(relay, relay.pc = "busy")
      /\ collector' = Aged(collector, collector.pc = "busy")
      /\ UNCHANGED <<main, failed, listening, stopping, cancelled, request,
                     outcome, left, db, stall>>
  BY DEF Tick, Alive
<1>2. stall \in Nat /\ grace \in 0 .. Grace /\ Grace \in Nat /\ main \in MainPC
  BY DEF LifeInv, LifeTypes, TypeOK
<1>3. \A w \in Worker :
        /\ worker'[w] \in Process /\ worker'[w].pc = worker[w].pc
        /\ InCall(w) => worker'[w].spent = worker[w].spent + 1
        /\ ~InCall(w) => worker'[w].spent = worker[w].spent
  BY <1>1 DEF Aged, Process, LifeInv, LifeTypes
<1>4. relay' \in Loop /\ relay'.pc = relay.pc
      /\ collector' \in Loop /\ collector'.pc = collector.pc
  BY <1>1 DEF Aged, Loop, LifeInv, LifeTypes
<1>5. grace' \in 0 .. Grace /\ (Expired => Expired') /\ grace' <= grace
      /\ grace <= grace' + 1 /\ (main = "serving" => grace' = grace)
  BY <1>1, <1>2 DEF Expired
<1>6. LifeTypes'
  <2>1. \A w \in Worker : worker'[w].pc \in WorkerPC /\ worker'[w].spent \in 0 .. Limit(w)'
    <3> SUFFICES ASSUME NEW w \in Worker
                 PROVE  worker'[w].pc \in WorkerPC /\ worker'[w].spent \in 0 .. Limit(w)'
      OBVIOUS
    <3>1. worker[w].pc \in WorkerPC /\ worker[w].spent \in 0 .. Limit(w)
          /\ Limit(w) \in Nat
      BY <1>2 DEF LifeInv, LifeTypes, TypeOK, Limit
    <3>2. Limit(w)' = Limit(w)
      BY <1>1, <1>3 DEF Limit
    <3> QED  BY <1>1, <1>3, <3>1, <3>2
  <2>2. TypeOK'
    BY <1>1, <1>4, <1>5, <2>1 DEF LifeInv, LifeTypes, TypeOK
  <2>3. worker' \in [Worker -> Process]
    BY <1>1, <1>3
  <2> QED  BY <1>1, <1>4, <2>2, <2>3 DEF LifeInv, LifeTypes
<1>7. MainProgress'
  <2>1. ~stopping => main = "serving"
    BY <1>1, <1>2 DEF LifeInv, MainProgress, MainPC, ShuttingDown
  <2> QED  BY <1>1, <1>3, <1>5, <2>1 DEF LifeInv, MainProgress, Cancelled
<1>8. AttemptsBegan'
  BY <1>1, <1>2, <1>3, <1>5 DEF InCall, LifeInv, LifeTypes, AttemptsBegan, Process
<1>9. NoneCutShort' /\ OutcomesTold'
  BY <1>1, <1>3 DEF LifeInv, NoneCutShort, OutcomesTold, GraceSuffices, InAttempt, Cancelled
<1>10. WaitedFor'
  BY <1>1, <1>3, <1>4, <1>5 DEF LifeInv, WaitedFor, Clean, Finished, InFlight
<1> QED  BY <1>6, <1>7, <1>8, <1>9, <1>10 DEF LifeInv

\* A step that the process has no part in.
LEMMA LifeStutter == LifeInv /\ UNCHANGED vars => LifeInv'
<1> SUFFICES ASSUME LifeInv, UNCHANGED vars PROVE LifeInv'
  OBVIOUS
<1> USE DEF vars
<1>1. LifeTypes'
  BY DEF LifeInv, LifeTypes, TypeOK, Limit
<1>2. MainProgress' /\ AttemptsBegan' /\ NoneCutShort' /\ OutcomesTold'
  BY DEF LifeInv, MainProgress, AttemptsBegan, NoneCutShort, OutcomesTold,
         GraceSuffices, InAttempt, Cancelled
<1>3. WaitedFor'
  BY DEF LifeInv, WaitedFor, Clean, Expired, Finished, InFlight
<1> QED  BY <1>1, <1>2, <1>3 DEF LifeInv

\* Every step keeps the invariant.
LEMMA LifeNext == LifeInv /\ Next => LifeInv'
<1> SUFFICES ASSUME LifeInv, Next PROVE LifeInv'
  OBVIOUS
<1>1. CASE MainStep
  BY <1>1, StartupSteps, InitServiceStep, StopPollingStep, DrainedStep, StopServiceStep,
     CancelRuntimeStep, CollectorGoneStep, CloseDatabaseStep DEF MainStep
<1>2. CASE Fatal \/ Signal
  BY <1>2, FatalStep, SignalStep
<1>3. CASE \E r \in Request : Arrive(r) \/ AdmitRequest(r) \/ Answer(r)
  BY <1>3, RequestSteps
<1>4. CASE \E w \in Worker : WorkerStep(w)
  BY <1>4, ReceivingSteps, AttemptSteps DEF WorkerStep
<1>5. CASE RelayStep \/ CollectorStep \/ Tick
  BY <1>5, RoundSteps, TickStep
<1> QED  BY <1>1, <1>2, <1>3, <1>4, <1>5 DEF Next

\* What the invariant says of a shutdown.
LEMMA LifeKeepsPromises == LifeInv => GraceCoversAttempt /\ ShutdownComplete
<1>1. ASSUME LifeInv PROVE CleanExitIsComplete
  <2> SUFFICES ASSUME main = "exited", ~failed
               PROVE  /\ Finished /\ collector.pc = "stopped"
                      /\ \A w \in Worker : outcome[w] \in {"none", "recorded"}
                      /\ \A r \in Request : ~InFlight(r)
    BY DEF CleanExitIsComplete
  <2>1. Finished /\ collector.pc = "stopped" /\ \A r \in Request : ~InFlight(r)
    BY <1>1 DEF LifeInv, MainProgress, WaitedFor, Clean
  <2>2. \A w \in Worker : outcome[w] \in {"none", "recorded"}
    BY <1>1, <2>1 DEF LifeInv, LifeTypes, TypeOK, OutcomesTold, Finished
  <2> QED  BY <2>1, <2>2
<1>2. LifeInv => DatabaseClosedLast
  BY DEF LifeInv, WaitedFor, Clean, InFlight, DatabaseClosedLast
<1>3. LifeInv => GraceCoversAttempt
  BY DEF LifeInv, NoneCutShort, GraceSuffices, GraceCoversAttempt
<1> QED  BY <1>1, <1>2, <1>3 DEF ShutdownComplete

-----------------------------------------------------------------------------
(* The theorems. *)

\* Every state of every life of the process satisfies the invariant: where
\* main is, what it has waited for, and how long the attempts have taken.
THEOREM LifeInvariance == Spec => []LifeInv
<1>1. LifeInv /\ [Next]_vars => LifeInv'
  BY LifeNext, LifeStutter
<1> QED  BY InitLife, <1>1, PTL DEF Spec

\* The variables have their types, and no call outlives its limit.
THEOREM LifeTypeCorrect == Spec => []TypeOK
<1>1. LifeInv => TypeOK
  BY DEF LifeInv, LifeTypes
<1> QED  BY LifeInvariance, <1>1, PTL

\* A grace period longer than two database calls and a provider call loses no
\* outcome of an attempt, however many workers and requests there are and
\* whenever the signal comes (main's 35 s, handleDelivery, service.Shutdown).
THEOREM GraceIsEnough == Spec => []GraceCoversAttempt
BY LifeInvariance, LifeKeepsPromises, PTL

\* A process that exits without an error left no goroutine, no request and no
\* attempt behind, and while there is time left nothing runs that could still
\* use the pool when it is closed (app.Shutdown, service.Shutdown).
THEOREM NothingLeftBehind == Spec => []ShutdownComplete
BY LifeInvariance, LifeKeepsPromises, PTL

=============================================================================
