------------------------------ MODULE MCServer ------------------------------
(***************************************************************************)
(* Instances of the three models of a server process: its life and end     *)
(* (Lifecycle), the broker connection its goroutines share (Connection)    *)
(* and a readiness request (Health).  They meet in nothing that these      *)
(* models change, so that their product would show no more than they do    *)
(* one by one: in each behaviour one of the three is alive, from any of    *)
(* its initial states, and the other two are already over, in a state that *)
(* they do reach and where they have no step left.                         *)
(***************************************************************************)
EXTENDS Lifecycle, FiniteSets

CONSTANTS Consuming, Relaying, MaxDials, MaxFaults
VARIABLES conn, current, mutex, user, connected, closing, silent, polling,
          shutdown, faults, late, closedBy

Conn == INSTANCE Connection WITH
  Consumer <- Consuming, Relay <- Relaying, stopping <- polling

CONSTANTS Channel, Enabled, ConfiguredCheckTimeout, ConfiguredTimeouts,
          DefaultCheckTimeout, MaxFlips
VARIABLES ComponentTimeout, service, up, flips, pc, snapshot, age, ctx, runner, check,
          answer, past

Readiness == INSTANCE Health

ASSUME ServerAssumption ==
  Conn!ConnectionAssumption /\ Readiness!HealthAssumption /\ Stalls # {}

connVars == <<conn, current, mutex, user, connected, closing, silent, polling,
              shutdown, faults, late, closedBy>>
healthVars == <<ComponentTimeout, service, up, flips, pc, snapshot, age, ctx, runner,
                check, answer, past>>

-----------------------------------------------------------------------------
\* The process has exited, by an error while it started.
LifeOver ==
  /\ main = "exited" /\ failed = TRUE /\ grace = Grace
  /\ listening = FALSE /\ stopping = FALSE /\ cancelled = {}
  /\ request = [r \in Request |-> "none"]
  /\ worker = [w \in Worker |-> At("unborn")]
  /\ relay = At("unborn") /\ collector = At("unborn")
  /\ outcome = [w \in Worker |-> "none"]
  /\ left = [w \in Worker |-> MaxDeliveries]
  /\ db = "none" /\ stall = CHOOSE n \in Stalls : TRUE

\* The service has shut down before anyone dialled.
ConnectionOver ==
  /\ conn = [k \in Conn!Id |-> "none"] /\ current = Conn!None /\ mutex = Conn!Free
  /\ user = [g \in Conn!User |-> [pc |-> "stopped", conn |-> Conn!None]]
  /\ connected = [w \in Consuming |-> FALSE]
  /\ closing = {} /\ silent = FALSE /\ polling = TRUE /\ shutdown = "clean"
  /\ faults = 0
  /\ late = {} /\ closedBy = [k \in Conn!Id |-> "nobody"]

\* A liveness request has been answered.
HealthOver ==
  /\ ComponentTimeout = Readiness!CheckTimeout
  /\ service = [stopping |-> TRUE, relay |-> FALSE,
                consumer |-> [ch \in Enabled |-> "stopped"]]
  /\ snapshot = service /\ up = {} /\ flips = MaxFlips
  /\ pc = "answered" /\ age = 0 /\ ctx = "live"
  /\ runner = [d \in Readiness!Dependency |-> Readiness!NoRunner]
  /\ check = [c \in Readiness!Component |-> Readiness!NoCheck]
  /\ answer = [ready |-> FALSE, status |-> "unhealthy"]
  /\ past = [up |-> {}, down |-> {}, stopping |-> FALSE]

\* The two dependencies are alike, and so are a relay and a consumer that are not
\* running; ServiceMoves takes a request to the states that are left out here.  A
\* stopping service is looked at while its workers still run, and a component timeout
\* as long as the check's with the service at work.
Found ==
  /\ up # {[kind |-> "postgres", channel |-> "all"]}
  /\ \A ch \in Enabled : service.relay <=> service.consumer[ch] # "stopped"
  /\ service.stopping \/ ComponentTimeout = Readiness!CheckTimeout =>
       \A ch \in Enabled : service.consumer[ch] = "connected"
  /\ ComponentTimeout = Readiness!CheckTimeout => ~service.stopping

ServerInit ==
  \/ Init /\ ConnectionOver /\ HealthOver
  \/ LifeOver /\ Conn!Init /\ HealthOver
  \/ LifeOver /\ ConnectionOver /\ Readiness!Init /\ Found

ServerNext ==
  \/ Next /\ UNCHANGED connVars /\ UNCHANGED healthVars
  \/ Conn!Next /\ UNCHANGED vars /\ UNCHANGED healthVars
  \/ Readiness!Next /\ UNCHANGED vars /\ UNCHANGED connVars

ServerSpec ==
  /\ ServerInit /\ [][ServerNext]_<<vars, connVars, healthVars>>
  /\ Fairness /\ Conn!Fairness /\ Readiness!Fairness

-----------------------------------------------------------------------------
\* The types of the three; the mutex is held just while someone dials, no call
\* lasts longer than its limit, every verdict is one of the documented codes.
ServerTypeOK == TypeOK /\ Conn!TypeOK /\ Readiness!TypeOK

\* The connection is one for all (mqConnection, Shutdown): however many find it
\* dead at once, no second is open that nobody closes; the time that one goroutine
\* runs out of costs the others only the connection it used; and a clean shutdown
\* leaves none open, nor a goroutine to open one.
ConnectionShared ==
  Conn!OneConnection /\ Conn!SuccessorSpared /\ Conn!NothingLeftOpen

\* A readiness answer comes in time, speaks of this request and not of an earlier
\* moment, and gives the true reason (Health.Readiness, runCheck).
ReadinessIsTrue ==
  Readiness!AnsweredInTime /\ Readiness!ReadyIsFresh /\ Readiness!BlameIsRight

\* Nothing is held up for ever: consumers come to be connected when the broker stays
\* with its answers (consume), and what is begun ends: a shutdown, with a request that
\* never does (app.Shutdown), each goroutine of the service, with a broker that stays
\* silent when a channel is to be closed too (consumeConnection, publish), and a
\* readiness request, with calls that never return (runCheck).
NothingHangs ==
  /\ Conn!ConsumersConnect
  /\ ShutdownEnds /\ Conn!GoroutinesEnd /\ Readiness!RequestEnds
=============================================================================
