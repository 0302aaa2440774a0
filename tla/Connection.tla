---------------------------- MODULE Connection ----------------------------
(***************************************************************************)
(* The AMQP connection that the consumers and the relay of a process share *)
(* (internal/service/service.go: mqConnection, consume, consumeConnection, *)
(* publish, Shutdown; pkg/rabbitmq).  A goroutine that takes too long over *)
(* its channel closes the connection under all others; whoever needs one   *)
(* next dials, under the mutex.  What goes over the channels is in         *)
(* Delivery and Publish.                                                   *)
(***************************************************************************)
EXTENDS Integers, FiniteSets

CONSTANTS
  Consumer,  \* consumer goroutines
  Relay,     \* the relay goroutine
  MaxDials,  \* bound: connections
  MaxFaults  \* bound: dead connections, silences of the broker, failed dials

User == Consumer \cup {Relay}
Id == 1 .. MaxDials
None == 0
Free == "free"

ConnectionAssumption ==
  /\ Relay \notin Consumer /\ Free \notin User
  /\ MaxDials \in Nat \ {0} /\ MaxFaults \in Nat

VARIABLES
  conn,      \* conn[k]: "none", "open" or "closed"
  current,   \* svc.mqConn
  mutex,     \* connectionMu: its holder while a dial lasts
  user,      \* user[g]: pc and the connection it uses
  connected, \* WorkerHealth.Connected
  closing,   \* the connections that launched AfterFunc goroutines will close
  silent,    \* the broker does not answer
  stopping,  \* pollingCtx is cancelled
  shutdown,  \* Shutdown: "no", "waiting", "clean" or "late"
  faults,
  late,      \* history: connections on which someone ran out of time
  closedBy   \* history: who closed a connection

vars == <<conn, current, mutex, user, connected, closing, silent, stopping,
          shutdown, faults, late, closedBy>>

PC == {"pause", "lock", "dial", "setup", "serve", "handle", "close", "stopped"}

Open(k) == k # None /\ conn[k] = "open"
WorkCancelled == shutdown \in {"clean", "late"}
Fault == faults > 0 /\ faults' = faults - 1

Init ==
  /\ conn = [k \in Id |-> "none"] /\ current = None /\ mutex = Free
  /\ user = [g \in User |-> [pc |-> "pause", conn |-> None]]
  /\ connected = [w \in Consumer |-> FALSE]
  /\ closing = {} /\ silent = FALSE
  /\ stopping = FALSE /\ shutdown = "no"
  /\ faults = MaxFaults
  /\ late = {} /\ closedBy = [k \in Id |-> "nobody"]

Goes(g, pc, k) == user' = [user EXCEPT ![g] = [pc |-> pc, conn |-> k]]

Closed(k, by) ==
  /\ conn' = [conn EXCEPT ![k] = "closed"]
  /\ closedBy' = [closedBy EXCEPT ![k] = IF Open(k) THEN by ELSE @]

-----------------------------------------------------------------------------
(* mqConnection. *)

Environment == UNCHANGED <<silent, stopping, shutdown>>
Connections == UNCHANGED <<conn, current, late, closedBy>>

\* The loops of relay and consume; a publication has no pause before it.
Again(g) ==
  /\ user[g].pc = "pause" /\ Goes(g, IF stopping THEN "stopped" ELSE "lock", None)
  /\ UNCHANGED <<mutex, connected, closing, faults>> /\ Connections /\ Environment

\* mqConn is nil or closed.
NotUsable(k) == ~Open(k)

TakeMutex(g) ==
  /\ user[g].pc = "lock" /\ mutex = Free
  /\ IF NotUsable(current)
     THEN Goes(g, "dial", None) /\ mutex' = g
     ELSE Goes(g, "setup", current) /\ UNCHANGED mutex
  /\ UNCHANGED <<connected, closing, faults>> /\ Connections /\ Environment

\* A connection that was not dialled yet; which one makes no difference.
Fresh == CHOOSE k \in Id : conn[k] = "none"

Dialled(g) ==
  /\ user[g].pc = "dial" /\ ~silent /\ \E k \in Id : conn[k] = "none"
  /\ conn' = [conn EXCEPT ![Fresh] = "open"] /\ current' = Fresh
  /\ Goes(g, "setup", Fresh) /\ mutex' = Free
  /\ UNCHANGED <<connected, closing, faults, late, closedBy>> /\ Environment

\* Variant: the mutex is not given back after an error.
DialFailsLocked(g) ==
  /\ user[g].pc = "dial"
  /\ \/ silent /\ UNCHANGED faults
     \/ Fault
  /\ Goes(g, "pause", None)
  /\ UNCHANGED <<mutex, connected, closing>> /\ Connections /\ Environment

\* The dial's five seconds are over, or the broker refuses.
DialFails(g) ==
  /\ user[g].pc = "dial"
  /\ \/ silent /\ UNCHANGED faults
     \/ Fault
  /\ Goes(g, "pause", None) /\ mutex' = Free
  /\ UNCHANGED <<connected, closing>> /\ Connections /\ Environment

-----------------------------------------------------------------------------
(* consumeConnection and publish. *)

\* Variant: the hook closes the connection that is current when it runs.
VictimIsCurrent(k) == current

\* AfterFunc closes the connection its goroutine was given.
Victim(k) == k

\* The hook is armed until the set-up ends, and under a publication until its
\* channel is closed too: the deferred stop comes last.
Armed(g) == user[g].pc = "setup" \/ (g = Relay /\ user[g].pc = "close")

\* Setup or publication: its five seconds are over, or pollingCtx is.  The
\* goroutine of AfterFunc is launched; it is not held up by anything after.
HookFires(g) ==
  /\ Armed(g) /\ (silent \/ stopping)
  /\ user[g].conn \notin late
  /\ closing' = closing \cup {user[g].conn}
  /\ late' = late \cup {user[g].conn}
  /\ UNCHANGED <<conn, current, closedBy, mutex, user, connected, faults>> /\ Environment

HookCloses ==
  /\ \E k \in closing : closing' = closing \ {k} /\ Closed(Victim(k), "hook")
  /\ UNCHANGED <<current, late, mutex, user, connected, faults>> /\ Environment

\* The channel is set up: stopSetup, then the consumer counts as connected.
SetupDone(w) ==
  /\ user[w].pc = "setup" /\ ~silent /\ Open(user[w].conn)
  /\ Goes(w, "serve", user[w].conn)
  /\ connected' = [connected EXCEPT ![w] = TRUE]
  /\ UNCHANGED <<mutex, closing, faults>> /\ Connections /\ Environment

\* A publication is confirmed, or refused; the deferred Close of its channel.
PublishDone ==
  /\ user[Relay].pc = "setup" /\ ~silent /\ Open(user[Relay].conn)
  /\ Goes(Relay, "close", user[Relay].conn)
  /\ UNCHANGED <<mutex, connected, closing, faults>> /\ Connections /\ Environment

\* The connection is closed under a setup or a publication.
SetupFails(g) ==
  /\ user[g].pc = "setup" /\ ~Open(user[g].conn)
  /\ Goes(g, "pause", None)
  /\ UNCHANGED <<mutex, connected, closing, faults>> /\ Connections /\ Environment

\* A delivery, and the end of its handling.
Handle(w) ==
  /\ user[w].pc = "serve" /\ ~stopping /\ Open(user[w].conn)
  /\ Goes(w, "handle", user[w].conn)
  /\ UNCHANGED <<mutex, connected, closing, faults>> /\ Connections /\ Environment

Handled(w) ==
  /\ user[w].pc = "handle" /\ Goes(w, "serve", user[w].conn)
  /\ UNCHANGED <<mutex, connected, closing, faults>> /\ Connections /\ Environment

\* The deliveries end with the connection, the loop with pollingCtx.  The
\* deferred calls: the consumer is no more connected, then it closes its channel.
Leave(w) ==
  /\ user[w].pc = "serve" /\ (stopping \/ ~Open(user[w].conn))
  /\ Goes(w, "close", user[w].conn)
  /\ connected' = [connected EXCEPT ![w] = FALSE]
  /\ UNCHANGED <<mutex, closing, faults>> /\ Connections /\ Environment

\* channel.Close returns with the broker's close-ok, or with the connection.
ChannelClosed(g) ==
  /\ user[g].pc = "close" /\ (~silent \/ ~Open(user[g].conn))
  /\ Goes(g, "pause", None)
  /\ UNCHANGED <<mutex, connected, closing, faults>> /\ Connections /\ Environment

\* The AfterFunc on workCtx, for a consumer that has its channel: the deferred
\* stopWork comes after the Close.
WorkHookCloses(w) ==
  /\ WorkCancelled /\ user[w].pc \in {"setup", "serve", "handle", "close"}
  /\ Open(user[w].conn) /\ Closed(user[w].conn, "work")
  /\ UNCHANGED <<current, late, mutex, user, connected, closing, faults>> /\ Environment

-----------------------------------------------------------------------------
(* Shutdown. *)

Locals == UNCHANGED <<mutex, user, connected, closing, faults>>

BeginShutdown ==
  /\ ~stopping /\ stopping' = TRUE /\ shutdown' = "waiting"
  /\ UNCHANGED silent /\ Locals /\ Connections

Finished == \A g \in User : user[g].pc = "stopped"

\* All goroutines have ended: the connection, if there is one, is closed.
ShutdownClean ==
  /\ shutdown = "waiting" /\ Finished /\ mutex = Free
  /\ shutdown' = "clean"
  /\ IF current = None THEN UNCHANGED <<conn, closedBy>> ELSE Closed(current, "shutdown")
  /\ UNCHANGED <<current, late, silent, stopping>> /\ Locals

\* The grace period is over: workCtx is cancelled, nothing is closed here.
ShutdownLate ==
  /\ shutdown = "waiting" /\ ~Finished
  /\ shutdown' = "late"
  /\ UNCHANGED <<silent, stopping>> /\ Locals /\ Connections

-----------------------------------------------------------------------------
(* The broker and the network. *)

ConnectionDies ==
  /\ Fault
  /\ \E k \in Id : Open(k) /\ Closed(k, "network")
  /\ UNCHANGED <<current, late, mutex, user, connected, closing>> /\ Environment

FallsSilent ==
  /\ ~silent /\ Fault /\ silent' = TRUE
  /\ UNCHANGED <<mutex, user, connected, closing, stopping, shutdown>> /\ Connections

\* The client hears nothing for several times the ten seconds of pkg/rabbitmq.
HeartbeatMissed ==
  /\ silent /\ \E k \in Id : Open(k) /\ Closed(k, "network")
  /\ UNCHANGED <<current, late, mutex, user, connected, closing, faults>> /\ Environment

SpeaksAgain ==
  /\ silent /\ silent' = FALSE
  /\ UNCHANGED <<stopping, shutdown>> /\ Locals /\ Connections

UserStep(g) ==
  \/ Again(g) \/ TakeMutex(g) \/ Dialled(g) \/ DialFails(g) \/ SetupFails(g)
  \/ HookFires(g) \/ ChannelClosed(g)
ConsumerStep(w) == SetupDone(w) \/ Handled(w) \/ Leave(w) \/ WorkHookCloses(w)

Next ==
  \/ \E g \in User : UserStep(g)
  \/ \E w \in Consumer : ConsumerStep(w) \/ Handle(w)
  \/ PublishDone \/ HookCloses
  \/ BeginShutdown \/ ShutdownClean \/ ShutdownLate
  \/ ConnectionDies \/ FallsSilent \/ HeartbeatMissed \/ SpeaksAgain

\* Goroutines run, dials and provider calls end.  The broker may stay silent, but
\* the heartbeat notices; nothing is assumed of the end of the grace period.
Fairness ==
  /\ \A g \in User : SF_vars(TakeMutex(g)) /\ WF_vars(UserStep(g))
  /\ \A w \in Consumer : WF_vars(ConsumerStep(w))
  /\ WF_vars(PublishDone) /\ WF_vars(HookCloses)
  /\ WF_vars(ShutdownClean) /\ WF_vars(HeartbeatMissed)

Spec == Init /\ [][Next]_vars
FairSpec == Spec /\ Fairness

-----------------------------------------------------------------------------
\* Types; the mutex is held just while someone dials.
TypeOK ==
  /\ conn \in [Id -> {"none", "open", "closed"}]
  /\ current \in Id \cup {None}
  /\ mutex \in User \cup {Free}
  /\ \A g \in User : user[g].pc \in PC /\ user[g].conn \in Id \cup {None}
  /\ connected \in [Consumer -> BOOLEAN]
  /\ closing \subseteq Id /\ late \subseteq Id
  /\ silent \in BOOLEAN /\ stopping \in BOOLEAN
  /\ shutdown \in {"no", "waiting", "clean", "late"} /\ faults \in 0 .. MaxFaults
  /\ mutex = Free <=> \A g \in User : user[g].pc # "dial"

\* However many goroutines find the connection dead at once, they share one:
\* no second is open, so that none is forgotten.
OneConnection == \A k \in Id : Open(k) => k = current

\* The five seconds of one goroutine cost the others only the connection that
\* it used, never the one that was dialled since.
SuccessorSpared == \A k \in Id : closedBy[k] = "hook" => k \in late

\* A clean shutdown leaves no connection open, and no goroutine to open one.
NothingLeftOpen ==
  shutdown = "clean" => Finished /\ \A k \in Id : ~Open(k)

\* When the broker stays with its answers, every consumer comes to be connected.
ConsumersConnect ==
  <>[]~silent => <>[](stopping \/ \A w \in Consumer : connected[w])

\* Once shutdown begins, every goroutine ends, even if the broker is silent.
GoroutinesEnd == stopping ~> Finished
=============================================================================
