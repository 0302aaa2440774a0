---------------------------- MODULE ServerProofs ----------------------------
(***************************************************************************)
(* Proofs about the server of MCServer: the broker connection that any     *)
(* number of consumers and the relay share, a readiness request with any   *)
(* channels and timeouts, and with LifecycleProofs the life of a process.  *)
(***************************************************************************)
EXTENDS MCServer, LifecycleProofs

-----------------------------------------------------------------------------
(* The connection: the inductive invariant. *)

ConnStatus == {"none", "open", "closed"}
Closer == {"nobody", "hook", "work", "shutdown", "network"}
Using == {"setup", "serve", "handle", "close"}
UserState == [pc : Conn!PC, conn : Conn!Id \cup {Conn!None}]

\* Where the goroutines are, and the connections that they have in hand.
Users ==
  /\ user \in [Conn!User -> UserState]
  /\ mutex \in Conn!User \cup {Conn!Free}
  /\ connected \in [Consuming -> BOOLEAN]
  /\ \A g \in Conn!User :
       /\ user[g].pc \in Using => user[g].conn \in Conn!Id
       /\ user[g].pc = "dial" <=> mutex = g

\* The connections, and the hooks that are to close one.
Record ==
  /\ conn \in [Conn!Id -> ConnStatus]
  /\ closedBy \in [Conn!Id -> Closer]
  /\ current \in Conn!Id \cup {Conn!None}
  /\ closing \subseteq late /\ late \subseteq Conn!Id

Broker ==
  /\ silent \in BOOLEAN /\ polling \in BOOLEAN
  /\ shutdown \in {"no", "waiting", "clean", "late"}
  /\ faults \in 0 .. MaxFaults

\* Who dials found the connection that is current dead, and nobody else can
\* replace it meanwhile.
DialledWhenDead == mutex # Conn!Free => ~Conn!Open(current)

ConnInv == Users /\ Record /\ Broker /\ DialledWhenDead /\ ConnectionShared

-----------------------------------------------------------------------------
(* The readiness request: the inductive invariant. *)

Limits ==
  /\ Readiness!CheckTimeout \in Nat \ {0}
  /\ ComponentTimeout \in 1 .. Readiness!CheckTimeout
  /\ age \in 0 .. Readiness!CheckTimeout /\ age <= ComponentTimeout
  /\ ctx \in {"live", "deadline", "canceled"}
  /\ ctx = "deadline" => age = ComponentTimeout
  /\ flips \in 0 .. MaxFlips
  /\ pc \in {"none", "workers", "checks", "answered"}

AnyVerdict == Readiness!Verdict \cup {Readiness!Unread}
Runner == [pc : {"none", "running", "ended"}, verdict : AnyVerdict]
Check == [verdict : AnyVerdict, at : Int]
Past == [up : SUBSET Readiness!Dependency, down : SUBSET Readiness!Dependency,
         stopping : BOOLEAN]

\* What the request has read and written.
Reads ==
  /\ service \in Readiness!Service /\ snapshot \in Readiness!Service
  /\ up \subseteq Readiness!Dependency
  /\ past \in Past
  /\ runner \in [Readiness!Dependency -> Runner]
  /\ check \in [Readiness!Component -> Check]
  /\ pc \in {"none", "workers"} =>
       /\ \A c \in Readiness!Component : check[c] = Readiness!NoCheck
       /\ \A d \in Readiness!Dependency : runner[d].pc = "none"
  /\ pc = "answered" =>
       \A d \in Readiness!Dependency :
         runner[d].pc = "running" => Readiness!Reported(d)

\* The history has the present in it while the request looks.
PastIsKept ==
  pc \in {"workers", "checks"} =>
    /\ up \subseteq past.up
    /\ Readiness!Dependency \ up \subseteq past.down
    /\ past.stopping = snapshot.stopping

\* The verdict v on d is not invented: it was up, or down, or time ran out.
True(v, d) ==
  /\ v.status = "healthy" => d \in past.up
  /\ v.reason = "unavailable" => d \in past.down
  /\ v.reason = "timeout" => ctx = "deadline"
  /\ v.reason = "canceled" => ctx = "canceled"

\* What a call has returned and nobody has read.
Results ==
  \A d \in Readiness!Dependency :
    runner[d].pc = "ended" /\ ~Readiness!Reported(d) =>
      runner[d].verdict \in Readiness!Verdict /\ True(runner[d].verdict, d)

\* What is reported of a dependency, and of a worker.
Reports ==
  \A c \in Readiness!Component :
    Readiness!Reported(c) =>
      /\ check[c].verdict \in Readiness!Verdict /\ check[c].at \in 0 .. age
      /\ check[c].verdict.reason = "timeout" => check[c].at = ComponentTimeout
      /\ check[c].verdict.reason = "canceled" => ctx = "canceled"
      /\ check[c].verdict.reason = "unavailable" => c \in past.down
      /\ c \in Readiness!Dependency /\ check[c].verdict.status = "healthy" =>
           c \in past.up
      /\ c \in Readiness!Local /\ Readiness!Critical(c)
         /\ check[c].verdict.status = "healthy" =>
           check[c].verdict = Readiness!LocalVerdict(c)

AnswerFits ==
  pc = "answered" =>
    (answer.ready <=> answer.status \in {"healthy", "degraded"})

HealthInv ==
  Limits /\ Reads /\ PastIsKept /\ Results /\ Reports /\ AnswerFits
  /\ (pc # "answered" => ~answer.ready) /\ Readiness!ReadyIsFresh

ServerInv == LifeInv /\ ConnInv /\ HealthInv

-----------------------------------------------------------------------------
(* The connection: steps. *)

\* What the constants of the connection are.
LEMMA ConnConstants ==
  /\ Relaying \notin Consuming /\ Conn!Free \notin Conn!User
  /\ MaxDials \in Nat \ {0} /\ MaxFaults \in Nat
  /\ Conn!User = Consuming \cup {Relaying}
  /\ Conn!None \notin Conn!Id
BY ServerAssumption DEF Conn!ConnectionAssumption, Conn!User, Conn!None, Conn!Id

\* A goroutine g goes somewhere else and no connection is touched: it may take
\* the mutex only when nobody holds it, gives it back when it has dialled, and
\* has a connection in hand wherever it uses one.
LEMMA UserMoves ==
  ASSUME ConnInv, NEW g \in Conn!User, NEW p \in Conn!PC,
         NEW k \in Conn!Id \cup {Conn!None}, Conn!Goes(g, p, k),
         user[g].pc # "stopped", p \in Using => k \in Conn!Id,
         p = "dial" => mutex = Conn!Free /\ mutex' = g /\ ~Conn!Open(current),
         p # "dial" => mutex' = IF user[g].pc = "dial" THEN Conn!Free ELSE mutex,
         connected' \in [Consuming -> BOOLEAN], faults' \in 0 .. MaxFaults,
         UNCHANGED <<conn, current, closedBy, late, closing, silent, polling, shutdown>>
  PROVE  ConnInv'
<1>1. user' = [user EXCEPT ![g] = [pc |-> p, conn |-> k]]
      /\ [pc |-> p, conn |-> k] \in UserState
  BY DEF Conn!Goes, UserState
<1>2. user' \in [Conn!User -> UserState]
      /\ user'[g].pc = p /\ user'[g].conn = k
      /\ \A u \in Conn!User \ {g} : user'[u] = user[u]
  BY <1>1 DEF ConnInv, Users
<1>3. Users'
  <2>1. mutex' \in Conn!User \cup {Conn!Free}
    BY DEF ConnInv, Users
  <2>2. \A u \in Conn!User : user'[u].pc \in Using => user'[u].conn \in Conn!Id
    BY <1>2 DEF ConnInv, Users
  <2>3. \A u \in Conn!User : user'[u].pc = "dial" <=> mutex' = u
    BY <1>2, ConnConstants DEF ConnInv, Users
  <2> QED  BY <1>2, <2>1, <2>2, <2>3 DEF Users
<1>4. Record' /\ Broker'
  BY DEF ConnInv, Record, Broker
<1>5. DialledWhenDead'
  BY DEF ConnInv, DialledWhenDead, Conn!Open
<1>6. ConnectionShared'
  <2>1. shutdown = "clean" => Conn!Finished
    BY DEF ConnInv, ConnectionShared, Conn!NothingLeftOpen
  <2>2. shutdown # "clean"
    BY <2>1 DEF Conn!Finished
  <2> QED  BY <2>2 DEF ConnInv, ConnectionShared, Conn!OneConnection, Conn!SuccessorSpared,
                      Conn!NothingLeftOpen, Conn!Open
<1> QED  BY <1>3, <1>4, <1>5, <1>6 DEF ConnInv

\* A connection is closed, by someone or by the network.
LEMMA ConnectionCloses ==
  ASSUME ConnInv, NEW k \in Conn!Id, NEW by \in Closer, Conn!Closed(k, by),
         by = "hook" => k \in late,
         UNCHANGED <<current, mutex, user, connected, late, silent, polling>>,
         closing' \subseteq closing, faults' \in 0 .. MaxFaults,
         shutdown' \in {"no", "waiting", "clean", "late"},
         shutdown' = "clean" => shutdown = "clean" \/ (Conn!Finished /\ k = current)
  PROVE  ConnInv'
<1>1. conn' = [conn EXCEPT ![k] = "closed"]
      /\ closedBy' = [closedBy EXCEPT ![k] = IF Conn!Open(k) THEN by ELSE @]
  BY DEF Conn!Closed
<1>2. conn' \in [Conn!Id -> ConnStatus] /\ conn'[k] = "closed"
      /\ \A i \in Conn!Id \ {k} : conn'[i] = conn[i]
  BY <1>1 DEF ConnInv, Record, ConnStatus
<1>3. closedBy' \in [Conn!Id -> Closer]
      /\ closedBy'[k] \in {by, closedBy[k]}
      /\ \A i \in Conn!Id \ {k} : closedBy'[i] = closedBy[i]
  BY <1>1 DEF ConnInv, Record
<1>4. \A i : Conn!Open(i)' /\ i \in Conn!Id => Conn!Open(i) /\ i # k
  BY <1>2 DEF Conn!Open
<1>5. Users'
  BY DEF ConnInv, Users
<1>6. Record'
  BY <1>2, <1>3 DEF ConnInv, Record
<1>7. Broker'
  BY DEF ConnInv, Broker
<1>8. DialledWhenDead'
  <2>1. current \in Conn!Id \/ current = Conn!None
    BY DEF ConnInv, Record
  <2> QED  BY <1>4, <2>1 DEF ConnInv, DialledWhenDead, Conn!Open
<1>9. ConnectionShared'
  <2>1. Conn!OneConnection'
    BY <1>4 DEF ConnInv, ConnectionShared, Conn!OneConnection
  <2>2. Conn!SuccessorSpared'
    BY <1>3 DEF ConnInv, ConnectionShared, Conn!SuccessorSpared
  <2>3. Conn!NothingLeftOpen'
    BY <1>4 DEF ConnInv, ConnectionShared, Conn!OneConnection, Conn!NothingLeftOpen,
                Conn!Finished
  <2> QED  BY <2>1, <2>2, <2>3 DEF ConnectionShared
<1> QED  BY <1>5, <1>6, <1>7, <1>8, <1>9 DEF ConnInv

\* Nothing happens to connections and goroutines.
LEMMA ConnQuiet ==
  ASSUME ConnInv, UNCHANGED <<conn, current, closedBy, mutex, user, connected>>,
         closing' \subseteq late', late' \subseteq Conn!Id, late \subseteq late',
         silent' \in BOOLEAN, polling' \in BOOLEAN, faults' \in 0 .. MaxFaults,
         shutdown' \in {"no", "waiting", "clean", "late"},
         shutdown' = "clean" =>
           shutdown = "clean" \/ (Conn!Finished /\ current = Conn!None)
  PROVE  ConnInv'
<1>1. Users' /\ Record' /\ Broker' /\ DialledWhenDead'
  BY DEF ConnInv, Users, Record, Broker, DialledWhenDead, Conn!Open
<1>2. ConnectionShared'
  BY DEF ConnInv, ConnectionShared, Conn!OneConnection, Conn!SuccessorSpared,
         Conn!NothingLeftOpen, Conn!Finished, Conn!Open
<1> QED  BY <1>1, <1>2 DEF ConnInv

\* mqConnection: a goroutine takes the mutex to dial, or takes what is there.
LEMMA MutexSteps ==
  ASSUME ConnInv, NEW g \in Conn!User,
         Conn!Again(g) \/ Conn!TakeMutex(g) \/ Conn!DialFails(g)
  PROVE  ConnInv'
<1> USE DEF Conn!Environment, Conn!Connections
<1>1. {"stopped", "lock", "dial", "setup", "pause"} \subseteq Conn!PC
      /\ {"stopped", "lock", "pause"} \cap Using = {} /\ "dial" \notin Using
      /\ user[g].pc \in Conn!PC /\ connected \in [Consuming -> BOOLEAN]
      /\ current \in Conn!Id \cup {Conn!None}
      /\ faults \in 0 .. MaxFaults /\ (user[g].pc = "dial" <=> mutex = g)
  BY DEF Conn!PC, Using, ConnInv, Users, Record, Broker, UserState
<1>2. CASE Conn!Again(g)
  BY <1>1, <1>2, UserMoves DEF Conn!Again
<1>3. CASE Conn!TakeMutex(g)
  <2>1. CASE Conn!NotUsable(current)
    BY <1>1, <1>3, <2>1, UserMoves DEF Conn!TakeMutex, Conn!NotUsable
  <2>2. CASE ~Conn!NotUsable(current)
    <3>1. current \in Conn!Id
      BY <1>1, <2>2 DEF Conn!NotUsable, Conn!Open
    <3> QED  BY <1>1, <1>3, <2>2, <3>1, UserMoves DEF Conn!TakeMutex
  <2> QED  BY <2>1, <2>2
<1>4. CASE Conn!DialFails(g)
  <2>1. faults' \in 0 .. MaxFaults
    BY <1>1, <1>4, ConnConstants DEF Conn!DialFails, Conn!Fault
  <2> QED  BY <1>1, <1>4, <2>1, UserMoves DEF Conn!DialFails
<1> QED  BY <1>2, <1>3, <1>4

\* A dial succeeds.  The connection it replaces is dead, and the mutex has
\* kept everybody else from dialling a third.
LEMMA DialledStep ==
  ASSUME ConnInv, NEW g \in Conn!User, Conn!Dialled(g) PROVE ConnInv'
<1> DEFINE k == Conn!Fresh
<1>1. k \in Conn!Id /\ conn[k] = "none"
  BY DEF Conn!Dialled, Conn!Fresh
<1>2. /\ user[g].pc = "dial" /\ mutex' = Conn!Free
      /\ conn' = [conn EXCEPT ![k] = "open"] /\ current' = k
      /\ user' = [user EXCEPT ![g] = [pc |-> "setup", conn |-> k]]
      /\ UNCHANGED <<connected, closing, faults, late, closedBy, silent, polling, shutdown>>
  BY DEF Conn!Dialled, Conn!Environment, Conn!Goes
<1> HIDE DEF k
<1>3. mutex = g /\ ~Conn!Open(current) /\ current \in Conn!Id \cup {Conn!None}
  BY <1>2, ConnConstants DEF ConnInv, Users, Record, DialledWhenDead
<1>4. conn' \in [Conn!Id -> ConnStatus] /\ conn'[k] = "open"
      /\ \A i \in Conn!Id \ {k} : conn'[i] = conn[i]
  BY <1>1, <1>2 DEF ConnInv, Record, ConnStatus
<1>5. user' \in [Conn!User -> UserState]
      /\ user'[g].pc = "setup" /\ user'[g].conn = k
      /\ \A u \in Conn!User \ {g} : user'[u] = user[u]
  <2>1. [pc |-> "setup", conn |-> k] \in UserState
    BY <1>1 DEF UserState, Conn!PC
  <2> QED  BY <1>2, <2>1 DEF ConnInv, Users
<1>6. Users'
  <2>1. \A u \in Conn!User : user'[u].pc # "dial" /\ mutex' # u
    BY <1>2, <1>3, <1>5, ConnConstants DEF ConnInv, Users
  <2>2. \A u \in Conn!User : user'[u].pc \in Using => user'[u].conn \in Conn!Id
    BY <1>1, <1>5 DEF ConnInv, Users
  <2> QED  BY <1>2, <1>5, <2>1, <2>2 DEF ConnInv, Users
<1>7. Record' /\ Broker' /\ DialledWhenDead'
  BY <1>1, <1>2, <1>4 DEF ConnInv, Record, Broker, DialledWhenDead
<1>8. ConnectionShared'
  <2>1. Conn!OneConnection'
    BY <1>2, <1>3, <1>4 DEF ConnInv, ConnectionShared, Conn!OneConnection, Conn!Open
  <2>2. Conn!SuccessorSpared'
    BY <1>2 DEF ConnInv, ConnectionShared, Conn!SuccessorSpared
  <2>3. shutdown # "clean"
    BY <1>2 DEF ConnInv, ConnectionShared, Conn!NothingLeftOpen, Conn!Finished
  <2> QED  BY <1>2, <2>1, <2>2, <2>3 DEF ConnectionShared, Conn!NothingLeftOpen
<1> QED  BY <1>6, <1>7, <1>8 DEF ConnInv

\* consumeConnection and publish, once there is a connection.
LEMMA ChannelSteps ==
  ASSUME ConnInv, NEW g \in Conn!User,
         \/ Conn!SetupFails(g) \/ Conn!ChannelClosed(g)
         \/ (g = Relaying /\ Conn!PublishDone)
         \/ (g \in Consuming /\
              (Conn!SetupDone(g) \/ Conn!Handle(g) \/ Conn!Handled(g) \/ Conn!Leave(g)))
  PROVE  ConnInv'
<1> USE DEF Conn!Environment, Conn!Connections
<1>1. {"pause", "serve", "handle", "close"} \subseteq Conn!PC /\ "pause" \notin Using
      /\ user[g].pc \in Using /\ user[g].pc \notin {"dial", "stopped"}
      /\ user[g].conn \in Conn!Id
  BY DEF Conn!PC, Using, ConnInv, Users, Conn!SetupFails, Conn!ChannelClosed, Conn!PublishDone,
         Conn!SetupDone, Conn!Handle, Conn!Handled, Conn!Leave
<1>2. faults \in 0 .. MaxFaults /\ faults' = faults
  BY DEF ConnInv, Broker, Conn!SetupFails, Conn!ChannelClosed, Conn!PublishDone,
         Conn!SetupDone, Conn!Handle, Conn!Handled, Conn!Leave
<1>3. connected' \in [Consuming -> BOOLEAN]
  BY DEF ConnInv, Users, Conn!SetupFails, Conn!ChannelClosed, Conn!PublishDone,
         Conn!SetupDone, Conn!Handle, Conn!Handled, Conn!Leave
<1>4. PICK p \in {"pause", "serve", "handle", "close"}, k \in Conn!Id \cup {Conn!None} :
        Conn!Goes(g, p, k) /\ (p \in Using => k \in Conn!Id)
  BY <1>1 DEF Conn!SetupFails, Conn!ChannelClosed, Conn!PublishDone, Conn!SetupDone, Conn!Handle,
              Conn!Handled, Conn!Leave
<1>5. UNCHANGED <<mutex, conn, current, closedBy, late, closing, silent, polling, shutdown>>
  BY DEF Conn!SetupFails, Conn!ChannelClosed, Conn!PublishDone, Conn!SetupDone, Conn!Handle,
         Conn!Handled, Conn!Leave
<1> QED  BY <1>1, <1>2, <1>3, <1>4, <1>5, UserMoves

\* The hooks, Shutdown, the broker and the network.
LEMMA ClosingSteps ==
  ASSUME ConnInv, \/ Conn!HookCloses \/ Conn!ConnectionDies \/ Conn!HeartbeatMissed
                  \/ Conn!ShutdownClean
                  \/ \E w \in Consuming : Conn!WorkHookCloses(w)
  PROVE  ConnInv'
<1> USE DEF Conn!Environment, Conn!Connections, Conn!Locals
<1>1. faults \in 0 .. MaxFaults /\ shutdown \in {"no", "waiting", "clean", "late"}
      /\ closing \subseteq late /\ late \subseteq Conn!Id
      /\ current \in Conn!Id \cup {Conn!None}
      /\ silent \in BOOLEAN /\ polling \in BOOLEAN
  BY DEF ConnInv, Broker, Record
<1>2. {"hook", "work", "shutdown", "network"} \subseteq Closer
  BY DEF Closer
<1>3. CASE Conn!HookCloses
  <2>1. PICK k \in closing : closing' = closing \ {k} /\ Conn!Closed(k, "hook")
    BY <1>3 DEF Conn!HookCloses, Conn!Victim
  <2>2. k \in Conn!Id /\ k \in late
    BY <1>1
  <2> QED  BY <1>1, <1>2, <1>3, <2>1, <2>2, ConnectionCloses DEF Conn!HookCloses
<1>4. CASE Conn!ConnectionDies
  <2>1. PICK k \in Conn!Id : Conn!Closed(k, "network")
    BY <1>4 DEF Conn!ConnectionDies
  <2>2. faults' \in 0 .. MaxFaults
    BY <1>1, <1>4, ConnConstants DEF Conn!ConnectionDies, Conn!Fault
  <2> QED  BY <1>1, <1>2, <1>4, <2>1, <2>2, ConnectionCloses DEF Conn!ConnectionDies
<1>5. CASE Conn!ShutdownClean
  <2>1. CASE current = Conn!None
    BY <1>1, <1>5, <2>1, ConnQuiet DEF Conn!ShutdownClean
  <2>2. CASE current # Conn!None
    BY <1>1, <1>2, <1>5, <2>2, ConnectionCloses DEF Conn!ShutdownClean
  <2> QED  BY <2>1, <2>2
<1>6. ASSUME NEW w \in Consuming, Conn!WorkHookCloses(w) PROVE ConnInv'
  <2>1. user[w].conn \in Conn!Id
    BY <1>6, ConnConstants DEF Conn!WorkHookCloses, ConnInv, Users, Using
  <2> QED  BY <1>1, <1>2, <1>6, <2>1, ConnectionCloses DEF Conn!WorkHookCloses
<1>7. CASE Conn!HeartbeatMissed
  <2>1. PICK k \in Conn!Id : Conn!Closed(k, "network")
    BY <1>7 DEF Conn!HeartbeatMissed
  <2> QED  BY <1>1, <1>2, <1>7, <2>1, ConnectionCloses DEF Conn!HeartbeatMissed
<1> QED  BY <1>3, <1>4, <1>5, <1>6, <1>7

\* What moves neither a goroutine nor a connection.
LEMMA QuietSteps ==
  ASSUME ConnInv,
         \/ Conn!BeginShutdown \/ Conn!ShutdownLate \/ Conn!FallsSilent
         \/ Conn!SpeaksAgain \/ UNCHANGED connVars
         \/ \E g \in Conn!User : Conn!HookFires(g)
  PROVE  ConnInv'
<1> USE DEF Conn!Environment, Conn!Connections, Conn!Locals
<1>1. faults \in 0 .. MaxFaults /\ shutdown \in {"no", "waiting", "clean", "late"}
      /\ closing \subseteq late /\ late \subseteq Conn!Id
      /\ silent \in BOOLEAN /\ polling \in BOOLEAN
  BY DEF ConnInv, Broker, Record
<1>2. CASE Conn!BeginShutdown \/ Conn!ShutdownLate \/ Conn!SpeaksAgain
  BY <1>1, <1>2, ConnQuiet DEF Conn!BeginShutdown, Conn!ShutdownLate, Conn!SpeaksAgain
<1>3. CASE Conn!FallsSilent
  <2>1. faults' \in 0 .. MaxFaults
    BY <1>1, <1>3, ConnConstants DEF Conn!FallsSilent, Conn!Fault
  <2> QED  BY <1>1, <1>3, <2>1, ConnQuiet DEF Conn!FallsSilent
<1>4. ASSUME NEW g \in Conn!User, Conn!HookFires(g) PROVE ConnInv'
  <2>1. user[g].conn \in Conn!Id
    BY <1>4 DEF Conn!HookFires, Conn!Armed, ConnInv, Users, Using
  <2> QED  BY <1>1, <1>4, <2>1, ConnQuiet DEF Conn!HookFires
<1>5. CASE UNCHANGED connVars
  BY <1>1, <1>5, ConnQuiet DEF connVars, ConnInv, ConnectionShared, Conn!NothingLeftOpen
<1> QED  BY <1>2, <1>3, <1>4, <1>5

\* Every step keeps the invariant of the connection.
LEMMA ConnNext == ConnInv /\ (Conn!Next \/ UNCHANGED connVars) => ConnInv'
<1> SUFFICES ASSUME ConnInv, Conn!Next \/ UNCHANGED connVars PROVE ConnInv'
  OBVIOUS
<1>1. Relaying \in Conn!User /\ Consuming \subseteq Conn!User
  BY ConnConstants
<1>2. CASE \E g \in Conn!User : Conn!UserStep(g)
  BY <1>2, MutexSteps, DialledStep, ChannelSteps, QuietSteps DEF Conn!UserStep
<1>3. CASE \E w \in Consuming : Conn!ConsumerStep(w) \/ Conn!Handle(w)
  BY <1>1, <1>3, ChannelSteps, ClosingSteps DEF Conn!ConsumerStep
<1>4. CASE \/ Conn!PublishDone \/ Conn!HookCloses
           \/ Conn!BeginShutdown \/ Conn!ShutdownClean \/ Conn!ShutdownLate
           \/ Conn!ConnectionDies \/ Conn!FallsSilent \/ Conn!HeartbeatMissed
           \/ Conn!SpeaksAgain
           \/ UNCHANGED connVars
  BY <1>1, <1>4, ChannelSteps, ClosingSteps, QuietSteps
<1> QED  BY <1>2, <1>3, <1>4 DEF Conn!Next

\* The first states of the connection, and those in which it is over.
LEMMA ConnFirst == Conn!Init \/ ConnectionOver => ConnInv
<1> SUFFICES ASSUME Conn!Init \/ ConnectionOver PROVE ConnInv
  OBVIOUS
<1>1. PICK p \in {"pause", "stopped"} :
        user = [g \in Conn!User |-> [pc |-> p, conn |-> Conn!None]]
  BY DEF Conn!Init, ConnectionOver
<1>2. [pc |-> p, conn |-> Conn!None] \in UserState
  BY DEF UserState, Conn!PC
<1>3. mutex = Conn!Free /\ connected = [w \in Consuming |-> FALSE]
  BY DEF Conn!Init, ConnectionOver
<1>4. Users
  BY <1>1, <1>2, <1>3, ConnConstants DEF Users, Using
<1>5. conn = [k \in Conn!Id |-> "none"] /\ closedBy = [k \in Conn!Id |-> "nobody"]
      /\ current = Conn!None /\ closing = {} /\ late = {}
  BY DEF Conn!Init, ConnectionOver
<1>6. Record
  BY <1>5 DEF Record, ConnStatus, Closer
<1>7. Broker
  <2>1. faults \in 0 .. MaxFaults
    BY ConnConstants DEF Conn!Init, ConnectionOver
  <2>2. silent \in BOOLEAN /\ polling \in BOOLEAN
    BY DEF Conn!Init, ConnectionOver
  <2>3. shutdown \in {"no", "waiting", "clean", "late"}
    BY DEF Conn!Init, ConnectionOver
  <2> QED  BY <2>1, <2>2, <2>3 DEF Broker
<1>8. DialledWhenDead
  BY <1>3 DEF DialledWhenDead
<1>9. shutdown = "clean" => Conn!Finished
  BY DEF Conn!Finished, Conn!Init, ConnectionOver
<1>10. ConnectionShared
  BY <1>5, <1>9 DEF ConnectionShared, Conn!OneConnection, Conn!SuccessorSpared,
              Conn!NothingLeftOpen, Conn!Open
<1> QED  BY <1>4, <1>6, <1>7, <1>8, <1>10 DEF ConnInv

-----------------------------------------------------------------------------
(* The readiness request: components and verdicts. *)

\* What the constants of a request are; a timeout is never above the check's.
LEMMA HealthConstants ==
  /\ Enabled \subseteq Channel /\ MaxFlips \in Nat
  /\ Readiness!CheckTimeout \in Nat \ {0}
  /\ \A timeout \in Int : Readiness!Effective(timeout) \in 1 .. Readiness!CheckTimeout
  /\ ConfiguredTimeouts \subseteq Int
BY ServerAssumption
DEF Readiness!HealthAssumption, Readiness!CheckTimeout, Readiness!Effective

\* The components are of different kinds.
LEMMA Kinds ==
  /\ Readiness!Component = Readiness!Dependency \cup Readiness!Local
  /\ Readiness!Dependency \cap Readiness!Local = {}
  /\ Readiness!Relay \in Readiness!Local
  /\ Readiness!Relay \notin Readiness!Consumer /\ Readiness!Relay \notin Readiness!Provider
  /\ Readiness!Consumer \subseteq Readiness!Local
  /\ Readiness!Consumer \cap Readiness!Provider = {}
  /\ Readiness!Critical(Readiness!Relay)
  /\ \A c \in Readiness!Consumer : Readiness!Critical(c) /\ c.channel \in Enabled
  /\ \A c \in Readiness!Dependency : Readiness!Critical(c)
  /\ \A c \in Readiness!Local \ (Readiness!Consumer \cup {Readiness!Relay}) :
       c \in Readiness!Provider /\ ~Readiness!Critical(c)
<1>1. \A c \in Readiness!Dependency : c.kind \in {"postgres", "rabbitmq"}
  BY DEF Readiness!Dependency
<1>2. \A c \in Readiness!Consumer : c.kind = "consumer" /\ c.channel \in Enabled
  BY DEF Readiness!Consumer
<1>3. \A c \in Readiness!Provider : c.kind = "provider"
  BY DEF Readiness!Provider
<1>4. Readiness!Relay.kind = "relay"
  BY DEF Readiness!Relay
<1> QED  BY <1>1, <1>2, <1>3, <1>4
         DEF Readiness!Component, Readiness!Local, Readiness!Critical

\* A verdict is made of two fields.
LEMMA VerdictFields ==
  /\ \A s, r : Readiness!V(s, r).status = s /\ Readiness!V(s, r).reason = r
  /\ \A s \in {"healthy", "degraded", "disabled", "unhealthy"},
        r \in {"", "canceled", "disabled", "disconnected", "remote_unverified",
               "shutting_down", "stopped", "timeout", "unavailable"} :
       Readiness!V(s, r) \in Readiness!Verdict
  /\ Readiness!Unread \notin Readiness!Verdict
BY DEF Readiness!V, Readiness!Verdict, Readiness!Unread

\* What failedCheck returns: unavailable while the time of the check lasts.
LEMMA Failed ==
  ASSUME ctx \in {"live", "deadline", "canceled"}
  PROVE  /\ Readiness!FailedCheck \in Readiness!Verdict
         /\ Readiness!FailedCheck.status = "unhealthy"
         /\ Readiness!FailedCheck.reason =
              IF ctx = "live" THEN "unavailable"
              ELSE IF ctx = "deadline" THEN "timeout" ELSE "canceled"
BY VerdictFields DEF Readiness!FailedCheck, Readiness!Unhealthy

\* The checks that make no call blame neither time nor a dependency.
LEMMA LocalVerdicts ==
  ASSUME NEW c \in Readiness!Local
  PROVE  /\ Readiness!LocalVerdict(c) \in Readiness!Verdict
         /\ Readiness!LocalVerdict(c).reason \notin {"timeout", "canceled", "unavailable"}
<1> DEFINE told == {Readiness!V("unhealthy", "shutting_down"),
                    Readiness!V("unhealthy", "stopped"),
                    Readiness!V("unhealthy", "disconnected"),
                    Readiness!V("healthy", ""),
                    Readiness!V("degraded", "remote_unverified"),
                    Readiness!V("disabled", "disabled")}
<1>1. Readiness!LocalVerdict(c) \in told
  <2>1. CASE c \in Readiness!Consumer
    <3>1. Readiness!LocalVerdict(c) = Readiness!ConsumerVerdict(c.channel)
      BY <2>1, Kinds DEF Readiness!LocalVerdict
    <3> QED  BY <3>1 DEF Readiness!ConsumerVerdict, Readiness!Unhealthy
  <2>2. CASE c \in Readiness!Provider
    <3>1. Readiness!LocalVerdict(c) = Readiness!ProviderVerdict(c.channel)
      BY <2>2, Kinds DEF Readiness!LocalVerdict
    <3> QED  BY <3>1 DEF Readiness!ProviderVerdict
  <2>3. CASE c = Readiness!Relay
    <3>1. Readiness!LocalVerdict(c) = Readiness!RelayVerdict
      BY <2>3, Kinds DEF Readiness!LocalVerdict
    <3> QED  BY <3>1 DEF Readiness!RelayVerdict, Readiness!Unhealthy
  <2> QED  BY <2>1, <2>2, <2>3, Kinds
<1>2. \A v \in told :
        v \in Readiness!Verdict /\ v.reason \notin {"timeout", "canceled", "unavailable"}
  BY VerdictFields
<1> QED  BY <1>1, <1>2

\* The history of the request takes in what is up and down now.
LEMMA PastGrows ==
  ASSUME past \in Past, NEW ups, ups \subseteq Readiness!Dependency, Readiness!Seen(ups)
  PROVE  /\ past' \in Past
         /\ past'.up = past.up \cup ups
         /\ past'.down = past.down \cup (Readiness!Dependency \ ups)
         /\ past'.stopping = past.stopping
<1> DEFINE p == [past EXCEPT !.up = @ \cup ups, !.down = @ \cup (Readiness!Dependency \ ups)]
<1>1. p.up = past.up \cup ups /\ p.down = past.down \cup (Readiness!Dependency \ ups)
      /\ p.stopping = past.stopping
  BY DEF Past
<1>2. p \in Past
  BY DEF Past
<1>3. past' = p
  BY DEF Readiness!Seen
<1> QED  BY <1>1, <1>2, <1>3

-----------------------------------------------------------------------------
(* The readiness request: steps. *)

\* The system moves, time passes or the client leaves: what was reported was
\* true and stays true of this request.
LEMMA WorldMoves ==
  ASSUME HealthInv, pc # "answered",
         UNCHANGED <<pc, snapshot, runner, check, answer, ComponentTimeout>>,
         Limits', service' \in Readiness!Service, up' \subseteq Readiness!Dependency,
         past' \in Past, past.up \subseteq past'.up, past.down \subseteq past'.down,
         PastIsKept', age <= age', ctx' = ctx \/ ctx = "live"
  PROVE  HealthInv'
<1>1. Reads'
  BY DEF HealthInv, Reads, Readiness!Reported
<1>2. Results'
  BY DEF HealthInv, Results, True, Readiness!Reported
<1>3. Reports'
  <2>1. age \in Nat /\ age' \in Nat
    BY DEF HealthInv, Limits
  <2>2. \A c : Readiness!LocalVerdict(c)' = Readiness!LocalVerdict(c)
    BY DEF Readiness!LocalVerdict, Readiness!ConsumerVerdict, Readiness!ProviderVerdict,
           Readiness!RelayVerdict
  <2> QED  BY <2>1, <2>2 DEF HealthInv, Reports, Readiness!Reported
<1>4. AnswerFits' /\ (pc' # "answered" => ~answer'.ready) /\ Readiness!ReadyIsFresh'
  BY DEF HealthInv, AnswerFits, Readiness!ReadyIsFresh
<1> QED  BY <1>1, <1>2, <1>3, <1>4 DEF HealthInv

\* Dependencies and workers change, the client leaves, time passes.  Time runs
\* only while somebody waits for an answer, so never beyond the timeout.
LEMMA WorldSteps ==
  ASSUME HealthInv, UNCHANGED ComponentTimeout,
         \/ \E d \in Readiness!Dependency : Readiness!Flip(d)
         \/ Readiness!ServiceMoves \/ Readiness!ClientLeaves \/ Readiness!Deadline
         \/ Readiness!Tick
  PROVE  HealthInv'
<1>1. /\ ComponentTimeout \in 1 .. Readiness!CheckTimeout /\ Readiness!CheckTimeout \in Nat
      /\ age \in 0 .. Readiness!CheckTimeout /\ age <= ComponentTimeout
      /\ flips \in 0 .. MaxFlips /\ MaxFlips \in Nat
  BY HealthConstants DEF HealthInv, Limits
<1>2. service \in Readiness!Service /\ up \subseteq Readiness!Dependency /\ past \in Past
  BY DEF HealthInv, Reads
<1>3. ASSUME NEW d \in Readiness!Dependency, Readiness!Flip(d) PROVE HealthInv'
  <2>1. Limits'
    <3>1. flips' \in 0 .. MaxFlips
      BY <1>1, <1>3 DEF Readiness!Flip
    <3> QED  BY <1>3, <3>1 DEF HealthInv, Limits, Readiness!Flip
  <2>2. up' \subseteq Readiness!Dependency /\ Readiness!Seen(up')
    BY <1>2, <1>3 DEF Readiness!Flip
  <2>3. /\ past' \in Past /\ past'.stopping = past.stopping
        /\ past'.up = past.up \cup up'
        /\ past'.down = past.down \cup (Readiness!Dependency \ up')
    BY <1>2, <2>2, PastGrows
  <2>4. PastIsKept'
    BY <1>3, <2>3 DEF HealthInv, PastIsKept, Readiness!Flip
  <2> QED  BY <1>2, <1>3, <1>1, <2>1, <2>2, <2>3, <2>4, WorldMoves DEF Readiness!Flip
<1>4. CASE Readiness!ServiceMoves
  <2>1. service' \in Readiness!Service
    <3>1. /\ [service EXCEPT !.stopping = TRUE] \in Readiness!Service
          /\ [service EXCEPT !.relay = FALSE] \in Readiness!Service
      BY <1>2 DEF Readiness!Service
    <3>2. ASSUME NEW ch \in Enabled, NEW s \in {"stopped", "running", "connected"}
          PROVE  [service EXCEPT !.consumer[ch] = s] \in Readiness!Service
      <4>1. [service.consumer EXCEPT ![ch] = s]
              \in [Enabled -> {"stopped", "running", "connected"}]
        BY <1>2 DEF Readiness!Service
      <4> QED  BY <1>2, <4>1 DEF Readiness!Service
    <3> QED  BY <1>4, <3>1, <3>2 DEF Readiness!ServiceMoves
  <2>2. Limits'
    <3>1. flips' \in 0 .. MaxFlips
      BY <1>1, <1>4 DEF Readiness!ServiceMoves
    <3> QED  BY <1>4, <3>1 DEF HealthInv, Limits, Readiness!ServiceMoves
  <2>3. PastIsKept'
    BY <1>4 DEF HealthInv, PastIsKept, Readiness!ServiceMoves
  <2> QED  BY <1>1, <1>2, <1>4, <2>1, <2>2, <2>3, WorldMoves DEF Readiness!ServiceMoves
<1>5. CASE Readiness!ClientLeaves \/ Readiness!Deadline
  <2>1. Limits'
    BY <1>5 DEF HealthInv, Limits, Readiness!ClientLeaves, Readiness!Deadline
  <2>2. PastIsKept'
    BY <1>5 DEF HealthInv, PastIsKept, Readiness!ClientLeaves, Readiness!Deadline
  <2> QED  BY <1>1, <1>2, <1>5, <2>1, <2>2, WorldMoves
           DEF Readiness!ClientLeaves, Readiness!Deadline
<1>6. CASE Readiness!Tick
  <2>1. ctx = "live"
    BY <1>6 DEF Readiness!Tick, Readiness!Outcomes, Readiness!CutOff
  <2>2. age' = age + 1 /\ age' \in 0 .. Readiness!CheckTimeout /\ age' <= ComponentTimeout
    BY <1>1, <1>6, <2>1 DEF Readiness!Tick
  <2>3. Limits'
    BY <1>6, <2>1, <2>2 DEF HealthInv, Limits, Readiness!Tick
  <2>4. PastIsKept'
    BY <1>6 DEF HealthInv, PastIsKept, Readiness!Tick
  <2> QED  BY <1>1, <1>2, <1>6, <2>2, <2>3, <2>4, WorldMoves DEF Readiness!Tick
<1> QED  BY <1>3, <1>4, <1>5, <1>6

\* Before the checks: a liveness request, and the two reads of Readiness.
LEMMA AskingSteps ==
  ASSUME HealthInv, UNCHANGED ComponentTimeout,
         Readiness!Liveness \/ Readiness!Ask \/ Readiness!StartChecks
  PROVE  HealthInv'
<1>1. /\ pc \in {"none", "workers"}
      /\ UNCHANGED <<ComponentTimeout, service, up, flips, age, ctx, check>>
  BY DEF Readiness!Liveness, Readiness!Ask, Readiness!StartChecks
<1>2. /\ \A c \in Readiness!Component : check[c] = Readiness!NoCheck
      /\ \A d \in Readiness!Dependency : runner[d].pc = "none"
  BY <1>1 DEF HealthInv, Reads
<1>3. pc' \in {"workers", "checks", "answered"}
  BY DEF Readiness!Liveness, Readiness!Ask, Readiness!StartChecks
<1>4. Limits'
  BY <1>1, <1>3 DEF HealthInv, Limits
<1>5. Reports'
  BY <1>1, <1>2 DEF Reports, Readiness!Reported
<1>6. service \in Readiness!Service /\ snapshot \in Readiness!Service
      /\ up \subseteq Readiness!Dependency /\ past \in Past
      /\ runner \in [Readiness!Dependency -> Runner]
      /\ check \in [Readiness!Component -> Check]
  BY DEF HealthInv, Reads
<1>7. Readiness!Relay \in Readiness!Component
      /\ Readiness!Dependency \subseteq Readiness!Component
  BY Kinds
<1>8. CASE Readiness!Liveness
  <2>1. Reads' /\ PastIsKept' /\ Results'
    BY <1>1, <1>2, <1>6, <1>8 DEF Reads, PastIsKept, Results, Readiness!Liveness
  <2>2. AnswerFits'
    BY <1>8 DEF AnswerFits, Readiness!Liveness
  <2>3. Readiness!ReadyIsFresh' /\ pc' = "answered"
    BY <1>1, <1>2, <1>7, <1>8 DEF Readiness!ReadyIsFresh, Readiness!Liveness
  <2> QED  BY <1>4, <1>5, <2>1, <2>2, <2>3 DEF HealthInv
<1>9. CASE Readiness!Ask
  <2>1. /\ snapshot' = [snapshot EXCEPT !.stopping = service.stopping]
        /\ past' = [up |-> up, down |-> Readiness!Dependency \ up,
                    stopping |-> service.stopping]
        /\ UNCHANGED <<runner, answer>> /\ pc' = "workers"
    BY <1>9 DEF Readiness!Ask
  <2>2. snapshot' \in Readiness!Service /\ snapshot'.stopping = service.stopping
    BY <1>6, <2>1 DEF Readiness!Service
  <2>3. past' \in Past
    <3>1. service.stopping \in BOOLEAN
      BY <1>6 DEF Readiness!Service
    <3> QED  BY <1>6, <2>1, <3>1 DEF Past
  <2>4. Reads' /\ PastIsKept' /\ Results'
    BY <1>1, <1>2, <1>6, <2>1, <2>2, <2>3 DEF Reads, PastIsKept, Results
  <2>5. AnswerFits' /\ ~answer'.ready /\ Readiness!ReadyIsFresh'
    BY <1>1, <2>1 DEF HealthInv, AnswerFits, Readiness!ReadyIsFresh
  <2> QED  BY <1>4, <1>5, <2>4, <2>5 DEF HealthInv
<1>10. CASE Readiness!StartChecks
  <2>1. /\ snapshot' = [service EXCEPT !.stopping = snapshot.stopping]
        /\ runner' = [d \in Readiness!Dependency |->
                        [Readiness!NoRunner EXCEPT !.pc = "running"]]
        /\ UNCHANGED <<answer, past>> /\ pc = "workers" /\ pc' = "checks"
    BY <1>10 DEF Readiness!StartChecks
  <2>2. snapshot' \in Readiness!Service /\ snapshot'.stopping = snapshot.stopping
    BY <1>6, <2>1 DEF Readiness!Service
  <2>3. runner' \in [Readiness!Dependency -> Runner]
        /\ \A d \in Readiness!Dependency : runner'[d].pc = "running"
    BY <2>1 DEF Readiness!NoRunner, Runner, AnyVerdict
  <2>4. Reads' /\ PastIsKept' /\ Results'
    BY <1>1, <1>6, <2>1, <2>2, <2>3 DEF HealthInv, Reads, PastIsKept, Results
  <2>5. AnswerFits' /\ ~answer'.ready /\ Readiness!ReadyIsFresh'
    BY <1>1, <2>1 DEF HealthInv, AnswerFits, Readiness!ReadyIsFresh
  <2> QED  BY <1>4, <1>5, <2>4, <2>5 DEF HealthInv
<1> QED  BY <1>8, <1>9, <1>10

\* What the watchers of some components report at once: a verdict that was
\* returned to them, or that their time has run out.
LEMMA WatchersReport ==
  ASSUME HealthInv, pc = "checks",
         UNCHANGED <<ComponentTimeout, service, up, flips, pc, snapshot, age, ctx, answer, past>>,
         NEW S, S \subseteq Readiness!Component,
         check' \in [Readiness!Component -> Check],
         \A c \in Readiness!Component \ S : check'[c] = check[c],
         runner' \in [Readiness!Dependency -> Runner],
         \A d \in Readiness!Dependency \ S : runner'[d] = runner[d],
         \A c \in S :
           /\ check'[c].at = age /\ check'[c].verdict \in Readiness!Verdict
           /\ check'[c].verdict.reason = "timeout" => ctx = "deadline"
           /\ check'[c].verdict.reason = "canceled" => ctx = "canceled"
           /\ check'[c].verdict.reason = "unavailable" => c \in past.down
           /\ c \in Readiness!Dependency /\ check'[c].verdict.status = "healthy" =>
                c \in past.up
           /\ c \in Readiness!Local /\ Readiness!Critical(c)
              /\ check'[c].verdict.status = "healthy" =>
                check'[c].verdict = Readiness!LocalVerdict(c)
  PROVE  HealthInv'
<1>1. \A c \in S : Readiness!Reported(c)'
  <2>1. Readiness!NoCheck.verdict \notin Readiness!Verdict
    BY VerdictFields DEF Readiness!NoCheck, Readiness!Unread
  <2> QED  BY <2>1 DEF Readiness!Reported
<1>2. \A c \in Readiness!Component \ S : Readiness!Reported(c)' <=> Readiness!Reported(c)
  BY DEF Readiness!Reported
<1>3. Limits' /\ PastIsKept'
  BY DEF HealthInv, Limits, PastIsKept
<1>4. Reads'
  BY DEF HealthInv, Reads
<1>5. Results'
  <2> SUFFICES ASSUME NEW d \in Readiness!Dependency, runner'[d].pc = "ended",
                      ~Readiness!Reported(d)'
               PROVE  runner'[d].verdict \in Readiness!Verdict /\ True(runner'[d].verdict, d)
    BY DEF Results, True
  <2>1. d \in Readiness!Component \ S
    BY <1>1, Kinds
  <2> QED  BY <1>2, <2>1 DEF HealthInv, Results
<1>6. Reports'
  <2>1. age \in Nat /\ (ctx = "deadline" => age = ComponentTimeout)
    BY DEF HealthInv, Limits
  <2>2. \A c : Readiness!LocalVerdict(c)' = Readiness!LocalVerdict(c)
    BY DEF Readiness!LocalVerdict, Readiness!ConsumerVerdict, Readiness!ProviderVerdict,
           Readiness!RelayVerdict
  <2> SUFFICES ASSUME NEW c \in Readiness!Component, Readiness!Reported(c)'
               PROVE
      /\ check'[c].verdict \in Readiness!Verdict /\ check'[c].at \in 0 .. age
      /\ check'[c].verdict.reason = "timeout" => check'[c].at = ComponentTimeout
      /\ check'[c].verdict.reason = "canceled" => ctx = "canceled"
      /\ check'[c].verdict.reason = "unavailable" => c \in past.down
      /\ c \in Readiness!Dependency /\ check'[c].verdict.status = "healthy" =>
           c \in past.up
      /\ c \in Readiness!Local /\ Readiness!Critical(c)
         /\ check'[c].verdict.status = "healthy" =>
           check'[c].verdict = Readiness!LocalVerdict(c)
    BY <2>2 DEF Reports, Readiness!Local, Readiness!Critical
  <2>3. CASE c \in S
    BY <2>1, <2>3
  <2>4. CASE c \notin S
    BY <1>2, <2>4 DEF HealthInv, Reports
  <2> QED  BY <2>3, <2>4
<1>7. AnswerFits' /\ ~answer'.ready /\ Readiness!ReadyIsFresh'
  BY DEF HealthInv, AnswerFits, Readiness!ReadyIsFresh
<1> QED  BY <1>3, <1>4, <1>5, <1>6, <1>7 DEF HealthInv

\* The checks that make no call are reported together.
LEMMA ReportLocalStep ==
  ASSUME HealthInv, UNCHANGED ComponentTimeout, Readiness!ReportLocal
  PROVE  HealthInv'
<1>1. PICK cut \in SUBSET Readiness!Local :
        /\ ctx = "live" => cut = {}
        /\ check' = [c \in Readiness!Component |->
                      CASE c \in Readiness!Dependency -> check[c]
                        [] c \in cut -> [verdict |-> Readiness!FailedCheck, at |-> age]
                        [] OTHER -> [verdict |-> Readiness!LocalVerdict(c), at |-> age]]
  BY DEF Readiness!ReportLocal
<1>2. /\ pc = "checks"
      /\ UNCHANGED <<ComponentTimeout, service, up, flips, pc, snapshot, age, ctx, runner,
                     answer, past>>
  BY DEF Readiness!ReportLocal
<1>3. age \in Int /\ ctx \in {"live", "deadline", "canceled"}
      /\ check \in [Readiness!Component -> Check]
      /\ runner \in [Readiness!Dependency -> Runner]
  BY DEF HealthInv, Limits, Reads
<1>4. ASSUME NEW c \in Readiness!Dependency PROVE check'[c] = check[c]
  <2>1. c \in Readiness!Component /\ c \notin cut
    BY <1>1, Kinds
  <2> QED  BY <1>1, <2>1
<1>5. ASSUME NEW c \in Readiness!Local
      PROVE  /\ check'[c] \in Check /\ check'[c].at = age
             /\ \/ check'[c].verdict = Readiness!FailedCheck /\ ctx # "live"
                \/ check'[c].verdict = Readiness!LocalVerdict(c)
             /\ check'[c].verdict \in Readiness!Verdict
  <2>1. PICK v \in {Readiness!FailedCheck, Readiness!LocalVerdict(c)} :
          /\ check'[c] = [verdict |-> v, at |-> age]
          /\ \/ v = Readiness!FailedCheck /\ ctx # "live"
             \/ v = Readiness!LocalVerdict(c)
    BY <1>1, Kinds
  <2>2. v \in Readiness!Verdict
    BY <1>3, Failed, LocalVerdicts
  <2> QED  BY <1>3, <2>1, <2>2 DEF Check, AnyVerdict
<1>6. check' \in [Readiness!Component -> Check]
  <2>1. \A c \in Readiness!Component : check'[c] \in Check
    BY <1>3, <1>4, <1>5, Kinds
  <2> QED  BY <1>1, <2>1
<1>7. \A c \in Readiness!Local :
        /\ check'[c].verdict.reason = "timeout" => ctx = "deadline"
        /\ check'[c].verdict.reason = "canceled" => ctx = "canceled"
        /\ check'[c].verdict.reason # "unavailable"
        /\ check'[c].verdict.status = "healthy" =>
             check'[c].verdict = Readiness!LocalVerdict(c)
  BY <1>3, <1>5, Failed, LocalVerdicts
<1>8. Readiness!Local \subseteq Readiness!Component
      /\ Readiness!Component \ Readiness!Local = Readiness!Dependency
      /\ Readiness!Dependency \cap Readiness!Local = {}
  BY Kinds
<1> QED  BY <1>2, <1>3, <1>4, <1>5, <1>6, <1>7, <1>8, WatchersReport

\* The check of a dependency is reported: its result, or that it was cut off.
LEMMA ReportStep ==
  ASSUME HealthInv, UNCHANGED ComponentTimeout,
         NEW d \in Readiness!Dependency, Readiness!Report(d)
  PROVE  HealthInv'
<1>1. /\ pc = "checks" /\ ~Readiness!Reported(d)
      /\ runner' = [runner EXCEPT ![d].verdict = Readiness!Unread]
      /\ UNCHANGED <<ComponentTimeout, service, up, flips, pc, snapshot, age, ctx, answer, past>>
  BY DEF Readiness!Report
<1>2. PICK v \in Readiness!Outcomes(d) :
        check' = [check EXCEPT ![d] = [verdict |-> v, at |-> age]]
  BY DEF Readiness!Report
<1>3. age \in Int /\ ctx \in {"live", "deadline", "canceled"}
      /\ check \in [Readiness!Component -> Check]
      /\ runner \in [Readiness!Dependency -> Runner]
  BY DEF HealthInv, Limits, Reads
<1>4. v \in Readiness!Verdict /\ True(v, d)
  <2>1. CASE v \in Readiness!Result(d)
    BY <1>1, <2>1 DEF Readiness!Result, HealthInv, Results
  <2>2. CASE v \in Readiness!CutOff
    BY <1>3, <2>2, Failed DEF Readiness!CutOff, True
  <2> QED  BY <1>2, <2>1, <2>2 DEF Readiness!Outcomes
<1>5. d \in Readiness!Component /\ d \notin Readiness!Local
  BY Kinds
<1>6. check' \in [Readiness!Component -> Check]
      /\ check'[d].verdict = v /\ check'[d].at = age
      /\ \A c \in Readiness!Component \ {d} : check'[c] = check[c]
  <2>1. [verdict |-> v, at |-> age] \in Check
    BY <1>3, <1>4 DEF Check, AnyVerdict
  <2> QED  BY <1>2, <1>3, <1>5, <2>1
<1>7. runner' \in [Readiness!Dependency -> Runner]
      /\ \A e \in Readiness!Dependency \ {d} : runner'[e] = runner[e]
  BY <1>1, <1>3 DEF Runner, AnyVerdict
<1> DEFINE S == {d}
<1>8. S \subseteq Readiness!Component
      /\ (\A c \in Readiness!Component \ S : check'[c] = check[c])
      /\ (\A e \in Readiness!Dependency \ S : runner'[e] = runner[e])
  BY <1>5, <1>6, <1>7
<1>9. \A c \in S :
        /\ check'[c].at = age /\ check'[c].verdict \in Readiness!Verdict
        /\ check'[c].verdict.reason = "timeout" => ctx = "deadline"
        /\ check'[c].verdict.reason = "canceled" => ctx = "canceled"
        /\ check'[c].verdict.reason = "unavailable" => c \in past.down
        /\ check'[c].verdict.status = "healthy" => c \in past.up
        /\ c \notin Readiness!Local
  BY <1>4, <1>5, <1>6 DEF True
<1> HIDE DEF S
<1> QED  BY <1>1, <1>6, <1>7, <1>8, <1>9, WatchersReport

\* A call returns; if nobody waits for it any more, nobody reads the result.
LEMMA RunnerEndsStep ==
  ASSUME HealthInv, UNCHANGED ComponentTimeout,
         NEW d \in Readiness!Dependency, Readiness!RunnerEnds(d)
  PROVE  HealthInv'
<1>1. /\ runner[d].pc = "running"
      /\ UNCHANGED <<ComponentTimeout, service, up, flips, pc, snapshot, age, ctx, check,
                     answer, past>>
  BY DEF Readiness!RunnerEnds, Readiness!CallReturns
<1>2. PICK v \in (IF Readiness!Reported(d) THEN {Readiness!Unread} ELSE Readiness!Verdicts(d)) :
        runner' = [runner EXCEPT ![d] = [pc |-> "ended", verdict |-> v]]
  BY DEF Readiness!RunnerEnds, Readiness!CallReturns
<1>3. ctx \in {"live", "deadline", "canceled"}
      /\ runner \in [Readiness!Dependency -> Runner]
  BY DEF HealthInv, Limits, Reads
<1>4. ASSUME ~Readiness!Reported(d) PROVE v \in Readiness!Verdict /\ True(v, d)
  <2>1. pc = "checks"
    BY <1>1, <1>4 DEF HealthInv, Limits, Reads
  <2>2. (d \in up => d \in past.up) /\ (d \notin up => d \in past.down)
    BY <2>1 DEF HealthInv, PastIsKept
  <2>3. CASE v = Readiness!FailedCheck /\ (d \notin up \/ ctx # "live")
    BY <1>3, <2>2, <2>3, Failed DEF True
  <2>4. CASE v = Readiness!V("healthy", "") /\ d \in up
    <3>1. v.status = "healthy" /\ v.reason = "" /\ v \in Readiness!Verdict
      BY <2>4, VerdictFields
    <3> QED  BY <2>2, <2>4, <3>1 DEF True
  <2> QED  BY <1>2, <1>4, <2>3, <2>4 DEF Readiness!Verdicts
<1>5. v \in AnyVerdict
  BY <1>2, <1>4 DEF AnyVerdict
<1>6. runner' \in [Readiness!Dependency -> Runner]
      /\ runner'[d].pc = "ended" /\ runner'[d].verdict = v
      /\ \A e \in Readiness!Dependency \ {d} : runner'[e] = runner[e]
  <2>1. [pc |-> "ended", verdict |-> v] \in Runner
    BY <1>5 DEF Runner
  <2> QED  BY <1>2, <1>3, <2>1
<1>7. Limits' /\ PastIsKept' /\ AnswerFits' /\ (pc' # "answered" => ~answer'.ready)
      /\ Readiness!ReadyIsFresh'
  BY <1>1 DEF HealthInv, Limits, PastIsKept, AnswerFits, Readiness!ReadyIsFresh
<1>8. Reads'
  <2>1. pc \notin {"none", "workers"}
    BY <1>1 DEF HealthInv, Reads
  <2> QED  BY <1>1, <1>6, <2>1 DEF HealthInv, Reads, Readiness!Reported
<1>9. Results'
  BY <1>1, <1>4, <1>6 DEF HealthInv, Results, True, Readiness!Reported
<1>10. Reports'
  <2>1. \A c : Readiness!LocalVerdict(c)' = Readiness!LocalVerdict(c)
    BY <1>1 DEF Readiness!LocalVerdict, Readiness!ConsumerVerdict,
                Readiness!ProviderVerdict, Readiness!RelayVerdict
  <2> QED  BY <1>1, <2>1 DEF HealthInv, Reports, Readiness!Reported
<1> QED  BY <1>7, <1>8, <1>9, <1>10 DEF HealthInv

\* A healthy relay was running, and a healthy consumer connected, in a service
\* that was not stopping when the snapshot was taken.
LEMMA HealthyWorkers ==
  ASSUME snapshot \in Readiness!Service, NEW c \in Readiness!Local,
         Readiness!Critical(c), Readiness!LocalVerdict(c).status = "healthy"
  PROVE  /\ ~snapshot.stopping
         /\ c = Readiness!Relay => snapshot.relay
         /\ c \in Readiness!Consumer => snapshot.consumer[c.channel] = "connected"
<1>1. CASE c = Readiness!Relay
  <2>1. Readiness!RelayVerdict.status = "healthy"
    BY <1>1, Kinds DEF Readiness!LocalVerdict
  <2>2. Readiness!Unhealthy("shutting_down").status # "healthy"
        /\ Readiness!Unhealthy("stopped").status # "healthy"
    BY DEF Readiness!Unhealthy, Readiness!V
  <2>3. Readiness!RelayVerdict \notin
          {Readiness!Unhealthy("shutting_down"), Readiness!Unhealthy("stopped")}
    BY <2>1, <2>2
  <2>4. ~snapshot.stopping /\ snapshot.relay
    BY <2>3 DEF Readiness!RelayVerdict
  <2> QED  BY <1>1, <2>4, Kinds
<1>2. CASE c \in Readiness!Consumer
  <2>1. Readiness!ConsumerVerdict(c.channel).status = "healthy"
    BY <1>2, Kinds DEF Readiness!LocalVerdict
  <2>2. snapshot.consumer[c.channel] \in {"stopped", "running", "connected"}
    BY <1>2, Kinds DEF Readiness!Service
  <2> QED  BY <1>2, <2>1, <2>2, VerdictFields, Kinds
           DEF Readiness!ConsumerVerdict, Readiness!Unhealthy
<1> QED  BY <1>1, <1>2, Kinds

\* Readiness answers when every check is reported.
LEMMA AnswerStep ==
  ASSUME HealthInv, UNCHANGED ComponentTimeout, Readiness!Answer
  PROVE  HealthInv'
<1>1. /\ pc = "checks" /\ pc' = "answered"
      /\ \A c \in Readiness!Component : Readiness!Reported(c)
      /\ answer' = [ready |-> Readiness!Ready, status |-> Readiness!Aggregate]
      /\ ctx' = IF ctx = "live" THEN "canceled" ELSE ctx
      /\ UNCHANGED <<ComponentTimeout, service, up, flips, snapshot, age, runner, check, past>>
  BY DEF Readiness!Answer
<1>2. \A c \in Readiness!Component : Readiness!Reported(c)'
  BY <1>1 DEF Readiness!Reported
<1>3. Limits'
  BY <1>1 DEF HealthInv, Limits
<1>4. Reads' /\ PastIsKept'
  <2>1. Readiness!Dependency \subseteq Readiness!Component
    BY Kinds
  <2>2. Reads'
    BY <1>1, <1>2, <2>1 DEF HealthInv, Reads
  <2> QED  BY <1>1, <2>2 DEF PastIsKept
<1>5. Results'
  BY <1>2, Kinds DEF Results
<1>6. Reports'
  <2>1. \A c : Readiness!LocalVerdict(c)' = Readiness!LocalVerdict(c)
    BY <1>1 DEF Readiness!LocalVerdict, Readiness!ConsumerVerdict,
                Readiness!ProviderVerdict, Readiness!RelayVerdict
  <2> QED  BY <1>1, <2>1 DEF HealthInv, Reports
<1>7. AnswerFits'
  <2>1. answer'.ready = Readiness!Ready /\ answer'.status = Readiness!Aggregate
    BY <1>1
  <2>2. Readiness!Ready => Readiness!Aggregate \in {"healthy", "degraded"}
    BY DEF Readiness!Ready, Readiness!Aggregate
  <2>3. ~Readiness!Ready => Readiness!Aggregate = "unhealthy"
    BY DEF Readiness!Ready, Readiness!Aggregate
  <2>4. CASE Readiness!Ready
    BY <2>1, <2>2, <2>4 DEF AnswerFits
  <2>5. CASE ~Readiness!Ready
    BY <2>1, <2>3, <2>5 DEF AnswerFits
  <2> QED  BY <2>4, <2>5
<1>8. Readiness!ReadyIsFresh'
  <2> SUFFICES ASSUME Readiness!Ready
               PROVE  /\ Readiness!Dependency \subseteq past.up /\ ~past.stopping
                      /\ snapshot.relay
                      /\ \A ch \in Enabled : snapshot.consumer[ch] = "connected"
    BY <1>1 DEF Readiness!ReadyIsFresh
  <2>1. \A c \in Readiness!Component :
          Readiness!Critical(c) => check[c].verdict.status = "healthy"
    BY DEF Readiness!Ready
  <2>2. Readiness!Dependency \subseteq past.up
    BY <1>1, <2>1, Kinds DEF HealthInv, Reports
  <2>3. \A c \in Readiness!Local :
          Readiness!Critical(c) => Readiness!LocalVerdict(c).status = "healthy"
    BY <1>1, <2>1, Kinds DEF HealthInv, Reports
  <2>4. snapshot \in Readiness!Service
    BY DEF HealthInv, Reads
  <2>5. ~snapshot.stopping /\ snapshot.relay
    BY <2>3, <2>4, HealthyWorkers, Kinds
  <2>6. past.stopping = snapshot.stopping
    BY <1>1 DEF HealthInv, PastIsKept
  <2>7. ASSUME NEW ch \in Enabled PROVE snapshot.consumer[ch] = "connected"
    <3> DEFINE c == [kind |-> "consumer", channel |-> ch]
    <3>1. c \in Readiness!Consumer /\ c.channel = ch
      BY DEF Readiness!Consumer
    <3> HIDE DEF c
    <3> QED  BY <2>3, <2>4, <3>1, HealthyWorkers, Kinds
  <2> QED  BY <2>2, <2>5, <2>6, <2>7
<1> QED  BY <1>1, <1>3, <1>4, <1>5, <1>6, <1>7, <1>8 DEF HealthInv

\* A step that the request has no part in.
LEMMA HealthStutter == HealthInv /\ UNCHANGED healthVars => HealthInv'
<1> SUFFICES ASSUME HealthInv, UNCHANGED healthVars PROVE HealthInv'
  OBVIOUS
<1> USE DEF healthVars
<1>1. Limits' /\ PastIsKept' /\ AnswerFits' /\ (pc' # "answered" => ~answer'.ready)
      /\ Readiness!ReadyIsFresh'
  BY DEF HealthInv, Limits, PastIsKept, AnswerFits, Readiness!ReadyIsFresh
<1>2. Reads' /\ Results'
  BY DEF HealthInv, Reads, Results, True, Readiness!Reported
<1>3. Reports'
  <2>1. \A c : Readiness!LocalVerdict(c)' = Readiness!LocalVerdict(c)
    BY DEF Readiness!LocalVerdict, Readiness!ConsumerVerdict, Readiness!ProviderVerdict,
           Readiness!RelayVerdict
  <2> QED  BY <2>1 DEF HealthInv, Reports, Readiness!Reported
<1> QED  BY <1>1, <1>2, <1>3 DEF HealthInv

\* Every step keeps the invariant of the request.
LEMMA HealthNext == HealthInv /\ (Readiness!Next \/ UNCHANGED healthVars) => HealthInv'
BY HealthStutter, WorldSteps, AskingSteps, ReportLocalStep, AnswerStep, RunnerEndsStep,
   ReportStep DEF Readiness!Next

\* The first states of a request, and those in which it is over.
LEMMA HealthFirst == Readiness!Init \/ HealthOver => HealthInv
<1> SUFFICES ASSUME Readiness!Init \/ HealthOver PROVE HealthInv
  OBVIOUS
<1>1. /\ \A d \in Readiness!Dependency : runner[d] = Readiness!NoRunner
      /\ \A c \in Readiness!Component : check[c] = Readiness!NoCheck
      /\ runner = [d \in Readiness!Dependency |-> Readiness!NoRunner]
      /\ check = [c \in Readiness!Component |-> Readiness!NoCheck]
      /\ past = [up |-> {}, down |-> {}, stopping |-> FALSE]
      /\ age = 0 /\ ctx = "live" /\ pc \in {"none", "answered"} /\ snapshot = service
  BY DEF Readiness!Init, HealthOver
<1>2. Limits
  <2>1. ComponentTimeout \in 1 .. Readiness!CheckTimeout
    BY HealthConstants DEF Readiness!Init, HealthOver
  <2>2. flips \in 0 .. MaxFlips
    BY HealthConstants DEF Readiness!Init, HealthOver
  <2> QED  BY <1>1, <2>1, <2>2, HealthConstants DEF Limits
<1>3. service \in Readiness!Service /\ up \subseteq Readiness!Dependency
  <2>1. CASE Readiness!Init
    BY <2>1 DEF Readiness!Init
  <2>2. CASE HealthOver
    <3>1. up = {} /\ service = [stopping |-> TRUE, relay |-> FALSE,
                                consumer |-> [ch \in Enabled |-> "stopped"]]
      BY <2>2 DEF HealthOver
    <3> QED  BY <3>1 DEF Readiness!Service
  <2> QED  BY <2>1, <2>2
<1>4. Reads
  <2>1. past \in Past
    BY <1>1 DEF Past
  <2>2. Readiness!NoRunner \in Runner /\ Readiness!NoRunner.pc = "none"
    BY DEF Readiness!NoRunner, Runner, AnyVerdict
  <2>3. Readiness!NoCheck \in Check
    BY DEF Readiness!NoCheck, Check, AnyVerdict, Readiness!Unread
  <2> QED  BY <1>1, <1>3, <2>1, <2>2, <2>3 DEF Reads
<1>5. PastIsKept
  BY <1>1 DEF PastIsKept
<1>6. Results
  BY <1>1 DEF Results, Readiness!NoRunner
<1>7. Reports
  BY <1>1 DEF Reports, Readiness!Reported
<1>8. ~answer.ready
  BY DEF Readiness!Init, Readiness!NoAnswer, HealthOver
<1>9. AnswerFits /\ Readiness!ReadyIsFresh
  BY <1>8 DEF AnswerFits, Readiness!ReadyIsFresh, Readiness!Init, HealthOver
<1> QED  BY <1>2, <1>4, <1>5, <1>6, <1>7, <1>8, <1>9 DEF HealthInv

-----------------------------------------------------------------------------
(* The theorems. *)

\* A process that ended by an error while it started satisfies the invariant.
LEMMA LifeAfter == LifeOver => LifeInv
<1> SUFFICES ASSUME LifeOver PROVE LifeInv
  OBVIOUS
<1> USE DEF LifeOver
<1>0. "unborn" \in WorkerPC /\ "unborn" \in LoopPC /\ "exited" \notin ShuttingDown
      /\ "exited" \in MainPC
  BY DEF WorkerPC, LoopPC, ShuttingDown, MainPC
<1>1. \A w \in Worker : worker[w].pc = "unborn" /\ worker[w].spent = 0
  BY Fresh
<1>2. stall \in Stalls
  BY ServerAssumption
<1>3. TypeOK
  <2>1. \A w \in Worker : worker[w].spent \in 0 .. Limit(w)
    <3>1. stall \in Nat /\ AttemptTimeout \in Nat
      BY <1>2, TimesAssumption
    <3>2. \A w \in Worker : Limit(w) \in Nat
      BY <3>1 DEF Limit
    <3> QED  BY <1>1, <3>2
  <2>2. relay.pc \in LoopPC /\ collector.pc \in LoopPC
    BY <1>0, Fresh
  <2>3. grace \in 0 .. Grace /\ db \in {"none", "open", "closed"}
    BY TimesAssumption
  <2>4. failed \in BOOLEAN /\ listening \in BOOLEAN /\ stopping \in BOOLEAN
    OBVIOUS
  <2> QED  BY <1>0, <1>1, <1>2, <2>1, <2>2, <2>3, <2>4 DEF TypeOK
<1>4. LifeTypes
  BY <1>0, <1>3, Fresh, TimesAssumption DEF LifeTypes
<1>5. MainProgress
  BY <1>0, <1>1 DEF MainProgress, Cancelled, Startup
<1>6. AttemptsBegan /\ NoneCutShort /\ OutcomesTold
  BY <1>1 DEF AttemptsBegan, NoneCutShort, OutcomesTold
<1>7. WaitedFor
  BY DEF WaitedFor
<1> QED  BY <1>4, <1>5, <1>6, <1>7 DEF LifeInv

\* Every state of the server satisfies the three invariants.
THEOREM ServerInvariance == ServerSpec => []ServerInv
<1>1. ServerInit => ServerInv
  <2>1. Init => LifeInv
    BY InitLife
  <2> QED  BY <2>1, LifeAfter, ConnFirst, HealthFirst DEF ServerInit, ServerInv
<1>2. ServerInv /\ [ServerNext]_<<vars, connVars, healthVars>> => ServerInv'
  BY LifeNext, LifeStutter, ConnNext, HealthNext DEF ServerNext, ServerInv
<1> QED  BY <1>1, <1>2, PTL DEF ServerSpec

\* The variables of the three have their types: a mutex is held just while its
\* holder dials, no call outlives its limit, every verdict is a documented one.
THEOREM ServerTypeCorrect == ServerSpec => []ServerTypeOK
<1>1. ServerInv => TypeOK
  BY DEF ServerInv, LifeInv, LifeTypes
<1>2. ServerInv => Conn!TypeOK
  <2> SUFFICES ASSUME ServerInv PROVE Conn!TypeOK
    OBVIOUS
  <2>1. \A g \in Conn!User : user[g].pc \in Conn!PC
                             /\ user[g].conn \in Conn!Id \cup {Conn!None}
    BY DEF ServerInv, ConnInv, Users, UserState
  <2>2. mutex = Conn!Free <=> \A g \in Conn!User : user[g].pc # "dial"
    BY ConnConstants DEF ServerInv, ConnInv, Users
  <2>3. /\ conn \in [Conn!Id -> {"none", "open", "closed"}]
        /\ current \in Conn!Id \cup {Conn!None}
        /\ closing \subseteq Conn!Id /\ late \subseteq Conn!Id
        /\ mutex \in Conn!User \cup {Conn!Free} /\ connected \in [Consuming -> BOOLEAN]
    BY DEF ServerInv, ConnInv, Record, ConnStatus, Users
  <2> QED  BY <2>1, <2>2, <2>3 DEF ServerInv, ConnInv, Broker, Conn!TypeOK
<1>3. ServerInv => Readiness!TypeOK
  <2> SUFFICES ASSUME ServerInv PROVE Readiness!TypeOK
    OBVIOUS
  <2>1. ComponentTimeout \in 1 .. Readiness!CheckTimeout /\ flips \in 0 .. MaxFlips
        /\ age \in 0 .. Readiness!CheckTimeout + 1
        /\ pc \in {"none", "workers", "checks", "answered"}
        /\ ctx \in {"live", "deadline", "canceled"}
    BY DEF ServerInv, HealthInv, Limits
  <2>2. up \subseteq Readiness!Dependency
        /\ \A d \in Readiness!Dependency :
             /\ runner[d].pc \in {"none", "running", "ended"}
             /\ runner[d].verdict \in Readiness!Verdict \cup {Readiness!Unread}
    BY DEF ServerInv, HealthInv, Reads, Runner, AnyVerdict
  <2>3. \A c \in Readiness!Component :
          Readiness!Reported(c) =>
            check[c].verdict \in Readiness!Verdict /\ check[c].at \in 0 .. age
    BY DEF ServerInv, HealthInv, Reports
  <2>4. pc = "answered" => (answer.ready <=> answer.status \in {"healthy", "degraded"})
    BY DEF ServerInv, HealthInv, AnswerFits
  <2> QED  BY <2>1, <2>2, <2>3, <2>4 DEF Readiness!TypeOK
<1>4. ServerInv => ServerTypeOK
  BY <1>1, <1>2, <1>3 DEF ServerTypeOK
<1> QED  BY ServerInvariance, <1>4, PTL

\* However many consumers share it, no second connection is open, a hook that
\* fires late closes the connection it was set for and no other, and a clean
\* shutdown leaves none open (mqConnection, context.AfterFunc, Shutdown).
THEOREM OneForAll == ServerSpec => []ConnectionShared
<1>1. ServerInv => ConnectionShared
  BY DEF ServerInv, ConnInv
<1> QED  BY ServerInvariance, <1>1, PTL

\* A readiness answer is in time, speaks of its own request and names the true
\* cause, for any timeouts and channels (Health.Readiness, runCheck).
THEOREM AnswersAreFresh == ServerSpec => []ReadinessIsTrue
<1>1. ASSUME ServerInv PROVE Readiness!AnsweredInTime
  <2>1. age \in Nat /\ age <= ComponentTimeout /\ ComponentTimeout \in Nat
        /\ ComponentTimeout <= Readiness!CheckTimeout /\ Readiness!CheckTimeout \in Nat
    BY <1>1 DEF ServerInv, HealthInv, Limits
  <2>2. \A c \in Readiness!Component : check[c].at <= ComponentTimeout
    <3>1. Readiness!NoCheck.at = -1
      BY DEF Readiness!NoCheck
    <3> QED  BY <1>1, <2>1, <3>1 DEF ServerInv, HealthInv, Reports, Readiness!Reported
  <2> QED  BY <2>1, <2>2 DEF Readiness!AnsweredInTime
<1>2. ASSUME ServerInv PROVE Readiness!BlameIsRight
  <2>1. Readiness!NoCheck.verdict.reason = ""
    BY DEF Readiness!NoCheck, Readiness!V
  <2>2. age \in Nat
    BY <1>2 DEF ServerInv, HealthInv, Limits
  <2> SUFFICES ASSUME NEW c \in Readiness!Component
               PROVE
      /\ check[c].verdict.reason = "unavailable" => c \in past.down
      /\ check[c].verdict.reason = "timeout" => check[c].at = ComponentTimeout
      /\ check[c].verdict.reason = "canceled" => check[c].at >= 0 /\ ctx = "canceled"
    BY DEF Readiness!BlameIsRight
  <2>3. CASE Readiness!Reported(c)
    BY <1>2, <2>2, <2>3 DEF ServerInv, HealthInv, Reports
  <2>4. CASE ~Readiness!Reported(c)
    BY <2>1, <2>4 DEF Readiness!Reported
  <2> QED  BY <2>3, <2>4
<1>3. ServerInv => ReadinessIsTrue
  BY <1>1, <1>2 DEF ServerInv, HealthInv, ReadinessIsTrue
<1> QED  BY ServerInvariance, <1>3, PTL

\* The shutdown keeps its promises in the server as well.
THEOREM ServerShutsDown == ServerSpec => [](GraceCoversAttempt /\ ShutdownComplete)
<1>1. LifeInv => GraceCoversAttempt /\ ShutdownComplete
  BY LifeKeepsPromises
<1>2. ServerInv => LifeInv
  BY DEF ServerInv
<1> QED  BY ServerInvariance, <1>1, <1>2, PTL

=============================================================================
