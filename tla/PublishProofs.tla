---------------------------- MODULE PublishProofs ----------------------------
(***************************************************************************)
(* Proofs about Publish for any number of publications and faults.         *)
(***************************************************************************)
EXTENDS Publish, TLAPS

-----------------------------------------------------------------------------
(* TypeOK in four parts, which steps change for different reasons. *)

Places ==
  /\ pc \in PC /\ result \in {"none", "ok", "error"}
  /\ returns \in 0 .. 1 /\ confirms \in {"none", "ack", "nack"}
  /\ rounds \in 0 .. MaxPublishes /\ faults \in 0 .. MaxFaults

Connections ==
  /\ conn \in [gen: 0 .. MaxPublishes, open: BOOLEAN]
  /\ hooks \subseteq 1 .. conn.gen /\ slow \subseteq 1 .. conn.gen
  /\ pc # "idle" => using \in 1 .. conn.gen

Flags ==
  late \in BOOLEAN /\ outbound \in BOOLEAN /\ queue \in BOOLEAN /\ routed \in BOOLEAN

Wire == wire \in Seq({"return", "ack", "nack"}) /\ Len(wire) <= 2

-----------------------------------------------------------------------------
(* The inductive invariant. *)

\* What the broker may still owe the channel of a publication.
Owed == {<<>>, <<"ack">>, <<"nack">>, <<"return", "ack">>}

\* The broker answers a message once: nothing is on its way back before it has
\* the message, and nothing follows the confirmation.
AnsweredOnce ==
  /\ wire \in Owed
  /\ outbound => wire = <<>> /\ returns = 0
  /\ outbound \/ wire # <<>> => confirms = "none"
  /\ wire = <<"return", "ack">> => returns = 0
  /\ pc \in {"open", "declare", "confirm", "publish"} =>
       ~outbound /\ wire = <<>> /\ returns = 0 /\ confirms = "none"

\* While the publication waits, an ack that is on its way, or has come, is that
\* of a message the queue has taken, or follows its return.
AckFollowsReturn ==
  pc = "await" /\ (wire = <<"ack">> \/ confirms = "ack") => routed \/ returns = 1

\* Each publication dials at most once, and AfterFunc was started only for a
\* context that was over.
ConnectionsDialled == conn.gen <= rounds /\ hooks \subseteq slow

\* An open connection is one that was dialled.
OpenIsDialled == conn.open => conn.gen >= 1

Inv ==
  /\ Places /\ Connections /\ Flags
  /\ AnsweredOnce
  /\ AckFollowsReturn
  /\ ConnectionsDialled
  /\ OpenIsDialled
  /\ ConfirmedMeansRouted

USE PublishBounds

\* The frames of a channel, and those that are left when the first is read.
LEMMA Frames ==
  /\ \A w \in Owed : w \in Seq({"return", "ack", "nack"}) /\ Len(w) <= 2
  /\ \A w \in Owed : w # <<>> =>
       /\ Head(w) \in {"return", "ack", "nack"}
       /\ Tail(w) \in Owed
       /\ Head(w) = "return" => w = <<"return", "ack">> /\ Tail(w) = <<"ack">>
       /\ Head(w) # "return" => w = <<Head(w)>> /\ Tail(w) = <<>>
  /\ \A f \in {<<"ack">>, <<"nack">>, <<"return", "ack">>} : <<>> \o f = f
BY DEF Owed

\* The parts, with what the broker owes, give the types.
LEMMA TypesOfInv == Inv => TypeOK
<1>1. Inv => Wire
  BY Frames DEF Inv, AnsweredOnce, Wire
<1> QED  BY <1>1 DEF Inv, TypeOK, Places, Connections, Flags, Wire

\* The first states.
LEMMA InitInv == Init => Inv
<1> SUFFICES ASSUME Init PROVE Inv
  OBVIOUS
<1>1. AnsweredOnce /\ AckFollowsReturn /\ ConfirmedMeansRouted
  BY DEF Init, AnsweredOnce, Owed, AckFollowsReturn, ConfirmedMeansRouted
<1>2. ConnectionsDialled /\ OpenIsDialled
  BY DEF Init, ConnectionsDialled, OpenIsDialled
<1>3. Places
  BY DEF Init, Places, PC
<1>4. Connections
  BY DEF Init, Connections
<1>5. Flags
  BY DEF Init, Flags
<1> QED  BY <1>1, <1>2, <1>3, <1>4, <1>5 DEF Inv

\* The connection a publication begins with.
LEMMA DialledTypes ==
  ASSUME Inv
  PROVE  /\ Dialled.gen \in Nat /\ 1 <= Dialled.gen /\ Dialled.gen <= rounds + 1
         /\ conn.gen <= Dialled.gen /\ Dialled.open = TRUE
         /\ Dialled \in [gen: Nat, open: BOOLEAN]
BY DEF Inv, Places, Connections, ConnectionsDialled, OpenIsDialled, Dialled

\* A publication begins with a channel of its own, on which nothing was sent.
LEMMA BeginStep == Inv /\ Begin => Inv'
<1> SUFFICES ASSUME Inv, Begin PROVE Inv'
  OBVIOUS
<1>1. /\ pc' = "open" /\ late' = FALSE /\ result' = "none" /\ returns' = 0
      /\ confirms' = "none" /\ outbound' = FALSE /\ wire' = <<>> /\ routed' = FALSE
      /\ using' = Dialled.gen /\ conn' = Dialled /\ rounds' = rounds + 1
      /\ rounds < MaxPublishes
      /\ UNCHANGED <<hooks, slow, queue, faults>>
  BY DEF Begin
<1>2. /\ conn'.gen \in Nat /\ 1 <= conn'.gen /\ conn'.gen <= rounds + 1
      /\ conn.gen <= conn'.gen
      /\ conn' \in [gen: Nat, open: BOOLEAN]
  BY <1>1, DialledTypes
<1>3. rounds \in Nat /\ conn.gen \in Nat /\ rounds + 1 <= MaxPublishes
  BY <1>1 DEF Inv, Places, Connections
<1>4. conn' \in [gen: 0 .. MaxPublishes, open: BOOLEAN]
  BY <1>2, <1>3
<1>5. wire' \in Owed
  BY <1>1 DEF Owed
<1>6. Places' /\ Connections' /\ Flags'
  <2>1. Places'
    BY <1>1, <1>3 DEF Inv, Places, PC
  <2>2. using' \in 1 .. conn'.gen
    BY <1>1, <1>2
  <2>3. hooks' \subseteq 1 .. conn'.gen /\ slow' \subseteq 1 .. conn'.gen
    BY <1>1, <1>2, <1>3 DEF Inv, Connections
  <2>4. Flags'
    BY <1>1 DEF Inv, Flags
  <2> QED  BY <1>4, <2>1, <2>2, <2>3, <2>4 DEF Connections
<1>7. AnsweredOnce'
  BY <1>1, <1>5 DEF AnsweredOnce
<1>8. ConnectionsDialled' /\ OpenIsDialled'
  BY <1>1, <1>2 DEF Inv, ConnectionsDialled, OpenIsDialled
<1>9. AckFollowsReturn' /\ ConfirmedMeansRouted'
  BY <1>1 DEF AckFollowsReturn, ConfirmedMeansRouted
<1> QED  BY <1>6, <1>7, <1>8, <1>9 DEF Inv

\* A step that does not touch the network or the broker's answers changes only
\* where publish is and what it returns.
LEMMA PublishMoves ==
  ASSUME Inv, UNCHANGED <<using, returns, confirms, network, rounds>>,
         pc' \in PC, late' \in BOOLEAN, result' \in {"none", "ok", "error"},
         faults' \in 0 .. MaxFaults, pc' # "idle" => pc # "idle",
         pc' \in {"open", "declare", "confirm", "publish"} =>
           pc \in {"open", "declare", "confirm", "publish"},
         pc' = "await" => pc = "await",
         result' = "ok" => routed
  PROVE  Inv'
<1> USE DEF network
<1>1. Places' /\ Connections' /\ Flags'
  <2>1. Places'
    BY DEF Inv, Places
  <2>2. Connections'
    BY DEF Inv, Connections
  <2>3. Flags'
    BY DEF Inv, Flags
  <2> QED  BY <2>1, <2>2, <2>3
<1>2. AnsweredOnce'
  BY DEF Inv, AnsweredOnce
<1>3. AckFollowsReturn' /\ ConnectionsDialled' /\ OpenIsDialled'
  BY DEF Inv, AckFollowsReturn, ConnectionsDialled, OpenIsDialled
<1>4. ConfirmedMeansRouted'
  BY DEF ConfirmedMeansRouted
<1> QED  BY <1>1, <1>2, <1>3, <1>4 DEF Inv

\* A call or a write that fails, or the end of the deferred calls.
LEMMA GivesUpStep == Inv /\ (CallFails \/ Leave) => Inv'
<1>1. ASSUME Inv, CallFails PROVE Inv'
  BY <1>1, PublishMoves DEF CallFails, Return, Inv, Places, Connections, Flags, PC, network
<1>2. ASSUME Inv, Leave PROVE Inv'
  BY <1>2, PublishMoves DEF Leave, Inv, Places, Connections, Flags, PC, network, ConfirmedMeansRouted
<1> QED  BY <1>1, <1>2

\* An ack is believed only when no return came before it.
LEMMA AwaitStep == Inv /\ Await => Inv'
<1> SUFFICES ASSUME Inv, Await PROVE Inv'
  OBVIOUS
<1>1. pc = "await" /\ pc' = "close"
      /\ UNCHANGED <<using, late, returns, confirms, rounds, faults, network>>
  BY DEF Await, Return
<1>2. result' = "error" \/ (confirms # "none" /\ result' = Confirmed(confirms))
  BY DEF Await, Return
<1>3. result' \in {"ok", "error"} /\ (result' = "ok" => confirms = "ack" /\ returns = 0)
  BY <1>2 DEF Confirmed
<1>4. result' = "ok" => routed
  BY <1>1, <1>3 DEF Inv, AckFollowsReturn
<1> QED  BY <1>1, <1>3, <1>4, PublishMoves DEF Inv, Places, Connections, Flags, PC

\* The message is on its way once, to a broker that owes nothing yet.
LEMMA SendStep == Inv /\ Send => Inv'
<1> SUFFICES ASSUME Inv, Send PROVE Inv'
  OBVIOUS
<1> USE DEF Send
<1>1. Places' /\ Connections' /\ Flags'
  <2>1. Places'
    BY DEF Inv, Places, PC
  <2>2. Connections'
    BY DEF Inv, Connections
  <2>3. Flags'
    BY DEF Inv, Flags
  <2> QED  BY <2>1, <2>2, <2>3
<1>2. AnsweredOnce' /\ AckFollowsReturn'
  BY DEF Inv, AnsweredOnce, AckFollowsReturn
<1>3. ConnectionsDialled' /\ OpenIsDialled' /\ ConfirmedMeansRouted'
  BY DEF Inv, ConnectionsDialled, OpenIsDialled, ConfirmedMeansRouted
<1> QED  BY <1>1, <1>2, <1>3 DEF Inv

\* The broker answers the calls before the publish; the queue may appear.
LEMMA AnsweredStep == Inv /\ Answered => Inv'
<1> SUFFICES ASSUME Inv, Answered PROVE Inv'
  OBVIOUS
<1> USE DEF Answered
<1>1. pc \in {"open", "declare", "confirm"} /\ pc' \in {"declare", "confirm", "publish"}
  OBVIOUS
<1>2. Places' /\ Connections' /\ Flags'
  <2>1. Places'
    BY <1>1 DEF Inv, Places, PC
  <2>2. Connections'
    BY <1>1 DEF Inv, Connections
  <2>3. Flags'
    BY DEF Inv, Flags
  <2> QED  BY <2>1, <2>2, <2>3
<1>3. AnsweredOnce' /\ AckFollowsReturn'
  BY <1>1 DEF Inv, AnsweredOnce, AckFollowsReturn
<1>4. ConnectionsDialled' /\ OpenIsDialled' /\ ConfirmedMeansRouted'
  BY DEF Inv, ConnectionsDialled, OpenIsDialled, ConfirmedMeansRouted
<1> QED  BY <1>2, <1>3, <1>4 DEF Inv

\* The dial fails: the publication before it has long returned.
LEMMA DialFailsStep == Inv /\ DialFails => Inv'
<1> SUFFICES ASSUME Inv, DialFails PROVE Inv'
  OBVIOUS
<1> USE DEF DialFails, Fault
<1>1. Places' /\ Connections' /\ Flags'
  <2>1. Places'
    BY DEF Inv, Places, PC
  <2>2. Connections'
    BY DEF Inv, Connections
  <2>3. Flags'
    BY DEF Inv, Flags
  <2> QED  BY <2>1, <2>2, <2>3
<1>2. AnsweredOnce' /\ AckFollowsReturn'
  BY DEF Inv, AnsweredOnce, AckFollowsReturn
<1>3. ConnectionsDialled' /\ OpenIsDialled' /\ ConfirmedMeansRouted'
  BY DEF Inv, Places, Connections, Flags, ConnectionsDialled, OpenIsDialled, ConfirmedMeansRouted
<1> QED  BY <1>1, <1>2, <1>3 DEF Inv

\* What AfterFunc does and the network suffers changes no frame.
LEMMA NetworkStep ==
  Inv /\ (Expire \/ HookCloses \/ ConnectionDies \/ QueueLost) => Inv'
<1> SUFFICES ASSUME Inv, Expire \/ HookCloses \/ ConnectionDies \/ QueueLost
             PROVE  Inv'
  OBVIOUS
<1>1. UNCHANGED <<pc, using, result, returns, confirms, outbound, wire, routed, rounds>>
  BY DEF Expire, HookCloses, ConnectionDies, QueueLost
<1>2. /\ conn' \in [gen: 0 .. MaxPublishes, open: BOOLEAN]
      /\ conn'.gen = conn.gen /\ (conn'.open => conn.open)
  BY DEF Inv, Places, Connections, Flags, Expire, HookCloses, ConnectionDies, QueueLost
<1>3. /\ hooks' \subseteq slow' /\ slow' \subseteq 1 .. conn.gen
      /\ hooks' \subseteq 1 .. conn.gen
  BY DEF Inv, Places, Connections, Flags, ConnectionsDialled, Expire, HookCloses, ConnectionDies, QueueLost
<1>4. faults' \in 0 .. MaxFaults
  BY DEF Inv, Places, Expire, HookCloses, ConnectionDies, QueueLost, Fault
<1>5. Places' /\ Connections' /\ Flags'
  <2>1. Places'
    BY <1>1, <1>4 DEF Inv, Places
  <2>2. Connections'
    BY <1>1, <1>2, <1>3 DEF Inv, Connections
  <2>3. Flags'
    BY DEF Inv, Flags, Expire, HookCloses, ConnectionDies, QueueLost
  <2> QED  BY <2>1, <2>2, <2>3
<1>6. AnsweredOnce' /\ AckFollowsReturn' /\ ConfirmedMeansRouted'
  BY <1>1 DEF Inv, AnsweredOnce, AckFollowsReturn, ConfirmedMeansRouted
<1>7. ConnectionsDialled' /\ OpenIsDialled'
  BY <1>1, <1>2, <1>3 DEF Inv, ConnectionsDialled, OpenIsDialled
<1> QED  BY <1>5, <1>6, <1>7 DEF Inv

\* The broker gets the message: a message that no queue takes is returned
\* before it is confirmed.
LEMMA BrokerStep == Inv /\ (BrokerRoutes \/ BrokerNacks) => Inv'
<1> SUFFICES ASSUME Inv, BrokerRoutes \/ BrokerNacks PROVE Inv'
  OBVIOUS
<1>1. /\ outbound /\ ~outbound'
      /\ UNCHANGED <<pc, using, late, result, returns, confirms, conn, hooks, slow,
                     queue, rounds>>
      /\ routed => routed'
  BY DEF BrokerRoutes, BrokerNacks, Fault
<1>2. wire = <<>> /\ returns = 0 /\ confirms = "none"
      /\ pc \notin {"open", "declare", "confirm", "publish"}
  BY <1>1 DEF Inv, AnsweredOnce
<1>3. /\ wire' \in {<<>>, <<"ack">>, <<"nack">>, <<"return", "ack">>}
      /\ wire' = <<"ack">> => routed'
  BY <1>2, Frames DEF BrokerRoutes, BrokerNacks, Sends
<1>4. Places' /\ Connections' /\ Flags'
  <2>1. faults' \in 0 .. MaxFaults
    BY DEF BrokerRoutes, BrokerNacks, Fault, Inv, Places
  <2>2. Places'
    BY <1>1, <2>1 DEF Inv, Places
  <2>3. Connections'
    BY <1>1 DEF Inv, Connections
  <2>4. Flags'
    BY DEF BrokerRoutes, BrokerNacks, Inv, Flags
  <2> QED  BY <2>2, <2>3, <2>4
<1>5. AnsweredOnce'
  BY <1>1, <1>2, <1>3 DEF AnsweredOnce, Owed
<1>6. AckFollowsReturn' /\ ConfirmedMeansRouted'
  BY <1>1, <1>2, <1>3 DEF Inv, AckFollowsReturn, ConfirmedMeansRouted
<1>7. ConnectionsDialled' /\ OpenIsDialled'
  BY <1>1 DEF Inv, ConnectionsDialled, OpenIsDialled
<1> QED  BY <1>4, <1>5, <1>6, <1>7 DEF Inv

\* The library hands over the frames in their order.
LEMMA DeliverStep == Inv /\ Deliver => Inv'
<1> SUFFICES ASSUME Inv, Deliver PROVE Inv'
  OBVIOUS
<1>1. /\ wire # <<>> /\ wire' = Tail(wire)
      /\ UNCHANGED <<pc, using, late, result, conn, hooks, slow, outbound, queue,
                     routed, rounds, faults>>
  BY DEF Deliver
<1>2. /\ wire \in Owed /\ confirms = "none" /\ ~outbound
      /\ pc \notin {"open", "declare", "confirm", "publish"}
  BY <1>1 DEF Inv, AnsweredOnce
<1>3. /\ Head(wire) \in {"return", "ack", "nack"} /\ wire' \in Owed
      /\ Head(wire) = "return" => wire = <<"return", "ack">> /\ wire' = <<"ack">>
      /\ Head(wire) # "return" => wire = <<Head(wire)>> /\ wire' = <<>>
  BY <1>1, <1>2, Frames
<1>4. CASE Head(wire) = "return"
  <2>1. returns = 0 /\ returns' = 1 /\ confirms' = confirms /\ wire' = <<"ack">>
    BY <1>3, <1>4 DEF Deliver
  <2>2. Places' /\ Connections' /\ Flags'
    <3>1. Places'
      BY <1>1, <2>1 DEF Inv, Places
    <3> QED  BY <1>1, <3>1 DEF Inv, Connections, Flags
  <2>3. AnsweredOnce' /\ AckFollowsReturn'
    BY <1>1, <1>2, <1>3, <2>1 DEF AnsweredOnce, AckFollowsReturn
  <2> QED  BY <1>1, <2>2, <2>3
           DEF Inv, ConnectionsDialled, OpenIsDialled, ConfirmedMeansRouted
<1>5. CASE Head(wire) # "return"
  <2>1. /\ returns' = returns /\ confirms' = Head(wire) /\ wire' = <<>>
        /\ wire = <<Head(wire)>>
    BY <1>3, <1>5 DEF Deliver
  <2>2. Places' /\ Connections' /\ Flags'
    <3>1. Places'
      BY <1>1, <1>3, <1>5, <2>1 DEF Inv, Places
    <3> QED  BY <1>1, <3>1 DEF Inv, Connections, Flags
  <2>3. AnsweredOnce'
    BY <1>1, <1>2, <1>3, <2>1 DEF AnsweredOnce
  <2>4. AckFollowsReturn'
    BY <1>1, <2>1 DEF Inv, AckFollowsReturn
  <2> QED  BY <1>1, <2>2, <2>3, <2>4
           DEF Inv, ConnectionsDialled, OpenIsDialled, ConfirmedMeansRouted
<1> QED  BY <1>4, <1>5

-----------------------------------------------------------------------------
(* The theorems. *)

\* Inv is inductive.
LEMMA NextInv == Inv /\ [Next]_vars => Inv'
<1> SUFFICES ASSUME Inv, [Next]_vars PROVE Inv'
  OBVIOUS
<1>1. CASE UNCHANGED vars
  <2>1. UNCHANGED <<using, returns, confirms, network, rounds>>
    BY <1>1 DEF vars, network
  <2>2. UNCHANGED <<pc, late, result, faults, routed>>
    BY <1>1 DEF vars
  <2> QED  BY <2>1, <2>2, PublishMoves DEF Inv, Places, Connections, Flags, ConfirmedMeansRouted
<1>2. CASE Begin \/ DialFails \/ Answered \/ CallFails \/ Send \/ Await \/ Leave
  BY <1>2, BeginStep, DialFailsStep, AnsweredStep, GivesUpStep, SendStep, AwaitStep
<1>3. CASE Expire \/ HookCloses \/ ConnectionDies \/ QueueLost
  BY <1>3, NetworkStep
<1>4. CASE BrokerRoutes \/ BrokerNacks \/ Deliver
  BY <1>4, BrokerStep, DeliverStep
<1> QED  BY <1>1, <1>2, <1>3, <1>4 DEF Next

\* The inductive invariant: a channel carries one message, one answer to it,
\* and a return before the answer if nobody took the message.
THEOREM Invariance == Spec => []Inv
<1>1. Init => Inv
  BY InitInv
<1>2. Inv /\ [Next]_vars => Inv'
  BY NextInv
<1> QED  BY <1>1, <1>2, PTL DEF Spec

\* Every variable keeps its type: publish uses a connection that was dialled,
\* and the broker owes it at most a return and a confirmation.
THEOREM TypeCorrect == Spec => []TypeOK
<1>1. Inv => TypeOK
  BY TypesOfInv
<1> QED  BY <1>1, Invariance, PTL

\* No notification is reported as published that the queue has not taken, in
\* whichever order the select of awaitConfirmation sees what has come.
THEOREM ReportedIsRouted == Spec => []ConfirmedMeansRouted
<1>1. Inv => ConfirmedMeansRouted
  BY DEF Inv
<1> QED  BY <1>1, Invariance, PTL

\* The shared connection is closed by the network or by a publication whose
\* context was over on it, never because a publication has returned.
THEOREM ClosedForAReason == Spec => ConnectionSpared
<1> DEFINE Spared == conn.open /\ ~conn'.open => faults' < faults \/ conn.gen \in slow
<1>1. Inv /\ [Next]_vars => Spared
  <2> SUFFICES ASSUME Inv, [Next]_vars, conn.open, ~conn'.open
               PROVE  faults' < faults \/ conn.gen \in slow
    OBVIOUS
  <2>1. CASE HookCloses
    BY <2>1 DEF HookCloses, Inv, Places, Connections, Flags, ConnectionsDialled
  <2>2. CASE ConnectionDies
    BY <2>2 DEF ConnectionDies, Fault, Inv, Places, Connections, Flags
  <2>3. CASE Begin
    BY <2>3, DialledTypes DEF Begin
  <2>4. ~UNCHANGED conn
    OBVIOUS
  <2>5. HookCloses \/ ConnectionDies \/ Begin
    BY <2>4 DEF Next, vars, network, DialFails, Answered, CallFails, Send, Await, Leave,
         Expire, BrokerRoutes, BrokerNacks, Deliver, QueueLost
  <2> QED  BY <2>1, <2>2, <2>3, <2>5
<1> QED  BY <1>1, Invariance, PTL DEF Spec, ConnectionSpared
=============================================================================
