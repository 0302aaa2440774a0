------------------------------ MODULE Publish ------------------------------
(***************************************************************************)
(* service.publish and awaitConfirmation: one relay publishing one         *)
(* notification after the other, each on an AMQP channel of its own, over  *)
(* the connection that the server's goroutines share.  The broker may die, *)
(* stay silent, or lose the queue between its declaration and the publish. *)
(*                                                                         *)
(* What the amqp091 library and the broker do is modelled from how publish *)
(* uses them: frames arrive in order, and a mandatory message that no      *)
(* queue takes is returned before it is confirmed.                         *)
(*                                                                         *)
(* An operator introduced as a variant is not part of the model: it is the *)
(* definition that follows it with a slip, put in its place to see that a  *)
(* property notices.                                                       *)
(***************************************************************************)
EXTENDS Naturals, Sequences

CONSTANTS
  MaxPublishes,  \* bound: notifications published
  MaxFaults      \* bound: dead connections, failed dials, nacks, lost queues

ASSUME PublishBounds == MaxPublishes \in Nat /\ MaxFaults \in Nat

VARIABLES
  pc,        \* where publish is
  using,     \* the connection publish got from mqConnection
  late,      \* whether its context is over: five seconds, or a shutdown
  result,    \* what publish returned, or will return, "none" before that
  returns,   \* the buffer of NotifyReturn, of capacity 1
  confirms,  \* the buffer of NotifyPublish, of capacity 1
  conn,      \* svc.mqConn: how often it was dialled, whether it is open
  hooks,     \* connections that the goroutine of AfterFunc is about to close
  slow,      \* connections on which a publication's context was over
  outbound,  \* the message is on its way to the broker
  wire,      \* frames on their way back for the channel of this publication
  queue,     \* whether the destination queue exists
  routed,    \* whether the queue has taken the message of this publication
  rounds,    \* publications begun
  faults     \* what is left of the budget of faults

vars == <<pc, using, late, result, returns, confirms, conn, hooks, slow,
          outbound, wire, queue, routed, rounds, faults>>

PC == {"idle", "open", "declare", "confirm", "publish", "await", "close"}

network == <<conn, hooks, slow, outbound, wire, queue, routed>>

Fault == faults > 0 /\ faults' = faults - 1

Init ==
  /\ pc = "idle" /\ using = 0 /\ late = FALSE /\ result = "none"
  /\ returns = 0 /\ confirms = "none"
  /\ conn = [gen |-> 0, open |-> FALSE] /\ hooks = {} /\ slow = {}
  /\ outbound = FALSE /\ wire = <<>> /\ queue = FALSE /\ routed = FALSE
  /\ rounds = 0 /\ faults = MaxFaults

\* The connection of this publication is the one in use and is open.
Connected == conn.open /\ conn.gen = using

-----------------------------------------------------------------------------
(* publish. *)

\* Variant: the error of the dial is ignored.
NotDialled == conn

\* mqConnection: the open connection, or a new one.
Dialled == IF conn.open THEN conn ELSE [gen |-> conn.gen + 1, open |-> TRUE]

\* mqConnection succeeds and the five seconds begin.
Begin ==
  /\ pc = "idle" /\ rounds < MaxPublishes
  /\ rounds' = rounds + 1
  /\ conn' = Dialled /\ using' = Dialled.gen
  /\ pc' = "open" /\ late' = FALSE /\ result' = "none"
  /\ returns' = 0 /\ confirms' = "none"
  /\ outbound' = FALSE /\ wire' = <<>> /\ routed' = FALSE
  /\ UNCHANGED <<hooks, slow, queue, faults>>

DialFails ==
  /\ pc = "idle" /\ rounds < MaxPublishes /\ ~conn.open
  /\ Fault
  /\ rounds' = rounds + 1
  /\ result' = "error" /\ routed' = FALSE
  /\ UNCHANGED <<pc, using, late, returns, confirms, conn, hooks, slow,
                 outbound, wire, queue>>

\* publish returns r: once it has a channel it closes that first.
Return(r) ==
  /\ result' = r
  /\ pc' = IF pc = "open" THEN "idle" ELSE "close"

\* The next of connection.Channel, declareTopology and channel.Confirm, which
\* wait for the broker's answer without looking at the context.
Answered ==
  /\ pc \in {"open", "declare", "confirm"} /\ Connected
  /\ pc' = CASE pc = "open"    -> "declare"
             [] pc = "declare" -> "confirm"
             [] pc = "confirm" -> "publish"
  /\ queue' = (pc = "declare" \/ queue)
  /\ UNCHANGED <<using, late, result, returns, confirms, conn, hooks, slow,
                 outbound, wire, routed, rounds, faults>>

\* A call, or the write of the message, on a connection that is gone.
CallFails ==
  /\ pc \in {"open", "declare", "confirm", "publish"} /\ ~Connected
  /\ Return("error")
  /\ UNCHANGED <<using, late, returns, confirms, rounds, faults, network>>

\* PublishWithContext writes the message.
Send ==
  /\ pc = "publish" /\ Connected
  /\ pc' = "await" /\ outbound' = TRUE
  /\ UNCHANGED <<using, late, result, returns, confirms, conn, hooks, slow,
                 wire, queue, routed, rounds, faults>>

\* Variant: the returns are not looked at again.
ConfirmedAtOnce(c) == IF c = "ack" THEN "ok" ELSE "error"

\* What awaitConfirmation makes of a confirmation it has received.
Confirmed(c) == IF c = "ack" /\ returns = 0 THEN "ok" ELSE "error"

\* The cases of the select that are ready, of which one is taken.
Await ==
  /\ pc = "await"
  /\ \/ returns = 1 /\ Return("error")
     \/ confirms # "none" /\ Return(Confirmed(confirms))
     \/ ~Connected /\ Return("error")
     \/ late /\ Return("error")
  /\ UNCHANGED <<using, late, returns, confirms, rounds, faults, network>>

\* Variant: cancel before stop, so that every return fires AfterFunc.
LeaveCancelled ==
  /\ pc = "close"
  /\ pc' = "idle"
  /\ hooks' = hooks \cup {using}
  /\ UNCHANGED <<using, late, result, returns, confirms, rounds, faults,
                 conn, slow, outbound, wire, queue, routed>>

\* The deferred calls: channel.Close, which waits for the broker or for the
\* end of the connection, then stop, which disarms AfterFunc, then cancel.
Leave ==
  /\ pc = "close"
  /\ pc' = "idle"
  /\ UNCHANGED <<using, late, result, returns, confirms, rounds, faults, network>>

\* Variant: a context with no AfterFunc.
ExpireOnly ==
  /\ pc # "idle" /\ ~late
  /\ late' = TRUE
  /\ slow' = slow \cup {using}
  /\ UNCHANGED <<pc, using, result, returns, confirms, conn, hooks, outbound,
                 wire, queue, routed, rounds, faults>>

\* The context expires: AfterFunc starts its goroutine.
Expire ==
  /\ pc # "idle" /\ ~late
  /\ late' = TRUE
  /\ hooks' = hooks \cup {using}
  /\ slow' = slow \cup {using}
  /\ UNCHANGED <<pc, using, result, returns, confirms, conn, outbound, wire,
                 queue, routed, rounds, faults>>

\* connection.CloseDeadline, on the connection AfterFunc was given.
HookCloses ==
  /\ \E g \in hooks :
       /\ hooks' = hooks \ {g}
       /\ conn' = [conn EXCEPT !.open = @ /\ conn.gen # g]
  /\ UNCHANGED <<pc, using, late, result, returns, confirms, slow, outbound,
                 wire, queue, routed, rounds, faults>>

-----------------------------------------------------------------------------
(* The library and the broker. *)

\* Frames that reach a client whose connection is gone are lost.
Sends(frames) == wire' = IF Connected THEN wire \o frames ELSE <<>>

\* The broker gets the message, which may have been sent before the
\* connection died.
BrokerRoutes ==
  /\ outbound /\ outbound' = FALSE
  /\ \/ queue /\ routed' = TRUE /\ Sends(<<"ack">>)
     \/ ~queue /\ routed' = routed /\ Sends(<<"return", "ack">>)
  /\ UNCHANGED <<pc, using, late, result, returns, confirms, conn, hooks, slow,
                 queue, rounds, faults>>

BrokerNacks ==
  /\ outbound /\ outbound' = FALSE
  /\ Fault
  /\ Sends(<<"nack">>)
  /\ UNCHANGED <<pc, using, late, result, returns, confirms, conn, hooks, slow,
                 queue, routed, rounds>>

\* The library's reader hands the next frame to its listener.
Deliver ==
  /\ wire # <<>> /\ Connected
  /\ IF Head(wire) = "return"
     THEN returns = 0 /\ returns' = 1 /\ UNCHANGED confirms
     ELSE confirms = "none" /\ confirms' = Head(wire) /\ UNCHANGED returns
  /\ wire' = Tail(wire)
  /\ UNCHANGED <<pc, using, late, result, conn, hooks, slow, outbound, queue,
                 routed, rounds, faults>>

ConnectionDies ==
  /\ conn.open
  /\ Fault
  /\ conn' = [conn EXCEPT !.open = FALSE]
  /\ UNCHANGED <<pc, using, late, result, returns, confirms, hooks, slow,
                 outbound, wire, queue, routed, rounds>>

\* Somebody deletes the queue, or the broker loses it.
QueueLost ==
  /\ queue
  /\ Fault
  /\ queue' = FALSE
  /\ UNCHANGED <<pc, using, late, result, returns, confirms, conn, hooks, slow,
                 outbound, wire, routed, rounds>>

-----------------------------------------------------------------------------
\* What goes on without the broker: a call returns at once when its
\* connection is gone.
LocalStep ==
  CallFails \/ Send \/ Await \/ (Leave /\ ~Connected) \/ Expire \/ HookCloses

Next ==
  \/ Begin \/ DialFails \/ Answered \/ CallFails \/ Send \/ Await \/ Leave
  \/ Expire \/ HookCloses
  \/ BrokerRoutes \/ BrokerNacks \/ Deliver \/ ConnectionDies \/ QueueLost

Spec == Init /\ [][Next]_vars

\* The relay's goroutine and the clock go on; the broker may stay silent.
FairSpec == Spec /\ WF_vars(LocalStep)

-----------------------------------------------------------------------------
\* Types: publish uses a connection that was dialled (mqConnection) whenever it runs,
\* and the broker owes it at most a return and a confirmation.
TypeOK ==
  /\ pc \in PC /\ late \in BOOLEAN /\ result \in {"none", "ok", "error"}
  /\ pc # "idle" => using \in 1 .. conn.gen
  /\ returns \in 0 .. 1 /\ confirms \in {"none", "ack", "nack"}
  /\ conn \in [gen: 0 .. MaxPublishes, open: BOOLEAN]
  /\ hooks \subseteq 1 .. conn.gen /\ slow \subseteq 1 .. conn.gen
  /\ outbound \in BOOLEAN /\ queue \in BOOLEAN /\ routed \in BOOLEAN
  /\ wire \in Seq({"return", "ack", "nack"}) /\ Len(wire) <= 2
  /\ rounds \in 0 .. MaxPublishes /\ faults \in 0 .. MaxFaults

\* A notification reported as published was taken by the queue, although the
\* select of awaitConfirmation may see the confirmation of a returned message
\* before it sees the return.
ConfirmedMeansRouted == result = "ok" => routed

\* publish closes the connection it shares with the consumers only when its
\* context was over on that very connection, never by returning.
ConnectionSpared ==
  [][conn.open /\ ~conn'.open => faults' < faults \/ conn.gen \in slow]_vars

\* publish returns even when the broker never answers: the calls that do not
\* look at the context, channel.Close among them, end with the connection.
PublicationEnds == pc # "idle" ~> pc = "idle"
=============================================================================
