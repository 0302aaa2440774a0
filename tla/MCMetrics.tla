----------------------------- MODULE MCMetrics -----------------------------
(***************************************************************************)
(* Instances of the two models of the metrics: the gauges that are made    *)
(* from the table (Collector) and the counters that are to agree with it   *)
(* (Counters).  Each has a table of its own, and the code has no step      *)
(* between the two: in each behaviour one of them is alive, from any of    *)
(* its initial states, and the other is over.                              *)
(***************************************************************************)
EXTENDS Collector

CONSTANTS Worker, Message, NoTime, MaxRetries, MaxAge, Lease, MaxTime, MaxLost
VARIABLES table, hand, attempts, results, dead, now, lost

Count == INSTANCE Counters WITH row <- table, faults <- lost, MaxFaults <- MaxLost

ASSUME CountersAssumption == Count!CountersAssumption

countVars == <<table, hand, attempts, results, dead, now, lost>>

\* One row wants to be sent at once, the other later.
Later == [m \in {"m1", "m2"} |-> IF m = "m2" THEN 1 ELSE 0]

\* Of the four ways to give two rows two channels, two are the others renamed.
OneOrTwoChannels == channel["m1"] = "sms"

-----------------------------------------------------------------------------
\* The collector has stopped before it saw the rows, which are sent.
CollectorOver ==
  /\ channel = [m \in Msg |-> CHOOSE ch \in Channel : TRUE]
  /\ row = [m \in Msg |-> [state |-> "sent", eligible |-> SendAt[m], attempts |-> 1]]
  /\ clock = MaxClock
  /\ pc = "stopped" /\ stats = NoStats /\ todo = {}
  /\ counts = {} /\ ages = {} /\ success = 0 /\ faults = 0
  /\ published = [counts |-> {}, ages |-> {}] /\ steady = {} /\ seen = {}

\* Every message was sent with its first attempt.
CountingOver ==
  /\ table = [m \in Message |-> Count!Completed(Count!Succeeded(
                Count!Leased(Count!SubmittedRow(MaxRetries, 0, 0, MaxAge), 0, Lease, 1)))]
  /\ hand = [w \in Worker |-> Count!Nothing]
  /\ attempts = Cardinality(Message)
  /\ results = [o \in Count!Outcomes |-> IF o = "sent" THEN Cardinality(Message) ELSE 0]
  /\ dead = 0 /\ now = MaxTime /\ lost = 0

MetricsInit ==
  \/ Init /\ OneOrTwoChannels /\ CountingOver
  \/ CollectorOver /\ Count!Init

MetricsNext ==
  \/ Next /\ UNCHANGED countVars
  \/ Count!Next /\ UNCHANGED vars

MetricsSpec == MetricsInit /\ [][MetricsNext]_<<vars, countVars>> /\ Fairness

-----------------------------------------------------------------------------
\* The types of the two; no gauge has two values or a negative one.
MetricsTypeOK == TypeOK /\ Count!TypeOK

\* What a scrape sees of the outbox (refreshOutbox, Stats) is true of one refresh:
\* the last good one until the next succeeds, never a mixture; a row that waits all
\* through it is not hidden by the statements that come one after the other, and
\* every age is that of a row that waited.
GaugesTrue == LastGoodRemains /\ NeverMixed /\ BacklogShown /\ AgesAreReal

\* The counters (observeDeliveryAttempt, observeDeliveryResult) say what happened to
\* the rows: nothing is counted sent or dead that is not, or twice, and every attempt
\* that has no result is under way or was lost.
CountsTrue == Count!CountsAreTrue /\ Count!AttemptsAccounted
=============================================================================
