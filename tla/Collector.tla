---------------------------- MODULE Collector ----------------------------
(***************************************************************************)
(* The outbox collector (internal/observability/metrics.go) and the        *)
(* statistics it reads (repo.Stats): several statements, each on a later   *)
(* state of a table that changes meanwhile, then two gauge vectors that    *)
(* are reset and set label by label while Prometheus may scrape them.      *)
(***************************************************************************)
EXTENDS Integers, FiniteSets

CONSTANTS
  Msg,         \* rows that may come to be
  Channel,
  SendAt,      \* SendAt[m]: the time its submitter wants
  MaxClock,    \* bound: the present
  MaxAttempts, \* bound: attempts of a row
  MaxFaults    \* bound: statements that fail or time out

State == {"pending", "sending", "failed", "sent", "dead"}
Waiting == {"pending", "failed"}

ASSUME CollectorAssumption ==
  /\ IsFiniteSet(Msg) /\ Channel # {} /\ SendAt \in [Msg -> Nat]
  /\ MaxClock \in Nat /\ MaxAttempts \in Nat /\ MaxFaults \in Nat

VARIABLES
  channel,  \* channel[m]: the channel of row m
  row,      \* row[m]: state, eligible_at and attempts, or NoRow
  clock,    \* the present
  pc,       \* of refreshOutbox and Stats
  stats,    \* what Stats has read: counts and oldest, sets of labelled values
  todo,     \* the channels whose oldest row is still to be read
  counts,   \* the gauges of outboxMessages
  ages,     \* the gauges of outboxOldestPendingAge
  success,  \* the gauge collector_success
  faults,
  published, \* history: what the last good refresh wrote, up to the next reset
  steady,   \* history: rows that have waited since the refresh began
  seen      \* history: what was waiting at some moment of the refresh

vars == <<channel, row, clock, pc, stats, todo, counts, ages, success, faults,
          published, steady, seen>>

Table == <<channel, row, clock>>
Gauges == <<counts, ages, success>>
History == <<published, steady, seen>>

NoRow == [state |-> "none", eligible |-> 0, attempts |-> 0]
IsWaiting(m) == row[m].state \in Waiting
WaitingRows == {m \in Msg : IsWaiting(m)}
NoStats == [counts |-> {}, oldest |-> {}]

\* A labelled value is a pair, a gauge vector a set of them.
Labels(vector) == {g[1] : g \in vector}

Init ==
  /\ channel \in [Msg -> Channel]
  /\ row = [m \in Msg |-> NoRow] /\ clock = 0
  /\ pc = "idle" /\ stats = NoStats /\ todo = {}
  /\ counts = {} /\ ages = {} /\ success = 0
  /\ faults = MaxFaults
  /\ published = [counts |-> {}, ages |-> {}]
  /\ steady = {} /\ seen = {}

-----------------------------------------------------------------------------
(* The table changes: Create, Claim, Finish; time passes. *)

Becomes(m, r) ==
  /\ row' = [row EXCEPT ![m] = r]
  /\ steady' = steady \ {n \in Msg : row'[n].state \notin Waiting}
  /\ seen' = IF pc = "idle" THEN {} ELSE seen \cup {n \in Msg : row'[n].state \in Waiting}
  /\ UNCHANGED <<channel, clock, pc, stats, todo, Gauges, faults, published>>

Create(m) ==
  /\ row[m] = NoRow
  /\ Becomes(m, [state |-> "pending", attempts |-> 0,
                 eligible |-> IF SendAt[m] > clock THEN SendAt[m] ELSE clock])

Claim(m) ==
  /\ IsWaiting(m) /\ row[m].eligible <= clock /\ row[m].attempts < MaxAttempts
  /\ Becomes(m, [row[m] EXCEPT !.state = "sending", !.attempts = @ + 1])

Finish(m) ==
  /\ row[m].state = "sending"
  /\ \E s \in {"sent", "failed", "dead"} : Becomes(m, [row[m] EXCEPT !.state = s])

Tick ==
  /\ clock < MaxClock /\ clock' = clock + 1
  /\ UNCHANGED <<channel, row, pc, stats, todo, Gauges, faults, History>>

-----------------------------------------------------------------------------
(* Stats. *)

\* The ticker, or the start of the collector.
Refresh ==
  /\ pc = "idle" /\ pc' = "counts"
  /\ steady' = WaitingRows /\ seen' = WaitingRows
  /\ UNCHANGED <<Table, stats, todo, Gauges, faults, published>>

\* SELECT channel, state, COUNT( * ) ... GROUP BY channel, state.
CountRows ==
  /\ pc = "counts" /\ pc' = "channels"
  /\ LET Of(ch, s) == {m \in Msg : channel[m] = ch /\ row[m].state = s}
     IN  stats' = [stats EXCEPT !.counts =
                    {<<l, Cardinality(Of(l[1], l[2]))>> :
                       l \in {k \in Channel \X State : Of(k[1], k[2]) # {}}}]
  /\ UNCHANGED <<Table, todo, Gauges, faults, History>>

\* Variant: rows that wait for a retry are not looked for.
PendingOnly == {channel[m] : m \in {n \in Msg : row[n].state = "pending"}}

\* SELECT DISTINCT channel ... WHERE state IN (pending, failed).
PendingChannels == {channel[m] : m \in WaitingRows}

ListChannels ==
  /\ pc = "channels" /\ pc' = "oldest"
  /\ todo' = PendingChannels
  /\ UNCHANGED <<Table, stats, Gauges, faults, History>>

WaitingOn(ch) == {m \in WaitingRows : channel[m] = ch}

\* ORDER BY eligible_at ASC.
IsOldest(m) == \A n \in WaitingOn(channel[m]) : row[m].eligible <= row[n].eligible

ReadOldest ==
  /\ pc = "oldest"
  /\ \E ch \in todo, m \in Msg :
       /\ m \in WaitingOn(ch) /\ IsOldest(m)
       /\ todo' = todo \ {ch}
       /\ stats' = [stats EXCEPT !.oldest = @ \cup {<<ch, row[m].eligible>>}]
  /\ UNCHANGED <<Table, pc, Gauges, faults, History>>

-----------------------------------------------------------------------------
(* refreshOutbox. *)

\* The refresh is over, with its variables.
Forget == stats' = NoStats /\ todo' = {} /\ steady' = {} /\ seen' = {}

\* Only success is set: the values stay.
Failing ==
  /\ success' = 0 /\ Forget
  /\ UNCHANGED <<Table, counts, ages, published>>

\* A statement fails, or the two seconds of the refresh are over.
StatsFail ==
  /\ pc \in {"counts", "channels", "oldest"}
  /\ faults > 0 /\ faults' = faults - 1 /\ pc' = "idle"
  /\ Failing

\* First finds no waiting row: the channel was emptied after it was listed.
ChannelEmptied ==
  /\ pc = "oldest" /\ \E ch \in todo : WaitingOn(ch) = {}
  /\ pc' = "idle" /\ UNCHANGED faults /\ Failing

\* Stats has returned.
ResetCounts ==
  /\ pc = "oldest" /\ todo = {} /\ pc' = "reset"
  /\ counts' = {} /\ published' = [published EXCEPT !.counts = {}]
  /\ UNCHANGED <<Table, stats, todo, ages, success, faults, steady, seen>>

ResetAges ==
  /\ pc = "reset" /\ pc' = "set"
  /\ ages' = {} /\ published' = [published EXCEPT !.ages = {}]
  /\ UNCHANGED <<Table, stats, todo, counts, success, faults, steady, seen>>

\* WithLabelValues: a gauge that is new shows 0 until its Set.
WithLabel(vector, label) == vector \cup {<<label, 0>>}

Set(vector, label, value) == {g \in vector : g[1] # label} \cup {<<label, value>>}

LabelCount ==
  /\ pc = "set" /\ counts \subseteq stats.counts
  /\ \E g \in stats.counts \ counts : counts' = WithLabel(counts, g[1])
  /\ UNCHANGED <<Table, pc, stats, todo, ages, success, faults, History>>

SetCount ==
  /\ pc = "set"
  /\ \E g \in stats.counts : <<g[1], 0>> \in counts /\ counts' = Set(counts, g[1], g[2])
  /\ UNCHANGED <<Table, pc, stats, todo, ages, success, faults, History>>

\* time.Now: the ages are those of one moment.
ReadClock ==
  /\ pc = "set" /\ stats.counts \subseteq counts /\ pc' = "ages"
  /\ todo' = {<<o[1], clock - o[2]>> : o \in stats.oldest}
  /\ UNCHANGED <<Table, stats, Gauges, faults, History>>

\* Variant: a row scheduled for later has a negative age.
SignedAge(difference) == difference

Age(difference) == IF difference < 0 THEN 0 ELSE difference

LabelAge ==
  /\ pc = "ages" /\ Labels(todo) \cap Labels(ages) = {}
  /\ \E g \in todo : ages' = WithLabel(ages, g[1])
  /\ UNCHANGED <<Table, pc, stats, todo, counts, success, faults, History>>

SetAge ==
  /\ pc = "ages"
  /\ \E g \in todo : /\ g[1] \in Labels(ages) /\ todo' = todo \ {g}
                     /\ ages' = Set(ages, g[1], Age(g[2]))
  /\ UNCHANGED <<Table, pc, stats, counts, success, faults, History>>

\* Variant: the gauge of the collector is left as the last failure set it.
RefreshedQuietly ==
  /\ pc = "ages" /\ todo = {} /\ pc' = "idle" /\ Forget
  /\ published' = [counts |-> stats.counts, ages |-> ages]
  /\ UNCHANGED <<Table, Gauges, faults>>

Refreshed ==
  /\ pc = "ages" /\ todo = {} /\ pc' = "idle" /\ Forget
  /\ success' = 1
  /\ published' = [counts |-> stats.counts, ages |-> ages]
  /\ UNCHANGED <<Table, counts, ages, faults>>

\* app.Shutdown cancels the context: a statement of Stats fails at once, and the
\* loop ends when no refresh is on.
Stop ==
  /\ pc' = "stopped" /\ UNCHANGED faults
  /\ \/ pc = "idle" /\ UNCHANGED <<Table, stats, todo, Gauges, History>>
     \/ pc \in {"counts", "channels", "oldest"} /\ Failing

CollectorStep ==
  \/ Refresh \/ CountRows \/ ListChannels \/ ReadOldest \/ ChannelEmptied
  \/ ResetCounts \/ ResetAges \/ LabelCount \/ SetCount
  \/ ReadClock \/ LabelAge \/ SetAge \/ Refreshed

Next ==
  \/ \E m \in Msg : Create(m) \/ Claim(m) \/ Finish(m)
  \/ Tick \/ Stop \/ CollectorStep \/ StatsFail

\* The collector's goroutine runs and its statements end.
Fairness == WF_vars(CollectorStep)
Spec == Init /\ [][Next]_vars /\ Fairness

-----------------------------------------------------------------------------
\* Types; no gauge has two values, none is negative.
TypeOK ==
  /\ channel \in [Msg -> Channel]
  /\ \A m \in Msg : row[m].state \in State \cup {"none"}
  /\ clock \in 0 .. MaxClock /\ faults \in 0 .. MaxFaults
  /\ pc \in {"idle", "counts", "channels", "oldest", "reset", "set", "ages", "stopped"}
  /\ success \in {0, 1}
  /\ \A g \in counts : g[1] \in Channel \X State /\ g[2] \in 0 .. Cardinality(Msg)
  /\ \A g \in ages : g[1] \in Channel /\ g[2] \in 0 .. MaxClock
  /\ Cardinality(Labels(counts)) = Cardinality(counts)
  /\ Cardinality(Labels(ages)) = Cardinality(ages)

\* No refresh is about to write the gauges.
Shown == pc \notin {"reset", "set", "ages"}

\* docs/observability.md: after a refresh that fails the last successful values
\* remain, and after one that succeeds nothing of an older one does.
LastGoodRemains ==
  Shown => counts = published.counts /\ ages = published.ages

\* What a scrape may see of new values: some of them, and besides one 0 at most,
\* in the place of another.
PartOf(vector, new) ==
  \/ vector \subseteq new
  \/ \E l \in Labels(new) : vector \subseteq WithLabel({g \in new : g[1] # l}, l)

\* The ages of the rows that were found oldest, at time t.
AgesAt(t) == {<<o[1], Age(t - o[2])>> : o \in stats.oldest}

\* A scrape never combines values of two refreshes in one vector, whenever it
\* comes: it sees the last statistics or a part of the new ones, with no more than
\* one gauge still at 0, and new ages are those of one moment.
NeverMixed ==
  /\ counts = published.counts \/ PartOf(counts, stats.counts)
  /\ ages = published.ages \/ \E t \in 0 .. clock : PartOf(ages, AgesAt(t))

\* No waiting row hides behind the several statements: one that waited from
\* the beginning of a refresh to its end is counted, and its channel's age is
\* no less than its own.
BacklogShown ==
  pc = "ages" /\ todo = {} =>
    \A m \in steady :
      /\ <<channel[m], row[m].state>> \in Labels(counts)
      /\ \E o \in stats.oldest : o[1] = channel[m] /\ o[2] <= row[m].eligible

\* An age is that of a row that did wait during the refresh.
AgesAreReal ==
  pc = "ages" => \A o \in stats.oldest :
    \E m \in seen : channel[m] = o[1] /\ row[m].eligible = o[2]

Actual ==
  {<<l, Cardinality({m \in Msg : channel[m] = l[1] /\ row[m].state = l[2]})>> :
     l \in {<<channel[m], row[m].state>> : m \in {n \in Msg : row[n] # NoRow}}}

\* When the table comes to rest, the gauges come to show it, unless the collector
\* is told to end.
GaugesCatchUp ==
  <>[](\/ pc = "stopped"
       \/ success = 1 /\ (Shown => counts = Actual /\ Labels(ages) = PendingChannels))
=============================================================================
