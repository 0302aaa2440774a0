--------------------------- MODULE MetricsProofs ---------------------------
(***************************************************************************)
(* Proofs about the metrics: the gauges of the collector, for any rows,    *)
(* channels and bounds, and the counters of the delivery, for any messages *)
(* and workers.                                                            *)
(***************************************************************************)
EXTENDS MCMetrics, FiniteSetTheorems, TLAPS

-----------------------------------------------------------------------------
(* The collector: the inductive invariant. *)

Stages == {"idle", "counts", "channels", "oldest", "reset", "set", "ages", "stopped"}
Refreshing == pc \notin {"idle", "stopped"}

RowRecord == [state : State \cup {"none"}, eligible : Nat, attempts : Nat]

\* A gauge may show 0 for a moment, a label that was counted has a row at least.
CountGauge == (Channel \X State) \X (0 .. Cardinality(Msg))
CountRead == (Channel \X State) \X (1 .. Cardinality(Msg))
AgeGauge == Channel \X (0 .. MaxClock)

Statistics == [counts : SUBSET CountRead, oldest : SUBSET (Channel \X Nat)]

\* No label has two values.
Functional(vector) == \A g, h \in vector : g[1] = h[1] => g = h

TableTypes ==
  /\ channel \in [Msg -> Channel] /\ row \in [Msg -> RowRecord]
  /\ clock \in 0 .. MaxClock /\ faults \in 0 .. MaxFaults
  /\ pc \in Stages /\ success \in {0, 1}

GaugeTypes ==
  /\ counts \subseteq CountGauge /\ Functional(counts) /\ IsFiniteSet(counts)
  /\ ages \subseteq AgeGauge /\ Functional(ages) /\ IsFiniteSet(ages)

StatsTypes ==
  /\ stats \in Statistics /\ Functional(stats.counts) /\ IsFiniteSet(stats.counts)
  /\ pc \notin {"oldest", "reset", "set", "ages"} => stats.oldest = {}
  /\ pc = "ages" =>
       \A g \in todo : /\ g \in Channel \X Int /\ g[2] <= MaxClock
                       /\ g[1] \in Labels(stats.oldest)

\* The counts are of the new statistics, but for one gauge that waits for its Set.
CountsWritten ==
  \A g, h \in counts \ stats.counts :
    g = h /\ g = <<g[1], 0>> /\ g[1] \in Labels(stats.counts)

\* The ages are those of time t, but for one that is still to be set.
AgesWritten(t) ==
  /\ \A g \in todo : \E o \in stats.oldest : g = <<o[1], t - o[2]>>
  /\ \A g \in ages \ AgesAt(t) : g = <<g[1], 0>> /\ g[1] \in Labels(todo)
  /\ \A l, m \in Labels(todo) \cap Labels(ages) : l = m

\* Where the gauges come from at each stage of a refresh.
Written ==
  /\ published = [counts |-> published.counts, ages |-> published.ages]
  /\ LastGoodRemains
  /\ pc = "reset" => counts = {} /\ ages = published.ages
  /\ pc = "set" => CountsWritten /\ ages = {}
  /\ pc = "ages" => counts = stats.counts /\ \E t \in 0 .. clock : AgesWritten(t)

\* A row's channel has been read with a row that is no younger.
Covered(m) == \E o \in stats.oldest : o[1] = channel[m] /\ o[2] <= row[m].eligible

\* The rows that wait through the refresh are in the statistics, or are to be.
Backlog ==
  /\ steady \subseteq WaitingRows
  /\ pc \in {"channels", "oldest", "reset", "set", "ages"} =>
       \A m \in steady : <<channel[m], row[m].state>> \in Labels(stats.counts)
  /\ pc \in {"oldest", "reset", "set", "ages"} =>
       \A m \in steady : Covered(m) \/ (pc = "oldest" /\ channel[m] \in todo)

\* Whatever waits during the refresh is seen, and the ages are of such rows.
Witnessed ==
  /\ seen \subseteq {m \in Msg : row[m].state # "none"}
  /\ Refreshing => WaitingRows \subseteq seen
  /\ \A o \in stats.oldest : \E m \in seen : channel[m] = o[1] /\ row[m].eligible = o[2]

CollectorInv ==
  TableTypes /\ GaugeTypes /\ StatsTypes /\ Written /\ Backlog /\ Witnessed

\* The rows are finitely many, and so are those behind a label.
LEMMA Few ==
  /\ IsFiniteSet(Msg) /\ Cardinality(Msg) \in Nat
  /\ \A S \in SUBSET Msg :
       S # {} => IsFiniteSet(S) /\ Cardinality(S) \in 1 .. Cardinality(Msg)
<1>1. IsFiniteSet(Msg) /\ Cardinality(Msg) \in Nat
  BY CollectorAssumption, FS_CardinalityType
<1>2. ASSUME NEW S \in SUBSET Msg, S # {}
      PROVE  IsFiniteSet(S) /\ Cardinality(S) \in 1 .. Cardinality(Msg)
  <2>1. IsFiniteSet(S) /\ Cardinality(S) <= Cardinality(Msg)
    BY <1>1, FS_Subset
  <2>2. Cardinality(S) \in Nat /\ Cardinality(S) # 0
    BY <1>2, <2>1, FS_CardinalityType, FS_EmptySet
  <2> QED  BY <1>1, <2>1, <2>2
<1> QED  BY <1>1, <1>2

\* A vector without double labels has as many labels as values.
LEMMA LabelsCounted ==
  ASSUME NEW vector, Functional(vector), IsFiniteSet(vector)
  PROVE  Cardinality(Labels(vector)) = Cardinality(vector)
<1> DEFINE f == [g \in vector |-> g[1]]
<1>1. f \in Injection(vector, Labels(vector))
  BY DEF Functional, Labels, Injection, IsInjective
<1>2. f \in Surjection(vector, Labels(vector))
  BY DEF Labels, Surjection
<1>3. ExistsBijection(vector, Labels(vector))
  BY <1>1, <1>2 DEF ExistsBijection, Bijection
<1> QED  BY <1>3, FS_Bijection

\* A vector keeps its labels apart when it loses values or gets one for a label.
LEMMA SetFacts ==
  ASSUME NEW vector, Functional(vector), IsFiniteSet(vector), NEW label, NEW value
  PROVE  /\ Functional(Set(vector, label, value)) /\ IsFiniteSet(Set(vector, label, value))
         /\ Labels(Set(vector, label, value)) \subseteq Labels(vector) \cup {label}
<1> DEFINE rest == {g \in vector : g[1] # label}
<1>1. IsFiniteSet(rest)
  BY FS_Subset
<1>2. IsFiniteSet(rest \cup {<<label, value>>})
  BY <1>1, FS_AddElement
<1>3. Set(vector, label, value) = rest \cup {<<label, value>>}
  BY DEF Set
<1>4. Functional(rest \cup {<<label, value>>})
  <2> SUFFICES ASSUME NEW g \in rest \cup {<<label, value>>},
                      NEW h \in rest \cup {<<label, value>>}, g[1] = h[1]
               PROVE  g = h
    BY DEF Functional
  <2>1. CASE g \in rest /\ h \in rest
    BY <2>1 DEF Functional
  <2>2. CASE g = <<label, value>>
    BY <2>2
  <2>3. CASE h = <<label, value>>
    BY <2>3
  <2> QED  BY <2>1, <2>2, <2>3
<1>5. Labels(rest \cup {<<label, value>>}) \subseteq Labels(vector) \cup {label}
  BY DEF Labels
<1> QED  BY <1>2, <1>3, <1>4, <1>5

\* The same for a label that a vector does not have yet.
LEMMA LabelFacts ==
  ASSUME NEW vector, Functional(vector), IsFiniteSet(vector), NEW label, label \notin Labels(vector)
  PROVE  Functional(WithLabel(vector, label)) /\ IsFiniteSet(WithLabel(vector, label))
<1>1. Set(vector, label, 0) = WithLabel(vector, label)
  BY DEF Set, WithLabel, Labels
<1> QED  BY <1>1, SetFacts

\* What has been written so far stays so while the gauges and the statistics do, also
\* when time passes.
LEMMA WrittenKept ==
  ASSUME Written, UNCHANGED <<pc, stats, todo, counts, ages, published>>,
         clock \in Nat, clock' \in Nat, clock <= clock'
  PROVE  Written'
<1>1. CountsWritten' = CountsWritten /\ LastGoodRemains' = LastGoodRemains
  BY DEF CountsWritten, Labels, LastGoodRemains, Shown
<1>2. \A t : AgesWritten(t)' = AgesWritten(t)
  BY DEF AgesWritten, AgesAt, Labels
<1>3. 0 .. clock \subseteq 0 .. clock'
  OBVIOUS
<1> QED  BY <1>1, <1>2, <1>3 DEF Written

-----------------------------------------------------------------------------
(* The table changes. *)

\* A row that comes to be, is claimed or is finished: what waits on no longer
\* changes, and what has been seen keeps its time.
LEMMA RowChanges ==
  ASSUME CollectorInv, NEW m \in Msg, NEW r \in RowRecord, Becomes(m, r),
         r.state # "none", row[m].state # "none" => r.eligible = row[m].eligible,
         IsWaiting(m) => r.state \notin Waiting
  PROVE  CollectorInv'
<1>0. /\ UNCHANGED <<channel, clock, pc, stats, todo, counts, ages, success, faults, published>>
      /\ row' = [row EXCEPT ![m] = r]
      /\ steady' = steady \ {n \in Msg : row'[n].state \notin Waiting}
      /\ seen' = IF pc = "idle" THEN {}
                 ELSE seen \cup {n \in Msg : row'[n].state \in Waiting}
  BY DEF Becomes, Gauges
<1>1. row \in [Msg -> RowRecord] /\ row' \in [Msg -> RowRecord]
  BY <1>0 DEF CollectorInv, TableTypes
<1>2. row'[m] = r /\ \A n \in Msg \ {m} : row'[n] = row[n]
  BY <1>0, <1>1
<1>3. TableTypes'
  BY <1>0, <1>1 DEF CollectorInv, TableTypes
<1>4. GaugeTypes'
  BY <1>0 DEF CollectorInv, GaugeTypes, Functional
<1>5. StatsTypes'
  BY <1>0 DEF CollectorInv, StatsTypes, Functional, Labels
<1>6. Written'
  <2>1. clock \in Nat
    BY CollectorAssumption DEF CollectorInv, TableTypes
  <2> QED  BY <1>0, <2>1, WrittenKept DEF CollectorInv
<1>7. \A n \in steady' : n \in steady /\ n \in Msg /\ row'[n] = row[n]
                         /\ row'[n].state \in Waiting
  <2> TAKE n \in steady'
  <2>1. n \in steady /\ n \in Msg /\ row[n].state \in Waiting
    BY <1>0 DEF CollectorInv, Backlog, WaitingRows, IsWaiting
  <2>2. row'[n].state \in Waiting
    BY <1>0, <2>1
  <2>3. n # m
    BY <2>1, <2>2, <1>2 DEF IsWaiting
  <2> QED  BY <1>2, <2>1, <2>2, <2>3
<1>8. Backlog'
  <2>1. (steady \subseteq WaitingRows)'
    BY <1>7 DEF WaitingRows, IsWaiting
  <2>2. pc \in {"channels", "oldest", "reset", "set", "ages"} =>
          \A n \in steady' : <<channel[n], row'[n].state>> \in Labels(stats.counts)
    BY <1>7 DEF CollectorInv, Backlog
  <2>3. pc \in {"oldest", "reset", "set", "ages"} =>
          \A n \in steady' :
            \/ \E o \in stats.oldest : o[1] = channel[n] /\ o[2] <= row'[n].eligible
            \/ pc = "oldest" /\ channel[n] \in todo
    BY <1>7 DEF CollectorInv, Backlog, Covered
  <2> QED  BY <2>1, <2>2, <2>3, <1>0 DEF Backlog, Covered, Labels
<1>9. Witnessed'
  <2>1. \A n \in seen : n \in Msg /\ row[n].state # "none"
    BY DEF CollectorInv, Witnessed
  <2>2. \A n \in seen : row'[n].state # "none" /\ row'[n].eligible = row[n].eligible
    BY <2>1, <1>2
  <2>3. CASE pc = "idle"
    <3>1. stats.oldest = {}
      BY <2>3 DEF CollectorInv, StatsTypes
    <3> QED  BY <1>0, <2>3, <3>1 DEF Witnessed, Refreshing
  <2>4. CASE pc # "idle"
    <3>1. seen' = seen \cup {n \in Msg : row'[n].state \in Waiting}
      BY <1>0, <2>4
    <3>2. (seen \subseteq {n \in Msg : row[n].state # "none"})'
      BY <3>1, <2>1, <2>2 DEF Waiting
    <3>3. (WaitingRows \subseteq seen)'
      BY <3>1 DEF WaitingRows, IsWaiting
    <3>4. \A o \in stats.oldest : \E n \in seen' : channel[n] = o[1] /\ row'[n].eligible = o[2]
      BY <3>1, <2>2 DEF CollectorInv, Witnessed
    <3> QED  BY <1>0, <3>2, <3>3, <3>4 DEF Witnessed
  <2> QED  BY <2>3, <2>4
<1> QED  BY <1>3, <1>4, <1>5, <1>6, <1>8, <1>9 DEF CollectorInv

\* Create, Claim, Finish.
LEMMA RowSteps ==
  ASSUME CollectorInv, NEW m \in Msg, Create(m) \/ Claim(m) \/ Finish(m)
  PROVE  CollectorInv'
<1>0. row[m] \in RowRecord /\ clock \in Nat /\ SendAt[m] \in Nat
  BY CollectorAssumption DEF CollectorInv, TableTypes
<1>1. CASE Create(m)
  <2> DEFINE r == [state |-> "pending", attempts |-> 0,
                   eligible |-> IF SendAt[m] > clock THEN SendAt[m] ELSE clock]
  <2>1. Becomes(m, r) /\ row[m] = NoRow
    BY <1>1 DEF Create
  <2>2. r \in RowRecord /\ r.state # "none"
    BY <1>0 DEF RowRecord, State
  <2>3. row[m].state = "none"
    BY <2>1 DEF NoRow
  <2> HIDE DEF r
  <2> QED  BY <2>1, <2>2, <2>3, RowChanges DEF IsWaiting, Waiting
<1>2. CASE Claim(m)
  <2> DEFINE r == [row[m] EXCEPT !.state = "sending", !.attempts = @ + 1]
  <2>1. Becomes(m, r)
    BY <1>2 DEF Claim
  <2>2. r.state = "sending" /\ r.eligible = row[m].eligible
    BY <1>0 DEF RowRecord
  <2>3. r \in RowRecord
    <3>1. "sending" \in State \cup {"none"}
      BY DEF State
    <3>2. row[m].attempts + 1 \in Nat
      BY <1>0 DEF RowRecord
    <3> QED  BY <1>0, <3>1, <3>2 DEF RowRecord
  <2> HIDE DEF r
  <2> QED  BY <2>1, <2>2, <2>3, RowChanges DEF Waiting
<1>3. CASE Finish(m)
  <2>1. PICK s \in {"sent", "failed", "dead"} : Becomes(m, [row[m] EXCEPT !.state = s])
    BY <1>3 DEF Finish
  <2> DEFINE r == [row[m] EXCEPT !.state = s]
  <2>2. r.state = s /\ r.eligible = row[m].eligible
    BY <1>0 DEF RowRecord
  <2>3. r \in RowRecord
    <3>1. s \in State \cup {"none"}
      BY DEF State
    <3> QED  BY <1>0, <3>1 DEF RowRecord
  <2>4. row[m].state = "sending"
    BY <1>3 DEF Finish
  <2> HIDE DEF r
  <2>5. Becomes(m, r)
    BY <2>1 DEF r
  <2> QED  BY <2>2, <2>3, <2>4, <2>5, RowChanges DEF IsWaiting, Waiting
<1> QED  BY <1>1, <1>2, <1>3

-----------------------------------------------------------------------------
(* The statements of Stats. *)

\* A step of the collector leaves the table alone.
LEMMA TableKept ==
  ASSUME CollectorInv, UNCHANGED Table, pc' \in Stages, success' \in {0, 1},
         faults' \in 0 .. MaxFaults
  PROVE  /\ TableTypes'
         /\ UNCHANGED <<channel, row, clock>> /\ WaitingRows' = WaitingRows
BY DEF CollectorInv, TableTypes, Table, WaitingRows, IsWaiting

\* The rows behind a label.
Of(l) == {m \in Msg : channel[m] = l[1] /\ row[m].state = l[2]}

Tally == {<<l, Cardinality(Of(l))>> : l \in {k \in Channel \X State : Of(k) # {}}}

\* What the first statement reads: a value for every label that a row has.
LEMMA TallyFacts ==
  ASSUME CollectorInv
  PROVE  /\ Tally \subseteq CountRead /\ Functional(Tally) /\ IsFiniteSet(Tally)
         /\ \A m \in WaitingRows : <<channel[m], row[m].state>> \in Labels(Tally)
<1>0. channel \in [Msg -> Channel] /\ row \in [Msg -> RowRecord]
  BY DEF CollectorInv, TableTypes
<1>1. Tally \subseteq CountRead
  <2> SUFFICES ASSUME NEW l \in Channel \X State, Of(l) # {}
               PROVE  Cardinality(Of(l)) \in 1 .. Cardinality(Msg)
    BY DEF Tally, CountRead
  <2>1. Of(l) \in SUBSET Msg
    BY DEF Of
  <2> QED  BY <2>1, Few
<1>2. Functional(Tally)
  BY DEF Functional, Tally
<1> DEFINE Listed == {m \in Msg : row[m].state \in State}
           label(m) == <<channel[m], row[m].state>>
<1>3. \A m \in Listed : label(m) \in Channel \X State /\ m \in Of(label(m))
  BY <1>0 DEF Of
<1>4. \A m \in Listed : <<label(m), Cardinality(Of(label(m)))>> \in Tally
  BY <1>3 DEF Tally
<1>5. IsFiniteSet(Tally)
  <2> DEFINE f == [m \in Listed |-> <<label(m), Cardinality(Of(label(m)))>>]
  <2>1. f \in [Listed -> Tally]
    BY <1>4
  <2>2. \A t \in Tally : \E m \in Listed : f[m] = t
    <3> TAKE t \in Tally
    <3>1. PICK l \in Channel \X State : Of(l) # {} /\ t = <<l, Cardinality(Of(l))>>
      BY DEF Tally
    <3>2. PICK m \in Of(l) : TRUE
      BY <3>1
    <3>3. m \in Listed /\ label(m) = l
      BY <3>2, <3>1 DEF Of
    <3> QED  BY <3>1, <3>3
  <2>3. f \in Surjection(Listed, Tally)
    BY <2>1, <2>2 DEF Surjection
  <2>4. IsFiniteSet(Listed)
    BY Few, FS_Subset
  <2> HIDE DEF f
  <2> QED  BY <2>3, <2>4, FS_Surjection
<1>6. \A m \in WaitingRows : <<channel[m], row[m].state>> \in Labels(Tally)
  <2> TAKE m \in WaitingRows
  <2>1. m \in Listed
    BY DEF WaitingRows, IsWaiting, Waiting, State
  <2>2. <<label(m), Cardinality(Of(label(m)))>> \in Tally
    BY <2>1, <1>4
  <2> QED  BY <2>2 DEF Labels
<1> QED  BY <1>1, <1>2, <1>5, <1>6

\* A refresh begins.
LEMMA RefreshStep == CollectorInv /\ Refresh => CollectorInv'
<1> SUFFICES ASSUME CollectorInv, Refresh PROVE CollectorInv'
  OBVIOUS
<1>0. /\ pc = "idle" /\ pc' = "counts" /\ UNCHANGED Table
      /\ steady' = WaitingRows /\ seen' = WaitingRows
      /\ UNCHANGED <<stats, todo, counts, ages, success, faults, published>>
  BY DEF Refresh, Gauges
<1>1. /\ TableTypes' /\ UNCHANGED <<channel, row, clock>> /\ WaitingRows' = WaitingRows
  <2>1. pc' \in Stages /\ success' \in {0, 1} /\ faults' \in 0 .. MaxFaults
    BY <1>0 DEF CollectorInv, TableTypes, Stages
  <2> QED  BY <1>0, <2>1, TableKept
<1>2. GaugeTypes'
  BY <1>0 DEF CollectorInv, GaugeTypes, Functional
<1>3. StatsTypes' /\ stats.oldest = {}
  BY <1>0 DEF CollectorInv, StatsTypes, Functional
<1>4. Written'
  BY <1>0 DEF CollectorInv, Written, LastGoodRemains, Shown
<1>5. Backlog'
  BY <1>0, <1>1 DEF Backlog
<1>6. Witnessed'
  <2>1. WaitingRows \subseteq {m \in Msg : row[m].state # "none"}
    BY DEF WaitingRows, IsWaiting, Waiting
  <2> QED  BY <1>0, <1>1, <1>3, <2>1 DEF Witnessed
<1> QED  BY <1>1, <1>2, <1>3, <1>4, <1>5, <1>6 DEF CollectorInv

\* The first statement: every row that waits is counted.
LEMMA CountStep == CollectorInv /\ CountRows => CollectorInv'
<1> SUFFICES ASSUME CollectorInv, CountRows PROVE CollectorInv'
  OBVIOUS
<1>0. /\ pc = "counts" /\ pc' = "channels" /\ UNCHANGED Table
      /\ UNCHANGED <<todo, counts, ages, success, faults, published, steady, seen>>
  BY DEF CountRows, Gauges, History
<1>1. /\ TableTypes' /\ UNCHANGED <<channel, row, clock>> /\ WaitingRows' = WaitingRows
  <2>1. pc' \in Stages /\ success' \in {0, 1} /\ faults' \in 0 .. MaxFaults
    BY <1>0 DEF CollectorInv, TableTypes, Stages
  <2> QED  BY <1>0, <2>1, TableKept
<1>2. stats' = [stats EXCEPT !.counts = Tally]
  BY DEF CountRows, Tally, Of
<1>3. stats'.counts = Tally /\ stats'.oldest = stats.oldest /\ stats.oldest = {}
      /\ stats' \in Statistics
  BY <1>0, <1>2, TallyFacts DEF CollectorInv, StatsTypes, Statistics
<1>4. GaugeTypes'
  BY <1>0 DEF CollectorInv, GaugeTypes, Functional
<1>5. StatsTypes'
  BY <1>0, <1>3, TallyFacts DEF StatsTypes, Functional
<1>6. Written'
  BY <1>0 DEF CollectorInv, Written, LastGoodRemains, Shown
<1>7. Backlog'
  <2>1. \A m \in steady : <<channel[m], row[m].state>> \in Labels(Tally)
    BY TallyFacts DEF CollectorInv, Backlog
  <2> QED  BY <1>0, <1>1, <1>3, <2>1 DEF CollectorInv, Backlog, Labels
<1>8. Witnessed'
  BY <1>0, <1>1, <1>3 DEF CollectorInv, Witnessed, Refreshing
<1> QED  BY <1>1, <1>4, <1>5, <1>6, <1>7, <1>8 DEF CollectorInv

\* The second: the channels of the rows that wait.
LEMMA ChannelsStep == CollectorInv /\ ListChannels => CollectorInv'
<1> SUFFICES ASSUME CollectorInv, ListChannels PROVE CollectorInv'
  OBVIOUS
<1>0. /\ pc = "channels" /\ pc' = "oldest" /\ UNCHANGED Table
      /\ todo' = PendingChannels
      /\ UNCHANGED <<stats, counts, ages, success, faults, published, steady, seen>>
  BY DEF ListChannels, Gauges, History
<1>1. /\ TableTypes' /\ UNCHANGED <<channel, row, clock>> /\ WaitingRows' = WaitingRows
  <2>1. pc' \in Stages /\ success' \in {0, 1} /\ faults' \in 0 .. MaxFaults
    BY <1>0 DEF CollectorInv, TableTypes, Stages
  <2> QED  BY <1>0, <2>1, TableKept
<1>2. GaugeTypes'
  BY <1>0 DEF CollectorInv, GaugeTypes, Functional
<1>3. StatsTypes' /\ stats.oldest = {}
  BY <1>0 DEF CollectorInv, StatsTypes, Functional
<1>4. Written'
  BY <1>0 DEF CollectorInv, Written, LastGoodRemains, Shown
<1>5. Backlog'
  <2>1. \A m \in steady : channel[m] \in todo'
    BY <1>0 DEF CollectorInv, Backlog, PendingChannels
  <2> QED  BY <1>0, <1>1, <2>1 DEF CollectorInv, Backlog
<1>6. Witnessed'
  BY <1>0, <1>1 DEF CollectorInv, Witnessed, Refreshing
<1> QED  BY <1>1, <1>2, <1>3, <1>4, <1>5, <1>6 DEF CollectorInv

\* One of the others: the oldest row of its channel is no younger than any that
\* waits on it.
LEMMA OldestStep == CollectorInv /\ ReadOldest => CollectorInv'
<1> SUFFICES ASSUME CollectorInv, ReadOldest PROVE CollectorInv'
  OBVIOUS
<1>0. /\ pc = "oldest" /\ UNCHANGED Table
      /\ UNCHANGED <<pc, counts, ages, success, faults, published, steady, seen>>
  BY DEF ReadOldest, Gauges, History
<1>1. /\ TableTypes' /\ UNCHANGED <<channel, row, clock>> /\ WaitingRows' = WaitingRows
  <2>1. pc' \in Stages /\ success' \in {0, 1} /\ faults' \in 0 .. MaxFaults
    BY <1>0 DEF CollectorInv, TableTypes, Stages
  <2> QED  BY <1>0, <2>1, TableKept
<1>2. PICK ch \in todo, m \in Msg :
        /\ m \in WaitingOn(ch) /\ IsOldest(m) /\ todo' = todo \ {ch}
        /\ stats' = [stats EXCEPT !.oldest = @ \cup {<<ch, row[m].eligible>>}]
  BY DEF ReadOldest
<1>3. m \in WaitingRows /\ channel[m] = ch /\ ch \in Channel /\ row[m].eligible \in Nat
  BY <1>2 DEF WaitingOn, CollectorInv, TableTypes, RowRecord
<1>4. /\ stats'.counts = stats.counts /\ stats' \in Statistics
      /\ stats'.oldest = stats.oldest \cup {<<ch, row[m].eligible>>}
  BY <1>2, <1>3 DEF CollectorInv, StatsTypes, Statistics
<1>5. GaugeTypes'
  BY <1>0 DEF CollectorInv, GaugeTypes, Functional
<1>6. StatsTypes'
  BY <1>0, <1>4 DEF CollectorInv, StatsTypes, Functional
<1>7. Written'
  BY <1>0 DEF CollectorInv, Written, LastGoodRemains, Shown
<1>8. Backlog'
  <2>1. \A n \in steady : n \in Msg /\ n \in WaitingRows
    BY DEF CollectorInv, Backlog, WaitingRows
  <2>2. \A n \in steady : \/ \E o \in stats'.oldest :
                               o[1] = channel[n] /\ o[2] <= row[n].eligible
                          \/ channel[n] \in todo'
    <3> TAKE n \in steady
    <3>1. CASE Covered(n)
      BY <3>1, <1>4 DEF Covered
    <3>2. CASE channel[n] \in todo /\ channel[n] # ch
      BY <3>2, <1>2
    <3>3. CASE channel[n] = ch
      <4>1. row[m].eligible <= row[n].eligible
        BY <2>1, <3>3, <1>2, <1>3 DEF IsOldest, WaitingOn
      <4>2. <<ch, row[m].eligible>> \in stats'.oldest
        BY <1>4
      <4> QED  BY <4>1, <4>2, <3>3
    <3> QED  BY <3>1, <3>2, <3>3, <1>0 DEF CollectorInv, Backlog
  <2>3. \A n \in steady : <<channel[n], row[n].state>> \in Labels(stats.counts)
    BY <1>0 DEF CollectorInv, Backlog
  <2> QED  BY <1>0, <1>1, <1>4, <2>2, <2>3 DEF CollectorInv, Backlog, Covered, Labels
<1>9. Witnessed'
  <2>1. m \in seen
    BY <1>0, <1>3 DEF CollectorInv, Witnessed, Refreshing
  <2>2. \A o \in stats'.oldest : \E n \in seen : channel[n] = o[1] /\ row[n].eligible = o[2]
    BY <2>1, <1>3, <1>4 DEF CollectorInv, Witnessed
  <2> QED  BY <1>0, <1>1, <2>2 DEF CollectorInv, Witnessed, Refreshing
<1> QED  BY <1>1, <1>5, <1>6, <1>7, <1>8, <1>9 DEF CollectorInv

-----------------------------------------------------------------------------
(* refreshOutbox. *)

\* A refresh is over, well or not, and its statistics are those of the gauges.
LEMMA RefreshEnds ==
  ASSUME CollectorInv, UNCHANGED Table, Forget, pc' \in {"idle", "stopped"},
         faults' \in 0 .. MaxFaults, success' \in {0, 1}, UNCHANGED <<counts, ages>>,
         published' = [counts |-> counts, ages |-> ages]
  PROVE  CollectorInv'
<1>0. /\ stats'.counts = {} /\ stats'.oldest = {} /\ stats' \in Statistics
      /\ steady' = {} /\ seen' = {}
  BY DEF Forget, NoStats, Statistics
<1>1. /\ TableTypes' /\ UNCHANGED <<channel, row, clock>> /\ WaitingRows' = WaitingRows
  <2>1. pc' \in Stages
    BY DEF Stages
  <2> QED  BY <2>1, TableKept
<1>2. GaugeTypes'
  BY DEF CollectorInv, GaugeTypes, Functional
<1>3. StatsTypes'
  BY <1>0, FS_EmptySet DEF StatsTypes, Functional
<1>4. Written'
  BY DEF Written, LastGoodRemains, Shown
<1>5. Backlog'
  BY <1>0 DEF Backlog
<1>6. Witnessed'
  BY <1>0 DEF Witnessed, Refreshing
<1> QED  BY <1>1, <1>2, <1>3, <1>4, <1>5, <1>6 DEF CollectorInv

\* A refresh that fails, is told to stop, or was not to be: the gauges stay.
LEMMA FailingSteps == CollectorInv /\ (StatsFail \/ ChannelEmptied \/ Stop) => CollectorInv'
<1> SUFFICES ASSUME CollectorInv, StatsFail \/ ChannelEmptied \/ Stop PROVE CollectorInv'
  OBVIOUS
<1>0. faults \in 0 .. MaxFaults /\ MaxFaults \in Nat
  BY CollectorAssumption DEF CollectorInv, TableTypes
<1>1. ASSUME Failing, pc \in {"counts", "channels", "oldest"}, pc' \in {"idle", "stopped"},
             faults' \in 0 .. MaxFaults
      PROVE  CollectorInv'
  <2>1. UNCHANGED Table /\ Forget /\ success' = 0 /\ UNCHANGED <<counts, ages, published>>
    BY <1>1 DEF Failing
  <2>2. published = [counts |-> counts, ages |-> ages]
    BY <1>1 DEF CollectorInv, Written, LastGoodRemains, Shown
  <2> QED  BY <1>1, <2>1, <2>2, RefreshEnds
<1>2. CASE StatsFail
  <2>1. faults' \in 0 .. MaxFaults
    BY <1>0, <1>2 DEF StatsFail
  <2> QED  BY <1>1, <1>2, <2>1 DEF StatsFail
<1>3. CASE ChannelEmptied
  BY <1>0, <1>1, <1>3 DEF ChannelEmptied
<1>4. CASE Stop
  <2>1. CASE pc = "idle" /\ UNCHANGED <<Table, stats, todo, Gauges, History>>
    <3>0. /\ pc' = "stopped" /\ UNCHANGED faults
          /\ UNCHANGED <<channel, row, clock, stats, todo, counts, ages, success>>
          /\ UNCHANGED <<published, steady, seen>>
      BY <1>4, <2>1 DEF Stop, Table, Gauges, History
    <3>1. TableTypes'
      BY <3>0 DEF CollectorInv, TableTypes, Stages
    <3>2. GaugeTypes'
      BY <3>0 DEF CollectorInv, GaugeTypes, Functional
    <3>3. StatsTypes'
      BY <3>0, <2>1 DEF CollectorInv, StatsTypes, Functional
    <3>4. Written'
      BY <3>0, <2>1 DEF CollectorInv, Written, LastGoodRemains, Shown
    <3>5. Backlog'
      BY <3>0, <2>1 DEF CollectorInv, Backlog, WaitingRows, IsWaiting
    <3>6. Witnessed'
      BY <3>0, <2>1 DEF CollectorInv, Witnessed, Refreshing
    <3> QED  BY <3>1, <3>2, <3>3, <3>4, <3>5, <3>6 DEF CollectorInv
  <2>2. CASE pc \in {"counts", "channels", "oldest"} /\ Failing
    BY <1>0, <1>1, <1>4, <2>2 DEF Stop
  <2> QED  BY <1>4, <2>1, <2>2 DEF Stop
<1> QED  BY <1>2, <1>3, <1>4

\* The refresh has written all: what it shows are its statistics.
LEMMA RefreshedStep == CollectorInv /\ Refreshed => CollectorInv'
<1> SUFFICES ASSUME CollectorInv, Refreshed PROVE CollectorInv'
  OBVIOUS
<1>1. /\ pc = "ages" /\ pc' = "idle" /\ Forget /\ UNCHANGED Table /\ success' = 1
      /\ UNCHANGED <<counts, ages, faults>>
      /\ published' = [counts |-> stats.counts, ages |-> ages]
  BY DEF Refreshed
<1>2. counts = stats.counts
  BY <1>1 DEF CollectorInv, Written
<1>3. faults' \in 0 .. MaxFaults
  BY <1>1 DEF CollectorInv, TableTypes
<1> QED  BY <1>1, <1>2, <1>3, RefreshEnds

\* The gauges are written: a step keeps what is known about the rows.
LEMMA WritingMoves ==
  ASSUME CollectorInv, UNCHANGED <<Table, stats, success, faults, steady, seen>>,
         pc \in {"oldest", "reset", "set", "ages"}, pc' \in {"reset", "set", "ages"},
         pc = "oldest" => todo = {},
         GaugeTypes', Written',
         pc' = "ages" => \A g \in todo' : /\ g \in Channel \X Int /\ g[2] <= MaxClock
                                          /\ g[1] \in Labels(stats.oldest)
  PROVE  CollectorInv'
<1>1. /\ TableTypes' /\ UNCHANGED <<channel, row, clock>> /\ WaitingRows' = WaitingRows
  <2>1. pc' \in Stages /\ success' \in {0, 1} /\ faults' \in 0 .. MaxFaults
    BY DEF CollectorInv, TableTypes, Stages
  <2> QED  BY <2>1, TableKept
<1>2. StatsTypes'
  BY DEF CollectorInv, StatsTypes, Functional, Labels
<1>3. Backlog'
  BY <1>1 DEF CollectorInv, Backlog, Covered
<1>4. Witnessed'
  BY <1>1 DEF CollectorInv, Witnessed, Refreshing
<1> QED  BY <1>1, <1>2, <1>3, <1>4 DEF CollectorInv

\* Both vectors are emptied, one after the other.
LEMMA ResetSteps == CollectorInv /\ (ResetCounts \/ ResetAges) => CollectorInv'
<1> SUFFICES ASSUME CollectorInv, ResetCounts \/ ResetAges PROVE CollectorInv'
  OBVIOUS
<1>0. published = [counts |-> published.counts, ages |-> published.ages]
  BY DEF CollectorInv, Written
<1>1. CASE ResetCounts
  <2>1. /\ pc = "oldest" /\ todo = {} /\ pc' = "reset" /\ counts' = {} /\ UNCHANGED ages
        /\ UNCHANGED <<Table, stats, success, faults, steady, seen>>
    BY <1>1 DEF ResetCounts
  <2>2. published' = [counts |-> {}, ages |-> published.ages]
    BY <1>0, <1>1 DEF ResetCounts
  <2>3. GaugeTypes'
    BY <2>1, FS_EmptySet DEF CollectorInv, GaugeTypes, Functional
  <2>4. ages = published.ages
    BY <2>1 DEF CollectorInv, Written, LastGoodRemains, Shown
  <2>5. Written'
    BY <2>1, <2>2, <2>4 DEF Written, LastGoodRemains, Shown
  <2> QED  BY <2>1, <2>3, <2>5, WritingMoves
<1>2. CASE ResetAges
  <2>1. /\ pc = "reset" /\ pc' = "set" /\ ages' = {} /\ UNCHANGED counts
        /\ UNCHANGED <<Table, stats, success, faults, steady, seen>>
    BY <1>2 DEF ResetAges
  <2>2. published' = [counts |-> published.counts, ages |-> {}]
    BY <1>0, <1>2 DEF ResetAges
  <2>3. GaugeTypes'
    BY <2>1, FS_EmptySet DEF CollectorInv, GaugeTypes, Functional
  <2>4. counts' = {}
    BY <2>1 DEF CollectorInv, Written
  <2>5. Written'
    BY <2>1, <2>2, <2>4 DEF Written, LastGoodRemains, Shown, CountsWritten
  <2> QED  BY <2>1, <2>3, <2>5, WritingMoves
<1> QED  BY <1>1, <1>2

\* What is known of the counts while they are set.
LEMMA SettingCounts ==
  ASSUME CollectorInv, pc = "set"
  PROVE  /\ CountsWritten /\ ages = {} /\ counts \subseteq CountGauge
         /\ Functional(counts) /\ IsFiniteSet(counts)
         /\ stats.counts \subseteq CountRead /\ Functional(stats.counts)
         /\ published = [counts |-> published.counts, ages |-> published.ages]
BY DEF CollectorInv, Written, GaugeTypes, StatsTypes, Statistics

\* A label of the counts is registered: it shows 0.
LEMMA LabelCountStep == CollectorInv /\ LabelCount => CollectorInv'
<1> SUFFICES ASSUME CollectorInv, LabelCount PROVE CollectorInv'
  OBVIOUS
<1>1. PICK g \in stats.counts \ counts : counts' = WithLabel(counts, g[1])
  BY DEF LabelCount
<1>2. /\ pc = "set" /\ pc' = "set" /\ counts \subseteq stats.counts /\ UNCHANGED ages
      /\ UNCHANGED <<Table, stats, success, faults, published, steady, seen>>
  BY DEF LabelCount, History
<1>3. g[1] \notin Labels(counts)
  BY <1>2, SettingCounts DEF Labels, Functional
<1>4. Functional(counts') /\ IsFiniteSet(counts')
  BY <1>1, <1>2, <1>3, SettingCounts, LabelFacts
<1>5. g[1] \in Channel \X State /\ g[1] \in Labels(stats.counts)
  BY <1>2, SettingCounts DEF CountRead, Labels
<1>6. <<g[1], 0>> \in CountGauge
  BY <1>5, Few DEF CountGauge
<1>7. GaugeTypes'
  BY <1>1, <1>2, <1>4, <1>6, SettingCounts
     DEF GaugeTypes, Functional, WithLabel, CollectorInv
<1>8. CountsWritten'
  BY <1>1, <1>2, <1>5 DEF CountsWritten, WithLabel, Labels
<1>9. Written'
  BY <1>2, <1>8, SettingCounts DEF Written, LastGoodRemains, Shown
<1> QED  BY <1>2, <1>7, <1>9, WritingMoves

\* The label gets its value: all that is shown is of the new statistics.
LEMMA SetCountStep == CollectorInv /\ SetCount => CollectorInv'
<1> SUFFICES ASSUME CollectorInv, SetCount PROVE CollectorInv'
  OBVIOUS
<1>1. PICK g \in stats.counts : <<g[1], 0>> \in counts /\ counts' = Set(counts, g[1], g[2])
  BY DEF SetCount
<1>2. /\ pc = "set" /\ pc' = "set" /\ UNCHANGED ages
      /\ UNCHANGED <<Table, stats, success, faults, published, steady, seen>>
  BY DEF SetCount, History
<1>3. /\ g = <<g[1], g[2]>> /\ <<g[1], 0>> \notin stats.counts /\ g \in CountGauge
  BY <1>2, SettingCounts, Few DEF CountRead, CountGauge
<1>4. \A h \in counts \ stats.counts : h = <<g[1], 0>>
  BY <1>1, <1>2, <1>3, SettingCounts DEF CountsWritten
<1>5. counts' \subseteq stats.counts /\ counts' \subseteq CountGauge
  BY <1>1, <1>2, <1>3, <1>4, SettingCounts DEF Set
<1>6. Functional(counts') /\ IsFiniteSet(counts')
  BY <1>1, <1>2, SettingCounts, SetFacts
<1>7. GaugeTypes'
  BY <1>2, <1>5, <1>6 DEF GaugeTypes, Functional, CollectorInv
<1>8. Written'
  BY <1>2, <1>5, SettingCounts DEF Written, LastGoodRemains, Shown, CountsWritten
<1> QED  BY <1>2, <1>7, <1>8, WritingMoves

\* The present is read, once for all ages.
LEMMA ClockStep == CollectorInv /\ ReadClock => CollectorInv'
<1> SUFFICES ASSUME CollectorInv, ReadClock PROVE CollectorInv'
  OBVIOUS
<1>1. /\ pc = "set" /\ stats.counts \subseteq counts /\ pc' = "ages"
      /\ todo' = {<<o[1], clock - o[2]>> : o \in stats.oldest}
      /\ UNCHANGED <<Table, stats, success, faults, steady, seen>>
      /\ UNCHANGED <<channel, row, clock, counts, ages, published>>
  BY DEF ReadClock, Gauges, History, Table
<1>2. counts = stats.counts
  <2> SUFFICES ASSUME NEW h \in counts \ stats.counts PROVE FALSE
    BY <1>1
  <2>1. PICK k \in stats.counts : k[1] = h[1]
    BY <1>1, SettingCounts DEF CountsWritten, Labels
  <2> QED  BY <1>1, <2>1, SettingCounts DEF Functional
<1>3. GaugeTypes'
  BY <1>1 DEF CollectorInv, GaugeTypes, Functional
<1>4. clock \in Nat /\ clock \in 0 .. clock
  BY CollectorAssumption DEF CollectorInv, TableTypes
<1>5. AgesWritten(clock)'
  BY <1>1, SettingCounts DEF AgesWritten, AgesAt, Labels
<1>6. Written'
  BY <1>1, <1>2, <1>4, <1>5, SettingCounts DEF Written, LastGoodRemains, Shown
<1>7. \A g \in todo' : /\ g \in Channel \X Int /\ g[2] <= MaxClock
                       /\ g[1] \in Labels(stats.oldest)
  <2> TAKE g \in todo'
  <2>1. PICK o \in stats.oldest : g = <<o[1], clock - o[2]>>
    BY <1>1
  <2>2. o \in Channel \X Nat /\ clock \in 0 .. MaxClock /\ MaxClock \in Nat
    BY CollectorAssumption DEF CollectorInv, StatsTypes, Statistics, TableTypes
  <2>3. o[1] \in Channel /\ o[2] \in Nat /\ o[1] \in Labels(stats.oldest)
    BY <2>2 DEF Labels
  <2> QED  BY <2>1, <2>2, <2>3
<1> QED  BY <1>1, <1>3, <1>6, <1>7, WritingMoves

\* What is known of the ages while they are set.
LEMMA SettingAges ==
  ASSUME CollectorInv, pc = "ages"
  PROVE  /\ ages \subseteq AgeGauge /\ Functional(ages) /\ IsFiniteSet(ages)
         /\ counts = stats.counts /\ MaxClock \in Nat
         /\ published = [counts |-> published.counts, ages |-> published.ages]
         /\ \A h \in todo : /\ h \in Channel \X Int /\ h[2] <= MaxClock
                            /\ h[1] \in Labels(stats.oldest)
         /\ \E t \in 0 .. clock : AgesWritten(t)
BY CollectorAssumption DEF CollectorInv, Written, GaugeTypes, StatsTypes

\* A channel of the ages is registered: it shows 0.
LEMMA LabelAgeStep == CollectorInv /\ LabelAge => CollectorInv'
<1> SUFFICES ASSUME CollectorInv, LabelAge PROVE CollectorInv'
  OBVIOUS
<1>1. PICK g \in todo : ages' = WithLabel(ages, g[1])
  BY DEF LabelAge
<1>2. /\ pc = "ages" /\ pc' = "ages" /\ Labels(todo) \cap Labels(ages) = {}
      /\ UNCHANGED <<Table, stats, success, faults, steady, seen>>
      /\ UNCHANGED <<clock, todo, counts, published>>
  BY DEF LabelAge, History, Table
<1>3. g[1] \in Labels(todo) /\ g[1] \notin Labels(ages)
  BY <1>2 DEF Labels
<1>4. Functional(ages') /\ IsFiniteSet(ages')
  BY <1>1, <1>2, <1>3, SettingAges, LabelFacts
<1>5. <<g[1], 0>> \in AgeGauge
  BY <1>2, SettingAges DEF AgeGauge
<1>6. GaugeTypes'
  BY <1>1, <1>2, <1>4, <1>5, SettingAges
     DEF GaugeTypes, Functional, WithLabel, CollectorInv
<1>7. PICK t \in 0 .. clock : AgesWritten(t)
  BY <1>2, SettingAges
<1>8. AgesWritten(t)'
  <2>1. AgesAt(t)' = AgesAt(t) /\ Labels(todo)' = Labels(todo)
    BY <1>2 DEF AgesAt, Labels
  <2>2. \A h \in ages : h \in AgesAt(t)
    BY <1>2, <1>7 DEF AgesWritten, Labels
  <2>3. \A l \in Labels(todo) \cap Labels(ages') : l = g[1]
    BY <1>1, <1>2 DEF Labels, WithLabel
  <2>4. \A h \in ages' \ AgesAt(t) : h = <<h[1], 0>> /\ h[1] \in Labels(todo)
    BY <1>1, <1>3, <2>2 DEF WithLabel
  <2>5. \A h \in todo : \E o \in stats.oldest : h = <<o[1], t - o[2]>>
    BY <1>7 DEF AgesWritten
  <2> QED  BY <1>2, <2>1, <2>3, <2>4, <2>5 DEF AgesWritten, Labels
<1>9. Written'
  BY <1>2, <1>8, SettingAges DEF Written, LastGoodRemains, Shown
<1> QED  BY <1>2, <1>6, <1>9, SettingAges, WritingMoves

\* The channel gets its age: all that is shown is of one moment.
LEMMA SetAgeStep == CollectorInv /\ SetAge => CollectorInv'
<1> SUFFICES ASSUME CollectorInv, SetAge PROVE CollectorInv'
  OBVIOUS
<1>1. PICK g \in todo : /\ g[1] \in Labels(ages) /\ todo' = todo \ {g}
                        /\ ages' = Set(ages, g[1], Age(g[2]))
  BY DEF SetAge
<1>2. /\ pc = "ages" /\ pc' = "ages"
      /\ UNCHANGED <<Table, stats, success, faults, steady, seen>>
      /\ UNCHANGED <<clock, counts, published>>
  BY DEF SetAge, History, Table
<1>3. <<g[1], Age(g[2])>> \in AgeGauge
  BY <1>2, SettingAges DEF Age, AgeGauge
<1>4. /\ Functional(ages') /\ IsFiniteSet(ages')
      /\ Labels(ages') \subseteq Labels(ages) \cup {g[1]}
  BY <1>1, <1>2, SettingAges, SetFacts
<1>5. GaugeTypes'
  <2>1. ages' \subseteq AgeGauge
    BY <1>1, <1>2, <1>3, SettingAges DEF Set
  <2> QED  BY <1>2, <1>4, <2>1 DEF CollectorInv, GaugeTypes, Functional
<1>6. PICK t \in 0 .. clock : AgesWritten(t)
  BY <1>2, SettingAges
<1>7. AgesWritten(t)'
  <2>1. AgesAt(t)' = AgesAt(t) /\ stats' = stats
    BY <1>2 DEF AgesAt
  <2>2. Labels(todo') \subseteq Labels(todo) /\ Labels(ages') \subseteq Labels(ages)
    BY <1>1, <1>4 DEF Labels
  <2>3. g[1] \in Labels(todo) \cap Labels(ages)
    BY <1>1 DEF Labels
  <2>4. \A h \in ages : h[1] # g[1] => h \in AgesAt(t)
    <3> TAKE h \in ages
    <3> HAVE h[1] # g[1]
    <3>1. h[1] \in Labels(ages)
      BY DEF Labels
    <3> QED  BY <1>6, <2>3, <3>1 DEF AgesWritten
  <2>5. <<g[1], Age(g[2])>> \in AgesAt(t)
    <3>1. PICK o \in stats.oldest : g = <<o[1], t - o[2]>>
      BY <1>6 DEF AgesWritten
    <3>2. g[1] = o[1] /\ g[2] = t - o[2]
      BY <3>1
    <3> QED  BY <3>2 DEF AgesAt
  <2>6. ages' \subseteq AgesAt(t)
    BY <1>1, <2>4, <2>5 DEF Set
  <2>7. \A h \in todo' : \E o \in stats.oldest : h = <<o[1], t - o[2]>>
    BY <1>1, <1>6 DEF AgesWritten
  <2>8. \A l, m \in Labels(todo') \cap Labels(ages') : l = m
    BY <1>6, <2>2 DEF AgesWritten
  <2> QED  BY <2>1, <2>6, <2>7, <2>8 DEF AgesWritten, Labels
<1>8. Written'
  BY <1>2, <1>7, SettingAges DEF Written, LastGoodRemains, Shown
<1>9. \A h \in todo' : /\ h \in Channel \X Int /\ h[2] <= MaxClock
                       /\ h[1] \in Labels(stats.oldest)
  BY <1>1, <1>2, SettingAges
<1> QED  BY <1>2, <1>5, <1>8, <1>9, WritingMoves

\* Time passes.
LEMMA TickStep == CollectorInv /\ Tick => CollectorInv'
<1> SUFFICES ASSUME CollectorInv, Tick PROVE CollectorInv'
  OBVIOUS
<1>0. /\ UNCHANGED <<channel, row, pc, stats, todo, counts, ages, success, faults>>
      /\ UNCHANGED <<published, steady, seen>> /\ clock' \in 0 .. MaxClock
  BY CollectorAssumption DEF Tick, Gauges, History, CollectorInv, TableTypes
<1>0a. clock \in Nat /\ clock' \in Nat /\ clock <= clock'
  BY CollectorAssumption DEF Tick, CollectorInv, TableTypes
<1>1. TableTypes'
  BY <1>0 DEF CollectorInv, TableTypes
<1>2. GaugeTypes'
  BY <1>0 DEF CollectorInv, GaugeTypes, Functional
<1>3. StatsTypes'
  BY <1>0 DEF CollectorInv, StatsTypes, Functional, Labels
<1>4. Written'
  BY <1>0, <1>0a, WrittenKept DEF CollectorInv
<1>5. Backlog'
  BY <1>0 DEF CollectorInv, Backlog, Covered, WaitingRows, IsWaiting, Labels
<1>6. Witnessed'
  BY <1>0 DEF CollectorInv, Witnessed, WaitingRows, IsWaiting, Refreshing
<1> QED  BY <1>1, <1>2, <1>3, <1>4, <1>5, <1>6 DEF CollectorInv

\* The invariant of the collector, step by step.
LEMMA CollectorPreserved == CollectorInv /\ [Next]_vars => CollectorInv'
<1> SUFFICES ASSUME CollectorInv, [Next]_vars PROVE CollectorInv'
  OBVIOUS
<1>1. ASSUME NEW m \in Msg, Create(m) \/ Claim(m) \/ Finish(m) PROVE CollectorInv'
  BY <1>1, RowSteps
<1>2. CASE Tick
  BY <1>2, TickStep
<1>3. CASE Stop \/ StatsFail
  BY <1>3, FailingSteps
<1>4. CASE CollectorStep
  BY <1>4, RefreshStep, CountStep, ChannelsStep, OldestStep, FailingSteps, ResetSteps,
     LabelCountStep, SetCountStep, ClockStep, LabelAgeStep, SetAgeStep, RefreshedStep
     DEF CollectorStep
<1>5. CASE UNCHANGED vars
  <2>0. /\ UNCHANGED <<channel, row, clock, pc, stats, todo, counts, ages, success, faults>>
        /\ UNCHANGED <<published, steady, seen>>
    BY <1>5 DEF vars
  <2>1. TableTypes' /\ GaugeTypes' /\ StatsTypes'
    BY <2>0 DEF CollectorInv, TableTypes, GaugeTypes, StatsTypes, Functional, Labels
  <2>2. clock \in Nat
    BY CollectorAssumption DEF CollectorInv, TableTypes
  <2>3. Written'
    BY <2>0, <2>2, WrittenKept DEF CollectorInv
  <2>4. Backlog' /\ Witnessed'
    BY <2>0 DEF CollectorInv, Backlog, Covered, Witnessed, WaitingRows, IsWaiting, Refreshing,
         Labels
  <2> QED  BY <2>1, <2>3, <2>4 DEF CollectorInv
<1> QED  BY <1>1, <1>2, <1>3, <1>4, <1>5 DEF Next

\* The collector at the start, and when it stopped before there was a row.
LEMMA CollectorFirst == Init \/ CollectorOver => CollectorInv
<1>0. /\ MaxClock \in Nat /\ MaxFaults \in Nat /\ SendAt \in [Msg -> Nat]
      /\ (CHOOSE ch \in Channel : TRUE) \in Channel
  BY CollectorAssumption
<1>1. ASSUME counts = {}, ages = {}, stats = NoStats, steady = {}, seen = {},
             pc \in {"idle", "stopped"}, published = [counts |-> {}, ages |-> {}]
      PROVE  GaugeTypes /\ StatsTypes /\ Written /\ Backlog /\ Witnessed
  <2>1. stats.counts = {} /\ stats.oldest = {} /\ stats \in Statistics
    BY <1>1 DEF NoStats, Statistics
  <2>2. GaugeTypes /\ StatsTypes
    BY <1>1, <2>1, FS_EmptySet DEF GaugeTypes, StatsTypes, Functional
  <2>3. Written /\ Backlog /\ Witnessed
    BY <1>1, <2>1 DEF Written, LastGoodRemains, Shown, Backlog, Witnessed, Refreshing
  <2> QED  BY <2>2, <2>3
<1>2. ASSUME Init PROVE CollectorInv
  <2>1. row \in [Msg -> RowRecord]
    BY <1>2 DEF Init, NoRow, RowRecord, State
  <2>2. clock \in 0 .. MaxClock /\ faults \in 0 .. MaxFaults
    BY <1>0, <1>2 DEF Init
  <2>3. TableTypes
    BY <1>2, <2>1, <2>2 DEF Init, TableTypes, Stages
  <2> QED  BY <1>1, <1>2, <2>3 DEF Init, CollectorInv
<1>3. ASSUME CollectorOver PROVE CollectorInv
  <2>1. row \in [Msg -> RowRecord]
    BY <1>0, <1>3 DEF CollectorOver, RowRecord, State
  <2>2. clock \in 0 .. MaxClock /\ faults \in 0 .. MaxFaults /\ channel \in [Msg -> Channel]
    BY <1>0, <1>3 DEF CollectorOver
  <2>3. TableTypes
    BY <1>3, <2>1, <2>2 DEF CollectorOver, TableTypes, Stages
  <2> QED  BY <1>1, <1>3, <2>3 DEF CollectorOver, CollectorInv
<1> QED  BY <1>2, <1>3

\* The collector keeps its invariant, whichever of the two models is alive.
LEMMA CollectorInvariance == MetricsSpec => []CollectorInv
<1>1. MetricsInit => CollectorInv
  BY CollectorFirst DEF MetricsInit
<1>2. CollectorInv /\ [MetricsNext]_<<vars, countVars>> => CollectorInv'
  BY CollectorPreserved DEF MetricsNext
<1> QED  BY <1>1, <1>2, PTL DEF MetricsSpec

\* Counts that are being set are a part of the new ones.
LEMMA CountsArePart ==
  ASSUME CountsWritten, Functional(counts)
  PROVE  PartOf(counts, stats.counts)
<1>1. CASE counts \subseteq stats.counts
  BY <1>1 DEF PartOf
<1>2. ASSUME NEW k \in counts, k \notin stats.counts
      PROVE  PartOf(counts, stats.counts)
  <2>1. k = <<k[1], 0>> /\ k[1] \in Labels(stats.counts)
    BY <1>2 DEF CountsWritten
  <2>2. \A g \in counts : g[1] = k[1] => g = k
    BY DEF Functional
  <2>3. \A g \in counts : g # k => g \in stats.counts
    BY <1>2 DEF CountsWritten
  <2>4. counts \subseteq WithLabel({g \in stats.counts : g[1] # k[1]}, k[1])
    BY <2>1, <2>2, <2>3 DEF WithLabel
  <2> QED  BY <2>1, <2>4 DEF PartOf
<1> QED  BY <1>1, <1>2

\* So are the ages, of those of one moment.
LEMMA AgesArePart ==
  ASSUME NEW t, AgesWritten(t), Functional(ages)
  PROVE  PartOf(ages, AgesAt(t))
<1>1. CASE ages \subseteq AgesAt(t)
  BY <1>1 DEF PartOf
<1>2. ASSUME NEW k \in ages, k \notin AgesAt(t)
      PROVE  PartOf(ages, AgesAt(t))
  <2>1. k = <<k[1], 0>> /\ k[1] \in Labels(todo) /\ k[1] \in Labels(ages)
    BY <1>2 DEF AgesWritten, Labels
  <2>2. k[1] \in Labels(AgesAt(t))
    <3>1. PICK h \in todo : h[1] = k[1]
      BY <2>1 DEF Labels
    <3>2. PICK o \in stats.oldest : h = <<o[1], t - o[2]>>
      BY DEF AgesWritten
    <3>3. <<o[1], Age(t - o[2])>> \in AgesAt(t) /\ o[1] = k[1]
      BY <3>1, <3>2 DEF AgesAt
    <3> QED  BY <3>3 DEF Labels
  <2>3. \A g \in ages : g[1] = k[1] => g = k
    BY DEF Functional
  <2>4. ASSUME NEW g \in ages, g[1] # k[1] PROVE g \in AgesAt(t)
    <3>1. g[1] \in Labels(ages)
      BY DEF Labels
    <3> QED  BY <2>1, <2>4, <3>1 DEF AgesWritten
  <2>5. ages \subseteq WithLabel({g \in AgesAt(t) : g[1] # k[1]}, k[1])
    BY <2>1, <2>3, <2>4 DEF WithLabel
  <2> QED  BY <2>2, <2>5 DEF PartOf
<1> QED  BY <1>1, <1>2

\* A scrape sees one refresh in each vector: the last good one until the next has
\* reset it, then a part of the new one with one gauge at 0 at most and the ages of
\* one moment, never a mixture, no waiting row hidden and no age of a row that did
\* not wait, for any rows, channels, failures and moments of the scrape
\* (refreshOutbox, Stats).
THEOREM ScrapesAreTrue == MetricsSpec => []GaugesTrue
<1>1. ASSUME CollectorInv PROVE NeverMixed
  <2>1. CASE Shown
    BY <1>1, <2>1 DEF CollectorInv, Written, LastGoodRemains, NeverMixed
  <2>2. CASE pc = "reset"
    <3>1. counts \subseteq stats.counts /\ ages = published.ages
      BY <1>1, <2>2 DEF CollectorInv, Written
    <3> QED  BY <3>1 DEF NeverMixed, PartOf
  <2>3. CASE pc = "set"
    <3>1. PartOf(counts, stats.counts) /\ ages = {}
      BY <1>1, <2>3, SettingCounts, CountsArePart
    <3>2. 0 \in 0 .. clock /\ PartOf(ages, AgesAt(0))
      BY <1>1, <3>1, CollectorAssumption DEF PartOf, CollectorInv, TableTypes
    <3> QED  BY <3>1, <3>2 DEF NeverMixed
  <2>4. CASE pc = "ages"
    <3>1. PICK t \in 0 .. clock : AgesWritten(t)
      BY <1>1, <2>4, SettingAges
    <3>2. PartOf(ages, AgesAt(t))
      BY <1>1, <2>4, <3>1, SettingAges, AgesArePart
    <3>3. PartOf(counts, stats.counts)
      BY <1>1, <2>4, SettingAges DEF PartOf
    <3> QED  BY <3>2, <3>3 DEF NeverMixed
  <2> QED  BY <2>1, <2>2, <2>3, <2>4 DEF Shown
<1>2. ASSUME CollectorInv PROVE BacklogShown
  <2> SUFFICES ASSUME pc = "ages", todo = {}, NEW m \in steady
               PROVE  /\ <<channel[m], row[m].state>> \in Labels(counts)
                      /\ \E o \in stats.oldest : o[1] = channel[m] /\ o[2] <= row[m].eligible
    BY DEF BacklogShown
  <2>1. counts = stats.counts
    BY <1>2 DEF CollectorInv, Written
  <2> QED  BY <1>2, <2>1 DEF CollectorInv, Backlog, Covered
<1>3. ASSUME CollectorInv PROVE AgesAreReal
  BY <1>3 DEF CollectorInv, Witnessed, AgesAreReal
<1>4. CollectorInv => GaugesTrue
  BY <1>1, <1>2, <1>3 DEF CollectorInv, Written, GaugesTrue
<1> QED  BY <1>4, CollectorInvariance, PTL

-----------------------------------------------------------------------------
(* The counters: the inductive invariant. *)

Deliveries == [message : Message, copy : Count!Row]
InHand == Count!InHand
Accounts == UNION {Count!OnAccount(m) : m \in Message}

CountTypes ==
  /\ table \in [Message -> Count!Row]
  /\ hand \in [Worker -> {Count!Nothing} \cup Deliveries]
  /\ attempts \in Nat /\ results \in [Count!Outcomes -> Nat] /\ dead \in Nat
  /\ now \in 0 .. MaxTime /\ lost \in 0 .. MaxLost

\* A lease is named by the attempt it is for, in the copy and in the row: what Finish
\* writes has the attempts that the row has.
LeaseNamed ==
  /\ \A w \in Worker : hand[w] # Count!Nothing => hand[w].copy.token = hand[w].copy.attempts
  /\ \A m \in Message : table[m].state = "sending" => table[m].token = table[m].attempts

\* The quantities that the counters are compared with.
RowsSent == Cardinality(Count!InState("sent"))
RowsDead == Cardinality(Count!InState("dead"))
Charged == Cardinality(Accounts)
UnderWay == Cardinality(InHand)

Totals ==
  /\ IsFiniteSet(InHand) /\ IsFiniteSet(Accounts)
  /\ results["sent"] <= RowsSent /\ results["dead"] <= RowsDead
  /\ dead = results["dead"]
  /\ Charged - attempts \in 0 .. MaxLost - lost
  /\ attempts - Count!Counted - UnderWay \in 0 .. MaxLost - lost

CountInv == CountTypes /\ LeaseNamed /\ Totals

-----------------------------------------------------------------------------
(* What the transactions do to a row. *)

\* The parts that the row operators put together.
LEMMA RowParts ==
  /\ NoTime \in Count!Time /\ Int \subseteq Count!Time /\ Count!NoToken \in Nat
  /\ {"pending", "sending", "failed", "sent", "dead"} \subseteq Count!RowState
  /\ {"none", "provider", "unknown", "exhausted"} \subseteq Count!RowError
BY DEF Count!Time, Count!NoToken, Count!RowState, Count!RowError

\* A submitted row has no attempt on its account.
LEMMA SubmittedCounts ==
  LET q == Count!SubmittedRow(MaxRetries, 0, 0, MaxAge)
  IN  q \in Count!Row /\ q.attempts = 0 /\ q.state = "pending"
<1>1. MaxRetries \in Int /\ MaxAge \in Nat
  BY CountersAssumption DEF Count!CountersAssumption
<1>2. Count!AbsentRow \in Count!Row /\ Count!AbsentRow.attempts = 0
  BY RowParts DEF Count!AbsentRow, Count!Row, Count!RowState
<1>3. /\ (IF 0 > 0 THEN 0 + 0 ELSE NoTime) \in Count!Time
      /\ (IF MaxAge > 0 THEN 0 + 0 + MaxAge ELSE NoTime) \in Count!Time
  BY <1>1, RowParts
<1> QED  BY <1>1, <1>2, <1>3, RowParts DEF Count!SubmittedRow, Count!Row

\* A reservation leaves the attempts of a row as they are, and the row unsent.
LEMMA ReservedCounts ==
  ASSUME NEW r \in Count!Row, NEW t \in Nat, Count!Due(r, t)
  PROVE  LET q == Count!Reserved(r, t, 1)
         IN  /\ q \in Count!Row /\ q.attempts = r.attempts
             /\ q.state \in {"pending", "failed", "dead"}
             /\ r.state \notin {"sent", "dead"}
<1>1. r.state \in {"pending", "failed", "sending"}
  BY DEF Count!Due
<1>2. t \in Count!Time /\ t + 1 \in Count!Time
  BY RowParts
<1>3. CASE Count!Exhausted(r, t)
  BY <1>1, <1>3, RowParts DEF Count!Reserved, Count!MakeDead, Count!Row
<1>4. CASE ~Count!Exhausted(r, t)
  <2> DEFINE q == IF r.state = "sending" THEN Count!Recovered(r, t) ELSE r
  <2>1. Count!Reserved(r, t, 1) = [q EXCEPT !.dispatchAfter = t + 1]
    BY <1>4 DEF Count!Reserved
  <2>2. q \in Count!Row /\ q.attempts = r.attempts /\ q.state \in {"pending", "failed"}
    BY <1>1, <1>2, RowParts DEF Count!Recovered, Count!Row
  <2> HIDE DEF q
  <2> QED  BY <1>1, <1>2, <2>1, <2>2 DEF Count!Row
<1> QED  BY <1>3, <1>4

\* A claim puts one attempt on the account of the row that it hands out, under a token
\* of that number, and none on that of a row it gives up or leaves alone.
LEMMA ClaimedCounts ==
  ASSUME NEW r \in Count!Row, NEW t \in Nat, NEW k \in Nat, k = r.attempts + 1
  PROVE  LET q == Count!Claimed(r, t, Lease, k)
             c == Count!Leased(r, t, Lease, k)
         IN  /\ q \in Count!Row /\ c \in Count!Row
             /\ c.token = k /\ c.attempts = k
             /\ c.state = "sending"
             /\ Count!Grants(r, t) => q = c /\ r.state \notin {"sent", "dead"}
             /\ ~Count!Grants(r, t) =>
                  /\ q.attempts = r.attempts
                  /\ q = r \/ (q.state = "dead" /\ r.state \notin {"sent", "dead"})
<1>1. r.attempts \in Nat /\ r.attempts + 1 \in Nat /\ t + Lease \in Int
  BY CountersAssumption DEF Count!CountersAssumption, Count!Row
<1> DEFINE c == Count!Leased(r, t, Lease, k)
<1>2. /\ c \in Count!Row /\ c.token = k /\ c.attempts = k
      /\ c.state = "sending"
  BY <1>1, RowParts DEF Count!Leased, Count!Row
<1> HIDE DEF c
<1>3. CASE Count!NotClaimable(r, t)
  <2>1. Count!Claimed(r, t, Lease, k) = r /\ ~Count!Grants(r, t)
    BY <1>3 DEF Count!Claimed, Count!Grants
  <2> QED  BY <1>2, <2>1 DEF c
<1>4. CASE Count!Grants(r, t)
  <2>1. Count!Claimed(r, t, Lease, k) = c
    BY <1>4 DEF Count!Claimed, Count!Grants, c
  <2>2. r.state \in {"pending", "failed"}
    BY <1>4 DEF Count!Grants, Count!NotClaimable
  <2> QED  BY <1>2, <1>4, <2>1, <2>2 DEF c
<1>5. CASE ~Count!NotClaimable(r, t) /\ ~Count!Grants(r, t)
  <2>1. Count!Claimed(r, t, Lease, k) = Count!MakeDead(r)
    BY <1>5 DEF Count!Claimed
  <2>2. /\ Count!MakeDead(r) \in Count!Row /\ Count!MakeDead(r).state = "dead"
        /\ Count!MakeDead(r).attempts = r.attempts
    BY RowParts DEF Count!MakeDead, Count!Row
  <2>3. r.state \in {"pending", "failed"}
    BY <1>5 DEF Count!NotClaimable
  <2> QED  BY <1>2, <1>5, <2>1, <2>2, <2>3 DEF c
<1> QED  BY <1>3, <1>4, <1>5

\* The copy with its outcome, and what Finish writes of it.
LEMMA EndedCounts ==
  ASSUME NEW c \in Count!Row, NEW t \in Nat,
         NEW o \in {Count!Succeeded(c), Count!Failed(c, t, 1, "provider")}
  PROVE  /\ o.state \in {"sent", "failed", "dead"}
         /\ o.token = c.token /\ o.attempts = c.attempts
         /\ Count!Completed(o) \in Count!Row
         /\ Count!Completed(o).state = o.state /\ Count!Completed(o).attempts = c.attempts
<1>1. o \in Count!Row /\ o.token = c.token /\ o.attempts = c.attempts
      /\ o.state \in {"sent", "failed", "dead"}
  <2>1. CASE o = Count!Succeeded(c)
    BY <2>1, RowParts DEF Count!Succeeded, Count!Row
  <2>2. CASE o = Count!Failed(c, t, 1, "provider")
    <3>1. t + 1 \in Count!Time
      BY RowParts
    <3> QED  BY <2>2, <3>1, RowParts DEF Count!Failed, Count!Row
  <2> QED  BY <2>1, <2>2
<1>2. Count!Completed(o) \in Count!Row
  <2>1. ((o.state = "sent") \/ o.sentAt) \in BOOLEAN
    BY <1>1
  <2> QED  BY <1>1, <2>1, RowParts DEF Count!Completed, Count!Row
<1>3. Count!Completed(o).state = o.state /\ Count!Completed(o).attempts = o.attempts
  BY <1>1 DEF Count!Completed, Count!Row
<1> QED  BY <1>1, <1>2, <1>3

-----------------------------------------------------------------------------
(* The sets that are counted. *)

\* Counters takes its sets from an instance of its own: they are the same.
LEMMA SameSets ==
  /\ \A S : Count!IsFiniteSet(S) <=> IsFiniteSet(S)
  /\ \A S : Count!Cardinality(S) = Cardinality(S)
BY DEF Count!IsFiniteSet, IsFiniteSet, Count!Cardinality, Cardinality

\* The messages are finitely many.
LEMMA FewMessages == IsFiniteSet(Message)
BY SameSets, CountersAssumption DEF Count!CountersAssumption

\* The rows of a state are no fewer when none leaves it.
LEMMA StateKept ==
  ASSUME NEW s, \A m \in Message : table[m].state = s => table'[m].state = s
  PROVE  /\ Cardinality(Count!InState(s)) \in Nat /\ Cardinality(Count!InState(s)') \in Nat
         /\ Cardinality(Count!InState(s)) <= Cardinality(Count!InState(s)')
<1> DEFINE S == {m \in Message : table[m].state = s}
           T == {m \in Message : table'[m].state = s}
<1>1. S \subseteq T /\ IsFiniteSet(T)
  BY FewMessages, FS_Subset
<1>2. IsFiniteSet(S) /\ Cardinality(S) <= Cardinality(T)
  BY <1>1, FS_Subset
<1> QED  BY <1>1, <1>2, FS_CardinalityType DEF Count!InState

\* They are more when one comes to it.
LEMMA StateGained ==
  ASSUME NEW s, \A m \in Message : table[m].state = s => table'[m].state = s,
         NEW n \in Message, table[n].state # s, table'[n].state = s
  PROVE  Cardinality(Count!InState(s)) + 1 <= Cardinality(Count!InState(s)')
<1> DEFINE S == {m \in Message : table[m].state = s}
           T == {m \in Message : table'[m].state = s}
<1>1. IsFiniteSet(S) /\ IsFiniteSet(T) /\ n \notin S /\ S \cup {n} \subseteq T
  BY FewMessages, FS_Subset
<1>2. IsFiniteSet(S \cup {n}) /\ Cardinality(S \cup {n}) = Cardinality(S) + 1
  BY <1>1, FS_AddElement
<1>3. Cardinality(S \cup {n}) <= Cardinality(T)
  BY <1>1, FS_Subset
<1> QED  BY <1>2, <1>3 DEF Count!InState

\* The attempts on account are pairs of a message and a number.
LEMMA OnAccounts ==
  ASSUME NEW f, NEW x
  PROVE  x \in UNION {{n} \X (1 .. f[n].attempts) : n \in Message} <=>
           \E n \in Message : \E k \in 1 .. f[n].attempts : x = <<n, k>>
OBVIOUS

\* The attempts on account stay when no row has another number of them.
LEMMA AccountsKept ==
  ASSUME \A m \in Message : table'[m].attempts = table[m].attempts
  PROVE  Accounts' = Accounts
<1> DEFINE A(f) == UNION {{n} \X (1 .. f[n].attempts) : n \in Message}
<1>1. \A x : x \in A(table') <=> x \in A(table)
  BY OnAccounts
<1>2. A(table') = A(table)
  BY <1>1
<1> QED  BY <1>2 DEF Accounts, Count!OnAccount

\* They are one more when one row has one more.
LEMMA AccountsGained ==
  ASSUME IsFiniteSet(Accounts), NEW m \in Message, table[m].attempts \in Nat,
         table'[m].attempts = table[m].attempts + 1,
         \A n \in Message \ {m} : table'[n].attempts = table[n].attempts
  PROVE  IsFiniteSet(Accounts') /\ Cardinality(Accounts') = Cardinality(Accounts) + 1
<1> DEFINE A(f) == UNION {{n} \X (1 .. f[n].attempts) : n \in Message}
           new == <<m, table[m].attempts + 1>>
<1>0. Accounts = A(table) /\ Accounts' = A(table')
  BY DEF Accounts, Count!OnAccount
<1>1. new \notin A(table)
  <2>1. ~ \E n \in Message : \E k \in 1 .. table[n].attempts : new = <<n, k>>
    OBVIOUS
  <2> QED  BY <2>1, OnAccounts
<1>2. \A x : x \in A(table') <=> x \in A(table) \cup {new}
  <2> TAKE x
  <2>1. ASSUME x \in A(table') PROVE x \in A(table) \cup {new}
    <3>1. PICK n \in Message : \E k \in 1 .. table'[n].attempts : x = <<n, k>>
      BY <2>1, OnAccounts
    <3>2. PICK k \in 1 .. table'[n].attempts : x = <<n, k>>
      BY <3>1
    <3>3. \/ n = m /\ k = table[m].attempts + 1
          \/ k \in 1 .. table[n].attempts
      OBVIOUS
    <3> QED  BY <3>2, <3>3, OnAccounts
  <2>2. ASSUME x \in A(table) PROVE x \in A(table')
    <3>1. PICK n \in Message : \E k \in 1 .. table[n].attempts : x = <<n, k>>
      BY <2>2, OnAccounts
    <3>2. PICK k \in 1 .. table[n].attempts : x = <<n, k>>
      BY <3>1
    <3>3. k \in 1 .. table'[n].attempts
      OBVIOUS
    <3> QED  BY <3>2, <3>3, OnAccounts
  <2>3. new \in A(table')
    <3>1. table[m].attempts + 1 \in 1 .. table'[m].attempts
      OBVIOUS
    <3> QED  BY <3>1, OnAccounts
  <2> QED  BY <2>1, <2>2, <2>3
<1>3. A(table') = A(table) \cup {new}
  BY <1>2
<1> HIDE DEF A, new
<1>4. IsFiniteSet(A(table))
  BY <1>0
<1>5. /\ IsFiniteSet(A(table) \cup {new})
      /\ Cardinality(A(table) \cup {new}) = Cardinality(A(table)) + 1
  BY <1>1, <1>4, FS_AddElement
<1> QED  BY <1>0, <1>3, <1>5

\* A worker with nothing in hand and one with a delivery are not mistaken.
LEMMA NothingIsNone == \A d \in Deliveries : d # Count!Nothing
<1> SUFFICES ASSUME NEW d \in Deliveries, d = Count!Nothing PROVE FALSE
  OBVIOUS
<1>1. DOMAIN d = {"message", "copy"} /\ DOMAIN d = {"message"}
  BY DEF Deliveries, Count!Nothing
<1> QED  BY <1>1

\* The workers that have a delivery, when one gets or loses its own.
LEMMA HandFacts ==
  ASSUME CountTypes, IsFiniteSet(InHand), NEW w \in Worker,
         NEW d \in {Count!Nothing} \cup Deliveries, hand' = [hand EXCEPT ![w] = d]
  PROVE  /\ hand' \in [Worker -> {Count!Nothing} \cup Deliveries]
         /\ IsFiniteSet(InHand') /\ Cardinality(InHand) \in Nat
         /\ hand[w] = Count!Nothing /\ d # Count!Nothing =>
              Cardinality(InHand') = Cardinality(InHand) + 1
         /\ hand[w] # Count!Nothing /\ d = Count!Nothing =>
              Cardinality(InHand') = Cardinality(InHand) - 1
<1>0. hand \in [Worker -> {Count!Nothing} \cup Deliveries]
  BY DEF CountTypes
<1>1. hand' \in [Worker -> {Count!Nothing} \cup Deliveries]
  BY <1>0
<1>2. InHand' \subseteq InHand \cup {w}
  BY <1>0 DEF InHand, Count!InHand
<1>3. IsFiniteSet(InHand')
  BY <1>2, FS_AddElement, FS_Subset
<1>4. ASSUME hand[w] = Count!Nothing, d # Count!Nothing
      PROVE  Cardinality(InHand') = Cardinality(InHand) + 1
  <2>1. InHand' = InHand \cup {w} /\ w \notin InHand
    BY <1>0, <1>4 DEF InHand, Count!InHand
  <2> QED  BY <2>1, FS_AddElement
<1>5. ASSUME hand[w] # Count!Nothing, d = Count!Nothing
      PROVE  Cardinality(InHand') = Cardinality(InHand) - 1
  <2>1. InHand' = InHand \ {w} /\ w \in InHand
    BY <1>0, <1>5 DEF InHand, Count!InHand
  <2> QED  BY <2>1, FS_RemoveElement
<1> QED  BY <1>1, <1>3, <1>4, <1>5, FS_CardinalityType

\* An outcome is counted once.
LEMMA ObservedOnce ==
  ASSUME CountTypes, NEW o \in Count!Outcomes, results' = [results EXCEPT ![o] = @ + 1]
  PROVE  /\ results' \in [Count!Outcomes -> Nat]
         /\ results["sent"] \in Nat /\ results["dead"] \in Nat
         /\ results'["sent"] = results["sent"] + (IF o = "sent" THEN 1 ELSE 0)
         /\ results'["dead"] = results["dead"] + (IF o = "dead" THEN 1 ELSE 0)
         /\ Count!Counted \in Nat /\ Count!Counted' = Count!Counted + 1
<1>1. results \in [Count!Outcomes -> Nat]
  BY DEF CountTypes
<1>2. \A p \in Count!Outcomes : results[p] \in Nat
  BY <1>1
<1>3. results' \in [Count!Outcomes -> Nat]
  BY <1>1, <1>2
<1>4. \A p \in Count!Outcomes : results'[p] = results[p] + (IF o = p THEN 1 ELSE 0)
  BY <1>1, <1>2
<1>5. /\ "sent" \in Count!Outcomes /\ "retry" \in Count!Outcomes /\ "dead" \in Count!Outcomes
      /\ "invalid" \in Count!Outcomes /\ "completion_error" \in Count!Outcomes
      /\ o \in {"sent", "retry", "dead", "invalid", "completion_error"}
  BY DEF Count!Outcomes
<1> HIDE DEF Count!Outcomes
<1>6. Count!Counted \in Nat
  BY <1>2, <1>5 DEF Count!Counted
<1>7. Count!Counted' = Count!Counted + 1
  <2>1. /\ results'["sent"] = results["sent"] + (IF o = "sent" THEN 1 ELSE 0)
        /\ results'["retry"] = results["retry"] + (IF o = "retry" THEN 1 ELSE 0)
        /\ results'["dead"] = results["dead"] + (IF o = "dead" THEN 1 ELSE 0)
        /\ results'["invalid"] = results["invalid"] + (IF o = "invalid" THEN 1 ELSE 0)
        /\ results'["completion_error"] = results["completion_error"]
                                            + (IF o = "completion_error" THEN 1 ELSE 0)
    BY <1>4, <1>5
  <2>2. /\ results["sent"] \in Nat /\ results["retry"] \in Nat /\ results["dead"] \in Nat
        /\ results["invalid"] \in Nat /\ results["completion_error"] \in Nat
    BY <1>2, <1>5
  <2> QED  BY <2>1, <2>2, <1>5 DEF Count!Counted
<1> QED  BY <1>2, <1>3, <1>4, <1>5, <1>6, <1>7

-----------------------------------------------------------------------------
(* The steps of the counters. *)

\* What Claim leaves in the table, whether its caller learns of it or not.
LEMMA ClaimRow ==
  ASSUME CountInv, NEW m \in Message,
         table' = [table EXCEPT ![m] = Count!Claimed(@, now, Lease, @.attempts + 1)]
  PROVE  /\ table' \in [Message -> Count!Row]
         /\ \A n \in Message : table'[n].state = "sending" => table'[n].token = table'[n].attempts
         /\ RowsSent \in Nat /\ RowsSent' \in Nat /\ RowsSent <= RowsSent'
         /\ RowsDead \in Nat /\ RowsDead' \in Nat /\ RowsDead <= RowsDead'
         /\ IsFiniteSet(Accounts')
         /\ Charged' = Charged + (IF Count!Grants(table[m], now) THEN 1 ELSE 0)
<1> DEFINE k == table[m].attempts + 1
           q == Count!Claimed(table[m], now, Lease, k)
<1>0. /\ table \in [Message -> Count!Row] /\ table[m] \in Count!Row /\ now \in Nat
  BY CountersAssumption DEF CountInv, CountTypes, Count!CountersAssumption
<1>a. k \in Nat /\ k = table[m].attempts + 1
  BY <1>0 DEF Count!Row
<1>b. table' = [table EXCEPT ![m] = q]
  BY <1>0
<1> HIDE DEF k
<1>1. /\ q \in Count!Row
      /\ Count!Grants(table[m], now) =>
           /\ q.token = k /\ q.attempts = k
           /\ q.state = "sending" /\ table[m].state \notin {"sent", "dead"}
      /\ ~Count!Grants(table[m], now) =>
           /\ q.attempts = table[m].attempts
           /\ q = table[m] \/ (q.state = "dead" /\ table[m].state \notin {"sent", "dead"})
  BY <1>0, <1>a, ClaimedCounts
<1> HIDE DEF q
<1>2. /\ table' \in [Message -> Count!Row] /\ table'[m] = q
      /\ \A n \in Message \ {m} : table'[n] = table[n]
  BY <1>0, <1>1, <1>b
<1>3. ASSUME NEW n \in Message, table'[n].state = "sending"
      PROVE  table'[n].token = table'[n].attempts
  <2>1. table[n].state = "sending" => table[n].token = table[n].attempts
    BY DEF CountInv, LeaseNamed
  <2>2. CASE n = m
    BY <1>1, <1>2, <1>3, <2>1, <2>2
  <2> QED  BY <1>2, <1>3, <2>1, <2>2
<1>4. ASSUME NEW s \in {"sent", "dead"}
      PROVE  \A n \in Message : table[n].state = s => table'[n].state = s
  <2> TAKE n \in Message
  <2>1. CASE n = m
    BY <1>1, <1>2, <2>1
  <2> QED  BY <1>2, <2>1
<1>c. /\ RowsSent \in Nat /\ RowsSent' \in Nat /\ RowsSent <= RowsSent'
      /\ RowsDead \in Nat /\ RowsDead' \in Nat /\ RowsDead <= RowsDead'
  BY <1>4, StateKept DEF RowsSent, RowsDead
<1>5. CASE Count!Grants(table[m], now)
  <2>1. table[m].attempts \in Nat
    BY <1>0 DEF Count!Row
  <2>2. IsFiniteSet(Accounts') /\ Charged' = Charged + 1
    BY <1>1, <1>2, <1>5, <1>a, <2>1, AccountsGained DEF CountInv, Totals, Charged
  <2> QED  BY <1>2, <1>3, <1>5, <1>c, <2>2
<1>6. CASE ~Count!Grants(table[m], now)
  <2>1. Accounts' = Accounts
    BY <1>1, <1>2, <1>6, AccountsKept
  <2>2. Charged \in Nat /\ Charged' = Charged /\ IsFiniteSet(Accounts)
    BY <2>1, FS_CardinalityType DEF CountInv, Totals, Charged
  <2> QED  BY <1>2, <1>3, <1>6, <1>c, <2>1, <2>2
<1> QED  BY <1>5, <1>6

\* Nothing is observed: the results, and what they are compared with.
LEMMA TotalsFacts ==
  ASSUME CountInv
  PROVE  /\ results["sent"] \in Nat /\ results["dead"] \in Nat /\ Count!Counted \in Nat
         /\ Charged \in Nat /\ UnderWay \in Nat
         /\ attempts \in Nat /\ lost \in 0 .. MaxLost /\ MaxLost \in Nat /\ MaxTime \in Nat
<1>1. results \in [Count!Outcomes -> Nat]
  BY DEF CountInv, CountTypes
<1>2. Count!Counted \in Nat /\ results["sent"] \in Nat /\ results["dead"] \in Nat
  BY <1>1 DEF Count!Counted, Count!Outcomes
<1> QED
  BY <1>2, FS_CardinalityType, CountersAssumption
     DEF CountInv, CountTypes, Totals, Charged, UnderWay, Count!CountersAssumption

\* The totals keep when the sets grow by as much as what is observed of them.
LEMMA TotalsMove ==
  ASSUME CountInv, IsFiniteSet(InHand'), IsFiniteSet(Accounts'),
         NEW i \in {0, 1}, RowsSent' \in Nat, results'["sent"] = results["sent"] + i,
         RowsSent + i <= RowsSent',
         NEW j \in {0, 1}, RowsDead' \in Nat, results'["dead"] = results["dead"] + j,
         RowsDead + j <= RowsDead', dead' = dead + j,
         NEW f \in {0, 1}, lost' = lost - f, lost' \in 0 .. MaxLost,
         NEW a \in {0, 1}, Charged' - attempts' = Charged - attempts + a, a <= f,
         NEW b \in {0, 1}, b <= f,
         attempts' - Count!Counted' - UnderWay' = attempts - Count!Counted - UnderWay + b
  PROVE  Totals'
<1>1. /\ RowsSent \in Nat /\ RowsDead \in Nat
  BY FewMessages, FS_Subset, FS_CardinalityType
     DEF RowsSent, RowsDead, Count!InState
<1>2. /\ results["sent"] <= RowsSent /\ results["dead"] <= RowsDead /\ dead = results["dead"]
      /\ Charged - attempts \in 0 .. MaxLost - lost
      /\ attempts - Count!Counted - UnderWay \in 0 .. MaxLost - lost
  BY DEF CountInv, Totals
<1>3. /\ (results["sent"] <= RowsSent)' /\ (results["dead"] <= RowsDead)'
      /\ (dead = results["dead"])'
  BY <1>1, <1>2, TotalsFacts
<1>4. (Charged - attempts \in 0 .. MaxLost - lost)'
  BY <1>2, TotalsFacts
<1>5. (attempts - Count!Counted - UnderWay \in 0 .. MaxLost - lost)'
  BY <1>2, TotalsFacts
<1> QED  BY <1>3, <1>4, <1>5 DEF Totals

\* Claim, with its observation.
LEMMA ClaimKept ==
  ASSUME CountInv, NEW w \in Worker, NEW m \in Message, Count!Claim(w, m)
  PROVE  CountInv'
<1> DEFINE c == Count!Leased(table[m], now, Lease, table[m].attempts + 1)
           d == [message |-> m, copy |-> c]
<1>0. /\ hand[w] = Count!Nothing
      /\ table' = [table EXCEPT ![m] = Count!Claimed(@, now, Lease, @.attempts + 1)]
      /\ IF Count!Grants(table[m], now)
         THEN hand' = [hand EXCEPT ![w] = d] /\ attempts' = attempts + 1
         ELSE UNCHANGED <<hand, attempts>>
      /\ UNCHANGED <<results, dead, now, lost>>
  BY DEF Count!Claim
<1>1. c \in Count!Row /\ c.token = c.attempts
  <2> DEFINE k == table[m].attempts + 1
  <2>1. table[m] \in Count!Row /\ now \in Nat
    BY CountersAssumption DEF CountInv, CountTypes, Count!CountersAssumption
  <2>2. k \in Nat /\ k = table[m].attempts + 1
    BY <2>1 DEF Count!Row
  <2>3. c = Count!Leased(table[m], now, Lease, k)
    OBVIOUS
  <2> HIDE DEF k, c
  <2>4. /\ Count!Leased(table[m], now, Lease, k) \in Count!Row
        /\ Count!Leased(table[m], now, Lease, k).token = k
        /\ Count!Leased(table[m], now, Lease, k).attempts = k
    BY <2>1, <2>2, ClaimedCounts
  <2> QED  BY <2>3, <2>4
<1> HIDE DEF c
<1>2. d \in Deliveries /\ d.copy = c
  BY <1>1 DEF Deliveries
<1> HIDE DEF d
<1>3. d # Count!Nothing
  BY <1>2, NothingIsNone
<1>4. /\ hand \in [Worker -> {Count!Nothing} \cup Deliveries] /\ IsFiniteSet(InHand)
      /\ \A v \in Worker : hand[v] # Count!Nothing => hand[v].copy.token = hand[v].copy.attempts
  BY DEF CountInv, CountTypes, Totals, LeaseNamed
<1>5. Count!Counted' = Count!Counted
  BY <1>0 DEF Count!Counted
<1>8. /\ results'["sent"] = results["sent"] + 0 /\ RowsSent + 0 <= RowsSent'
      /\ results'["dead"] = results["dead"] + 0 /\ RowsDead + 0 <= RowsDead'
      /\ dead' = dead + 0 /\ lost' = lost - 0 /\ lost' \in 0 .. MaxLost
      /\ RowsSent' \in Nat /\ RowsDead' \in Nat
  <2>1. /\ RowsSent \in Nat /\ RowsSent' \in Nat /\ RowsSent <= RowsSent'
        /\ RowsDead \in Nat /\ RowsDead' \in Nat /\ RowsDead <= RowsDead'
    BY <1>0, ClaimRow
  <2>2. dead \in Nat
    BY DEF CountInv, CountTypes
  <2> QED  BY <1>0, <2>1, <2>2, TotalsFacts
<1>6. CASE Count!Grants(table[m], now)
  <2>0. hand' = [hand EXCEPT ![w] = d] /\ attempts' = attempts + 1
    BY <1>0, <1>6
  <2>1. /\ hand' \in [Worker -> {Count!Nothing} \cup Deliveries] /\ IsFiniteSet(InHand')
        /\ UnderWay' = UnderWay + 1
    BY <1>0, <1>2, <1>3, <2>0, HandFacts DEF CountInv, Totals, UnderWay
  <2>a. attempts' \in Nat
    BY <2>0, TotalsFacts
  <2>2. CountTypes'
    BY <1>0, <2>a, <2>1, ClaimRow DEF CountInv, CountTypes
  <2>3. \A v \in Worker : hand'[v] # Count!Nothing => hand'[v].copy.token = hand'[v].copy.attempts
    BY <1>1, <1>2, <1>4, <2>0
  <2>4. LeaseNamed'
    BY <1>0, <2>3, ClaimRow DEF LeaseNamed, Count!Nothing
  <2>5. Totals'
    <3>1. Charged' = Charged + 1 /\ IsFiniteSet(Accounts')
      BY <1>0, <1>6, ClaimRow
    <3>2. /\ Charged' - attempts' = Charged - attempts + 0
          /\ attempts' - Count!Counted' - UnderWay' = attempts - Count!Counted - UnderWay + 0
      BY <1>5, <2>0, <2>1, <3>1, TotalsFacts
    <3> QED  BY <1>0, <1>8, <2>1, <3>1, <3>2, TotalsMove
  <2> QED  BY <2>2, <2>4, <2>5 DEF CountInv
<1>7. CASE ~Count!Grants(table[m], now)
  <2>0. /\ hand' = hand /\ attempts' = attempts
        /\ InHand' = InHand /\ UnderWay' = UnderWay
    BY <1>0, <1>7 DEF InHand, Count!InHand, Count!Nothing, UnderWay
  <2>1. CountTypes'
    BY <1>0, <2>0, ClaimRow DEF CountInv, CountTypes
  <2>2. LeaseNamed'
    BY <1>0, <1>4, <2>0, ClaimRow DEF LeaseNamed, Count!Nothing
  <2>3. Totals'
    <3>1. Charged' = Charged + 0 /\ IsFiniteSet(Accounts') /\ IsFiniteSet(InHand')
      BY <1>0, <1>4, <1>7, <2>0, ClaimRow
    <3>2. /\ Charged' - attempts' = Charged - attempts + 0
          /\ attempts' - Count!Counted' - UnderWay' = attempts - Count!Counted - UnderWay + 0
      BY <1>5, <2>0, <3>1, TotalsFacts
    <3> QED  BY <1>0, <1>8, <3>1, <3>2, TotalsMove
  <2> QED  BY <2>1, <2>2, <2>3 DEF CountInv
<1> QED  BY <1>6, <1>7

\* Claim whose answer is lost.
LEMMA ClaimLostKept ==
  ASSUME CountInv, NEW w \in Worker, NEW m \in Message, Count!ClaimLost(w, m)
  PROVE  CountInv'
<1>0. /\ lost > 0 /\ lost' = lost - 1
      /\ table' = [table EXCEPT ![m] = Count!Claimed(@, now, Lease, @.attempts + 1)]
      /\ UNCHANGED <<hand, attempts, results, dead, now>>
  BY DEF Count!ClaimLost, Count!counters
<1>1. /\ Count!Counted' = Count!Counted /\ lost' \in 0 .. MaxLost
      /\ InHand' = InHand /\ UnderWay' = UnderWay
  BY <1>0, TotalsFacts DEF Count!Counted, InHand, Count!InHand, Count!Nothing, UnderWay
<1>2. CountTypes'
  BY <1>0, <1>1, ClaimRow DEF CountInv, CountTypes
<1>3. LeaseNamed'
  BY <1>0, ClaimRow DEF CountInv, LeaseNamed, Count!Nothing
<1>4. Totals'
  <2>1. /\ RowsSent \in Nat /\ RowsSent' \in Nat /\ RowsSent <= RowsSent'
        /\ RowsDead \in Nat /\ RowsDead' \in Nat /\ RowsDead <= RowsDead'
        /\ IsFiniteSet(Accounts') /\ IsFiniteSet(InHand')
    BY <1>0, <1>1, ClaimRow DEF CountInv, Totals
  <2>2. /\ results'["sent"] = results["sent"] + 0 /\ RowsSent + 0 <= RowsSent'
        /\ results'["dead"] = results["dead"] + 0 /\ RowsDead + 0 <= RowsDead'
    BY <1>0, <2>1, TotalsFacts
  <2>3. dead' = dead + 0
    BY <1>0 DEF CountInv, CountTypes
  <2>4. PICK a \in {0, 1} : Charged' = Charged + a
    BY <1>0, ClaimRow
  <2>5. /\ Charged' - attempts' = Charged - attempts + a
        /\ attempts' - Count!Counted' - UnderWay' = attempts - Count!Counted - UnderWay + 0
        /\ a <= 1
    BY <1>0, <1>1, <2>4, TotalsFacts
  <2> QED  BY <1>0, <1>1, <2>1, <2>2, <2>3, <2>5, TotalsMove
<1> QED  BY <1>2, <1>3, <1>4 DEF CountInv

\* ReserveDispatch tells no counter, and moves no row that one is about.
LEMMA ReserveKept == CountInv /\ Count!Reserve => CountInv'
<1> SUFFICES ASSUME CountInv, Count!Reserve PROVE CountInv'
  OBVIOUS
<1>0. /\ table' = [m \in Message |-> IF Count!Due(table[m], now)
                                    THEN Count!Reserved(table[m], now, 1) ELSE table[m]]
      /\ UNCHANGED <<hand, attempts, results, dead, now, lost>>
  BY DEF Count!Reserve, Count!counters
<1>1. now \in Nat /\ \A m \in Message : table[m] \in Count!Row
  BY CountersAssumption DEF CountInv, CountTypes, Count!CountersAssumption
<1>2. ASSUME NEW m \in Message
      PROVE  /\ table'[m] \in Count!Row /\ table'[m].attempts = table[m].attempts
             /\ table'[m].state = "sending" => table'[m] = table[m]
             /\ \A s \in {"sent", "dead"} : table[m].state = s => table'[m].state = s
  <2>1. CASE Count!Due(table[m], now)
    <3>1. table'[m] = Count!Reserved(table[m], now, 1)
      BY <1>0, <2>1
    <3>2. /\ table'[m] \in Count!Row /\ table'[m].attempts = table[m].attempts
          /\ table'[m].state \in {"pending", "failed", "dead"}
          /\ table[m].state \notin {"sent", "dead"}
      BY <1>1, <2>1, <3>1, ReservedCounts
    <3> QED  BY <3>2
  <2>2. CASE ~Count!Due(table[m], now)
    <3>1. table'[m] = table[m]
      BY <1>0, <2>2
    <3> QED  BY <1>1, <3>1
  <2> QED  BY <2>1, <2>2
<1>3. table' \in [Message -> Count!Row]
  <2>1. table' = [m \in Message |-> table'[m]]
    BY <1>0
  <2> QED  BY <1>2, <2>1
<1>4. CountTypes'
  BY <1>0, <1>3 DEF CountInv, CountTypes
<1>5. LeaseNamed'
  BY <1>0, <1>2 DEF CountInv, LeaseNamed, Count!Nothing
<1>6. Totals'
  <2>1. /\ RowsSent \in Nat /\ RowsSent' \in Nat /\ RowsSent <= RowsSent'
        /\ RowsDead \in Nat /\ RowsDead' \in Nat /\ RowsDead <= RowsDead'
    BY <1>2, StateKept DEF RowsSent, RowsDead
  <2>2. Accounts' = Accounts
    BY <1>2, AccountsKept
  <2>3. /\ Charged' = Charged /\ IsFiniteSet(Accounts') /\ IsFiniteSet(InHand')
        /\ UnderWay' = UnderWay /\ Count!Counted' = Count!Counted
    BY <1>0, <2>2
       DEF CountInv, Totals, Charged, UnderWay, InHand, Count!InHand, Count!Nothing, Count!Counted
  <2>4. dead' = dead + 0 /\ lost' = lost - 0 /\ lost' \in 0 .. MaxLost
    BY <1>0, TotalsFacts DEF CountInv, CountTypes
  <2>5. /\ results'["sent"] = results["sent"] + 0 /\ RowsSent + 0 <= RowsSent'
        /\ results'["dead"] = results["dead"] + 0 /\ RowsDead + 0 <= RowsDead'
    BY <1>0, <2>1, TotalsFacts
  <2>6. /\ Charged' - attempts' = Charged - attempts + 0
        /\ attempts' - Count!Counted' - UnderWay' = attempts - Count!Counted - UnderWay + 0
    BY <1>0, <2>3, TotalsFacts
  <2> QED  BY <2>1, <2>3, <2>4, <2>5, <2>6, TotalsMove
<1> QED  BY <1>4, <1>5, <1>6 DEF CountInv

\* A worker that dies takes its delivery along: one fault, one attempt without result.
LEMMA DiesKept ==
  ASSUME CountInv, NEW w \in Worker, Count!Dies(w)
  PROVE  CountInv'
<1>0. /\ hand[w] # Count!Nothing /\ lost > 0 /\ lost' = lost - 1
      /\ hand' = [hand EXCEPT ![w] = Count!Nothing]
      /\ UNCHANGED <<table, attempts, results, dead, now>>
  BY DEF Count!Dies, Count!counters
<1>1. /\ hand' \in [Worker -> {Count!Nothing} \cup Deliveries] /\ IsFiniteSet(InHand')
      /\ UnderWay' = UnderWay - 1
  BY <1>0, HandFacts DEF CountInv, Totals, UnderWay
<1>2. lost' \in 0 .. MaxLost
  BY <1>0, TotalsFacts
<1>3. CountTypes'
  BY <1>0, <1>1, <1>2 DEF CountInv, CountTypes
<1>4. LeaseNamed'
  BY <1>0 DEF CountInv, CountTypes, LeaseNamed, Count!Nothing
<1>5. Totals'
  <2>1. /\ RowsSent \in Nat /\ RowsSent' = RowsSent
        /\ RowsDead \in Nat /\ RowsDead' = RowsDead
    BY <1>0, StateKept DEF RowsSent, RowsDead, Count!InState
  <2>2. /\ Charged' = Charged /\ IsFiniteSet(Accounts') /\ Count!Counted' = Count!Counted
    BY <1>0 DEF CountInv, Totals, Charged, Accounts, Count!OnAccount, Count!Counted
  <2>3. dead' = dead + 0
    BY <1>0 DEF CountInv, CountTypes
  <2>4. /\ results'["sent"] = results["sent"] + 0 /\ RowsSent + 0 <= RowsSent'
        /\ results'["dead"] = results["dead"] + 0 /\ RowsDead + 0 <= RowsDead'
    BY <1>0, <2>1, TotalsFacts
  <2>5. /\ Charged' - attempts' = Charged - attempts + 0
        /\ attempts' - Count!Counted' - UnderWay' = attempts - Count!Counted - UnderWay + 1
    BY <1>0, <1>1, <2>2, TotalsFacts
  <2> QED  BY <1>0, <1>1, <1>2, <2>1, <2>2, <2>3, <2>4, <2>5, TotalsMove
<1> QED  BY <1>3, <1>4, <1>5 DEF CountInv

\* An attempt ends and its result is observed: what is counted sent or dead is a row
\* that this step made so.
LEMMA EndsKept ==
  ASSUME CountInv, NEW w \in Worker, Count!Ends(w)
  PROVE  CountInv'
<1> DEFINE c == hand[w].copy
           m == hand[w].message
<1>0. hand[w] # Count!Nothing /\ hand' = [hand EXCEPT ![w] = Count!Nothing] /\ now' = now
  BY DEF Count!Ends
<1>1. PICK o \in {Count!Succeeded(c), Count!Failed(c, now, 1, "provider")} :
        LET fits == Count!StillLeased(table[m], o, now)
            written == [table EXCEPT ![m] = Count!Completed(o)]
        IN  \/ /\ table' = IF fits THEN written ELSE table
               /\ Count!Observe(o, fits) /\ UNCHANGED lost
            \/ /\ fits /\ lost > 0 /\ lost' = lost - 1
               /\ table' \in {table, written} /\ Count!Observe(o, FALSE)
  BY DEF Count!Ends
<1> DEFINE fits == Count!StillLeased(table[m], o, now)
           written == fits /\ table' = [table EXCEPT ![m] = Count!Completed(o)]
<1>2. /\ table \in [Message -> Count!Row] /\ now \in Nat /\ hand[w] \in Deliveries
      /\ c.token = c.attempts
  BY <1>0, CountersAssumption
     DEF CountInv, CountTypes, LeaseNamed, Count!CountersAssumption
<1>3. m \in Message /\ c \in Count!Row
  BY <1>2 DEF Deliveries
<1>4. /\ hand' \in [Worker -> {Count!Nothing} \cup Deliveries] /\ IsFiniteSet(InHand')
      /\ UnderWay' = UnderWay - 1
  BY <1>0, HandFacts DEF CountInv, Totals, UnderWay
<1>5. /\ o.state \in {"sent", "failed", "dead"} /\ o.token = c.token
      /\ Count!Completed(o) \in Count!Row /\ Count!Completed(o).state = o.state
      /\ Count!Completed(o).attempts = c.attempts
  BY <1>1, <1>2, <1>3, EndedCounts
<1>6. /\ ~written => table' = table
      /\ lost' = lost \/ (lost > 0 /\ lost' = lost - 1)
      /\ \E b \in BOOLEAN : (b => written) /\ Count!Observe(o, b)
  <2>1. CASE fits /\ Count!Observe(o, TRUE) /\ lost' = lost
             /\ table' = [table EXCEPT ![m] = Count!Completed(o)]
    BY <2>1
  <2>2. CASE ~fits /\ Count!Observe(o, FALSE) /\ lost' = lost /\ table' = table
    BY <2>2
  <2>3. CASE /\ fits /\ lost > 0 /\ lost' = lost - 1 /\ Count!Observe(o, FALSE)
             /\ table' \in {table, [table EXCEPT ![m] = Count!Completed(o)]}
    BY <2>3
  <2>4. fits \in BOOLEAN
    BY DEF Count!StillLeased
  <2> QED  BY <1>1, <2>1, <2>2, <2>3, <2>4
<1>7. written => table[m].state = "sending" /\ table[m].attempts = c.attempts
  BY <1>2, <1>3, <1>5 DEF Count!StillLeased, CountInv, LeaseNamed
<1>7a. written => table' = [table EXCEPT ![m] = Count!Completed(o)]
  OBVIOUS
<1> HIDE DEF c, m, fits, written
<1>8. PICK saw \in Count!Outcomes :
        /\ results' = [results EXCEPT ![saw] = @ + 1]
        /\ dead' = dead + (IF saw = "dead" THEN 1 ELSE 0) /\ attempts' = attempts
        /\ saw = "sent" => written /\ o.state = "sent"
        /\ saw = "dead" => written /\ o.state = "dead"
  <2>1. \A b \in BOOLEAN : Count!Outcome(o, b) =
          IF ~b THEN "completion_error"
          ELSE IF o.state = "failed" THEN "retry" ELSE o.state
    BY <1>5 DEF Count!Outcome
  <2>2. PICK b \in BOOLEAN : (b => written) /\ Count!Observe(o, b)
    BY <1>6
  <2>3. /\ results' = [results EXCEPT ![Count!Outcome(o, b)] = @ + 1]
        /\ dead' = dead + (IF Count!Outcome(o, b) = "dead" THEN 1 ELSE 0)
        /\ attempts' = attempts
    BY <2>2 DEF Count!Observe, Count!CountedDead
  <2>4. Count!Outcome(o, b) \in Count!Outcomes
    BY <1>5, <2>1 DEF Count!Outcomes
  <2>5. /\ Count!Outcome(o, b) = "sent" => written /\ o.state = "sent"
        /\ Count!Outcome(o, b) = "dead" => written /\ o.state = "dead"
    BY <1>5, <2>1, <2>2
  <2> QED  BY <2>3, <2>4, <2>5
<1>9. /\ table' \in [Message -> Count!Row]
      /\ \A n \in Message :
           /\ table'[n].attempts = table[n].attempts
           /\ table'[n].state = "sending" => table'[n] = table[n]
           /\ \A s \in {"sent", "dead"} : table[n].state = s => table'[n].state = s
      /\ written => table[m].state = "sending" /\ table'[m].state = o.state
  <2>1. CASE written
    <3>1. /\ table' \in [Message -> Count!Row] /\ table'[m] = Count!Completed(o)
          /\ \A n \in Message \ {m} : table'[n] = table[n]
      BY <1>2, <1>3, <1>5, <1>7a, <2>1
    <3>2. ASSUME NEW n \in Message
          PROVE  /\ table'[n].attempts = table[n].attempts
                 /\ table'[n].state = "sending" => table'[n] = table[n]
                 /\ \A s \in {"sent", "dead"} : table[n].state = s => table'[n].state = s
      <4>1. CASE n = m
        BY <1>5, <1>7, <2>1, <3>1, <4>1
      <4>2. CASE n # m
        BY <3>1, <4>2
      <4> QED  BY <4>1, <4>2
    <3> QED  BY <1>5, <1>7, <2>1, <3>1, <3>2
  <2>2. CASE ~written
    BY <1>2, <1>6, <2>2
  <2> QED  BY <2>1, <2>2
<1>10. /\ results' \in [Count!Outcomes -> Nat]
       /\ results'["sent"] = results["sent"] + (IF saw = "sent" THEN 1 ELSE 0)
       /\ results'["dead"] = results["dead"] + (IF saw = "dead" THEN 1 ELSE 0)
       /\ Count!Counted' = Count!Counted + 1
  BY <1>8, ObservedOnce DEF CountInv
<1>11. CountTypes'
  <2>1. lost' = lost \/ (lost > 0 /\ lost' = lost - 1)
    BY <1>6
  <2>2. lost' \in 0 .. MaxLost /\ attempts' \in Nat
    BY <1>8, <2>1, TotalsFacts
  <2>3. dead \in Nat /\ dead' = dead + (IF saw = "dead" THEN 1 ELSE 0)
    BY <1>8 DEF CountInv, CountTypes
  <2>4. dead' \in Nat
    BY <2>3
  <2> QED  BY <1>0, <1>4, <1>9, <1>10, <2>2, <2>4 DEF CountInv, CountTypes
<1>12. LeaseNamed'
  <2>1. hand \in [Worker -> {Count!Nothing} \cup Deliveries]
    BY DEF CountInv, CountTypes
  <2>2. \A v \in Worker : hand'[v] # Count!Nothing => hand'[v] = hand[v]
    BY <1>0, <2>1
  <2>3. \A n \in Message : table'[n].state = "sending" => table'[n] = table[n]
    BY <1>9
  <2> QED  BY <2>2, <2>3 DEF CountInv, LeaseNamed, Count!Nothing
<1>13. Totals'
  <2>0. /\ \A n \in Message : table[n].state = "sent" => table'[n].state = "sent"
        /\ \A n \in Message : table[n].state = "dead" => table'[n].state = "dead"
        /\ \A n \in Message : table'[n].attempts = table[n].attempts
    BY <1>9
  <2>1. /\ RowsSent \in Nat /\ RowsSent' \in Nat /\ RowsSent <= RowsSent'
        /\ RowsDead \in Nat /\ RowsDead' \in Nat /\ RowsDead <= RowsDead'
    BY <2>0, StateKept DEF RowsSent, RowsDead
  <2>2. saw = "sent" => RowsSent + 1 <= RowsSent'
    <3> SUFFICES ASSUME saw = "sent" PROVE RowsSent + 1 <= RowsSent'
      OBVIOUS
    <3>1. table[m].state # "sent" /\ table'[m].state = "sent"
      BY <1>8, <1>9
    <3> QED  BY <1>3, <2>0, <3>1, StateGained DEF RowsSent
  <2>3. saw = "dead" => RowsDead + 1 <= RowsDead'
    <3> SUFFICES ASSUME saw = "dead" PROVE RowsDead + 1 <= RowsDead'
      OBVIOUS
    <3>1. table[m].state # "dead" /\ table'[m].state = "dead"
      BY <1>8, <1>9
    <3> QED  BY <1>3, <2>0, <3>1, StateGained DEF RowsDead
  <2>4. Charged' = Charged /\ IsFiniteSet(Accounts')
    BY <2>0, AccountsKept DEF CountInv, Totals, Charged
  <2> DEFINE i == IF saw = "sent" THEN 1 ELSE 0
             j == IF saw = "dead" THEN 1 ELSE 0
  <2>5. /\ i \in {0, 1} /\ results'["sent"] = results["sent"] + i /\ RowsSent + i <= RowsSent'
        /\ j \in {0, 1} /\ results'["dead"] = results["dead"] + j /\ RowsDead + j <= RowsDead'
        /\ dead' = dead + j
    BY <1>8, <1>10, <2>1, <2>2, <2>3
  <2> HIDE DEF i, j
  <2>6. PICK f \in {0, 1} : lost' = lost - f /\ lost' \in 0 .. MaxLost
    <3>1. lost' = lost \/ (lost > 0 /\ lost' = lost - 1)
      BY <1>6
    <3> QED  BY <3>1, TotalsFacts
  <2>7. /\ Charged' - attempts' = Charged - attempts + 0
        /\ attempts' - Count!Counted' - UnderWay' = attempts - Count!Counted - UnderWay + 0
        /\ 0 <= f
    BY <1>4, <1>8, <1>10, <2>4, <2>6, TotalsFacts
  <2> QED  BY <1>4, <2>1, <2>4, <2>5, <2>6, <2>7, TotalsMove
<1> QED  BY <1>11, <1>12, <1>13 DEF CountInv

\* Every step of the counters.
LEMMA CountPreserved == CountInv /\ [Count!Next]_countVars => CountInv'
<1> SUFFICES ASSUME CountInv, [Count!Next]_countVars PROVE CountInv'
  OBVIOUS
<1>1. ASSUME UNCHANGED <<table, hand, attempts, results, dead, lost>>, now' \in 0 .. MaxTime
      PROVE  CountInv'
  <2>1. CountTypes' /\ LeaseNamed'
    BY <1>1 DEF CountInv, CountTypes, LeaseNamed, Count!Nothing
  <2>2. Totals'
    BY <1>1 DEF CountInv, Totals, InHand, Count!InHand, Count!Nothing, Accounts,
                Count!OnAccount, RowsSent, RowsDead, Count!InState, Charged, UnderWay,
                Count!Counted
  <2> QED  BY <2>1, <2>2 DEF CountInv
<1>2. now \in 0 .. MaxTime /\ MaxTime \in Nat
  BY TotalsFacts DEF CountInv, CountTypes
<1>3. CASE UNCHANGED countVars
  BY <1>1, <1>2, <1>3 DEF countVars
<1>4. CASE Count!Tick
  <2>1. now' \in 0 .. MaxTime
    BY <1>2, <1>4 DEF Count!Tick
  <2> QED  BY <1>1, <1>4, <2>1 DEF Count!Tick, Count!counters
<1>5. ASSUME NEW w \in Worker, Count!Ends(w) \/ Count!Dies(w) PROVE CountInv'
  BY <1>5, EndsKept, DiesKept
<1>6. ASSUME NEW w \in Worker, NEW m \in Message, Count!Claim(w, m) \/ Count!ClaimLost(w, m)
      PROVE  CountInv'
  BY <1>6, ClaimKept, ClaimLostKept
<1> QED  BY <1>3, <1>4, <1>5, <1>6, ReserveKept DEF Count!Next

\* The row of a message that was sent with its first attempt.
LEMMA SentAtOnce ==
  LET q == Count!Completed(Count!Succeeded(
             Count!Leased(Count!SubmittedRow(MaxRetries, 0, 0, MaxAge), 0, Lease, 1)))
  IN  q \in Count!Row /\ q.state = "sent" /\ q.attempts = 1
<1> DEFINE r == Count!SubmittedRow(MaxRetries, 0, 0, MaxAge)
           c == Count!Leased(r, 0, Lease, 1)
           o == Count!Succeeded(c)
<1>1. r \in Count!Row /\ r.attempts = 0
  BY SubmittedCounts
<1> HIDE DEF r
<1>2. c \in Count!Row /\ c.attempts = 1
  <2>1. 1 \in Nat /\ 1 = r.attempts + 1 /\ 0 \in Nat
    BY <1>1
  <2> QED  BY <1>1, <2>1, ClaimedCounts
<1> HIDE DEF c
<1>3. o.state = "sent"
  BY <1>2 DEF Count!Succeeded, Count!Row
<1>4. /\ Count!Completed(o) \in Count!Row /\ Count!Completed(o).state = o.state
      /\ Count!Completed(o).attempts = c.attempts
  BY <1>2, EndedCounts
<1> QED  BY <1>2, <1>3, <1>4 DEF c, r

\* The counters at the start, and when every message was sent at once.
LEMMA CountFirst == Count!Init \/ CountingOver => CountInv
<1>0. MaxTime \in Nat /\ MaxLost \in Nat
  BY CountersAssumption DEF Count!CountersAssumption
<1>1. ASSUME hand = [w \in Worker |-> Count!Nothing]
      PROVE  InHand = {} /\ IsFiniteSet(InHand) /\ UnderWay = 0
  BY <1>1, FS_EmptySet DEF InHand, Count!InHand, UnderWay
<1>2. ASSUME Count!Init PROVE CountInv
  <2>1. table \in [Message -> Count!Row] /\ \A m \in Message : table[m].attempts = 0
    BY <1>2, SubmittedCounts DEF Count!Init
  <2>2. \A m \in Message : table[m].state = "pending"
    BY <1>2, SubmittedCounts DEF Count!Init
  <2>3. Accounts = {}
    BY <2>1 DEF Accounts, Count!OnAccount
  <2>4. IsFiniteSet(Accounts) /\ Charged = 0
    BY <2>3, FS_EmptySet DEF Charged
  <2>5. RowsSent = 0 /\ RowsDead = 0
    <3>1. Count!InState("sent") = {} /\ Count!InState("dead") = {}
      BY <2>2 DEF Count!InState
    <3> QED  BY <3>1, FS_EmptySet DEF RowsSent, RowsDead
  <2>6. now \in 0 .. MaxTime /\ lost \in 0 .. MaxLost /\ MaxLost - lost = 0
    BY <1>0, <1>2 DEF Count!Init
  <2>7. /\ results["sent"] = 0 /\ results["dead"] = 0 /\ Count!Counted = 0
        /\ results \in [Count!Outcomes -> Nat]
    BY <1>2 DEF Count!Init, Count!Outcomes, Count!Counted
  <2>8. CountTypes
    BY <1>2, <2>1, <2>6, <2>7 DEF Count!Init, CountTypes
  <2>9. LeaseNamed
    BY <1>2, <2>2 DEF Count!Init, LeaseNamed
  <2>10. Totals
    BY <1>1, <1>2, <2>4, <2>5, <2>6, <2>7 DEF Count!Init, Totals
  <2> QED  BY <2>8, <2>9, <2>10 DEF CountInv
<1>3. ASSUME CountingOver PROVE CountInv
  <2> DEFINE N == Cardinality(Message)
  <2>0. N \in Nat
    BY FewMessages, FS_CardinalityType
  <2>1. /\ table \in [Message -> Count!Row]
        /\ \A m \in Message : table[m].attempts = 1 /\ table[m].state = "sent"
    BY <1>3, SentAtOnce DEF CountingOver
  <2>2. Accounts = Message \X {1}
    BY <2>1 DEF Accounts, Count!OnAccount
  <2>3. IsFiniteSet(Message \X {1}) /\ Cardinality(Message \X {1}) = N
    <3> DEFINE f == [m \in Message |-> <<m, 1>>]
    <3>1. f \in Injection(Message, Message \X {1})
      BY DEF Injection, IsInjective
    <3>2. \A x \in Message \X {1} : \E m \in Message : f[m] = x
      OBVIOUS
    <3>3. f \in Surjection(Message, Message \X {1})
      BY <3>2 DEF Surjection
    <3>4. f \in Bijection(Message, Message \X {1})
      BY <3>1, <3>3 DEF Bijection
    <3> QED  BY <3>4, FewMessages, FS_Bijection DEF ExistsBijection
  <2>4. IsFiniteSet(Accounts) /\ Charged = N
    BY <2>2, <2>3 DEF Charged
  <2>5. RowsSent = N /\ RowsDead = 0
    <3>1. Count!InState("sent") = Message /\ Count!InState("dead") = {}
      BY <2>1 DEF Count!InState
    <3> QED  BY <3>1, FS_EmptySet DEF RowsSent, RowsDead
  <2>6. now \in 0 .. MaxTime /\ lost \in 0 .. MaxLost /\ MaxLost - lost = MaxLost
    BY <1>0, <1>3 DEF CountingOver
  <2> HIDE DEF N
  <2>7. /\ results["sent"] = N /\ results["dead"] = 0 /\ Count!Counted = N
        /\ results \in [Count!Outcomes -> Nat]
    BY <1>3, <2>0 DEF CountingOver, Count!Outcomes, Count!Counted, N
  <2>8. attempts = N /\ dead = 0
    BY <1>3 DEF CountingOver, N
  <2>9. CountTypes
    BY <1>3, <2>0, <2>1, <2>6, <2>7, <2>8 DEF CountingOver, CountTypes
  <2>10. LeaseNamed
    BY <1>3, <2>1 DEF CountingOver, LeaseNamed
  <2>11. Totals
    BY <1>0, <1>1, <1>3, <2>0, <2>4, <2>5, <2>6, <2>7, <2>8 DEF CountingOver, Totals
  <2> QED  BY <2>9, <2>10, <2>11 DEF CountInv
<1> QED  BY <1>2, <1>3

\* The counters keep their invariant, whichever of the two models is alive.
LEMMA CountInvariance == MetricsSpec => []CountInv
<1>1. MetricsInit => CountInv
  BY CountFirst DEF MetricsInit
<1>2. CountInv /\ [MetricsNext]_<<vars, countVars>> => CountInv'
  BY CountPreserved DEF MetricsNext
<1> QED  BY <1>1, <1>2, PTL DEF MetricsSpec

\* No message is counted sent or dead that is not, or twice, and every attempt on a
\* row's account was observed and has a result unless it is under way, but for as many
\* as there were lost answers and dead workers: for any messages, workers, retry limits,
\* age limits and leases (observeDeliveryAttempt, observeDeliveryResult).
THEOREM CountersAreTrue == MetricsSpec => []CountsTrue
<1>1. ASSUME CountInv PROVE CountsTrue
  <2>1. Count!CountsAreTrue
    BY <1>1, SameSets DEF CountInv, Totals, RowsSent, RowsDead, Count!CountsAreTrue
  <2>2. Count!RowAttempts = Charged /\ Count!Cardinality(Count!InHand) = UnderWay
    BY SameSets DEF Count!RowAttempts, Charged, Accounts, UnderWay, InHand
  <2>3. Count!AttemptsAccounted
    BY <1>1, <2>2 DEF CountInv, Totals, Count!AttemptsAccounted
  <2> QED  BY <2>1, <2>3 DEF CountsTrue
<1> QED  BY <1>1, CountInvariance, PTL

\* The types of both models: no gauge is negative or has two values for a label.
THEOREM MetricsTypeCorrect == MetricsSpec => []MetricsTypeOK
<1>1. ASSUME CollectorInv PROVE TypeOK
  <2>1. TableTypes /\ GaugeTypes
    BY <1>1 DEF CollectorInv
  <2>2. \A m \in Msg : row[m].state \in State \cup {"none"}
    BY <2>1 DEF TableTypes, RowRecord
  <2>3. \A g \in counts : g[1] \in Channel \X State /\ g[2] \in 0 .. Cardinality(Msg)
    BY <2>1 DEF GaugeTypes, CountGauge
  <2>4. \A g \in ages : g[1] \in Channel /\ g[2] \in 0 .. MaxClock
    BY <2>1 DEF GaugeTypes, AgeGauge
  <2>5. /\ Cardinality(Labels(counts)) = Cardinality(counts)
        /\ Cardinality(Labels(ages)) = Cardinality(ages)
    BY <2>1, LabelsCounted DEF GaugeTypes
  <2> QED  BY <2>1, <2>2, <2>3, <2>4, <2>5 DEF TableTypes, Stages, TypeOK
<1>2. ASSUME CountInv PROVE Count!TypeOK
  <2>1. CountTypes
    BY <1>2 DEF CountInv
  <2>2. \A m \in Message : table[m] \in Count!Row
    BY <2>1 DEF CountTypes
  <2>3. \A w \in Worker : hand[w] # Count!Nothing =>
          hand[w].message \in Message /\ hand[w].copy \in Count!Row
    BY <2>1 DEF CountTypes, Deliveries
  <2> QED  BY <2>1, <2>2, <2>3 DEF CountTypes, Count!TypeOK
<1>3. CollectorInv /\ CountInv => MetricsTypeOK
  BY <1>1, <1>2 DEF MetricsTypeOK
<1> QED  BY <1>3, CollectorInvariance, CountInvariance, PTL

=============================================================================
