-------------------------- MODULE SubmissionProofs --------------------------
(***************************************************************************)
(* Proofs about Submission for any submissions, keys and contents, any     *)
(* number of threads and any budget of retries, faults and deletions.      *)
(***************************************************************************)
EXTENDS Submission, FiniteSetTheorems, TLAPS

-----------------------------------------------------------------------------
(* The inductive invariant. *)

Key(t) == KeyOf[thread[t].sub]

\* A thread at rest holds no delivery.
RestIsEmpty == \A t \in Thread : thread[t].pc = "idle" => ~thread[t].held

\* The unique index: of one key there is one row, or one transaction about
\* to commit one.
IndexHolds ==
  /\ \A r, s \in table :
       KeyOf[r.by] = KeyOf[s.by] /\ KeyOf[r.by] # NoKey => r = s
  /\ \A t \in Thread :
       thread[t].pc = "commit" /\ Key(t) # NoKey =>
         /\ \A r \in table : KeyOf[r.by] # Key(t)
         /\ \A s \in Thread :
              thread[s].pc = "commit" /\ Key(s) = Key(t) => s = t

\* The table bears out the answer a given to the submission u.
Accepted(u, a) ==
  \E r \in table : /\ r.id = a.id
                   /\ KeyOf[r.by] = KeyOf[u]
                   /\ ContentOf[r.by] = ContentOf[u]

Refused(u) ==
  \E r \in table : KeyOf[r.by] = KeyOf[u] /\ ContentOf[r.by] # ContentOf[u]

BornOut(u, a) ==
  /\ a.answer = "accepted" => Accepted(u, a)
  /\ a.answer = "conflict" => Refused(u)

\* So it does those that reached the submitter and those about to be sent.
AnswersBornOut ==
  /\ \A u \in Submission : \A a \in told[u] : BornOut(u, a)
  /\ \A t \in Thread :
       thread[t].pc = "reply" => BornOut(thread[t].sub, thread[t])

Holders(u) == {t \in Thread : thread[t].held /\ thread[t].sub = u}

\* A submission is nowhere more often than it was sent.
DeliveriesCounted ==
  \A u \in Submission : waiting[u] + Cardinality(Holders(u)) <= tries[u]

\* Threads that may yet insert a row of u, or give it back to be inserted.
MayStore(t) ==
  \/ thread[t].pc \in {"got", "insert", "commit", "select"}
  \/ /\ thread[t].pc = "reply" /\ thread[t].held
     /\ thread[t].sub \in Direct /\ Requeued(thread[t].answer)

Storing(u) == {t \in Thread : thread[t].sub = u /\ MayStore(t)}
Rows(u) == {r \in table : r.by = u}

\* Every row of a submission, stored or to come, answers for one time it was
\* sent or for one fault.
RowsCounted ==
  /\ IsFiniteSet(table)
  /\ \A u \in Submission :
       Cardinality(Rows(u)) + waiting[u] + Cardinality(Storing(u))
         <= tries[u] + (MaxFaults - faults)

Inv ==
  /\ TypeOK
  /\ RestIsEmpty
  /\ IndexHolds
  /\ AnswersBornOut
  /\ MessageKept
  /\ DeliveriesCounted
  /\ RowsCounted

USE SubmissionAssumption, SubmissionBounds

-----------------------------------------------------------------------------
(* What a step does to the threads. *)

ThreadType == [pc: PC, sub: Submission, held: BOOLEAN, id: Nat, answer: Answer]

\* The goroutine at rest is one.
LEMMA IdleTypes ==
  /\ IdleThread \in ThreadType
  /\ IdleThread.pc = "idle" /\ ~IdleThread.held
<1>1. (CHOOSE u \in Submission : TRUE) \in Submission
  OBVIOUS
<1> QED  BY <1>1 DEF IdleThread, ThreadType, PC, Answer, NoId

\* Every action of a thread changes that thread only, and these fields of it.
LEMMA OthersStay ==
  ASSUME TypeOK, NEW t \in Thread, ThreadStep(t) \/ FaultyStep(t) \/ Redeploy(t)
  PROVE  \A s \in Thread : s # t => thread'[s] = thread[s]
<1> USE DEF TypeOK, GoesTo, Answers
<1>1. ASSUME Receive(t) PROVE \A s \in Thread : s # t => thread'[s] = thread[s]
  BY <1>1 DEF Receive
<1>2. ASSUME Admit(t) PROVE \A s \in Thread : s # t => thread'[s] = thread[s]
  BY <1>2 DEF Admit
<1>3. ASSUME Insert(t) PROVE \A s \in Thread : s # t => thread'[s] = thread[s]
  BY <1>3 DEF Insert
<1>4. ASSUME Commit(t) \/ Select(t) \/ CreateFails(t)
      PROVE  \A s \in Thread : s # t => thread'[s] = thread[s]
  BY <1>4 DEF Commit, Select, CreateFails
<1>5. ASSUME Reply(t) \/ ConnectionLost(t) \/ Restart(t) \/ BeginShutdown(t)
      PROVE  \A s \in Thread : s # t => thread'[s] = thread[s]
  BY <1>5 DEF Reply, ConnectionLost, Restart, BeginShutdown
<1> QED  BY <1>1, <1>2, <1>3, <1>4, <1>5
         DEF ThreadStep, FaultyStep, Crash, Redeploy

\* The fields of a thread after GoesTo and Answers.
LEMMA Moved ==
  ASSUME TypeOK, NEW t \in Thread
  PROVE  /\ \A pc \in PC :
              GoesTo(t, pc) =>
                /\ thread' \in [Thread -> ThreadType]
                /\ thread'[t].pc = pc /\ thread'[t].sub = thread[t].sub
                /\ thread'[t].held = thread[t].held
                /\ \A s \in Thread : s # t => thread'[s] = thread[s]
         /\ \A answer \in Answer, id \in Nat :
              Answers(t, answer, id) =>
                /\ thread' \in [Thread -> ThreadType]
                /\ thread'[t].pc = "reply" /\ thread'[t].sub = thread[t].sub
                /\ thread'[t].held = thread[t].held
                /\ thread'[t].answer = answer /\ thread'[t].id = id
                /\ \A s \in Thread : s # t => thread'[s] = thread[s]
<1> thread \in [Thread -> ThreadType]
  BY DEF TypeOK, ThreadType
<1>1. ASSUME NEW pc \in PC, GoesTo(t, pc)
      PROVE  /\ thread' \in [Thread -> ThreadType]
             /\ thread'[t].pc = pc /\ thread'[t].sub = thread[t].sub
             /\ thread'[t].held = thread[t].held
             /\ \A s \in Thread : s # t => thread'[s] = thread[s]
  BY <1>1 DEF GoesTo, ThreadType
<1>2. ASSUME NEW answer \in Answer, NEW id \in Nat, Answers(t, answer, id)
      PROVE  /\ thread' \in [Thread -> ThreadType]
             /\ thread'[t].pc = "reply" /\ thread'[t].sub = thread[t].sub
             /\ thread'[t].held = thread[t].held
             /\ thread'[t].answer = answer /\ thread'[t].id = id
             /\ \A s \in Thread : s # t => thread'[s] = thread[s]
  <2> DEFINE w == [thread[t] EXCEPT !.pc = "reply", !.answer = answer, !.id = id]
  <2>1. thread[t] \in ThreadType /\ "reply" \in PC
    BY DEF PC
  <2>2. /\ w \in ThreadType /\ w.pc = "reply" /\ w.answer = answer
        /\ w.id = id /\ w.sub = thread[t].sub /\ w.held = thread[t].held
    BY <2>1 DEF ThreadType
  <2>3. thread' = [thread EXCEPT ![t] = w]
    BY <1>2 DEF Answers
  <2> HIDE DEF w
  <2> QED  BY <2>2, <2>3
<1> QED  BY <1>1, <1>2

\* What Lookup finds is an answer, and a true one.
LEMMA LookupTrue ==
  ASSUME TypeOK, NEW u \in Submission
  PROVE  /\ Lookup(u).answer \in Answer /\ Lookup(u).id \in Nat
         /\ BornOut(u, Lookup(u))
<1>1. CASE Existing(u) = {}
  BY <1>1 DEF Lookup, Answer, NoId, BornOut
<1>2. CASE Existing(u) # {}
  <2> DEFINE r == CHOOSE r \in Existing(u) : TRUE
  <2>1. r \in table /\ KeyOf[r.by] = KeyOf[u] /\ r.id \in Nat
    BY <1>2 DEF Existing, TypeOK
  <2> HIDE DEF r
  <2>2. Lookup(u) = IF ContentOf[r.by] = ContentOf[u]
                    THEN [answer |-> "accepted", id |-> r.id]
                    ELSE [answer |-> "conflict", id |-> NoId]
    BY <1>2 DEF Lookup, r
  <2> QED  BY <2>1, <2>2 DEF Answer, NoId, BornOut, Accepted, Refused
<1> QED  BY <1>1, <1>2

-----------------------------------------------------------------------------
(* Counting. *)

N(b) == IF b THEN 1 ELSE 0

\* Two sets that differ in x alone.
LEMMA OneApart ==
  ASSUME NEW A, NEW B, NEW x, IsFiniteSet(A), A \ {x} = B \ {x}
  PROVE  /\ IsFiniteSet(B)
         /\ Cardinality(A) \in Nat /\ Cardinality(B) \in Nat
         /\ Cardinality(A) - N(x \in A) = Cardinality(B) - N(x \in B)
<1>1. IsFiniteSet(A \ {x})
  BY FS_RemoveElement
<1>2. /\ IsFiniteSet((B \ {x}) \cup {x})
      /\ B \subseteq (B \ {x}) \cup {x}
  BY <1>1, FS_AddElement
<1>3. IsFiniteSet(B)
  BY <1>2, FS_Subset
<1>4. /\ Cardinality(A \ {x}) = IF x \in A THEN Cardinality(A) - 1 ELSE Cardinality(A)
      /\ Cardinality(B \ {x}) = IF x \in B THEN Cardinality(B) - 1 ELSE Cardinality(B)
  BY <1>3, FS_RemoveElement
<1>5. Cardinality(A) \in Nat /\ Cardinality(B) \in Nat
  BY <1>3, FS_CardinalityType
<1> QED  BY <1>3, <1>4, <1>5 DEF N

\* When only the thread t changes, only it enters or leaves the sets of
\* threads that are counted.
LEMMA ThreadsCounted ==
  ASSUME NEW t \in Thread, NEW u \in Submission,
         \A s \in Thread : s # t => thread'[s] = thread[s]
  PROVE  /\ Cardinality(Holders(u)) \in Nat /\ Cardinality(Holders(u)') \in Nat
         /\ Cardinality(Storing(u)) \in Nat /\ Cardinality(Storing(u)') \in Nat
         /\ Cardinality(Holders(u)) - N(t \in Holders(u))
              = Cardinality(Holders(u)') - N(t \in Holders(u)')
         /\ Cardinality(Storing(u)) - N(t \in Storing(u))
              = Cardinality(Storing(u)') - N(t \in Storing(u)')
<1>1. Holders(u) \subseteq Thread /\ Storing(u) \subseteq Thread
  BY DEF Holders, Storing
<1>2. IsFiniteSet(Holders(u)) /\ IsFiniteSet(Storing(u))
  BY <1>1, FS_Subset
<1>3. Holders(u) \ {t} = Holders(u)' \ {t}
  BY DEF Holders
<1>4. Storing(u) \ {t} = Storing(u)' \ {t}
  BY DEF Storing, MayStore
<1> QED  BY <1>2, <1>3, <1>4, OneApart

\* A row is added to the rows of one submission.
LEMMA RowAdded ==
  ASSUME IsFiniteSet(table), NEW t \in Thread, table' = WithRow(t),
         NEW u \in Submission
  PROVE  /\ IsFiniteSet(table')
         /\ Cardinality(Rows(u)) \in Nat /\ Cardinality(Rows(u)') \in Nat
         /\ Cardinality(Rows(u)') <= Cardinality(Rows(u)) + N(thread[t].sub = u)
<1> DEFINE new == [id |-> thread[t].id, by |-> thread[t].sub, deleted |-> FALSE]
<1>1. table' = table \cup {new} /\ new.by = thread[t].sub
  BY DEF WithRow
<1> HIDE DEF new
<1>2. IsFiniteSet(table')
  BY <1>1, FS_AddElement
<1>3. IsFiniteSet(Rows(u)) /\ IsFiniteSet(Rows(u)')
  BY <1>2, FS_Subset DEF Rows
<1>4. Cardinality(Rows(u)) \in Nat /\ Cardinality(Rows(u)') \in Nat
  BY <1>3, FS_CardinalityType
<1>5. CASE thread[t].sub = u
  <2>1. Rows(u)' = Rows(u) \cup {new}
    BY <1>1, <1>5 DEF Rows
  <2>2. Cardinality(Rows(u) \cup {new}) =
          IF new \in Rows(u) THEN Cardinality(Rows(u)) ELSE Cardinality(Rows(u)) + 1
    BY <1>3, FS_AddElement
  <2> QED  BY <1>2, <1>4, <1>5, <2>1, <2>2 DEF N
<1>6. CASE thread[t].sub # u
  <2>1. Rows(u)' = Rows(u)
    BY <1>1, <1>6 DEF Rows
  <2> QED  BY <1>2, <1>4, <1>6, <2>1 DEF N
<1> QED  BY <1>5, <1>6

\* What a row bears out stays so while every row keeps its id and submission.
LEMMA StillBornOut ==
  ASSUME \A r \in table : \E s \in table' : s.id = r.id /\ s.by = r.by
  PROVE  \A u, a : BornOut(u, a) => BornOut(u, a)'
<1> SUFFICES ASSUME NEW u, NEW a, BornOut(u, a) PROVE BornOut(u, a)'
  OBVIOUS
<1>1. Accepted(u, a) => Accepted(u, a)'
  BY DEF Accepted
<1>2. Refused(u) => Refused(u)'
  BY DEF Refused
<1> QED  BY <1>1, <1>2 DEF BornOut

\* The first states.
LEMMA InitInv == Init => Inv
<1> SUFFICES ASSUME Init PROVE Inv
  OBVIOUS
<1> USE DEF Init
<1>1. TypeOK
  BY IdleTypes DEF TypeOK, ThreadType
<1>2. RestIsEmpty /\ IndexHolds /\ MessageKept
  BY IdleTypes DEF RestIsEmpty, IndexHolds, MessageKept
<1>3. AnswersBornOut
  BY IdleTypes DEF AnswersBornOut
<1>4. \A u \in Submission : Holders(u) = {} /\ Storing(u) = {} /\ Rows(u) = {}
  BY IdleTypes DEF Holders, Storing, MayStore, Rows
<1>5. DeliveriesCounted /\ RowsCounted
  BY <1>4, FS_EmptySet DEF DeliveriesCounted, RowsCounted
<1> QED  BY <1>1, <1>2, <1>3, <1>5 DEF Inv

-----------------------------------------------------------------------------
(* What the steps of one thread have in common. *)

OthersSame(t) == \A s \in Thread : s # t => thread'[s] = thread[s]

\* A delivery that comes back to the queue fits there.
LEMMA ReturnedFits ==
  ASSUME Inv, NEW t \in Thread
  PROVE  /\ Returned(t) \in [Submission -> 0 .. MaxTries]
         /\ \A u \in Submission :
              Returned(t)[u] = waiting[u] + N(u \in Direct /\ t \in Holders(u))
<1> USE DEF Inv
<1>0. waiting \in [Submission -> 0 .. MaxTries] /\ tries \in [Submission -> 0 .. MaxTries]
  BY DEF TypeOK
<1>1. CASE thread[t].held /\ thread[t].sub \in Direct
  <2> DEFINE u == thread[t].sub
  <2>1. u \in Submission /\ t \in Holders(u)
    BY <1>1 DEF Holders, TypeOK
  <2>2. IsFiniteSet(Holders(u))
    BY FS_Subset DEF Holders
  <2>3. Cardinality(Holders(u)) \in Nat /\ Cardinality(Holders(u)) # 0
    BY <2>1, <2>2, FS_CardinalityType, FS_EmptySet
  <2>4. waiting[u] + Cardinality(Holders(u)) <= tries[u]
    BY <2>1 DEF DeliveriesCounted
  <2>5. waiting[u] + 1 \in 0 .. MaxTries
    BY <1>0, <2>1, <2>3, <2>4
  <2>6. Returned(t) = [waiting EXCEPT ![u] = waiting[u] + 1]
    BY <1>1 DEF Returned
  <2>7. \A v \in Submission : t \in Holders(v) <=> v = u
    BY <1>1 DEF Holders
  <2> QED  BY <1>0, <1>1, <2>1, <2>5, <2>6, <2>7 DEF N
<1>2. CASE ~(thread[t].held /\ thread[t].sub \in Direct)
  <2>1. \A v \in Submission : ~(v \in Direct /\ t \in Holders(v))
    BY <1>2 DEF Holders
  <2> QED  BY <1>0, <1>2, <2>1 DEF Returned, N
<1> QED  BY <1>1, <1>2

\* What a step of t moves between the queue, its hands, the table and the
\* faults, it does not multiply.
LEMMA CountsStep ==
  ASSUME Inv, TypeOK', NEW t \in Thread, OthersSame(t), tries' = tries,
         IsFiniteSet(table'),
         \A u \in Submission :
           waiting'[u] + N(t \in Holders(u)') <= waiting[u] + N(t \in Holders(u)),
         \A u \in Submission :
           /\ Cardinality(Rows(u)') \in Nat /\ Cardinality(Rows(u)) \in Nat
           /\ Cardinality(Rows(u)') + waiting'[u] + N(t \in Storing(u)') + faults'
                <= Cardinality(Rows(u)) + waiting[u] + N(t \in Storing(u)) + faults
  PROVE  DeliveriesCounted' /\ RowsCounted'
<1> SUFFICES ASSUME NEW u \in Submission
             PROVE  /\ waiting'[u] + Cardinality(Holders(u)') <= tries'[u]
                    /\ Cardinality(Rows(u)') + waiting'[u] + Cardinality(Storing(u)')
                         <= tries'[u] + (MaxFaults - faults')
  BY DEF DeliveriesCounted, RowsCounted
<1>1. /\ waiting[u] \in Nat /\ waiting'[u] \in Nat
      /\ tries[u] \in Nat /\ tries'[u] = tries[u]
      /\ faults \in Nat /\ faults' \in Nat
  BY DEF Inv, TypeOK
<1>2. \A b : N(b) \in Nat
  BY DEF N
<1>3. /\ waiting[u] + Cardinality(Holders(u)) <= tries[u]
      /\ Cardinality(Rows(u)) + waiting[u] + Cardinality(Storing(u))
           <= tries[u] + (MaxFaults - faults)
  BY DEF Inv, DeliveriesCounted, RowsCounted
<1>4. /\ Cardinality(Holders(u)) \in Nat /\ Cardinality(Holders(u)') \in Nat
      /\ Cardinality(Storing(u)) \in Nat /\ Cardinality(Storing(u)') \in Nat
      /\ Cardinality(Holders(u)) - N(t \in Holders(u))
           = Cardinality(Holders(u)') - N(t \in Holders(u)')
      /\ Cardinality(Storing(u)) - N(t \in Storing(u))
           = Cardinality(Storing(u)') - N(t \in Storing(u)')
  BY ThreadsCounted DEF OthersSame
<1>5. waiting'[u] + N(t \in Holders(u)') <= waiting[u] + N(t \in Holders(u))
  OBVIOUS
<1>6. /\ Cardinality(Rows(u)') \in Nat /\ Cardinality(Rows(u)) \in Nat
      /\ Cardinality(Rows(u)') + waiting'[u] + N(t \in Storing(u)') + faults'
           <= Cardinality(Rows(u)) + waiting[u] + N(t \in Storing(u)) + faults
  OBVIOUS
<1> QED  BY <1>1, <1>2, <1>3, <1>4, <1>5, <1>6

\* A step of t that leaves the table alone inserts nothing in it.
LEMMA SameRows ==
  ASSUME Inv, table' = table
  PROVE  /\ IsFiniteSet(table')
         /\ \A u \in Submission : /\ Rows(u)' = Rows(u)
                                  /\ Cardinality(Rows(u)) \in Nat
<1>1. IsFiniteSet(table)
  BY DEF Inv, RowsCounted
<1>2. \A u \in Submission : Rows(u)' = Rows(u) /\ IsFiniteSet(Rows(u))
  BY <1>1, FS_Subset DEF Rows
<1> QED  BY <1>1, <1>2, FS_CardinalityType

\* It keeps the index unless it begins to commit.
LEMMA SameIndex ==
  ASSUME Inv, table' = table, NEW t \in Thread, OthersSame(t),
         thread'[t].pc # "commit"
  PROVE  IndexHolds'
BY DEF Inv, IndexHolds, OthersSame, Key

\* It needs a reason for the answer it is about to give only.
LEMMA SameAnswers ==
  ASSUME Inv, \A r \in table : \E s \in table' : s.id = r.id /\ s.by = r.by,
         NEW t \in Thread, OthersSame(t), told' = told,
         thread'[t].pc = "reply" => BornOut(thread[t].sub, thread[t])'
  PROVE  AnswersBornOut'
<1>1. \A u, a : BornOut(u, a) => BornOut(u, a)'
  BY StillBornOut
<1>2. \A u \in Submission : \A a \in told'[u] : BornOut(u, a)'
  BY <1>1 DEF Inv, AnswersBornOut
<1>3. \A s \in Thread :
        thread'[s].pc = "reply" => BornOut(thread[s].sub, thread[s])'
  BY <1>1 DEF Inv, AnswersBornOut, OthersSame
<1> QED  BY <1>2, <1>3 DEF AnswersBornOut

\* A thread that is serving goes on without giving up what it serves.
LEMMA Serves ==
  ASSUME Inv, NEW t \in Thread, OthersSame(t),
         thread' \in [Thread -> ThreadType],
         thread[t].pc \in {"got", "insert", "commit", "select"},
         thread'[t].pc # "idle",
         thread'[t].sub = thread[t].sub, thread'[t].held = thread[t].held,
         UNCHANGED <<tries, waiting, stopping, told, deletes>>,
         minted' \in Nat, faults' \in 0 .. MaxFaults,
         table' \subseteq [id: Nat, by: Submission, deleted: BOOLEAN],
         IsFiniteSet(table'), table \subseteq table',
         IndexHolds',
         thread'[t].pc = "reply" => BornOut(thread[t].sub, thread[t])',
         \A u \in Submission :
           /\ Cardinality(Rows(u)') \in Nat /\ Cardinality(Rows(u)) \in Nat
           /\ Cardinality(Rows(u)') + N(t \in Storing(u)') + faults'
                <= Cardinality(Rows(u)) + N(thread[t].sub = u) + faults
  PROVE  Inv'
<1>1. TypeOK'
  BY DEF Inv, TypeOK, ThreadType
<1>2. RestIsEmpty'
  BY DEF Inv, RestIsEmpty, OthersSame
<1>3. AnswersBornOut'
  BY SameAnswers
<1>4. MessageKept'
  <2>1. \A s \in Thread : thread'[s].held = thread[s].held
                          /\ thread'[s].sub = thread[s].sub
    BY DEF OthersSame
  <2> QED  BY <2>1 DEF Inv, MessageKept, SettledForGood
<1>5. \A u \in Submission : N(t \in Holders(u)') = N(t \in Holders(u))
  BY DEF Holders, N
<1>6. \A u \in Submission : N(t \in Storing(u)) = N(thread[t].sub = u)
  BY DEF Storing, MayStore, N
<1>7. \A u \in Submission :
        waiting'[u] + N(t \in Holders(u)') <= waiting[u] + N(t \in Holders(u))
  BY <1>5 DEF Inv, TypeOK, N
<1>8. \A u \in Submission :
        Cardinality(Rows(u)') + waiting'[u] + N(t \in Storing(u)') + faults'
          <= Cardinality(Rows(u)) + waiting[u] + N(t \in Storing(u)) + faults
  <2> SUFFICES ASSUME NEW u \in Submission
               PROVE  Cardinality(Rows(u)') + waiting'[u] + N(t \in Storing(u)')
                        + faults'
                        <= Cardinality(Rows(u)) + waiting[u] + N(t \in Storing(u))
                           + faults
    OBVIOUS
  <2>1. /\ waiting'[u] = waiting[u] /\ waiting[u] \in Nat
        /\ faults \in Nat /\ faults' \in Nat
    BY DEF Inv, TypeOK
  <2>2. N(t \in Storing(u)') \in Nat /\ N(thread[t].sub = u) \in Nat
    BY DEF N
  <2>3. /\ Cardinality(Rows(u)') \in Nat /\ Cardinality(Rows(u)) \in Nat
        /\ Cardinality(Rows(u)') + N(t \in Storing(u)') + faults'
             <= Cardinality(Rows(u)) + N(thread[t].sub = u) + faults
    OBVIOUS
  <2> QED  BY <1>6, <2>1, <2>2, <2>3
<1>9. DeliveriesCounted' /\ RowsCounted'
  BY <1>1, <1>7, <1>8, CountsStep
<1> QED  BY <1>1, <1>2, <1>3, <1>4, <1>9 DEF Inv

\* It does so without touching the table.
LEMMA ServesQuietly ==
  ASSUME Inv, NEW t \in Thread, OthersSame(t),
         thread' \in [Thread -> ThreadType],
         thread[t].pc \in {"got", "insert", "commit", "select"},
         thread'[t].pc # "idle",
         thread'[t].sub = thread[t].sub, thread'[t].held = thread[t].held,
         UNCHANGED <<tries, waiting, stopping, told, deletes, table>>,
         minted' \in Nat, faults' \in 0 .. MaxFaults, faults' <= faults,
         IndexHolds',
         thread'[t].pc = "reply" => BornOut(thread[t].sub, thread[t])'
  PROVE  Inv'
<1>1. table' \subseteq [id: Nat, by: Submission, deleted: BOOLEAN]
  BY DEF Inv, TypeOK
<1>2. /\ IsFiniteSet(table')
      /\ \A u \in Submission : Rows(u)' = Rows(u) /\ Cardinality(Rows(u)) \in Nat
  BY SameRows
<1>3. \A u \in Submission :
        /\ N(t \in Storing(u)') \in Nat /\ N(thread[t].sub = u) \in Nat
        /\ N(t \in Storing(u)') <= N(thread[t].sub = u)
  BY DEF Storing, N
<1>4. faults \in Nat /\ faults' \in Nat
  BY DEF Inv, TypeOK
<1>5. \A u \in Submission :
        /\ Cardinality(Rows(u)') \in Nat /\ Cardinality(Rows(u)) \in Nat
        /\ Cardinality(Rows(u)') + N(t \in Storing(u)') + faults'
             <= Cardinality(Rows(u)) + N(thread[t].sub = u) + faults
  BY <1>2, <1>3, <1>4
<1> QED  BY <1>1, <1>2, <1>5, Serves

-----------------------------------------------------------------------------
(* One lemma for each action. *)

\* Another request or message is another row allowed.
LEMMA SubmitStep ==
  ASSUME Inv, NEW v \in Submission, Submit(v) PROVE Inv'
<1> USE DEF Submit
<1>1. TypeOK'
  <2>1. IsFiniteSet(Holders(v))
    BY FS_Subset DEF Holders
  <2>2. Cardinality(Holders(v)) \in Nat
    BY <2>1, FS_CardinalityType
  <2>3. /\ tries[v] \in Nat /\ waiting[v] \in Nat /\ tries[v] < MaxTries
        /\ waiting[v] + Cardinality(Holders(v)) <= tries[v]
    BY DEF Inv, TypeOK, DeliveriesCounted
  <2>4. tries[v] + 1 \in 0 .. MaxTries /\ waiting[v] + 1 \in 0 .. MaxTries
    BY <2>2, <2>3
  <2> QED  BY <2>4 DEF Inv, TypeOK
<1>2. RestIsEmpty' /\ IndexHolds'
  BY DEF Inv, RestIsEmpty, IndexHolds, Key
<1>3. AnswersBornOut'
  BY DEF Inv, AnswersBornOut, BornOut, Accepted, Refused
<1>4. MessageKept'
  BY DEF Inv, MessageKept, SettledForGood, TypeOK
<1>5. DeliveriesCounted' /\ RowsCounted'
  <2> SUFFICES ASSUME NEW u \in Submission
               PROVE  /\ waiting'[u] + Cardinality(Holders(u)') <= tries'[u]
                      /\ Cardinality(Rows(u)') + waiting'[u] + Cardinality(Storing(u)')
                           <= tries'[u] + (MaxFaults - faults')
    BY DEF Inv, DeliveriesCounted, RowsCounted
  <2>1. /\ Holders(u)' = Holders(u) /\ Rows(u)' = Rows(u)
        /\ Storing(u)' = Storing(u)
    BY DEF Holders, Rows, Storing, MayStore
  <2>2. /\ IsFiniteSet(Holders(u)) /\ IsFiniteSet(Storing(u))
        /\ IsFiniteSet(Rows(u))
    BY FS_Subset DEF Holders, Storing, Rows, Inv, RowsCounted
  <2>3. /\ Cardinality(Holders(u)) \in Nat /\ Cardinality(Storing(u)) \in Nat
        /\ Cardinality(Rows(u)) \in Nat
    BY <2>2, FS_CardinalityType
  <2>4. /\ waiting[u] \in Nat /\ tries[u] \in Nat /\ faults \in Nat
        /\ waiting'[u] = waiting[u] + N(u = v) /\ tries'[u] = tries[u] + N(u = v)
        /\ N(u = v) \in Nat
    BY DEF Inv, TypeOK, N
  <2> QED  BY <2>1, <2>3, <2>4 DEF Inv, DeliveriesCounted, RowsCounted
<1> QED  BY <1>1, <1>2, <1>3, <1>4, <1>5 DEF Inv

\* What leaves the queue is in the hands of the thread.
LEMMA ReceiveStep ==
  ASSUME Inv, NEW t \in Thread, Receive(t) PROVE Inv'
<1>1. PICK v \in Submission :
        /\ waiting[v] > 0
        /\ waiting' = [waiting EXCEPT ![v] = @ - 1]
        /\ thread' = [thread EXCEPT ![t] =
                        [IdleThread EXCEPT !.pc = "got", !.sub = v, !.held = TRUE]]
  BY DEF Receive
<1>2. thread[t].pc = "idle" /\ ~thread[t].held
      /\ UNCHANGED <<tries, stopping, table, minted, told, faults, deletes>>
  BY DEF Receive, Inv, RestIsEmpty
<1> DEFINE w == [IdleThread EXCEPT !.pc = "got", !.sub = v, !.held = TRUE]
<1>3. w \in ThreadType /\ w.pc = "got" /\ w.sub = v /\ w.held
  BY IdleTypes DEF ThreadType, PC
<1> HIDE DEF w
<1>4. thread' = [thread EXCEPT ![t] = w]
  BY <1>1 DEF w
<1>5. thread' \in [Thread -> ThreadType] /\ thread'[t] = w /\ OthersSame(t)
  BY <1>3, <1>4 DEF Inv, TypeOK, OthersSame, ThreadType
<1>6. TypeOK'
  BY <1>1, <1>2, <1>5 DEF Inv, TypeOK, ThreadType
<1>7. RestIsEmpty'
  BY <1>3, <1>5 DEF Inv, RestIsEmpty, OthersSame
<1>8. IndexHolds'
  BY <1>2, <1>3, <1>5, SameIndex
<1>9. AnswersBornOut'
  BY <1>2, <1>3, <1>5, SameAnswers
<1>10. MessageKept'
  <2> SUFFICES ASSUME NEW u \in Direct, tries'[u] > 0, ~SettledForGood(u)'
               PROVE  \/ waiting'[u] > 0
                      \/ \E s \in Thread : thread'[s].held /\ thread'[s].sub = u
    BY DEF MessageKept
  <2>1. CASE u = v
    BY <1>3, <1>5, <2>1
  <2>2. CASE u # v
    <3>1. \/ waiting[u] > 0
          \/ \E s \in Thread : thread[s].held /\ thread[s].sub = u
      BY <1>2 DEF Inv, MessageKept, SettledForGood
    <3>2. waiting'[u] = waiting[u]
      BY <1>1, <2>2 DEF Inv, TypeOK
    <3> QED  BY <1>2, <1>5, <3>1, <3>2 DEF OthersSame
  <2> QED  BY <2>1, <2>2
<1>11. \A u \in Submission :
         /\ N(t \in Holders(u)) = 0 /\ N(t \in Holders(u)') = N(u = v)
         /\ N(t \in Storing(u)) = 0 /\ N(t \in Storing(u)') = N(u = v)
  BY <1>2, <1>3, <1>5 DEF Holders, Storing, MayStore, N
<1>12. \A u \in Submission :
         /\ waiting'[u] = waiting[u] - N(u = v) /\ waiting[u] \in Nat
         /\ N(u = v) \in Nat
  BY <1>1 DEF Inv, TypeOK, N
<1>13. /\ IsFiniteSet(table')
       /\ \A u \in Submission : Rows(u)' = Rows(u) /\ Cardinality(Rows(u)) \in Nat
  BY <1>2, SameRows
<1>14. \A u \in Submission :
         waiting'[u] + N(t \in Holders(u)') <= waiting[u] + N(t \in Holders(u))
  BY <1>11, <1>12
<1>15. \A u \in Submission :
         /\ Cardinality(Rows(u)') \in Nat /\ Cardinality(Rows(u)) \in Nat
         /\ Cardinality(Rows(u)') + waiting'[u] + N(t \in Storing(u)') + faults'
              <= Cardinality(Rows(u)) + waiting[u] + N(t \in Storing(u)) + faults
  <2>1. faults \in Nat /\ faults' = faults
    BY <1>2 DEF Inv, TypeOK
  <2> QED  BY <1>11, <1>12, <1>13, <2>1
<1>16. DeliveriesCounted' /\ RowsCounted'
  BY <1>2, <1>5, <1>6, <1>13, <1>14, <1>15, CountsStep
<1> QED  BY <1>6, <1>7, <1>8, <1>9, <1>10, <1>16 DEF Inv

\* A submission is answered for a failed check, or goes on to Create.
LEMMA AdmitStep ==
  ASSUME Inv, NEW t \in Thread, Admit(t) PROVE Inv'
<1> USE DEF Admit
<1>1. \/ GoesTo(t, "insert")
      \/ \E answer \in {"shutting_down", "unavailable", "invalid"} :
           Answers(t, answer, NoId)
  OBVIOUS
<1>2. /\ thread' \in [Thread -> ThreadType]
      /\ thread'[t].sub = thread[t].sub /\ thread'[t].held = thread[t].held
      /\ OthersSame(t)
      /\ \/ thread'[t].pc = "insert"
         \/ /\ thread'[t].pc = "reply"
            /\ thread'[t].answer \in {"shutting_down", "unavailable", "invalid"}
  BY <1>1, Moved DEF Inv, PC, Answer, NoId, OthersSame
<1>3. minted' \in Nat /\ faults' \in 0 .. MaxFaults /\ faults' <= faults
  BY DEF Inv, TypeOK
<1>4. IndexHolds'
  BY <1>2, SameIndex
<1>5. thread'[t].pc = "reply" => BornOut(thread[t].sub, thread[t])'
  BY <1>2 DEF BornOut
<1> QED  BY <1>2, <1>3, <1>4, <1>5, ServesQuietly

\* The unique index lets one transaction at a time insert a key.
LEMMA InsertStep ==
  ASSUME Inv, NEW t \in Thread, Insert(t) PROVE Inv'
<1> USE DEF Insert
<1>1. minted' \in Nat /\ faults' \in 0 .. MaxFaults /\ faults' <= faults
  BY DEF Inv, TypeOK
<1>2. CASE KeyTaken(thread[t].sub)
  <2>1. /\ thread' \in [Thread -> ThreadType] /\ thread'[t].pc = "select"
        /\ thread'[t].sub = thread[t].sub /\ thread'[t].held = thread[t].held
        /\ OthersSame(t)
    BY <1>2, Moved DEF Inv, PC, OthersSame
  <2>2. IndexHolds'
    BY <2>1, SameIndex
  <2> QED  BY <1>1, <2>1, <2>2, ServesQuietly
<1>3. CASE ~KeyTaken(thread[t].sub)
  <2> DEFINE w == [thread[t] EXCEPT !.pc = "commit", !.id = minted']
  <2>0. thread[t] \in ThreadType /\ "commit" \in PC
    BY DEF Inv, TypeOK, ThreadType, PC
  <2>1. /\ w \in ThreadType /\ w.pc = "commit"
        /\ w.sub = thread[t].sub /\ w.held = thread[t].held
    BY <1>1, <2>0 DEF ThreadType
  <2>2. thread' = [thread EXCEPT ![t] = w]
    BY <1>3
  <2> HIDE DEF w
  <2>3. /\ thread' \in [Thread -> ThreadType] /\ thread'[t].pc = "commit"
        /\ thread'[t].sub = thread[t].sub /\ thread'[t].held = thread[t].held
        /\ OthersSame(t)
    BY <2>1, <2>2 DEF Inv, TypeOK, ThreadType, OthersSame
  <2>4. Key(t) # NoKey =>
          /\ \A r \in table : KeyOf[r.by] # Key(t)
          /\ \A s \in Thread : thread[s].pc = "commit" => Key(s) # Key(t)
    BY <1>3 DEF KeyTaken, KeyPending, Key
  <2>5. IndexHolds'
    <3>1. Key(t)' = Key(t) /\ \A s \in Thread : Key(s)' = Key(s)
      BY <2>3 DEF Key, OthersSame
    <3> QED  BY <2>3, <2>4, <3>1 DEF Inv, IndexHolds, OthersSame
  <2> QED  BY <1>1, <2>3, <2>5, ServesQuietly
<1> QED  BY <1>2, <1>3

\* The row of the thread that commits, and what the table says with it.
LEMMA CommittedRow ==
  ASSUME Inv, NEW t \in Thread, thread[t].pc = "commit", table' = WithRow(t),
         OthersSame(t), thread'[t].pc = "reply"
  PROVE  /\ table' \subseteq [id: Nat, by: Submission, deleted: BOOLEAN]
         /\ table \subseteq table'
         /\ \E r \in table' : r.id = thread[t].id /\ r.by = thread[t].sub
         /\ IndexHolds'
<1> DEFINE new == [id |-> thread[t].id, by |-> thread[t].sub, deleted |-> FALSE]
<1>1. /\ new \in [id: Nat, by: Submission, deleted: BOOLEAN]
      /\ new.id = thread[t].id /\ new.by = thread[t].sub
  BY DEF Inv, TypeOK
<1>2. table' = table \cup {new}
  BY DEF WithRow
<1> HIDE DEF new
<1>3. IndexHolds'
  <2>1. \A r \in table : Key(t) # NoKey => KeyOf[r.by] # Key(t)
    BY DEF Inv, IndexHolds
  <2>2. KeyOf[new.by] = Key(t)
    BY <1>1 DEF Key
  <2>3. ASSUME NEW r \in table', NEW s \in table',
               KeyOf[r.by] = KeyOf[s.by], KeyOf[r.by] # NoKey
        PROVE  r = s
    BY <1>2, <2>1, <2>2, <2>3 DEF Inv, IndexHolds
  <2>4. ASSUME NEW s \in Thread, thread'[s].pc = "commit", Key(s)' # NoKey
        PROVE  /\ \A r \in table' : KeyOf[r.by] # Key(s)'
               /\ \A q \in Thread :
                    thread'[q].pc = "commit" /\ Key(q)' = Key(s)' => q = s
    <3>1. s # t /\ thread'[s] = thread[s] /\ Key(s)' = Key(s)
      BY <2>4 DEF OthersSame, Key
    <3>2. Key(s) # Key(t)
      BY <2>4, <3>1 DEF Inv, IndexHolds
    <3>3. \A q \in Thread : thread'[q].pc = "commit" =>
            thread[q].pc = "commit" /\ Key(q)' = Key(q)
      BY DEF OthersSame, Key
    <3> QED  BY <1>2, <2>2, <2>4, <3>1, <3>2, <3>3 DEF Inv, IndexHolds
  <2> QED  BY <2>3, <2>4 DEF IndexHolds
<1> QED  BY <1>1, <1>2, <1>3 DEF Inv, TypeOK

\* Committing stores one row, in return for the thread's right to.
LEMMA CommitStep ==
  ASSUME Inv, NEW t \in Thread, Commit(t) PROVE Inv'
<1> USE DEF Commit
<1>1. /\ thread' \in [Thread -> ThreadType] /\ thread'[t].pc = "reply"
      /\ thread'[t].sub = thread[t].sub /\ thread'[t].held = thread[t].held
      /\ thread'[t].answer = "accepted" /\ thread'[t].id = thread[t].id
      /\ OthersSame(t)
  BY Moved DEF Inv, TypeOK, Answer, OthersSame
<1>2. /\ table' \subseteq [id: Nat, by: Submission, deleted: BOOLEAN]
      /\ table \subseteq table'
      /\ \E r \in table' : r.id = thread[t].id /\ r.by = thread[t].sub
      /\ IndexHolds'
  BY <1>1, CommittedRow
<1>3. BornOut(thread[t].sub, thread[t])'
  BY <1>1, <1>2 DEF BornOut, Accepted
<1>4. IsFiniteSet(table)
  BY DEF Inv, RowsCounted
<1>5. /\ IsFiniteSet(table')
      /\ \A u \in Submission :
           /\ Cardinality(Rows(u)) \in Nat /\ Cardinality(Rows(u)') \in Nat
           /\ Cardinality(Rows(u)') <= Cardinality(Rows(u)) + N(thread[t].sub = u)
  BY <1>4, RowAdded
<1>6. \A u \in Submission :
        N(t \in Storing(u)') = 0 /\ N(thread[t].sub = u) \in Nat
  BY <1>1 DEF Storing, MayStore, Requeued, N
<1>7. minted' \in Nat /\ faults' \in 0 .. MaxFaults /\ faults' = faults
  BY DEF Inv, TypeOK
<1>8. \A u \in Submission :
        /\ Cardinality(Rows(u)') \in Nat /\ Cardinality(Rows(u)) \in Nat
        /\ Cardinality(Rows(u)') + N(t \in Storing(u)') + faults'
             <= Cardinality(Rows(u)) + N(thread[t].sub = u) + faults
  BY <1>5, <1>6, <1>7
<1> QED  BY <1>1, <1>2, <1>3, <1>5, <1>7, <1>8, Serves

\* The row that took the key decides the answer.
LEMMA SelectStep ==
  ASSUME Inv, NEW t \in Thread, Select(t) PROVE Inv'
<1> USE DEF Select
<1> DEFINE found == Lookup(thread[t].sub)
<1>1. /\ found.answer \in Answer /\ found.id \in Nat
      /\ BornOut(thread[t].sub, found)
  BY LookupTrue DEF Inv, TypeOK
<1>2. Answers(t, found.answer, found.id)
  OBVIOUS
<1> HIDE DEF found
<1>3. /\ thread' \in [Thread -> ThreadType] /\ thread'[t].pc = "reply"
      /\ thread'[t].sub = thread[t].sub /\ thread'[t].held = thread[t].held
      /\ thread'[t].answer = found.answer /\ thread'[t].id = found.id
      /\ OthersSame(t)
  BY <1>1, <1>2, Moved DEF Inv, OthersSame
<1>4. BornOut(thread[t].sub, thread[t])'
  BY <1>1, <1>3 DEF BornOut, Accepted, Refused
<1>5. minted' \in Nat /\ faults' \in 0 .. MaxFaults /\ faults' <= faults
  BY DEF Inv, TypeOK
<1>6. IndexHolds'
  BY <1>3, SameIndex
<1> QED  BY <1>3, <1>4, <1>5, <1>6, ServesQuietly

\* A failed statement costs a fault, which pays for the row that its COMMIT
\* may have stored.
LEMMA CreateFailsStep ==
  ASSUME Inv, NEW t \in Thread, CreateFails(t) PROVE Inv'
<1> USE DEF CreateFails, Fault
<1>1. /\ thread' \in [Thread -> ThreadType] /\ thread'[t].pc = "reply"
      /\ thread'[t].sub = thread[t].sub /\ thread'[t].held = thread[t].held
      /\ thread'[t].answer = "error"
      /\ OthersSame(t)
  BY Moved DEF Inv, NoId, Answer, OthersSame
<1>2. BornOut(thread[t].sub, thread[t])'
  BY <1>1 DEF BornOut
<1>3. /\ minted' \in Nat /\ faults' \in 0 .. MaxFaults
      /\ faults' = faults - 1 /\ faults \in Nat
  BY DEF Inv, TypeOK
<1>4. CASE UNCHANGED table
  <2>1. IndexHolds'
    BY <1>1, <1>4, SameIndex
  <2>2. faults' <= faults
    BY <1>3
  <2> QED  BY <1>1, <1>2, <1>3, <1>4, <2>1, <2>2, ServesQuietly
<1>5. CASE thread[t].pc = "commit" /\ table' = WithRow(t)
  <2>1. /\ table' \subseteq [id: Nat, by: Submission, deleted: BOOLEAN]
        /\ table \subseteq table'
        /\ IndexHolds'
    BY <1>1, <1>5, CommittedRow
  <2>2. IsFiniteSet(table)
    BY DEF Inv, RowsCounted
  <2>3. /\ IsFiniteSet(table')
        /\ \A u \in Submission :
             /\ Cardinality(Rows(u)) \in Nat /\ Cardinality(Rows(u)') \in Nat
             /\ Cardinality(Rows(u)') <= Cardinality(Rows(u)) + N(thread[t].sub = u)
    BY <1>5, <2>2, RowAdded
  <2>4. \A u \in Submission :
          /\ N(t \in Storing(u)') \in Nat /\ N(t \in Storing(u)') <= 1
          /\ thread[t].sub # u => N(t \in Storing(u)') = 0
          /\ N(thread[t].sub = u) = IF thread[t].sub = u THEN 1 ELSE 0
    BY <1>1 DEF Storing, N
  <2>5. \A u \in Submission :
          /\ Cardinality(Rows(u)') \in Nat /\ Cardinality(Rows(u)) \in Nat
          /\ Cardinality(Rows(u)') + N(t \in Storing(u)') + faults'
               <= Cardinality(Rows(u)) + N(thread[t].sub = u) + faults
    BY <1>3, <2>3, <2>4
  <2> QED  BY <1>1, <1>2, <1>3, <1>5, <2>1, <2>3, <2>5, Serves
<1> QED  BY <1>4, <1>5

\* A thread lets its delivery go: what comes back to the queue is not in its
\* hands, and a row it may yet store is paid for by a fault.
LEMMA Releases ==
  ASSUME Inv, NEW t \in Thread, OthersSame(t),
         thread' \in [Thread -> ThreadType],
         ~thread'[t].held, thread'[t].pc # "commit" \/ thread'[t].pc = thread[t].pc,
         thread'[t].pc = "idle" \/ /\ thread'[t].pc = thread[t].pc
                                   /\ thread'[t].sub = thread[t].sub
                                   /\ thread'[t].id = thread[t].id
                                   /\ thread'[t].answer = thread[t].answer,
         waiting' = Returned(t),
         UNCHANGED <<tries, table, minted, told, deletes>>,
         stopping' \in [Thread -> BOOLEAN],
         faults' \in 0 .. MaxFaults,
         \/ faults' = faults - 1
         \/ /\ faults' = faults /\ thread'[t].pc = "idle"
            /\ thread[t].held /\ thread[t].sub \in Direct =>
                 thread[t].pc = "reply" /\ Requeued(thread[t].answer)
  PROVE  Inv'
<1>1. TypeOK'
  BY ReturnedFits DEF Inv, TypeOK, ThreadType
<1>2. RestIsEmpty'
  BY DEF Inv, RestIsEmpty, OthersSame
<1>3. IndexHolds'
  <2>1. CASE thread'[t].pc # "commit"
    BY <2>1, SameIndex
  <2>2. CASE thread'[t].pc = "commit"
    <3>1. \A s \in Thread : thread'[s].pc = "commit" =>
            thread[s].pc = "commit" /\ Key(s)' = Key(s)
      BY <2>2 DEF OthersSame, Key
    <3> QED  BY <3>1 DEF Inv, IndexHolds
  <2> QED  BY <2>1, <2>2
<1>4. AnswersBornOut'
  <2>1. thread'[t].pc = "reply" => BornOut(thread[t].sub, thread[t])'
    BY DEF Inv, AnswersBornOut, BornOut, Accepted, Refused
  <2> QED  BY <2>1, SameAnswers
<1>5. MessageKept'
  <2> SUFFICES ASSUME NEW u \in Direct, tries'[u] > 0, ~SettledForGood(u)'
               PROVE  \/ waiting'[u] > 0
                      \/ \E s \in Thread : thread'[s].held /\ thread'[s].sub = u
    BY DEF MessageKept
  <2>1. \/ waiting[u] > 0
        \/ \E s \in Thread : thread[s].held /\ thread[s].sub = u
    BY DEF Inv, MessageKept, SettledForGood
  <2>2. /\ waiting'[u] = waiting[u] + N(t \in Holders(u))
        /\ waiting[u] \in Nat
    BY ReturnedFits DEF Inv, TypeOK
  <2> QED  BY <2>1, <2>2 DEF OthersSame, Holders, N
<1>6. /\ IsFiniteSet(table')
      /\ \A u \in Submission : Rows(u)' = Rows(u) /\ Cardinality(Rows(u)) \in Nat
  BY SameRows
<1>7. \A u \in Submission :
        /\ waiting'[u] = waiting[u] + N(u \in Direct /\ t \in Holders(u))
        /\ waiting[u] \in Nat
  BY ReturnedFits DEF Inv, TypeOK
<1>8. \A u \in Submission :
        /\ N(t \in Holders(u)') = 0 /\ N(t \in Holders(u)) \in Nat
        /\ N(u \in Direct /\ t \in Holders(u)) <= N(t \in Holders(u))
        /\ N(u \in Direct /\ t \in Holders(u)) \in 0 .. 1
  BY DEF Holders, N
<1>9. \A u \in Submission :
        waiting'[u] + N(t \in Holders(u)') <= waiting[u] + N(t \in Holders(u))
  BY <1>7, <1>8
<1>10. \A u \in Submission :
         N(u \in Direct /\ t \in Holders(u)) + N(t \in Storing(u)') + faults'
           <= N(t \in Storing(u)) + faults
  <2> SUFFICES ASSUME NEW u \in Submission
               PROVE  N(u \in Direct /\ t \in Holders(u)) + N(t \in Storing(u)')
                        + faults' <= N(t \in Storing(u)) + faults
    OBVIOUS
  <2>0. /\ faults \in Nat /\ faults' \in Nat
        /\ N(u \in Direct /\ t \in Holders(u)) \in 0 .. 1
        /\ N(t \in Storing(u)) \in Nat /\ N(t \in Storing(u)') \in Nat
    BY <1>8 DEF Inv, TypeOK, N
  <2>1. CASE faults' = faults - 1
    <3>1. t \in Storing(u)' => t \in Storing(u)
      BY DEF Storing, MayStore
    <3>2. N(t \in Storing(u)') <= N(t \in Storing(u))
      BY <3>1 DEF N
    <3> QED  BY <2>0, <2>1, <3>2
  <2>2. CASE /\ faults' = faults /\ thread'[t].pc = "idle"
             /\ thread[t].held /\ thread[t].sub \in Direct =>
                  thread[t].pc = "reply" /\ Requeued(thread[t].answer)
    <3>1. t \notin Storing(u)'
      BY <2>2 DEF Storing, MayStore
    <3>2. u \in Direct /\ t \in Holders(u) => t \in Storing(u)
      BY <2>2 DEF Storing, MayStore, Holders
    <3>3. /\ N(t \in Storing(u)') = 0
          /\ N(u \in Direct /\ t \in Holders(u)) <= N(t \in Storing(u))
      BY <3>1, <3>2 DEF N
    <3> QED  BY <2>0, <2>2, <3>3
  <2> QED  BY <2>1, <2>2
<1>11. \A u \in Submission :
         /\ Cardinality(Rows(u)') \in Nat /\ Cardinality(Rows(u)) \in Nat
         /\ Cardinality(Rows(u)') + waiting'[u] + N(t \in Storing(u)') + faults'
              <= Cardinality(Rows(u)) + waiting[u] + N(t \in Storing(u)) + faults
  <2> SUFFICES ASSUME NEW u \in Submission
               PROVE  /\ Cardinality(Rows(u)') \in Nat
                      /\ Cardinality(Rows(u)) \in Nat
                      /\ Cardinality(Rows(u)') + waiting'[u] + N(t \in Storing(u)')
                           + faults'
                           <= Cardinality(Rows(u)) + waiting[u]
                              + N(t \in Storing(u)) + faults
    OBVIOUS
  <2>1. /\ faults \in Nat /\ faults' \in Nat
        /\ N(t \in Storing(u)) \in Nat /\ N(t \in Storing(u)') \in Nat
        /\ N(u \in Direct /\ t \in Holders(u)) \in Nat
    BY DEF Inv, TypeOK, N
  <2> QED  BY <1>6, <1>7, <1>10, <2>1
<1>12. DeliveriesCounted' /\ RowsCounted'
  BY <1>1, <1>6, <1>9, <1>11, CountsStep
<1> QED  BY <1>1, <1>2, <1>3, <1>4, <1>5, <1>12 DEF Inv

\* The thread is at rest after Reply and after a restart.
LEMMA AtRest ==
  ASSUME Inv, NEW t \in Thread, thread' = [thread EXCEPT ![t] = IdleThread]
  PROVE  /\ thread' \in [Thread -> ThreadType]
         /\ thread'[t].pc = "idle" /\ ~thread'[t].held
         /\ OthersSame(t)
BY IdleTypes DEF Inv, TypeOK, ThreadType, OthersSame

\* A delivery that is not answered for good comes back; one that is ends.
LEMMA ReplyStep ==
  ASSUME Inv, NEW t \in Thread, Reply(t) PROVE Inv'
<1> DEFINE v == thread[t].sub
           again == v \in Direct /\ Requeued(thread[t].answer)
           a == [answer |-> thread[t].answer, id |-> thread[t].id]
<1>1. /\ thread[t].pc = "reply"
      /\ waiting' = IF again THEN Returned(t) ELSE waiting
      /\ told' = IF thread[t].held /\ ~again
                 THEN [told EXCEPT ![v] = @ \cup {a}] ELSE told
      /\ thread' = [thread EXCEPT ![t] = IdleThread]
      /\ UNCHANGED <<tries, stopping, table, minted, faults, deletes>>
  BY DEF Reply
<1>2. /\ thread' \in [Thread -> ThreadType]
      /\ thread'[t].pc = "idle" /\ ~thread'[t].held
      /\ OthersSame(t)
  BY <1>1, AtRest
<1>3. /\ stopping' \in [Thread -> BOOLEAN] /\ faults' \in 0 .. MaxFaults
      /\ faults \in Nat
  BY <1>1 DEF Inv, TypeOK
<1>4. CASE again
  <2>1. UNCHANGED <<tries, table, minted, told, deletes>> /\ waiting' = Returned(t)
    BY <1>1, <1>4
  <2>2. /\ thread[t].held /\ thread[t].sub \in Direct =>
             thread[t].pc = "reply" /\ Requeued(thread[t].answer)
        /\ faults' = faults
    BY <1>1, <1>4
  <2> QED  BY <1>2, <1>3, <2>1, <2>2, Releases
<1>5. CASE ~again
  <2>1. waiting' = waiting
    BY <1>1, <1>5
  <2>2. v \in Submission /\ a \in [answer: Answer, id: Nat]
    BY DEF Inv, TypeOK
  <2>3. told' \in [Submission -> SUBSET [answer: Answer, id: Nat]]
    BY <1>1, <2>2 DEF Inv, TypeOK
  <2>4. /\ \A u \in Submission : told[u] \subseteq told'[u]
        /\ thread[t].held => told'[v] = told[v] \cup {a}
        /\ \A u \in Submission : \A b \in told'[u] :
             b \in told[u] \/ (u = v /\ b = a)
    <3> HIDE DEF a, v, again
    <3>1. told \in [Submission -> SUBSET [answer: Answer, id: Nat]]
      BY DEF Inv, TypeOK
    <3>2. CASE thread[t].held
      <4>1. told' = [told EXCEPT ![v] = told[v] \cup {a}]
        BY <1>1, <1>5, <3>2
      <4> QED  BY <2>2, <3>1, <4>1
    <3>3. CASE ~thread[t].held
      <4>1. told' = told
        BY <1>1, <1>5, <3>3
      <4> QED  BY <3>1, <3>3, <4>1
    <3> QED  BY <3>2, <3>3
  <2>5. TypeOK'
    BY <1>1, <1>2, <2>1, <2>3 DEF Inv, TypeOK, ThreadType
  <2>6. RestIsEmpty'
    BY <1>2 DEF Inv, RestIsEmpty, OthersSame
  <2>7. IndexHolds'
    BY <1>1, <1>2, SameIndex
  <2>8. AnswersBornOut'
    <3>1. BornOut(v, a)
      <4>1. BornOut(v, thread[t])
        BY <1>1 DEF Inv, AnswersBornOut
      <4> QED  BY <4>1 DEF BornOut, Accepted, Refused
    <3>2. \A u, b : BornOut(u, b)' <=> BornOut(u, b)
      BY <1>1 DEF BornOut, Accepted, Refused
    <3>3. \A u \in Submission : \A b \in told'[u] : BornOut(u, b)
      BY <2>4, <3>1 DEF Inv, AnswersBornOut
    <3>4. \A s \in Thread :
            thread'[s].pc = "reply" => thread'[s] = thread[s]
      BY <1>2 DEF OthersSame
    <3>5. \A s \in Thread :
            thread'[s].pc = "reply" => BornOut(thread[s].sub, thread[s])'
      BY <1>1, <3>4 DEF Inv, AnswersBornOut, BornOut, Accepted, Refused
    <3> HIDE DEF a, v, again
    <3> QED  BY <3>2, <3>3, <3>5 DEF AnswersBornOut
  <2>9. MessageKept'
    <3> SUFFICES ASSUME NEW u \in Direct, tries'[u] > 0, ~SettledForGood(u)'
                 PROVE  \/ waiting'[u] > 0
                        \/ \E s \in Thread : thread'[s].held /\ thread'[s].sub = u
      BY DEF MessageKept
    <3>1. ~SettledForGood(u) /\ u \in Submission
      BY <2>4 DEF SettledForGood
    <3>2. \/ waiting[u] > 0
          \/ \E s \in Thread : thread[s].held /\ thread[s].sub = u
      BY <1>1, <3>1 DEF Inv, MessageKept
    <3>3. ~(thread[t].held /\ v = u)
      <4> SUFFICES ASSUME thread[t].held, v = u PROVE FALSE
        OBVIOUS
      <4>1. a.answer \in {"accepted", "invalid", "conflict"}
        BY <1>5 DEF Requeued
      <4>2. a \in told'[u]
        BY <2>4
      <4> HIDE DEF a, v, again
      <4> QED  BY <4>1, <4>2 DEF SettledForGood
    <3> QED  BY <1>2, <2>1, <3>2, <3>3 DEF OthersSame
  <2>10. /\ IsFiniteSet(table')
         /\ \A u \in Submission : Rows(u)' = Rows(u) /\ Cardinality(Rows(u)) \in Nat
    BY <1>1, SameRows
  <2>11. \A u \in Submission :
           /\ waiting'[u] = waiting[u] /\ waiting[u] \in Nat
           /\ N(t \in Holders(u)') = 0 /\ N(t \in Holders(u)) \in Nat
           /\ N(t \in Storing(u)') = 0 /\ N(t \in Storing(u)) \in Nat
    BY <1>2, <2>1 DEF Inv, TypeOK, Holders, Storing, MayStore, N
  <2>12. \A u \in Submission :
           waiting'[u] + N(t \in Holders(u)') <= waiting[u] + N(t \in Holders(u))
    BY <2>11
  <2>13. \A u \in Submission :
           /\ Cardinality(Rows(u)') \in Nat /\ Cardinality(Rows(u)) \in Nat
           /\ Cardinality(Rows(u)') + waiting'[u] + N(t \in Storing(u)') + faults'
                <= Cardinality(Rows(u)) + waiting[u] + N(t \in Storing(u)) + faults
    BY <1>1, <1>3, <2>10, <2>11
  <2>14. DeliveriesCounted' /\ RowsCounted'
    BY <1>1, <1>2, <2>5, <2>10, <2>12, <2>13, CountsStep
  <2> QED  BY <2>5, <2>6, <2>7, <2>8, <2>9, <2>14 DEF Inv
<1> QED  BY <1>4, <1>5

\* The broker takes back what its consumer has lost; an HTTP client does not
\* send again by itself.
LEMMA ConnectionLostStep ==
  ASSUME Inv, NEW t \in Thread, ConnectionLost(t) PROVE Inv'
<1> USE DEF ConnectionLost, Fault
<1>1. /\ thread' \in [Thread -> ThreadType] /\ OthersSame(t)
      /\ ~thread'[t].held /\ thread'[t].pc = thread[t].pc
      /\ thread'[t].sub = thread[t].sub /\ thread'[t].id = thread[t].id
      /\ thread'[t].answer = thread[t].answer
  BY DEF Inv, TypeOK, ThreadType, OthersSame
<1>2. /\ stopping' \in [Thread -> BOOLEAN] /\ faults' \in 0 .. MaxFaults
      /\ faults' = faults - 1
  BY DEF Inv, TypeOK
<1>3. waiting' = Returned(t) /\ UNCHANGED <<tries, table, minted, told, deletes>>
  OBVIOUS
<1> HIDE DEF ConnectionLost, Fault
<1> QED  BY <1>1, <1>2, <1>3, Releases

\* What a server that goes down had in its hands comes back; a server that
\* was drained had nothing.
LEMMA RestartStep ==
  ASSUME Inv, NEW t \in Thread, Crash(t) \/ Redeploy(t) PROVE Inv'
<1>1. Restart(t)
  BY DEF Crash, Redeploy
<1>2. /\ thread' \in [Thread -> ThreadType]
      /\ thread'[t].pc = "idle" /\ ~thread'[t].held
      /\ OthersSame(t)
  BY <1>1, AtRest DEF Restart
<1>3. /\ stopping' \in [Thread -> BOOLEAN]
      /\ waiting' = Returned(t)
      /\ UNCHANGED <<tries, table, minted, told, deletes>>
  BY <1>1 DEF Restart, Inv, TypeOK
<1>4. /\ faults' \in 0 .. MaxFaults
      /\ \/ faults' = faults - 1
         \/ faults' = faults /\ ~thread[t].held
  BY DEF Crash, Redeploy, Fault, Inv, TypeOK, RestIsEmpty
<1> QED  BY <1>2, <1>3, <1>4, Releases

\* Only the index and the answers see the threads and the table, not the
\* flags of the servers.
LEMMA SameThreads ==
  ASSUME Inv, TypeOK',
         UNCHANGED <<tries, waiting, thread, told>>,
         faults' <= faults,
         \A r \in table : \E s \in table' : s.id = r.id /\ s.by = r.by,
         IsFiniteSet(table'), IndexHolds',
         \A u \in Submission :
           /\ Cardinality(Rows(u)') \in Nat /\ Cardinality(Rows(u)) \in Nat
           /\ Cardinality(Rows(u)') <= Cardinality(Rows(u))
  PROVE  Inv'
<1>1. RestIsEmpty' /\ MessageKept'
  BY DEF Inv, RestIsEmpty, MessageKept, SettledForGood
<1>2. AnswersBornOut'
  <2>1. \A u, a : BornOut(u, a) => BornOut(u, a)'
    BY StillBornOut
  <2>2. \A t \in Thread :
          BornOut(thread[t].sub, thread[t]) => BornOut(thread[t].sub, thread[t])'
    BY <2>1
  <2> QED  BY <2>1, <2>2 DEF Inv, AnswersBornOut
<1>3. \A u \in Submission : Holders(u)' = Holders(u) /\ Storing(u)' = Storing(u)
  BY DEF Holders, Storing, MayStore
<1>4. \A u \in Submission : IsFiniteSet(Storing(u))
  BY FS_Subset DEF Storing
<1>5. \A u \in Submission : Cardinality(Storing(u)) \in Nat
  BY <1>4, FS_CardinalityType
<1>6. DeliveriesCounted'
  BY <1>3 DEF Inv, DeliveriesCounted
<1>7. RowsCounted'
  <2> SUFFICES ASSUME NEW u \in Submission
               PROVE  Cardinality(Rows(u)') + waiting'[u] + Cardinality(Storing(u)')
                        <= tries'[u] + (MaxFaults - faults')
    BY DEF RowsCounted
  <2>1. /\ waiting[u] \in Nat /\ tries[u] \in Nat
        /\ faults \in Nat /\ faults' \in Nat /\ Cardinality(Storing(u)) \in Nat
    BY <1>5 DEF Inv, TypeOK
  <2>2. /\ Cardinality(Rows(u)') \in Nat /\ Cardinality(Rows(u)) \in Nat
        /\ Cardinality(Rows(u)') <= Cardinality(Rows(u))
    OBVIOUS
  <2>3. Cardinality(Rows(u)) + waiting[u] + Cardinality(Storing(u))
          <= tries[u] + (MaxFaults - faults)
    BY DEF Inv, RowsCounted
  <2> QED  BY <1>3, <2>1, <2>2, <2>3
<1> QED  BY <1>1, <1>2, <1>6, <1>7 DEF Inv

\* Stopping loses nothing by itself.
LEMMA QuietStep ==
  ASSUME Inv, TypeOK', UNCHANGED <<tries, waiting, thread, told, table>>,
         faults' <= faults
  PROVE  Inv'
<1>1. IndexHolds'
  BY DEF Inv, IndexHolds, Key
<1>2. /\ IsFiniteSet(table')
      /\ \A u \in Submission : Rows(u)' = Rows(u) /\ Cardinality(Rows(u)) \in Nat
  BY SameRows
<1>3. \A u \in Submission :
        /\ Cardinality(Rows(u)') \in Nat /\ Cardinality(Rows(u)) \in Nat
        /\ Cardinality(Rows(u)') <= Cardinality(Rows(u))
  BY <1>2
<1> QED  BY <1>1, <1>2, <1>3, SameThreads

\* A shutdown changes a flag.
LEMMA BeginShutdownStep ==
  ASSUME Inv, NEW t \in Thread, BeginShutdown(t) PROVE Inv'
<1>1. TypeOK'
  BY DEF BeginShutdown, Fault, Inv, TypeOK
<1>2. UNCHANGED <<tries, waiting, thread, told, table>> /\ faults' <= faults
  BY DEF BeginShutdown, Fault, Inv, TypeOK
<1> QED  BY <1>1, <1>2, QuietStep

\* A deleted row keeps its key, its id and what it was submitted with.
LEMMA DeleteStep ==
  ASSUME Inv, NEW d \in table, Delete(d) PROVE Inv'
<1> DEFINE new == [d EXCEPT !.deleted = TRUE]
<1>1. /\ d \in [id: Nat, by: Submission, deleted: BOOLEAN]
      /\ UNCHANGED <<tries, waiting, thread, stopping, minted, told, faults>>
      /\ deletes' = deletes - 1 /\ deletes > 0
  BY DEF Delete, Inv, TypeOK
<1>2. /\ new \in [id: Nat, by: Submission, deleted: BOOLEAN]
      /\ new.id = d.id /\ new.by = d.by
  BY <1>1
<1>3. table' = (table \ {d}) \cup {new}
  BY DEF Delete
<1> HIDE DEF new
<1>4. TypeOK'
  BY <1>1, <1>2, <1>3 DEF Inv, TypeOK
<1>5. \A r \in table : \E s \in table' : s.id = r.id /\ s.by = r.by
  BY <1>2, <1>3
<1>6. IndexHolds'
  <2>1. \A r \in table' : \E s \in table :
          s.by = r.by /\ ((r = new /\ s = d) \/ (r = s /\ s # d))
    BY <1>2, <1>3
  <2>2. ASSUME NEW r \in table', NEW s \in table',
               KeyOf[r.by] = KeyOf[s.by], KeyOf[r.by] # NoKey
        PROVE  r = s
    BY <2>1, <2>2 DEF Inv, IndexHolds
  <2>3. \A t \in Thread : thread'[t] = thread[t] /\ Key(t)' = Key(t)
    BY <1>1 DEF Key
  <2> QED  BY <2>1, <2>2, <2>3 DEF Inv, IndexHolds
<1>7. IsFiniteSet(table') /\ IsFiniteSet(table)
  <2>1. IsFiniteSet(table \ {d}) /\ IsFiniteSet(table)
    BY FS_RemoveElement DEF Inv, RowsCounted
  <2> QED  BY <1>3, <2>1, FS_AddElement
<1>8. ASSUME NEW u \in Submission
      PROVE  /\ Cardinality(Rows(u)') \in Nat /\ Cardinality(Rows(u)) \in Nat
             /\ Cardinality(Rows(u)') <= Cardinality(Rows(u))
  <2>1. IsFiniteSet(Rows(u)) /\ IsFiniteSet(Rows(u)')
    BY <1>7, FS_Subset DEF Rows
  <2>2. Cardinality(Rows(u)) \in Nat /\ Cardinality(Rows(u)') \in Nat
    BY <2>1, FS_CardinalityType
  <2>3. CASE d.by = u
    <3>1. Rows(u)' = (Rows(u) \ {d}) \cup {new} /\ d \in Rows(u)
      BY <1>2, <1>3, <2>3 DEF Rows
    <3>2. /\ IsFiniteSet(Rows(u) \ {d})
          /\ Cardinality(Rows(u) \ {d}) = Cardinality(Rows(u)) - 1
      BY <2>1, <3>1, FS_RemoveElement
    <3>3. Cardinality((Rows(u) \ {d}) \cup {new}) =
            IF new \in Rows(u) \ {d} THEN Cardinality(Rows(u) \ {d})
            ELSE Cardinality(Rows(u) \ {d}) + 1
      BY <3>2, FS_AddElement
    <3> QED  BY <2>2, <3>1, <3>2, <3>3
  <2>4. CASE d.by # u
    <3>1. Rows(u)' = Rows(u)
      BY <1>2, <1>3, <2>4 DEF Rows
    <3> QED  BY <2>2, <3>1
  <2> QED  BY <2>3, <2>4
<1>9. faults' <= faults
  BY <1>1 DEF Inv, TypeOK
<1> QED  BY <1>1, <1>4, <1>5, <1>6, <1>7, <1>8, <1>9, SameThreads

-----------------------------------------------------------------------------
(* The theorems. *)

\* Inv is inductive.
LEMMA NextInv == Inv /\ [Next]_vars => Inv'
<1> SUFFICES ASSUME Inv, [Next]_vars PROVE Inv'
  OBVIOUS
<1>1. ASSUME NEW u \in Submission, Submit(u) PROVE Inv'
  BY <1>1, SubmitStep
<1>2. ASSUME NEW t \in Thread, ThreadStep(t) PROVE Inv'
  BY <1>2, ReceiveStep, AdmitStep, InsertStep, CommitStep, SelectStep, ReplyStep
     DEF ThreadStep
<1>3. ASSUME NEW t \in Thread, FaultyStep(t) PROVE Inv'
  BY <1>3, CreateFailsStep, ConnectionLostStep, BeginShutdownStep, RestartStep
     DEF FaultyStep
<1>4. ASSUME NEW t \in Thread, Redeploy(t) PROVE Inv'
  BY <1>4, RestartStep
<1>5. ASSUME NEW r \in table, Delete(r) PROVE Inv'
  BY <1>5, DeleteStep
<1>6. CASE UNCHANGED vars
  <2>1. TypeOK'
    BY <1>6 DEF Inv, TypeOK, vars
  <2>2. UNCHANGED <<tries, waiting, thread, told, table>> /\ faults' <= faults
    BY <1>6 DEF Inv, TypeOK, vars
  <2> QED  BY <2>1, <2>2, QuietStep
<1> QED  BY <1>1, <1>2, <1>3, <1>4, <1>5, <1>6 DEF Next

\* The inductive invariant: the unique index, the broker's redeliveries and
\* the answers of Create stay consistent whatever races and fails.
THEOREM Invariance == Spec => []Inv
<1>1. Init => Inv
  BY InitInv
<1>2. Inv /\ [Next]_vars => Inv'
  BY NextInv
<1> QED  BY <1>1, <1>2, PTL DEF Spec

\* Every variable keeps its type; no message is given back to the queue more
\* often than it may be delivered.
THEOREM TypeCorrect == Spec => []TypeOK
<1>1. Inv => TypeOK
  BY DEF Inv
<1> QED  BY <1>1, Invariance, PTL

\* What a submitter was told is stored is stored, with its key and content; it is
\* refused as conflicting only by a row of other content.
THEOREM AcceptedIsStored == Spec => []AnswersAreTrue
<1>1. Inv => AnswersAreTrue
  BY DEF Inv, AnswersBornOut, BornOut, Accepted, Refused, AnswersAreTrue
<1> QED  BY <1>1, Invariance, PTL

\* However many submitters, threads and retries race for a key, those that are
\* accepted under it are told the same id.
THEOREM KeysHaveOneId == Spec => []OneIdPerKey
<1>1. Inv => OneIdPerKey
  <2> SUFFICES ASSUME Inv, NEW u \in Submission, NEW v \in Submission,
                      NEW a \in told[u], NEW b \in told[v],
                      KeyOf[u] = KeyOf[v], KeyOf[u] # NoKey,
                      a.answer = "accepted", b.answer = "accepted"
               PROVE  a.id = b.id
    BY DEF OneIdPerKey
  <2>1. PICK r \in table : r.id = a.id /\ KeyOf[r.by] = KeyOf[u]
    BY DEF Inv, AnswersBornOut, BornOut, Accepted
  <2>2. PICK s \in table : s.id = b.id /\ KeyOf[s.by] = KeyOf[v]
    BY DEF Inv, AnswersBornOut, BornOut, Accepted
  <2> QED  BY <2>1, <2>2 DEF Inv, IndexHolds
<1> QED  BY <1>1, Invariance, PTL

\* No crash, shutdown, lost connection or failed statement loses a direct
\* message that is neither stored nor refused for good.
THEOREM MessagesKept == Spec => []MessageKept
<1>1. Inv => MessageKept
  BY DEF Inv
<1> QED  BY <1>1, Invariance, PTL

\* A submission has at most one row for each time it was sent and for each
\* fault, and at most one row altogether if it has a key.
THEOREM DuplicatesArePaid == Spec => []DuplicatesNeedFaults
<1>1. Inv => DuplicatesNeedFaults
  <2> SUFFICES ASSUME Inv, NEW u \in Submission
               PROVE  /\ Cardinality(Rows(u)) <= tries[u] + (MaxFaults - faults)
                      /\ KeyOf[u] # NoKey => Cardinality(Rows(u)) <= 1
    BY DEF DuplicatesNeedFaults, Rows
  <2>1. IsFiniteSet(Rows(u)) /\ IsFiniteSet(Storing(u))
    BY FS_Subset DEF Inv, RowsCounted, Rows, Storing
  <2>2. Cardinality(Rows(u)) \in Nat /\ Cardinality(Storing(u)) \in Nat
    BY <2>1, FS_CardinalityType
  <2>3. /\ waiting[u] \in Nat /\ tries[u] \in Nat /\ faults \in Nat
        /\ Cardinality(Rows(u)) + waiting[u] + Cardinality(Storing(u))
             <= tries[u] + (MaxFaults - faults)
    BY DEF Inv, TypeOK, RowsCounted
  <2>4. ASSUME KeyOf[u] # NoKey PROVE Cardinality(Rows(u)) <= 1
    <3>1. \A r, s \in Rows(u) : r = s
      BY <2>4 DEF Inv, IndexHolds, Rows
    <3>2. CASE Rows(u) = {}
      BY <3>2, FS_EmptySet
    <3>3. CASE Rows(u) # {}
      <4>1. PICK r : Rows(u) = {r}
        BY <3>1, <3>3
      <4> QED  BY <4>1, FS_Singleton
    <3> QED  BY <3>2, <3>3
  <2> QED  BY <2>2, <2>3, <2>4
<1> QED  BY <1>1, Invariance, PTL

-----------------------------------------------------------------------------
(* Submission implements its promise: what that needs of a state. *)

\* What the promise makes an entry of.
Acceptable(u) == u \notin Malformed /\ u \notin Disabled \ Direct

\* What t is about to do is what the promise allows.
Promised(t) ==
  /\ thread[t].pc = "commit" =>
       /\ thread[t].id \in 1 .. minted
       /\ \A r \in table : r.id # thread[t].id
  /\ thread[t].pc \in {"insert", "commit", "select"} => Acceptable(thread[t].sub)
  /\ thread[t].pc = "select" => Key(t) # NoKey
  /\ thread[t].pc = "reply" =>
       \/ thread[t].sub \in Direct /\ Requeued(thread[t].answer)
       \/ Promise!Holds(thread[t], thread[t].sub)

\* No id is given twice.
Numbered ==
  /\ \A r \in table : r.id \in 1 .. minted
  /\ \A r, s \in table : r.id = s.id => r = s
  /\ \A s, t \in Thread :
       thread[s].pc = "commit" /\ thread[t].pc = "commit" /\ thread[s].id = thread[t].id
         => s = t

PromiseInv == Numbered /\ \A t \in Thread : Promised(t)

\* Entries are made once and for all, and so an answer that holds holds on.
LEMMA HoldsStays ==
  ASSUME Entries \subseteq Entries'
  PROVE  \A a, u : Promise!Holds(a, u) => Promise!Holds(a, u)'
BY DEF Promise!Holds, Promise!Names, Promise!SameKey, Promise!Unserved

\* A thread that stands where it stood keeps its part while no row is added.
LEMMA PromisedStays ==
  ASSUME NEW s \in Thread, Promised(s), thread'[s].pc = thread[s].pc,
         thread'[s].sub = thread[s].sub, thread'[s].id = thread[s].id,
         thread'[s].answer = thread[s].answer, Entries \subseteq Entries',
         minted \in Nat, minted' \in Nat, minted <= minted',
         thread[s].pc = "commit" => \A r \in table' : r.id # thread[s].id
  PROVE  Promised(s)'
<1>1. thread[s].id \in 1 .. minted => thread[s].id \in 1 .. minted'
  OBVIOUS
<1>2. Promise!Holds(thread[s], thread[s].sub)
        => Promise!Holds(thread[s], thread[s].sub)'
  <2>1. Promise!Holds(thread[s], thread[s].sub) =>
          \A b : b.answer = thread[s].answer /\ b.id = thread[s].id
                 => Promise!Holds(b, thread[s].sub)
    BY DEF Promise!Holds
  <2> SUFFICES ASSUME Promise!Holds(thread[s], thread[s].sub)
               PROVE  Promise!Holds(thread[s], thread[s].sub)'
    OBVIOUS
  <2>2. PICK b : b = thread'[s]
    OBVIOUS
  <2>3. PICK u : u = thread[s].sub
    OBVIOUS
  <2>4. Promise!Holds(b, u)
    BY <2>1, <2>2, <2>3
  <2>5. Promise!Holds(b, u)'
    BY <2>4, HoldsStays
  <2> QED  BY <2>2, <2>3, <2>5 DEF Promise!Holds
<1>3. CASE thread[s].pc = "reply"
  BY <1>2, <1>3 DEF Promised, Requeued
<1>4. CASE thread[s].pc # "reply"
  BY <1>1, <1>4 DEF Promised, Key, Acceptable
<1> QED  BY <1>3, <1>4

\* A step of t that adds no row and hands out no id, and after which t does nothing
\* that is not promised.
LEMMA PromiseQuiet ==
  ASSUME Inv, PromiseInv, NEW t \in Thread, OthersSame(t), UNCHANGED <<table, minted>>,
         thread'[t].pc = "commit" => thread[t].pc = "commit" /\ thread'[t].id = thread[t].id,
         Promised(t)'
  PROVE  PromiseInv'
<1>1. minted \in Nat
  BY DEF Inv, TypeOK
<1>2. Entries \subseteq Entries'
  BY DEF Entries
<1>3. ASSUME NEW s \in Thread, s # t PROVE Promised(s)'
  <2>1. Promised(s) /\ thread'[s] = thread[s]
    BY <1>3 DEF PromiseInv, OthersSame
  <2>2. thread[s].pc = "commit" => \A r \in table' : r.id # thread[s].id
    BY <2>1 DEF Promised
  <2> QED  BY <1>1, <1>2, <2>1, <2>2, PromisedStays
<1>4. Numbered'
  <2>1. \A s \in Thread : thread'[s].pc = "commit"
                            => thread[s].pc = "commit" /\ thread'[s].id = thread[s].id
    BY DEF OthersSame
  <2> QED  BY <2>1 DEF PromiseInv, Numbered
<1> QED  BY <1>3, <1>4 DEF PromiseInv

\* The row of the thread that commits is a new entry.
LEMMA RecordsEntry ==
  ASSUME Inv, PromiseInv, NEW t \in Thread, thread[t].pc = "commit", table' = WithRow(t)
  PROVE  LET e == [id |-> thread[t].id, by |-> thread[t].sub]
         IN  /\ Entries' = Entries \cup {e}
             /\ e.by \in Submission /\ Acceptable(e.by)
             /\ \A f \in Entries : f.id # e.id /\ ~Promise!SameKey(f, e.by)
<1> DEFINE e == [id |-> thread[t].id, by |-> thread[t].sub]
           new == [id |-> thread[t].id, by |-> thread[t].sub, deleted |-> FALSE]
<1>1. table' = table \cup {new} /\ e = [id |-> new.id, by |-> new.by]
  BY DEF WithRow
<1>2. e.id = thread[t].id /\ e.by = thread[t].sub
  OBVIOUS
<1> HIDE DEF e, new
<1>3. Entries' = Entries \cup {e}
  BY <1>1 DEF Entries
<1>4. e.by \in Submission /\ Acceptable(e.by)
  BY <1>2 DEF Inv, TypeOK, PromiseInv, Promised
<1>5. \A r \in table : r.id # thread[t].id /\ (Key(t) # NoKey => KeyOf[r.by] # Key(t))
  BY DEF PromiseInv, Promised, Inv, IndexHolds
<1>6. ASSUME NEW f \in Entries PROVE f.id # e.id /\ ~Promise!SameKey(f, e.by)
  <2>1. PICK r \in table : f.id = r.id /\ f.by = r.by
    BY DEF Entries
  <2> QED  BY <1>2, <1>5, <2>1 DEF Promise!SameKey, Key
<1> QED  BY <1>3, <1>4, <1>6 DEF e

\* A commit that the promise sees, whether its answer comes or not.
LEMMA PromiseCommits ==
  ASSUME Inv, PromiseInv, NEW t \in Thread, OthersSame(t), thread[t].pc = "commit",
         table' = WithRow(t), UNCHANGED minted, thread'[t].pc = "reply", Promised(t)'
  PROVE  PromiseInv'
<1> DEFINE new == [id |-> thread[t].id, by |-> thread[t].sub, deleted |-> FALSE]
<1>1. table' = table \cup {new} /\ new.id = thread[t].id
  BY DEF WithRow
<1> HIDE DEF new
<1>2. minted \in Nat /\ Entries \subseteq Entries'
  BY <1>1 DEF Inv, TypeOK, Entries
<1>3. new.id \in 1 .. minted /\ \A r \in table : r.id # new.id
  BY <1>1 DEF PromiseInv, Promised
<1>4. ASSUME NEW s \in Thread, s # t, thread[s].pc = "commit" PROVE thread[s].id # new.id
  BY <1>1, <1>4 DEF PromiseInv, Numbered
<1>5. ASSUME NEW s \in Thread, s # t PROVE Promised(s)'
  <2>1. Promised(s) /\ thread'[s] = thread[s]
    BY <1>5 DEF PromiseInv, OthersSame
  <2>2. thread[s].pc = "commit" => \A r \in table' : r.id # thread[s].id
    BY <1>1, <1>4, <1>5, <2>1 DEF Promised
  <2> QED  BY <1>2, <2>1, <2>2, PromisedStays
<1>6. Numbered'
  <2>1. \A s \in Thread : thread'[s].pc = "commit"
                            => thread[s].pc = "commit" /\ thread'[s].id = thread[s].id
    BY DEF OthersSame
  <2>2. \A r \in table' : r.id \in 1 .. minted
    BY <1>1, <1>3 DEF PromiseInv, Numbered
  <2>3. \A r, s \in table' : r.id = s.id => r = s
    BY <1>1, <1>3 DEF PromiseInv, Numbered
  <2> QED  BY <2>1, <2>2, <2>3 DEF PromiseInv, Numbered
<1> QED  BY <1>5, <1>6 DEF PromiseInv

\* What Lookup answers is promised: a conflict and an id of another only for a key.
LEMMA LookupPromised ==
  ASSUME Inv, NEW u \in Submission, KeyOf[u] # NoKey
  PROVE  \/ u \in Direct /\ Requeued(Lookup(u).answer)
         \/ Promise!Holds(Lookup(u), u)
<1>1. CASE Existing(u) = {}
  BY <1>1 DEF Lookup, Requeued, Promise!Holds, NoId, Promise!NoId
<1>2. CASE Existing(u) # {}
  <2> DEFINE r == CHOOSE r \in Existing(u) : TRUE
             e == [id |-> r.id, by |-> r.by]
  <2>1. r \in table /\ KeyOf[r.by] = KeyOf[u]
    BY <1>2 DEF Existing
  <2> HIDE DEF r
  <2>2. Lookup(u) = IF ContentOf[r.by] = ContentOf[u]
                    THEN [answer |-> "accepted", id |-> r.id]
                    ELSE [answer |-> "conflict", id |-> NoId]
    BY <1>2 DEF Lookup, r
  <2>3. e \in Entries /\ e.id = r.id /\ e.by = r.by
    BY <2>1 DEF Entries
  <2> HIDE DEF e
  <2> QED  BY <2>1, <2>2, <2>3
              DEF Promise!Holds, Promise!Names, Promise!SameKey, NoId, Promise!NoId
<1> QED  BY <1>1, <1>2

\* The promise is kept by the steps of a thread that serves a submission.
LEMMA PromiseServes ==
  ASSUME Inv, PromiseInv, NEW t \in Thread, ThreadStep(t) PROVE PromiseInv'
<1>0. thread \in [Thread -> ThreadType] /\ OthersSame(t) /\ minted \in Nat
  BY OthersStay DEF Inv, TypeOK, ThreadType, OthersSame
<1>1. CASE Receive(t)
  <2>1. PICK v \in Submission :
          thread' = [thread EXCEPT ![t] =
                       [IdleThread EXCEPT !.pc = "got", !.sub = v, !.held = TRUE]]
    BY <1>1 DEF Receive
  <2>2. thread'[t].pc = "got"
    BY <1>0, <2>1 DEF IdleThread
  <2>3. UNCHANGED <<table, minted>>
    BY <1>1 DEF Receive
  <2>4. Promised(t)'
    BY <2>2 DEF Promised
  <2> QED  BY <1>0, <2>2, <2>3, <2>4, PromiseQuiet
<1>2. CASE Admit(t)
  <2> DEFINE u == thread[t].sub
  <2>1. UNCHANGED <<table, minted>> /\ u \in Submission
    BY <1>0, <1>2 DEF Admit, ThreadType
  <2>2. \/ GoesTo(t, "insert") /\ Acceptable(u)
        \/ \E answer \in {"shutting_down", "unavailable", "invalid"} :
             /\ Answers(t, answer, NoId)
             /\ answer = "unavailable" => u \in Disabled \ Direct
             /\ answer = "invalid" => u \in Malformed
    <3>1. stopping[t] \in BOOLEAN
      BY DEF Inv, TypeOK
    <3> QED  BY <1>2, <3>1 DEF Admit, Acceptable
  <2>3. CASE GoesTo(t, "insert") /\ Acceptable(u)
    <3>1. thread'[t].pc = "insert" /\ thread'[t].sub = u
      BY <2>3, Moved DEF Inv, PC
    <3>2. Promised(t)'
      BY <2>3, <3>1 DEF Promised, Acceptable
    <3> QED  BY <1>0, <2>1, <3>1, <3>2, PromiseQuiet
  <2>4. ASSUME NEW answer \in {"shutting_down", "unavailable", "invalid"},
               Answers(t, answer, NoId), answer = "unavailable" => u \in Disabled \ Direct,
               answer = "invalid" => u \in Malformed
        PROVE  PromiseInv'
    <3>1. /\ thread'[t].pc = "reply" /\ thread'[t].sub = u
          /\ thread'[t].answer = answer /\ thread'[t].id = NoId
      BY <2>4, Moved DEF Inv, Answer, NoId
    <3>2. \/ u \in Direct /\ Requeued(answer)
          \/ Promise!Holds(thread[t], u)'
      BY <2>4, <3>1 DEF Requeued, Promise!Holds, Promise!Unserved, NoId, Promise!NoId
    <3>3. Promised(t)'
      BY <3>1, <3>2 DEF Promised, Requeued
    <3> QED  BY <1>0, <2>1, <3>1, <3>3, PromiseQuiet
  <2> QED  BY <2>2, <2>3, <2>4
<1>3. CASE Insert(t) /\ KeyTaken(thread[t].sub)
  <2>1. GoesTo(t, "select") /\ UNCHANGED <<table, minted>> /\ thread[t].pc = "insert"
    BY <1>3 DEF Insert
  <2>2. thread'[t].pc = "select" /\ thread'[t].sub = thread[t].sub
    BY <2>1, Moved DEF Inv, PC
  <2>3. Promised(t)'
    BY <1>3, <2>1, <2>2 DEF Promised, PromiseInv, Acceptable, Key, KeyTaken
  <2> QED  BY <1>0, <2>1, <2>2, <2>3, PromiseQuiet
<1>4. CASE Insert(t) /\ ~KeyTaken(thread[t].sub)
  <2> DEFINE w == [thread[t] EXCEPT !.pc = "commit", !.id = minted']
  <2>1. /\ thread' = [thread EXCEPT ![t] = w] /\ minted' = minted + 1 /\ table' = table
        /\ thread[t].pc = "insert"
    BY <1>4 DEF Insert
  <2>2. w.pc = "commit" /\ w.id = minted' /\ w.sub = thread[t].sub
    <3>1. thread[t] \in ThreadType
      BY <1>0
    <3> QED  BY <3>1 DEF ThreadType
  <2> HIDE DEF w
  <2>3. /\ thread'[t].pc = "commit" /\ thread'[t].id = minted + 1
        /\ thread'[t].sub = thread[t].sub
    BY <1>0, <2>1, <2>2
  <2>4. minted' \in Nat /\ \A i \in 1 .. minted : i \in 1 .. minted' /\ i # minted + 1
    BY <1>0, <2>1
  <2>5. \A r \in table : r.id \in 1 .. minted
    BY DEF PromiseInv, Numbered
  <2>6. Promised(t)'
    <3>1. Acceptable(thread[t].sub)
      BY <2>1 DEF PromiseInv, Promised
    <3>2. minted + 1 \in 1 .. minted'
      BY <1>0, <2>1
    <3>3. \A r \in table' : r.id # thread'[t].id
      BY <2>1, <2>3, <2>4, <2>5
    <3> QED  BY <2>3, <3>1, <3>2, <3>3 DEF Promised, Acceptable
  <2>7. ASSUME NEW s \in Thread, s # t PROVE Promised(s)'
    <3>1. Promised(s) /\ thread'[s] = thread[s]
      BY <1>0, <2>7 DEF PromiseInv, OthersSame
    <3>2. thread[s].pc = "commit" => \A r \in table' : r.id # thread[s].id
      BY <2>1, <3>1 DEF Promised
    <3>3. Entries \subseteq Entries'
      BY <2>1 DEF Entries
    <3>4. minted <= minted'
      BY <1>0, <2>1
    <3> QED  BY <1>0, <2>4, <3>1, <3>2, <3>3, <3>4, PromisedStays
  <2>8. Numbered'
    <3>1. \A s \in Thread : s # t /\ thread'[s].pc = "commit" =>
            thread[s].pc = "commit" /\ thread'[s].id = thread[s].id /\ thread[s].id \in 1 .. minted
      BY <1>0 DEF OthersSame, PromiseInv, Promised
    <3>2. ASSUME NEW s \in Thread, NEW q \in Thread, thread'[s].pc = "commit",
                 thread'[q].pc = "commit", thread'[s].id = thread'[q].id
          PROVE  s = q
      <4>1. CASE s # t /\ q # t
        BY <3>1, <3>2, <4>1 DEF PromiseInv, Numbered
      <4>2. CASE s = t \/ q = t
        BY <2>3, <2>4, <3>1, <3>2, <4>2
      <4> QED  BY <4>1, <4>2
    <3>3. \A r \in table' : r.id \in 1 .. minted'
      BY <2>1, <2>4, <2>5
    <3> QED  BY <2>1, <3>2, <3>3 DEF PromiseInv, Numbered
  <2> QED  BY <2>6, <2>7, <2>8 DEF PromiseInv
<1>5. CASE Commit(t)
  <2>1. /\ thread[t].pc = "commit" /\ table' = WithRow(t) /\ UNCHANGED minted
        /\ Answers(t, "accepted", thread[t].id) /\ thread[t].id \in Nat
    BY <1>0, <1>5 DEF Commit, ThreadType
  <2>2. /\ thread'[t].pc = "reply" /\ thread'[t].sub = thread[t].sub
        /\ thread'[t].answer = "accepted" /\ thread'[t].id = thread[t].id
    BY <2>1, Moved DEF Inv, Answer
  <2>3. PICK e \in Entries' : e.id = thread[t].id /\ e.by = thread[t].sub
    <3>1. [id |-> thread[t].id, by |-> thread[t].sub] \in Entries'
      BY <2>1, RecordsEntry
    <3> QED  BY <3>1
  <2>4. Promise!Holds(thread[t], thread[t].sub)'
    BY <2>2, <2>3 DEF Promise!Holds, Promise!Names
  <2>5. Promised(t)'
    BY <2>2, <2>4 DEF Promised
  <2> QED  BY <1>0, <2>1, <2>2, <2>5, PromiseCommits
<1>6. CASE Select(t)
  <2> DEFINE u == thread[t].sub
             found == Lookup(u)
  <2>1. /\ thread[t].pc = "select" /\ UNCHANGED <<table, minted>>
        /\ Answers(t, found.answer, found.id) /\ u \in Submission
    BY <1>0, <1>6 DEF Select, ThreadType
  <2>2. found.answer \in Answer /\ found.id \in Nat
    BY <2>1, LookupTrue DEF Inv
  <2>3. (u \in Direct /\ Requeued(found.answer)) \/ Promise!Holds(found, u)
    BY <2>1, LookupPromised DEF PromiseInv, Promised, Key
  <2> HIDE DEF found
  <2>4. /\ thread'[t].pc = "reply" /\ thread'[t].sub = u
        /\ thread'[t].answer = found.answer /\ thread'[t].id = found.id
    BY <2>1, <2>2, Moved DEF Inv
  <2>5. Promise!Holds(found, u) => Promise!Holds(thread[t], u)'
    <3>1. Entries' = Entries
      BY <2>1 DEF Entries
    <3> QED  BY <2>4, <3>1
                DEF Promise!Holds, Promise!Names, Promise!SameKey, Promise!Unserved
  <2>6. Promised(t)'
    BY <2>3, <2>4, <2>5 DEF Promised, Requeued
  <2> QED  BY <1>0, <2>1, <2>4, <2>6, PromiseQuiet
<1>7. CASE Reply(t)
  <2>1. thread' = [thread EXCEPT ![t] = IdleThread] /\ UNCHANGED <<table, minted>>
    BY <1>7 DEF Reply
  <2>2. thread'[t].pc = "idle"
    BY <1>0, <2>1, IdleTypes
  <2>3. Promised(t)'
    BY <2>2 DEF Promised
  <2> QED  BY <1>0, <2>1, <2>2, <2>3, PromiseQuiet
<1> QED  BY <1>1, <1>2, <1>3, <1>4, <1>5, <1>6, <1>7 DEF ThreadStep

\* It is kept when the steps of Create fail, and when the thread is lost.
LEMMA PromiseFails ==
  ASSUME Inv, PromiseInv, NEW t \in Thread, FaultyStep(t) \/ Redeploy(t) PROVE PromiseInv'
<1>0. thread \in [Thread -> ThreadType] /\ OthersSame(t) /\ minted \in Nat
  BY OthersStay DEF Inv, TypeOK, ThreadType, OthersSame
<1>1. CASE CreateFails(t)
  <2>1. /\ thread'[t].pc = "reply" /\ thread'[t].sub = thread[t].sub
        /\ thread'[t].answer = "error" /\ thread'[t].id = NoId
        /\ UNCHANGED minted
    BY <1>1, Moved DEF Inv, Answer, NoId, CreateFails
  <2>2. \/ thread[t].sub \in Direct /\ Requeued("error")
        \/ Promise!Holds(thread[t], thread[t].sub)'
    BY <2>1 DEF Requeued, Promise!Holds, NoId, Promise!NoId
  <2>3. Promised(t)'
    BY <2>1, <2>2 DEF Promised, Requeued
  <2>4. UNCHANGED table \/ (thread[t].pc = "commit" /\ table' = WithRow(t))
    BY <1>1 DEF CreateFails
  <2> QED  BY <1>0, <2>1, <2>3, <2>4, PromiseQuiet, PromiseCommits
<1>2. CASE ConnectionLost(t) \/ BeginShutdown(t)
  <2>1. UNCHANGED <<table, minted>>
    BY <1>2 DEF ConnectionLost, BeginShutdown
  <2>2. /\ thread'[t].pc = thread[t].pc /\ thread'[t].sub = thread[t].sub
        /\ thread'[t].id = thread[t].id /\ thread'[t].answer = thread[t].answer
    BY <1>0, <1>2 DEF ConnectionLost, BeginShutdown, ThreadType
  <2>3. Promised(t) /\ (thread[t].pc = "commit" => \A r \in table' : r.id # thread[t].id)
    BY <2>1 DEF PromiseInv, Promised
  <2>4. Entries \subseteq Entries' /\ minted' \in Nat /\ minted <= minted'
    BY <1>0, <2>1 DEF Entries
  <2>5. Promised(t)'
    BY <1>0, <2>2, <2>3, <2>4, PromisedStays
  <2> QED  BY <1>0, <2>1, <2>2, <2>5, PromiseQuiet
<1>3. CASE Crash(t) \/ Redeploy(t)
  <2>1. thread' = [thread EXCEPT ![t] = IdleThread] /\ UNCHANGED <<table, minted>>
    BY <1>3 DEF Crash, Redeploy, Restart
  <2>2. thread'[t].pc = "idle"
    BY <1>0, <2>1, IdleTypes
  <2>3. Promised(t)'
    BY <2>2 DEF Promised
  <2> QED  BY <1>0, <2>1, <2>2, <2>3, PromiseQuiet
<1> QED  BY <1>1, <1>2, <1>3 DEF FaultyStep

\* A deleted row keeps its id and its key.
LEMMA DeletedStays ==
  ASSUME Inv, NEW r \in table, Delete(r)
  PROVE  /\ Entries' = Entries /\ UNCHANGED <<thread, minted, told>>
         /\ \A s \in table' : (s \in table /\ s # r) \/ (s = [r EXCEPT !.deleted = TRUE])
         /\ [r EXCEPT !.deleted = TRUE].id = r.id
<1> DEFINE d == [r EXCEPT !.deleted = TRUE]
<1>1. /\ table' = (table \ {r}) \cup {d} /\ UNCHANGED <<thread, minted, told>>
  BY DEF Delete
<1>2. d.id = r.id /\ d.by = r.by
  BY DEF Inv, TypeOK
<1> HIDE DEF d
<1>3. Entries' = Entries
  <2> DEFINE E(s) == [id |-> s.id, by |-> s.by]
  <2>1. E(d) = E(r)
    BY <1>2
  <2>2. Entries' = {E(s) : s \in (table \ {r}) \cup {d}} /\ Entries = {E(s) : s \in table}
    BY <1>1 DEF Entries
  <2> HIDE DEF E
  <2> QED  BY <2>1, <2>2
<1> QED  BY <1>1, <1>2, <1>3 DEF d

\* A deletion takes no entry from the promise.
LEMMA PromiseDeletes ==
  ASSUME Inv, PromiseInv, NEW r \in table, Delete(r) PROVE PromiseInv'
<1> DEFINE d == [r EXCEPT !.deleted = TRUE]
<1>1. /\ Entries' = Entries /\ UNCHANGED <<thread, minted>>
      /\ \A s \in table' : (s \in table /\ s # r) \/ s = d
      /\ d.id = r.id
  BY DeletedStays
<1> HIDE DEF d
<1>2. \A s \in table' : \E q \in table : q.id = s.id
  BY <1>1
<1>3. minted \in Nat
  BY DEF Inv, TypeOK
<1>4. ASSUME NEW t \in Thread PROVE Promised(t)'
  <2>1. Promised(t) /\ thread'[t] = thread[t]
    BY <1>1 DEF PromiseInv
  <2>2. thread[t].pc = "commit" => \A s \in table' : s.id # thread[t].id
    BY <1>2, <2>1 DEF Promised
  <2>3. minted' \in Nat /\ minted <= minted' /\ Entries \subseteq Entries'
    BY <1>1, <1>3
  <2> QED  BY <1>3, <2>1, <2>2, <2>3, PromisedStays
<1>5. Numbered'
  <2>1. \A s \in table' : s.id \in 1 .. minted
    BY <1>2 DEF PromiseInv, Numbered
  <2>2. ASSUME NEW s \in table', NEW q \in table', s.id = q.id PROVE s = q
    BY <1>1, <2>2 DEF PromiseInv, Numbered
  <2> QED  BY <1>1, <2>1, <2>2 DEF PromiseInv, Numbered
<1> QED  BY <1>4, <1>5 DEF PromiseInv

\* What the refinement needs of a state is invariant.
LEMMA NextPromiseInv == Inv /\ PromiseInv /\ [Next]_vars => PromiseInv'
<1> SUFFICES ASSUME Inv, PromiseInv, [Next]_vars PROVE PromiseInv'
  OBVIOUS
<1>1. CASE (\E u \in Submission : Submit(u)) \/ UNCHANGED vars
  <2>1. UNCHANGED <<thread, table, minted>>
    BY <1>1 DEF Submit, vars
  <2>2. Entries' = Entries
    BY <2>1 DEF Entries
  <2>3. minted \in Nat /\ minted' \in Nat /\ minted <= minted'
    BY <2>1 DEF Inv, TypeOK
  <2>4. ASSUME NEW t \in Thread PROVE Promised(t)'
    <3>1. /\ Promised(t) /\ thread'[t] = thread[t]
          /\ thread[t].pc = "commit" => \A s \in table' : s.id # thread[t].id
      BY <2>1 DEF PromiseInv, Promised
    <3> QED  BY <2>2, <2>3, <3>1, PromisedStays
  <2>5. Numbered'
    BY <2>1 DEF PromiseInv, Numbered
  <2> QED  BY <2>4, <2>5 DEF PromiseInv
<1>2. ASSUME NEW t \in Thread, ThreadStep(t) \/ FaultyStep(t) \/ Redeploy(t) PROVE PromiseInv'
  BY <1>2, PromiseServes, PromiseFails
<1>3. ASSUME NEW r \in table, Delete(r) PROVE PromiseInv'
  BY <1>3, PromiseDeletes
<1> QED  BY <1>1, <1>2, <1>3 DEF Next

-----------------------------------------------------------------------------
(* Submission implements its promise: step by step. *)

\* Most steps the promise does not see.
LEMMA Unseen ==
  ASSUME UNCHANGED <<table, told>> PROVE UNCHANGED Promise!pvars
BY DEF Entries, Promise!pvars

\* An entry is made by a commit, whether its answer comes or not.
LEMMA CommitRecords ==
  ASSUME Inv, PromiseInv, NEW t \in Thread, thread[t].pc = "commit", table' = WithRow(t),
         UNCHANGED told
  PROVE  Promise!Record
<1> DEFINE e == [id |-> thread[t].id, by |-> thread[t].sub]
<1>1. /\ Entries' = Entries \cup {e}
      /\ e.by \in Submission /\ Acceptable(e.by)
      /\ \A f \in Entries : f.id # e.id /\ ~Promise!SameKey(f, e.by)
  BY RecordsEntry
<1> HIDE DEF e
<1>2. e.by \in Submission \ (Malformed \cup Promise!Unserved)
  BY <1>1 DEF Acceptable, Promise!Unserved
<1> QED  BY <1>1, <1>2 DEF Promise!Record

\* The submitter gets an answer that holds, or none.
LEMMA ReplyHolds ==
  ASSUME Inv, PromiseInv, NEW t \in Thread, Reply(t)
  PROVE  Promise!Reply \/ UNCHANGED Promise!pvars
<1> DEFINE u == thread[t].sub
           a == [answer |-> thread[t].answer, id |-> thread[t].id]
<1>1. /\ thread[t].pc = "reply" /\ UNCHANGED table /\ u \in Submission
      /\ told \in [Submission -> SUBSET [answer: Answer, id: Nat]]
  BY DEF Reply, Inv, TypeOK
<1>2. CASE told' = told
  BY <1>1, <1>2, Unseen
<1>3. CASE told' # told
  <2>1. /\ told' = [told EXCEPT ![u] = @ \cup {a}]
        /\ ~(u \in Direct /\ Requeued(thread[t].answer))
    BY <1>3 DEF Reply
  <2>2. Promise!Holds(thread[t], u)
    BY <1>1, <2>1 DEF PromiseInv, Promised
  <2>3. a.answer = thread[t].answer /\ a.id = thread[t].id
    OBVIOUS
  <2> HIDE DEF a
  <2>4. Promise!Holds(a, u)
    BY <2>2, <2>3 DEF Promise!Holds
  <2>5. a \in told'[u] /\ Entries' = Entries
    BY <1>1, <2>1 DEF Entries
  <2> HIDE DEF u
  <2> QED  BY <1>1, <2>1, <2>4, <2>5 DEF Promise!Reply
<1> QED  BY <1>2, <1>3

\* Every step is one of the promise, or one it does not see.
LEMMA PromiseStep ==
  Inv /\ PromiseInv /\ [Next]_vars => [Promise!PNext]_(Promise!pvars)
<1> SUFFICES ASSUME Inv, PromiseInv, [Next]_vars
             PROVE  Promise!PNext \/ UNCHANGED Promise!pvars
  OBVIOUS
<1>1. CASE (\E u \in Submission : Submit(u)) \/ UNCHANGED vars
  BY <1>1, Unseen DEF Submit, vars
<1>2. ASSUME NEW t \in Thread, ThreadStep(t)
      PROVE  Promise!PNext \/ UNCHANGED Promise!pvars
  <2>1. CASE Commit(t)
    BY <2>1, CommitRecords DEF Commit, Promise!PNext
  <2>2. CASE Reply(t)
    BY <2>2, ReplyHolds DEF Promise!PNext
  <2>3. CASE Receive(t) \/ Admit(t) \/ Insert(t) \/ Select(t)
    BY <2>3, Unseen DEF Receive, Admit, Insert, Select
  <2> QED  BY <1>2, <2>1, <2>2, <2>3 DEF ThreadStep
<1>3. ASSUME NEW t \in Thread, FaultyStep(t) \/ Redeploy(t)
      PROVE  Promise!PNext \/ UNCHANGED Promise!pvars
  <2>1. CASE CreateFails(t)
    BY <2>1, CommitRecords, Unseen DEF CreateFails, Promise!PNext
  <2>2. CASE ~CreateFails(t)
    BY <1>3, <2>2, Unseen
       DEF FaultyStep, ConnectionLost, BeginShutdown, Crash, Redeploy, Restart
  <2> QED  BY <2>1, <2>2
<1>4. ASSUME NEW r \in table, Delete(r) PROVE UNCHANGED Promise!pvars
  BY <1>4, DeletedStays DEF Promise!pvars
<1> QED  BY <1>1, <1>2, <1>3, <1>4 DEF Next

\* The refinement: whatever the threads do at once, fail at or lose in a crash, the
\* entries and the answers are those of SubmissionPromise, where nothing fails and
\* nothing happens at once (accept, Create, the consumer's settlement).
THEOREM PromiseIsKept == Spec => KeepsPromise
<1>1. Init => Promise!PInit /\ PromiseInv
  <2> SUFFICES ASSUME Init PROVE Promise!PInit /\ PromiseInv
    OBVIOUS
  <2>1. table = {} /\ told = [u \in Submission |-> {}] /\ \A t \in Thread : thread[t] = IdleThread
    BY DEF Init
  <2>2. \A t \in Thread : thread[t].pc = "idle"
    BY <2>1, IdleTypes
  <2>3. PromiseInv
    BY <2>1, <2>2 DEF PromiseInv, Numbered, Promised
  <2> QED  BY <2>1, <2>3 DEF Promise!PInit, Entries
<1>2. Inv /\ PromiseInv /\ [Next]_vars => PromiseInv' /\ [Promise!PNext]_(Promise!pvars)
  BY NextPromiseInv, PromiseStep
<1> QED  BY <1>1, <1>2, Invariance, PTL DEF Spec, KeepsPromise, Promise!PSpec
=============================================================================
