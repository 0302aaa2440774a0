--------------------------- MODULE MessagesProofs ---------------------------
(***************************************************************************)
(* Proofs about what a message meets around its delivery: the requests to  *)
(* the API, for any finite set of them; the migration, for any old rows,   *)
(* servers and crashes; the attempts at the HTTP providers, by e-mail and  *)
(* at a webhook, for any recipients, addresses, limits and numbers of      *)
(* attempts; and the waits between them, for every length of a second of   *)
(* at least five clock units.                                              *)
(***************************************************************************)
EXTENDS MCMessages, FiniteSetTheorems, TLAPS

-----------------------------------------------------------------------------
(* The waits. *)

\* The inductive invariant: a wait is what the failure before it can have drawn.
WaitsInv ==
  /\ TypeOK
  /\ attempts = 0 => wait = 0
  /\ attempts > 0 => wait \in Jitter(RetryDelay(attempts))

\* A wait lies between nine and eleven tenths of the delay, without the upper end;
\* there is always one to draw.
LEMMA JitterBounds ==
  ASSUME NEW d \in Nat, d >= 10
  PROVE  /\ Jitter(d) # {}
         /\ \A w \in Jitter(d) : w \in Nat /\ 10 * w >= 9 * d /\ 10 * w < 11 * d
<1>1. d \div 5 >= 2 /\ d \div 5 \in Nat /\ d \div 10 \in Nat
  OBVIOUS
<1>2. 10 * (d \div 10) <= d /\ 5 * (d \div 5) <= d /\ d < 10 * (d \div 10) + 10
      /\ d < 5 * (d \div 5) + 5
  OBVIOUS
<1>3. d - (d \div 10) + 0 \in Jitter(d)
  BY <1>1 DEF Jitter
<1>4. ASSUME NEW w \in Jitter(d)
      PROVE  w \in Nat /\ 10 * w >= 9 * d /\ 10 * w < 11 * d
  <2>1. PICK r \in 0 .. (d \div 5) - 1 : w = d - (d \div 10) + r
    BY <1>4 DEF Jitter
  <2> QED BY <2>1, <1>1, <1>2
<1> QED BY <1>3, <1>4

\* The delays themselves: whole, long enough for the jitter to have a choice, and
\* each of the first ten more than eleven ninths of the one before it.
LEMMA DelayBounds ==
  ASSUME NEW n \in Nat \ {0}
  PROVE  /\ RetryDelay(n) \in Nat /\ RetryDelay(n) >= 10
         /\ RetryDelay(n) <= 900 * Second
         /\ n >= 10 => RetryDelay(n) = 900 * Second
         /\ n < 10 => 11 * RetryDelay(n) < 9 * RetryDelay(n + 1)
<1> USE SecondAssumption
<1>1. CASE n > 9
  BY <1>1 DEF RetryDelay
<1>2. CASE n = 9
  BY <1>2 DEF RetryDelay, Shifted
<1>3. CASE n \in 1 .. 8
  <2>1. \A i \in 1 .. 8 : Shifted[i] \in 2 .. 256 /\ Shifted[i + 1] = 2 * Shifted[i]
    BY DEF Shifted
  <2>2. PICK k \in 2 .. 256 : k = Shifted[n] /\ Shifted[n + 1] = 2 * k
    BY <2>1, <1>3
  <2>3. RetryDelay(n) = k * Second /\ RetryDelay(n + 1) = (2 * k) * Second
    BY <2>2, <1>3 DEF RetryDelay
  <2>4. k * Second \in Nat /\ k * Second >= 10 /\ k * Second <= 900 * Second
    BY <2>2
  <2>5. (2 * k) * Second = 2 * (k * Second)
    BY <2>2
  <2>6. 11 * (k * Second) < 9 * (2 * (k * Second))
    BY <2>4
  <2> QED BY <2>3, <2>4, <2>5, <2>6, <1>3
<1> QED BY <1>1, <1>2, <1>3

\* What a failure leaves is again a possible wait; the counter stays in its bound.
LEMMA WaitsPreserved == WaitsInv /\ [Next]_vars => WaitsInv'
<1> SUFFICES ASSUME WaitsInv, [Next]_vars PROVE WaitsInv'
  OBVIOUS
<1> USE AttemptsAssumption DEF WaitsInv, TypeOK
<1>1. CASE Fail
  <2>1. attempts' \in 1 .. MaxAttempts /\ attempts' = attempts + 1
    BY <1>1 DEF Fail
  <2>2. wait' \in Jitter(RetryDelay(attempts'))
    BY <1>1, <2>1 DEF Fail, Count
  <2>3. wait' \in Nat
    BY <2>1, <2>2, DelayBounds, JitterBounds
  <2> QED BY <2>1, <2>2, <2>3
<1>2. CASE UNCHANGED vars
  BY <1>2 DEF vars
<1> QED BY <1>1, <1>2 DEF Next

\* The invariant holds in every state of every behaviour.
LEMMA WaitsAlways == Spec => []WaitsInv
<1>1. Init => WaitsInv
  BY AttemptsAssumption DEF Init, WaitsInv, TypeOK
<1> QED BY <1>1, WaitsPreserved, PTL DEF Spec

\* The counter and the wait keep their types.
THEOREM WaitsTypeCorrect == Spec => []TypeOK
<1>1. WaitsInv => TypeOK
  BY DEF WaitsInv
<1> QED BY <1>1, WaitsAlways, PTL

\* A wait that the invariant allows is on the level that the schedule ends at.
LEMMA WaitsLevel == WaitsInv => WaitsLevelOut
<1> SUFFICES ASSUME WaitsInv PROVE WaitsLevelOut
  OBVIOUS
<1>1. CASE attempts = 0
  BY <1>1, SecondAssumption DEF WaitsInv, TypeOK, WaitsLevelOut
<1>2. CASE attempts # 0
  <2>1. attempts \in Nat \ {0}
    BY <1>2, AttemptsAssumption DEF WaitsInv, TypeOK
  <2> DEFINE d == RetryDelay(attempts)
  <2>2. d \in Nat /\ d >= 10 /\ d <= 900 * Second /\ (attempts >= 10 => d = 900 * Second)
    BY <2>1, DelayBounds
  <2>3. wait \in Jitter(d)
    BY <2>1 DEF WaitsInv
  <2> HIDE DEF d
  <2>4. wait \in Nat /\ 10 * wait >= 9 * d /\ 10 * wait < 11 * d
    BY <2>2, <2>3, JitterBounds
  <2> QED BY <2>1, <2>2, <2>4, SecondAssumption DEF WaitsLevelOut
<1> QED BY <1>1, <1>2

\* Every wait stays below eleven tenths of fifteen minutes, and from the tenth on
\* at or above nine tenths of it.
THEOREM LevelOut == Spec => []WaitsLevelOut
BY WaitsLevel, WaitsAlways, PTL

\* Each of the first ten waits is longer than the one before it, whatever the
\* jitter drew for both: for every clock of at least five units in a second.
THEOREM Grow == Spec => WaitsGrow
<1>1. ASSUME WaitsInv, [Next]_vars PROVE [attempts < 10 => wait' > wait]_vars
  <2>1. CASE UNCHANGED vars
    BY <2>1
  <2>2. CASE Fail /\ attempts < 10
    <3> SUFFICES wait' > wait
      OBVIOUS
    <3>1. attempts \in Nat /\ attempts' = attempts + 1 /\ attempts + 1 \in Nat \ {0}
      BY <2>2, <1>1, AttemptsAssumption DEF WaitsInv, TypeOK, Fail
    <3>2. PICK e \in Nat : e = RetryDelay(attempts + 1) /\ e >= 10
      BY <3>1, DelayBounds
    <3>3. wait' \in Jitter(e)
      BY <2>2, <3>2 DEF Fail, Count
    <3>4. wait' \in Nat /\ 10 * wait' >= 9 * e
      BY <3>2, <3>3, JitterBounds
    <3>5. CASE attempts = 0
      <4>1. wait = 0
        BY <3>5, <1>1 DEF WaitsInv
      <4> QED BY <4>1, <3>2, <3>4
    <3>6. CASE attempts # 0
      <4>1. PICK d \in Nat : d = RetryDelay(attempts) /\ d >= 10 /\ 11 * d < 9 * e
        BY <3>1, <3>2, <3>6, <2>2, DelayBounds
      <4>2. wait \in Jitter(d)
        BY <3>1, <3>6, <1>1, <4>1 DEF WaitsInv
      <4>3. wait \in Nat /\ 10 * wait < 11 * d
        BY <4>1, <4>2, JitterBounds
      <4> QED BY <4>1, <4>3, <3>2, <3>4
    <3> QED BY <3>5, <3>6
  <2>3. CASE Fail /\ ~(attempts < 10)
    BY <2>3
  <2> QED BY <2>1, <2>2, <2>3, <1>1 DEF Next
<1> QED BY <1>1, WaitsAlways, PTL DEF Spec, WaitsGrow
-----------------------------------------------------------------------------
(* The HTTP providers: the inductive invariant. *)

\* The senders, their messages and the calls; only Mattermost makes two.
ProviderKinds ==
  /\ sender \in Provider!Sender
  /\ shape \in (IF sender = "sms" THEN {"invalid", "short"} ELSE Provider!Shape)
  /\ running \in BOOLEAN /\ outcome \in {"none", "failed", "sent"}
  /\ running => outcome = "none" /\ ~Provider!Refused

ProviderCounts ==
  /\ step \in 0 .. 1 /\ tries \in 0 .. MaxTries /\ uploads \in Nat /\ unknown \in Nat
  /\ takenFor \in [Receptor -> Nat]

ProviderTypes ==
  /\ ProviderKinds /\ ProviderCounts
  /\ step = 1 => running /\ sender = "mattermost" /\ shape \in {"long", "file"}

\* Before the attempt that succeeds, whoever took the message did so in an
\* attempt that failed.
TakenUnknown ==
  /\ outcome # "sent" => \A r \in Receptor : takenFor[r] <= unknown
  /\ Provider!RepeatsExplained

\* A file that was uploaded for a post is not used up by another.
FileForPost ==
  sender = "mattermost" /\ shape \in {"long", "file"} =>
    takenFor[One] + step <= uploads

ProviderInv ==
  ProviderTypes /\ TakenUnknown /\ FileForPost /\ Provider!SentMeansTaken

\* Uploading is Mattermost's first call for a file; every other call is an attempt's
\* last.
LEMMA CallFacts ==
  ASSUME ProviderTypes, running
  PROVE  /\ Provider!Call = "upload" <=> step = 0 /\ sender = "mattermost"
                                         /\ shape \in {"long", "file"}
         /\ Provider!IsLast <=> Provider!Call # "upload"
<1> USE DEF ProviderTypes, ProviderKinds, ProviderCounts, Provider!Sender, Provider!Shape, Provider!Refused,
            Provider!Call, Provider!IsLast, Provider!Calls
<1>1. shape \in {"short", "long", "file"} /\ step \in {0, 1}
  OBVIOUS
<1>2. CASE sender = "sms"
  <2>1. Provider!Calls = <<"send">> /\ step = 0
    BY <1>2, <1>1
  <2> QED  BY <2>1, <1>2
<1>3. CASE sender = "bale"
  <2>1. step = 0
    BY <1>3, <1>1
  <2>2. CASE shape = "short"
    BY <2>1, <2>2, <1>3
  <2>3. CASE shape # "short"
    BY <2>1, <2>3, <1>3
  <2> QED  BY <2>2, <2>3
<1>4. CASE sender = "mattermost"
  <2>1. CASE shape = "short"
    <3>1. Provider!Calls = <<"post">> /\ step = 0
      BY <1>4, <2>1, <1>1
    <3> QED  BY <3>1, <2>1
  <2>2. CASE shape # "short"
    <3>1. Provider!Calls = <<"upload", "post">>
      BY <1>4, <2>2
    <3>2. CASE step = 0
      BY <3>1, <3>2, <2>2, <1>1, <1>4
    <3>3. CASE step = 1
      BY <3>1, <3>3, <2>2, <1>1, <1>4
    <3> QED  BY <3>2, <3>3, <1>1
  <2> QED  BY <2>1, <2>2
<1> QED  BY <1>2, <1>3, <1>4

\* The provider's side of a call of a running attempt, whatever comes back.
LEMMA ProviderTakes ==
  ASSUME ProviderInv, running, NEW takers \in SUBSET Provider!To, Provider!Takes(takers)
  PROVE  /\ takenFor' \in [Receptor -> Nat] /\ uploads' \in Nat
         /\ \A r \in Receptor : takenFor[r] \in Nat /\ takenFor[r] <= unknown
         /\ Provider!Call = "upload" =>
              /\ takenFor' = takenFor /\ uploads' >= uploads
              /\ takers = Provider!To => uploads' = uploads + 1
         /\ Provider!Call # "upload" =>
              /\ uploads' = uploads
              /\ \A r \in Receptor : takenFor'[r] \in {takenFor[r], takenFor[r] + 1}
              /\ \A r \in takers \cap Receptor : takenFor'[r] = takenFor[r] + 1
              /\ takers = {} => takenFor' = takenFor
<1> USE DEF ProviderInv
<1>0. /\ takenFor \in [Receptor -> Nat] /\ uploads \in Nat
      /\ \A r \in Receptor : takenFor[r] \in Nat /\ takenFor[r] <= unknown
  BY DEF ProviderTypes, ProviderKinds, ProviderCounts, TakenUnknown
<1>1. CASE Provider!Call = "upload"
  <2>1. Provider!To = {One}
    BY <1>1, CallFacts DEF Provider!To
  <2>2. takers = {} \/ takers = {One}
    BY <2>1
  <2>5. uploads' = uploads + (IF takers = {} THEN 0 ELSE 1) /\ takenFor' = takenFor
    BY <1>1 DEF Provider!Takes
  <2> HIDE DEF ProviderInv
  <2> QED  BY <2>1, <2>2, <2>5, <1>0, <1>1
<1>2. CASE Provider!Call # "upload"
  <2>1. /\ takenFor' = [r \in Receptor |-> takenFor[r] + (IF r \in takers THEN 1 ELSE 0)]
        /\ uploads' = uploads
    BY <1>2 DEF Provider!Takes
  <2> HIDE DEF ProviderInv
  <2>2. \A r \in Receptor : takenFor'[r] = takenFor[r] + (IF r \in takers THEN 1 ELSE 0)
    BY <2>1
  <2>3. takenFor' \in [Receptor -> Nat]
    BY <2>1, <1>0
  <2>4. takers = {} => takenFor' = takenFor
    BY <2>1, <1>0
  <2> QED  BY <2>1, <2>2, <2>3, <2>4, <1>0, <1>2
<1> QED  BY <1>1, <1>2

\* An attempt begins, or is refused before its first call.
LEMMA ProviderBegins == ProviderInv /\ Provider!Begin => ProviderInv'
<1> SUFFICES ASSUME ProviderInv, Provider!Begin PROVE ProviderInv'
  OBVIOUS
<1> USE DEF ProviderInv, Provider!Begin
<1>1. ProviderTypes'
  BY MessagesAssumption DEF ProviderTypes, ProviderKinds, ProviderCounts, Provider!Sender, Provider!Shape, Provider!Refused,
       Provider!ProviderCallsAssumption
<1>2. TakenUnknown'
  BY DEF TakenUnknown, Provider!RepeatsExplained
<1>3. FileForPost'
  <2>1. sender = "mattermost" /\ shape \in {"long", "file"} => takenFor[One] <= uploads
    BY MessagesAssumption DEF FileForPost, ProviderTypes, ProviderKinds, ProviderCounts, Provider!ProviderCallsAssumption
  <2>2. takenFor[One] \in Nat
    BY MessagesAssumption DEF ProviderTypes, ProviderKinds, ProviderCounts, Provider!ProviderCallsAssumption
  <2> QED  BY <2>1, <2>2 DEF FileForPost
<1>4. Provider!SentMeansTaken'
  BY DEF Provider!SentMeansTaken
<1> QED  BY <1>1, <1>2, <1>3, <1>4

\* A call fails, with or without an answer.
LEMMA ProviderFails ==
  ASSUME ProviderInv, running, NEW takers \in SUBSET Provider!To, Provider!Takes(takers),
         Provider!EndsWithError(takers), UNCHANGED <<sender, shape, tries>>
  PROVE  ProviderInv'
<1> DEFINE P == Provider!Call # "upload" /\ takers # {}
<1>1. /\ running' = FALSE /\ outcome' = "failed" /\ step' = 0
      /\ unknown' = IF P THEN unknown + 1 ELSE unknown
  BY DEF Provider!EndsWithError
<1>2. unknown \in Nat /\ uploads \in Nat /\ step \in 0 .. 1 /\ One \in Receptor
  BY MessagesAssumption DEF ProviderInv, ProviderTypes, ProviderKinds, ProviderCounts, Provider!ProviderCallsAssumption
<1>3. ProviderTypes'
  <2>1. takenFor' \in [Receptor -> Nat] /\ uploads' \in Nat
    BY ProviderTakes
  <2>2. unknown' \in Nat
    BY <1>1, <1>2
  <2>3. /\ sender' = sender /\ shape' = shape /\ tries' = tries
        /\ sender \in Provider!Sender /\ tries \in 0 .. MaxTries
        /\ shape \in (IF sender = "sms" THEN {"invalid", "short"} ELSE Provider!Shape)
    BY DEF ProviderInv, ProviderTypes, ProviderKinds, ProviderCounts
  <2>4. ProviderKinds'
    BY <2>3, <1>1 DEF ProviderKinds
  <2>5. ProviderCounts'
    BY <2>1, <2>2, <2>3, <1>1 DEF ProviderCounts
  <2> QED  BY <2>4, <2>5, <1>1 DEF ProviderTypes
<1>4. \A r \in Receptor : takenFor'[r] <= unknown' /\ takenFor'[r] \in Nat
  <2> TAKE r \in Receptor
  <2>1. takenFor[r] \in Nat /\ takenFor[r] <= unknown
    BY ProviderTakes
  <2>2. CASE P
    BY <2>1, <2>2, <1>1, <1>2, ProviderTakes
  <2>3. CASE ~P
    <3>1. takenFor' = takenFor
      BY <2>3, ProviderTakes
    <3> QED  BY <3>1, <2>1, <2>3, <1>1, <1>2
  <2> QED  BY <2>2, <2>3
<1>5. TakenUnknown'
  <2>1. unknown' \in Nat
    BY <1>3 DEF ProviderTypes, ProviderKinds, ProviderCounts
  <2> QED  BY <2>1, <1>4 DEF TakenUnknown, Provider!RepeatsExplained
<1>6. FileForPost'
  <2> SUFFICES ASSUME sender = "mattermost", shape \in {"long", "file"}
               PROVE  takenFor'[One] <= uploads'
    BY <1>1, <1>2, <1>4 DEF FileForPost
  <2>1. takenFor[One] + step <= uploads /\ takenFor[One] \in Nat
    BY <1>2, ProviderTakes DEF ProviderInv, FileForPost
  <2>2. CASE Provider!Call = "upload"
    <3>1. takenFor' = takenFor /\ uploads' >= uploads /\ uploads' \in Nat
      BY <2>2, ProviderTakes
    <3> QED  BY <3>1, <2>1, <1>2
  <2>3. CASE Provider!Call # "upload"
    <3>1. step = 1
      BY <2>3, <1>2, CallFacts DEF ProviderInv
    <3>2. takenFor'[One] \in {takenFor[One], takenFor[One] + 1} /\ uploads' = uploads
      BY <2>3, <1>2, ProviderTakes
    <3> QED  BY <3>1, <3>2, <2>1, <1>2
  <2> QED  BY <2>2, <2>3
<1>7. Provider!SentMeansTaken'
  BY <1>1 DEF Provider!SentMeansTaken
<1> QED  BY <1>3, <1>5, <1>6, <1>7 DEF ProviderInv

\* A good answer: the upload is done, or the message is sent to everyone it is for.
LEMMA ProviderSucceeds ==
  ASSUME ProviderInv, running, NEW takers \in SUBSET Provider!To, Provider!Takes(takers),
         Provider!To \subseteq takers, Provider!Succeeds, UNCHANGED <<sender, shape, tries>>
  PROVE  ProviderInv'
<1>1. takers = Provider!To
  OBVIOUS
<1>2. unknown \in Nat /\ uploads \in Nat /\ step \in 0 .. 1 /\ One \in Receptor
      /\ unknown' = unknown
  BY MessagesAssumption
     DEF ProviderInv, ProviderTypes, ProviderKinds, ProviderCounts, Provider!ProviderCallsAssumption, Provider!Succeeds
<1>3. takenFor' \in [Receptor -> Nat] /\ uploads' \in Nat
  BY ProviderTakes
<1>4. outcome = "none"
  BY DEF ProviderInv, ProviderTypes, ProviderKinds, ProviderCounts
<1>5. CASE Provider!Call = "upload"
  <2>1. step = 0 /\ sender = "mattermost" /\ shape \in {"long", "file"} /\ ~Provider!IsLast
    BY <1>5, CallFacts DEF ProviderInv
  <2>2. step' = 1 /\ running' /\ running' \in BOOLEAN /\ outcome' = "none"
    <3>1. step' = 1 /\ outcome' = "none"
      BY <2>1, <1>4 DEF Provider!Succeeds
    <3>2. running' = ~Provider!IsLast
      BY DEF Provider!Succeeds
    <3> QED  BY <3>1, <3>2, <2>1
  <2>3. takenFor' = takenFor /\ uploads' = uploads + 1
    BY <1>5, <1>1, ProviderTakes
  <2>4. ProviderTypes'
    <3>1. ProviderKinds /\ ProviderCounts
      BY DEF ProviderInv, ProviderTypes
    <3>2. ProviderKinds'
      BY <3>1, <2>2 DEF ProviderKinds, Provider!Refused
    <3>3. ProviderCounts'
      BY <3>1, <2>2, <1>2, <1>3 DEF ProviderCounts
    <3> QED  BY <3>2, <3>3, <2>1, <2>2 DEF ProviderTypes
  <2>5. TakenUnknown'
    BY <2>3, <2>2, <1>2, <1>4 DEF ProviderInv, TakenUnknown, Provider!RepeatsExplained
  <2>6. FileForPost'
    <3>1. takenFor[One] + step <= uploads /\ takenFor[One] \in Nat
      BY <2>1, <1>2, ProviderTakes DEF ProviderInv, FileForPost
    <3> QED  BY <3>1, <2>1, <2>2, <2>3, <1>2 DEF FileForPost
  <2>7. Provider!SentMeansTaken'
    BY <2>2 DEF Provider!SentMeansTaken
  <2> QED  BY <2>4, <2>5, <2>6, <2>7 DEF ProviderInv
<1>6. CASE Provider!Call # "upload"
  <2>1. Provider!IsLast
    BY <1>6, CallFacts DEF ProviderInv
  <2>2. step' = 0 /\ running' = FALSE /\ outcome' = "sent"
    BY <2>1 DEF Provider!Succeeds
  <2>3. \A r \in Receptor : /\ takenFor[r] \in Nat /\ takenFor[r] <= unknown
                            /\ takenFor'[r] \in {takenFor[r], takenFor[r] + 1}
    BY <1>6, ProviderTakes
  <2>4. ProviderTypes'
    <3>1. ProviderKinds /\ ProviderCounts
      BY DEF ProviderInv, ProviderTypes
    <3>2. ProviderKinds'
      BY <3>1, <2>2 DEF ProviderKinds
    <3>3. ProviderCounts'
      BY <3>1, <2>2, <1>2, <1>3 DEF ProviderCounts
    <3> QED  BY <3>2, <3>3, <2>2 DEF ProviderTypes
  <2>5. TakenUnknown'
    BY <2>2, <2>3, <1>2 DEF TakenUnknown, Provider!RepeatsExplained
  <2>6. FileForPost'
    <3> SUFFICES ASSUME sender = "mattermost", shape \in {"long", "file"}
                 PROVE  takenFor'[One] + step' <= uploads'
      BY DEF FileForPost
    <3>1. takenFor[One] + step <= uploads
      BY DEF ProviderInv, FileForPost
    <3>2. step = 1 /\ uploads' = uploads
      BY <1>2, <1>6, CallFacts, ProviderTakes DEF ProviderInv
    <3> QED  BY <3>1, <3>2, <2>2, <2>3, <1>2
  <2>7. Provider!SentMeansTaken'
    <3>1. Provider!To \subseteq Receptor
      BY <1>2 DEF Provider!To
    <3>2. \A r \in Provider!To : takenFor'[r] > 0
      BY <3>1, <1>1, <1>6, <2>3, ProviderTakes
    <3>3. Provider!To' = Provider!To
      BY DEF Provider!To
    <3> QED  BY <3>2, <3>3 DEF Provider!SentMeansTaken
  <2> QED  BY <2>4, <2>5, <2>6, <2>7 DEF ProviderInv
<1> QED  BY <1>5, <1>6

\* The providers count with the Cardinality of the library.
LEMMA ProviderCount ==
  ASSUME NEW S
  PROVE  /\ Provider!Cardinality(S) = Cardinality(S)
         /\ Provider!IsFiniteSet(S) <=> IsFiniteSet(S)
BY DEF Provider!Cardinality, Cardinality, Provider!IsFiniteSet, IsFiniteSet

\* Accepted as many entries as there are recipients, an honest provider took the
\* message for each of them; nobody needs to compare whose the entries are.
LEMMA GoodIsTaken ==
  ASSUME NEW takers \in SUBSET Provider!To, NEW reply0 \in Provider!Reply,
         Provider!Honest(reply0, takers), Provider!Good(reply0)
  PROVE  Provider!To \subseteq takers
<1>1. IsFiniteSet(Receptor) /\ One \in Receptor
  BY MessagesAssumption, ProviderCount DEF Provider!ProviderCallsAssumption
<1>2. Provider!To \subseteq Receptor
  BY <1>1 DEF Provider!To
<1>3. IsFiniteSet(Provider!To) /\ IsFiniteSet(takers)
  BY <1>1, <1>2, FS_Subset
<1>4. Cardinality(takers) \in Nat /\ Cardinality(Provider!To) \in Nat
      /\ Cardinality(takers) <= Cardinality(Provider!To)
      /\ (Cardinality(Provider!To) = Cardinality(takers) => Provider!To = takers)
  BY <1>3, FS_Subset, FS_CardinalityType
<1>5. reply0.accepted \in Int /\ reply0.accepted <= Cardinality(takers)
  <2>1. reply0.accepted \in Provider!Count
    BY DEF Provider!Reply
  <2> QED  BY <2>1, ProviderCount DEF Provider!Count, Provider!Honest
<1>6. CASE sender = "sms"
  <2>1. reply0.accepted = Cardinality(Provider!To)
    BY <1>6, ProviderCount DEF Provider!Good
  <2> QED  BY <2>1, <1>4, <1>5
<1>7. CASE sender # "sms"
  <2>1. reply0.accepted > 0 /\ Provider!To = {One}
    BY <1>7 DEF Provider!Good, Provider!To
  <2>2. takers # {}
    BY <2>1, <1>5, FS_EmptySet
  <2> QED  BY <2>1, <2>2
<1> QED  BY <1>6, <1>7

\* The invariant of the providers, step by step.
LEMMA ProviderPreserved == ProviderInv /\ [Provider!Next]_providerVars => ProviderInv'
<1> SUFFICES ASSUME ProviderInv, [Provider!Next]_providerVars PROVE ProviderInv'
  OBVIOUS
<1>1. CASE Provider!Begin
  BY <1>1, ProviderBegins
<1>2. CASE Provider!Answered
  <2>1. PICK takers \in SUBSET Provider!To, reply0 \in Provider!Reply :
          /\ Provider!Honest(reply0, takers) /\ Provider!Takes(takers)
          /\ IF Provider!Good(reply0) THEN Provider!Succeeds
                                      ELSE Provider!EndsWithError(takers)
    BY <1>2 DEF Provider!Answered
  <2>2. running /\ UNCHANGED <<sender, shape, tries>>
    BY <1>2 DEF Provider!Answered
  <2>3. CASE Provider!Good(reply0)
    <3>1. Provider!To \subseteq takers
      BY <2>1, <2>3, GoodIsTaken
    <3> QED  BY <2>1, <2>2, <2>3, <3>1, ProviderSucceeds
  <2>4. CASE ~Provider!Good(reply0)
    BY <2>1, <2>2, <2>4, ProviderFails
  <2> QED  BY <2>3, <2>4
<1>3. CASE Provider!Unanswered
  <2>1. PICK takers \in SUBSET Provider!To :
          Provider!Takes(takers) /\ Provider!EndsWithError(takers)
    BY <1>3 DEF Provider!Unanswered
  <2>2. running /\ UNCHANGED <<sender, shape, tries>>
    BY <1>3 DEF Provider!Unanswered
  <2> QED  BY <2>1, <2>2, ProviderFails
<1>4. CASE UNCHANGED providerVars
  BY <1>4 DEF providerVars, ProviderInv, ProviderTypes, ProviderKinds, ProviderCounts, TakenUnknown, FileForPost,
       Provider!SentMeansTaken, Provider!RepeatsExplained, Provider!Refused, Provider!To
<1> QED  BY <1>1, <1>2, <1>3, <1>4 DEF Provider!Next

\* The providers at the start, and after an attempt that sent the message.
LEMMA ProviderFirst == Provider!Init \/ ProviderOver => ProviderInv
<1>1. One \in Receptor /\ MaxTries \in Nat \ {0}
  BY MessagesAssumption DEF Provider!ProviderCallsAssumption
<1>2. ASSUME Provider!Init PROVE ProviderInv
  <2>1. ProviderKinds
    BY <1>2 DEF Provider!Init, ProviderKinds
  <2>2. ProviderCounts /\ TakenUnknown /\ FileForPost
    BY <1>1, <1>2 DEF Provider!Init, ProviderCounts, TakenUnknown, FileForPost,
         Provider!RepeatsExplained
  <2> QED  BY <1>2, <2>1, <2>2 DEF Provider!Init, ProviderInv, ProviderTypes,
         Provider!SentMeansTaken
<1>3. ASSUME ProviderOver PROVE ProviderInv
  <2>1. Provider!To = Receptor
    BY <1>3 DEF ProviderOver, Provider!To
  <2>2. ProviderKinds
    BY <1>3 DEF ProviderOver, ProviderKinds, Provider!Sender
  <2>3. ProviderCounts /\ TakenUnknown /\ FileForPost
    BY <1>1, <1>3 DEF ProviderOver, ProviderCounts, TakenUnknown, FileForPost,
         Provider!RepeatsExplained
  <2>4. Provider!SentMeansTaken
    BY <1>3, <2>1 DEF ProviderOver, Provider!SentMeansTaken
  <2> QED  BY <1>3, <2>2, <2>3, <2>4 DEF ProviderOver, ProviderInv, ProviderTypes
<1> QED  BY <1>2, <1>3

-----------------------------------------------------------------------------
(* The mail server: the inductive invariant. *)

BeforeNaming == {"dial", "handshake", "greet", "ehlo", "starttls", "auth", "mail"}

MailTypes ==
  /\ port465 \in BOOLEAN /\ command \in Mail!Command \cup {"idle"} /\ secured \in BOOLEAN
  /\ asked \in 0 .. Addressees /\ ctx \in {"none", "canceled", "deadline"}
  /\ delivered \in [Mail!Recipient -> Nat] /\ lost \in Nat
  /\ command # "idle" => verdict = "none"

\* The server hears of the recipients one after the other, and gets the message
\* only when it has heard of all.
AllNamed ==
  /\ named = 1 .. asked
  /\ command \in BeforeNaming => asked = 0
  /\ command = "rcpt" => asked < Addressees
  /\ command \in {"data", "write"} => asked = Addressees

\* Where the password goes out the session is inside TLS.
Protected ==
  /\ command = "auth" => secured
  /\ command = "greet" /\ port465 => secured
  /\ Mail!PasswordProtected

\* When the acceptance has come back the server took the message for everyone.
TakenWhenTold ==
  command = "quit" \/ verdict = "sent" => \A r \in Mail!Recipient : delivered[r] > 0

\* Before the server's acceptance comes back, it took the message only in
\* attempts that were lost.
TakenLost ==
  /\ verdict # "sent" /\ command # "quit" =>
       \A r \in Mail!Recipient : delivered[r] <= lost
  /\ Mail!RepeatsExplained /\ Mail!AllOrNone /\ TakenWhenTold

MailInv == MailTypes /\ AllNamed /\ Protected /\ TakenLost

\* A step that leaves what the invariant looks at as it is.
LEMMA MailQuiet ==
  ASSUME MailInv, UNCHANGED <<port465, command, secured, asked, named, delivered, verdict,
                              shown, lost>>,
         ctx' \in {"none", "canceled", "deadline"}
  PROVE  MailInv'
BY DEF MailInv, MailTypes, AllNamed, Protected, TakenLost, Mail!PasswordProtected,
       Mail!RepeatsExplained, Mail!AllOrNone, TakenWhenTold

\* A session that ends leaves no trace; once the server has accepted, the end is a
\* success.
LEMMA MailEnds ==
  ASSUME MailInv, command # "idle", NEW outcome0, Mail!Ends(outcome0),
         command = "quit" <=> outcome0 = "sent", UNCHANGED <<delivered, shown, lost>>
  PROVE  MailInv'
<1>1. /\ command' = "idle" /\ verdict' = outcome0
      /\ UNCHANGED <<port465, secured, asked, named, ctx, delivered, shown, lost>>
  BY DEF Mail!Ends, Mail!session
<1>2. MailTypes'
  BY <1>1 DEF MailInv, MailTypes
<1>3. AllNamed'
  BY <1>1 DEF MailInv, AllNamed, BeforeNaming
<1>4. Protected'
  BY <1>1 DEF MailInv, Protected, Mail!PasswordProtected
<1>5. TakenLost'
  <2>1. verdict' # "sent" => command # "quit" /\ verdict = "none"
    BY <1>1 DEF MailInv, MailTypes
  <2> QED  BY <1>1, <2>1 DEF MailInv, TakenLost, Mail!RepeatsExplained, Mail!AllOrNone, TakenWhenTold
<1> QED  BY <1>2, <1>3, <1>4, <1>5 DEF MailInv

\* The server takes the message for all it has been told, which are all.
LEMMA MailTakes ==
  ASSUME MailInv, command = "write",
         delivered' = [r \in Mail!Recipient |-> delivered[r] + (IF r \in named THEN 1 ELSE 0)]
  PROVE  /\ delivered' \in [Mail!Recipient -> Nat]
         /\ \A r \in Mail!Recipient :
              delivered'[r] = delivered[r] + 1 /\ delivered[r] \in Nat /\ delivered[r] <= lost
         /\ Mail!AllOrNone'
<1>1. named = Mail!Recipient
  BY DEF MailInv, AllNamed, Mail!Recipient
<1>2. delivered \in [Mail!Recipient -> Nat] /\ verdict = "none"
  BY DEF MailInv, MailTypes
<1>3. \A r \in Mail!Recipient : delivered[r] <= lost /\ delivered[r] \in Nat
  BY <1>2 DEF MailInv, TakenLost
<1>4. \A r \in Mail!Recipient : delivered'[r] = delivered[r] + 1
  BY <1>1
<1>5. delivered' \in [Mail!Recipient -> Nat]
  BY <1>2
<1>6. \A r, s \in Mail!Recipient : delivered[r] = delivered[s]
  BY DEF MailInv, TakenLost, Mail!AllOrNone
<1>7. Mail!AllOrNone'
  <2> SUFFICES ASSUME NEW r \in Mail!Recipient, NEW s \in Mail!Recipient
               PROVE  delivered'[r] = delivered'[s]
    BY DEF Mail!AllOrNone, Mail!Recipient
  <2> QED  BY <1>4, <1>6
<1> QED  BY <1>3, <1>4, <1>5, <1>7

\* An attempt begins: a new session, of which nobody has heard yet.
LEMMA MailBegins == MailInv /\ Mail!Begin => MailInv'
<1> SUFFICES ASSUME MailInv, Mail!Begin PROVE MailInv'
  OBVIOUS
<1>1. /\ command = "idle" /\ verdict # "sent"
      /\ command' = "dial" /\ verdict' = "none" /\ secured' = FALSE /\ asked' = 0
      /\ ctx' = "none" /\ named' = {} /\ UNCHANGED <<port465, delivered, shown, lost>>
  BY DEF Mail!Begin
<1>2. MailTypes'
  <2>1. asked' \in 0 .. Addressees
    BY <1>1, MessagesAssumption DEF Mail!SmtpAssumption
  <2> QED  BY <1>1, <2>1 DEF MailInv, MailTypes, Mail!Command
<1>3. AllNamed'
  BY <1>1 DEF AllNamed, BeforeNaming
<1>4. Protected'
  BY <1>1 DEF MailInv, Protected, Mail!PasswordProtected
<1>5. TakenLost'
  BY <1>1 DEF MailInv, TakenLost, Mail!RepeatsExplained, Mail!AllOrNone, TakenWhenTold
<1> QED  BY <1>2, <1>3, <1>4, <1>5 DEF MailInv

\* The session goes on to a command other than QUIT.
LEMMA MailGoes ==
  ASSUME MailInv, NEW next \in Mail!Command \ {"quit"}, Mail!Goes(next),
         command \in Mail!Command \ {"quit"}, UNCHANGED delivered,
         asked' \in 0 .. Addressees, secured' \in BOOLEAN, AllNamed', Protected'
  PROVE  MailInv'
<1>1. command' = next /\ UNCHANGED <<port465, verdict, lost, ctx>>
  BY DEF Mail!Goes
<1>2. command # "idle" /\ command # "quit" /\ next # "quit"
  BY DEF Mail!Command
<1>3. MailTypes'
  BY <1>1, <1>2 DEF MailInv, MailTypes
<1>4. TakenLost'
  BY <1>1, <1>2 DEF MailInv, MailTypes, TakenLost, Mail!RepeatsExplained, Mail!AllOrNone, TakenWhenTold
<1> QED  BY <1>3, <1>4 DEF MailInv

\* Dial, TLS, greeting, EHLO, STARTTLS: before the password there is TLS.
LEMMA MailConnects == MailInv /\ Mail!Connects => MailInv'
<1> SUFFICES ASSUME MailInv, Mail!Connects PROVE MailInv'
  OBVIOUS
<1>0. /\ UNCHANGED <<asked, named, delivered, shown>> /\ asked \in 0 .. Addressees
      /\ named = 1 .. asked /\ ~shown /\ port465 \in BOOLEAN /\ secured \in BOOLEAN
      /\ command = "greet" /\ port465 => secured
      /\ command \in BeforeNaming => asked = 0
  BY DEF Mail!Connects, MailInv, MailTypes, AllNamed, Protected, Mail!PasswordProtected
<1>1. ASSUME NEW next \in BeforeNaming, Mail!Goes(next), command \in BeforeNaming,
             secured' \in BOOLEAN, next = "auth" => secured',
             next = "greet" /\ port465 => secured'
      PROVE  MailInv'
  <2>1. command' = next /\ UNCHANGED port465
    BY <1>1 DEF Mail!Goes
  <2>2. next \in Mail!Command \ {"quit"} /\ command \in Mail!Command \ {"quit"}
    BY <1>1 DEF BeforeNaming, Mail!Command
  <2>3. AllNamed'
    BY <1>0, <1>1, <2>1 DEF AllNamed, BeforeNaming
  <2>4. Protected'
    BY <1>0, <1>1, <2>1 DEF Protected, Mail!PasswordProtected
  <2> QED  BY <1>0, <1>1, <2>2, <2>3, <2>4, MailGoes
<1> USE DEF BeforeNaming
<1>2. CASE command = "dial" /\ Mail!Goes(IF port465 THEN "handshake" ELSE "greet")
             /\ UNCHANGED secured
  <2>1. CASE port465
    BY <1>0, <1>2, <2>1, <1>1
  <2>2. CASE ~port465
    BY <1>0, <1>2, <2>2, <1>1
  <2> QED  BY <2>1, <2>2
<1>3. CASE command = "handshake" /\ Mail!Goes("greet") /\ secured' = TRUE
  BY <1>0, <1>3, <1>1
<1>4. CASE command = "greet" /\ Mail!Goes(Mail!AfterGreet) /\ UNCHANGED secured
  <2>1. CASE port465
    BY <1>0, <1>4, <2>1, <1>1 DEF Mail!AfterGreet
  <2>2. CASE ~port465
    BY <1>0, <1>4, <2>2, <1>1 DEF Mail!AfterGreet
  <2> QED  BY <2>1, <2>2
<1>5. CASE command = "ehlo" /\ Mail!Goes("starttls") /\ UNCHANGED secured
  BY <1>0, <1>5, <1>1
<1>6. CASE command = "starttls" /\ Mail!Goes("auth") /\ secured' = TRUE
  BY <1>0, <1>6, <1>1
<1> QED  BY <1>2, <1>3, <1>4, <1>5, <1>6 DEF Mail!Connects

\* The password goes out.
LEMMA MailAuthenticates == MailInv /\ Mail!Authenticates => MailInv'
<1> SUFFICES ASSUME MailInv, Mail!Authenticates PROVE MailInv'
  OBVIOUS
<1>1. /\ command = "auth" /\ Mail!Goes("mail") /\ command' = "mail"
      /\ UNCHANGED <<port465, secured, asked, named, delivered>>
  BY DEF Mail!Authenticates, Mail!Goes
<1>2. ~shown'
  <2>1. secured /\ ~shown
    BY <1>1 DEF MailInv, Protected, Mail!PasswordProtected
  <2> QED  BY <2>1 DEF Mail!Authenticates
<1>3. AllNamed'
  BY <1>1 DEF MailInv, AllNamed, BeforeNaming
<1>4. Protected'
  BY <1>1, <1>2 DEF Protected, Mail!PasswordProtected
<1>5. asked \in 0 .. Addressees /\ secured \in BOOLEAN
  BY DEF MailInv, MailTypes
<1> QED  BY <1>1, <1>3, <1>4, <1>5, MailGoes DEF Mail!Command

\* The recipients are named one after the other, and the message follows the last.
LEMMA MailNames == MailInv /\ Mail!NamesRecipients => MailInv'
<1> SUFFICES ASSUME MailInv, Mail!NamesRecipients PROVE MailInv'
  OBVIOUS
<1>0. /\ UNCHANGED <<secured, delivered, shown>> /\ secured \in BOOLEAN /\ ~shown
      /\ asked \in 0 .. Addressees /\ named = 1 .. asked /\ Addressees \in Nat \ {0}
  BY MessagesAssumption DEF Mail!NamesRecipients, MailInv, MailTypes, AllNamed, Protected,
       Mail!PasswordProtected, Mail!SmtpAssumption
<1>1. ASSUME NEW next \in {"rcpt", "data", "write"}, Mail!Goes(next),
             command \in {"mail", "rcpt", "data"}, asked' \in 0 .. Addressees,
             named' = 1 .. asked', next = "rcpt" => asked' < Addressees,
             next # "rcpt" => asked' = Addressees
      PROVE  MailInv'
  <2>1. command' = next
    BY <1>1 DEF Mail!Goes
  <2>2. next \in Mail!Command \ {"quit"} /\ command \in Mail!Command \ {"quit"}
    BY <1>1 DEF Mail!Command
  <2>3. AllNamed'
    BY <1>1, <2>1 DEF AllNamed, BeforeNaming
  <2>4. Protected'
    BY <1>0, <1>1, <2>1 DEF Protected, Mail!PasswordProtected
  <2> QED  BY <1>0, <1>1, <2>2, <2>3, <2>4, MailGoes
<1>2. CASE command = "mail" /\ Mail!Goes("rcpt") /\ UNCHANGED <<asked, named>>
  <2>1. asked = 0
    BY <1>2 DEF MailInv, AllNamed, BeforeNaming
  <2> QED  BY <1>0, <1>2, <2>1, <1>1
<1>3. CASE /\ command = "rcpt" /\ asked' = asked + 1 /\ named' = named \cup {asked + 1}
           /\ Mail!Goes(IF asked + 1 < Addressees THEN "rcpt" ELSE "data")
  <2>1. asked < Addressees
    BY <1>3 DEF MailInv, AllNamed
  <2>2. asked' \in 0 .. Addressees /\ named' = 1 .. asked'
    BY <1>0, <1>3, <2>1
  <2>3. CASE asked + 1 < Addressees
    BY <1>3, <2>2, <2>3, <1>1
  <2>4. CASE ~(asked + 1 < Addressees)
    <3>1. asked' = Addressees
      BY <1>0, <1>3, <2>1, <2>4
    <3> QED  BY <1>3, <2>2, <2>4, <3>1, <1>1
  <2> QED  BY <2>3, <2>4
<1>4. CASE command = "data" /\ Mail!Goes("write") /\ UNCHANGED <<asked, named>>
  <2>1. asked = Addressees
    BY <1>4 DEF MailInv, AllNamed
  <2> QED  BY <1>0, <1>4, <2>1, <1>1
<1> QED  BY <1>2, <1>3, <1>4 DEF Mail!NamesRecipients

\* The server has the message and says so.
LEMMA MailAccepted == MailInv /\ Mail!Accepted => MailInv'
<1> SUFFICES ASSUME MailInv, Mail!Accepted PROVE MailInv'
  OBVIOUS
<1>1. /\ command = "write" /\ command' = "quit"
      /\ UNCHANGED <<port465, verdict, lost, secured, asked, named, ctx, shown>>
  BY DEF Mail!Accepted, Mail!Goes
<1>2. /\ delivered' \in [Mail!Recipient -> Nat] /\ Mail!AllOrNone'
      /\ \A r \in Mail!Recipient :
           delivered'[r] = delivered[r] + 1 /\ delivered[r] \in Nat /\ delivered[r] <= lost
  BY <1>1, MailTakes DEF Mail!Accepted
<1>3. MailTypes'
  BY <1>1, <1>2 DEF MailInv, MailTypes, Mail!Command
<1>4. AllNamed'
  BY <1>1 DEF MailInv, AllNamed, BeforeNaming
<1>5. Protected'
  BY <1>1 DEF MailInv, Protected, Mail!PasswordProtected
<1>6. TakenLost'
  <2>1. lost' = lost /\ lost \in Nat
    BY <1>1 DEF MailInv, MailTypes
  <2>2. TakenWhenTold'
    BY <1>1, <1>2 DEF TakenWhenTold, Mail!Recipient
  <2> QED  BY <1>1, <1>2, <2>1, <2>2 DEF TakenLost, Mail!RepeatsExplained
<1> QED  BY <1>3, <1>4, <1>5, <1>6 DEF MailInv

\* The server has the message, and its answer does not come.
LEMMA MailAnswerLost == MailInv /\ Mail!AnswerLost => MailInv'
<1> SUFFICES ASSUME MailInv, Mail!AnswerLost PROVE MailInv'
  OBVIOUS
<1>1. /\ command = "write" /\ command' = "idle" /\ lost' = lost + 1
      /\ UNCHANGED <<port465, secured, asked, named, ctx, shown>>
  BY DEF Mail!AnswerLost, Mail!Ends, Mail!session
<1>2. /\ delivered' \in [Mail!Recipient -> Nat] /\ Mail!AllOrNone'
      /\ \A r \in Mail!Recipient :
           delivered'[r] = delivered[r] + 1 /\ delivered[r] \in Nat /\ delivered[r] <= lost
  BY <1>1, MailTakes DEF Mail!AnswerLost
<1>3. MailTypes'
  BY <1>1, <1>2 DEF MailInv, MailTypes
<1>4. AllNamed'
  BY <1>1 DEF MailInv, AllNamed, BeforeNaming
<1>5. Protected'
  BY <1>1 DEF MailInv, Protected, Mail!PasswordProtected
<1>6. TakenLost'
  <2>1. lost' = lost + 1 /\ lost \in Nat
    BY <1>1 DEF MailInv, MailTypes
  <2>2. TakenWhenTold'
    BY <1>1, <1>2 DEF TakenWhenTold, Mail!Recipient
  <2> QED  BY <1>2, <2>1, <2>2 DEF TakenLost, Mail!RepeatsExplained
<1> QED  BY <1>3, <1>4, <1>5, <1>6 DEF MailInv

\* The invariant of the mail server, step by step.
LEMMA MailPreserved == MailInv /\ [Mail!Next]_mailVars => MailInv'
<1> SUFFICES ASSUME MailInv, [Mail!Next]_mailVars PROVE MailInv'
  OBVIOUS
<1>0. Mail!Running => command # "idle"
  BY DEF Mail!Running, Mail!Command
<1>00. Mail!Reason # "sent" /\ ctx \in {"none", "canceled", "deadline"}
  BY DEF Mail!Reason, MailInv, MailTypes
<1>1. CASE Mail!Begin
  BY <1>1, MailBegins
<1>2. CASE Mail!Connects
  BY <1>2, MailConnects
<1>3. CASE Mail!Authenticates
  BY <1>3, MailAuthenticates
<1>4. CASE Mail!NamesRecipients
  BY <1>4, MailNames
<1>5. CASE Mail!Accepted
  BY <1>5, MailAccepted
<1>6. CASE Mail!Quits
  BY <1>6, MailEnds DEF Mail!Quits
<1>7. CASE Mail!Refuses
  BY <1>0, <1>00, <1>7, MailEnds DEF Mail!Refuses, Mail!Refused, Mail!AfterCut
<1>8. CASE Mail!AnswerLost
  BY <1>8, MailAnswerLost
<1>9. CASE Mail!BrokenOff
  BY <1>0, <1>00, <1>9, MailEnds DEF Mail!BrokenOff, Mail!AfterCut
<1>10. CASE Mail!DeadlinePasses \/ Mail!ContextExpires \/ Mail!Cancelled
  BY <1>00, <1>10, MailQuiet DEF Mail!DeadlinePasses, Mail!ContextExpires, Mail!Cancelled, Mail!Clock
<1>11. CASE UNCHANGED mailVars
  BY <1>00, <1>11, MailQuiet DEF mailVars
<1> QED  BY <1>1, <1>2, <1>3, <1>4, <1>5, <1>6, <1>7, <1>8, <1>9, <1>10, <1>11
         DEF Mail!Next

\* The mail server at the start, and after an attempt that sent the message.
LEMMA MailFirst == Mail!Init \/ MailOver => MailInv
<1>1. Addressees \in Nat \ {0}
  BY MessagesAssumption DEF Mail!SmtpAssumption
<1>2. ASSUME Mail!Init PROVE MailInv
  <2>1. MailTypes
    <3>1. asked \in 0 .. Addressees /\ lost \in Nat
      BY <1>1, <1>2 DEF Mail!Init
    <3>2. delivered \in [Mail!Recipient -> Nat]
      BY <1>2 DEF Mail!Init
    <3> QED  BY <1>2, <3>1, <3>2 DEF Mail!Init, MailTypes
  <2>2. AllNamed /\ Protected
    BY <1>2 DEF Mail!Init, AllNamed, BeforeNaming, Protected, Mail!PasswordProtected
  <2>3. TakenLost
    BY <1>2 DEF Mail!Init, TakenLost, Mail!RepeatsExplained, Mail!AllOrNone, TakenWhenTold
  <2> QED  BY <2>1, <2>2, <2>3 DEF MailInv
<1>3. ASSUME MailOver PROVE MailInv
  <2>1. MailTypes
    BY <1>1, <1>3 DEF MailOver, MailTypes
  <2>2. AllNamed /\ Protected
    BY <1>3 DEF MailOver, AllNamed, BeforeNaming, Protected, Mail!PasswordProtected,
         Mail!Recipient
  <2>3. TakenLost
    BY <1>3 DEF MailOver, TakenLost, Mail!RepeatsExplained, Mail!AllOrNone, TakenWhenTold
  <2> QED  BY <2>1, <2>2, <2>3 DEF MailInv
<1> QED  BY <1>2, <1>3

-----------------------------------------------------------------------------
(* The webhook: the inductive invariant. *)

\* What is on the network is a message that passed the checks.
HookTypes ==
  /\ message.length \in Nat
  /\ pc \in {"idle", "lookup", "dial", "request", "body"}
  /\ answer \in Seq(Address) /\ (pc = "dial" <=> answer # <<>>)
  /\ reply \in {0, 204, 302, 500} /\ taken \in Nat
  /\ pc # "idle" => result = "none" /\ Hook!Sendable
  /\ ~Hook!Sendable => reached = {} /\ taken = 0

\* The addresses that are dialled, and those that are left to dial.
AllPermitted ==
  /\ \A i \in DOMAIN answer : Hook!Permits(answer[i])
  /\ \A a \in reached : Hook!Permits(a)
  /\ pc = "dial" => \A a \in looked : Hook!Permits(a)

ReallySent ==
  /\ pc = "body" => taken > 0
  /\ Hook!SentMeansTaken

HookInv == HookTypes /\ AllPermitted /\ ReallySent

\* An address that is judged.
LEMMA DialledPermitted ==
  ASSUME NEW addresses \in Seq(Address)
  PROVE  /\ Hook!Dialled(addresses) \in Seq(Address)
         /\ \A i \in DOMAIN Hook!Dialled(addresses) : Hook!Permits(Hook!Dialled(addresses)[i])
         /\ Hook!Dialled(addresses) # <<>> =>
              \A a \in Hook!ToSet(addresses) : Hook!Permits(a)
<1>1. <<>> \in Seq(Address)
  OBVIOUS
<1>2. \A a \in Hook!ToSet(addresses) : \E i \in DOMAIN addresses : a = addresses[i]
  BY DEF Hook!ToSet
<1>3. CASE \A i \in DOMAIN addresses : Hook!Permits(addresses[i])
  <2>1. Hook!Dialled(addresses) = addresses
    BY <1>3 DEF Hook!Dialled
  <2> QED  BY <2>1, <1>2, <1>3
<1>4. CASE ~\A i \in DOMAIN addresses : Hook!Permits(addresses[i])
  <2>1. Hook!Dialled(addresses) = <<>>
    BY <1>4 DEF Hook!Dialled
  <2> QED  BY <2>1, <1>1
<1> QED  BY <1>3, <1>4

\* A step of an attempt whose message may be sent: what it must leave behind.
LEMMA HookMoves ==
  ASSUME HookInv, UNCHANGED message, Hook!Sendable,
         pc' \in {"idle", "lookup", "dial", "request", "body"},
         answer' \in Seq(Address), pc' = "dial" <=> answer' # <<>>,
         reply' \in {0, 204, 302, 500}, taken' \in Nat, AllPermitted',
         pc' # "idle" => result' = "none",
         pc' = "body" => taken' > 0,
         result' = "sent" => taken' > 0 /\ reply' = 204
  PROVE  HookInv'
<1>1. Hook!Sendable'
  BY DEF Hook!Sendable, Hook!Within
<1>2. HookTypes'
  <2>1. message'.length \in Nat
    BY DEF HookInv, HookTypes
  <2> QED  BY <1>1, <2>1 DEF HookTypes
<1>3. ReallySent'
  BY DEF ReallySent, Hook!SentMeansTaken
<1> QED  BY <1>2, <1>3 DEF HookInv

\* The same for a step that dials nothing and has nothing to dial.
LEMMA HookCalls ==
  ASSUME HookInv, UNCHANGED <<message, reached>>, Hook!Sendable,
         pc' \in {"idle", "lookup", "request", "body"}, answer' = <<>>,
         reply' \in {0, 204, 302, 500}, taken' \in Nat,
         pc' # "idle" => result' = "none",
         pc' = "body" => taken' > 0,
         result' = "sent" => taken' > 0 /\ reply' = 204
  PROVE  HookInv'
<1>1. AllPermitted'
  BY DEF HookInv, AllPermitted
<1>2. answer' \in Seq(Address)
  OBVIOUS
<1> QED  BY <1>1, <1>2, HookMoves

\* What an attempt that has begun may build on.
LEMMA HookRuns ==
  ASSUME HookInv
  PROVE  /\ pc # "idle" => Hook!Sendable /\ result = "none"
         /\ pc # "dial" => answer = <<>>
         /\ reply \in {0, 204, 302, 500} /\ taken \in Nat /\ taken + 1 \in Nat
         /\ taken + 1 > 0
BY DEF HookInv, HookTypes

\* An attempt begins, or is refused before anything goes out.
LEMMA HookBegins == HookInv /\ Hook!Begin => HookInv'
<1> SUFFICES ASSUME HookInv, Hook!Begin PROVE HookInv'
  OBVIOUS
<1>1. pc = "idle" /\ UNCHANGED <<message, answer, conn, reply, reached, looked, taken>>
  BY DEF Hook!Begin
<1>2. CASE Hook!Sendable
  <2>1. pc' \in {"lookup", "request"} /\ result' = "none"
    BY <1>2 DEF Hook!Begin
  <2> QED  BY <1>1, <1>2, <2>1, HookRuns, HookCalls
<1>3. CASE ~Hook!Sendable
  <2>1. pc' = "idle" /\ result' \in {"failed", "limit"}
    BY <1>3 DEF Hook!Begin, Hook!Ends
  <2>2. ~Hook!Sendable'
    BY <1>1, <1>3 DEF Hook!Sendable, Hook!Within
  <2>3. HookTypes'
    BY <1>1, <1>3, <2>1, <2>2 DEF HookInv, HookTypes
  <2>4. AllPermitted'
    BY <1>1, <2>1 DEF HookInv, AllPermitted
  <2>5. ReallySent'
    BY <2>1 DEF ReallySent, Hook!SentMeansTaken
  <2> QED  BY <2>3, <2>4, <2>5 DEF HookInv
<1> QED  BY <1>2, <1>3

\* What the resolver may answer.
LEMMA ResolverAnswers ==
  ASSUME NEW addresses \in Hook!SeqOf(Address, MaxAddresses)
  PROVE  addresses \in Seq(Address) /\ Hook!ToSet(addresses) \subseteq Address
<1>1. PICK m \in 0 .. MaxAddresses : addresses \in [1 .. m -> Address]
  BY DEF Hook!SeqOf
<1>2. m \in Nat
  BY <1>1, MessagesAssumption DEF Hook!WebhookAssumption
<1> QED  BY <1>1, <1>2 DEF Hook!ToSet

\* The resolver answers: all of its addresses are dialled, or none.
LEMMA HookLooksUp == HookInv /\ Hook!LooksUp => HookInv'
<1> SUFFICES ASSUME HookInv, Hook!LooksUp PROVE HookInv'
  OBVIOUS
<1>1. PICK addresses \in Hook!SeqOf(Address, MaxAddresses) :
        /\ answer' = Hook!Dialled(addresses) /\ looked' = Hook!ToSet(addresses)
        /\ IF answer' = <<>> THEN Hook!Ends("failed") ELSE pc' = "dial" /\ UNCHANGED result
  BY DEF Hook!LooksUp
<1>2. pc = "lookup" /\ UNCHANGED <<message, reply, reached, taken>>
  BY DEF Hook!LooksUp, Hook!Counts
<1>3. addresses \in Seq(Address)
  BY ResolverAnswers
<1>4. /\ answer' \in Seq(Address) /\ \A i \in DOMAIN answer' : Hook!Permits(answer'[i])
      /\ answer' # <<>> => \A a \in looked' : Hook!Permits(a)
  BY <1>1, <1>3, DialledPermitted
<1>5. CASE answer' = <<>>
  <2>1. pc' = "idle" /\ result' = "failed"
    BY <1>1, <1>5 DEF Hook!Ends
  <2> QED  BY <1>2, <1>5, <2>1, HookRuns, HookCalls
<1>6. CASE answer' # <<>>
  <2>1. pc' = "dial" /\ result' = result
    BY <1>1, <1>6
  <2>2. AllPermitted'
    BY <1>2, <1>4, <1>6 DEF HookInv, AllPermitted
  <2> QED  BY <1>2, <1>4, <1>6, <2>1, <2>2, HookRuns, HookMoves
<1> QED  BY <1>5, <1>6

\* The address that is dialled next.
LEMMA HookDialling ==
  ASSUME HookInv, pc = "dial"
  PROVE  /\ Hook!Permits(Head(answer)) /\ Tail(answer) \in Seq(Address)
         /\ \A i \in DOMAIN Tail(answer) : Hook!Permits(Tail(answer)[i])
         /\ \A a \in looked : Hook!Permits(a)
<1>1. answer \in Seq(Address) /\ answer # <<>>
  BY DEF HookInv, HookTypes
<1>2. \A i \in DOMAIN answer : Hook!Permits(answer[i])
  BY DEF HookInv, AllPermitted
<1>3. 1 \in DOMAIN answer /\ Head(answer) = answer[1]
  BY <1>1
<1>4. Tail(answer) \in Seq(Address)
  BY <1>1
<1>5. ASSUME NEW i \in DOMAIN Tail(answer) PROVE Hook!Permits(Tail(answer)[i])
  <2>1. i + 1 \in DOMAIN answer /\ Tail(answer)[i] = answer[i + 1]
    BY <1>1, <1>5
  <2> QED  BY <2>1, <1>2
<1> QED  BY <1>2, <1>3, <1>4, <1>5 DEF HookInv, AllPermitted

\* An address answers the dial.
LEMMA HookDials == HookInv /\ Hook!Dials => HookInv'
<1> SUFFICES ASSUME HookInv, Hook!Dials PROVE HookInv'
  OBVIOUS
<1>1. /\ pc = "dial" /\ pc' = "request" /\ answer' = <<>>
      /\ reached' = reached \cup {Head(answer)}
      /\ UNCHANGED <<message, reply, result, looked, taken>>
  BY DEF Hook!Dials, Hook!Counts
<1>2. AllPermitted'
  BY <1>1, HookDialling DEF HookInv, AllPermitted
<1>3. answer' \in Seq(Address)
  BY <1>1
<1> QED  BY <1>1, <1>2, <1>3, HookRuns, HookMoves

\* An address does not answer, and the next one is up.
LEMMA HookDialFails == HookInv /\ Hook!DialFails => HookInv'
<1> SUFFICES ASSUME HookInv, Hook!DialFails PROVE HookInv'
  OBVIOUS
<1>1. /\ pc = "dial" /\ answer' = Tail(answer)
      /\ reached' = reached \cup {Head(answer)}
      /\ UNCHANGED <<message, reply, looked, taken>>
      /\ IF answer' = <<>> THEN Hook!Ends("failed") ELSE UNCHANGED <<pc, result>>
  BY DEF Hook!DialFails, Hook!Counts, Hook!NextAddress
<1>2. AllPermitted'
  BY <1>1, HookDialling DEF HookInv, AllPermitted
<1>3. answer' \in Seq(Address)
  BY <1>1, HookDialling
<1>4. CASE answer' = <<>>
  <2>1. pc' = "idle" /\ result' = "failed"
    BY <1>1, <1>4 DEF Hook!Ends
  <2> QED  BY <1>1, <1>2, <1>3, <1>4, <2>1, HookRuns, HookMoves
<1>5. CASE answer' # <<>>
  BY <1>1, <1>2, <1>3, <1>5, HookRuns, HookMoves
<1> QED  BY <1>4, <1>5

\* The server's answer, and what the attempt makes of it.
LEMMA HookHears == HookInv /\ (Hook!Answers \/ Hook!ReadsBody) => HookInv'
<1> SUFFICES ASSUME HookInv, Hook!Answers \/ Hook!ReadsBody PROVE HookInv'
  OBVIOUS
<1>1. CASE Hook!Answers
  <2>1. /\ pc = "request" /\ pc' = "body" /\ reply' \in {204, 302, 500} /\ taken' = taken + 1
        /\ UNCHANGED <<message, answer, result, reached>>
    BY <1>1 DEF Hook!Answers
  <2> QED  BY <2>1, HookRuns, HookCalls
<1>2. CASE Hook!ReadsBody
  <2>1. /\ pc = "body" /\ pc' = "idle" /\ UNCHANGED <<message, answer, reply, taken, reached>>
    BY <1>2 DEF Hook!ReadsBody, Hook!Ends
  <2>2. result' = "sent" => reply \in 200 .. 299
    BY <1>2 DEF Hook!ReadsBody, Hook!Ends, Hook!Outcome
  <2>3. result' = "sent" => taken' > 0 /\ reply' = 204
    <3>1. taken > 0 /\ reply \in {0, 204, 302, 500}
      BY <2>1 DEF HookInv, HookTypes, ReallySent
    <3> QED  BY <3>1, <2>1, <2>2
  <2> QED  BY <2>1, <2>3, HookRuns, HookCalls
<1> QED  BY <1>1, <1>2

\* The connection breaks, and the request may be made again.
LEMMA HookBreaks == HookInv /\ (Hook!Breaks \/ Hook!MakesAgain) => HookInv'
<1> SUFFICES ASSUME HookInv, Hook!Breaks \/ Hook!MakesAgain PROVE HookInv'
  OBVIOUS
<1>1. CASE Hook!Breaks
  <2>1. /\ pc \in {"request", "body"} /\ pc' = "idle" /\ result' = "failed"
        /\ taken' \in {taken, taken + 1} /\ UNCHANGED <<message, answer, reply, reached>>
    BY <1>1 DEF Hook!Breaks, Hook!Ends
  <2> QED  BY <2>1, HookRuns, HookCalls
<1>2. CASE Hook!MakesAgain
  <2>1. /\ pc = "request" /\ pc' = "lookup" /\ taken' \in {taken, taken + 1}
        /\ UNCHANGED <<message, answer, reply, result, reached>>
    BY <1>2 DEF Hook!MakesAgain
  <2> QED  BY <2>1, HookRuns, HookCalls
<1> QED  BY <1>1, <1>2

\* The end of the attempt's time reaches whatever it waits for.
LEMMA HookEndsByTime == HookInv /\ Hook!EndsByTime => HookInv'
<1> SUFFICES ASSUME HookInv, Hook!EndsByTime PROVE HookInv'
  OBVIOUS
<1>1. /\ pc # "idle" /\ pc' = "idle" /\ result' = "canceled" /\ answer' = <<>>
      /\ taken' \in {taken, taken + 1} /\ UNCHANGED <<message, reply, reached>>
  BY DEF Hook!EndsByTime, Hook!HeedsTime, Hook!Ends
<1> QED  BY <1>1, HookRuns, HookCalls

\* A step that leaves what the invariant looks at as it is.
LEMMA HookQuiet ==
  ASSUME HookInv,
         UNCHANGED <<message, pc, answer, reply, result, taken, reached, looked>>
  PROVE  HookInv'
BY DEF HookInv, HookTypes, AllPermitted, ReallySent, Hook!SentMeansTaken, Hook!Sendable,
       Hook!Within

\* The invariant of the webhook, step by step.
LEMMA HookPreserved == HookInv /\ [Hook!Next]_hookVars => HookInv'
<1> SUFFICES ASSUME HookInv, [Hook!Next]_hookVars PROVE HookInv'
  OBVIOUS
<1>1. CASE Hook!Begin
  BY <1>1, HookBegins
<1>2. CASE Hook!LooksUp
  BY <1>2, HookLooksUp
<1>3. CASE Hook!Dials
  BY <1>3, HookDials
<1>4. CASE Hook!DialFails
  BY <1>4, HookDialFails
<1>5. CASE Hook!Answers \/ Hook!ReadsBody
  BY <1>5, HookHears
<1>6. CASE Hook!Breaks \/ Hook!MakesAgain
  BY <1>6, HookBreaks
<1>7. CASE Hook!EndsByTime
  BY <1>7, HookEndsByTime
<1>8. CASE Hook!Expires \/ Hook!Forgotten
  BY <1>8, HookQuiet DEF Hook!Expires, Hook!Forgotten, Hook!Counts
<1>9. CASE UNCHANGED hookVars
  BY <1>9, HookQuiet DEF hookVars
<1> QED  BY <1>1, <1>2, <1>3, <1>4, <1>5, <1>6, <1>7, <1>8, <1>9 DEF Hook!Next

\* The webhook at the start, and after an attempt that sent the message.
LEMMA HookFirst == Hook!Init \/ HookOver => HookInv
<1>0. <<>> \in Seq(Address) /\ RequestLimit \in Int
      /\ MaxLength \in Nat /\ \E a \in Address : Hook!Permits(a)
  BY MessagesAssumption DEF Hook!WebhookAssumption
<1>1. ASSUME Hook!Init PROVE HookInv
  <2>1. message.length \in Nat
    BY <1>0, <1>1 DEF Hook!Init, Hook!Message
  <2>2. HookTypes
    BY <1>0, <1>1, <2>1 DEF Hook!Init, HookTypes
  <2>3. AllPermitted
    BY <1>1 DEF Hook!Init, AllPermitted
  <2>4. ReallySent
    BY <1>1 DEF Hook!Init, ReallySent, Hook!SentMeansTaken
  <2> QED  BY <2>2, <2>3, <2>4 DEF HookInv
<1>2. ASSUME HookOver PROVE HookInv
  <2>1. Hook!Sendable
    BY <1>0, <1>2 DEF HookOver, Hook!Sendable, Hook!Within
  <2>2. HookTypes
    BY <1>0, <1>2, <2>1 DEF HookOver, HookTypes
  <2>3. AllPermitted
    BY <1>0, <1>2 DEF HookOver, AllPermitted
  <2>4. ReallySent
    BY <1>2 DEF HookOver, ReallySent, Hook!SentMeansTaken
  <2> QED  BY <2>2, <2>3, <2>4 DEF HookInv
<1> QED  BY <1>1, <1>2

-----------------------------------------------------------------------------
(* The attempts together. *)

AttemptsInv == ProviderInv /\ MailInv /\ HookInv

\* The attempts keep their invariant in every behaviour, whichever of them is alive.
LEMMA AttemptsInvariance == MessagesSpec => []AttemptsInv
<1>1. MessagesInit => AttemptsInv
  BY ProviderFirst, MailFirst, HookFirst DEF MessagesInit, AttemptsOver, AttemptsInv
<1>2. AttemptsInv /\ [MessagesNext]_<<vars, apiVars, upgradeVars, attemptVars>>
        => AttemptsInv'
  <2> SUFFICES ASSUME AttemptsInv, [MessagesNext]_<<vars, apiVars, upgradeVars, attemptVars>>
               PROVE  AttemptsInv'
    OBVIOUS
  <2>1. /\ [Provider!Next]_providerVars /\ [Mail!Next]_mailVars /\ [Hook!Next]_hookVars
    BY DEF MessagesNext, attemptVars
  <2> QED  BY <2>1, ProviderPreserved, MailPreserved, HookPreserved DEF AttemptsInv
<1> QED  BY <1>1, <1>2, PTL DEF MessagesSpec

\* An attempt that counts as sent reached everyone it was for: whatever statuses,
\* entries and ids a provider answers with, however many recipients an e-mail has,
\* and whatever a webhook's server does (Send of each sender).
THEOREM SentIsTaken == MessagesSpec => []SentMeansTaken
<1>1. AttemptsInv => SentMeansTaken
  BY DEF AttemptsInv, ProviderInv, MailInv, TakenLost, TakenWhenTold, HookInv, ReallySent,
         SentMeansTaken, Mail!SentMeansTaken
<1> QED  BY <1>1, AttemptsInvariance, PTL

\* Every repetition a recipient sees is explained by an attempt whose acceptance
\* never came back, and no post goes out without a file of its own.
THEOREM RepetitionsExplained == MessagesSpec => []RepeatsExplained
<1>1. ASSUME AttemptsInv PROVE Provider!PostHasFile
  <2>1. takenFor[One] \in Nat /\ step \in 0 .. 1 /\ uploads \in Nat
    BY <1>1, MessagesAssumption DEF AttemptsInv, ProviderInv, ProviderTypes, ProviderCounts,
         Provider!ProviderCallsAssumption
  <2> QED  BY <1>1, <2>1 DEF AttemptsInv, ProviderInv, FileForPost, Provider!PostHasFile
<1>2. AttemptsInv => RepeatsExplained
  BY <1>1 DEF AttemptsInv, ProviderInv, TakenUnknown, MailInv, TakenLost, RepeatsExplained
<1> QED  BY <1>2, AttemptsInvariance, PTL

\* Nothing goes where it must not, whatever the resolver answers and for any limits,
\* ranges and exceptions: no connection to a blocked address, nothing of a refused
\* message, no password outside TLS (dialContext, send, DialAndSend).
THEOREM PolicyHolds == MessagesSpec => []OnlyPermitted
<1>1. ASSUME AttemptsInv PROVE Hook!OnlyPermitted /\ Hook!MixedUnused
  BY <1>1 DEF AttemptsInv, HookInv, AllPermitted, Hook!Permits, Hook!OnlyPermitted,
       Hook!MixedUnused
<1>2. ASSUME AttemptsInv PROVE Hook!RefusedStaysHome
  <2>1. ~Hook!Sendable => reached = {} /\ taken = 0
    BY <1>2 DEF AttemptsInv, HookInv, HookTypes
  <2>2. message.length \in Nat /\ RequestLimit \in Int
    BY <1>2, MessagesAssumption DEF AttemptsInv, HookInv, HookTypes, Hook!WebhookAssumption
  <2>3. Hook!Within(message.length, RequestLimit)
          => ~(RequestLimit >= 0 /\ message.length > RequestLimit)
    BY <2>2 DEF Hook!Within
  <2> QED  BY <2>1, <2>3 DEF Hook!RefusedStaysHome, Hook!Sendable
<1>3. AttemptsInv => OnlyPermitted
  BY <1>1, <1>2 DEF AttemptsInv, MailInv, Protected, OnlyPermitted
<1> QED  BY <1>3, AttemptsInvariance, PTL

-----------------------------------------------------------------------------
(* The migration: the inductive invariant. *)

OldRecord ==
  [state : Upgrade!OldState, retryCount : Nat, maxRetries : Int, nextRetryAt : Upgrade!Time]

UpgradeTypes ==
  /\ old \in [Id -> OldRecord] /\ keys \in [Id -> Upgrade!Key]
  /\ rows \in [Id -> Upgrade!Row] /\ work \in [Id -> Upgrade!Row]
  /\ schema \in {"old", "new"} /\ lock \in Server \cup {Upgrade!Nobody} /\ todo \subseteq Id
  /\ server \in [Server -> {"down", "waiting", "working", "up", "refused"}]
  /\ clock \in 1 .. MaxClock /\ crashes \in 0 .. MaxCrashes

\* The lock has one holder, who works on a table that is not migrated yet.
OneMigrator ==
  /\ \A s \in Server : server[s] = "working" <=> lock = s
  /\ lock # Upgrade!Nobody => schema = "old"

\* What the migration makes of an old row, and nothing changes afterwards.
Filled(r, o) ==
  /\ r.deadline = (IF MaxAge > 0 THEN Upgrade!Eligible(o) + MaxAge ELSE NoTime)
  /\ r.attempts = (IF o.state = "pending" THEN 0 ELSE o.retryCount + 1)
  /\ r.maxRetries = o.maxRetries

\* How far the rows are.
RowsFilled ==
  /\ \A s \in Server : server[s] = "up" => schema = "new"
  /\ schema = "old" => \A r \in Id : rows[r] = Upgrade!Widened(old[r])
  /\ schema = "new" =>
       ~Upgrade!NotUnique /\ \A r \in Upgrade!Live : Filled(rows[r], old[r])
  /\ lock # Upgrade!Nobody => \A r \in todo : work[r] = rows[r]
  /\ lock # Upgrade!Nobody =>
       \A r \in Id \ todo : /\ r \in Upgrade!Live => Filled(work[r], old[r])
                          /\ work[r].state = old[r].state

UpgradeInv ==
  UpgradeTypes /\ OneMigrator /\ RowsFilled /\ Upgrade!BuriedWithReason

\* The parts that the row operators put together.
LEMMA RowParts ==
  /\ NoTime \in Upgrade!Time /\ Int \subseteq Upgrade!Time /\ Upgrade!NoToken \in Nat
  /\ Upgrade!OldState \subseteq Upgrade!RowState
  /\ {"none", "unknown", "exhausted"} \subseteq Upgrade!RowError
  /\ NoTime \notin Int /\ MaxAge \in Int /\ Interval \in Nat
  /\ MaxClock \in Nat /\ 1 <= MaxClock /\ MaxCrashes \in Nat /\ Upgrade!Nobody \notin Server
BY MessagesAssumption
   DEF Upgrade!Time, Upgrade!NoToken, Upgrade!RowState, Upgrade!RowError, Upgrade!OldState,
       Upgrade!MigrationAssumption

\* What AutoMigrate makes of an old row.
LEMMA WidenedFacts ==
  ASSUME NEW o \in OldRecord
  PROVE  LET q == Upgrade!Widened(o)
         IN  q \in Upgrade!Row /\ q.state = o.state /\ q.maxRetries = o.maxRetries
<1>1. Upgrade!AbsentRow \in Upgrade!Row
  BY RowParts DEF Upgrade!AbsentRow, Upgrade!Row, Upgrade!RowState
<1>2. /\ o.state \in Upgrade!RowState /\ o.retryCount \in Nat /\ o.maxRetries \in Int
      /\ o.nextRetryAt \in Upgrade!Time /\ (o.state = "sent") \in BOOLEAN
  BY RowParts DEF OldRecord
<1> QED  BY <1>1, <1>2 DEF Upgrade!Widened, Upgrade!Row

\* What the loop makes of a row.
LEMMA MigratedFacts ==
  ASSUME NEW o \in OldRecord, NEW r \in Upgrade!Row, r.maxRetries = o.maxRetries
  PROVE  LET q == Upgrade!Migrated(r, o)
         IN  q \in Upgrade!Row /\ Filled(q, o) /\ q.state = r.state
<1>1. /\ o.retryCount \in Nat /\ o.retryCount + 1 \in Nat
      /\ (o.nextRetryAt = NoTime \/ o.nextRetryAt \in Int)
  BY DEF OldRecord, Upgrade!Time
<1>2. Upgrade!Eligible(o) \in Int
  BY <1>1 DEF Upgrade!Eligible, Upgrade!Created
<1>3. /\ (IF MaxAge > 0 THEN Upgrade!Eligible(o) + MaxAge ELSE NoTime) \in Upgrade!Time
      /\ (IF o.state = "pending" THEN 0 ELSE o.retryCount + 1) \in Nat
      /\ (IF o.state = "sending" THEN 0 ELSE r.leaseUntil) \in Upgrade!Time
  <2>1. r.leaseUntil \in Upgrade!Time /\ 0 \in Upgrade!Time /\ 0 \in Nat
    BY RowParts DEF Upgrade!Row
  <2>2. Upgrade!Eligible(o) + MaxAge \in Upgrade!Time
    BY <1>2, RowParts
  <2> QED  BY <1>1, <2>1, <2>2, RowParts
<1> QED  BY <1>3 DEF Upgrade!Migrated, Upgrade!Row, Filled

\* A reservation leaves what the migration filled in, and buries only what is exhausted.
LEMMA ReservedFacts ==
  ASSUME NEW r \in Upgrade!Row, NEW t \in Int, Upgrade!Due(r, t)
  PROVE  LET q == Upgrade!Reserved(r, t, Interval)
         IN  /\ q \in Upgrade!Row /\ q.attempts = r.attempts
             /\ q.maxRetries = r.maxRetries /\ q.deadline = r.deadline
             /\ r.state # "dead"
             /\ q.state = "dead" => Upgrade!Exhausted(r, t)
<1>1. r.state \in {"pending", "failed", "sending"}
  BY DEF Upgrade!Due
<1>2. t \in Upgrade!Time /\ t + Interval \in Upgrade!Time
  BY RowParts
<1>3. {"dead", "failed"} \subseteq Upgrade!RowState
  BY DEF Upgrade!RowState
<1>4. CASE Upgrade!Exhausted(r, t)
  <2>1. Upgrade!Reserved(r, t, Interval) = Upgrade!MakeDead(r)
    BY <1>4 DEF Upgrade!Reserved
  <2>2. /\ Upgrade!MakeDead(r) \in Upgrade!Row /\ Upgrade!MakeDead(r).attempts = r.attempts
        /\ Upgrade!MakeDead(r).maxRetries = r.maxRetries
        /\ Upgrade!MakeDead(r).deadline = r.deadline
    BY <1>3, RowParts DEF Upgrade!MakeDead, Upgrade!Row
  <2> QED  BY <1>1, <1>4, <2>1, <2>2
<1>5. CASE ~Upgrade!Exhausted(r, t)
  <2> DEFINE q == IF r.state = "sending" THEN Upgrade!Recovered(r, t) ELSE r
  <2>1. Upgrade!Reserved(r, t, Interval) = [q EXCEPT !.dispatchAfter = t + Interval]
    BY <1>5 DEF Upgrade!Reserved
  <2>2. /\ q \in Upgrade!Row /\ q.attempts = r.attempts /\ q.maxRetries = r.maxRetries
        /\ q.deadline = r.deadline /\ q.state # "dead"
    BY <1>1, <1>2, <1>3, RowParts DEF Upgrade!Recovered, Upgrade!Row
  <2> HIDE DEF q
  <2> QED  BY <1>1, <1>2, <2>1, <2>2 DEF Upgrade!Row
<1> QED  BY <1>4, <1>5

\* A migrated row that is exhausted has had its attempts or its time.
LEMMA BuriedFacts ==
  ASSUME NEW o \in OldRecord, NEW r \in Upgrade!Row, Filled(r, o), NEW t \in Int,
         Upgrade!Exhausted(r, t)
  PROVE  \/ o.state # "pending" /\ o.retryCount >= o.maxRetries
         \/ MaxAge > 0 /\ t >= Upgrade!Eligible(o) + MaxAge
<1>1. o.retryCount \in Nat /\ o.maxRetries \in Int
  BY DEF OldRecord
<1>2. CASE r.maxRetries >= 0 /\ r.attempts > r.maxRetries
  BY <1>1, <1>2 DEF Filled
<1>3. CASE r.deadline # NoTime /\ t >= r.deadline
  BY <1>3 DEF Filled
<1> QED  BY <1>2, <1>3 DEF Upgrade!Exhausted

-----------------------------------------------------------------------------
(* The steps of the migration. *)

\* Whether the keys are unique, and which rows are deleted, is a matter of the keys.
LEMMA KeysDecide ==
  ASSUME keys' = keys
  PROVE  /\ Upgrade!NotUnique' = Upgrade!NotUnique /\ Upgrade!Duplicated' = Upgrade!Duplicated
         /\ Upgrade!Live' = Upgrade!Live
BY DEF Upgrade!NotUnique, Upgrade!Duplicated, Upgrade!SharesKey, Upgrade!Keyed, Upgrade!KeyOf,
       Upgrade!Live

\* The owner takes the keys away and leaves the deleted rows deleted.
LEMMA KeysReconciled ==
  ASSUME keys' = [r \in Id |-> IF r \in Upgrade!Live THEN "none" ELSE "deleted"]
  PROVE  keys' \in [Id -> Upgrade!Key] /\ ~Upgrade!NotUnique' /\ Upgrade!Live' = Upgrade!Live
<1>1. \A r \in Id : keys'[r] \in {"none", "deleted"} /\ (keys'[r] = "none" <=> r \in Upgrade!Live)
  OBVIOUS
<1>2. ~Upgrade!NotUnique'
  BY <1>1 DEF Upgrade!NotUnique, Upgrade!SharesKey, Upgrade!Keyed
<1>3. \A r : r \in Upgrade!Live' <=> r \in Id /\ keys'[r] \notin {"k1 deleted", "deleted"}
  BY DEF Upgrade!Live
<1>4. \A r : r \in Upgrade!Live => r \in Id
  BY DEF Upgrade!Live
<1> QED  BY <1>1, <1>2, <1>3, <1>4 DEF Upgrade!Key

\* A server begins to wait, finds the migration done or the rows not its own to put
\* right, stops at a row with a legacy key, or crashes.
LEMMA ServerMoves ==
  ASSUME UpgradeInv, NEW s \in Server, NEW how \in {"down", "waiting", "up", "refused"},
         server' = [server EXCEPT ![s] = how],
         lock' = IF lock = s THEN Upgrade!Nobody ELSE lock,
         how = "up" => schema = "new",
         UNCHANGED <<old, rows, schema, clock>>,
         keys' = keys
           \/ keys' = [r \in Id |-> IF r \in Upgrade!Live THEN "none" ELSE "deleted"],
         crashes' \in 0 .. MaxCrashes,
         work' \in [Id -> Upgrade!Row], todo' \subseteq Id,
         lock # s => UNCHANGED <<work, todo>>
  PROVE  UpgradeInv'
<1>0. UpgradeTypes /\ OneMigrator /\ RowsFilled /\ Upgrade!BuriedWithReason
  BY DEF UpgradeInv
<1>1. /\ keys' \in [Id -> Upgrade!Key] /\ Upgrade!Live' = Upgrade!Live
      /\ ~Upgrade!NotUnique => ~Upgrade!NotUnique'
  BY <1>0, KeysDecide, KeysReconciled DEF UpgradeTypes
<1>2. server' \in [Server -> {"down", "waiting", "working", "up", "refused"}]
      /\ lock' \in Server \cup {Upgrade!Nobody}
  BY <1>0 DEF UpgradeTypes
<1>3. UpgradeTypes'
  BY <1>0, <1>1, <1>2 DEF UpgradeTypes
<1>4. \A t \in Server : server'[t] = "working" <=> lock' = t
  <2> TAKE t \in Server
  <2>1. server[t] = "working" <=> lock = t
    BY <1>0 DEF OneMigrator
  <2>2. CASE t = s
    BY <1>0, <2>2, RowParts DEF UpgradeTypes
  <2>3. CASE t # s
    BY <1>0, <2>1, <2>3, RowParts DEF UpgradeTypes
  <2> QED  BY <2>2, <2>3
<1>5. OneMigrator'
  BY <1>0, <1>1, <1>4 DEF OneMigrator
<1>6. lock' # Upgrade!Nobody => lock # s /\ lock' = lock /\ UNCHANGED <<work, todo>>
  OBVIOUS
<1>7. RowsFilled'
  <2>1. \A t \in Server : server'[t] = "up" => schema' = "new"
    BY <1>0 DEF UpgradeTypes, RowsFilled
  <2> QED  BY <1>0, <1>1, <1>6, <2>1 DEF RowsFilled
<1>8. Upgrade!BuriedWithReason'
  BY <1>0 DEF Upgrade!BuriedWithReason, Upgrade!Eligible
<1> QED  BY <1>3, <1>5, <1>7, <1>8 DEF UpgradeInv

\* Start, Crash and Reconcile.
LEMMA ServerComesAndGoes ==
  ASSUME UpgradeInv, NEW s \in Server,
         Upgrade!Start(s) \/ Upgrade!Crash(s) \/ Upgrade!Reconcile(s)
  PROVE  UpgradeInv'
<1>0. UpgradeTypes /\ \A t \in Server : server[t] = "working" <=> lock = t
  BY DEF UpgradeInv, OneMigrator
<1>1. CASE Upgrade!Start(s)
  <2>1. lock # s
    BY <1>0, <1>1 DEF Upgrade!Start
  <2>2. /\ server' = [server EXCEPT ![s] = "waiting"]
        /\ UNCHANGED <<old, keys, rows, schema, lock, work, todo, clock, crashes>>
    BY <1>1 DEF Upgrade!Start
  <2> QED  BY <1>0, <2>1, <2>2, ServerMoves DEF UpgradeTypes
<1>2. CASE Upgrade!Crash(s)
  <2>1. /\ server' = [server EXCEPT ![s] = "down"]
        /\ lock' = IF lock = s THEN Upgrade!Nobody ELSE lock
        /\ crashes < MaxCrashes /\ crashes' = crashes + 1
        /\ IF lock = s THEN work' = rows /\ todo' = {} ELSE UNCHANGED <<work, todo>>
        /\ UNCHANGED <<old, keys, rows, schema, clock>>
    BY <1>2 DEF Upgrade!Crash, Upgrade!Leaves
  <2>2. crashes' \in 0 .. MaxCrashes
    BY <1>0, <2>1, RowParts DEF UpgradeTypes
  <2>3. work' \in [Id -> Upgrade!Row] /\ todo' \subseteq Id
    BY <1>0, <2>1 DEF UpgradeTypes
  <2> QED  BY <2>1, <2>2, <2>3, ServerMoves
<1>3. CASE Upgrade!Reconcile(s)
  <2>1. lock # s
    BY <1>0, <1>3 DEF Upgrade!Reconcile
  <2>2. /\ server' = [server EXCEPT ![s] = "down"]
        /\ keys' = [r \in Id |-> IF r \in Upgrade!Live THEN "none" ELSE "deleted"]
        /\ UNCHANGED <<old, rows, schema, lock, work, todo, clock, crashes>>
    BY <1>3 DEF Upgrade!Reconcile
  <2> QED  BY <1>0, <2>1, <2>2, ServerMoves DEF UpgradeTypes
<1> QED  BY <1>1, <1>2, <1>3

\* The lock is granted, and the record and the keys are looked at.
LEMMA MigrationBegins ==
  ASSUME UpgradeInv, NEW s \in Server, Upgrade!BeginMigration(s)
  PROVE  UpgradeInv' /\ (server'[s] = "refused" => Upgrade!NotUnique)
<1>0. /\ UpgradeTypes /\ OneMigrator /\ RowsFilled /\ Upgrade!BuriedWithReason
      /\ server[s] = "waiting" /\ lock = Upgrade!Nobody /\ lock # s
      /\ UNCHANGED <<old, keys, rows, schema, clock, crashes>>
  BY RowParts DEF UpgradeInv, Upgrade!BeginMigration, Upgrade!LockFree
<1>1. CASE schema = "new"
  <2>1. Upgrade!Leaves(s, "up") /\ UNCHANGED <<work, todo>>
    BY <1>1 DEF Upgrade!BeginMigration, Upgrade!AlreadyDone
  <2>2. UpgradeInv'
    BY <1>0, <1>1, <2>1, ServerMoves DEF UpgradeTypes, Upgrade!Leaves
  <2> QED  BY <1>0, <2>1, <2>2 DEF UpgradeTypes, Upgrade!Leaves
<1>2. CASE schema # "new" /\ Upgrade!Duplicated
  <2>1. Upgrade!Leaves(s, "refused") /\ UNCHANGED <<work, todo>>
    BY <1>2 DEF Upgrade!BeginMigration, Upgrade!AlreadyDone
  <2>2. UpgradeInv'
    BY <1>0, <2>1, ServerMoves DEF UpgradeTypes, Upgrade!Leaves
  <2>3. Upgrade!NotUnique
    BY <1>2 DEF Upgrade!Duplicated, Upgrade!NotUnique, Upgrade!Live
  <2> QED  BY <2>2, <2>3
<1>3. CASE schema # "new" /\ ~Upgrade!Duplicated
  <2>1. /\ server' = [server EXCEPT ![s] = "working"] /\ lock' = s
        /\ work' = rows /\ todo' = Upgrade!Live
    BY <1>3 DEF Upgrade!BeginMigration, Upgrade!AlreadyDone
  <2>2. UpgradeTypes'
    BY <1>0, <2>1 DEF UpgradeTypes, Upgrade!Live
  <2>3. Upgrade!Live' = Upgrade!Live /\ schema' = "old"
    BY <1>0, <1>3, KeysDecide DEF UpgradeTypes
  <2>4. OneMigrator'
    <3>1. \A t \in Server : server[t] # "working" /\ t # Upgrade!Nobody
      BY <1>0, RowParts DEF OneMigrator
    <3>2. \A t \in Server : server'[t] = "working" <=> lock' = t
      BY <1>0, <2>1, <3>1 DEF UpgradeTypes
    <3> QED  BY <2>3, <3>2 DEF OneMigrator
  <2>5. RowsFilled'
    <3>1. \A r \in Id : rows[r] = Upgrade!Widened(old[r]) /\ rows[r].state = old[r].state
      BY <1>0, <1>3, WidenedFacts DEF UpgradeTypes, RowsFilled
    <3> QED  BY <1>0, <2>1, <2>3, <3>1 DEF UpgradeTypes, RowsFilled
  <2>6. Upgrade!BuriedWithReason'
    BY <1>0 DEF Upgrade!BuriedWithReason, Upgrade!Eligible
  <2>7. server'[s] = "working"
    BY <1>0, <2>1 DEF UpgradeTypes
  <2> QED  BY <2>2, <2>4, <2>5, <2>6, <2>7 DEF UpgradeInv
<1> QED  BY <1>1, <1>2, <1>3

\* One round of the loop.
LEMMA RowMigrates ==
  ASSUME UpgradeInv, NEW s \in Server, Upgrade!MigrateRow(s)
  PROVE  UpgradeInv' /\ (server'[s] = "refused" => \E r \in Id : Upgrade!Legacy(r))
<1>0. /\ UpgradeTypes /\ OneMigrator /\ RowsFilled /\ Upgrade!BuriedWithReason
      /\ server[s] = "working" /\ lock = s /\ schema = "old" /\ lock # Upgrade!Nobody
      /\ UNCHANGED <<old, keys, rows, schema, clock, crashes>>
  BY RowParts DEF UpgradeInv, OneMigrator, Upgrade!MigrateRow
<1>1. PICK r \in todo :
        IF Upgrade!Legacy(r)
        THEN Upgrade!Leaves(s, "refused") /\ work' = rows /\ todo' = {}
        ELSE /\ work' = [work EXCEPT ![r] = Upgrade!Migrated(@, old[r])]
             /\ todo' = todo \ {r} /\ UNCHANGED <<server, lock>>
  BY DEF Upgrade!MigrateRow
<1>2. r \in Id
  BY <1>0 DEF UpgradeTypes
<1>3. CASE Upgrade!Legacy(r)
  <2>1. UpgradeInv'
    BY <1>0, <1>1, <1>3, ServerMoves DEF UpgradeTypes, Upgrade!Leaves
  <2> QED  BY <1>2, <1>3, <2>1
<1>4. CASE ~Upgrade!Legacy(r)
  <2> DEFINE q == Upgrade!Migrated(work[r], old[r])
  <2>1. /\ work' = [work EXCEPT ![r] = q] /\ todo' = todo \ {r}
        /\ UNCHANGED <<server, lock>>
    BY <1>1, <1>4
  <2>2. old[r] \in OldRecord /\ work[r] \in Upgrade!Row /\ work \in [Id -> Upgrade!Row]
    BY <1>0, <1>2 DEF UpgradeTypes
  <2>3. work[r] = Upgrade!Widened(old[r])
    BY <1>0, <1>2 DEF RowsFilled
  <2>4. q \in Upgrade!Row /\ Filled(q, old[r]) /\ q.state = old[r].state
    BY <2>2, <2>3, WidenedFacts, MigratedFacts
  <2> HIDE DEF q
  <2>5. UpgradeTypes'
    BY <1>0, <2>1, <2>2, <2>4 DEF UpgradeTypes
  <2>6. OneMigrator' /\ Upgrade!BuriedWithReason'
    BY <1>0, <2>1 DEF OneMigrator, Upgrade!BuriedWithReason, Upgrade!Eligible
  <2>7. \A k \in todo' : work'[k] = rows'[k]
    BY <1>0, <2>1, <2>2 DEF UpgradeTypes, RowsFilled
  <2>8. \A k \in Id \ todo' : /\ k \in Upgrade!Live => Filled(work'[k], old'[k])
                             /\ work'[k].state = old'[k].state
    BY <1>0, <2>1, <2>2, <2>4 DEF RowsFilled
  <2>9. RowsFilled'
    BY <1>0, <2>1, <2>7, <2>8, KeysDecide DEF RowsFilled, Filled, Upgrade!Eligible
  <2>10. server'[s] = "working"
    BY <1>0, <2>1
  <2> QED  BY <2>5, <2>6, <2>9, <2>10 DEF UpgradeInv
<1> QED  BY <1>3, <1>4

\* The commit: the record cannot be there, for the lock was kept, but a deleted row
\* may have a key of another.
LEMMA MigrationFinishes ==
  ASSUME UpgradeInv, NEW s \in Server, Upgrade!FinishMigration(s)
  PROVE  UpgradeInv' /\ (server'[s] = "refused" => Upgrade!NotUnique)
<1>0. /\ UpgradeTypes /\ OneMigrator /\ RowsFilled /\ Upgrade!BuriedWithReason
      /\ server[s] = "working" /\ lock = s /\ schema = "old" /\ lock # Upgrade!Nobody
      /\ todo = {} /\ work' = rows' /\ UNCHANGED <<old, keys, todo, clock, crashes>>
  BY RowParts DEF UpgradeInv, OneMigrator, Upgrade!FinishMigration
<1>1. CASE Upgrade!NotUnique
  <2>1. Upgrade!Leaves(s, "refused") /\ UNCHANGED <<rows, schema>>
    BY <1>1 DEF Upgrade!FinishMigration
  <2>2. UpgradeInv'
    BY <1>0, <2>1, ServerMoves DEF UpgradeTypes, Upgrade!Leaves
  <2> QED  BY <1>1, <2>2
<1>2. CASE ~Upgrade!NotUnique
  <2>1. /\ server' = [server EXCEPT ![s] = "up"] /\ lock' = Upgrade!Nobody
        /\ rows' = work /\ schema' = "new" /\ work' = work
    BY <1>0, <1>2 DEF Upgrade!FinishMigration, Upgrade!Leaves
  <2>2. UpgradeTypes'
    BY <1>0, <2>1 DEF UpgradeTypes
  <2>3. OneMigrator'
    <3>1. \A t \in Server : (server[t] = "working" <=> lock = t) /\ t # Upgrade!Nobody
      BY <1>0, RowParts DEF OneMigrator
    <3>2. \A t \in Server : server'[t] # "working"
      BY <1>0, <2>1, <3>1 DEF UpgradeTypes
    <3> QED  BY <2>1, <3>1, <3>2 DEF OneMigrator
  <2>4. \A r \in Id : /\ r \in Upgrade!Live => Filled(work[r], old[r])
                     /\ work[r].state = old[r].state
    BY <1>0 DEF RowsFilled
  <2>5. ~Upgrade!NotUnique' /\ Upgrade!Live' = Upgrade!Live
    BY <1>0, <1>2, KeysDecide
  <2>5a. Upgrade!Live \subseteq Id
    BY DEF Upgrade!Live
  <2>6. RowsFilled'
    BY <1>0, <2>1, <2>4, <2>5, <2>5a DEF RowsFilled, Filled, Upgrade!Eligible
  <2>7. Upgrade!BuriedWithReason'
    BY <1>0, <2>1, <2>4 DEF Upgrade!BuriedWithReason
  <2>8. server'[s] = "up"
    BY <1>0, <2>1 DEF UpgradeTypes
  <2> QED  BY <2>2, <2>3, <2>6, <2>7, <2>8 DEF UpgradeInv
<1> QED  BY <1>1, <1>2

\* ReserveDispatch on the migrated rows.
LEMMA RowReserved ==
  ASSUME UpgradeInv, NEW s \in Server, Upgrade!Reserve(s)
  PROVE  UpgradeInv'
<1>0. /\ UpgradeTypes /\ OneMigrator /\ RowsFilled /\ Upgrade!BuriedWithReason
      /\ server[s] = "up" /\ schema = "new" /\ lock = Upgrade!Nobody
      /\ UNCHANGED <<old, keys, schema, lock, work, todo, server, clock, crashes>>
  BY DEF UpgradeInv, OneMigrator, RowsFilled, Upgrade!Reserve
<1>1. PICK r \in Upgrade!Live :
                      /\ Upgrade!Due(rows[r], clock)
                      /\ rows' = [rows EXCEPT ![r] = Upgrade!Reserved(@, clock, Interval)]
  BY DEF Upgrade!Reserve
<1>1a. r \in Id
  BY DEF Upgrade!Live
<1> DEFINE q == Upgrade!Reserved(rows[r], clock, Interval)
<1>2. /\ rows \in [Id -> Upgrade!Row] /\ rows[r] \in Upgrade!Row /\ old[r] \in OldRecord
      /\ clock \in Int /\ Filled(rows[r], old[r])
  BY <1>0, <1>1a, RowParts DEF UpgradeTypes, RowsFilled
<1>3. /\ q \in Upgrade!Row /\ q.attempts = rows[r].attempts
      /\ q.maxRetries = rows[r].maxRetries /\ q.deadline = rows[r].deadline
      /\ q.state = "dead" => Upgrade!Exhausted(rows[r], clock)
  BY <1>1, <1>2, ReservedFacts
<1>4. rows' = [rows EXCEPT ![r] = q]
  BY <1>1
<1> HIDE DEF q
<1>5. UpgradeTypes'
  BY <1>0, <1>2, <1>3, <1>4 DEF UpgradeTypes
<1>6. OneMigrator'
  BY <1>0 DEF OneMigrator
<1>7. \A k \in Upgrade!Live : Filled(rows'[k], old[k])
  <2> TAKE k \in Upgrade!Live
  <2>0. k \in Id
    BY DEF Upgrade!Live
  <2>1. Filled(rows[k], old[k])
    BY <1>0 DEF RowsFilled
  <2>2. CASE k = r
    BY <1>2, <1>3, <1>4, <2>1, <2>2, <2>0 DEF Filled
  <2> QED  BY <1>2, <1>4, <2>1, <2>2, <2>0
<1>8. RowsFilled'
  <2>1. ~Upgrade!NotUnique' /\ Upgrade!Live' = Upgrade!Live
    BY <1>0, KeysDecide DEF RowsFilled
  <2> QED  BY <1>0, <1>7, <2>1 DEF RowsFilled, Filled, Upgrade!Eligible
<1>9. Upgrade!BuriedWithReason'
  <2> SUFFICES ASSUME NEW k \in Id, rows'[k].state = "dead", old[k].state # "dead"
               PROVE  \/ old[k].state # "pending" /\ old[k].retryCount >= old[k].maxRetries
                      \/ MaxAge > 0 /\ clock >= Upgrade!Eligible(old[k]) + MaxAge
    BY <1>0 DEF Upgrade!BuriedWithReason, Upgrade!Eligible
  <2>1. CASE k = r
    BY <1>2, <1>3, <1>4, <2>1, BuriedFacts
  <2>2. CASE k # r
    BY <1>0, <1>2, <1>4, <2>2 DEF Upgrade!BuriedWithReason
  <2> QED  BY <2>1, <2>2
<1> QED  BY <1>5, <1>6, <1>8, <1>9 DEF UpgradeInv

\* The invariant of the migration, step by step; a server is refused only over rows
\* for the owner of the data.
LEMMA UpgradePreserved ==
  ASSUME UpgradeInv, [Upgrade!Next]_upgradeVars
  PROVE  /\ UpgradeInv'
         /\ \A s \in Server : server'[s] = "refused" /\ server[s] # "refused"
              => Upgrade!NotUnique \/ \E r \in Id : Upgrade!Legacy(r)
<1>0. server \in [Server -> {"down", "waiting", "working", "up", "refused"}]
  BY DEF UpgradeInv, UpgradeTypes
<1>1. ASSUME UNCHANGED <<old, keys, rows, schema, lock, work, todo, server, crashes>>,
             clock' \in 1 .. MaxClock, clock' >= clock
      PROVE  UpgradeInv'
  <2>1. UpgradeTypes'
    BY <1>1 DEF UpgradeInv, UpgradeTypes
  <2>2. OneMigrator' /\ RowsFilled'
    BY <1>1, KeysDecide DEF UpgradeInv, OneMigrator, RowsFilled, Filled, Upgrade!Eligible
  <2>3. Upgrade!BuriedWithReason'
    <3> SUFFICES ASSUME NEW k \in Id, rows[k].state = "dead", old[k].state # "dead",
                        MaxAge > 0, clock >= Upgrade!Eligible(old[k]) + MaxAge
                 PROVE  clock' >= Upgrade!Eligible(old[k]) + MaxAge
      BY <1>1 DEF UpgradeInv, Upgrade!BuriedWithReason, Upgrade!Eligible
    <3>1. Upgrade!Eligible(old[k]) \in Int
      BY DEF UpgradeInv, UpgradeTypes, OldRecord, Upgrade!Time, Upgrade!Eligible,
           Upgrade!Created
    <3>2. clock \in Int /\ clock' \in Int /\ MaxAge \in Int
      BY <1>1, RowParts DEF UpgradeInv, UpgradeTypes
    <3> QED  BY <1>1, <3>1, <3>2
  <2> QED  BY <2>1, <2>2, <2>3 DEF UpgradeInv
<1>2. clock \in 1 .. MaxClock
  BY DEF UpgradeInv, UpgradeTypes
<1>3. CASE UNCHANGED upgradeVars
  BY <1>1, <1>2, <1>3, RowParts DEF upgradeVars
<1>4. CASE Upgrade!Tick
  <2>1. clock' \in 1 .. MaxClock /\ clock' >= clock
    BY <1>2, <1>4, RowParts DEF Upgrade!Tick
  <2> QED  BY <1>1, <1>4, <2>1 DEF Upgrade!Tick
<1>5. ASSUME NEW s \in Server, Upgrade!Start(s) \/ Upgrade!Crash(s) \/ Upgrade!Reconcile(s)
      PROVE  UpgradeInv' /\ \A t \in Server : server'[t] = "refused" => server[t] = "refused"
  <2>1. UpgradeInv'
    BY <1>5, ServerComesAndGoes
  <2>2. PICK how \in {"waiting", "down"} : server' = [server EXCEPT ![s] = how]
    BY <1>5 DEF Upgrade!Start, Upgrade!Crash, Upgrade!Reconcile, Upgrade!Leaves
  <2> QED  BY <1>0, <2>1, <2>2
<1>6. ASSUME NEW s \in Server, NEW how, server' = [server EXCEPT ![s] = how]
      PROVE  \A t \in Server \ {s} : server'[t] = server[t]
  BY <1>0, <1>6
<1>7. ASSUME NEW s \in Server, Upgrade!BeginMigration(s)
      PROVE  UpgradeInv' /\ \A t \in Server : server'[t] = "refused" /\ server[t] # "refused"
                              => Upgrade!NotUnique
  <2>1. \A t \in Server \ {s} : server'[t] = server[t]
    BY <1>6, <1>7 DEF Upgrade!BeginMigration, Upgrade!Leaves
  <2> QED  BY <1>7, <2>1, MigrationBegins
<1>8. ASSUME NEW s \in Server, Upgrade!MigrateRow(s)
      PROVE  UpgradeInv' /\ \A t \in Server : server'[t] = "refused" /\ server[t] # "refused"
                              => \E r \in Id : Upgrade!Legacy(r)
  <2>1. \A t \in Server \ {s} : server'[t] = server[t]
    BY <1>6, <1>8 DEF Upgrade!MigrateRow, Upgrade!Leaves
  <2> QED  BY <1>8, <2>1, RowMigrates
<1>9. ASSUME NEW s \in Server, Upgrade!FinishMigration(s)
      PROVE  UpgradeInv' /\ \A t \in Server : server'[t] = "refused" /\ server[t] # "refused"
                              => Upgrade!NotUnique
  <2>1. \A t \in Server \ {s} : server'[t] = server[t]
    BY <1>6, <1>9 DEF Upgrade!FinishMigration, Upgrade!Leaves
  <2> QED  BY <1>9, <2>1, MigrationFinishes
<1>10. ASSUME NEW s \in Server, Upgrade!Reserve(s) PROVE UpgradeInv' /\ server' = server
  BY <1>10, RowReserved DEF Upgrade!Reserve
<1>11. CASE Upgrade!Next
  BY <1>4, <1>5, <1>7, <1>8, <1>9, <1>10, <1>11 DEF Upgrade!Next, Upgrade!Tick
<1> QED  BY <1>3, <1>11 DEF upgradeVars

\* The migration before it began, and when every server was up long ago.
LEMMA UpgradeFirst == Upgrade!Init \/ UpgradeOver => UpgradeInv
<1>0. OldRow \subseteq OldRecord /\ SentRow \in OldRow
  BY MessagesAssumption DEF Upgrade!MigrationAssumption, OldRecord
<1>1. ASSUME Upgrade!Init PROVE UpgradeInv
  <2>1. /\ old \in [Id -> OldRow] /\ keys \in [Id -> Upgrade!Key]
        /\ rows = [r \in Id |-> Upgrade!Widened(old[r])] /\ work = rows
        /\ schema = "old" /\ lock = Upgrade!Nobody /\ todo = {}
        /\ server = [s \in Server |-> "down"] /\ clock = 1 /\ crashes = 0
    BY <1>1 DEF Upgrade!Init
  <2>2. \A r \in Id : /\ old[r] \in OldRecord /\ rows[r] = Upgrade!Widened(old[r])
                      /\ rows[r] \in Upgrade!Row /\ rows[r].state = old[r].state
    BY <1>0, <2>1, WidenedFacts
  <2>3. old \in [Id -> OldRecord] /\ rows \in [Id -> Upgrade!Row]
    BY <1>0, <2>1, <2>2
  <2>4. UpgradeTypes
    BY <2>1, <2>3, RowParts DEF UpgradeTypes
  <2>5. OneMigrator /\ RowsFilled
    BY <2>1, <2>2, RowParts DEF OneMigrator, RowsFilled
  <2>6. Upgrade!BuriedWithReason
    BY <2>2 DEF Upgrade!BuriedWithReason
  <2> QED  BY <2>4, <2>5, <2>6 DEF UpgradeInv
<1>2. ASSUME UpgradeOver PROVE UpgradeInv
  <2> DEFINE q == Upgrade!Migrated(Upgrade!Widened(SentRow), SentRow)
  <2>1. /\ old = [r \in Id |-> SentRow] /\ keys = [r \in Id |-> "none"]
        /\ rows = [r \in Id |-> q] /\ work = rows
        /\ schema = "new" /\ lock = Upgrade!Nobody /\ todo = {}
        /\ server = [s \in Server |-> "up"] /\ clock = MaxClock /\ crashes = MaxCrashes
    BY <1>2 DEF UpgradeOver
  <2>2. q \in Upgrade!Row /\ Filled(q, SentRow) /\ q.state = "sent"
    <3>1. SentRow.state = "sent"
      BY DEF SentRow, Old
    <3> QED  BY <1>0, <3>1, WidenedFacts, MigratedFacts
  <2> HIDE DEF q
  <2>3. UpgradeTypes
    BY <1>0, <2>1, <2>2, RowParts DEF UpgradeTypes, Upgrade!Key
  <2>4. OneMigrator
    BY <2>1, RowParts DEF OneMigrator
  <2>5. RowsFilled
    BY <2>1, <2>2 DEF RowsFilled, Upgrade!NotUnique, Upgrade!SharesKey, Upgrade!Keyed,
         Upgrade!Live
  <2>6. Upgrade!BuriedWithReason
    BY <2>1, <2>2 DEF Upgrade!BuriedWithReason
  <2> QED  BY <2>3, <2>4, <2>5, <2>6 DEF UpgradeInv
<1> QED  BY <1>1, <1>2

\* The migration keeps its invariant in every behaviour.
LEMMA UpgradeInvariance ==
  MessagesSpec => []UpgradeInv /\ [][[Upgrade!Next]_upgradeVars]_upgradeVars
<1>1. MessagesInit => UpgradeInv
  BY UpgradeFirst DEF MessagesInit
<1>2. [MessagesNext]_<<vars, apiVars, upgradeVars, attemptVars>> => [Upgrade!Next]_upgradeVars
  BY DEF MessagesNext
<1>3. UpgradeInv /\ [Upgrade!Next]_upgradeVars => UpgradeInv'
  BY UpgradePreserved
<1> QED  BY <1>1, <1>2, <1>3, PTL DEF MessagesSpec

\* Whatever crashes and however many servers start together: none is up on a table that
\* is not migrated or with its columns half filled, no row of the old version is given up
\* without its attempts or its time, and a server is refused only over rows that are the
\* owner's to put right (Migrate, ReserveDispatch).  What is unfinished comes back under
\* fairness, which is the rest of Upgraded.
THEOREM UpgradeIsWhole == MessagesSpec => NothingHalfMigrated
<1>1. ASSUME UpgradeInv PROVE Upgrade!UpMeansMigrated
  <2> SUFFICES ASSUME NEW s \in Server, server[s] = "up"
               PROVE  /\ schema = "new" /\ ~Upgrade!NotUnique
                      /\ \A r \in Upgrade!Live :
                           /\ MaxAge > 0 => rows[r].deadline # NoTime
                           /\ old[r].state # "pending" => rows[r].attempts > 0
    BY DEF Upgrade!UpMeansMigrated
  <2>1. /\ schema = "new" /\ ~Upgrade!NotUnique
        /\ \A r \in Upgrade!Live : Filled(rows[r], old[r]) /\ old[r] \in OldRecord
    BY <1>1 DEF UpgradeInv, RowsFilled, UpgradeTypes, Upgrade!Live
  <2>2. ASSUME NEW r \in Upgrade!Live
        PROVE  /\ MaxAge > 0 => rows[r].deadline # NoTime
               /\ old[r].state # "pending" => rows[r].attempts > 0
    <3>1. old[r].retryCount \in Nat /\ Upgrade!Eligible(old[r]) \in Int
      BY <2>1 DEF OldRecord, Upgrade!Time, Upgrade!Eligible, Upgrade!Created
    <3>2. Upgrade!Eligible(old[r]) + MaxAge \in Int
      BY <3>1, RowParts
    <3>3. MaxAge > 0 => rows[r].deadline # NoTime
      BY <2>1, <3>2, RowParts DEF Filled
    <3>4. old[r].state # "pending" => rows[r].attempts > 0
      BY <2>1, <3>1 DEF Filled
    <3> QED  BY <3>3, <3>4
  <2> QED  BY <2>1, <2>2
<1>2. UpgradeInv => Upgrade!UpMeansMigrated /\ Upgrade!BuriedWithReason
  BY <1>1 DEF UpgradeInv
<1>3. UpgradeInv /\ [Upgrade!Next]_upgradeVars =>
        [\A s \in Server : server'[s] = "refused" /\ server[s] # "refused"
           => Upgrade!NotUnique \/ \E r \in Id : Upgrade!Legacy(r)]_Upgrade!vars
  BY UpgradePreserved
<1> QED  BY <1>2, <1>3, UpgradeInvariance, PTL DEF NothingHalfMigrated, Upgrade!RefusedForOwner

-----------------------------------------------------------------------------
(* The API: the inductive invariant. *)

Codes == {200, 400, 409, 500, 503}
ApiAnswer == [request : Request, code : Codes, id : Nat]

\* What the fingerprint of a request is taken of.
PrintFor(r) == Api!PrintOf(r, Api!Handled(r).message)
Good(r) == Api!Handled(r).passes /\ Api!Valid(r.channel, Api!Handled(r).message)

\* A request that nothing speaks against when it reaches the table.
Ready(r) ==
  /\ r \in Request /\ Good(r) /\ r.channel \in Enabled /\ r.key \in {Api!NoKey, "key"}

\* The row it is stored as.
Entry(r) == [channel |-> r.channel, key |-> r.key, print |-> PrintFor(r)]

ApiRow == {Entry(r) : r \in {q \in Request : Ready(q)}}

ApiTypes ==
  /\ table \in Seq(ApiRow) /\ told \subseteq ApiAnswer
  /\ \A t \in told : t.code = 200 <=> t.id # Api!NoId
  /\ stopping \in BOOLEAN /\ faults \in 0 .. MaxFaults
  /\ IsFiniteSet(told) /\ Cardinality(told) <= MaxRequests

\* The unique index.
KeysUnique ==
  \A i, j \in DOMAIN table :
    table[i].channel = table[j].channel /\ table[i].key = table[j].key /\ table[i].key # Api!NoKey
      => i = j

\* An id that was told is that of a row for the request.
ToldStored ==
  \A t \in told : t.code = 200 =>
    /\ t.id \in DOMAIN table /\ Good(t.request)
    /\ table[t.id].channel = t.request.channel /\ table[t.id].key = t.request.key
    /\ table[t.id].print = PrintFor(t.request)

\* A request that was told of a conflict has another row in its way.
ConflictStored ==
  \A t \in told : t.code = 409 =>
    /\ Good(t.request)
    /\ \E i \in DOMAIN table :
         Api!SameKey(table[i], t.request) /\ table[i].print # PrintFor(t.request)

\* An id without a key is told once.
ToldOnce ==
  \A s, t \in told :
    s.code = 200 /\ t.code = 200 /\ s.id = t.id /\ table[s.id].key = Api!NoKey
      => s.request = t.request

ApiInv == ApiTypes /\ KeysUnique /\ ToldStored /\ ConflictStored /\ ToldOnce

\* The finite sets of the API are those counted here.
LEMMA ApiCounts ==
  ASSUME NEW S
  PROVE  Api!Cardinality(S) = Cardinality(S) /\ (Api!IsFiniteSet(S) <=> IsFiniteSet(S))
BY DEF Api!Cardinality, Cardinality, Api!IsFiniteSet, IsFiniteSet

\* What the assumption says of a request.
LEMMA RequestFacts ==
  ASSUME NEW r \in Request
  PROVE  /\ r.channel \in {"sms", "email", "mattermost", "bale", "http"}
         /\ Api!IsMessage(r.channel, r.message)
         /\ r.maxRetries \in Int /\ r.sendAt \in Int /\ r.key \in {Api!NoKey, "key", "bad"}
BY MessagesAssumption DEF Api!HttpApiAssumption, Api!IsRequest, Api!Channel

\* What a row is.
LEMMA ApiRowFacts ==
  ASSUME NEW row \in ApiRow
  PROVE  /\ row.channel \in Enabled /\ row.key \in {Api!NoKey, "key"}
         /\ \E r \in Request : Ready(r) /\ row = Entry(r)
<1>1. PICK r \in Request : Ready(r) /\ row = Entry(r)
  BY DEF ApiRow
<1>2. row.channel = r.channel /\ row.key = r.key
  BY <1>1 DEF Entry
<1> QED  BY <1>1, <1>2 DEF Ready

Grown(r) == Ready(r) /\ Api!Taken(r) = {} /\ table' = Append(table, Entry(r))

\* A request gets to the table only with a sender, a good key and a valid message.
LEMMA ReadyFacts ==
  ASSUME NEW r \in Request, ApiInv, Api!Handled(r).passes,
         Api!Refusal(r, Api!Handled(r).message) = "none"
  PROVE  Ready(r)
<1> DEFINE m == Api!Handled(r).message
<1>1. r.channel \in Enabled /\ ~Api!Invalid(r, m)
  <2>1. stopping \in BOOLEAN
    BY DEF ApiInv, ApiTypes
  <2> QED  BY <2>1 DEF Api!Refusal
<1>2. r.key # "bad" /\ Api!Valid(r.channel, m)
  BY <1>1 DEF Api!Invalid
<1> QED  BY <1>1, <1>2, RequestFacts DEF Ready, Good

\* The table keeps its rows and the keys their rows when a row is added under a key
\* that is free.
LEMMA TableGrows ==
  ASSUME ApiInv, NEW r, UNCHANGED table \/ Grown(r)
  PROVE  /\ table' \in Seq(ApiRow) /\ KeysUnique'
         /\ DOMAIN table \subseteq DOMAIN table' /\ \A i \in DOMAIN table : table'[i] = table[i]
         /\ Grown(r) => Len(table') = Len(table) + 1 /\ table'[Len(table')] = Entry(r)
                        /\ Len(table') \in DOMAIN table' /\ Len(table') \notin DOMAIN table
<1>0. table \in Seq(ApiRow) /\ KeysUnique
  BY DEF ApiInv, ApiTypes
<1>1. CASE UNCHANGED table
  <2>1. ~Grown(r)
    <3> SUFFICES ASSUME Grown(r) PROVE FALSE
      OBVIOUS
    <3>1. Len(table') = Len(table) + 1 /\ Len(table) \in Nat
      BY <1>0 DEF Grown
    <3> QED  BY <3>1, <1>1
  <2> QED  BY <1>0, <1>1, <2>1 DEF KeysUnique
<1>2. CASE Grown(r)
  <2>1. Entry(r) \in ApiRow
    BY <1>2 DEF Grown, Ready, Entry, ApiRow
  <2>2. /\ table' \in Seq(ApiRow) /\ Len(table') = Len(table) + 1
        /\ Len(table) \in Nat /\ DOMAIN table = 1 .. Len(table)
        /\ DOMAIN table' = 1 .. Len(table) + 1
        /\ \A i \in 1 .. Len(table) : table'[i] = table[i]
        /\ table'[Len(table) + 1] = Entry(r)
    BY <1>0, <1>2, <2>1 DEF Grown
  <2>3. \A i \in DOMAIN table : ~(table[i].channel = r.channel /\ table[i].key = r.key /\ r.key # Api!NoKey)
    BY <1>2 DEF Grown, Api!Taken, Api!SameKey
  <2>4. Entry(r).channel = r.channel /\ Entry(r).key = r.key
    BY DEF Entry
  <2>5. PICK n \in Nat :
          /\ DOMAIN table = 1 .. n /\ DOMAIN table' = 1 .. n + 1
          /\ \A i \in 1 .. n : table'[i] = table[i]
          /\ table'[n + 1] = Entry(r)
    BY <2>2
  <2>6. KeysUnique'
    <3> SUFFICES ASSUME NEW i \in DOMAIN table', NEW j \in DOMAIN table',
                        table'[i].channel = table'[j].channel, table'[i].key = table'[j].key,
                        table'[i].key # Api!NoKey
                 PROVE  i = j
      BY DEF KeysUnique
    <3>0. /\ i \in DOMAIN table \/ i = n + 1
          /\ j \in DOMAIN table \/ j = n + 1
      <4>1. DOMAIN table = 1 .. n /\ i \in 1 .. n + 1 /\ j \in 1 .. n + 1
        BY <2>5
      <4>2. \A k \in 1 .. n + 1 : k \in 1 .. n \/ k = n + 1
        OBVIOUS
      <4> QED  BY <4>1, <4>2
    <3>1. CASE i \in DOMAIN table /\ j \in DOMAIN table
      <4>1. table'[i] = table[i] /\ table'[j] = table[j]
        BY <3>1, <2>5
      <4> QED  BY <3>1, <4>1, <1>0 DEF KeysUnique
    <3>2. CASE i = n + 1 /\ j \in DOMAIN table
      <4>1. table'[i] = Entry(r) /\ table'[j] = table[j]
        BY <3>2, <2>5
      <4> QED  BY <3>2, <4>1, <2>3, <2>4
    <3>3. CASE i \in DOMAIN table /\ j = n + 1
      <4>1. table'[i] = table[i] /\ table'[j] = Entry(r)
        BY <3>3, <2>5
      <4> QED  BY <3>3, <4>1, <2>3, <2>4
    <3> QED  BY <3>0, <3>1, <3>2, <3>3
  <2> QED  BY <2>2, <2>6
<1> QED  BY <1>1, <1>2

\* What an answer rests on when it is given.
Given(r, code, id) ==
  /\ code = 200 <=> id # Api!NoId
  /\ code = 200 => /\ id \in DOMAIN table' /\ Good(r) /\ table'[id] = Entry(r)
                   /\ r.key = Api!NoKey => id \notin DOMAIN table
  /\ code = 409 => /\ Good(r)
                   /\ \E i \in DOMAIN table' :
                        Api!SameKey(table'[i], r) /\ table'[i].print # PrintFor(r)

\* An answer that is true when it is given leaves all answers true.
LEMMA AnswerGiven ==
  ASSUME ApiInv, NEW r \in Request, NEW code \in Codes, NEW id \in Nat,
         UNCHANGED table \/ Grown(r), Given(r, code, id),
         NEW new, new = [request |-> r, code |-> code, id |-> id], told' = told \cup {new},
         Cardinality(told) < MaxRequests,
         stopping' \in BOOLEAN /\ faults' \in 0 .. MaxFaults
  PROVE  ApiInv'
<1>0. new \in ApiAnswer /\ new.request = r /\ new.code = code /\ new.id = id
  BY DEF ApiAnswer
<1>01. code = 200 => /\ id \in DOMAIN table' /\ Good(r)
                     /\ table'[id].channel = r.channel /\ table'[id].key = r.key
                     /\ table'[id].print = PrintFor(r)
                     /\ r.key = Api!NoKey => id \notin DOMAIN table
  <2>1. Entry(r).channel = r.channel /\ Entry(r).key = r.key /\ Entry(r).print = PrintFor(r)
    BY DEF Entry
  <2> QED  BY <2>1 DEF Given
<1>1. /\ table' \in Seq(ApiRow) /\ KeysUnique'
      /\ DOMAIN table \subseteq DOMAIN table' /\ \A i \in DOMAIN table : table'[i] = table[i]
  BY TableGrows
<1>2. ApiTypes'
  <2>1. IsFiniteSet(told) /\ told \subseteq ApiAnswer /\ MaxRequests \in Nat
    BY MessagesAssumption DEF ApiInv, ApiTypes, Api!HttpApiAssumption
  <2>2. Cardinality(told) \in Nat
    BY <2>1, FS_CardinalityType
  <2>3. /\ IsFiniteSet(told \cup {new})
        /\ Cardinality(told \cup {new})
             = IF new \in told THEN Cardinality(told) ELSE Cardinality(told) + 1
    BY <2>1, FS_AddElement
  <2>4. Cardinality(told') <= MaxRequests /\ IsFiniteSet(told')
    BY <2>1, <2>2, <2>3
  <2>5. told' \subseteq ApiAnswer
    BY <1>0, <2>1
  <2>6. \A t \in told' : t.code = 200 <=> t.id # Api!NoId
    BY <1>0 DEF ApiInv, ApiTypes, Given
  <2> QED  BY <1>1, <2>4, <2>5, <2>6 DEF ApiTypes
<1>3. ToldStored'
  <2>1. ASSUME NEW t \in told', t.code = 200
        PROVE  /\ t.id \in DOMAIN table' /\ Good(t.request)
               /\ table'[t.id].channel = t.request.channel
               /\ table'[t.id].key = t.request.key
               /\ table'[t.id].print = PrintFor(t.request)
    <3>1. CASE t \in told
      BY <2>1, <3>1, <1>1 DEF ApiInv, ToldStored
    <3>2. CASE t = new
      <4>1. t.request = r /\ t.id = id /\ code = 200
        BY <2>1, <3>2, <1>0
      <4> QED  BY <4>1, <1>01
    <3> QED  BY <3>1, <3>2
  <2> QED  BY <2>1 DEF ToldStored, Good, PrintFor
<1>4. ConflictStored'
  <2>1. ASSUME NEW t \in told', t.code = 409
        PROVE  /\ Good(t.request)
               /\ \E i \in DOMAIN table' :
                    Api!SameKey(table'[i], t.request) /\ table'[i].print # PrintFor(t.request)
    <3>1. CASE t \in told
      <4>1. /\ Good(t.request)
            /\ \E i \in DOMAIN table :
                 Api!SameKey(table[i], t.request) /\ table[i].print # PrintFor(t.request)
        BY <2>1, <3>1 DEF ApiInv, ConflictStored
      <4> QED  BY <4>1, <1>1
    <3>2. CASE t = new
      BY <2>1, <3>2, <1>0 DEF Given
    <3> QED  BY <3>1, <3>2
  <2> QED  BY <2>1 DEF ConflictStored, Good, PrintFor
<1>5. ToldOnce'
  <2>0. \A u \in told : u.code = 200 => u.id \in DOMAIN table
    BY DEF ApiInv, ToldStored
  <2>1. ASSUME NEW s \in told', NEW t \in told', s.code = 200, t.code = 200,
               s.id = t.id, table'[s.id].key = Api!NoKey
        PROVE  s.request = t.request
    <3>1. CASE s \in told /\ t \in told
      <4>1. table'[s.id] = table[s.id]
        BY <2>0, <2>1, <3>1, <1>1
      <4>2. table[s.id].key = Api!NoKey
        BY <2>1, <4>1
      <4> QED  BY <2>1, <3>1, <4>2 DEF ApiInv, ToldOnce
    <3>2. CASE s = new \/ t = new
      <4>1. code = 200 /\ s.id = id /\ t.id = id
        BY <2>1, <3>2, <1>0
      <4>2. r.key = Api!NoKey /\ id \notin DOMAIN table
        BY <2>1, <4>1, <1>01
      <4>3. \A u \in told : u.code = 200 => u.id # id
        BY <4>2, <2>0
      <4>4. s \notin told
        BY <2>1, <4>1, <4>3
      <4>5. t \notin told
        BY <2>1, <4>1, <4>3
      <4> QED  BY <4>4, <4>5
    <3> QED  BY <3>1, <3>2
  <2> QED  BY <2>1 DEF ToldOnce
<1> QED  BY <1>1, <1>2, <1>3, <1>4, <1>5 DEF ApiInv

\* A request that fails to be read, is refused, or is stored already; or a new one.
LEMMA PostAnswers ==
  ASSUME ApiInv, NEW r \in Request, Api!Post(r)
  PROVE  \E code \in Codes, id \in Nat :
           /\ told' = told \cup {[request |-> r, code |-> code, id |-> id]}
           /\ UNCHANGED table \/ Grown(r)
           /\ Given(r, code, id)
<1> DEFINE m == Api!Handled(r).message
           Told(code, id) == told' = told \cup {[request |-> r, code |-> code, id |-> id]}
<1>0. Api!NoId \in Nat /\ {200, 400, 409, 500, 503} = Codes
  BY DEF Api!NoId, Codes
<1>1. \A code \in Codes, id \in Nat : Told(code, id) <=> told' = told \cup {[request |-> r, code |-> code, id |-> id]}
  OBVIOUS
<1> HIDE DEF Told
<1>2. CASE ~Api!Handled(r).passes
  <2>1. Api!Answer(r, "invalid", Api!NoId) /\ UNCHANGED table
    BY <1>2 DEF Api!Post
  <2>2. Told(400, Api!NoId)
    BY <2>1 DEF Api!Answer, Api!Code, Told
  <2>3. Given(r, 400, Api!NoId)
    BY DEF Given
  <2> QED  BY <1>0, <1>1, <2>1, <2>2, <2>3
<1>3. CASE Api!Handled(r).passes /\ Api!Refusal(r, m) # "none"
  <2>1. Api!Answer(r, Api!Refusal(r, m), Api!NoId) /\ UNCHANGED table
    BY <1>3 DEF Api!Post
  <2>2. Api!Refusal(r, m) \in {"shutting_down", "unavailable", "invalid"}
    <3>1. stopping \in BOOLEAN
      BY DEF ApiInv, ApiTypes
    <3> QED  BY <1>3, <3>1 DEF Api!Refusal
  <2>3. Told(400, Api!NoId) \/ Told(503, Api!NoId)
    BY <2>1, <2>2 DEF Api!Answer, Api!Code, Told
  <2>4. Given(r, 400, Api!NoId) /\ Given(r, 503, Api!NoId)
    BY DEF Given
  <2> QED  BY <1>0, <1>1, <2>1, <2>3, <2>4
<1>4. CASE Api!Handled(r).passes /\ Api!Refusal(r, m) = "none"
  <2>1. Ready(r)
    BY <1>4, ReadyFacts
  <2>2. CASE Api!Taken(r) = {}
    <3>1. Api!Store(r, m) /\ Api!Answer(r, "accepted", Len(table'))
      BY <1>4, <2>2 DEF Api!Post
    <3>2. Grown(r)
      BY <2>1, <2>2, <3>1 DEF Grown, Entry, PrintFor, Api!Store
    <3>3. /\ table \in Seq(ApiRow) /\ Len(table') = Len(table) + 1
          /\ table'[Len(table')] = Entry(r)
          /\ Len(table') \in DOMAIN table' /\ Len(table') \notin DOMAIN table
      BY <3>2, TableGrows DEF ApiInv, ApiTypes
    <3>4. PICK id \in Nat : id = Len(table') /\ id # 0
      BY <3>3
    <3>5. Told(200, id)
      BY <3>1, <3>4 DEF Api!Answer, Api!Code, Told
    <3>6. Given(r, 200, id)
      BY <2>1, <3>3, <3>4 DEF Given, Ready, Api!NoId
    <3> QED  BY <1>0, <1>1, <3>2, <3>5, <3>6
  <2>3. CASE Api!Taken(r) # {}
    <3>1. PICK id \in Api!Taken(r) :
            /\ IF table[id].print = Api!PrintOf(r, m)
               THEN Api!Answer(r, "accepted", id) ELSE Api!Answer(r, "conflict", Api!NoId)
            /\ UNCHANGED table
      BY <1>4, <2>3 DEF Api!Post
    <3>2. /\ id \in DOMAIN table /\ r.key # Api!NoKey
          /\ table[id].channel = r.channel /\ table[id].key = r.key
          /\ Api!SameKey(table[id], r)
      BY <3>1 DEF Api!Taken, Api!SameKey
    <3>3. id \in Nat /\ id # 0
      BY <3>2 DEF ApiInv, ApiTypes
    <3>4. CASE table[id].print = PrintFor(r)
      <4>1. Told(200, id)
        BY <3>1, <3>4 DEF Api!Answer, Api!Code, Told, PrintFor
      <4>2. table[id] = Entry(r)
        <5>1. table[id] \in ApiRow
          BY <3>2 DEF ApiInv, ApiTypes
        <5> QED  BY <5>1, <3>2, <3>4 DEF ApiRow, Entry
      <4>3. Given(r, 200, id)
        BY <2>1, <3>1, <3>2, <3>3, <4>2 DEF Given, Ready, Api!NoId
      <4> QED  BY <1>0, <1>1, <3>1, <3>3, <4>1, <4>3
    <3>5. CASE table[id].print # PrintFor(r)
      <4>1. Told(409, Api!NoId)
        BY <3>1, <3>5 DEF Api!Answer, Api!Code, Told, PrintFor
      <4>2. Given(r, 409, Api!NoId)
        BY <2>1, <3>1, <3>2, <3>5 DEF Given, Ready
      <4> QED  BY <1>0, <1>1, <3>1, <4>1, <4>2
    <3> QED  BY <3>4, <3>5
  <2> QED  BY <2>2, <2>3
<1> QED  BY <1>2, <1>3, <1>4

\* The invariant of the API, step by step.
LEMMA ApiPreserved == ApiInv /\ [Api!Next]_apiVars => ApiInv'
<1> SUFFICES ASSUME ApiInv, [Api!Next]_apiVars PROVE ApiInv'
  OBVIOUS
<1>0. /\ stopping \in BOOLEAN /\ faults \in 0 .. MaxFaults /\ MaxFaults \in Nat
      /\ Api!Cardinality(told) = Cardinality(told)
  BY MessagesAssumption, ApiCounts DEF ApiInv, ApiTypes, Api!HttpApiAssumption
<1>1. ASSUME NEW r \in Request, Cardinality(told) < MaxRequests, Api!Post(r)
      PROVE  ApiInv'
  <2>1. PICK code \in Codes : \E id \in Nat :
          /\ told' = told \cup {[request |-> r, code |-> code, id |-> id]}
          /\ UNCHANGED table \/ Grown(r)
          /\ Given(r, code, id)
    BY <1>1, PostAnswers
  <2>2. PICK id \in Nat :
          /\ told' = told \cup {[request |-> r, code |-> code, id |-> id]}
          /\ UNCHANGED table \/ Grown(r)
          /\ Given(r, code, id)
    BY <2>1
  <2>3. stopping' \in BOOLEAN /\ faults' \in 0 .. MaxFaults
    BY <1>0, <1>1 DEF Api!Post
  <2> QED  BY <1>1, <2>2, <2>3, AnswerGiven
<1>2. ASSUME NEW r \in Request, Cardinality(told) < MaxRequests, Api!PostFails(r)
      PROVE  ApiInv'
  <2>1. /\ told' = told \cup {[request |-> r, code |-> 500, id |-> 0]}
        /\ stopping' \in BOOLEAN
    BY <1>0, <1>2 DEF Api!PostFails, Api!Answer, Api!Code, Api!NoId
  <2>2. faults' \in 0 .. MaxFaults
    BY <1>0, <1>2 DEF Api!PostFails
  <2>3. Ready(r)
    BY <1>2, ReadyFacts DEF Api!PostFails
  <2>4. UNCHANGED table \/ Grown(r)
    BY <1>2, <2>3 DEF Api!PostFails, Api!Store, Grown, Entry, PrintFor
  <2>5. Given(r, 500, 0) /\ 500 \in Codes
    BY DEF Given, Codes, Api!NoId
  <2>6. PICK code \in Codes : code = 500 /\ Given(r, code, 0)
    BY <2>5
  <2>7. PICK id \in Nat :
          /\ told' = told \cup {[request |-> r, code |-> code, id |-> id]}
          /\ Given(r, code, id)
    BY <2>1, <2>6
  <2> QED  BY <1>2, <2>1, <2>2, <2>4, <2>7, AnswerGiven
<1>3. CASE UNCHANGED <<table, told, faults>> /\ stopping' \in BOOLEAN
  <2>1. ApiTypes'
    BY <1>3 DEF ApiInv, ApiTypes
  <2>2. (KeysUnique /\ ToldStored /\ ConflictStored /\ ToldOnce)'
    BY <1>3 DEF ApiInv, KeysUnique, ToldStored, ConflictStored, ToldOnce, Api!SameKey
  <2> QED  BY <2>1, <2>2 DEF ApiInv
<1>4. Api!Stop \/ UNCHANGED apiVars => UNCHANGED <<table, told, faults>> /\ stopping' \in BOOLEAN
  BY <1>0 DEF Api!Stop, apiVars
<1> QED  BY <1>0, <1>1, <1>2, <1>3, <1>4 DEF Api!Next

\* The API at the start, and when it has refused its last requests.
LEMMA ApiFirst == Api!Init \/ ApiOver => ApiInv
<1>1. /\ MaxFaults \in Nat /\ 0 \in 0 .. MaxFaults /\ MaxFaults \in 0 .. MaxFaults
      /\ MaxRequests \in Nat /\ IsFiniteSet(Request)
  BY MessagesAssumption, ApiCounts DEF Api!HttpApiAssumption
<1>2. ASSUME table = <<>>, \A t \in told : t.code = 503, ApiTypes PROVE ApiInv
  <2>1. DOMAIN table = {} /\ \A t \in told : t.code # 200 /\ t.code # 409
    BY <1>2
  <2> QED  BY <1>2, <2>1 DEF ApiInv, KeysUnique, ToldStored, ConflictStored, ToldOnce
<1>3. CASE Api!Init
  <2>1. IsFiniteSet({}) /\ Cardinality({}) = 0
    BY FS_EmptySet
  <2>2. table = <<>> /\ told = {} /\ stopping = FALSE /\ faults = MaxFaults
    BY <1>3 DEF Api!Init
  <2>3. Cardinality(told) <= MaxRequests /\ IsFiniteSet(told)
    BY <1>1, <2>1, <2>2
  <2>4. table \in Seq(ApiRow) /\ stopping \in BOOLEAN /\ faults \in 0 .. MaxFaults
    <3>1. table \in Seq(ApiRow)
      BY <2>2
    <3>2. stopping \in BOOLEAN
      BY <2>2
    <3>3. faults \in 0 .. MaxFaults
      BY <1>1, <2>2
    <3> QED  BY <3>1, <3>2, <3>3
  <2>5. told \subseteq ApiAnswer /\ \A t \in told : t.code = 200 <=> t.id # Api!NoId
    BY <2>2
  <2>6. ApiTypes
    BY <2>3, <2>4, <2>5 DEF ApiTypes
  <2>7. \A t \in told : t.code = 503
    BY <2>2
  <2> QED  BY <1>2, <2>2, <2>6, <2>7
<1>4. CASE ApiOver
  <2> DEFINE some == CHOOSE some \in kSubset(MaxRequests, Readable) : TRUE
             told503 == [r \in some |-> [request |-> r, code |-> 503, id |-> Api!NoId]]
  <2>1. some \in kSubset(MaxRequests, Readable)
    BY MessagesAssumption
  <2>2. /\ table = <<>> /\ stopping = TRUE /\ faults = 0
        /\ told = {[request |-> r, code |-> 503, id |-> Api!NoId] : r \in some}
    BY <1>4 DEF ApiOver
  <2>3. some \subseteq Readable /\ Cardinality(some) = MaxRequests
    BY <2>1 DEF kSubset
  <2> HIDE DEF some
  <2>4. some \subseteq Request
    BY <2>3 DEF Readable
  <2>5. IsFiniteSet(some)
    BY <1>1, <2>4, FS_Subset
  <2>6. told503 \in Surjection(some, told)
    BY <2>2 DEF Surjection
  <2> HIDE DEF told503
  <2>7. IsFiniteSet(told) /\ Cardinality(told) <= MaxRequests
    BY <2>3, <2>5, <2>6, FS_Surjection
  <2>8. \A t \in told : t \in ApiAnswer /\ t.code = 503 /\ t.id = Api!NoId
    BY <2>2, <2>4 DEF ApiAnswer, Codes, Api!NoId
  <2>9. ApiTypes
    BY <1>1, <2>2, <2>7, <2>8 DEF ApiTypes
  <2> QED  BY <1>2, <2>2, <2>8, <2>9
<1> QED  BY <1>3, <1>4

\* The API keeps its invariant, whichever of the models is alive.
LEMMA ApiInvariance == MessagesSpec => []ApiInv
<1>1. MessagesInit => ApiInv
  BY ApiFirst DEF MessagesInit
<1>2. ApiInv /\ [MessagesNext]_<<vars, apiVars, upgradeVars, attemptVars>> => ApiInv'
  <2>1. [MessagesNext]_<<vars, apiVars, upgradeVars, attemptVars>> => [Api!Next]_apiVars
    BY DEF MessagesNext
  <2> QED  BY <2>1, ApiPreserved
<1> QED  BY <1>1, <1>2, PTL DEF MessagesSpec

\* A set of natural numbers has a least element: of the intervals from 0 to its
\* members one has no other within it.
LEMMA Least ==
  ASSUME NEW T \in SUBSET Nat, T # {}
  PROVE  \E x \in T : \A y \in T : x <= y
<1>1. PICK t \in T : TRUE
  OBVIOUS
<1> DEFINE S == 0 .. t
           F == {0 .. x : x \in T \cap (0 .. t)}
<1>2. IsWellFoundedOn(StrictSubsetOrdering(S), SUBSET S)
  <2>1. IsFiniteSet(S)
    BY <1>1, FS_Interval
  <2> HIDE DEF S
  <2> QED  BY <2>1, FS_StrictSubsetOrderingWellFounded, FS_FiniteSubsetsOfFinite
<1>3. F \subseteq SUBSET S /\ F # {}
  BY <1>1
<1>4. PICK A \in F : \A B \in F : <<B, A>> \notin StrictSubsetOrdering(S)
  <2> HIDE DEF F, S
  <2> QED  BY <1>2, <1>3, WFMin
<1>5. PICK x \in T \cap (0 .. t) : A = 0 .. x
  OBVIOUS
<1>6. ASSUME NEW y \in T, ~(x <= y) PROVE FALSE
  <2>1. y \in 0 .. t /\ 0 .. y \in F
    BY <1>6, <1>5
  <2>2. x \in A /\ x \notin 0 .. y /\ 0 .. y \subseteq A
    BY <1>6, <1>5
  <2>3. <<0 .. y, A>> \in StrictSubsetOrdering(S)
    BY <2>1, <2>2, <1>3, <1>4 DEF StrictSubsetOrdering
  <2> QED  BY <2>1, <2>3, <1>4
<1> QED  BY <1>5, <1>6

Increasing(f, n) == \A i, j \in 1 .. n : i < j => f[i] < f[j]
Enumerates(f, n, I) ==
  f \in [1 .. n -> I] /\ Increasing(f, n) /\ \A k \in I : \E i \in 1 .. n : f[i] = k

\* Positions can be enumerated in their order: the least one first, then the others.
LEMMA Enumerated ==
  ASSUME NEW I \in SUBSET Nat, IsFiniteSet(I)
  PROVE  \E f \in [1 .. Cardinality(I) -> I] : Increasing(f, Cardinality(I))
<1> DEFINE Bad(J) == /\ IsFiniteSet(J)
                     /\ ~\E f \in [1 .. Cardinality(J) -> J] : Increasing(f, Cardinality(J))
           T == {n \in Nat : \E J \in SUBSET Nat : Bad(J) /\ Cardinality(J) = n}
<1> SUFFICES ASSUME T # {} PROVE FALSE
  <2>1. Cardinality(I) \in Nat
    BY FS_CardinalityType
  <2> QED  BY <2>1
<1>1. PICK n \in T : \A m \in T : n <= m
  <2> HIDE DEF T
  <2>1. T \in SUBSET Nat
    BY DEF T
  <2> QED  BY <2>1, Least
<1>2. PICK J \in SUBSET Nat : Bad(J) /\ Cardinality(J) = n
  OBVIOUS
<1>3. J # {}
  <2> SUFFICES ASSUME J = {} PROVE FALSE
    OBVIOUS
  <2>1. n = 0
    BY <1>2, FS_EmptySet
  <2> DEFINE f == [i \in 1 .. 0 |-> 0]
  <2>2. f \in [1 .. 0 -> J] /\ Increasing(f, 0)
    BY DEF Increasing
  <2> QED  BY <1>2, <2>1, <2>2
<1>4. PICK x \in J : \A y \in J : x <= y
  BY <1>3, Least
<1> DEFINE K == J \ {x}
<1>5. IsFiniteSet(K) /\ Cardinality(K) = n - 1 /\ n - 1 \in Nat
  <2>1. IsFiniteSet(K) /\ Cardinality(K) = n - 1
    BY <1>2, <1>4, FS_RemoveElement
  <2>2. Cardinality(K) \in Nat
    BY <2>1, FS_CardinalityType
  <2> QED  BY <2>1, <2>2
<1>6. PICK g \in [1 .. n - 1 -> K] : Increasing(g, n - 1)
  <2>1. n - 1 \notin T
    BY <1>1, <1>5
  <2>2. ~Bad(K)
    BY <2>1, <1>5
  <2> QED  BY <2>2, <1>5
<1> DEFINE f == [i \in 1 .. n |-> IF i = 1 THEN x ELSE g[i - 1]]
<1>7. n \in Nat
  OBVIOUS
<1>8. f \in [1 .. n -> J]
  <2> SUFFICES ASSUME NEW i \in 1 .. n, i # 1 PROVE g[i - 1] \in J
    BY <1>4
  <2>1. i - 1 \in 1 .. n - 1
    BY <1>7
  <2> QED  BY <2>1, <1>6
<1>9. Increasing(f, n)
  <2> SUFFICES ASSUME NEW i \in 1 .. n, NEW j \in 1 .. n, i < j
               PROVE  f[i] < f[j]
    BY DEF Increasing
  <2>1. j - 1 \in 1 .. n - 1 /\ j # 1 /\ f[j] = g[j - 1]
    BY <1>7
  <2>2. CASE i = 1
    <3>1. g[j - 1] \in J /\ g[j - 1] # x
      BY <2>1, <1>6
    <3>2. x < g[j - 1]
      <4>1. x \in Nat /\ g[j - 1] \in Nat /\ x <= g[j - 1]
        BY <3>1, <1>4
      <4> QED  BY <3>1, <4>1
    <3>3. f[i] = x
      BY <2>2
    <3> QED  BY <2>1, <3>2, <3>3
  <2>3. CASE i # 1
    <3>1. i - 1 \in 1 .. n - 1 /\ i - 1 < j - 1 /\ f[i] = g[i - 1]
      BY <2>3, <1>7
    <3> QED  BY <2>1, <3>1, <1>6 DEF Increasing
  <2> QED  BY <2>2, <2>3
<1> QED  BY <1>2, <1>8, <1>9

\* What Picked takes: the elements at the positions, all of them and in their order.
LEMMA PickedFacts ==
  ASSUME NEW s, NEW I \in SUBSET Nat, IsFiniteSet(I)
  PROVE  /\ Cardinality(I) \in Nat
         /\ \E f : /\ Enumerates(f, Cardinality(I), I)
                   /\ Api!Picked(s, I) = [i \in 1 .. Cardinality(I) |-> s[f[i]]]
<1> DEFINE n == Cardinality(I)
           f == CHOOSE f \in [1 .. n -> I] : \A i, j \in 1 .. n : i < j => f[i] < f[j]
<1>1. n \in Nat
  BY FS_CardinalityType
<1>2. Api!Picked(s, I) = [i \in 1 .. n |-> s[f[i]]]
  <2>1. Api!Cardinality(I) = n
    BY ApiCounts
  <2> QED  BY <2>1 DEF Api!Picked
<1>3. \E h \in [1 .. n -> I] : \A i, j \in 1 .. n : i < j => h[i] < h[j]
  BY Enumerated DEF Increasing
<1>4. f \in [1 .. n -> I] /\ \A i, j \in 1 .. n : i < j => f[i] < f[j]
  BY <1>3
<1> HIDE DEF f, n
<1>5. f \in Injection(1 .. n, I)
  <2>1. \A i, j \in 1 .. n : i < j \/ j < i \/ i = j
    BY <1>1
  <2>2. ASSUME NEW i \in 1 .. n, NEW j \in 1 .. n, f[i] = f[j] PROVE i = j
    <3>1. f[i] \in Nat /\ f[j] \in Nat
      BY <1>4
    <3>2. ~(i < j) /\ ~(j < i)
      BY <1>4, <3>1, <2>2
    <3> QED  BY <2>1, <3>2
  <2> QED  BY <1>4, <2>2 DEF Injection, IsInjective
<1>6. f \in Surjection(1 .. n, I)
  <2>1. Cardinality(1 .. n) = Cardinality(I)
    BY <1>1, FS_Interval DEF n
  <2> QED  BY <1>5, <2>1, FS_Injection
<1>7. \A k \in I : \E i \in 1 .. n : f[i] = k
  BY <1>6 DEF Surjection
<1>8. Enumerates(f, n, I)
  BY <1>4, <1>7 DEF Enumerates, Increasing
<1> QED  BY <1>1, <1>2, <1>8 DEF n

\* The sequences, by their lengths.
OfLength(s, m) == m \in Nat /\ s = [i \in 1 .. m |-> s[i]]

\* All the elements of a sequence, in their order, are the sequence.
LEMMA PickedAll ==
  ASSUME NEW s, NEW m, OfLength(s, m)
  PROVE  Api!Picked(s, 1 .. m) = s
<1>1. m \in Nat /\ s = [i \in 1 .. m |-> s[i]]
  BY DEF OfLength
<1>2. IsFiniteSet(1 .. m) /\ Cardinality(1 .. m) = m /\ 1 .. m \in SUBSET Nat
  BY <1>1, FS_Interval
<1>3. PICK f : Enumerates(f, m, 1 .. m) /\ Api!Picked(s, 1 .. m) = [i \in 1 .. m |-> s[f[i]]]
  <2> DEFINE I == 1 .. m
  <2>1. I \in SUBSET Nat /\ IsFiniteSet(I) /\ Cardinality(I) = m
    BY <1>2
  <2> HIDE DEF I
  <2>2. \E f : /\ Enumerates(f, Cardinality(I), I)
              /\ Api!Picked(s, I) = [i \in 1 .. Cardinality(I) |-> s[f[i]]]
    BY <2>1, PickedFacts
  <2>3. PICK f : /\ Enumerates(f, Cardinality(I), I)
                /\ Api!Picked(s, I) = [i \in 1 .. Cardinality(I) |-> s[f[i]]]
    BY <2>2
  <2>4. Enumerates(f, m, I) /\ Api!Picked(s, I) = [i \in 1 .. m |-> s[f[i]]]
    BY <2>1, <2>3
  <2> QED  BY <2>4 DEF I
<1>4. /\ f \in [1 .. m -> 1 .. m] /\ \A i, j \in 1 .. m : i < j => f[i] < f[j]
      /\ \A k \in 1 .. m : \E i \in 1 .. m : f[i] = k
  BY <1>3 DEF Enumerates, Increasing
<1>5. \A i \in 1 .. m : f[i] = i
  <2> DEFINE T == {i \in 1 .. m : f[i] # i}
  <2> SUFFICES ASSUME T # {} PROVE FALSE
    OBVIOUS
  <2>1. PICK i \in T : \A k \in T : i <= k
    <3>1. T \in SUBSET Nat
      BY <1>1
    <3> HIDE DEF T
    <3> QED  BY <3>1, Least
  <2>2. i \in 1 .. m /\ f[i] # i /\ f[i] \in 1 .. m
    BY <1>4
  <2>3. \A k \in 1 .. m : k < i => f[k] = k
    BY <1>1, <2>1
  <2>4. CASE f[i] < i
    <3>1. f[f[i]] < f[i]
      BY <2>2, <2>4, <1>4
    <3>2. f[f[i]] = f[i]
      BY <2>2, <2>3, <2>4
    <3> QED  BY <2>2, <3>1, <3>2
  <2>5. CASE i < f[i]
    <3>1. PICK k \in 1 .. m : f[k] = i
      BY <2>2, <1>4
    <3>2. CASE k < i
      BY <3>1, <3>2, <2>3, <2>2
    <3>3. CASE i < k
      <4>1. f[i] < f[k]
        BY <3>3, <2>2, <1>4
      <4> QED  BY <4>1, <3>1, <2>2, <2>5
    <3>4. CASE k = i
      BY <3>4, <3>1, <2>2
    <3> QED  BY <3>2, <3>3, <3>4, <2>2
  <2> QED  BY <2>2, <2>4, <2>5
<1> QED  BY <1>1, <1>3, <1>5

NoneEmpty(s, m) == \A i \in 1 .. m : s[i] # Api!NoText
NoNeighbours(s, m) == \A i \in 2 .. m : s[i] # s[i - 1]

\* The recipients that are not empty.
LEMMA NotEmptyFacts ==
  ASSUME NEW s, NEW m, OfLength(s, m)
  PROVE  /\ \E n : OfLength(Api!NotEmpty(s), n) /\ NoneEmpty(Api!NotEmpty(s), n)
         /\ NoneEmpty(s, m) => Api!NotEmpty(s) = s
<1> DEFINE I == {i \in 1 .. m : s[i] # Api!NoText}
<1>1. m \in Nat /\ DOMAIN s = 1 .. m
  BY DEF OfLength
<1>2. Api!NotEmpty(s) = Api!Picked(s, I)
  BY <1>1 DEF Api!NotEmpty
<1>3. I \in SUBSET Nat /\ IsFiniteSet(I)
  <2>1. IsFiniteSet(1 .. m)
    BY <1>1, FS_Interval
  <2> QED  BY <1>1, <2>1, FS_Subset
<1>4. \E n : OfLength(Api!NotEmpty(s), n) /\ NoneEmpty(Api!NotEmpty(s), n)
  <2>1. PICK n \in Nat : \E f : Enumerates(f, n, I) /\ Api!Picked(s, I) = [i \in 1 .. n |-> s[f[i]]]
    <3> HIDE DEF I
    <3> QED  BY <1>3, PickedFacts
  <2>2. PICK f : Enumerates(f, n, I) /\ Api!Picked(s, I) = [i \in 1 .. n |-> s[f[i]]]
    BY <2>1
  <2>3. \A i \in 1 .. n : f[i] \in I
    BY <2>2 DEF Enumerates
  <2>4. NoneEmpty(Api!NotEmpty(s), n)
    BY <2>2, <2>3, <1>2 DEF NoneEmpty
  <2> QED  BY <2>2, <2>4, <1>2 DEF OfLength
<1>5. ASSUME NoneEmpty(s, m) PROVE Api!NotEmpty(s) = s
  <2>1. I = 1 .. m
    BY <1>5 DEF NoneEmpty
  <2> QED  BY <1>2, <2>1, PickedAll
<1> QED  BY <1>4, <1>5

\* One of equal neighbours.
LEMMA CompactedFacts ==
  ASSUME NEW s, NEW m, OfLength(s, m)
  PROVE  /\ \E n : /\ OfLength(Api!Compacted(s), n) /\ NoNeighbours(Api!Compacted(s), n)
                   /\ NoneEmpty(s, m) => NoneEmpty(Api!Compacted(s), n)
         /\ NoNeighbours(s, m) => Api!Compacted(s) = s
<1> DEFINE I == {i \in 1 .. m : i = 1 \/ s[i] # s[i - 1]}
<1>1. m \in Nat /\ DOMAIN s = 1 .. m
  BY DEF OfLength
<1>2. Api!Compacted(s) = Api!Picked(s, I)
  BY <1>1 DEF Api!Compacted
<1>3. I \in SUBSET Nat /\ IsFiniteSet(I)
  <2>1. IsFiniteSet(1 .. m)
    BY <1>1, FS_Interval
  <2> QED  BY <1>1, <2>1, FS_Subset
<1>4. PICK n \in Nat : \E f : Enumerates(f, n, I) /\ Api!Picked(s, I) = [i \in 1 .. n |-> s[f[i]]]
  <2> HIDE DEF I
  <2> QED  BY <1>3, PickedFacts
<1>5. PICK f : Enumerates(f, n, I) /\ Api!Picked(s, I) = [i \in 1 .. n |-> s[f[i]]]
  BY <1>4
<1>6. /\ f \in [1 .. n -> I] /\ \A i, j \in 1 .. n : i < j => f[i] < f[j]
      /\ \A k \in I : \E i \in 1 .. n : f[i] = k
  BY <1>5 DEF Enumerates, Increasing
<1>7. ASSUME NEW i \in 2 .. n PROVE s[f[i]] # s[f[i - 1]]
  <2>1. i \in 1 .. n /\ i - 1 \in 1 .. n /\ i - 1 < i
    BY <1>7
  <2>2. PICK a \in 1 .. m : a = f[i - 1]
    BY <2>1, <1>6
  <2>3. PICK b \in 1 .. m : b = f[i] /\ b \in I
    BY <2>1, <1>6
  <2>4. a < b
    BY <2>1, <2>2, <2>3, <1>6
  <2>5. ASSUME NEW c \in 1 .. m, a < c, c < b PROVE s[c] = s[c - 1]
    <3> SUFFICES ASSUME c \in I PROVE FALSE
      BY <2>5
    <3>1. PICK k \in 1 .. n : f[k] = c
      BY <1>6
    <3>2. CASE k < i - 1
      <4>1. f[k] < f[i - 1]
        BY <3>2, <2>1, <1>6
      <4> QED  BY <4>1, <3>1, <2>2, <2>5
    <3>3. CASE k = i - 1
      BY <3>3, <3>1, <2>2, <2>5
    <3>4. CASE k = i
      BY <3>4, <3>1, <2>3, <2>5
    <3>5. CASE i < k
      <4>1. f[i] < f[k]
        BY <3>5, <2>1, <1>6
      <4> QED  BY <4>1, <3>1, <2>3, <2>5
    <3> QED  BY <3>2, <3>3, <3>4, <3>5
  <2>6. s[b - 1] = s[a]
    <3> DEFINE T == {c \in 1 .. m : a <= c /\ c < b /\ s[c] # s[a]}
    <3> SUFFICES ASSUME T # {} PROVE FALSE
      <4>1. b - 1 \in 1 .. m /\ a <= b - 1 /\ b - 1 < b
        BY <2>4, <1>1
      <4> QED  BY <4>1
    <3>1. PICK c \in T : \A d \in T : c <= d
      <4>1. T \in SUBSET Nat
        BY <1>1
      <4> HIDE DEF T
      <4> QED  BY <4>1, Least
    <3>2. c \in 1 .. m /\ a < c /\ c < b /\ s[c] # s[a]
      OBVIOUS
    <3>3. s[c] = s[c - 1]
      BY <3>2, <2>5
    <3>4. c - 1 \in 1 .. m /\ a <= c - 1 /\ c - 1 < b /\ ~(c <= c - 1)
      BY <3>2, <1>1
    <3>5. s[c - 1] = s[a]
      BY <3>1, <3>4
    <3> QED  BY <3>2, <3>3, <3>5
  <2>7. b # 1
    BY <2>4
  <2> QED  BY <2>2, <2>3, <2>6, <2>7
<1>8. OfLength(Api!Compacted(s), n) /\ NoNeighbours(Api!Compacted(s), n)
  <2>1. ASSUME NEW i \in 2 .. n
        PROVE  Api!Compacted(s)[i] = s[f[i]] /\ Api!Compacted(s)[i - 1] = s[f[i - 1]]
    <3>1. i \in 1 .. n /\ i - 1 \in 1 .. n
      OBVIOUS
    <3> QED  BY <3>1, <1>2, <1>5
  <2>2. NoNeighbours(Api!Compacted(s), n)
    BY <2>1, <1>7 DEF NoNeighbours
  <2> QED  BY <2>2, <1>2, <1>5 DEF OfLength
<1>9. NoneEmpty(s, m) => NoneEmpty(Api!Compacted(s), n)
  <2>1. \A i \in 1 .. n : f[i] \in 1 .. m
    BY <1>6
  <2> QED  BY <2>1, <1>2, <1>5 DEF NoneEmpty
<1>10. ASSUME NoNeighbours(s, m) PROVE Api!Compacted(s) = s
  <2>1. \A i \in 1 .. m : i = 1 \/ i \in 2 .. m
    BY <1>1
  <2>2. I = 1 .. m
    BY <1>10, <2>1 DEF NoNeighbours
  <2> QED  BY <1>2, <2>2, PickedAll
<1> QED  BY <1>8, <1>9, <1>10

\* Recipients that were tidied stay as they are.
LEMMA TidyStays ==
  ASSUME NEW s \in Seq(STRING)
  PROVE  Api!Recipients(Api!Recipients(s)) = Api!Recipients(s)
<1>1. OfLength(s, Len(s))
  BY DEF OfLength
<1>2. PICK n : OfLength(Api!NotEmpty(s), n) /\ NoneEmpty(Api!NotEmpty(s), n)
  BY <1>1, NotEmptyFacts
<1>3. PICK k : /\ OfLength(Api!Recipients(s), k) /\ NoNeighbours(Api!Recipients(s), k)
               /\ NoneEmpty(Api!Recipients(s), k)
  BY <1>2, CompactedFacts DEF Api!Recipients
<1>4. Api!NotEmpty(Api!Recipients(s)) = Api!Recipients(s)
  BY <1>3, NotEmptyFacts
<1>5. Api!Compacted(Api!Recipients(s)) = Api!Recipients(s)
  BY <1>3, CompactedFacts
<1> QED  BY <1>4, <1>5 DEF Api!Recipients

\* The message of a request that gets to Send has its channel's form.
LEMMA NormalStays ==
  ASSUME NEW r \in Request, Good(r)
  PROVE  LET m == Api!Normal(r.channel, Api!Handled(r).message)
         IN  Api!Valid(r.channel, m) /\ Api!Normal(r.channel, m) = m
<1> DEFINE m == Api!Handled(r).message
           t == Api!Normal(r.channel, m)
<1>1. Api!Valid(r.channel, m)
  BY DEF Good
<1>2. CASE r.channel = "sms"
  <2>1. m = r.message
    BY <1>2 DEF Good, Api!Handled, Api!sendSMS, Api!Passes, Api!Stops
  <2>2. m \in [to : Seq(STRING), text : BOOLEAN]
    BY <1>2, <2>1, RequestFacts DEF Api!IsMessage
  <2>3. t = [to |-> Api!Recipients(m.to), text |-> m.text]
    BY <1>2, <2>2 DEF Api!Normal
  <2>4. Api!Recipients(t.to) = t.to
    BY <2>2, <2>3, TidyStays
  <2>5. Api!Normal(r.channel, t) = t
    BY <1>2, <2>3, <2>4 DEF Api!Normal
  <2>6. Api!Valid(r.channel, t)
    BY <1>1, <1>2, <2>3, <2>4 DEF Api!Valid, Api!ValidSMS
  <2> QED  BY <2>5, <2>6
<1>3. CASE r.channel = "http"
  <2>1. m = r.message
    BY <1>3 DEF Good, Api!Handled, Api!sendHTTP, Api!Passes, Api!Stops
  <2>2. m \in [url : STRING, method : STRING, headers : BOOLEAN]
    BY <1>3, <2>1, RequestFacts DEF Api!IsMessage
  <2>3. t = [url |-> "url", method |-> Api!EffectiveMethod(m.method), headers |-> m.headers]
    BY <1>3, <2>2 DEF Api!Normal
  <2>4. Api!EffectiveMethod(t.method) = t.method
    <3>1. \A method : Api!EffectiveMethod(Api!EffectiveMethod(method)) = Api!EffectiveMethod(method)
      BY DEF Api!EffectiveMethod
    <3> QED  BY <2>3, <3>1
  <2>5. Api!Normal(r.channel, t) = t
    BY <1>3, <2>3, <2>4 DEF Api!Normal
  <2>6. Api!Valid(r.channel, t)
    <3>1. m.headers
      BY <1>1, <1>3 DEF Api!Valid, Api!ValidHTTP
    <3>2. Api!ValidHTTP(t)
      BY <2>3, <3>1 DEF Api!ValidHTTP
    <3> QED  BY <1>3, <3>2 DEF Api!Valid
  <2> QED  BY <2>5, <2>6
<1>4. CASE r.channel \notin {"sms", "http"}
  <2>1. t = m
    BY <1>4 DEF Api!Normal
  <2> QED  BY <1>1, <2>1
<1> QED  BY <1>2, <1>3, <1>4

\* The fingerprints of two valid requests of a channel are equal exactly when the
\* requests say the same.
LEMMA PrintsTell ==
  ASSUME NEW r \in Request, NEW q \in Request, r.channel = q.channel, Good(r), Good(q)
  PROVE  PrintFor(r) = PrintFor(q) <=> Api!SameMeaning(r, q)
<1> DEFINE m == Api!Handled(r).message
           n == Api!Handled(q).message
<1>1. PrintFor(r) = PrintFor(q) <=>
        /\ Api!Normal(r.channel, m) = Api!Normal(q.channel, n)
        /\ Api!Retries(r.maxRetries) = Api!Retries(q.maxRetries) /\ r.sendAt = q.sendAt
  BY DEF PrintFor, Api!PrintOf
<1>2. Api!Retries(r.maxRetries) = Api!Retries(q.maxRetries)
        <=> r.maxRetries = q.maxRetries \/ (r.maxRetries < 0 /\ q.maxRetries < 0)
  BY RequestFacts DEF Api!Retries
<1>3. CASE r.channel = "sms"
  <2>1. m = r.message /\ n = q.message
    BY <1>3 DEF Good, Api!Handled, Api!sendSMS, Api!Passes, Api!Stops
  <2>2. m \in [to : Seq(STRING), text : BOOLEAN] /\ n \in [to : Seq(STRING), text : BOOLEAN]
    BY <1>3, <2>1, RequestFacts DEF Api!IsMessage
  <2>3. Api!Normal("sms", m) = Api!Normal("sms", n)
          <=> m.text = n.text /\ Api!Recipients(m.to) = Api!Recipients(n.to)
    BY <2>2 DEF Api!Normal
  <2> QED  BY <1>1, <1>2, <1>3, <2>3 DEF Api!SameMeaning
<1>4. CASE r.channel = "http"
  <2>1. m = r.message /\ n = q.message
    BY <1>4 DEF Good, Api!Handled, Api!sendHTTP, Api!Passes, Api!Stops
  <2>2. /\ m \in [url : STRING, method : STRING, headers : BOOLEAN]
        /\ n \in [url : STRING, method : STRING, headers : BOOLEAN]
    BY <1>4, <2>1, RequestFacts DEF Api!IsMessage
  <2>3. Api!Normal("http", m) = Api!Normal("http", n)
          <=> /\ m.headers = n.headers
              /\ Api!EffectiveMethod(m.method) = Api!EffectiveMethod(n.method)
    BY <2>2 DEF Api!Normal
  <2> QED  BY <1>1, <1>2, <1>4, <2>3 DEF Api!SameMeaning
<1>5. CASE r.channel \notin {"sms", "http"}
  <2>1. Api!Normal(r.channel, m) = m /\ Api!Normal(q.channel, n) = n
    BY <1>5 DEF Api!Normal
  <2> QED  BY <1>1, <1>2, <1>5, <2>1 DEF Api!SameMeaning
<1> QED  BY <1>3, <1>4, <1>5

\* A repetition gets the id it had however it is spelled, and only a different request a
\* conflict; an id is of one message, and known on every route from when it is told
\* (fingerprint, Create, Status).
THEOREM AnswersAreRight == MessagesSpec => []AnswersAgree
<1>1. ASSUME ApiInv PROVE Api!RepetitionsAgree
  <2> SUFFICES ASSUME NEW s \in told, NEW t \in told,
                      s.request.channel = t.request.channel, s.request.key = t.request.key,
                      s.request.key = "key", s.code = 200, t.code \in {200, 409}
               PROVE  t.code = 200 /\ t.id = s.id <=> Api!SameMeaning(s.request, t.request)
    BY DEF Api!RepetitionsAgree
  <2> DEFINE r == s.request
             q == t.request
  <2>0. /\ KeysUnique /\ ToldStored /\ ConflictStored
        /\ r \in Request /\ q \in Request /\ r.key # Api!NoKey
    <3>1. "key" # Api!NoKey
      BY Zenon DEF Api!NoKey
    <3> QED  BY <1>1, <3>1 DEF ApiInv, ApiTypes, ApiAnswer
  <2>1. /\ s.id \in DOMAIN table /\ Good(r)
        /\ table[s.id].channel = r.channel /\ table[s.id].key = r.key
        /\ table[s.id].print = PrintFor(r)
    BY <2>0 DEF ToldStored
  <2>2. CASE t.code = 200
    <3>1. /\ t.id \in DOMAIN table /\ Good(q)
          /\ table[t.id].channel = q.channel /\ table[t.id].key = q.key
          /\ table[t.id].print = PrintFor(q)
      BY <2>0, <2>2 DEF ToldStored
    <3>2. t.id = s.id
      BY <2>0, <2>1, <3>1 DEF KeysUnique
    <3>3. Api!SameMeaning(r, q)
      BY <2>0, <2>1, <3>1, <3>2, PrintsTell
    <3> QED  BY <2>2, <3>2, <3>3
  <2>3. CASE t.code = 409
    <3>1. Good(q)
      BY <2>0, <2>3 DEF ConflictStored
    <3>2. PICK i \in DOMAIN table : Api!SameKey(table[i], q) /\ table[i].print # PrintFor(q)
      BY <2>0, <2>3 DEF ConflictStored
    <3>3. i = s.id
      BY <2>0, <2>1, <3>2 DEF KeysUnique, Api!SameKey
    <3>4. ~Api!SameMeaning(r, q)
      BY <2>0, <2>1, <3>1, <3>2, <3>3, PrintsTell
    <3> QED  BY <2>3, <3>4
  <2> QED  BY <2>2, <2>3
<1>2. ASSUME ApiInv PROVE Api!IdsAreApart
  <2> SUFFICES ASSUME NEW s \in told, NEW t \in told,
                      s.code = 200, t.code = 200, s.id = t.id
               PROVE  /\ s.request.channel = t.request.channel
                      /\ s.request = t.request \/ s.request.key = "key"
    BY DEF Api!IdsAreApart
  <2>1. /\ s.id \in DOMAIN table /\ table[s.id].channel = s.request.channel
        /\ table[s.id].channel = t.request.channel /\ table[s.id].key = s.request.key
    BY <1>2 DEF ApiInv, ToldStored
  <2>2. table[s.id].key \in {Api!NoKey, "key"}
    <3>1. table \in Seq(ApiRow)
      BY <1>2 DEF ApiInv, ApiTypes
    <3>2. table[s.id] \in ApiRow
      BY <2>1, <3>1
    <3> QED  BY <3>2, ApiRowFacts
  <2>3. table[s.id].key = Api!NoKey => s.request = t.request
    BY <1>2 DEF ApiInv, ToldOnce
  <2> QED  BY <2>1, <2>2, <2>3
<1>3. ASSUME ApiInv PROVE Api!IdsStayKnown
  <2>1. /\ \A t \in told : t.code = 200 => t.id \in DOMAIN table
        /\ \A id \in DOMAIN table : id # 0
        /\ 0 \notin DOMAIN table /\ Len(table) + 1 \notin DOMAIN table
    BY <1>3 DEF ApiInv, ApiTypes, ToldStored
  <2>2. ASSUME NEW route \in Api!Channel, NEW id, id \in DOMAIN table
        PROVE  Api!StatusCode(route, id) = 200
    BY <2>1, <2>2 DEF Api!Channel, Api!StatusCode, Api!statusSMS, Api!statusEmail,
         Api!statusMattermost, Api!StatusBale, Api!statusHTTP, Api!StatusWithId,
         Api!StatusOf, Api!Found, Api!NoId
  <2>3. ASSUME NEW route \in Api!Channel, NEW id, id \notin DOMAIN table
        PROVE  Api!StatusCode(route, id) # 200
    BY <2>3 DEF Api!Channel, Api!StatusCode, Api!statusSMS, Api!statusEmail,
         Api!statusMattermost, Api!StatusBale, Api!statusHTTP, Api!StatusWithId,
         Api!StatusOf, Api!Found, Api!NoId
  <2> QED  BY <2>1, <2>2, <2>3 DEF Api!IdsStayKnown, Api!NoId
<1>4. ApiInv => AnswersAgree
  BY <1>1, <1>2, <1>3 DEF AnswersAgree
<1> QED  BY <1>4, ApiInvariance, PTL

\* That, and what is stored is its own normal form, whatever the recipients of an SMS
\* and the method and the URL of a request were: its sender finds nothing to refuse, and
\* tidying it again changes nothing (accept, SMSMessage.Validate, EffectiveMethod).
THEOREM RequestsAreRight == MessagesSpec => []RequestsAgree
<1>1. ASSUME ApiInv PROVE Api!SenderAgrees
  <2> SUFFICES ASSUME NEW id \in DOMAIN table
               PROVE  /\ Api!Valid(table[id].channel, table[id].print.message)
                      /\ Api!Normal(table[id].channel, table[id].print.message)
                           = table[id].print.message
    BY DEF Api!SenderAgrees
  <2>1. table[id] \in ApiRow
    BY <1>1 DEF ApiInv, ApiTypes
  <2>2. PICK r \in Request : Ready(r) /\ table[id] = Entry(r)
    BY <2>1, ApiRowFacts
  <2>3. /\ table[id].channel = r.channel
        /\ table[id].print.message = Api!Normal(r.channel, Api!Handled(r).message)
    BY <2>2 DEF Entry, PrintFor, Api!PrintOf
  <2>4. Good(r)
    BY <2>2 DEF Ready
  <2> QED  BY <2>3, <2>4, NormalStays
<1>2. ApiInv => Api!SenderAgrees
  BY <1>1
<1> QED  BY <1>2, ApiInvariance, AnswersAreRight, PTL DEF RequestsAgree

-----------------------------------------------------------------------------
(* The types: what the bounds on attempts bound. *)

\* Attempts that are over.
AttemptsEnded == IF running THEN tries - 1 ELSE tries

ProviderBounds ==
  /\ \A r \in Receptor : takenFor[r] <= AttemptsEnded
  /\ unknown <= AttemptsEnded
  /\ uploads <= IF step = 1 THEN tries ELSE AttemptsEnded

\* Sessions whose message the server has had the chance to take.
SessionsTold == IF command \in {"idle", "quit"} THEN sessions ELSE sessions - 1

MailBounds ==
  /\ sessions \in 0 .. MaxTries /\ verdict \in {"none", "sent", "failed", "canceled", "deadline"}
  /\ deadline \in BOOLEAN /\ ctx \in {"none", "canceled", "deadline"}
  /\ shown \in BOOLEAN /\ cutShort \in BOOLEAN
  /\ command # "idle" => sessions > 0
  /\ \A r \in Mail!Recipient : delivered[r] <= SessionsTold
  /\ lost <= SessionsTold

\* How often the server may still take the message in this attempt: once, and once more
\* when the connection was kept from an earlier one.
StillTaken ==
  IF pc \in {"lookup", "dial", "request"} THEN IF reused THEN 2 ELSE 1 ELSE 0

HookBounds ==
  /\ message \in Hook!Message /\ conn \in Address \cup {Hook!NoAddress}
  /\ calls \in 0 .. MaxTries /\ result \in {"none", "sent", "failed", "canceled", "limit"}
  /\ reused \in BOOLEAN /\ expired \in BOOLEAN
  /\ reached \cup looked \subseteq Address
  /\ taken + StillTaken <= 2 * calls

TypesInv ==
  /\ WaitsInv /\ ApiInv /\ UpgradeInv /\ old \in [Id -> OldRow] /\ AttemptsInv
  /\ ProviderBounds /\ MailBounds /\ HookBounds

\* A call adds one at most to what the provider has.
LEMMA CallCounts ==
  ASSUME ProviderInv, ProviderBounds, running,
         NEW takers \in SUBSET Provider!To, Provider!Takes(takers)
  PROVE  /\ tries \in Nat /\ unknown \in Nat /\ unknown <= tries - 1
         /\ \A r \in Receptor : takenFor'[r] <= tries
         /\ uploads' <= tries
         /\ Provider!Call = "upload" => \A r \in Receptor : takenFor'[r] <= tries - 1
<1>1. /\ tries \in Nat /\ unknown \in Nat /\ uploads \in Nat /\ step \in 0 .. 1
      /\ takenFor \in [Receptor -> Nat]
  BY MessagesAssumption DEF ProviderInv, ProviderTypes, ProviderCounts,
       Provider!ProviderCallsAssumption
<1>2. /\ unknown <= tries - 1 /\ \A r \in Receptor : takenFor[r] <= tries - 1
      /\ uploads <= tries /\ (step = 0 => uploads <= tries - 1)
  BY <1>1 DEF ProviderBounds, AttemptsEnded
<1>3. CASE Provider!Call = "upload"
  <2>1. step = 0
    BY <1>3, CallFacts DEF ProviderInv
  <2>2. takenFor' = takenFor /\ uploads' \in {uploads, uploads + 1}
    BY <1>1, <1>3 DEF Provider!Takes
  <2> QED  BY <1>1, <1>2, <2>1, <2>2
<1>4. CASE Provider!Call # "upload"
  <2>1. uploads' = uploads /\ \A r \in Receptor : takenFor'[r] \in {takenFor[r], takenFor[r] + 1}
    BY <1>4, ProviderTakes
  <2> QED  BY <1>1, <1>2, <1>4, <2>1
<1> QED  BY <1>3, <1>4

\* Nobody at a provider has the message more often than there were attempts.
LEMMA ProviderBounded ==
  ProviderInv /\ ProviderBounds /\ [Provider!Next]_providerVars => ProviderBounds'
<1> SUFFICES ASSUME ProviderInv, ProviderBounds, [Provider!Next]_providerVars
             PROVE  ProviderBounds'
  OBVIOUS
<1>0. /\ tries \in Nat /\ unknown \in Nat /\ uploads \in Nat /\ running \in BOOLEAN
      /\ takenFor \in [Receptor -> Nat] /\ (step = 1 => running)
  BY MessagesAssumption DEF ProviderInv, ProviderTypes, ProviderKinds, ProviderCounts,
       Provider!ProviderCallsAssumption
<1>1. CASE Provider!Begin
  <2>1. /\ ~running /\ tries' = tries + 1 /\ running' \in BOOLEAN /\ step' = 0
        /\ UNCHANGED <<uploads, takenFor, unknown>>
    BY <1>1 DEF Provider!Begin
  <2>2. /\ unknown <= tries /\ uploads <= tries /\ \A r \in Receptor : takenFor[r] <= tries
    BY <1>0, <2>1 DEF ProviderBounds, AttemptsEnded
  <2>3. AttemptsEnded' \in {tries, tries + 1}
    BY <1>0, <2>1 DEF AttemptsEnded
  <2> QED  BY <1>0, <2>1, <2>2, <2>3 DEF ProviderBounds
<1>2. ASSUME NEW takers \in SUBSET Provider!To, running, Provider!Takes(takers),
             UNCHANGED tries, Provider!EndsWithError(takers)
      PROVE  ProviderBounds'
  <2>1. /\ running' = FALSE /\ step' = 0 /\ unknown' \in {unknown, unknown + 1}
    BY <1>2 DEF Provider!EndsWithError
  <2>2. AttemptsEnded' = tries
    BY <1>2, <2>1 DEF AttemptsEnded
  <2>3. /\ unknown <= tries - 1 /\ \A r \in Receptor : takenFor'[r] <= tries
        /\ uploads' <= tries
    BY <1>2, CallCounts
  <2> QED  BY <1>0, <2>1, <2>2, <2>3 DEF ProviderBounds
<1>3. ASSUME NEW takers \in SUBSET Provider!To, running, Provider!Takes(takers),
             UNCHANGED tries, Provider!Succeeds
      PROVE  ProviderBounds'
  <2>1. /\ unknown <= tries - 1 /\ \A r \in Receptor : takenFor'[r] <= tries
        /\ uploads' <= tries
        /\ Provider!Call = "upload" => \A r \in Receptor : takenFor'[r] <= tries - 1
    BY <1>3, CallCounts
  <2>2. CASE Provider!IsLast
    <3>1. running' = FALSE /\ step' = 0 /\ unknown' = unknown
      BY <1>3, <2>2 DEF Provider!Succeeds
    <3>2. AttemptsEnded' = tries
      BY <1>3, <3>1 DEF AttemptsEnded
    <3> QED  BY <1>0, <2>1, <3>1, <3>2 DEF ProviderBounds
  <2>3. CASE ~Provider!IsLast
    <3>1. Provider!Call = "upload" /\ step = 0
      BY <1>3, <2>3, CallFacts DEF ProviderInv
    <3>2. step' = 1 /\ unknown' = unknown /\ tries' = tries
      BY <1>3, <2>3, <3>1 DEF Provider!Succeeds
    <3>3. AttemptsEnded' = tries - 1
      <4>1. running'
        BY <1>3, <2>3, Zenon DEF Provider!Succeeds
      <4> QED  BY <3>2, <4>1 DEF AttemptsEnded
    <3> QED  BY <1>0, <2>1, <3>1, <3>2, <3>3 DEF ProviderBounds
  <2> QED  BY <2>2, <2>3
<1>4. CASE Provider!Answered
  <2>1. PICK takers \in SUBSET Provider!To, reply0 \in Provider!Reply :
          /\ Provider!Takes(takers)
          /\ IF Provider!Good(reply0) THEN Provider!Succeeds
                                      ELSE Provider!EndsWithError(takers)
    BY <1>4 DEF Provider!Answered
  <2>2. running /\ UNCHANGED tries
    BY <1>4 DEF Provider!Answered
  <2> QED  BY <1>2, <1>3, <2>1, <2>2
<1>5. CASE Provider!Unanswered
  <2>1. PICK takers \in SUBSET Provider!To :
          Provider!Takes(takers) /\ Provider!EndsWithError(takers)
    BY <1>5 DEF Provider!Unanswered
  <2>2. running /\ UNCHANGED tries
    BY <1>5 DEF Provider!Unanswered
  <2> QED  BY <1>2, <2>1, <2>2
<1>6. CASE UNCHANGED providerVars
  BY <1>6 DEF providerVars, ProviderBounds, AttemptsEnded
<1> QED  BY <1>1, <1>4, <1>5, <1>6 DEF Provider!Next

\* The same at the start, and after an attempt that sent the message.
LEMMA ProviderBoundedFirst == Provider!Init \/ ProviderOver => ProviderBounds
<1>1. Provider!Init => ProviderBounds
  BY DEF Provider!Init, ProviderBounds, AttemptsEnded
<1>2. ProviderOver => ProviderBounds
  BY DEF ProviderOver, ProviderBounds, AttemptsEnded
<1> QED  BY <1>1, <1>2

\* A session on its way to the server has told it nothing new.
LEMMA MailUntold ==
  ASSUME MailInv, MailBounds, UNCHANGED <<sessions, delivered, lost, verdict, cutShort>>,
         command \notin {"idle", "quit"}, command' \notin {"idle", "quit"},
         shown' \in BOOLEAN, deadline' \in BOOLEAN, ctx' \in {"none", "canceled", "deadline"}
  PROVE  MailBounds'
BY DEF MailBounds, SessionsTold, Mail!Recipient

\* A session that ends: the server may have been told of it.
LEMMA MailHangsUp ==
  ASSUME MailInv, MailBounds, command # "idle", command' = "idle",
         verdict' \in {"sent", "failed", "canceled", "deadline"}, cutShort' \in BOOLEAN,
         UNCHANGED <<sessions, delivered, shown, lost, deadline, ctx>>
  PROVE  MailBounds'
<1>1. /\ sessions \in 0 .. MaxTries /\ sessions \in Nat /\ lost \in Nat
      /\ delivered \in [Mail!Recipient -> Nat]
  BY MessagesAssumption DEF MailInv, MailTypes, MailBounds, Mail!SmtpAssumption
<1>2. SessionsTold \in {sessions - 1, sessions} /\ SessionsTold' = sessions
  BY DEF SessionsTold
<1> QED  BY <1>1, <1>2 DEF MailBounds, Mail!Recipient

\* No mailbox has the message more often than there were sessions.
LEMMA MailBounded == MailInv /\ MailBounds /\ [Mail!Next]_mailVars => MailBounds'
<1> SUFFICES ASSUME MailInv, MailBounds, [Mail!Next]_mailVars PROVE MailBounds'
  OBVIOUS
<1>0. /\ sessions \in 0 .. MaxTries /\ MaxTries \in Nat /\ lost \in Nat
      /\ delivered \in [Mail!Recipient -> Nat] /\ secured \in BOOLEAN
      /\ command \in Mail!Command \cup {"idle"}
  BY MessagesAssumption DEF MailInv, MailTypes, MailBounds, Mail!SmtpAssumption
<1>01. /\ shown \in BOOLEAN /\ cutShort \in BOOLEAN /\ deadline \in BOOLEAN
       /\ ctx \in {"none", "canceled", "deadline"}
       /\ verdict \in {"none", "sent", "failed", "canceled", "deadline"}
  BY DEF MailBounds
<1>02. Mail!Reason \in {"failed", "canceled", "deadline"}
       /\ Mail!AfterCut \in {"sent", "failed", "canceled", "deadline"}
       /\ Mail!Cut \in BOOLEAN
  BY <1>01 DEF Mail!Reason, Mail!AfterCut, Mail!Cut
<1>1. CASE Mail!Begin
  <2>1. /\ command = "idle" /\ command' = "dial" /\ sessions' = sessions + 1
        /\ sessions < MaxTries /\ verdict' = "none" /\ cutShort' = FALSE
        /\ deadline' = FALSE /\ ctx' = "none" /\ UNCHANGED <<delivered, shown, lost>>
    BY <1>1 DEF Mail!Begin
  <2>2. SessionsTold = sessions /\ SessionsTold' = sessions
    BY <1>0, <2>1 DEF SessionsTold
  <2>3. sessions' \in 0 .. MaxTries /\ sessions' > 0
    BY <1>0, <2>1
  <2> QED  BY <1>01, <2>1, <2>2, <2>3 DEF MailBounds, Mail!Recipient
<1>2. CASE Mail!Connects \/ Mail!Authenticates \/ Mail!NamesRecipients
  <2>1. /\ command \notin {"idle", "quit"} /\ command' \notin {"idle", "quit"}
        /\ UNCHANGED <<sessions, verdict, cutShort, lost, deadline, ctx, delivered>>
    <3>1. CASE Mail!Connects
      BY <3>1 DEF Mail!Connects, Mail!Goes, Mail!AfterGreet
    <3>2. CASE Mail!Authenticates
      BY <3>2 DEF Mail!Authenticates, Mail!Goes
    <3>3. CASE Mail!NamesRecipients
      BY <3>3 DEF Mail!NamesRecipients, Mail!Goes
    <3> QED  BY <1>2, <3>1, <3>2, <3>3
  <2>2. shown' \in BOOLEAN
    BY <1>0, <1>01, <1>2 DEF Mail!Connects, Mail!Authenticates, Mail!NamesRecipients
  <2> QED  BY <1>01, <2>1, <2>2, MailUntold
<1>3. CASE Mail!Accepted \/ Mail!AnswerLost
  <2>1. /\ command = "write" /\ command' \in {"quit", "idle"} /\ lost' \in {lost, lost + 1}
        /\ delivered' = [r \in Mail!Recipient |-> delivered[r] + (IF r \in named THEN 1 ELSE 0)]
        /\ UNCHANGED <<sessions, shown, deadline, ctx>>
    BY <1>3 DEF Mail!Accepted, Mail!AnswerLost, Mail!Goes, Mail!Ends, Mail!session
  <2>2. verdict' \in {"none", "failed", "canceled", "deadline"} /\ cutShort' \in BOOLEAN
    <3>1. CASE Mail!Accepted
      BY <3>1, <1>01, <2>1 DEF Mail!Accepted, Mail!Goes, MailInv, MailTypes
    <3>2. CASE Mail!AnswerLost
      BY <3>2, <1>02 DEF Mail!AnswerLost, Mail!Ends
    <3> QED  BY <1>3, <3>1, <3>2
  <2>3. sessions > 0 /\ SessionsTold = sessions - 1 /\ SessionsTold' = sessions
    BY <2>1 DEF SessionsTold, MailBounds
  <2>4. /\ \A r \in Mail!Recipient : delivered[r] <= sessions - 1 /\ delivered[r] \in Nat
        /\ lost <= sessions - 1
    BY <1>0, <2>3 DEF MailBounds
  <2>5. \A r \in Mail!Recipient : delivered'[r] <= SessionsTold'
    BY <1>0, <2>1, <2>3, <2>4
  <2>6. lost' <= SessionsTold'
    BY <1>0, <2>1, <2>3, <2>4
  <2> QED  BY <1>0, <1>01, <2>1, <2>2, <2>3, <2>5, <2>6 DEF MailBounds, Mail!Recipient
<1>4. CASE Mail!Quits \/ Mail!Refuses \/ Mail!BrokenOff
  <2>1. /\ command # "idle" /\ command' = "idle" /\ cutShort' \in BOOLEAN
        /\ verdict' \in {"sent", "failed", "canceled", "deadline"}
        /\ UNCHANGED <<sessions, delivered, shown, lost, deadline, ctx>>
    <3>1. CASE Mail!Quits
      BY <3>1, <1>01 DEF Mail!Quits, Mail!Ends, Mail!session
    <3>2. CASE Mail!Refuses
      BY <3>2, <1>01, <1>02 DEF Mail!Refuses, Mail!Refused, Mail!Ends, Mail!session,
           Mail!Running, Mail!Command
    <3>3. CASE Mail!BrokenOff
      BY <3>3, <1>01, <1>02 DEF Mail!BrokenOff, Mail!Ends, Mail!session, Mail!Running,
           Mail!Command
    <3> QED  BY <1>4, <3>1, <3>2, <3>3
  <2> QED  BY <2>1, MailHangsUp
<1>5. CASE Mail!DeadlinePasses \/ Mail!ContextExpires \/ Mail!Cancelled
  <2>1. /\ UNCHANGED <<command, sessions, verdict, delivered, shown, lost, cutShort>>
        /\ deadline' \in BOOLEAN /\ ctx' \in {"none", "canceled", "deadline"}
    BY <1>5, <1>01 DEF Mail!DeadlinePasses, Mail!ContextExpires, Mail!Cancelled, Mail!Clock
  <2> QED  BY <2>1 DEF MailBounds, SessionsTold, Mail!Recipient
<1>6. CASE UNCHANGED mailVars
  BY <1>6 DEF mailVars, MailBounds, SessionsTold, Mail!Recipient
<1> QED  BY <1>1, <1>2, <1>3, <1>4, <1>5, <1>6 DEF Mail!Next

\* The same at the start, and after a session that sent the message.
LEMMA MailBoundedFirst == Mail!Init \/ MailOver => MailBounds
<1>1. MaxTries \in Nat \ {0} /\ 0 \in 0 .. MaxTries /\ 1 \in 0 .. MaxTries
  BY MessagesAssumption DEF Mail!SmtpAssumption
<1>2. ASSUME Mail!Init PROVE MailBounds
  <2>1. /\ sessions = 0 /\ lost = 0 /\ SessionsTold = 0
        /\ \A r \in Mail!Recipient : delivered[r] = 0
    BY <1>2 DEF Mail!Init, SessionsTold
  <2>2. sessions \in 0 .. MaxTries /\ lost <= SessionsTold
        /\ \A r \in Mail!Recipient : delivered[r] <= SessionsTold
    BY <1>1, <2>1
  <2> QED  BY <1>2, <2>2 DEF Mail!Init, MailBounds
<1>3. ASSUME MailOver PROVE MailBounds
  <2>1. /\ sessions = 1 /\ lost = 0 /\ SessionsTold = 1
        /\ \A r \in Mail!Recipient : delivered[r] = 1
    BY <1>3 DEF MailOver, SessionsTold
  <2>2. sessions \in 0 .. MaxTries /\ lost <= SessionsTold
        /\ \A r \in Mail!Recipient : delivered[r] <= SessionsTold
    BY <1>1, <2>1
  <2> QED  BY <1>3, <2>2 DEF MailOver, MailBounds
<1> QED  BY <1>2, <1>3

\* A step within an attempt: what the server takes in it, it can no longer take later.
LEMMA HookGoesOn ==
  ASSUME HookInv, HookBounds, UNCHANGED <<message, calls>>,
         conn' \in Address \cup {Hook!NoAddress},
         result' \in {"none", "sent", "failed", "canceled", "limit"},
         reused' \in BOOLEAN, expired' \in BOOLEAN, reached' \cup looked' \subseteq Address,
         taken' \in Nat, taken' + StillTaken' <= taken + StillTaken
  PROVE  HookBounds'
<1>1. taken \in Nat /\ StillTaken \in Nat /\ StillTaken' \in Nat /\ calls \in Nat
  BY MessagesAssumption DEF HookInv, HookTypes, HookBounds, StillTaken, Hook!WebhookAssumption
<1>2. PICK n \in Nat : n = 2 * calls /\ n = 2 * calls' /\ taken + StillTaken <= n
  BY <1>1 DEF HookBounds
<1>3. taken' + StillTaken' <= n
  <2>1. PICK t \in Nat, v \in Nat : t = taken' /\ v = StillTaken'
    BY <1>1
  <2>2. t + v <= taken + StillTaken
    BY <2>1
  <2>3. t + v <= n
    BY <1>1, <1>2, <2>2
  <2> QED  BY <2>1, <2>3
<1> QED  BY <1>2, <1>3 DEF HookBounds, Hook!Message

\* An attempt that ends in the middle: the server may have taken the message just then.
LEMMA LastTaken ==
  ASSUME HookInv, HookBounds, pc' = "idle",
         taken' \in (IF pc = "request" THEN {taken, taken + 1} ELSE {taken})
  PROVE  taken' \in Nat /\ taken' + StillTaken' <= taken + StillTaken
<1>1. taken \in Nat /\ StillTaken' = 0 /\ StillTaken \in 0 .. 2
  BY DEF HookInv, HookTypes, StillTaken
<1>2. CASE pc = "request"
  <2>1. taken' \in {taken, taken + 1} /\ StillTaken >= 1
    BY <1>2 DEF StillTaken
  <2>2. CASE taken' = taken
    BY <1>1, <2>1, <2>2
  <2>3. CASE taken' = taken + 1
    BY <1>1, <2>1, <2>3
  <2> QED  BY <2>1, <2>2, <2>3
<1>3. CASE pc # "request"
  <2>1. taken' = taken
    BY <1>3
  <2> QED  BY <1>1, <2>1
<1> QED  BY <1>2, <1>3

\* No webhook's server has the message more often than twice for each attempt.
LEMMA HookBounded == HookInv /\ HookBounds /\ [Hook!Next]_hookVars => HookBounds'
<1> SUFFICES ASSUME HookInv, HookBounds, [Hook!Next]_hookVars PROVE HookBounds'
  OBVIOUS
<1>0. /\ taken \in Nat /\ taken + 1 \in Nat /\ calls \in 0 .. MaxTries /\ MaxTries \in Nat
      /\ reused \in BOOLEAN /\ expired \in BOOLEAN
      /\ conn \in Address \cup {Hook!NoAddress} /\ reached \cup looked \subseteq Address
      /\ result \in {"none", "sent", "failed", "canceled", "limit"}
  BY MessagesAssumption DEF HookInv, HookTypes, HookBounds, Hook!WebhookAssumption
<1>1. CASE Hook!Begin
  <2>1. /\ pc = "idle" /\ calls < MaxTries /\ calls' = calls + 1 /\ expired' = FALSE
        /\ reused' \in BOOLEAN /\ UNCHANGED <<message, conn, reached, looked, taken>>
    BY <1>1 DEF Hook!Begin
  <2>2. result' \in {"none", "failed", "limit"}
    BY <1>1 DEF Hook!Begin, Hook!Ends
  <2>3. StillTaken = 0 /\ StillTaken' \in 0 .. 2
    BY <2>1 DEF StillTaken
  <2>4. taken <= 2 * calls
    BY <1>0, <2>3 DEF HookBounds
  <2>5. calls' \in 0 .. MaxTries
    BY <1>0, <2>1
  <2>6. PICK n \in Nat : n = 2 * calls /\ 2 * calls' = n + 2
    BY <1>0, <2>1
  <2>7. taken \in Nat /\ taken' = taken /\ taken <= n
    BY <1>0, <2>1, <2>4, <2>6
  <2>8. taken' + StillTaken' <= n + 2
    <3>1. PICK v \in 0 .. 2 : v = StillTaken'
      BY <2>3
    <3>2. taken' + v <= n + 2
      BY <2>7
    <3> QED  BY <3>1, <3>2
  <2>9. taken' + StillTaken' <= 2 * calls'
    BY <2>6, <2>8
  <2> QED  BY <1>0, <2>1, <2>2, <2>5, <2>9 DEF HookBounds, Hook!Message
<1>2. CASE Hook!LooksUp
  <2>1. PICK addresses \in Hook!SeqOf(Address, MaxAddresses) :
          /\ looked' = Hook!ToSet(addresses)
          /\ IF answer' = <<>> THEN Hook!Ends("failed") ELSE pc' = "dial" /\ UNCHANGED result
    BY <1>2 DEF Hook!LooksUp
  <2>2. /\ pc = "lookup"
        /\ UNCHANGED <<message, conn, calls, reached, expired, taken, reused>>
    BY <1>2 DEF Hook!LooksUp, Hook!Counts
  <2>3. pc' \in {"idle", "dial"} /\ result' \in {result, "failed"}
    BY <2>1 DEF Hook!Ends
  <2>4. looked' \subseteq Address
    BY <2>1, ResolverAnswers
  <2>5. taken' + StillTaken' <= taken + StillTaken
    BY <1>0, <2>2, <2>3 DEF StillTaken
  <2>6. /\ result' \in {"none", "sent", "failed", "canceled", "limit"}
        /\ reached' \cup looked' \subseteq Address
    BY <1>0, <2>2, <2>3, <2>4
  <2> QED  BY <1>0, <2>2, <2>5, <2>6, HookGoesOn
<1>3. CASE Hook!Dials \/ Hook!DialFails
  <2>1. /\ pc = "dial" /\ reached' = reached \cup {Head(answer)}
        /\ UNCHANGED <<message, calls, looked, expired, taken, reused>>
    BY <1>3 DEF Hook!Dials, Hook!DialFails, Hook!Counts
  <2>2. /\ pc' \in {"request", "dial", "idle"} /\ result' \in {result, "failed"}
        /\ conn' \in {conn, Head(answer)}
    <3>1. CASE Hook!Dials
      BY <3>1 DEF Hook!Dials
    <3>2. CASE Hook!DialFails
      BY <3>2, <2>1 DEF Hook!DialFails, Hook!Ends
    <3> QED  BY <1>3, <3>1, <3>2
  <2>3. Head(answer) \in Address
    <3>1. answer \in Seq(Address) /\ answer # <<>>
      BY <2>1 DEF HookInv, HookTypes
    <3> QED  BY <3>1
  <2>4. taken' + StillTaken' <= taken + StillTaken
    BY <1>0, <2>1, <2>2 DEF StillTaken
  <2>5. /\ result' \in {"none", "sent", "failed", "canceled", "limit"}
        /\ reached' \cup looked' \subseteq Address
        /\ conn' \in Address \cup {Hook!NoAddress}
    BY <1>0, <2>1, <2>2, <2>3
  <2> QED  BY <1>0, <2>1, <2>4, <2>5, HookGoesOn
<1>4. CASE Hook!Answers
  <2>1. /\ pc = "request" /\ pc' = "body" /\ taken' = taken + 1
        /\ UNCHANGED <<message, conn, reused, calls, result, reached, looked, expired>>
    BY <1>4 DEF Hook!Answers
  <2>2. taken' + StillTaken' <= taken + StillTaken
    BY <1>0, <2>1 DEF StillTaken
  <2> QED  BY <1>0, <2>1, <2>2, HookGoesOn
<1>5. CASE Hook!ReadsBody
  <2>1. /\ pc = "body" /\ pc' = "idle" /\ conn' \in {conn, Hook!NoAddress}
        /\ UNCHANGED <<message, reused, calls, taken, reached, looked, expired>>
    BY <1>5 DEF Hook!ReadsBody, Hook!Ends
  <2>2. result' \in {"sent", "failed", "limit"}
    BY <1>5 DEF Hook!ReadsBody, Hook!Ends, Hook!Outcome
  <2>3. taken' + StillTaken' <= taken + StillTaken
    BY <1>0, <2>1 DEF StillTaken
  <2> QED  BY <1>0, <2>1, <2>2, <2>3, HookGoesOn
<1>6. CASE Hook!Breaks
  <2>1. /\ pc \in {"request", "body"} /\ pc' = "idle" /\ result' = "failed"
        /\ conn' = Hook!NoAddress
        /\ taken' \in (IF pc = "request" THEN {taken, taken + 1} ELSE {taken})
        /\ UNCHANGED <<message, reused, calls, reached, looked, expired>>
    BY <1>6 DEF Hook!Breaks, Hook!Ends
  <2>2. taken' \in Nat /\ taken' + StillTaken' <= taken + StillTaken
    BY <2>1, LastTaken
  <2> QED  BY <1>0, <2>1, <2>2, HookGoesOn
<1>7. CASE Hook!MakesAgain
  <2>1. /\ pc = "request" /\ reused /\ pc' = "lookup" /\ reused' = FALSE
        /\ conn' = Hook!NoAddress /\ taken' \in {taken, taken + 1}
        /\ UNCHANGED <<message, calls, result, reached, looked, expired>>
    BY <1>7 DEF Hook!MakesAgain
  <2>2. StillTaken = 2 /\ StillTaken' = 1
    BY <2>1 DEF StillTaken
  <2>3. taken' \in Nat /\ taken' + StillTaken' <= taken + StillTaken
    <3>1. CASE taken' = taken
      BY <1>0, <2>2, <3>1
    <3>2. CASE taken' = taken + 1
      BY <1>0, <2>2, <3>2
    <3> QED  BY <2>1, <3>1, <3>2
  <2> QED  BY <1>0, <2>1, <2>3, HookGoesOn
<1>8. CASE Hook!EndsByTime
  <2>1. /\ pc' = "idle" /\ result' = "canceled" /\ conn' = Hook!NoAddress
        /\ taken' \in (IF pc = "request" THEN {taken, taken + 1} ELSE {taken})
        /\ UNCHANGED <<message, reused, calls, reached, looked, expired>>
    BY <1>8 DEF Hook!EndsByTime, Hook!Ends
  <2>2. taken' \in Nat /\ taken' + StillTaken' <= taken + StillTaken
    BY <2>1, LastTaken
  <2> QED  BY <1>0, <2>1, <2>2, HookGoesOn
<1>9. CASE Hook!Expires \/ Hook!Forgotten
  <2>1. /\ UNCHANGED <<message, pc, calls, result, reached, looked, taken, reused>>
        /\ conn' \in {conn, Hook!NoAddress} /\ expired' \in BOOLEAN
    BY <1>0, <1>9 DEF Hook!Expires, Hook!Forgotten, Hook!Counts
  <2>2. taken' + StillTaken' <= taken + StillTaken
    BY <1>0, <2>1 DEF StillTaken
  <2> QED  BY <1>0, <2>1, <2>2, HookGoesOn
<1>10. CASE UNCHANGED hookVars
  BY <1>10 DEF hookVars, HookBounds, StillTaken, Hook!Message
<1> QED  BY <1>1, <1>2, <1>3, <1>4, <1>5, <1>6, <1>7, <1>8, <1>9, <1>10 DEF Hook!Next

\* The same at the start, and after an attempt that sent the message.
LEMMA HookBoundedFirst == Hook!Init \/ HookOver => HookBounds
<1>1. /\ MaxTries \in Nat \ {0} /\ 0 \in 0 .. MaxTries /\ 1 \in 0 .. MaxTries
      /\ MaxLength \in Nat /\ 0 \in 0 .. MaxLength /\ \E a \in Address : Hook!Permits(a)
  BY MessagesAssumption DEF Hook!WebhookAssumption
<1>2. ASSUME Hook!Init PROVE HookBounds
  <2>1. /\ calls = 0 /\ taken = 0 /\ StillTaken = 0 /\ reached = {} /\ looked = {}
        /\ message \in Hook!Message /\ conn = Hook!NoAddress /\ result = "none"
        /\ reused = FALSE /\ expired = FALSE
    BY <1>2 DEF Hook!Init, StillTaken
  <2>2. calls \in 0 .. MaxTries /\ taken + StillTaken <= 2 * calls
    BY <1>1, <2>1
  <2> QED  BY <2>1, <2>2 DEF HookBounds
<1>3. ASSUME HookOver PROVE HookBounds
  <2> DEFINE a == CHOOSE a \in Address : Hook!Permits(a)
  <2>1. a \in Address
    BY <1>1
  <2>2. /\ calls = 1 /\ taken = 1 /\ StillTaken = 0 /\ reached = {a} /\ looked = {a}
        /\ message = [listed |-> TRUE, header |-> TRUE, length |-> 0]
        /\ conn = Hook!NoAddress /\ result = "sent" /\ reused = FALSE /\ expired = FALSE
    BY <1>3 DEF HookOver, StillTaken
  <2> HIDE DEF a
  <2>3. calls \in 0 .. MaxTries /\ taken + StillTaken <= 2 * calls
    BY <1>1, <2>2
  <2>4. message \in Hook!Message
    BY <1>1, <2>2 DEF Hook!Message
  <2> QED  BY <2>1, <2>2, <2>3, <2>4 DEF HookBounds
<1> QED  BY <1>2, <1>3

\* The waits at the start, and after the last failure there may be.
LEMMA WaitsFirst == Init \/ WaitingOver => WaitsInv
<1>1. Init => WaitsInv
  BY AttemptsAssumption DEF Init, WaitsInv, TypeOK
<1>2. ASSUME WaitingOver PROVE WaitsInv
  <2>1. MaxAttempts \in Nat \ {0}
    BY AttemptsAssumption, MessagesAssumption
  <2>2. attempts = MaxAttempts /\ wait = RetryDelay(MaxAttempts)
    BY <1>2 DEF WaitingOver
  <2>3. wait \in Nat /\ wait >= 10
    BY <2>1, <2>2, DelayBounds
  <2>4. /\ wait \div 10 \in 0 .. (wait \div 5) - 1
        /\ wait = wait - (wait \div 10) + (wait \div 10)
    <3>1. wait \div 10 \in Nat /\ wait \div 5 \in Nat
      BY <2>3
    <3>2. 10 * (wait \div 10) <= wait /\ wait < 5 * (wait \div 5) + 5
      BY <2>3
    <3>3. wait < 10 * (wait \div 10) + 10
      BY <2>3
    <3> QED  BY <2>3, <3>1, <3>2, <3>3
  <2>5. wait \in Jitter(wait)
    BY <2>4 DEF Jitter
  <2>6. attempts \in 0 .. MaxAttempts /\ attempts # 0
    BY <2>1, <2>2
  <2>7. wait \in Jitter(RetryDelay(attempts))
    BY <2>2, <2>5
  <2> QED  BY <2>3, <2>6, <2>7 DEF WaitsInv, TypeOK
<1> QED  BY <1>1, <1>2

\* Nothing changes what the old version left.
LEMMA OldStays ==
  /\ Upgrade!Init \/ UpgradeOver => old \in [Id -> OldRow]
  /\ [Upgrade!Next]_upgradeVars => UNCHANGED old
<1>1. Upgrade!Init \/ UpgradeOver => old \in [Id -> OldRow]
  BY MessagesAssumption DEF Upgrade!Init, UpgradeOver
<1>2. [Upgrade!Next]_upgradeVars => UNCHANGED old
  BY DEF Upgrade!Next, Upgrade!Start, Upgrade!BeginMigration, Upgrade!MigrateRow,
         Upgrade!FinishMigration, Upgrade!Crash, Upgrade!Reconcile, Upgrade!Reserve,
         Upgrade!Tick, upgradeVars
<1> QED  BY <1>1, <1>2

\* The bounds hold in every behaviour, whichever of the models is alive.
LEMMA TypesInvariance == MessagesSpec => []TypesInv
<1> DEFINE Bounds ==
             /\ WaitsInv /\ old \in [Id -> OldRow]
             /\ ProviderBounds /\ MailBounds /\ HookBounds
<1>1. MessagesInit => Bounds
  BY WaitsFirst, OldStays, ProviderBoundedFirst, MailBoundedFirst, HookBoundedFirst
     DEF MessagesInit, AttemptsOver
<1>2. AttemptsInv /\ Bounds /\ [MessagesNext]_<<vars, apiVars, upgradeVars, attemptVars>>
        => Bounds'
  <2> SUFFICES ASSUME AttemptsInv, Bounds,
                      [MessagesNext]_<<vars, apiVars, upgradeVars, attemptVars>>
               PROVE  Bounds'
    OBVIOUS
  <2>1. /\ [Next]_vars /\ [Upgrade!Next]_upgradeVars /\ [Provider!Next]_providerVars
        /\ [Mail!Next]_mailVars /\ [Hook!Next]_hookVars
    BY DEF MessagesNext, attemptVars
  <2>2. WaitsInv' /\ old' = old
    BY <2>1, WaitsPreserved, OldStays
  <2>3. ProviderBounds' /\ MailBounds' /\ HookBounds'
    BY <2>1, ProviderBounded, MailBounded, HookBounded DEF AttemptsInv
  <2> QED  BY <2>2, <2>3
<1>3. Bounds /\ ApiInv /\ UpgradeInv /\ AttemptsInv => TypesInv
  BY DEF TypesInv
<1> HIDE DEF Bounds
<1> QED  BY <1>1, <1>2, <1>3, ApiInvariance, UpgradeInvariance, AttemptsInvariance, PTL
         DEF MessagesSpec

\* Every variable of the six keeps its type and its bound: no provider takes a message
\* more often than there are attempts, no webhook's server more than twice in each (a
\* request on a kept connection is made again), the lock of the migration belongs to the
\* server at work, and an id is told with a 200 and nothing else.
THEOREM MessagesTypeCorrect == MessagesSpec => []MessagesTypeOK
<1>1. ASSUME TypesInv PROVE Api!TypeOK
  <2>1. /\ table \in Seq(ApiRow) /\ told \subseteq ApiAnswer
        /\ stopping \in BOOLEAN /\ faults \in 0 .. MaxFaults
        /\ IsFiniteSet(told) /\ Cardinality(told) <= MaxRequests /\ MaxRequests \in Nat
    BY <1>1, MessagesAssumption DEF TypesInv, ApiInv, ApiTypes, Api!HttpApiAssumption
  <2>2. Api!Cardinality(told) \in 0 .. MaxRequests
    BY <2>1, ApiCounts, FS_CardinalityType
  <2>3. \A id \in DOMAIN table :
          table[id].channel \in Enabled /\ table[id].key \in {Api!NoKey, "key"}
    <3>1. \A id \in DOMAIN table : table[id] \in ApiRow
      BY <2>1
    <3> QED  BY <3>1, ApiRowFacts
  <2>4. ASSUME NEW t \in told
        PROVE  /\ t.request \in Request /\ t.code \in {200, 400, 409, 500, 503}
               /\ t.id \in 0 .. Len(table) /\ (t.code = 200 <=> t.id # Api!NoId)
    <3>1. t.request \in Request /\ t.code \in {200, 400, 409, 500, 503}
      BY <2>1 DEF ApiAnswer, Codes
    <3>2. t.code = 200 <=> t.id # Api!NoId
      BY <1>1 DEF TypesInv, ApiInv, ApiTypes
    <3>3. t.code = 200 => t.id \in DOMAIN table
      BY <1>1 DEF TypesInv, ApiInv, ToldStored
    <3>4. DOMAIN table = 1 .. Len(table) /\ Len(table) \in Nat /\ Api!NoId = 0
      BY <2>1 DEF Api!NoId
    <3>5. t.id \in 0 .. Len(table)
      BY <3>2, <3>3, <3>4
    <3> QED  BY <3>1, <3>2, <3>5
  <2> QED  BY <2>1, <2>2, <2>3, <2>4 DEF Api!TypeOK
<1>2. ASSUME TypesInv PROVE Upgrade!TypeOK
  <2>1. lock # Upgrade!Nobody => server[lock] = "working"
    BY <1>2 DEF TypesInv, UpgradeInv, UpgradeTypes, OneMigrator
  <2> QED  BY <1>2, <2>1 DEF TypesInv, UpgradeInv, UpgradeTypes, Upgrade!TypeOK
<1>3. ASSUME TypesInv PROVE Provider!TypeOK
  <2>1. /\ tries \in 0 .. MaxTries /\ MaxTries \in Nat /\ tries \in Nat
        /\ uploads \in Nat /\ unknown \in Nat /\ takenFor \in [Receptor -> Nat]
    BY <1>3, MessagesAssumption DEF TypesInv, AttemptsInv, ProviderInv, ProviderTypes,
         ProviderCounts, Provider!ProviderCallsAssumption
  <2>2. AttemptsEnded \in {tries - 1, tries}
    BY DEF AttemptsEnded
  <2>3. /\ \A r \in Receptor : takenFor[r] <= tries
        /\ unknown <= tries /\ uploads <= tries
    BY <1>3, <2>1, <2>2 DEF TypesInv, ProviderBounds
  <2>4. uploads \in 0 .. MaxTries /\ unknown \in 0 .. MaxTries
    BY <2>1, <2>3
  <2>5. takenFor \in [Receptor -> 0 .. MaxTries]
    BY <2>1, <2>3
  <2> QED  BY <1>3, <2>1, <2>4, <2>5 DEF TypesInv, AttemptsInv, ProviderInv, ProviderTypes,
                ProviderKinds, ProviderCounts, Provider!TypeOK, Provider!Shape
<1>4. ASSUME TypesInv PROVE Mail!TypeOK
  <2>1. /\ sessions \in 0 .. MaxTries /\ MaxTries \in Nat /\ sessions \in Nat
        /\ lost \in Nat /\ delivered \in [Mail!Recipient -> Nat]
    BY <1>4, MessagesAssumption DEF TypesInv, AttemptsInv, MailInv, MailTypes, MailBounds,
         Mail!SmtpAssumption
  <2>2. SessionsTold \in {sessions - 1, sessions}
    BY DEF SessionsTold
  <2>3. lost <= sessions /\ \A r \in Mail!Recipient : delivered[r] <= sessions
    BY <1>4, <2>1, <2>2 DEF TypesInv, MailBounds
  <2>4. lost \in 0 .. MaxTries
    BY <2>1, <2>3
  <2>5. delivered \in [Mail!Recipient -> 0 .. MaxTries]
    BY <2>1, <2>3
  <2>6. named \subseteq 1 .. asked
    BY <1>4 DEF TypesInv, AttemptsInv, MailInv, AllNamed
  <2> QED  BY <1>4, <2>4, <2>5, <2>6 DEF TypesInv, AttemptsInv, MailInv, MailTypes, MailBounds,
                Mail!TypeOK
<1>5. ASSUME TypesInv PROVE Hook!TypeOK
  <2>1. /\ taken \in Nat /\ StillTaken \in Nat /\ calls \in 0 .. MaxTries /\ MaxTries \in Nat
        /\ taken + StillTaken <= 2 * calls
    BY <1>5, MessagesAssumption DEF TypesInv, AttemptsInv, HookInv, HookTypes, HookBounds,
         StillTaken, Hook!WebhookAssumption
  <2>2. PICK n \in Nat : n = 2 * calls /\ n <= 2 * MaxTries
    BY <2>1
  <2>3. taken <= n
    BY <2>1, <2>2
  <2>4. taken \in 0 .. 2 * MaxTries
    BY <2>1, <2>2, <2>3
  <2> QED  BY <1>5, <2>4 DEF TypesInv, AttemptsInv, HookInv, HookTypes, HookBounds, Hook!TypeOK
<1>6. TypesInv => TypeOK /\ WaitsLevelOut
  BY WaitsLevel DEF TypesInv, WaitsInv
<1>7. TypesInv => MessagesTypeOK
  BY <1>1, <1>2, <1>3, <1>4, <1>5, <1>6 DEF MessagesTypeOK
<1> QED  BY <1>7, TypesInvariance, PTL

-----------------------------------------------------------------------------
(* The ends of attempts. *)

\* An e-mail's attempt ends in the reason that broke it off.
MailEndsInv == (command # "idle" => cutShort = FALSE) /\ Mail!ReasonIsKept

\* An SMTP session that ends cut short has the reason for it in its result.
LEMMA MailEndsForReason ==
  MailBounds /\ MailEndsInv /\ [Mail!Next]_mailVars => MailEndsInv'
<1> SUFFICES ASSUME MailBounds, MailEndsInv, [Mail!Next]_mailVars PROVE MailEndsInv'
  OBVIOUS
<1>0. /\ deadline \in BOOLEAN /\ ctx \in {"none", "canceled", "deadline"}
      /\ cutShort \in BOOLEAN /\ (Mail!Running => command # "idle")
      /\ (command # "idle" => cutShort = FALSE)
  BY DEF MailBounds, MailEndsInv, Mail!Running, Mail!Command
<1>1. Mail!Cut => Mail!Reason \in {"canceled", "deadline"}
  BY <1>0 DEF Mail!Cut, Mail!Reason
<1>2. CASE Mail!Begin
  BY <1>2 DEF Mail!Begin, MailEndsInv, Mail!ReasonIsKept
<1>3. CASE Mail!BrokenOff
  BY <1>1, <1>3 DEF Mail!BrokenOff, Mail!Ends, Mail!AfterCut, MailEndsInv, Mail!ReasonIsKept
<1>4. CASE Mail!AnswerLost
  BY <1>1, <1>4 DEF Mail!AnswerLost, Mail!Ends, MailEndsInv, Mail!ReasonIsKept
<1>5. CASE Mail!Refuses \/ Mail!Quits
  BY <1>0, <1>5 DEF Mail!Refuses, Mail!Refused, Mail!Quits, Mail!Ends, MailEndsInv,
       Mail!ReasonIsKept
<1>6. ASSUME command # "idle", UNCHANGED cutShort PROVE MailEndsInv'
  BY <1>0, <1>6 DEF MailEndsInv, Mail!ReasonIsKept
<1>7. CASE Mail!Connects \/ Mail!Authenticates \/ Mail!NamesRecipients \/ Mail!Accepted
  BY <1>6, <1>7 DEF Mail!Connects, Mail!Authenticates, Mail!NamesRecipients, Mail!Accepted,
       Mail!Goes
<1>8. CASE Mail!DeadlinePasses \/ Mail!ContextExpires \/ Mail!Cancelled
  BY <1>0, <1>6, <1>8 DEF Mail!DeadlinePasses, Mail!ContextExpires, Mail!Cancelled, Mail!Clock
<1>9. CASE UNCHANGED mailVars
  BY <1>9 DEF mailVars, MailEndsInv, Mail!ReasonIsKept
<1> QED  BY <1>2, <1>3, <1>4, <1>5, <1>7, <1>8, <1>9 DEF Mail!Next

\* While a webhook's attempt dials, the addresses of the resolver's answer are those it
\* has dialled and those it still has to dial.
HookEndsInv == pc = "dial" => looked \subseteq reached \cup Hook!ToSet(answer)

\* A webhook that fails to connect has dialled what it looked up.
LEMMA HookDialsAll ==
  HookInv /\ HookEndsInv /\ [Hook!Next]_hookVars =>
    HookEndsInv' /\ (Hook!DialFails /\ pc' = "idle" => looked \subseteq reached')
<1> SUFFICES ASSUME HookInv, HookEndsInv, [Hook!Next]_hookVars
             PROVE  HookEndsInv' /\ (Hook!DialFails /\ pc' = "idle" => looked \subseteq reached')
  OBVIOUS
<1>0. Hook!DialFails => pc = "dial" /\ answer' = Tail(answer)
  BY DEF Hook!DialFails, Hook!NextAddress
<1>1. CASE Hook!LooksUp
  <2>1. PICK addresses \in Hook!SeqOf(Address, MaxAddresses) :
          /\ answer' = Hook!Dialled(addresses) /\ looked' = Hook!ToSet(addresses)
          /\ IF answer' = <<>> THEN Hook!Ends("failed") ELSE pc' = "dial" /\ UNCHANGED result
    BY <1>1 DEF Hook!LooksUp
  <2>2. pc = "lookup"
    BY <1>1 DEF Hook!LooksUp
  <2>3. pc' = "dial" => answer' = addresses
    BY <2>1 DEF Hook!Ends, Hook!Dialled
  <2> QED  BY <1>0, <2>1, <2>2, <2>3 DEF HookEndsInv
<1>2. CASE Hook!DialFails
  <2>1. /\ pc = "dial" /\ answer' = Tail(answer) /\ reached' = reached \cup {Head(answer)}
        /\ looked' = looked
        /\ IF answer' = <<>> THEN pc' = "idle" ELSE UNCHANGED pc
    BY <1>2 DEF Hook!DialFails, Hook!NextAddress, Hook!Ends
  <2>2. answer \in Seq(Address) /\ answer # <<>>
    BY <2>1 DEF HookInv, HookTypes
  <2>3. \A i \in DOMAIN answer : i = 1 \/ (i - 1 \in DOMAIN Tail(answer)
                                            /\ answer[i] = Tail(answer)[i - 1])
    BY <2>2
  <2>4. answer[1] = Head(answer)
    BY <2>2
  <2>5. Hook!ToSet(answer) \subseteq {Head(answer)} \cup Hook!ToSet(Tail(answer))
    BY <2>3, <2>4 DEF Hook!ToSet
  <2>6. looked' \subseteq reached' \cup Hook!ToSet(answer')
    BY <2>1, <2>5 DEF HookEndsInv
  <2>7. Hook!ToSet(<<>>) = {}
    BY DEF Hook!ToSet
  <2>8. pc' = "idle" => answer' = <<>>
    BY <2>1
  <2> QED  BY <2>1, <2>6, <2>7, <2>8 DEF HookEndsInv
<1>3. CASE Hook!Begin \/ Hook!Dials \/ Hook!Answers \/ Hook!ReadsBody \/ Hook!Breaks
             \/ Hook!MakesAgain \/ Hook!EndsByTime
  <2>1. pc' # "dial"
    BY <1>3 DEF Hook!Begin, Hook!Dials, Hook!Answers, Hook!ReadsBody, Hook!Breaks,
         Hook!MakesAgain, Hook!EndsByTime, Hook!Ends
  <2>2. ~Hook!DialFails \/ pc' # "idle"
    <3>1. CASE Hook!Dials
      BY <3>1 DEF Hook!Dials
    <3>2. CASE ~Hook!Dials
      <4>1. CASE Hook!EndsByTime
        BY <4>1 DEF Hook!EndsByTime, Hook!DialFails
      <4>2. CASE ~Hook!EndsByTime
        BY <1>0, <1>3, <3>2, <4>2 DEF Hook!Begin, Hook!Answers, Hook!ReadsBody, Hook!Breaks,
             Hook!MakesAgain
      <4> QED  BY <4>1, <4>2
    <3> QED  BY <3>1, <3>2
  <2> QED  BY <2>1, <2>2 DEF HookEndsInv
<1>4. CASE Hook!Expires \/ Hook!Forgotten \/ UNCHANGED hookVars
  <2>1. UNCHANGED <<pc, answer, reached, looked>>
    BY <1>4 DEF Hook!Expires, Hook!Forgotten, hookVars
  <2>2. Hook!DialFails => pc' # "idle"
    BY <1>0, <2>1
  <2> QED  BY <2>1, <2>2 DEF HookEndsInv
<1> QED  BY <1>1, <1>2, <1>3, <1>4 DEF Hook!Next

\* Whichever timer was first and whatever the server said before, an e-mail's attempt
\* that was broken off by time or by the shutdown is reported as that and not as refused;
\* and no address of a webhook goes untried because another did not answer (DialAndSend's
\* deferred function, the loop of dialContext).
THEOREM EndsAreExplained == MessagesSpec => EndsForReason
<1> DEFINE Inv == MailEndsInv /\ HookEndsInv
           Vars == <<vars, apiVars, upgradeVars, attemptVars>>
<1>1. MessagesInit => Inv
  BY DEF MessagesInit, AttemptsOver, Mail!Init, MailOver, Hook!Init, HookOver, MailEndsInv,
         HookEndsInv, Mail!ReasonIsKept
<1>2. [MessagesNext]_Vars => [Mail!Next]_mailVars /\ [Hook!Next]_hookVars
  BY DEF MessagesNext, attemptVars
<1>3. TypesInv /\ Inv /\ [MessagesNext]_Vars => Inv'
  BY <1>2, MailEndsForReason, HookDialsAll DEF TypesInv, AttemptsInv
<1>4. TypesInv /\ Inv /\ [MessagesNext]_Vars
        => [Hook!DialFails /\ pc' = "idle" => looked \subseteq reached']_Hook!vars
  BY <1>2, HookDialsAll DEF TypesInv, AttemptsInv
<1>5. Inv => Mail!ReasonIsKept
  BY DEF MailEndsInv
<1> QED  BY <1>1, <1>3, <1>4, <1>5, TypesInvariance, PTL
            DEF MessagesSpec, EndsForReason, Hook!NoAddressSkipped
=============================================================================
