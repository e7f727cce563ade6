----------------------------- MODULE FlushProofs ------------------------------
(***************************************************************************)
(* Proofs about Flush, for any timeouts, intervals, payloads of whole      *)
(* records and buffer sizes.                                               *)
(***************************************************************************)
EXTENDS Flush, SequenceTheorems, WellFoundedInduction, TLAPS

\* A set of natural numbers that is not empty has a least element.
LEMMA LeastNatural ==
  ASSUME NEW S, S \subseteq Nat, S # {}
  PROVE  \E i \in S : \A j \in S : i <= j
<1>1. \E i \in S : \A j \in S : <<j, i>> \notin OpToRel(<, Nat)
  BY WFMin, NatLessThanWellFounded
<1>2. \A i, j \in S : <<j, i>> \notin OpToRel(<, Nat) => i <= j
  BY DEF OpToRel
<1> QED
  BY <1>1, <1>2

\* A payload of whole records has a separator behind any place inside it, so the loop
\* finds one, and what it drops ends with the first.
LEMMA DropsToSeparator ==
  ASSUME NEW p \in Seq(Byte), p # <<>>, IsWhole(p),
         NEW size \in Int, IsOversized(p, size), ~CutPanics(p, size)
  PROVE  /\ Start(size) \in Nat
         /\ Drops(p, size) \in (Start(size) + 1)..Len(p)
         /\ p[Drops(p, size)] = Sep
         /\ \A j \in (Start(size) + 1)..(Drops(p, size) - 1) : p[j] # Sep
<1> DEFINE S == SeparatorsFrom(p, size)
<1>1. Start(size) \in Nat /\ Start(size) < Len(p) /\ Len(p) \in Nat
  <2>1. Start(size) >= 0 /\ size < Len(p) /\ Len(p) \in Nat \ {0}
    BY EmptySeq DEF CutPanics, IsOversized, Start
  <2> QED
    BY <2>1 DEF Start
<1>2. S \subseteq (Start(size) + 1)..Len(p) /\ S \subseteq Nat
  BY <1>1 DEF SeparatorsFrom
<1>3. Len(p) \in S
  BY <1>1 DEF SeparatorsFrom, IsWhole
<1>4. \E i \in S : \A j \in S : i <= j
  BY <1>2, <1>3, LeastNatural
<1>5. Drops(p, size) \in S /\ \A j \in S : Drops(p, size) <= j
  BY <1>3, <1>4 DEF Drops
<1>6. \A j \in (Start(size) + 1)..(Drops(p, size) - 1) : p[j] # Sep
  <2> SUFFICES ASSUME NEW j \in (Start(size) + 1)..(Drops(p, size) - 1), p[j] = Sep
               PROVE  FALSE
    OBVIOUS
  <2>1. Drops(p, size) \in Nat /\ Drops(p, size) <= Len(p)
    BY <1>1, <1>2, <1>5
  <2>2. j \in S
    BY <1>1, <2>1 DEF SeparatorsFrom
  <2> QED
    BY <1>1, <1>5, <2>1, <2>2
<1> QED
  BY <1>1, <1>2, <1>5, <1>6 DEF SeparatorsFrom

\* A cut payload is the end of the payload behind the whole records that are dropped.
LEMMA CutKeepsWhole ==
  ASSUME NEW p \in Seq(Byte), p # <<>>, IsWhole(p),
         NEW size \in Int, ~CutPanics(p, size)
  PROVE  /\ Cut(p, size) \in Seq(Byte)
         /\ KeepsWhole(p, size, Cut(p, size))
<1>1. Len(p) \in Nat \ {0}
  BY EmptySeq
<1>2. CASE ~IsOversized(p, size)
  <2>1. Cut(p, size) = p /\ p = SubSeq(p, 1, Len(p))
    BY <1>2 DEF Cut
  <2> QED
    BY <1>1, <1>2, <2>1 DEF KeepsWhole
<1>3. CASE IsOversized(p, size)
  <2> DEFINE d == Drops(p, size)
  <2>1. /\ Start(size) \in Nat
        /\ d \in (Start(size) + 1)..Len(p)
        /\ p[d] = Sep
        /\ \A j \in (Start(size) + 1)..(d - 1) : p[j] # Sep
    BY <1>3, DropsToSeparator
  <2> DEFINE q == SubSeq(p, d + 1, Len(p))
  <2>2. Cut(p, size) = q
    BY <1>3 DEF Cut
  <2> HIDE DEF d
  <2>3. d \in 1..Len(p) /\ d > Start(size)
    BY <1>1, <2>1
  <2>4. d + 1 \in Int /\ Len(p) \in Int /\ \A i \in (d + 1)..Len(p) : p[i] \in Byte
    BY <1>1, <2>3
  <2>5. q \in Seq(Byte) /\ Len(q) = IF d + 1 <= Len(p) THEN Len(p) - (d + 1) + 1 ELSE 0
    BY <2>4, SubSeqProperties
  <2> HIDE DEF q
  <2>6. Len(p) - Len(q) = d
    BY <1>1, <2>3, <2>5
  <2> DEFINE n == Len(p) - Len(q)
  <2>7. q = SubSeq(p, n + 1, Len(p))
    BY <2>6 DEF q
  <2>8. /\ n # 0 /\ n > Start(size) /\ p[n] = Sep
        /\ \A i \in (Start(size) + 1)..(n - 1) : p[i] # Sep
    BY <1>1, <2>1, <2>3, <2>6
  <2> QED
    BY <1>3, <2>2, <2>5, <2>7, <2>8 DEF KeepsWhole
<1> QED
  BY <1>2, <1>3

-----------------------------------------------------------------------------
(***************************************************************************)
(* The number of records that are cut.                                     *)
(***************************************************************************)

\* The next multiple of n behind s is one more than s \div n times n.
LEMMA NextMultiple ==
  ASSUME NEW s \in Nat, NEW n \in Nat \ {0}, NEW d \in Nat,
         d > s, d % n = 0, \A i \in (s + 1)..(d - 1) : i % n # 0
  PROVE  d = n * ((s \div n) + 1)
<1>1. s \div n \in Nat /\ n * (s \div n) <= s /\ s < n * ((s \div n) + 1)
  <2>1. s = n * (s \div n) + (s % n) /\ s % n \in 0..(n - 1) /\ s \div n \in Int
    OBVIOUS
  <2> QED
    BY <2>1
<1> DEFINE q == s \div n
           e == n * (q + 1)
<1>2. PICK m \in Nat : d = n * m
  OBVIOUS
<1>3. \A a \in Nat : (n * a) % n = 0
  OBVIOUS
<1>4. e \in Nat /\ e % n = 0 /\ e > s
  BY <1>1, <1>3
<1>5. q \in Nat /\ n * q <= s
  BY <1>1
<1> HIDE DEF q
<1>6. m >= q + 1
  <2> SUFFICES ASSUME m <= q
               PROVE  FALSE
    BY <1>5
  <2>1. n * m <= n * q
    BY <1>5
  <2> QED
    BY <1>2, <1>5, <2>1
<1>7. d >= e
  BY <1>2, <1>5, <1>6
<1>8. ~(e < d)
  BY <1>4
<1> QED
  BY <1>4, <1>7, <1>8 DEF q

\* When all records have the same size, those that are dropped from an oversized payload
\* are as many as module Pusher says.
LEMMA CountsRecords ==
  ASSUME NEW p \in Seq(Byte), NEW q \in Seq(Byte), NEW most \in Int, NEW size \in 1..Len(p),
         AllOfSize(p, size), IsOversized(p, most), ~CutPanics(p, most),
         KeepsWhole(p, most, q)
  PROVE  Len(q) = Len(p) - size * RecordsDropped(size, most)
<1> DEFINE d == Len(p) - Len(q)
           s == Start(most)
<1>1. s \in Nat /\ size \in Nat \ {0} /\ Len(p) \in Nat /\ Len(q) \in Nat
  BY DEF CutPanics, Start
<1>2. d > s /\ p[d] = Sep /\ \A i \in (s + 1)..(d - 1) : p[i] # Sep
  BY DEF KeepsWhole
<1>3. d \in 1..Len(p) /\ d \in Nat
  BY <1>1, <1>2
<1>4. d % size = 0 /\ \A i \in (s + 1)..(d - 1) : i % size # 0
  <2> HIDE DEF d, s
  <2>1. \A i \in 1..Len(p) : p[i] = Sep <=> i % size = 0
    BY DEF AllOfSize
  <2>2. \A i \in (s + 1)..(d - 1) : i \in 1..Len(p)
    BY <1>1, <1>3
  <2> QED
    BY <1>2, <1>3, <2>1, <2>2
<1> HIDE DEF d, s
<1>5. d = size * ((s \div size) + 1)
  BY <1>1, <1>2, <1>3, <1>4, NextMultiple
<1>6. d = size * RecordsDropped(size, most)
  BY <1>5 DEF RecordsDropped, s
<1> QED
  BY <1>1, <1>3, <1>6 DEF d

-----------------------------------------------------------------------------

\* The initial state satisfies the inductive invariant.
LEMMA InitInd == Init => IndInv
<1> SUFFICES ASSUME Init
             PROVE  IndInv
  OBVIOUS
<1>1. TypeOK
  <2>1. limit \in Int
    BY PushAssumption DEF Init, PushInit, Caller, LimitsOf
  <2>2. payload \in Seq(Byte) /\ bufferSize \in Int /\ Len(resp) \in 0..1
    BY FlushAssumption DEF Init
  <2>3. pushTimeout \in Nat /\ retryInterval \in Nat
    BY PushAssumption DEF Init, PushInit
  <2>4. ctxDone \in BOOLEAN /\ live \in BOOLEAN
    BY DEF Init, PushInit
  <2> QED
    BY <2>1, <2>2, <2>3, <2>4 DEF Init, PushInit, TypeOK, At, Request
<1>2. IntervalIsTime /\ OkMeansTaken /\ DoneNeverSends /\ WholeRecords
  <2>1. IntervalIsTime
    BY <1>1 DEF Init, PushInit, IntervalIsTime, TypeOK
  <2>2. DOMAIN resp = {}
    BY DEF Init
  <2> QED
    BY <2>1, <2>2 DEF Init, PushInit, OkMeansTaken, DoneNeverSends,
                      WholeRecords
<1>3. Answered
  BY FlushAssumption DEF Init, Answered
<1>4. Called
  BY PushAssumption DEF Init, PushInit, Called, LimitsOf, Caller
<1>5. Timed /\ EndsInTime
  <2>1. Limit \in Nat /\ LastWake \in Nat /\ LastMoment \in Nat
    BY <1>1 DEF TypeOK, Limit, LastWake, LastMoment
  <2> QED
    BY <1>1, <2>1 DEF Init, PushInit, TypeOK, Timed, EndsInTime
<1> QED
  BY <1>1, <1>2, <1>3, <1>4, <1>5 DEF IndInv


\* The bounds on time are natural numbers, and those of different limits are ordered.
LEMMA BoundsTyped ==
  ASSUME TypeOK
  PROVE  /\ Limit \in Nat /\ LastWake \in Nat /\ LastMoment \in Nat
         /\ Limit <= LastWake /\ LastMoment = LastWake + pushTimeout
         /\ limit > 0 => Limit = limit
BY DEF TypeOK, Limit, LastWake, LastMoment

\* No step changes the parameters of the push, nor what does not depend on time.
LEMMA BoundsFixed ==
  ASSUME UNCHANGED parameters
  PROVE  LastWake' = LastWake /\ LastMoment' = LastMoment
BY DEF parameters, LastWake, LastMoment, Limit

\* No step spoils a type.
LEMMA NextTyped == TypeOK /\ [Next]_vars => TypeOK'
<1> SUFFICES ASSUME TypeOK, [Next]_vars
             PROVE  TypeOK'
  OBVIOUS
<1> USE DEF TypeOK, parameters
<1>1. CASE PushSteps /\ UNCHANGED <<bufferSize, payload, resp>>
  <2>1. CASE BackendAnswers
    BY <1>1, <2>1 DEF BackendAnswers, Request
  <2>2. CASE RequestSucceeds
    BY <1>1, <2>2 DEF RequestSucceeds, At
  <2>3. CASE RequestFails
    <3>1. interval' \in Nat /\ wake' \in Nat
      BY <2>3, PushAssumption DEF RequestFails, NextInterval
    <3>2. at' \in At
      BY <2>3 DEF RequestFails, At
    <3> QED
      BY <1>1, <2>3, <3>1, <3>2 DEF RequestFails
  <2>4. CASE WaitEnds \/ WaitCancelled
    BY <1>1, <2>4 DEF WaitEnds, WaitCancelled, At, Request
  <2>5. CASE Tick
    BY <1>1, <2>5 DEF Tick
  <2> QED
    BY <1>1, <2>1, <2>2, <2>3, <2>4, <2>5 DEF PushSteps
<1>2. CASE Cancelled
  BY <1>2 DEF Cancelled, CtxIsDone
<1>3. CASE Responds
  BY <1>3 DEF Responds, pushVars
<1>4. CASE UNCHANGED vars
  BY <1>4 DEF vars, pushVars
<1> QED
  BY <1>1, <1>2, <1>3, <1>4 DEF Next, Pushes

\* What each step does to the times.
LEMMA NextTimed == IndInv /\ [Next]_vars => (IntervalIsTime /\ Timed /\ EndsInTime)'
<1> SUFFICES ASSUME IndInv, [Next]_vars
             PROVE  (IntervalIsTime /\ Timed /\ EndsInTime)'
  OBVIOUS
<1> USE DEF IntervalIsTime, Timed, EndsInTime
<1>0. TypeOK /\ IntervalIsTime /\ Timed /\ EndsInTime /\ Called
  BY DEF IndInv
<1>1. /\ Limit \in Nat /\ LastWake \in Nat /\ LastMoment \in Nat
      /\ Limit <= LastWake /\ LastMoment = LastWake + pushTimeout
      /\ limit > 0 => Limit = limit
  BY <1>0, BoundsTyped
<1>2. CASE PushSteps /\ UNCHANGED <<bufferSize, payload, resp>>
  <2>1. UNCHANGED parameters
    BY <1>2 DEF PushSteps, BackendAnswers, RequestSucceeds, RequestFails, WaitEnds,
                WaitCancelled, Tick
  <2>2. LastWake' = LastWake /\ LastMoment' = LastMoment
    BY <2>1, BoundsFixed
  <2>3. UNCHANGED <<limit, pushTimeout, retryInterval>>
    BY <2>1 DEF parameters
  <2>4. CASE BackendAnswers
    BY <1>0, <2>2, <2>3, <2>4 DEF BackendAnswers
  <2>5. CASE RequestSucceeds \/ WaitCancelled
    BY <1>0, <2>2, <2>3, <2>5 DEF RequestSucceeds, WaitCancelled
  <2>6. CASE RequestFails
    <3>1. CASE GivesUp
      BY <1>0, <2>2, <2>3, <2>6, <3>1 DEF RequestFails
    <3>2. CASE ~GivesUp
      <4>1. /\ at = "attempt" /\ at' = "wait" /\ now' = now
            /\ interval' = NextInterval
        BY <2>6, <3>2 DEF RequestFails
      <4>2. PICK w \in (interval \div 2)..((3 * interval + 1) \div 2) : wake' = now + w
        BY <2>6, <3>2 DEF RequestFails
      <4>3. /\ interval \in Nat /\ now \in Nat /\ began \in Nat /\ limit \in Int
            /\ retryInterval \in Nat /\ interval <= now + retryInterval
        BY <1>0, <4>1 DEF TypeOK
      <4>4. limit >= 0 /\ (limit # 0 => now <= Limit)
        BY <1>1, <3>2, <4>3 DEF GivesUp
      <4>5. interval' <= interval + interval \div 2
        BY <4>1, <4>3, PushAssumption DEF NextInterval
      <4>6. interval' <= wake' + retryInterval
        BY <4>2, <4>3, <4>5, <4>1, PushAssumption DEF NextInterval
      <4>7. limit # 0 => wake' <= LastWake
        BY <1>1, <4>2, <4>3, <4>4 DEF LastWake
      <4>8. now' <= wake'
        BY <4>1, <4>2, <4>3
      <4> QED
        BY <1>0, <2>2, <2>3, <4>1, <4>4, <4>6, <4>7, <4>8 DEF TypeOK
    <3> QED
      BY <3>1, <3>2
  <2>7. CASE WaitEnds
    <3>1. at = "wait" /\ at' = "attempt" /\ began' = now /\ now' = now /\ wake <= now
      BY <1>0, <2>7 DEF WaitEnds, TypeOK
    <3> QED
      BY <1>0, <2>2, <2>3, <2>7, <3>1 DEF WaitEnds, TypeOK
  <2>8. CASE Tick
    <3>1. now' = now + 1 /\ UNCHANGED <<at, began, interval, wake>>
      BY <2>8 DEF Tick
    <3>2. at = "attempt" => now < began + pushTimeout
      BY <2>8 DEF Tick, RequestLive
    <3>3. at = "wait" => now < wake
      BY <2>8 DEF Tick
    <3>4. at \in {"attempt", "wait"}
      BY <2>8 DEF Tick
    <3> QED
      BY <1>0, <1>1, <2>2, <2>3, <3>1, <3>2, <3>3, <3>4 DEF TypeOK
  <2> QED
    BY <1>2, <2>4, <2>5, <2>6, <2>7, <2>8 DEF PushSteps
<1>3. CASE Cancelled \/ Responds \/ UNCHANGED vars
  <2>1. UNCHANGED <<parameters, now, at, began, interval, wake>>
    BY <1>3 DEF Cancelled, CtxIsDone, Responds, vars, pushVars, parameters
  <2>2. LastWake' = LastWake /\ LastMoment' = LastMoment
    BY <2>1, BoundsFixed
  <2> QED
    BY <1>0, <2>1, <2>2 DEF parameters
<1> QED
  BY <1>2, <1>3 DEF Next, Pushes


\* Nothing succeeds, fails or is taken against its context or its limit.
LEMMA NextCalled ==
  IndInv /\ [Next]_vars => (Called /\ OkMeansTaken /\ DoneNeverSends)'
<1> SUFFICES ASSUME IndInv, [Next]_vars
             PROVE  (Called /\ OkMeansTaken /\ DoneNeverSends)'
  OBVIOUS
<1> USE DEF Called, OkMeansTaken, DoneNeverSends, parameters
<1>0. TypeOK /\ Called /\ OkMeansTaken /\ DoneNeverSends
  BY DEF IndInv
<1>1. CASE BackendAnswers
  BY <1>0, <1>1 DEF BackendAnswers, RequestLive
<1>2. CASE RequestSucceeds
  BY <1>0, <1>2 DEF RequestSucceeds, RequestLive
<1>3. CASE RequestFails
  <2>1. at' = IF GivesUp THEN "failed" ELSE "wait"
    BY <1>3 DEF RequestFails
  <2>2. ~live => at' # "wait"
    BY <1>0, <2>1 DEF GivesUp
  <2> QED
    BY <1>0, <1>3, <2>1, <2>2 DEF RequestFails
<1>4. CASE WaitEnds \/ WaitCancelled
  BY <1>0, <1>4 DEF WaitEnds, WaitCancelled
<1>5. CASE Tick
  BY <1>0, <1>5 DEF Tick, RequestLive
<1>6. CASE Cancelled
  BY <1>0, <1>6 DEF Cancelled, CtxIsDone
<1>7. CASE Responds \/ UNCHANGED vars
  BY <1>0, <1>7 DEF Responds, vars, pushVars
<1> QED
  BY <1>1, <1>2, <1>3, <1>4, <1>5, <1>6, <1>7 DEF Next, Pushes, PushSteps

\* An answer is given after the outcome, and has its form.
LEMMA NextAnswered == IndInv /\ [Next]_vars => (Answered /\ WholeRecords)'
<1> SUFFICES ASSUME IndInv, [Next]_vars
             PROVE  (Answered /\ WholeRecords)'
  OBVIOUS
<1>0. TypeOK /\ Answered /\ WholeRecords
  BY DEF IndInv
<1>1. CASE Responds
  <2>1. UNCHANGED <<at, payload, bufferSize>> /\ Returned /\ resp = <<>>
    BY <1>1 DEF Responds, pushVars
  <2>2. /\ payload \in Seq(Byte) /\ payload # <<>> /\ IsWhole(payload)
        /\ bufferSize \in Int
    BY <1>0 DEF TypeOK, Answered
  <2> DEFINE panics == CutPanics(payload, bufferSize)
  <2> DEFINE kept == Cut(payload, bufferSize)
  <2>3. at = "failed" => resp' = IF panics THEN <<Panic>> ELSE <<kept>>
    BY <1>1 DEF Responds
  <2>4. at = "ok" => resp' = << <<>> >>
    BY <1>1 DEF Responds
  <2>5. panics => bufferSize < 0
    BY <2>2 DEF CutPanics, Start
  <2>6. ~panics => kept \in Seq(Byte) /\ KeepsWhole(payload, bufferSize, kept)
    BY <2>2, CutKeepsWhole
  <2>7. \A q \in Seq(Byte) : q # Panic
    BY DEF Panic, Byte, Sep
  <2> HIDE DEF panics, kept
  <2>8. WholeRecords'
    <3>1. CASE at = "ok"
      <4>1. at' = "ok" /\ DOMAIN resp' = {1} /\ resp'[1] = <<>> /\ resp'[1] # Panic
        BY <2>1, <2>4, <3>1 DEF Panic
      <4> QED
        BY <4>1 DEF WholeRecords
    <3>2. CASE at = "failed" /\ panics
      <4>1. DOMAIN resp' = {1} /\ resp'[1] = Panic
        BY <2>3, <3>2
      <4> QED
        BY <2>1, <2>5, <3>2, <4>1 DEF WholeRecords
    <3>3. CASE at = "failed" /\ ~panics
      <4>1. DOMAIN resp' = {1} /\ resp'[1] = kept
        BY <2>3, <3>3
      <4>2. kept # Panic /\ KeepsWhole(payload, bufferSize, kept)
        BY <2>6, <2>7, <3>3
      <4>3. payload' = payload /\ bufferSize' = bufferSize
        BY <2>1
      <4> QED
        BY <4>1, <4>2, <4>3 DEF WholeRecords
    <3> QED
      BY <2>1, <3>1, <3>2, <3>3 DEF Returned
  <2>9. /\ at' = at /\ CutPanics(payload', bufferSize') = CutPanics(payload, bufferSize)
        /\ at = "failed" => resp' = IF panics THEN <<Panic>> ELSE <<kept>>
        /\ panics <=> CutPanics(payload, bufferSize)
    BY <2>1, <2>3 DEF panics
  <2>10. (\A k \in DOMAIN resp :
            at = "failed" /\ resp[k] # Panic =>
              resp[k] \in Seq(Byte) /\ ~CutPanics(payload, bufferSize))'
    BY <2>6, <2>9
  <2> QED
    BY <2>1, <2>2, <2>8, <2>10 DEF Answered, Returned
<1>2. CASE Cancelled \/ UNCHANGED vars
  <2>1. UNCHANGED <<at, payload, bufferSize, resp>>
    BY <1>2 DEF Cancelled, CtxIsDone, vars, pushVars
  <2> QED
    BY <1>0, <2>1 DEF Answered, WholeRecords, Returned
<1>3. CASE Pushes
  <2>1. ~Returned /\ UNCHANGED <<payload, bufferSize, resp>>
    BY <1>3 DEF Pushes, PushSteps, BackendAnswers, RequestSucceeds, RequestFails, WaitEnds,
                WaitCancelled, Tick, Returned
  <2>2. resp = <<>>
    BY <1>0, <2>1 DEF Answered
  <2> QED
    BY <1>0, <2>1, <2>2 DEF Answered, WholeRecords
<1> QED
  BY <1>1, <1>2, <1>3 DEF Next

\* Every step keeps the inductive invariant.
LEMMA NextInd == IndInv /\ [Next]_vars => IndInv'
BY NextTyped, NextTimed, NextCalled, NextAnswered DEF IndInv

-----------------------------------------------------------------------------

\* IndInv holds in every behaviour of a push.
THEOREM Inductive == Spec => []IndInv
  BY InitInd, NextInd, PTL DEF Spec

\* TypeOK holds in every behaviour of a push.
THEOREM TypeCorrect == Spec => []TypeOK
<1>1. IndInv => TypeOK
  BY DEF IndInv
<1> QED
  BY <1>1, Inductive, PTL

\* Whatever the timeouts and intervals are, a push with a limit is over by LastMoment,
\* and one whose limit is past makes one request only.
THEOREM EndsByLastMoment == Spec => []EndsInTime
<1>1. IndInv => EndsInTime
  BY DEF IndInv
<1> QED
  BY <1>1, Inductive, PTL

\* What push reports as sent, the backend took (makeRequestFunc).
THEOREM SentMeansTaken == Spec => []OkMeansTaken
<1>1. IndInv => OkMeansTaken
  BY DEF IndInv
<1> QED
  BY <1>1, Inductive, PTL

\* Under a context that was done from the start nothing is ever sent: the reason why in
\* module Pusher a flush that is not live fails.
THEOREM NothingWhenDone == Spec => []DoneNeverSends
<1>1. IndInv => DoneNeverSends
  BY DEF IndInv
<1> QED
  BY <1>1, Inductive, PTL

\* For any payload of whole records and any buffer size, flush gives back whole records,
\* or panics because the buffer size is negative.
THEOREM CutsWholeRecords == Spec => []WholeRecords
<1>1. IndInv => WholeRecords
  BY DEF IndInv
<1> QED
  BY <1>1, Inductive, PTL

\* Module Pusher cuts as many records as Pusher.flush, byte by byte, whatever the size
\* of the records and of the buffer.
THEOREM CutCounted == Spec => []CutCountsRecords
<1>1. IndInv => CutCountsRecords
  <2> SUFFICES ASSUME IndInv, NEW k \in DOMAIN resp, NEW size \in 1..Len(payload),
                      AllOfSize(payload, size), at = "failed", resp[k] # Panic,
                      IsOversized(payload, bufferSize)
               PROVE  Len(resp[k]) = Len(payload) - size * RecordsDropped(size, bufferSize)
    BY DEF CutCountsRecords
  <2>1. payload \in Seq(Byte) /\ bufferSize \in Int
    BY DEF IndInv, TypeOK
  <2>2. ~CutPanics(payload, bufferSize) /\ payload # <<>> /\ IsWhole(payload)
    BY DEF IndInv, Answered
  <2>3. KeepsWhole(payload, bufferSize, resp[k])
    BY DEF IndInv, WholeRecords
  <2>4. resp[k] \in Seq(Byte)
    BY DEF IndInv, Answered
  <2> QED
    BY <2>1, <2>2, <2>3, <2>4, CountsRecords
<1> QED
  BY <1>1, Inductive, PTL

=============================================================================
