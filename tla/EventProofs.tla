------------------------------ MODULE EventProofs ------------------------------
(***************************************************************************)
(* Proofs about the telemetry events in Extension, on their way from the   *)
(* platform through the producer to the processor.                         *)
(*                                                                         *)
(* The first part is for any number of requests at one time, whatever goes *)
(* wrong: which events are still to come, and which have gone astray.  In  *)
(* the second part the producer handles one request at a time, so that the *)
(* events arrive in the order in which they were recorded.  Both are for   *)
(* any number of invocations and events, and in both modes unless the      *)
(* theorem says otherwise.                                                 *)
(***************************************************************************)
EXTENDS FlightProofs

-----------------------------------------------------------------------------
(***************************************************************************)
(* Sequences of events.                                                    *)
(***************************************************************************)

\* What is left of q when m elements after the first p are gone.
IsRest(r, q, p, m) ==
  /\ Len(r) = Len(q) - m
  /\ \A j \in 1..Len(r) : r[j] = q[IF j <= p THEN j ELSE j + m]

\* An event that comes last comes last of all.
LEMMA LastOfAll ==
  ASSUME NEW S, NEW b \in Seq(S), NEW s \in Seq(S), NEW t \in Seq(S), NEW e \in S
  PROVE  b \o s \o Append(t, e) = Append(b \o s \o t, e)
<1>1. <<e>> \in Seq(S) /\ b \o s \in Seq(S) /\ (b \o s) \o t \in Seq(S)
  BY ConcatProperties, ElementOfSeq
<1>2. Append(t, e) = t \o <<e>> /\ Append((b \o s) \o t, e) = ((b \o s) \o t) \o <<e>>
  BY <1>1, AppendIsConcat
<1>3. ((b \o s) \o t) \o <<e>> = (b \o s) \o (t \o <<e>>)
  BY <1>1, ConcatAssociative
<1> QED
  BY <1>2, <1>3

\* ConcatAssociative for three sequences that are given by name.
Associates(s, t, u) == (s \o t) \o u = s \o (t \o u)

LEMMA Associativity ==
  ASSUME NEW S, NEW s \in Seq(S), NEW t \in Seq(S), NEW u \in Seq(S)
  PROVE  Associates(s, t, u)
BY ConcatAssociative DEF Associates

\* Two parts make the whole, wherever it is cut.
LEMMA TwoParts ==
  ASSUME NEW S, NEW s \in Seq(S), NEW n \in 1..Len(s)
  PROVE  /\ SubSeq(s, 1, n) \in Seq(S)
         /\ SubSeq(s, n + 1, Len(s)) \in Seq(S)
         /\ SubSeq(s, 1, n) \o SubSeq(s, n + 1, Len(s)) = s
<1>1. Len(s) \in Nat
  BY LenProperties
<1>2. 1 \in 1..(Len(s) + 1) /\ n \in 1 - 1 .. Len(s) /\ Len(s) \in n..Len(s)
  BY <1>1
<1>3. SubSeq(s, 1, n) \o SubSeq(s, n + 1, Len(s)) = SubSeq(s, 1, Len(s))
  BY <1>2, ConcatAdjacentSubSeq
<1>4. \A i \in 1..Len(s) : s[i] \in S
  BY ElementOfSeq
<1>5. SubSeq(s, 1, n) \in Seq(S)
  <2>1. \A i \in 1..n : s[i] \in S
    BY <1>1, <1>4
  <2> QED
    BY <2>1, SubSeqProperties
<1>6. SubSeq(s, n + 1, Len(s)) \in Seq(S)
  <2>1. \A i \in (n + 1)..Len(s) : s[i] \in S
    BY <1>1, <1>4
  <2> QED
    BY <1>1, <2>1, SubSeqProperties
<1>7. SubSeq(s, 1, Len(s)) = s
  BY SubSeqFull
<1> QED
  BY <1>3, <1>5, <1>6, <1>7

\* Also behind others.
LEMMA CutInTwo ==
  ASSUME NEW S, NEW b \in Seq(S), NEW s \in Seq(S), NEW n \in 1..Len(s)
  PROVE  b \o SubSeq(s, 1, n) \o SubSeq(s, n + 1, Len(s)) = b \o s
<1> DEFINE x == SubSeq(s, 1, n)
           y == SubSeq(s, n + 1, Len(s))
<1>1. x \in Seq(S) /\ y \in Seq(S) /\ x \o y = s
  BY TwoParts
<1> HIDE DEF x, y
<1>2. Associates(b, x, y)
  BY <1>1, Associativity
<1>3. (b \o x) \o y = b \o s
  BY <1>1, <1>2 DEF Associates
<1> QED
  BY <1>3 DEF x, y

\* Between them, the parts have all elements.
LEMMA RangeOfParts ==
  ASSUME NEW S, NEW s \in Seq(S), NEW n \in 1..Len(s)
  PROVE  Range(s) = Range(SubSeq(s, 1, n)) \cup Range(SubSeq(s, n + 1, Len(s)))
<1> DEFINE x == SubSeq(s, 1, n)
           y == SubSeq(s, n + 1, Len(s))
<1>1. x \in Seq(S) /\ y \in Seq(S) /\ x \o y = s
  BY TwoParts
<1> HIDE DEF x, y
<1>2. Range(s) = Range(x) \cup Range(y)
  BY <1>1, RangeConcatenation
<1> QED
  BY <1>2 DEF x, y

\* The first element and the others.
LEMMA RangeOfTail ==
  ASSUME NEW S, NEW s \in Seq(S), s # <<>>
  PROVE  Range(s) = {Head(s)} \cup Range(Tail(s))
<1>1. /\ Tail(s) \in Seq(S) /\ Len(Tail(s)) = Len(s) - 1 /\ Head(s) = s[1]
      /\ \A i \in 1..Len(Tail(s)) : Tail(s)[i] = s[i + 1]
  BY HeadTailProperties
<1>2. Len(s) \in Nat /\ DOMAIN s = 1..Len(s) /\ DOMAIN Tail(s) = 1..Len(Tail(s))
  BY <1>1, LenProperties
<1>3. Len(s) # 0
  BY EmptySeq
<1>4. ASSUME NEW i \in DOMAIN s
      PROVE  s[i] \in {Head(s)} \cup Range(Tail(s))
  <2>1. i = 1 \/ (i - 1 \in DOMAIN Tail(s) /\ (i - 1) + 1 = i)
    BY <1>1, <1>2
  <2> QED
    BY <1>1, <1>2, <2>1 DEF Range
<1>5. ASSUME NEW i \in DOMAIN Tail(s)
      PROVE  Tail(s)[i] \in Range(s)
  <2>1. i + 1 \in DOMAIN s
    BY <1>1, <1>2
  <2> QED
    BY <1>1, <1>2, <2>1 DEF Range
<1>6. Head(s) \in Range(s)
  BY <1>1, <1>2, <1>3 DEF Range
<1> QED
  BY <1>4, <1>5, <1>6 DEF Range

\* The elements of a queue to which one was added.
LEMMA Grown ==
  ASSUME NEW S, NEW q \in Seq(S), NEW e \in S
  PROVE  /\ DOMAIN q = 1..Len(q) /\ Len(q) \in Nat
         /\ DOMAIN Append(q, e) = 1..(Len(q) + 1)
         /\ \A j \in 1..Len(q) : Append(q, e)[j] = q[j]
         /\ Append(q, e)[Len(q) + 1] = e
<1>1. Append(q, e) \in Seq(S) /\ Len(Append(q, e)) = Len(q) + 1
  BY AppendProperties
<1>2. DOMAIN Append(q, e) = 1..(Len(q) + 1)
  BY <1>1, LenProperties
<1> QED
  BY <1>2, AppendProperties, LenProperties

\* They are those that were there, and the new one.
LEMMA RangeOfGrown ==
  ASSUME NEW S, NEW q \in Seq(S), NEW e \in S
  PROVE  Range(Append(q, e)) = Range(q) \cup {e}
<1>1. \A j \in DOMAIN Append(q, e) : j \in DOMAIN q \/ j = Len(q) + 1
  BY Grown
<1>2. \A j \in DOMAIN q : j \in DOMAIN Append(q, e) /\ Append(q, e)[j] = q[j]
  BY Grown
<1>3. Len(q) + 1 \in DOMAIN Append(q, e) /\ Append(q, e)[Len(q) + 1] = e
  BY Grown
<1> QED
  BY <1>1, <1>2, <1>3 DEF Range

\* What is left behind the first part.
LEMMA RestBehind ==
  ASSUME NEW S, NEW s \in Seq(S), NEW t \in Seq(S)
  PROVE  IsRest(t, s \o t, 0, Len(s))
<1>1. Len(s) \in Nat /\ Len(t) \in Nat /\ Len(s \o t) = Len(s) + Len(t)
  BY ConcatProperties, LenProperties
<1>2. \A j \in 1..Len(t) : (s \o t)[j + Len(s)] = t[j]
  BY <1>1, ConcatProperties
<1> QED
  BY <1>1, <1>2 DEF IsRest

\* What is left when a part is cut out behind the first one.
LEMMA RestAround ==
  ASSUME NEW S, NEW b \in Seq(S), NEW s \in Seq(S), NEW n \in 1..Len(s)
  PROVE  IsRest(b \o SubSeq(s, n + 1, Len(s)), b \o s, Len(b), n)
<1> DEFINE t == SubSeq(s, n + 1, Len(s))
<1>1. Len(b) \in Nat /\ Len(s) \in Nat /\ n \in Nat /\ n <= Len(s)
  BY LenProperties
<1>2. \A i \in (n + 1)..Len(s) : s[i] \in S
  BY <1>1, ElementOfSeq
<1>3. /\ t \in Seq(S) /\ Len(t) = Len(s) - n
      /\ \A i \in 1..(Len(s) - n) : t[i] = s[i + n]
  <2>1. Len(t) = (IF n + 1 <= Len(s) THEN Len(s) - (n + 1) + 1 ELSE 0) /\ t \in Seq(S)
    BY <1>1, <1>2, SubSeqProperties
  <2>2. \A i \in 1..(Len(s) - (n + 1) + 1) : t[i] = s[n + 1 + i - 1]
    BY <1>1, <1>2, SubSeqProperties
  <2> QED
    BY <1>1, <2>1, <2>2
<1> HIDE DEF t
<1>4. /\ Len(b \o t) = Len(b) + Len(t) /\ Len(b \o s) = Len(b) + Len(s)
      /\ \A i \in 1..(Len(b) + Len(t)) : (b \o t)[i] = IF i <= Len(b) THEN b[i] ELSE t[i - Len(b)]
      /\ \A i \in 1..(Len(b) + Len(s)) : (b \o s)[i] = IF i <= Len(b) THEN b[i] ELSE s[i - Len(b)]
  BY <1>3, ConcatProperties
<1>5. ASSUME NEW j \in 1..(Len(b) + Len(t))
      PROVE  (b \o t)[j] = (b \o s)[IF j <= Len(b) THEN j ELSE j + n]
  <2>1. CASE j <= Len(b)
    <3>1. j \in 1..(Len(b) + Len(s))
      BY <1>1, <2>1
    <3> QED
      BY <1>4, <2>1, <3>1
  <2>2. CASE ~(j <= Len(b))
    <3>1. /\ j + n \in 1..(Len(b) + Len(s)) /\ ~(j + n <= Len(b))
          /\ j - Len(b) \in 1..(Len(s) - n) /\ (j + n) - Len(b) = (j - Len(b)) + n
      BY <1>1, <1>3, <2>2
    <3> QED
      BY <1>3, <1>4, <2>2, <3>1
  <2> QED
    BY <2>1, <2>2
<1>6. Len(b \o t) = Len(b \o s) - n
  BY <1>1, <1>3, <1>4
<1> QED
  BY <1>4, <1>5, <1>6 DEF IsRest, t

\* Nothing is gone.
LEMMA RestOfAll ==
  ASSUME NEW S, NEW q \in Seq(S)
  PROVE  IsRest(q, q, 0, 0)
<1>1. Len(q) \in Nat
  BY LenProperties
<1>2. Len(q) = Len(q) - 0 /\ \A j \in 1..Len(q) : j + 0 = j
  BY <1>1
<1> QED
  BY <1>2 DEF IsRest

\* The first of all is the first of the first part, and goes with it.
LEMMA FirstOfAll ==
  ASSUME NEW S, NEW b \in Seq(S), NEW s \in Seq(S), NEW t \in Seq(S), b # <<>>
  PROVE  /\ b \o s \o t \in Seq(S)
         /\ 1 \in DOMAIN (b \o s \o t)
         /\ (b \o s \o t)[1] = Head(b)
         /\ IsRest(Tail(b) \o s \o t, b \o s \o t, 0, 1)
<1> DEFINE u == s \o t
<1>1. u \in Seq(S) /\ Tail(b) \in Seq(S) /\ Len(Tail(b)) = Len(b) - 1
  BY ConcatProperties, HeadTailProperties
<1>2. b \o s \o t = b \o u /\ Tail(b) \o s \o t = Tail(b) \o u
  <2>1. (b \o s) \o t = b \o (s \o t)
    BY ConcatAssociative
  <2>2. (Tail(b) \o s) \o t = Tail(b) \o (s \o t)
    BY <1>1, ConcatAssociative
  <2> QED
    BY <2>1, <2>2
<1>3. Len(b) \in Nat /\ Len(u) \in Nat /\ Len(b) # 0
  BY <1>1, LenProperties, EmptySeq
<1> HIDE DEF u
<1>4. /\ b \o u \in Seq(S) /\ Len(b \o u) = Len(b) + Len(u)
      /\ \A i \in 1..(Len(b) + Len(u)) :
           (b \o u)[i] = IF i <= Len(b) THEN b[i] ELSE u[i - Len(b)]
  BY <1>1, ConcatProperties
<1>5. /\ Tail(b) \o u \in Seq(S) /\ Len(Tail(b) \o u) = Len(b) - 1 + Len(u)
      /\ \A i \in 1..(Len(b) - 1 + Len(u)) :
           (Tail(b) \o u)[i] = IF i <= Len(b) - 1 THEN b[i + 1] ELSE u[i - (Len(b) - 1)]
  <2>1. \A i \in 1..(Len(b) - 1) : Tail(b)[i] = b[i + 1]
    BY <1>1, HeadTailProperties
  <2> QED
    BY <1>1, <1>3, <2>1, ConcatProperties
<1>6. DOMAIN (b \o u) = 1..Len(b \o u) /\ Head(b) = b[1]
  BY <1>4, LenProperties
<1>7. IsRest(Tail(b) \o u, b \o u, 0, 1)
  <2>1. ASSUME NEW j \in 1..(Len(b) - 1 + Len(u))
        PROVE  (Tail(b) \o u)[j] = (b \o u)[j + 1]
    <3>1. /\ j + 1 \in 1..(Len(b) + Len(u))
          /\ j + 1 <= Len(b) <=> j <= Len(b) - 1
          /\ (j + 1) - Len(b) = j - (Len(b) - 1)
      BY <1>3
    <3> QED
      BY <1>4, <1>5, <3>1
  <2>2. /\ Len(Tail(b) \o u) = Len(b \o u) - 1
        /\ \A j \in 1..(Len(b) - 1 + Len(u)) : ~(j <= 0)
    BY <1>3, <1>4, <1>5
  <2> QED
    BY <1>5, <2>1, <2>2 DEF IsRest
<1>8. 1 \in DOMAIN (b \o u) /\ (b \o u)[1] = Head(b)
  BY <1>3, <1>4, <1>6
<1> QED
  BY <1>2, <1>4, <1>7, <1>8

-----------------------------------------------------------------------------
(***************************************************************************)
(* What the steps do to the events on their way.                           *)
(***************************************************************************)

\* Of what the queue consists.
LEMMA QueueTyped ==
  ASSUME IndInv, NEW k \in Handlers
  PROVE  /\ batch \in Seq(R!Event) /\ Sending(k) \in Seq(R!Event) /\ stream \in Seq(R!Event)
         /\ Queue(k) \in Seq(R!Event)
         /\ Len(Queue(k)) \in Nat /\ DOMAIN Queue(k) = 1..Len(Queue(k))
         /\ \A j \in DOMAIN Queue(k) : Queue(k)[j] \in R!Event
         /\ posted[k] # Idle => posted[k] = <<Sending(k)>>
<1>1. batch \in Seq(R!Event) /\ stream \in Seq(R!Event)
  BY DEF IndInv, R!IndInv, R!TypeOK, EventsOnTheWay
<1>2. Sending(k) \in Seq(R!Event) /\ (posted[k] # Idle => posted[k] = <<Sending(k)>>)
  <2>1. CASE posted[k] = Idle
    BY <2>1, EmptySeq DEF Sending
  <2>2. CASE posted[k] # Idle
    <3>1. PICK m \in R!Message : posted[k] = <<m>>
      BY <2>2 DEF IndInv, EventsOnTheWay, PostStates
    <3> QED
      BY <2>2, <3>1, MessageLength DEF Sending
  <2> QED
    BY <2>1, <2>2
<1>3. Queue(k) \in Seq(R!Event)
  BY <1>1, <1>2, ConcatProperties DEF Queue
<1>4. Len(Queue(k)) \in Nat /\ DOMAIN Queue(k) = 1..Len(Queue(k))
  BY <1>3, LenProperties
<1> QED
  BY <1>1, <1>2, <1>3, <1>4, ElementOfSeq

LEMMA QueueIsSequence == IndInv => \A k \in Handlers : Queue(k) \in Seq(R!Event)
  BY QueueTyped

LEMMA QueuesStaySequences == IndInv' => (\A k \in Handlers : Queue(k) \in Seq(R!Event))'
  BY QueueIsSequence, PTL

LEMMA QueueStaysSequence ==
  ASSUME IndInv', NEW k \in Handlers
  PROVE  Queue(k)' \in Seq(R!Event)
<1>1. \A x \in Handlers : (Queue(x) \in Seq(R!Event))'
  BY QueuesStaySequences
<1> QED
  BY <1>1

\* The requests that events are about are numbers, and their types have an order.
LEMMA EventTyped ==
  ASSUME NEW e \in R!Event
  PROVE  /\ e.req \in Invocations /\ e.req \in Nat /\ e.req # 0
         /\ e.type \in {"start", "function", "runtimeDone", "other", "report"}
         /\ Phase(e.type) \in 0..4
         /\ Phase(e.type) = 0 <=> e.type = "start"
         /\ Phase(e.type) = 1 <=> e.type = "function"
         /\ Phase(e.type) = 2 <=> e.type = "runtimeDone"
         /\ Phase(e.type) = 3 <=> e.type = "other"
         /\ Phase(e.type) = 4 <=> e.type = "report"
<1>1. e.req \in Invocations /\ e.type \in {"start", "function", "runtimeDone", "other", "report"}
  BY DEF R!Event, R!EventType
<1>2. e.req \in Nat /\ e.req # 0
  BY <1>1, ExtensionAssumption DEF Invocations
<1> QED
  BY <1>1, <1>2 DEF Phase

\* How the function and its invocation are when the platform records an event of a type.
Records(type) ==
  CASE type = "start"       -> fn = "idle" /\ fn' = "running" /\ inv' = inv + 1
    [] type = "function"    -> fn = "running" /\ UNCHANGED <<fn, inv>>
    [] type = "runtimeDone" -> fn = "running" /\ fn' = "ended" /\ inv' = inv
    [] type = "other"       -> fn = "ended" /\ UNCHANGED <<fn, inv>>
    [] type = "report"      -> fn = "ended" /\ fn' = "idle" /\ inv' = inv

\* The form in which it records an event.
RecordsForm(e) ==
  \/ e.form = "ok"
  \/ /\ e.form \in {"partial", "unbilled"}
     /\ e.type \in {"runtimeDone", "report"}
     /\ e.req \in astray'

\* What the platform records comes last, and is of the current invocation.
LEMMA EventAppended ==
  ASSUME IndInv, InvokeStarts \/ FunctionRuns
  PROVE  /\ \E e \in R!Event :
              stream' = Append(stream, e) /\ e.req = inv' /\ Records(e.type) /\ RecordsForm(e)
         /\ astray \subseteq astray'
         /\ UNCHANGED <<posted, batch, durations, out, inClosed, doneFlag, requestID, announced>>
<1>1. UNCHANGED <<posted, batch, durations, out, inClosed, doneFlag, requestID, announced>>
  BY DEF InvokeStarts, FunctionRuns, producerVars, rvars
<1>2. astray \subseteq astray'
  BY DEF InvokeStarts, FunctionRuns, hist, Strays
<1>3. \E t \in R!EventType, form \in {"ok", "partial", "unbilled"} :
        /\ stream' = RecordedAs(form, t, inv') /\ Records(t) /\ inv' \in Invocations
        /\ form = "unbilled" => t = "report"
        /\ form # "ok" => t \in {"runtimeDone", "report"} /\ inv' \in astray'
  <2>1. CASE InvokeStarts
    <3>1. /\ inv' = inv + 1 /\ fn = "idle" /\ fn' = "running"
          /\ stream' = RecordedAs("ok", "start", inv') /\ inv' \in Invocations
      BY <2>1, Lengths DEF InvokeStarts, GetInvoke, FunctionStarts, Invocations, Recorded
    <3> QED
      BY <3>1 DEF Records, R!EventType
  <2>2. CASE FunctionRuns
    <3>1. inv' = inv /\ inv \in Invocations
      <4>1. inv' = inv /\ fn # "idle"
        BY <2>2 DEF FunctionRuns, workerVars, FunctionLogs, OtherEvent, FunctionEnds, Reports
      <4> QED
        BY <4>1, Lengths DEF IndInv, EventsOnTheWay, Invocations
    <3>2. CASE FunctionLogs(inv)
      BY <3>1, <3>2 DEF FunctionLogs, Records, R!EventType, Recorded
    <3>3. CASE OtherEvent(inv)
      BY <3>1, <3>3 DEF OtherEvent, Records, R!EventType, Recorded
    <3>4. CASE FunctionEnds(inv, "ok")
      BY <3>1, <3>4 DEF FunctionEnds, Records, R!EventType
    <3>5. CASE FunctionEnds(inv, "partial") /\ Strays({inv})
      BY <3>1, <3>5 DEF FunctionEnds, Records, R!EventType, Strays
    <3>6. CASE Reports(inv, "ok")
      BY <3>1, <3>6 DEF Reports, Records, R!EventType
    <3>7. ASSUME NEW form \in {"partial", "unbilled"}, Reports(inv, form), Strays({inv})
          PROVE  \E t \in R!EventType, f \in {"ok", "partial", "unbilled"} :
                   /\ stream' = RecordedAs(f, t, inv') /\ Records(t) /\ inv' \in Invocations
                   /\ f = "unbilled" => t = "report"
                   /\ f # "ok" => t \in {"runtimeDone", "report"} /\ inv' \in astray'
      BY <3>1, <3>7 DEF Reports, Records, R!EventType, Strays
    <3> QED
      BY <2>2, <3>2, <3>3, <3>4, <3>5, <3>6, <3>7 DEF FunctionRuns
  <2> QED
    BY <2>1, <2>2
<1>4. PICK t \in R!EventType, form \in {"ok", "partial", "unbilled"} :
        /\ stream' = RecordedAs(form, t, inv') /\ Records(t) /\ inv' \in Invocations
        /\ form = "unbilled" => t = "report"
        /\ form # "ok" => t \in {"runtimeDone", "report"} /\ inv' \in astray'
  BY <1>3
<1> DEFINE e == [type |-> t, req |-> inv', form |-> form]
<1>5. e \in R!Event /\ e.type = t /\ e.form = form /\ e.req = inv'
  BY <1>4 DEF R!Event, R!Form
<1>6. stream' = Append(stream, e)
  BY <1>4 DEF RecordedAs
<1> HIDE DEF e
<1>7. RecordsForm(e)
  BY <1>4, <1>5 DEF RecordsForm
<1> QED
  BY <1>1, <1>2, <1>4, <1>5, <1>6, <1>7

\* The steps that move no event.
LEMMA EventsElsewhere ==
  ASSUME [Next]_vars, ~InvokeStarts, ~FunctionRuns, ~(ProcessorRuns /\ R!ProcessEvent),
         \A k \in Handlers : ~Telemetry(k) /\ ~EventsTaken(k) /\ ~EventsPanic(k)
  PROVE  UNCHANGED <<batch, posted, stream, fn, inv, durations, astray>>
<1>1. UNCHANGED <<batch, durations>>
  BY DEF Next, Required, Optional, Ended, ProcessorRuns, RecordsTaken, RuntimeDone,
     PusherInvoke, ProcessorInvoke, Timeout, PusherDone, InvokeTimesOut, ForceRequested,
     InvokeReturns, PusherRuns, ShutdownEvent, CallStop, StopProducer, StopProcessor,
     StopPusher, Exit, Signal, NextEventFails, R!EndOfBatch, R!SendOut, R!SendRuntimeDone,
     R!RecvRequest, R!RecvStopR, R!SendStoppedR, rvars, vars
<1>2. UNCHANGED <<posted, stream, fn>>
  BY DEF Next, Required, Optional, Ended, ProcessorRuns, RecordsTaken, RuntimeDone,
     PusherInvoke, ProcessorInvoke, Timeout, PusherDone, InvokeTimesOut, ForceRequested,
     InvokeReturns, PusherRuns, ShutdownEvent, CallStop, StopProducer, StopProcessor,
     StopPusher, Exit, Signal, NextEventFails, BeginShutdown, EndShutdown, producerVars,
     platformVars, vars
<1>3. inv' = inv
  BY DEF Next, Required, Optional, Ended, ProcessorRuns, RecordsTaken, RuntimeDone,
     PusherInvoke, ProcessorInvoke, Timeout, PusherDone, InvokeTimesOut, ForceRequested,
     InvokeReturns, PusherRuns, ShutdownEvent, CallStop, StopProducer, StopProcessor,
     StopPusher, Exit, Signal, NextEventFails, PusherInvoked, ProcessorInvoked, SeeDoneC,
     SeeCtxDone, ForceReplied, ForceTimesOut, ForceSent, Return, GetShutdown, HGoes,
     HandlerCallsStop, SignalCallsStop, KillSleepEnds, StopSlept, ProducerShutDown,
     ProcessorStopSent, ProcessorStopped, PusherStopSent, PusherStopped, StopGoes,
     MainReturns, GetSignal, NextFails, workerVars, vars
<1>4. astray' = astray
  BY DEF Next, Required, Optional, Ended, ProcessorRuns, RecordsTaken, RuntimeDone,
     PusherInvoke, ProcessorInvoke, Timeout, PusherDone, InvokeTimesOut, ForceRequested,
     InvokeReturns, PusherRuns, ShutdownEvent, CallStop, StopProducer, StopProcessor,
     StopPusher, Exit, Signal, NextEventFails, hist, vars
<1> QED
  BY <1>1, <1>2, <1>3, <1>4

\* A handler posts the n oldest events, and the others do nothing.
LEMMA Posted ==
  ASSUME IndInv, NEW k \in Handlers, Telemetry(k)
  PROVE  /\ \E n \in 1..Len(stream) :
              /\ stream' = SubSeq(stream, n + 1, Len(stream))
              /\ posted[k] = Idle
              /\ \/ posted' = [posted EXCEPT ![k] = <<SubSeq(stream, 1, n)>>] /\ astray' = astray
                 \/ posted' = posted /\ astray' = astray \cup Losing(SubSeq(stream, 1, n))
         /\ UNCHANGED <<inv, fn, batch, durations, out, inClosed, doneFlag, requestID, announced>>
<1>1. PICK n \in 1..Len(stream) :
        /\ Posts(n)
        /\ \/ Post(k, SubSeq(stream, 1, n)) /\ UNCHANGED astray
           \/ PostRefused(k) /\ Strays(Losing(SubSeq(stream, 1, n)))
  BY DEF Telemetry
<1>2. UNCHANGED <<inv, fn, batch, durations, out, inClosed, doneFlag, requestID, announced>>
  BY <1>1 DEF Telemetry, Posts, workerVars, rvars
<1>3. stream' = SubSeq(stream, n + 1, Len(stream)) /\ posted[k] = Idle
  BY <1>1 DEF Posts, Post, PostRefused
<1> QED
  BY <1>1, <1>2, <1>3 DEF Post, PostRefused, Strays, producerVars

\* The processor receives the message of a handler.
LEMMA Received ==
  ASSUME IndInv, BatchOver, NEW k \in Handlers, EventsTaken(k)
  PROVE  /\ posted[k] # Idle /\ batch = <<>> /\ batch' = Sending(k)
         /\ posted' = [posted EXCEPT ![k] = Idle] /\ stream' = stream
         /\ UNCHANGED <<inv, fn, durations, out, inClosed, doneFlag, requestID, announced, astray>>
<1>1. /\ posted[k] # Idle /\ rpc = "select" /\ batch' = posted[k][1]
      /\ posted' = [posted EXCEPT ![k] = Idle] /\ stream' = stream
      /\ UNCHANGED <<inv, fn, durations, out, inClosed, doneFlag, requestID, announced, astray>>
  BY DEF EventsTaken, PostTaken, R!RecvEvents, workerVars, platformVars, hist
<1>2. batch = <<>> /\ posted[k][1] = Sending(k)
  BY <1>1 DEF BatchOver, Sending
<1> QED
  BY <1>1, <1>2

\* A message whose handler panics is lost, but only while the processor is stopped.
LEMMA Panicked ==
  ASSUME IndInv, BatchOver, NEW k \in Handlers, EventsPanic(k)
  PROVE  /\ inClosed /\ posted[k] # Idle /\ batch = <<>>
         /\ posted' = [posted EXCEPT ![k] = Idle]
         /\ astray' = astray \cup Losing(Sending(k))
         /\ UNCHANGED <<inv, fn, stream, batch, durations, out, inClosed, doneFlag, requestID,
                        announced>>
<1>1. /\ inClosed /\ posted[k] # Idle /\ posted' = [posted EXCEPT ![k] = Idle]
      /\ astray' = astray \cup Losing(posted[k][1])
      /\ UNCHANGED <<inv, fn, stream, batch, durations, out, inClosed, doneFlag, requestID,
                     announced>>
  BY DEF EventsPanic, PostPanics, Strays, workerVars, platformVars, rvars
<1>2. batch = <<>> /\ posted[k][1] = Sending(k)
  BY <1>1 DEF BatchOver, Sending, IndInv, StopStages
<1> QED
  BY <1>1, <1>2

\* The processor takes the first event of its message.
LEMMA Processed ==
  ASSUME IndInv, ProcessorRuns, R!ProcessEvent
  PROVE  /\ rpc = "batch" /\ ~inClosed /\ cause # "stop"
         /\ batch # <<>> /\ batch' = Tail(batch) /\ Head(batch) \in R!Event
         /\ LET e == Head(batch) IN
              /\ doneFlag' = IF e.type = "function" THEN doneFlag ELSE R!EndsRequest(e)
              /\ out' = IF R!MakesRecord(e) THEN Append(out, R!RecordOf(e)) ELSE out
              /\ durations' = [durations EXCEPT ![e.req] = R!DurationAfter(e)]
              /\ astray' = IF Overtakes(e) THEN astray \cup {e.req} ELSE astray
         /\ UNCHANGED <<inv, fn, posted, stream, inClosed, requestID, announced>>
<1>1. /\ rpc = "batch" /\ batch # <<>> /\ batch' = Tail(batch)
      /\ UNCHANGED <<inv, fn, inClosed, requestID, announced, posted, stream>>
  BY DEF ProcessorRuns, R!ProcessEvent, workerVars, producerVars, platformVars
<1>2. ~inClosed /\ cause # "stop"
  BY <1>1 DEF IndInv, StopStages
<1>3. Head(batch) \in R!Event
  <2>1. batch \in Seq(R!Event)
    BY DEF IndInv, R!IndInv, R!TypeOK
  <2> QED
    BY <1>1, <2>1, HeadTailProperties
<1> DEFINE e == Head(batch)
<1>4. /\ doneFlag' = IF e.type = "function" THEN doneFlag ELSE R!EndsRequest(e)
      /\ out' = IF R!MakesRecord(e) THEN Append(out, R!RecordOf(e)) ELSE out
      /\ durations' = [durations EXCEPT ![e.req] = R!DurationAfter(e)]
  BY DEF R!ProcessEvent
<1>5. astray' = IF Overtakes(e) THEN astray \cup {e.req} ELSE astray
  <2>1. ~R!EndOfBatch
    BY <1>1 DEF R!EndOfBatch
  <2> HIDE DEF e
  <2>2. IF Overtakes(e) THEN Strays({e.req}) ELSE UNCHANGED astray
    BY <2>1 DEF ProcessorRuns, e
  <2> QED
    BY <2>2 DEF Strays
<1> QED
  BY <1>1, <1>2, <1>3, <1>4, <1>5

\* What the other steps do to the processor.
LEMMA ProcessorElsewhere ==
  ASSUME [Next]_vars, ~(ProcessorRuns /\ R!ProcessEvent)
  PROVE  \/ \E k \in Handlers : R!RecvEvents(posted[k][1])
         \/ R!EndOfBatch \/ R!SendOut \/ R!SendRuntimeDone
         \/ ProcessorInvoke /\ R!RecvRequest(inv)
         \/ R!RecvStopR \/ R!SendStoppedR
         \/ UNCHANGED rvars
  BY DEF Next, Required, Optional, Ended, InvokeStarts, FunctionRuns, Telemetry, EventsTaken,
     EventsPanic, ProcessorRuns, RecordsTaken, RuntimeDone, PusherInvoke, ProcessorInvoke,
     Timeout, PusherDone, InvokeTimesOut, ForceRequested, InvokeReturns, PusherRuns,
     ShutdownEvent, CallStop, StopProducer, StopProcessor, StopPusher, Exit, Signal,
     NextEventFails, vars

\* The records of a message are handed over all at once.
LEMMA OutElsewhere ==
  ASSUME [Next]_vars, ~(ProcessorRuns /\ R!ProcessEvent)
  PROVE  out' = out \/ out' = <<>>
  BY ProcessorElsewhere DEF R!RecvEvents, R!EndOfBatch, R!SendOut, R!SendRuntimeDone,
     R!RecvRequest, R!RecvStopR, R!SendStoppedR, rvars

\* The processor does not leave a message before its end.
LEMMA BatchOverKept ==
  ASSUME IndInv, BatchOver, [Next]_vars
  PROVE  BatchOver'
  BY ProcessorSteps DEF BatchOver, R!Next, R!RecvEvents, R!ProcessEvent, R!EndOfBatch, R!SendOut,
     R!SendRuntimeDone, R!RecvRequest, R!RecvStopR, R!SendStoppedR, rvars

\* What the processor makes of an event.
LEMMA RecordMade ==
  ASSUME IndInv, NEW e \in R!Event
  PROVE  /\ R!RecordOf(e).span = "garbage" =>
              /\ e.type = "report" /\ durations[e.req] # "absent"
              /\ durations[e.req] = "started" \/ e.form = "unbilled"
         /\ R!RecordOf(e).req = e.req
         /\ R!RecordOf(e).id = (IF e.type = "function" THEN requestID ELSE e.req)
         /\ R!RecordOf(e).said = (IF e.type = "start" THEN e.req
                                  ELSE IF e.type = "runtimeDone" THEN requestID ELSE 0)
<1>1. e.type \in {"start", "function", "runtimeDone", "other", "report"} /\ e.form \in R!Form
  BY EventTyped DEF R!Event
<1>2. durations[e.req] \in {"absent", "started", "ended"}
  BY EventTyped DEF IndInv, R!IndInv, R!TypeOK, R!Duration
<1>3. /\ R!RecordOf(e).span = R!SpanOf(e)
      /\ R!RecordOf(e).req = e.req
      /\ R!RecordOf(e).id = R!StampOf(e)
      /\ R!RecordOf(e).said = R!SaidOf(e)
  BY DEF R!RecordOf
<1>4. R!SpanOf(e) = "garbage" =>
        /\ e.type = "report" /\ durations[e.req] # "absent"
        /\ durations[e.req] = "started" \/ e.form = "unbilled"
  BY <1>1, <1>2 DEF R!SpanOf, R!Form
<1> QED
  BY <1>1, <1>3, <1>4 DEF R!StampOf, R!SaidOf

\* A record has its type.
LEMMA EventRecordTyped ==
  ASSUME IndInv, NEW e \in R!Event
  PROVE  R!RecordOf(e) \in R!LogRecord
<1>1. /\ e.type \in R!EventType /\ e.req \in Invocations
      /\ requestID \in Invocations \cup {0}
  BY DEF R!Event, IndInv, R!IndInv, R!TypeOK
<1>2. R!SpanOf(e) \in {"none", "right", "garbage"}
  BY DEF R!SpanOf
<1>3. R!StampOf(e) \in Invocations \cup {0} /\ R!SaidOf(e) \in Invocations \cup {0}
  BY <1>1 DEF R!StampOf, R!SaidOf, R!EventType
<1> QED
  BY <1>1, <1>2, <1>3 DEF R!RecordOf, R!LogRecord

-----------------------------------------------------------------------------
(***************************************************************************)
(* First part: which events are on their way.                              *)
(***************************************************************************)

LEMMA InRange ==
  ASSUME NEW S, NEW s \in Seq(S)
  PROVE  Range(s) \subseteq S
BY ElementOfSeq, LenProperties DEF Range

\* They are events.
LEMMA WayTyped == IndInv => OnTheWay \subseteq R!Event
<1> SUFFICES ASSUME IndInv, NEW d \in OnTheWay
             PROVE  d \in R!Event
  OBVIOUS
<1>1. Range(batch) \subseteq R!Event /\ Range(stream) \subseteq R!Event
  <2>1. batch \in Seq(R!Event) /\ stream \in Seq(R!Event)
    BY DEF IndInv, R!IndInv, R!TypeOK, EventsOnTheWay
  <2> QED
    BY <2>1, InRange
<1>2. \A k \in Handlers : Range(Sending(k)) \subseteq R!Event
  BY QueueTyped, InRange
<1> QED
  BY <1>1, <1>2 DEF OnTheWay

\* One handler gets or loses its message.
LEMMA SendingAt ==
  ASSUME IndInv, NEW k \in Handlers, NEW p, posted' = [posted EXCEPT ![k] = p]
  PROVE  /\ Sending(k)' = (IF p = Idle THEN <<>> ELSE p[1])
         /\ \A x \in Handlers \ {k} : Sending(x)' = Sending(x)
BY DEF Sending, IndInv, EventsOnTheWay

\* What the platform records is added to them.
LEMMA WayGrows ==
  ASSUME IndInv, InvokeStarts \/ FunctionRuns
  PROVE  /\ \E e \in R!Event :
              OnTheWay' = OnTheWay \cup {e} /\ e.req = inv' /\ Records(e.type) /\ RecordsForm(e)
         /\ astray \subseteq astray'
         /\ UNCHANGED <<durations, out>>
<1>1. PICK e \in R!Event :
        stream' = Append(stream, e) /\ e.req = inv' /\ Records(e.type) /\ RecordsForm(e)
  BY EventAppended
<1>2. UNCHANGED <<posted, batch, durations, out>> /\ astray \subseteq astray'
  BY EventAppended
<1>3. Range(stream') = Range(stream) \cup {e}
  <2>1. stream \in Seq(R!Event)
    BY DEF IndInv, EventsOnTheWay
  <2> QED
    BY <1>1, <2>1, RangeOfGrown
<1>4. OnTheWay' = OnTheWay \cup {e}
  BY <1>2, <1>3 DEF OnTheWay, Sending
<1> QED
  BY <1>1, <1>2, <1>4

\* d is still on its way, or it does not matter that it is not.
Remains(d) ==
  d \in OnTheWay' \/ d.type \notin {"runtimeDone", "report"} \/ d.req \in astray'

\* An invocation whose end or report was in a message goes astray with it.
LEMMA LostIsAstray ==
  ASSUME NEW m \in Seq(R!Event), NEW d \in Range(m)
  PROVE  d.type \notin {"runtimeDone", "report"} \/ d.req \in Losing(m)
<1>1. PICK j \in DOMAIN m : d = m[j]
  BY DEF Range
<1>2. d \in R!Event
  BY InRange
<1>3. d.req \in Invocations
  BY <1>2, EventTyped
<1> QED
  BY <1>1, <1>3 DEF Losing

\* A message is posted, or refused.
LEMMA WayPosted ==
  ASSUME IndInv, NEW k \in Handlers, Telemetry(k)
  PROVE  /\ OnTheWay' \subseteq OnTheWay
         /\ \A d \in OnTheWay : Remains(d)
         /\ astray \subseteq astray'
         /\ UNCHANGED <<inv, fn, durations, out>>
<1>1. PICK n \in 1..Len(stream) :
        /\ stream' = SubSeq(stream, n + 1, Len(stream))
        /\ posted[k] = Idle
        /\ \/ posted' = [posted EXCEPT ![k] = <<SubSeq(stream, 1, n)>>] /\ astray' = astray
           \/ posted' = posted /\ astray' = astray \cup Losing(SubSeq(stream, 1, n))
  BY Posted
<1>2. UNCHANGED <<inv, fn, batch, durations, out>>
  BY Posted
<1> DEFINE m == SubSeq(stream, 1, n)
<1>3. m \in Seq(R!Event) /\ Range(stream) = Range(m) \cup Range(stream')
  <2>1. stream \in Seq(R!Event)
    BY DEF IndInv, EventsOnTheWay
  <2> QED
    BY <1>1, <2>1, TwoParts, RangeOfParts
<1>4. CASE posted' = [posted EXCEPT ![k] = <<m>>] /\ astray' = astray
  <2> HIDE DEF m
  <2>1. Sending(k)' = m /\ Sending(k) = <<>>
    <3>1. <<m>> # Idle /\ <<m>>[1] = m
      BY DEF Idle
    <3>2. Sending(k)' = (IF <<m>> = Idle THEN <<>> ELSE <<m>>[1])
      BY <1>4, SendingAt
    <3>3. Sending(k) = <<>>
      BY <1>1 DEF Sending
    <3> QED
      BY <3>1, <3>2, <3>3
  <2>2. \A x \in Handlers \ {k} : Sending(x)' = Sending(x)
    BY <1>4, SendingAt
  <2>3. Range(Sending(k)) = {}
    BY <2>1 DEF Range
  <2>4. Range(Sending(k)') = Range(m)
    BY <2>1
  <2>5. ASSUME NEW d \in OnTheWay'
        PROVE  d \in OnTheWay
    <3>1. \/ d \in Range(batch) \/ d \in Range(stream')
          \/ \E x \in Handlers : d \in Range(Sending(x)')
      BY <1>2 DEF OnTheWay
    <3> QED
      BY <1>3, <2>2, <2>4, <3>1 DEF OnTheWay
  <2>6. ASSUME NEW d \in OnTheWay
        PROVE  d \in OnTheWay'
    <3>1. \/ d \in Range(batch) \/ d \in Range(stream') \/ d \in Range(m)
          \/ \E x \in Handlers \ {k} : d \in Range(Sending(x))
      BY <1>3, <2>3 DEF OnTheWay
    <3> QED
      BY <1>2, <2>2, <2>4, <3>1 DEF OnTheWay
  <2> QED
    BY <1>2, <1>4, <2>5, <2>6 DEF Remains
<1>5. CASE posted' = posted /\ astray' = astray \cup Losing(m)
  <2>1. OnTheWay = OnTheWay' \cup Range(m)
    BY <1>2, <1>3, <1>5 DEF OnTheWay, Sending
  <2> HIDE DEF m
  <2>2. \A d \in Range(m) : d.type \notin {"runtimeDone", "report"} \/ d.req \in astray'
    BY <1>3, <1>5, LostIsAstray
  <2> QED
    BY <1>2, <1>5, <2>1, <2>2 DEF Remains
<1> QED
  BY <1>1, <1>4, <1>5

\* A message is received, or lost while the processor is stopped.
LEMMA WayTaken ==
  ASSUME IndInv, BatchOver, NEW k \in Handlers, EventsTaken(k) \/ EventsPanic(k)
  PROVE  /\ OnTheWay' \subseteq OnTheWay
         /\ \A d \in OnTheWay : Remains(d)
         /\ astray \subseteq astray'
         /\ UNCHANGED <<inv, fn, durations, out>>
<1>1. posted' = [posted EXCEPT ![k] = Idle] /\ batch = <<>> /\ stream' = stream
  BY Received, Panicked
<1>2. Sending(k)' = <<>> /\ \A x \in Handlers \ {k} : Sending(x)' = Sending(x)
  BY <1>1, SendingAt
<1>3. Range(batch) = {} /\ Range(Sending(k)') = {}
  BY <1>1, <1>2 DEF Range
<1>4. CASE EventsTaken(k)
  <2>1. batch' = Sending(k) /\ UNCHANGED <<inv, fn, durations, out, astray>>
    BY <1>4, Received
  <2>2. ASSUME NEW d
        PROVE  d \in OnTheWay' <=> d \in OnTheWay
    <3>1. d \in OnTheWay' <=> \/ d \in Range(Sending(k)) \/ d \in Range(stream)
                              \/ \E x \in Handlers \ {k} : d \in Range(Sending(x))
      BY <1>1, <1>2, <1>3, <2>1 DEF OnTheWay
    <3>2. d \in OnTheWay <=> \/ d \in Range(Sending(k)) \/ d \in Range(stream)
                             \/ \E x \in Handlers \ {k} : d \in Range(Sending(x))
      BY <1>3 DEF OnTheWay
    <3> QED
      BY <3>1, <3>2
  <2> QED
    BY <2>1, <2>2 DEF Remains
<1>5. CASE EventsPanic(k)
  <2>1. /\ batch' = batch /\ UNCHANGED <<inv, fn, durations, out>>
        /\ astray' = astray \cup Losing(Sending(k))
    BY <1>5, Panicked
  <2>2. ASSUME NEW d
        PROVE  d \in OnTheWay <=> d \in OnTheWay' \/ d \in Range(Sending(k))
    <3>1. d \in OnTheWay' <=> \/ d \in Range(stream)
                              \/ \E x \in Handlers \ {k} : d \in Range(Sending(x))
      BY <1>1, <1>2, <1>3, <2>1 DEF OnTheWay
    <3>2. d \in OnTheWay <=> \/ d \in Range(Sending(k)) \/ d \in Range(stream)
                             \/ \E x \in Handlers \ {k} : d \in Range(Sending(x))
      BY <1>3 DEF OnTheWay
    <3> QED
      BY <3>1, <3>2
  <2>3. \A d \in Range(Sending(k)) : d.type \notin {"runtimeDone", "report"} \/ d.req \in astray'
    BY <2>1, QueueTyped, LostIsAstray
  <2> QED
    BY <2>1, <2>2, <2>3 DEF Remains
<1> QED
  BY <1>4, <1>5

\* Every step but the platform's and the processor's.
LEMMA WayShrinks ==
  ASSUME IndInv, BatchOver, [Next]_vars, ~InvokeStarts, ~FunctionRuns,
         ~(ProcessorRuns /\ R!ProcessEvent)
  PROVE  /\ OnTheWay' \subseteq OnTheWay
         /\ \A d \in OnTheWay : Remains(d)
         /\ astray \subseteq astray'
         /\ UNCHANGED <<inv, fn, durations>>
<1>1. ASSUME NEW k \in Handlers, Telemetry(k) \/ EventsTaken(k) \/ EventsPanic(k)
      PROVE  /\ OnTheWay' \subseteq OnTheWay
             /\ \A d \in OnTheWay : Remains(d)
             /\ astray \subseteq astray'
             /\ UNCHANGED <<inv, fn, durations>>
  BY <1>1, WayPosted, WayTaken
<1>2. CASE \A k \in Handlers : ~Telemetry(k) /\ ~EventsTaken(k) /\ ~EventsPanic(k)
  <2>1. UNCHANGED <<batch, posted, stream, fn, inv, durations, astray>>
    BY <1>2, EventsElsewhere
  <2>2. OnTheWay' = OnTheWay
    BY <2>1 DEF OnTheWay, Sending
  <2> QED
    BY <2>1, <2>2 DEF Remains
<1> QED
  BY <1>1, <1>2

\* The processor takes one.
LEMMA WayProcessed ==
  ASSUME IndInv, ProcessorRuns, R!ProcessEvent
  PROVE  OnTheWay = OnTheWay' \cup {Head(batch)}
<1>1. batch # <<>> /\ batch' = Tail(batch) /\ UNCHANGED <<posted, stream>>
  BY Processed
<1>2. Range(batch) = {Head(batch)} \cup Range(batch')
  <2>1. batch \in Seq(R!Event)
    BY DEF IndInv, R!IndInv, R!TypeOK
  <2> QED
    BY <1>1, <2>1, RangeOfTail
<1> QED
  BY <1>1, <1>2 DEF OnTheWay, Sending

-----------------------------------------------------------------------------
(***************************************************************************)
(* What becomes of requestDurations.                                       *)
(***************************************************************************)

\* What is recorded is well formed, or astray.
LEMMA FormStaysKept ==
  ASSUME IndInv, BatchOver, FormKept, [Next]_vars
  PROVE  FormKept'
<1>1. CASE InvokeStarts \/ FunctionRuns
  <2>1. PICK e \in R!Event :
          OnTheWay' = OnTheWay \cup {e} /\ e.req = inv' /\ Records(e.type) /\ RecordsForm(e)
    BY <1>1, WayGrows
  <2>2. astray \subseteq astray' /\ inv \in Nat /\ inv' \in Nat
    BY <1>1, <2>1, WayGrows, Lengths, EventTyped
  <2>3. /\ fn' # "idle" => e.type # "report"
        /\ fn' = "running" => e.type # "runtimeDone"
        /\ inv' # inv => inv' = inv + 1
        /\ inv' = inv => fn # "idle" /\ (fn' = "running" => fn = "running")
    <3>1. e.type = "start" => fn' = "running" /\ inv' = inv + 1
      BY <2>1 DEF Records
    <3>2. e.type = "function" => fn = "running" /\ UNCHANGED <<fn, inv>>
      BY <2>1 DEF Records
    <3>3. e.type = "runtimeDone" => fn = "running" /\ fn' = "ended" /\ inv' = inv
      BY <2>1 DEF Records
    <3>4. e.type = "other" => fn = "ended" /\ UNCHANGED <<fn, inv>>
      BY <2>1 DEF Records
    <3>5. e.type = "report" => fn = "ended" /\ fn' = "idle" /\ inv' = inv
      BY <2>1 DEF Records
    <3> QED
      BY <2>2, <3>1, <3>2, <3>3, <3>4, <3>5, EventTyped
  <2>4. ASSUME NEW d \in OnTheWay
        PROVE  /\ d.req <= inv'
               /\ d.form = "ok" \/ (d.type \in {"runtimeDone", "report"} /\ d.req \in astray')
               /\ d.req = inv' /\ fn' # "idle" => d.type # "report"
               /\ d.req = inv' /\ fn' = "running" => d.type # "runtimeDone"
    <3>1. d \in R!Event /\ d.req \in Nat
      BY WayTyped, EventTyped
    <3>2. d.req <= inv /\ (d.req = inv' => inv' = inv)
      BY <2>2, <2>3, <3>1 DEF FormKept
    <3> QED
      BY <2>2, <2>3, <3>1, <3>2 DEF FormKept
  <2> QED
    BY <2>1, <2>2, <2>3, <2>4 DEF FormKept, RecordsForm
<1>2. CASE ProcessorRuns /\ R!ProcessEvent
  <2>1. OnTheWay' \subseteq OnTheWay /\ astray \subseteq astray' /\ UNCHANGED <<inv, fn>>
    BY <1>2, WayProcessed, Processed
  <2> QED
    BY <2>1 DEF FormKept
<1>3. CASE ~(InvokeStarts \/ FunctionRuns) /\ ~(ProcessorRuns /\ R!ProcessEvent)
  <2>1. OnTheWay' \subseteq OnTheWay /\ astray \subseteq astray' /\ UNCHANGED <<inv, fn>>
    BY <1>3, WayShrinks
  <2> QED
    BY <2>1 DEF FormKept
<1> QED
  BY <1>1, <1>2, <1>3

\* The entry of the event's request after it.
LEMMA EntryAfter ==
  ASSUME IndInv, FormKept, ProcessorRuns, R!ProcessEvent
  PROVE  LET e == Head(batch) IN
         /\ e \in OnTheWay
         /\ \A i \in Invocations : i # e.req => durations'[i] = durations[i]
         /\ durations'[e.req] # "absent" => e.type = "start" \/ durations[e.req] # "absent"
         /\ durations'[e.req] # "absent" => e.type # "report" \/ e.req \in astray
         /\ durations'[e.req] = "started" => e.type = "start" \/ durations[e.req] = "started"
         /\ durations'[e.req] = "started" => e.type # "runtimeDone" \/ e.req \in astray
<1> DEFINE e == Head(batch)
<1>1. /\ e \in R!Event /\ e \in OnTheWay
      /\ durations' = [durations EXCEPT ![e.req] = R!DurationAfter(e)]
  BY WayProcessed, Processed
<1> HIDE DEF e
<1>2. /\ durations \in [Invocations -> {"absent", "started", "ended"}]
      /\ e.req \in Invocations
      /\ e.type \in {"start", "function", "runtimeDone", "other", "report"}
  BY <1>1, EventTyped DEF IndInv, R!IndInv, R!TypeOK, R!Duration
<1>3. e.form = "ok" \/ (e.type \in {"runtimeDone", "report"} /\ e.req \in astray)
  BY <1>1 DEF FormKept
<1>4. /\ durations'[e.req] = R!DurationAfter(e)
      /\ \A i \in Invocations : i # e.req => durations'[i] = durations[i]
  BY <1>1, <1>2
<1>5. CASE e.form = "ok"
  <2>1. R!DurationAfter(e) =
          CASE e.type = "start" -> "started"
            [] e.type = "runtimeDone" /\ durations[e.req] # "absent" -> "ended"
            [] e.type = "report" -> "absent"
            [] OTHER -> durations[e.req]
    BY <1>2, <1>5 DEF R!DurationAfter
  <2> QED
    BY <1>1, <1>2, <1>4, <2>1 DEF e
<1>6. CASE e.type \in {"runtimeDone", "report"} /\ e.req \in astray
  <2>1. /\ R!DurationAfter(e) # "absent" => durations[e.req] # "absent"
        /\ R!DurationAfter(e) = "started" => durations[e.req] = "started"
    BY <1>2, <1>6 DEF R!DurationAfter
  <2> QED
    BY <1>1, <1>4, <1>6, <2>1 DEF e
<1> QED
  BY <1>3, <1>5, <1>6

\* The end of a request that has begun is still to come, or it is astray.
LEMMA EndStaysKept ==
  ASSUME IndInv, BatchOver, FormKept, EndKept, [Next]_vars
  PROVE  EndKept'
<1> SUFFICES ASSUME NEW i \in Invocations, durations'[i] = "started" \/ Coming("start", i)'
             PROVE  Coming("runtimeDone", i)' \/ (i = inv' /\ fn' = "running") \/ i \in astray'
  BY DEF EndKept
<1>1. CASE InvokeStarts \/ FunctionRuns
  <2>1. PICK e \in R!Event : OnTheWay' = OnTheWay \cup {e} /\ e.req = inv' /\ Records(e.type)
    BY <1>1, WayGrows
  <2>2. astray \subseteq astray' /\ durations' = durations
    BY <1>1, WayGrows
  <2>3. CASE e.type = "start" /\ e.req = i
    BY <2>1, <2>3 DEF Records
  <2>4. CASE ~(e.type = "start" /\ e.req = i)
    <3>1. durations[i] = "started" \/ Coming("start", i)
      BY <2>1, <2>2, <2>4 DEF Coming
    <3>2. Coming("runtimeDone", i) => Coming("runtimeDone", i)'
      BY <2>1 DEF Coming
    <3>3. i = inv /\ fn = "running" =>
            (i = inv' /\ fn' = "running") \/ (e.type = "runtimeDone" /\ e.req = i)
      BY <2>1, EventTyped DEF Records
    <3>4. e.type = "runtimeDone" /\ e.req = i => Coming("runtimeDone", i)'
      BY <2>1 DEF Coming
    <3> QED
      BY <2>2, <3>1, <3>2, <3>3, <3>4 DEF EndKept
  <2> QED
    BY <2>3, <2>4
<1>2. CASE ProcessorRuns /\ R!ProcessEvent
  <2> DEFINE e == Head(batch)
  <2>1. /\ OnTheWay = OnTheWay' \cup {e}
        /\ astray' = (IF Overtakes(e) THEN astray \cup {e.req} ELSE astray)
        /\ UNCHANGED <<inv, fn>>
    BY <1>2, WayProcessed, Processed
  <2>2. /\ i # e.req => durations'[i] = durations[i]
        /\ durations'[e.req] = "started" => e.type = "start" \/ durations[e.req] = "started"
        /\ durations'[e.req] = "started" => e.type # "runtimeDone" \/ e.req \in astray
    BY <1>2, EntryAfter
  <2> HIDE DEF e
  <2>3. Coming("start", i)' => Coming("start", i)
    BY <2>1 DEF Coming
  <2>4. durations[i] = "started" \/ Coming("start", i)
    <3>1. e.type = "start" /\ i = e.req => Coming("start", i)
      BY <2>1 DEF Coming
    <3> QED
      BY <2>2, <2>3, <3>1
  <2>5. CASE e.type = "runtimeDone" /\ e.req = i
    <3>1. Coming("start", i)' => i \in astray'
      BY <2>1, <2>3, <2>5 DEF Overtakes
    <3>2. durations'[i] = "started" => i \in astray'
      BY <2>1, <2>2, <2>5
    <3> QED
      BY <3>1, <3>2
  <2>6. CASE ~(e.type = "runtimeDone" /\ e.req = i)
    <3>1. Coming("runtimeDone", i) => Coming("runtimeDone", i)'
      BY <2>1, <2>6 DEF Coming
    <3> QED
      BY <2>1, <2>4, <3>1 DEF EndKept
  <2> QED
    BY <2>5, <2>6
<1>3. CASE ~(InvokeStarts \/ FunctionRuns) /\ ~(ProcessorRuns /\ R!ProcessEvent)
  <2>1. /\ OnTheWay' \subseteq OnTheWay /\ (\A d \in OnTheWay : Remains(d))
        /\ astray \subseteq astray' /\ UNCHANGED <<inv, fn, durations>>
    BY <1>3, WayShrinks
  <2>2. Coming("start", i)' => Coming("start", i)
    BY <2>1 DEF Coming
  <2>3. Coming("runtimeDone", i) => Coming("runtimeDone", i)' \/ i \in astray'
    BY <2>1 DEF Coming, Remains
  <2> QED
    BY <2>1, <2>2, <2>3 DEF EndKept
<1> QED
  BY <1>1, <1>2, <1>3

\* And so is its report.
LEMMA ReportStaysKept ==
  ASSUME IndInv, BatchOver, FormKept, ReportKept, [Next]_vars
  PROVE  ReportKept'
<1> SUFFICES ASSUME NEW i \in Invocations, durations'[i] # "absent" \/ Coming("start", i)'
             PROVE  ReportComes(i)' \/ i \in astray'
  BY DEF ReportKept
<1>1. CASE InvokeStarts \/ FunctionRuns
  <2>1. PICK e \in R!Event : OnTheWay' = OnTheWay \cup {e} /\ e.req = inv' /\ Records(e.type)
    BY <1>1, WayGrows
  <2>2. astray \subseteq astray' /\ durations' = durations
    BY <1>1, WayGrows
  <2>3. CASE e.type = "start" /\ e.req = i
    BY <2>1, <2>3 DEF Records, ReportComes
  <2>4. CASE ~(e.type = "start" /\ e.req = i)
    <3>1. durations[i] # "absent" \/ Coming("start", i)
      BY <2>1, <2>2, <2>4 DEF Coming
    <3>2. Coming("report", i) => Coming("report", i)'
      BY <2>1 DEF Coming
    <3>3. i = inv /\ fn # "idle" =>
            (i = inv' /\ fn' # "idle") \/ (e.type = "report" /\ e.req = i)
      BY <2>1, EventTyped DEF Records
    <3>4. e.type = "report" /\ e.req = i => Coming("report", i)'
      BY <2>1 DEF Coming
    <3> QED
      BY <2>2, <3>1, <3>2, <3>3, <3>4 DEF ReportKept, ReportComes
  <2> QED
    BY <2>3, <2>4
<1>2. CASE ProcessorRuns /\ R!ProcessEvent
  <2> DEFINE e == Head(batch)
  <2>1. /\ OnTheWay = OnTheWay' \cup {e}
        /\ astray' = (IF Overtakes(e) THEN astray \cup {e.req} ELSE astray)
        /\ UNCHANGED <<inv, fn>>
    BY <1>2, WayProcessed, Processed
  <2>2. /\ i # e.req => durations'[i] = durations[i]
        /\ durations'[e.req] # "absent" => e.type = "start" \/ durations[e.req] # "absent"
        /\ durations'[e.req] # "absent" => e.type # "report" \/ e.req \in astray
    BY <1>2, EntryAfter
  <2> HIDE DEF e
  <2>3. Coming("start", i)' => Coming("start", i)
    BY <2>1 DEF Coming
  <2>4. durations[i] # "absent" \/ Coming("start", i)
    <3>1. e.type = "start" /\ i = e.req => Coming("start", i)
      BY <2>1 DEF Coming
    <3> QED
      BY <2>2, <2>3, <3>1
  <2>5. CASE e.type = "report" /\ e.req = i
    <3>1. Coming("start", i)' => i \in astray'
      BY <2>1, <2>3, <2>5 DEF Overtakes
    <3> QED
      BY <2>1, <2>2, <2>5, <3>1
  <2>6. CASE ~(e.type = "report" /\ e.req = i)
    <3>1. Coming("report", i) => Coming("report", i)'
      BY <2>1, <2>6 DEF Coming
    <3> QED
      BY <2>1, <2>4, <3>1 DEF ReportKept, ReportComes
  <2> QED
    BY <2>5, <2>6
<1>3. CASE ~(InvokeStarts \/ FunctionRuns) /\ ~(ProcessorRuns /\ R!ProcessEvent)
  <2>1. /\ OnTheWay' \subseteq OnTheWay /\ (\A d \in OnTheWay : Remains(d))
        /\ astray \subseteq astray' /\ UNCHANGED <<inv, fn, durations>>
    BY <1>3, WayShrinks
  <2>2. Coming("start", i)' => Coming("start", i)
    BY <2>1 DEF Coming
  <2>3. Coming("report", i) => Coming("report", i)' \/ i \in astray'
    BY <2>1 DEF Coming, Remains
  <2> QED
    BY <2>1, <2>2, <2>3 DEF ReportKept, ReportComes
<1> QED
  BY <1>1, <1>2, <1>3

\* The record that the processor adds computes a duration without an End only for a
\* request that is astray.
LEMMA SpansKept ==
  ASSUME IndInv, BatchOver, FormKept, EndKept, SpansRight, [Next]_vars
  PROVE  SpansRight'
<1>1. out \in Seq(R!LogRecord)
  BY DEF IndInv, R!IndInv, R!TypeOK
<1>2. astray \subseteq astray'
  BY WayGrows, WayShrinks, Processed
<1>3. CASE ProcessorRuns /\ R!ProcessEvent
  <2> DEFINE e == Head(batch)
             d == R!RecordOf(e)
  <2>1. /\ e \in R!Event /\ e \in OnTheWay
        /\ out' = (IF R!MakesRecord(e) THEN Append(out, d) ELSE out)
        /\ astray' = (IF Overtakes(e) THEN astray \cup {e.req} ELSE astray)
    BY <1>3, WayProcessed, Processed
  <2> HIDE DEF e
  <2>2. d.span = "garbage" => d.req \in astray'
    <3>1. SUFFICES ASSUME d.span = "garbage"
                   PROVE  e.req \in astray'
      BY <2>1, RecordMade
    <3>2. e.type = "report" /\ (durations[e.req] = "started" \/ e.form = "unbilled")
      BY <2>1, <3>1, RecordMade
    <3>3. e.form = "unbilled" => e.req \in astray
      BY <2>1 DEF FormKept
    <3>4. durations[e.req] = "started" => Coming("runtimeDone", e.req) \/ e.req \in astray
      <4>1. ~(e.req = inv /\ fn = "running")
        BY <2>1, <3>2 DEF FormKept
      <4> QED
        BY <2>1, <4>1, EventTyped DEF EndKept
    <3>5. Coming("runtimeDone", e.req) => Overtakes(e)
      BY <3>2 DEF Overtakes
    <3> QED
      BY <2>1, <3>2, <3>3, <3>4, <3>5
  <2>3. CASE R!MakesRecord(e)
    <3>1. d \in R!LogRecord /\ out' = Append(out, d)
      BY <2>1, <2>3, EventRecordTyped
    <3> HIDE DEF d
    <3>2. /\ DOMAIN out = 1..Len(out)
          /\ DOMAIN out' = 1..(Len(out) + 1)
          /\ \A j \in 1..Len(out) : out'[j] = out[j]
          /\ out'[Len(out) + 1] = d
      BY <1>1, <3>1, Grown
    <3>3. \A j \in DOMAIN out' : j \in DOMAIN out \/ j = Len(out) + 1
      BY <1>1, <3>1, Grown
    <3> QED
      BY <1>2, <2>2, <3>2, <3>3 DEF SpansRight
  <2>4. CASE ~R!MakesRecord(e)
    BY <1>2, <2>1, <2>4 DEF SpansRight
  <2> QED
    BY <2>3, <2>4
<1>4. CASE ~(ProcessorRuns /\ R!ProcessEvent)
  <2>1. out' = out \/ out' = <<>>
    BY <1>4, OutElsewhere
  <2>2. DOMAIN <<>> = {}
    OBVIOUS
  <2> QED
    BY <1>2, <2>1, <2>2 DEF SpansRight
<1> QED
  BY <1>3, <1>4

\* At the start nothing is on the way.
LEMMA AstrayInit == Init => AstrayInv
<1> SUFFICES ASSUME Init
             PROVE  AstrayInv
  OBVIOUS
<1>1. /\ batch = <<>> /\ posted = [k \in Handlers |-> Idle] /\ stream = <<>> /\ out = <<>>
      /\ durations = [i \in Invocations |-> "absent"]
  BY DEF Init, ProducerInit, PlatformInit, R!Init
<1>2. \A k \in Handlers : Sending(k) = <<>>
  BY <1>1 DEF Sending
<1>3. Range(<<>>) = {}
  BY DEF Range
<1>4. OnTheWay = {}
  BY <1>1, <1>2, <1>3 DEF OnTheWay
<1>5. BatchOver /\ FormKept /\ SpansRight
  BY <1>1, <1>4 DEF BatchOver, FormKept, SpansRight
<1>6. EndKept /\ ReportKept
  BY <1>1, <1>4 DEF EndKept, ReportKept, Coming
<1> QED
  BY <1>5, <1>6 DEF AstrayInv

LEMMA AstrayKept == IndInv /\ AstrayInv /\ [Next]_vars => AstrayInv'
  BY BatchOverKept, FormStaysKept, EndStaysKept, ReportStaysKept, SpansKept DEF AstrayInv

\* In every reachable state, for any number of requests handled at one time: the end and
\* the report of a request that has begun are yet to come, unless it has gone astray.
THEOREM AstrayHolds == Spec => []AstrayInv
  BY Inductive, AstrayInit, AstrayKept, PTL DEF Spec

\* handleReport computes a runtime duration from an End that was not set only for a request
\* whose end was lost, had no valid time, or came after the report or before the start.
THEOREM SpansAreRight == Spec => []SpansRight
<1>1. AstrayInv => SpansRight
  BY DEF AstrayInv
<1> QED
  BY <1>1, AstrayHolds, PTL

\* requestDurations keeps an entry only until the report of its request is processed,
\* unless that was lost or came before the start: it does not grow with the number of
\* invocations, although only a report deletes an entry.
THEOREM DurationsAreFreed == Spec => []DurationsFreed
<1>1. AstrayInv => DurationsFreed
  BY DEF AstrayInv, ReportKept, DurationsFreed
<1> QED
  BY <1>1, AstrayHolds, PTL

-----------------------------------------------------------------------------
(***************************************************************************)
(* Second part: the order of the events, if the producer handles one       *)
(* request at a time.                                                      *)
(***************************************************************************)

\* What the platform records comes last.
LEMMA QueueGrows ==
  ASSUME IndInv, NEW k, Handlers = {k}, InvokeStarts \/ FunctionRuns
  PROVE  \E e \in R!Event :
           /\ Queue(k)' = Append(Queue(k), e)
           /\ e.form # "bad" /\ e.req = inv' /\ Records(e.type)
<1>1. PICK e \in R!Event :
        stream' = Append(stream, e) /\ e.req = inv' /\ Records(e.type) /\ RecordsForm(e)
  BY EventAppended
<1>2. UNCHANGED <<posted, batch>>
  BY EventAppended
<1>3. Queue(k)' = batch \o Sending(k) \o Append(stream, e)
  BY <1>1, <1>2 DEF Queue, Sending
<1>4. Queue(k)' = Append(Queue(k), e)
  BY <1>3, QueueTyped, LastOfAll DEF Queue
<1> QED
  BY <1>1, <1>4 DEF RecordsForm

\* A message that is posted stays at its place, one that is refused is taken out.
LEMMA QueuePosted ==
  ASSUME IndInv, NEW k, Handlers = {k}, Telemetry(k)
  PROVE  \E p \in Nat, m \in Nat : IsRest(Queue(k)', Queue(k), p, m)
<1> USE QueueTyped
<1>1. PICK n \in 1..Len(stream) :
        /\ stream' = SubSeq(stream, n + 1, Len(stream))
        /\ posted[k] = Idle
        /\ \/ posted' = [posted EXCEPT ![k] = <<SubSeq(stream, 1, n)>>]
           \/ posted' = posted
  BY Posted
<1>2. batch' = batch
  BY Posted
<1>3. Sending(k) = <<>> /\ Queue(k) = batch \o stream
  BY <1>1, ConcatEmptySeq DEF Queue, Sending
<1>4. CASE posted' = [posted EXCEPT ![k] = <<SubSeq(stream, 1, n)>>]
  <2> DEFINE m == SubSeq(stream, 1, n)
  <2>1. posted' = [posted EXCEPT ![k] = <<m>>]
    BY <1>4
  <2>2. Sending(k)' = m
    <3> HIDE DEF m
    <3>1. Sending(k)' = (IF <<m>> = Idle THEN <<>> ELSE <<m>>[1])
      BY <2>1, SendingAt
    <3>2. <<m>> # Idle /\ <<m>>[1] = m
      BY DEF Idle
    <3> QED
      BY <3>1, <3>2
  <2>3. Queue(k)' = batch \o m \o SubSeq(stream, n + 1, Len(stream))
    BY <1>1, <1>2, <2>2 DEF Queue
  <2>4. Queue(k)' = Queue(k)
    BY <1>3, <2>3, CutInTwo
  <2>5. IsRest(Queue(k), Queue(k), 0, 0)
    BY RestOfAll
  <2> QED
    BY <2>4, <2>5
<1>5. CASE posted' = posted
  <2>1. Sending(k)' = <<>>
    BY <1>1, <1>5 DEF Sending
  <2>2. Queue(k)' = batch \o SubSeq(stream, n + 1, Len(stream))
    BY <1>1, <1>2, <2>1, ConcatEmptySeq DEF Queue
  <2>3. IsRest(batch \o SubSeq(stream, n + 1, Len(stream)), batch \o stream, Len(batch), n)
    BY RestAround
  <2>4. Len(batch) \in Nat /\ n \in Nat
    BY LenProperties
  <2> QED
    BY <1>3, <2>2, <2>3, <2>4
<1> QED
  BY <1>1, <1>4, <1>5

\* One that is received becomes the batch, and one whose handler panics is taken out.
LEMMA QueueTaken ==
  ASSUME IndInv, BatchOver, NEW k, Handlers = {k}, EventsTaken(k) \/ EventsPanic(k)
  PROVE  \E p \in Nat, m \in Nat : IsRest(Queue(k)', Queue(k), p, m)
<1> USE QueueTyped
<1>1. posted' = [posted EXCEPT ![k] = Idle] /\ batch = <<>> /\ stream' = stream
  BY Received, Panicked
<1>2. Sending(k)' = <<>>
  BY <1>1, SendingAt
<1>3. Queue(k) = Sending(k) \o stream
  BY <1>1, ConcatEmptySeq DEF Queue
<1>4. CASE EventsTaken(k)
  <2>1. batch' = Sending(k)
    BY <1>4, Received
  <2>2. Queue(k)' = Queue(k)
    BY <1>1, <1>2, <1>3, <2>1, ConcatEmptySeq DEF Queue
  <2>3. IsRest(Queue(k), Queue(k), 0, 0)
    BY RestOfAll
  <2> QED
    BY <2>2, <2>3
<1>5. CASE EventsPanic(k)
  <2>1. batch' = <<>>
    BY <1>5, Panicked
  <2>2. Queue(k)' = stream
    BY <1>1, <1>2, <2>1, ConcatEmptySeq, EmptySeq DEF Queue
  <2>3. IsRest(stream, Sending(k) \o stream, 0, Len(Sending(k))) /\ Len(Sending(k)) \in Nat
    BY RestBehind, LenProperties
  <2> QED
    BY <1>3, <2>2, <2>3
<1> QED
  BY <1>4, <1>5

\* The first event of the message is the first of all.
LEMMA QueueProcessed ==
  ASSUME IndInv, NEW k, Handlers = {k}, ProcessorRuns, R!ProcessEvent
  PROVE  /\ 1 \in DOMAIN Queue(k) /\ Queue(k)[1] = Head(batch)
         /\ IsRest(Queue(k)', Queue(k), 0, 1)
<1> USE QueueTyped
<1>1. batch # <<>> /\ batch' = Tail(batch) /\ UNCHANGED <<posted, stream>>
  BY Processed
<1>2. Queue(k)' = Tail(batch) \o Sending(k) \o stream
  BY <1>1 DEF Queue, Sending
<1>3. /\ 1 \in DOMAIN Queue(k) /\ Queue(k)[1] = Head(batch)
      /\ IsRest(Tail(batch) \o Sending(k) \o stream, Queue(k), 0, 1)
  BY <1>1, FirstOfAll DEF Queue
<1> QED
  BY <1>2, <1>3

\* Nobody else adds anything, or changes the order of the others.
LEMMA QueueShrinks ==
  ASSUME IndInv, BatchOver, NEW k, Handlers = {k}, [Next]_vars, ~InvokeStarts, ~FunctionRuns
  PROVE  /\ \E p \in Nat, m \in Nat : IsRest(Queue(k)', Queue(k), p, m)
         /\ UNCHANGED <<inv, fn>>
<1>1. CASE Telemetry(k)
  BY <1>1, QueuePosted, Posted
<1>2. CASE EventsTaken(k) \/ EventsPanic(k)
  BY <1>2, QueueTaken, Received, Panicked
<1>3. CASE ProcessorRuns /\ R!ProcessEvent
  BY <1>3, QueueProcessed, Processed
<1>4. CASE ~(Telemetry(k) \/ EventsTaken(k) \/ EventsPanic(k) \/ (ProcessorRuns /\ R!ProcessEvent))
  <2>1. UNCHANGED <<batch, posted, stream, fn, inv>>
    BY <1>4, EventsElsewhere
  <2>2. Queue(k)' = Queue(k)
    BY <2>1 DEF Queue, Sending
  <2>3. IsRest(Queue(k), Queue(k), 0, 0)
    BY QueueTyped, RestOfAll
  <2> QED
    BY <2>1, <2>2, <2>3
<1> QED
  BY <1>1, <1>2, <1>3, <1>4

\* The places in what is left of a queue.
LEMMA PlacesInRest ==
  ASSUME IndInv, IndInv', NEW k \in Handlers, NEW p \in Nat, NEW m \in Nat,
         IsRest(Queue(k)', Queue(k), p, m)
  PROVE  /\ \A j \in DOMAIN Queue(k)' :
              LET place == IF j <= p THEN j ELSE j + m IN
              place \in DOMAIN Queue(k) /\ Queue(k)'[j] = Queue(k)[place]
         /\ \A i, j \in DOMAIN Queue(k)' :
              i < j => (IF i <= p THEN i ELSE i + m) < (IF j <= p THEN j ELSE j + m)
<1> DEFINE q == Queue(k)
           r == Queue(k)'
<1>1. /\ DOMAIN q = 1..Len(q) /\ Len(q) \in Nat
      /\ DOMAIN r = 1..Len(r) /\ Len(r) \in Nat
  BY QueueTyped, QueueStaysSequence, LenProperties
<1>2. /\ Len(r) = Len(q) - m
      /\ \A j \in DOMAIN r : r[j] = q[IF j <= p THEN j ELSE j + m]
  BY <1>1 DEF IsRest
<1> HIDE DEF q, r
<1>3. \A j \in DOMAIN r : (IF j <= p THEN j ELSE j + m) \in DOMAIN q
  BY <1>1, <1>2
<1>4. \A i, j \in DOMAIN r :
        i < j => (IF i <= p THEN i ELSE i + m) < (IF j <= p THEN j ELSE j + m)
  BY <1>1
<1> QED
  BY <1>2, <1>3, <1>4 DEF q, r

\* What is left of a queue is in the same order.
LEMMA OrderOfRest ==
  ASSUME IndInv, IndInv', NEW k \in Handlers, QueueInOrder(k),
         NEW p \in Nat, NEW m \in Nat, IsRest(Queue(k)', Queue(k), p, m), UNCHANGED <<inv, fn>>
  PROVE  QueueInOrder(k)'
<1> DEFINE q == Queue(k)
           r == Queue(k)'
           place(j) == IF j <= p THEN j ELSE j + m
<1>1. /\ \A j \in DOMAIN r : place(j) \in DOMAIN q /\ r[j] = q[place(j)]
      /\ \A i, j \in DOMAIN r : i < j => place(i) < place(j)
  BY PlacesInRest
<1>2. /\ \A j \in DOMAIN q :
           /\ q[j] \in R!Event /\ q[j].form # "bad" /\ q[j].req <= inv
           /\ q[j].req = inv /\ fn = "running" => q[j].type \in {"start", "function"}
           /\ q[j].req = inv /\ fn = "ended" => q[j].type # "report"
      /\ \A i, j \in DOMAIN q : i < j => Precedes(q[i], q[j])
  BY DEF QueueInOrder, q
<1> HIDE DEF q, r, place
<1>3. /\ \A j \in DOMAIN r :
           /\ r[j] \in R!Event /\ r[j].form # "bad" /\ r[j].req <= inv'
           /\ r[j].req = inv' /\ fn' = "running" => r[j].type \in {"start", "function"}
           /\ r[j].req = inv' /\ fn' = "ended" => r[j].type # "report"
      /\ \A i, j \in DOMAIN r : i < j => Precedes(r[i], r[j])
  BY <1>1, <1>2
<1> QED
  BY <1>3 DEF QueueInOrder, Precedes, r

\* An event that is added comes behind all others of its invocation.
LEMMA OrderOfGrown ==
  ASSUME IndInv, NEW k, Handlers = {k}, QueueInOrder(k), InvokeStarts \/ FunctionRuns
  PROVE  QueueInOrder(k)'
<1> DEFINE q == Queue(k)
           r == Queue(k)'
<1>1. PICK e \in R!Event : r = Append(q, e) /\ e.form # "bad" /\ e.req = inv' /\ Records(e.type)
  BY QueueGrows
<1>2. q \in Seq(R!Event)
  BY QueueTyped
<1>3. /\ \A j \in DOMAIN q :
           /\ q[j] \in R!Event /\ q[j].form # "bad" /\ q[j].req <= inv
           /\ q[j].req = inv /\ fn = "running" => q[j].type \in {"start", "function"}
           /\ q[j].req = inv /\ fn = "ended" => q[j].type # "report"
      /\ \A i, j \in DOMAIN q : i < j => Precedes(q[i], q[j])
  BY DEF QueueInOrder
<1> HIDE DEF q, r
<1>4. /\ DOMAIN q = 1..Len(q) /\ Len(q) \in Nat
      /\ DOMAIN r = 1..(Len(q) + 1)
      /\ \A j \in 1..Len(q) : r[j] = q[j]
      /\ r[Len(q) + 1] = e
  BY <1>1, <1>2, Grown
<1>5. inv \in Nat /\ inv' \in Nat
  BY <1>1, Lengths, EventTyped
<1>6. /\ inv' = inv \/ (inv' = inv + 1 /\ e.type = "start")
      /\ fn' = "running" => e.type \in {"start", "function"}
      /\ fn' = "ended" => e.type # "report"
  BY <1>1, EventTyped DEF Records
<1>7. ASSUME NEW j \in 1..Len(q)
      PROVE  /\ q[j].req <= inv'
             /\ q[j].req = inv' /\ fn' = "running" => q[j].type \in {"start", "function"}
             /\ q[j].req = inv' /\ fn' = "ended" => q[j].type # "report"
             /\ Precedes(q[j], e)
  <2>1. q[j] \in R!Event /\ q[j].req \in Nat /\ q[j].req <= inv
    BY <1>3, <1>4, EventTyped
  <2>2. CASE q[j].req = inv'
    <3>1. inv' = inv
      BY <1>5, <1>6, <2>1, <2>2
    <3>2. /\ fn = "running" => q[j].type \in {"start", "function"}
          /\ fn = "ended" => q[j].type # "report"
      BY <1>3, <1>4, <2>2, <3>1
    <3>3. /\ e.type # "start" /\ fn \in {"running", "ended"}
          /\ e.type \in {"function", "runtimeDone"} => fn = "running"
          /\ e.type \in {"other", "report"} => fn = "ended"
          /\ fn' = "running" => fn = "running"
          /\ fn' = "ended" /\ fn = "running" => e.type = "runtimeDone"
      <4>1. CASE e.type = "start"
        <5>1. inv' = inv + 1
          BY <1>1, <4>1 DEF Records
        <5> QED
          BY <1>5, <3>1, <5>1
      <4>2. CASE e.type = "function"
        BY <1>1, <4>2 DEF Records
      <4>3. CASE e.type = "runtimeDone"
        BY <1>1, <4>3 DEF Records
      <4>4. CASE e.type = "other"
        BY <1>1, <4>4 DEF Records
      <4>5. CASE e.type = "report"
        BY <1>1, <4>5 DEF Records
      <4> QED
        BY <1>1, <4>1, <4>2, <4>3, <4>4, <4>5, EventTyped
    <3>4. Precedes(q[j], e)
      <4>1. Phase(q[j].type) < Phase(e.type) \/ (q[j].type = e.type /\ e.type \in {"function", "other"})
        BY <1>1, <2>1, <3>2, <3>3, EventTyped
      <4> QED
        BY <1>1, <2>2, <4>1 DEF Precedes
    <3> QED
      BY <2>1, <2>2, <3>1, <3>2, <3>3, <3>4
  <2>3. CASE q[j].req # inv'
    <3>1. q[j].req < e.req
      BY <1>1, <1>5, <1>6, <2>1, <2>3
    <3> QED
      BY <1>1, <1>5, <2>1, <2>3, <3>1 DEF Precedes
  <2> QED
    BY <2>2, <2>3
<1>8. ASSUME NEW j \in DOMAIN r
      PROVE  /\ r[j] \in R!Event /\ r[j].form # "bad" /\ r[j].req <= inv'
             /\ r[j].req = inv' /\ fn' = "running" => r[j].type \in {"start", "function"}
             /\ r[j].req = inv' /\ fn' = "ended" => r[j].type # "report"
  <2>1. CASE j \in 1..Len(q)
    BY <1>3, <1>4, <1>7, <2>1
  <2>2. CASE j = Len(q) + 1
    BY <1>1, <1>4, <1>5, <1>6, <2>2
  <2> QED
    BY <1>4, <2>1, <2>2
<1>9. ASSUME NEW i \in DOMAIN r, NEW j \in DOMAIN r, i < j
      PROVE  Precedes(r[i], r[j])
  <2>1. i \in 1..Len(q)
    BY <1>4, <1>9
  <2>2. CASE j \in 1..Len(q)
    BY <1>3, <1>4, <1>9, <2>1, <2>2
  <2>3. CASE j = Len(q) + 1
    BY <1>4, <1>7, <2>1, <2>3
  <2> QED
    BY <1>4, <2>2, <2>3
<1> QED
  BY <1>8, <1>9 DEF QueueInOrder, Precedes, r

\* No step brings the events out of order.
LEMMA OrderInQueue ==
  ASSUME IndInv, BatchOver, NEW k, Handlers = {k}, QueueInOrder(k), [Next]_vars
  PROVE  QueueInOrder(k)'
<1>1. IndInv'
  BY NextInd
<1>2. CASE InvokeStarts \/ FunctionRuns
  BY <1>2, OrderOfGrown
<1>3. CASE ~(InvokeStarts \/ FunctionRuns)
  <2>1. PICK p \in Nat, m \in Nat : IsRest(Queue(k)', Queue(k), p, m)
    BY <1>3, QueueShrinks
  <2>2. UNCHANGED <<inv, fn>>
    BY <1>3, QueueShrinks
  <2> QED
    BY <1>1, <2>1, <2>2, OrderOfRest
<1> QED
  BY <1>2, <1>3

\* The processor takes the first event, and the others follow it.
LEMMA HeadProcessed ==
  ASSUME IndInv, NEW k, Handlers = {k}, QueueInOrder(k), [Next]_vars,
         ProcessorRuns, R!ProcessEvent
  PROVE  LET e == Head(batch) IN
         /\ e \in R!Event /\ e.form # "bad" /\ e.req <= inv
         /\ e = Queue(k)[1] /\ 1 \in DOMAIN Queue(k)
         /\ e.req = inv /\ fn = "running" => e.type \in {"start", "function"}
         /\ \A j \in DOMAIN Queue(k)' : Precedes(e, Queue(k)'[j])
<1> DEFINE e == Head(batch)
<1>1. /\ 1 \in DOMAIN Queue(k) /\ Queue(k)[1] = e
      /\ IsRest(Queue(k)', Queue(k), 0, 1)
  BY QueueProcessed
<1> HIDE DEF e
<1>2. IndInv'
  BY NextInd
<1>3. \A j \in DOMAIN Queue(k)' :
        LET place == IF j <= 0 THEN j ELSE j + 1 IN
        place \in DOMAIN Queue(k) /\ Queue(k)'[j] = Queue(k)[place]
  BY <1>1, <1>2, PlacesInRest
<1>4. \A j \in DOMAIN Queue(k)' : j \in Nat /\ j >= 1
  <2>1. Queue(k)' \in Seq(R!Event)
    BY <1>2, QueueStaysSequence
  <2>2. DOMAIN Queue(k)' = 1..Len(Queue(k)') /\ Len(Queue(k)') \in Nat
    BY <2>1, LenProperties
  <2> QED
    BY <2>2
<1>5. \A j \in DOMAIN Queue(k)' :
        j + 1 \in DOMAIN Queue(k) /\ Queue(k)'[j] = Queue(k)[j + 1] /\ 1 < j + 1
  BY <1>3, <1>4
<1>6. /\ e \in R!Event /\ e.form # "bad" /\ e.req <= inv
      /\ e.req = inv /\ fn = "running" => e.type \in {"start", "function"}
      /\ \A j \in DOMAIN Queue(k) : 1 < j => Precedes(e, Queue(k)[j])
  BY <1>1 DEF QueueInOrder
<1>7. \A j \in DOMAIN Queue(k)' : Precedes(e, Queue(k)'[j])
  BY <1>5, <1>6
<1> QED
  BY <1>1, <1>6, <1>7 DEF e

\* What the platform records is in the queue, and nothing else comes into it.
LEMMA EventRecorded ==
  ASSUME IndInv, NEW k, Handlers = {k}, InvokeStarts \/ FunctionRuns
  PROVE  \E e \in R!Event :
           /\ e.req = inv' /\ Records(e.type)
           /\ \A j \in DOMAIN Queue(k)' :
                \/ Queue(k)'[j] = e
                \/ j \in DOMAIN Queue(k) /\ Queue(k)'[j] = Queue(k)[j]
<1>1. PICK e \in R!Event :
        Queue(k)' = Append(Queue(k), e) /\ e.req = inv' /\ Records(e.type)
  BY QueueGrows
<1> DEFINE q == Queue(k)
           r == Queue(k)'
<1>2. q \in Seq(R!Event) /\ r = Append(q, e)
  BY <1>1, QueueTyped
<1> HIDE DEF q, r
<1>3. /\ DOMAIN q = 1..Len(q) /\ Len(q) \in Nat
      /\ DOMAIN r = 1..(Len(q) + 1)
      /\ \A j \in 1..Len(q) : r[j] = q[j]
      /\ r[Len(q) + 1] = e
  BY <1>2, Grown
<1>4. \A j \in DOMAIN r : r[j] = e \/ (j \in DOMAIN q /\ r[j] = q[j])
  BY <1>3
<1> QED
  BY <1>1, <1>4 DEF q, r

\* Phases are compared as numbers.
LEMMA OrderOfPhases ==
  ASSUME NEW d \in R!Event, NEW e \in R!Event, Precedes(d, e), d.req = e.req
  PROVE  /\ d.type = "report" => FALSE
         /\ d.type = "runtimeDone" => e.type \in {"other", "report"}
         /\ d.type = "other" => e.type \in {"other", "report"}
         /\ e.type # "start"
<1>1. /\ Phase(d.type) < Phase(e.type) \/ (d.type = e.type /\ d.type \in {"function", "other"})
  BY EventTyped DEF Precedes
<1> QED
  BY <1>1, EventTyped

-----------------------------------------------------------------------------
(***************************************************************************)
(* What is announced is over.                                              *)
(***************************************************************************)

\* What is over stays over.
LEMMA StaysOver ==
  ASSUME IndInv, BatchOver, NEW k, Handlers = {k}, [Next]_vars, NEW i \in Nat,
         FunctionOver(k, i)
  PROVE  FunctionOver(k, i)'
<1>1. inv \in Nat /\ \A j \in DOMAIN Queue(k) : Queue(k)[j] \in R!Event
  BY Lengths, QueueTyped
<1>2. IndInv'
  BY NextInd
<1>3. CASE InvokeStarts \/ FunctionRuns
  <2>1. PICK e \in R!Event :
          /\ e.req = inv' /\ Records(e.type)
          /\ \A j \in DOMAIN Queue(k)' :
               \/ Queue(k)'[j] = e
               \/ j \in DOMAIN Queue(k) /\ Queue(k)'[j] = Queue(k)[j]
    BY <1>3, EventRecorded
  <2>2. CASE e.type = "start"
    <3>1. inv' = inv + 1
      BY <2>1, <2>2 DEF Records
    <3>2. i < inv' /\ e.req > i
      BY <1>1, <2>1, <3>1 DEF FunctionOver
    <3> QED
      BY <2>1, <3>2 DEF FunctionOver
  <2>3. CASE e.type \in {"function", "runtimeDone"}
    <3>1. inv' = inv /\ fn = "running"
      BY <2>1, <2>3 DEF Records
    <3>2. i < inv' /\ e.req > i
      BY <1>1, <2>1, <3>1 DEF FunctionOver
    <3> QED
      BY <2>1, <3>2 DEF FunctionOver
  <2>4. CASE e.type \in {"other", "report"}
    <3>1. inv' = inv /\ fn' # "running"
      BY <2>1, <2>4 DEF Records
    <3>2. i < inv' \/ (i = inv' /\ fn' # "running")
      BY <3>1 DEF FunctionOver
    <3>3. e.req > i \/ (e.req = i /\ e.type \in {"other", "report"})
      BY <1>1, <2>1, <2>4, <3>1, <3>2
    <3> QED
      BY <2>1, <3>2, <3>3 DEF FunctionOver
  <2> QED
    BY <2>2, <2>3, <2>4, EventTyped
<1>4. CASE ~(InvokeStarts \/ FunctionRuns)
  <2>1. PICK p \in Nat, m \in Nat : IsRest(Queue(k)', Queue(k), p, m)
    BY <1>4, QueueShrinks
  <2>2. UNCHANGED <<inv, fn>>
    BY <1>4, QueueShrinks
  <2>3. \A j \in DOMAIN Queue(k)' :
          LET place == IF j <= p THEN j ELSE j + m IN
          place \in DOMAIN Queue(k) /\ Queue(k)'[j] = Queue(k)[place]
    BY <1>2, <2>1, PlacesInRest
  <2> QED
    BY <2>2, <2>3 DEF FunctionOver
<1> QED
  BY <1>3, <1>4

\* When the processor takes the end of an invocation, nothing more of the function is
\* behind it.
LEMMA EndIsOver ==
  ASSUME IndInv, NEW k, Handlers = {k}, [Next]_vars, UNCHANGED <<inv, fn>>,
         NEW e \in R!Event, e.type = "runtimeDone", e.req <= inv,
         e.req = inv => fn # "running",
         \A j \in DOMAIN Queue(k)' : Precedes(e, Queue(k)'[j])
  PROVE  FunctionOver(k, e.req)'
<1>1. IndInv'
  BY NextInd
<1>2. \A j \in DOMAIN Queue(k)' : Queue(k)'[j] \in R!Event
  BY <1>1, QueueStaysSequence, ElementOfSeq, LenProperties
<1>3. e.req \in Nat /\ inv \in Nat
  BY EventTyped, Lengths
<1>4. e.req < inv' \/ (e.req = inv' /\ fn' # "running")
  BY <1>3
<1>5. ASSUME NEW j \in DOMAIN Queue(k)'
      PROVE  \/ Queue(k)'[j].req > e.req
             \/ Queue(k)'[j].req = e.req /\ Queue(k)'[j].type \in {"other", "report"}
  <2> DEFINE d == Queue(k)'[j]
  <2>1. d \in R!Event /\ Precedes(e, d)
    BY <1>2
  <2> HIDE DEF d
  <2>2. e.req < d.req \/ e.req = d.req
    BY <2>1 DEF Precedes
  <2>3. e.req < d.req => d.req > e.req
    BY <1>3, <2>1, EventTyped
  <2>4. e.req = d.req => d.type \in {"other", "report"}
    BY <2>1, OrderOfPhases
  <2> QED
    BY <2>2, <2>3, <2>4 DEF d
<1> QED
  BY <1>4, <1>5 DEF FunctionOver

\* The processor notes the end, and announces it, only when the function is over.
LEMMA AnnouncedIsOverKept ==
  ASSUME IndInv, BatchOver, NEW k, Handlers = {k}, QueueInOrder(k), AnnouncedIsOver(k),
         [Next]_vars
  PROVE  AnnouncedIsOver(k)'
<1>1. /\ announced \subseteq Invocations /\ requestID \in Invocations \cup {0}
      /\ Invocations \subseteq Nat
      /\ rpc = "announce" => doneFlag
      /\ rpc = "select" => ~doneFlag
  BY ExtensionAssumption DEF IndInv, R!IndInv, R!TypeOK, R!FlagIsCurrent, Invocations
<1>2. \A i \in announced : FunctionOver(k, i)'
  <2>1. \A i \in announced : i \in Nat
    BY <1>1
  <2> QED
    BY <2>1, StaysOver DEF AnnouncedIsOver
<1>3. ASSUME NEW i \in Nat, doneFlag, i = requestID
      PROVE  FunctionOver(k, i)'
  BY <1>3, StaysOver DEF AnnouncedIsOver
<1>4. ASSUME announced' = announced, doneFlag' => doneFlag, requestID' = requestID \/ ~doneFlag'
      PROVE  AnnouncedIsOver(k)'
  <2>1. ASSUME NEW i \in announced'
        PROVE  FunctionOver(k, i)'
    BY <1>2, <1>4
  <2>2. ASSUME NEW i \in Nat, doneFlag', i = requestID'
        PROVE  FunctionOver(k, i)'
    BY <1>3, <1>4, <2>2
  <2>3. doneFlag' => requestID' \in Nat
    BY <1>1, <1>4
  <2> QED
    BY <2>1, <2>2, <2>3 DEF AnnouncedIsOver, FunctionOver
<1>5. CASE ProcessorRuns /\ R!ProcessEvent
  <2>1. PICK e \in R!Event :
          /\ e.req <= inv
          /\ e.req = inv /\ fn = "running" => e.type \in {"start", "function"}
          /\ doneFlag' = IF e.type = "function" THEN doneFlag ELSE R!EndsRequest(e)
          /\ \A j \in DOMAIN Queue(k)' : Precedes(e, Queue(k)'[j])
    BY <1>5, HeadProcessed, Processed
  <2>2. UNCHANGED <<inv, fn, requestID, announced>>
    BY <1>5, Processed
  <2>3. CASE R!EndsRequest(e)
    <3>1. e.type = "runtimeDone" /\ e.req = requestID
      BY <2>3 DEF R!EndsRequest
    <3>2. FunctionOver(k, e.req)'
      BY <2>1, <2>2, <3>1, EndIsOver
    <3>3. \A i \in announced' : FunctionOver(k, i)'
      BY <1>2, <2>2
    <3> QED
      BY <2>2, <3>1, <3>2, <3>3 DEF AnnouncedIsOver, FunctionOver
  <2>4. CASE ~R!EndsRequest(e)
    <3>1. doneFlag' => doneFlag
      BY <2>1, <2>4
    <3> QED
      BY <1>4, <2>2, <3>1
  <2> QED
    BY <2>3, <2>4
<1>6. CASE ~(ProcessorRuns /\ R!ProcessEvent)
  <2>1. CASE R!SendRuntimeDone
    <3>1. ~doneFlag' /\ announced' = announced \cup {requestID} /\ doneFlag
      BY <1>1, <2>1 DEF R!SendRuntimeDone
    <3>2. ASSUME NEW i \in announced'
          PROVE  FunctionOver(k, i)'
      BY <1>1, <1>2, <1>3, <3>1
    <3> QED
      BY <3>1, <3>2 DEF AnnouncedIsOver, FunctionOver
  <2>2. CASE ~R!SendRuntimeDone
    <3>1. /\ announced' = announced /\ doneFlag' = doneFlag
          /\ requestID' = requestID \/ rpc = "select"
      BY <1>6, <2>2, ProcessorElsewhere DEF R!RecvEvents, R!EndOfBatch, R!SendOut,
         R!RecvRequest, R!RecvStopR, R!SendStoppedR, rvars
    <3>2. ~doneFlag' \/ requestID' = requestID
      BY <1>1, <3>1
    <3> QED
      BY <1>4, <3>1, <3>2
  <2> QED
    BY <2>1, <2>2
<1> QED
  BY <1>5, <1>6

-----------------------------------------------------------------------------
(***************************************************************************)
(* Without a timeout, and when the end of the function releases an         *)
(* invocation, no event reaches the processor in a later one.              *)
(***************************************************************************)

\* The pusher that is being stopped stays so.
LEMMA CauseStays ==
  ASSUME IndInv, [Next]_vars, cause = "stop"
  PROVE  cause' = "stop"
<1> USE Typed
<1>1. CASE StopPusher
  BY <1>1 DEF StopPusher, P!RecvStop, P!SendStopped, P!PushSync, P!FinishStop, P!SendDone
<1>2. CASE PusherInvoke \/ PusherDone
  BY <1>2 DEF PusherInvoke, PusherDone, P!RecvInvoke, P!SignalDone
<1> QED
  BY <1>1, <1>2, StopElsewhere

\* Invoke returns when the end was announced.
LEMMA ReturnedIsAnnouncedKept ==
  ASSUME IndInv, Flights, timedOut = {}, ~FlushAtNextInvoke, ReturnedIsAnnounced, [Next]_vars
  PROVE  ReturnedIsAnnounced'
<1>1. cause' # "stop" => cause # "stop"
  BY CauseStays
<1>2. announced \subseteq announced'
  BY ProcessorSteps DEF R!Next, R!RecvEvents, R!ProcessEvent, R!EndOfBatch, R!SendOut,
     R!SendRuntimeDone, R!RecvRequest, R!RecvStopR, R!SendStoppedR, rvars
<1> DEFINE Waits == h \in {"pusherInvoke", "processorInvoke", "await"}
<1>3. CASE InvokeStarts
  <2>1. h = "next" /\ h' = "pusherInvoke" /\ inv' = inv + 1 /\ inv \in Nat
    BY <1>3, Lengths DEF InvokeStarts, GetInvoke
  <2>2. cause # "stop" => \A i \in 1..inv : i \in announced
    BY <2>1 DEF ReturnedIsAnnounced
  <2>3. \A i \in 1..inv' : i \in 1..inv \/ i = inv'
    BY <2>1
  <2> QED
    BY <1>1, <1>2, <2>1, <2>2, <2>3 DEF ReturnedIsAnnounced
<1>4. CASE PusherDone
  <2>1. inv' = inv /\ doneC = inv /\ pc = "signal"
    BY <1>4 DEF PusherDone, SeeDoneC, HGoes, P!SignalDone
  <2>2. cause # "stop" => inv \in announced
    BY <2>1 DEF Flights, EndAwaited
  <2> QED
    BY <1>1, <1>2, <2>1, <2>2 DEF ReturnedIsAnnounced
<1>5. CASE ~InvokeStarts /\ ~PusherDone
  <2>1. inv \notin ctxDone \/ h # "await"
    BY NobodyGivesUp DEF InInvoke
  <2>2. stopper = "handler" /\ stopAt = "awaitPusher" => h = "stop"
    BY DEF IndInv, WhoStops
  <2>3. inv' = inv /\ (Waits => Waits')
    BY <1>5, <2>1, <2>2 DEF Next, Required, Optional, Ended, FunctionRuns, Telemetry, EventsTaken,
       EventsPanic, ProcessorRuns, RecordsTaken, RuntimeDone, PusherInvoke, ProcessorInvoke,
       Timeout, InvokeTimesOut, ForceRequested, InvokeReturns, PusherRuns, ShutdownEvent,
       CallStop, StopProducer, StopProcessor, StopPusher, Exit, Signal, NextEventFails,
       PusherInvoked, ProcessorInvoked, SeeDoneC, SeeCtxDone, ForceReplied, ForceTimesOut,
       ForceSent, Return, GetShutdown, HGoes, HandlerCallsStop, SignalCallsStop,
       KillSleepEnds, StopSlept, ProducerShutDown, ProcessorStopSent, ProcessorStopped,
       PusherStopSent, PusherStopped, StopGoes, MainReturns, GetSignal, NextFails,
       workerVars, vars
  <2> QED
    BY <1>1, <1>2, <2>3 DEF ReturnedIsAnnounced
<1> QED
  BY <1>3, <1>4, <1>5

\* A record is made only of an event of the invocation that it names.
LEMMA NeverMisattributedKept ==
  ASSUME IndInv, Flights, ~FlushAtNextInvoke, ReturnedIsAnnounced, NEW k, Handlers = {k},
         QueueInOrder(k), AnnouncedIsOver(k), NeverMisattributed, [Next]_vars
  PROVE  NeverMisattributed'
<1>1. out \in Seq(R!LogRecord)
  BY DEF IndInv, R!IndInv, R!TypeOK
<1>2. CASE ProcessorRuns /\ R!ProcessEvent
  <2>1. PICK e \in R!Event :
          /\ e = Queue(k)[1] /\ 1 \in DOMAIN Queue(k) /\ e.req <= inv
          /\ out' = IF R!MakesRecord(e) THEN Append(out, R!RecordOf(e)) ELSE out
    BY <1>2, HeadProcessed, Processed
  <2> DEFINE d == R!RecordOf(e)
  <2>2. cause # "stop"
    BY <1>2, Processed
  <2>3. requestID # 0 => requestID = inv
    BY <2>2 DEF Flights, EndAwaited
  <2>4. e.req # inv => e.type \in {"other", "report", "start"}
    <3>1. SUFFICES ASSUME e.req # inv, e.type \in {"function", "runtimeDone"}
                   PROVE  FALSE
      BY EventTyped
    <3>2. e.req \in 1..inv
      BY <2>1, EventTyped, Lengths
    <3>3. e.req \in announced
      BY <2>2, <3>1, <3>2 DEF ReturnedIsAnnounced
    <3>4. e.req > e.req
      BY <2>1, <3>1, <3>3 DEF AnnouncedIsOver, FunctionOver
    <3> QED
      BY <3>4, EventTyped
  <2>5. {d.id, d.said} \subseteq {d.req, 0}
    BY <2>1, <2>3, <2>4, RecordMade
  <2>6. CASE R!MakesRecord(e)
    <3>1. d \in R!LogRecord
      BY EventRecordTyped
    <3>2. out' = Append(out, d)
      BY <2>1, <2>6
    <3> HIDE DEF d
    <3>3. /\ DOMAIN out = 1..Len(out) /\ Len(out) \in Nat
          /\ DOMAIN out' = 1..(Len(out) + 1)
          /\ \A j \in 1..Len(out) : out'[j] = out[j]
          /\ out'[Len(out) + 1] = d
      BY <1>1, <3>1, <3>2, Grown
    <3>4. \A j \in DOMAIN out' : j \in DOMAIN out \/ j = Len(out) + 1
      BY <3>3
    <3> QED
      BY <2>5, <3>3, <3>4 DEF NeverMisattributed
  <2>7. CASE ~R!MakesRecord(e)
    BY <2>1, <2>7 DEF NeverMisattributed
  <2> QED
    BY <2>6, <2>7
<1>3. CASE ~(ProcessorRuns /\ R!ProcessEvent)
  <2>1. out' = out \/ out' = <<>>
    BY <1>3, OutElsewhere
  <2>2. DOMAIN <<>> = {}
    OBVIOUS
  <2> QED
    BY <2>1, <2>2 DEF NeverMisattributed
<1> QED
  BY <1>2, <1>3

-----------------------------------------------------------------------------
(***************************************************************************)
(* The theorems.                                                           *)
(***************************************************************************)

\* At the start nothing is on the way.
LEMMA EventInit == Init => EventInv
<1> SUFFICES ASSUME Init, NEW k \in Handlers
             PROVE  QueueInOrder(k) /\ AnnouncedIsOver(k) /\ ReturnedIsAnnounced /\ NeverMisattributed
  BY DEF EventInv
<1>1. /\ batch = <<>> /\ posted[k] = Idle /\ stream = <<>> /\ out = <<>>
      /\ ~doneFlag /\ announced = {} /\ inv = 0
  BY DEF Init, WorkerInit, ProducerInit, PlatformInit, R!Init
<1>2. Queue(k) = <<>>
  BY <1>1, ConcatEmptySeq, EmptySeq DEF Queue, Sending
<1>3. DOMAIN Queue(k) = {} /\ DOMAIN out = {}
  BY <1>1, <1>2
<1>4. QueueInOrder(k) /\ AnnouncedIsOver(k) /\ NeverMisattributed
  BY <1>1, <1>3 DEF QueueInOrder, AnnouncedIsOver, NeverMisattributed
<1>5. ReturnedIsAnnounced
  BY <1>1 DEF ReturnedIsAnnounced
<1> QED
  BY <1>4, <1>5

\* Every step keeps each part of it under its own condition.
LEMMA EventKept == IndInv /\ BatchOver /\ CourseInv /\ EventInv /\ [Next]_vars => EventInv'
<1> SUFFICES ASSUME IndInv, BatchOver, CourseInv, EventInv, [Next]_vars,
                    NEW k \in Handlers, Handlers = {k}
             PROVE  /\ QueueInOrder(k)' /\ AnnouncedIsOver(k)'
                    /\ timedOut' = {} /\ ~FlushAtNextInvoke =>
                         ReturnedIsAnnounced' /\ NeverMisattributed'
  BY DEF EventInv
<1>1. QueueInOrder(k) /\ AnnouncedIsOver(k)
  BY DEF EventInv
<1>2. QueueInOrder(k)' /\ AnnouncedIsOver(k)'
  BY <1>1, OrderInQueue, AnnouncedIsOverKept
<1>3. ASSUME timedOut' = {}, ~FlushAtNextInvoke
      PROVE  ReturnedIsAnnounced' /\ NeverMisattributed'
  <2>1. timedOut = {}
    BY <1>3, TimedOutGrows
  <2>2. ReturnedIsAnnounced /\ NeverMisattributed /\ Flights
    BY <1>3, <2>1 DEF EventInv, CourseInv
  <2> QED
    BY <1>1, <1>3, <2>1, <2>2, ReturnedIsAnnouncedKept, NeverMisattributedKept
<1> QED
  BY <1>2, <1>3

\* In every reachable state, with any number of invocations and events: if the producer
\* handles one request at a time, the processor gets the events in the order in which
\* the platform recorded them, and what follows from that.
THEOREM EventsHold == Spec => []EventInv
<1>1. AstrayInv => BatchOver
  BY DEF AstrayInv
<1> QED
  BY <1>1, Inductive, CourseHolds, AstrayHolds, EventInit, EventKept, PTL DEF Spec

\* All refinements of the invariant hold, each part of them under its own condition.
THEOREM FinerInvHolds == Spec => []FinerInv
  BY CourseHolds, AstrayHolds, EventsHold, PTL DEF FinerInv

\* If the producer handles one request at a time, and the end of the function releases its
\* invocation (FlushAtNextInvoke is off), then until an invocation times out no record
\* names another invocation than that of its event, although a function's event does
\* not show its invocation and handleFunctionLog stamps it with the current one.
THEOREM NeverMisattributes ==
  ASSUME NEW k, Handlers = {k}, ~FlushAtNextInvoke
  PROVE  Spec => [](timedOut = {} => NeverMisattributed)
<1>1. EventInv => (timedOut = {} => NeverMisattributed)
  BY DEF EventInv
<1> QED
  BY <1>1, EventsHold, PTL

=============================================================================
