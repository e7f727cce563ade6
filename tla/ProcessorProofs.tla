--------------------------- MODULE ProcessorProofs ---------------------------
(***************************************************************************)
(* Proofs about Processor, for any requests and any messages.              *)
(***************************************************************************)
EXTENDS Processor, SequenceTheorems, TLAPS

\* What a step of the loop makes of one event is well typed.
LEMMA EventTyped ==
  ASSUME TypeOK, NEW e \in Event
  PROVE  /\ EndsRequest(e) \in BOOLEAN
         /\ RecordOf(e) \in LogRecord
         /\ DurationAfter(e) \in Duration
<1>1. /\ e.type \in EventType /\ e.req \in Requests /\ e.form \in Form
      /\ durations[e.req] \in Duration
      /\ requestID \in Requests \cup {NoRequest}
  BY DEF TypeOK, Event
<1>2. EndsRequest(e) \in BOOLEAN
  BY DEF EndsRequest
<1>3. RecordOf(e) \in LogRecord
  BY <1>1 DEF RecordOf, StampOf, SaidOf, SpanOf, LogRecord
<1>4. DurationAfter(e) \in Duration
  BY <1>1 DEF DurationAfter, Duration
<1> QED
  BY <1>2, <1>3, <1>4

\* The initial values are well typed.
LEMMA InitTyped == Init => TypeOK
<1> SUFFICES ASSUME Init
             PROVE  TypeOK
  OBVIOUS
<1>1. <<>> \in Seq(Event) /\ <<>> \in Seq(LogRecord)
  BY EmptySeq
<1> QED
  BY <1>1 DEF Init, TypeOK, RLabel, Duration

\* No step spoils a type; that of announced needs a current request to announce.
LEMMA NextTyped == TypeOK /\ FlagIsCurrent /\ [Next]_processorVars => TypeOK'
<1> SUFFICES ASSUME TypeOK, FlagIsCurrent, [Next]_processorVars
             PROVE  TypeOK'
  OBVIOUS
<1> USE DEF TypeOK
<1>1. ASSUME batch' \in Message, RecvEvents(batch')
      PROVE  TypeOK'
  <2>1. batch' \in Seq(Event)
    BY <1>1, SeqDef, ProcessorAssumption DEF Message
  <2> QED
    BY <1>1, <2>1 DEF RecvEvents, RLabel
<1>2. CASE ProcessEvent
  <2> DEFINE e == Head(batch)
  <2>1. e \in Event /\ batch' \in Seq(Event)
    BY <1>2 DEF ProcessEvent
  <2>2. /\ EndsRequest(e) \in BOOLEAN
        /\ RecordOf(e) \in LogRecord
        /\ DurationAfter(e) \in Duration
    BY <2>1, EventTyped
  <2> HIDE DEF e
  <2>3. out' = out \/ out' = Append(out, RecordOf(e))
    BY <1>2 DEF ProcessEvent, e
  <2>4. out' \in Seq(LogRecord)
    BY <2>2, <2>3
  <2>5. doneFlag' = doneFlag \/ doneFlag' = EndsRequest(e)
    BY <1>2 DEF ProcessEvent, e
  <2>6. durations' = [durations EXCEPT ![e.req] = DurationAfter(e)]
    BY <1>2 DEF ProcessEvent, e
  <2>7. durations' \in [Requests -> Duration]
    BY <2>2, <2>6
  <2>8. UNCHANGED <<rpc, requestID, inClosed, assigned, announced>>
    BY <1>2 DEF ProcessEvent
  <2> QED
    BY <2>1, <2>2, <2>4, <2>5, <2>7, <2>8
<1>3. CASE EndOfBatch
  BY <1>3 DEF EndOfBatch, RLabel
<1>4. CASE SendOut
  <2>1. out' \in Seq(LogRecord) /\ rpc' \in RLabel
    BY <1>4, EmptySeq DEF SendOut, RLabel
  <2> QED
    BY <1>4, <2>1 DEF SendOut
<1>5. CASE SendRuntimeDone
  BY <1>5 DEF SendRuntimeDone, FlagIsCurrent, RLabel
<1>6. ASSUME NEW r \in Requests \ assigned, RecvRequest(r)
      PROVE  TypeOK'
  BY <1>6 DEF RecvRequest
<1>7. CASE RecvStopR \/ SendStoppedR
  BY <1>7 DEF RecvStopR, SendStoppedR, RLabel
<1>8. CASE UNCHANGED processorVars
  BY <1>8 DEF processorVars
<1> QED
  BY <1>1, <1>2, <1>3, <1>4, <1>5, <1>6, <1>7, <1>8 DEF Next

\* No step raises the flag without a current request, or makes an announced one current.
LEMMA NextRest == IndInv /\ [Next]_processorVars => (FlagIsCurrent /\ AnnounceOnce /\ Received)'
<1> SUFFICES ASSUME IndInv, [Next]_processorVars
             PROVE  (FlagIsCurrent /\ AnnounceOnce /\ Received)'
  OBVIOUS
<1> USE DEF IndInv, FlagIsCurrent, AnnounceOnce, Received
<1>1. CASE RecvEvents(batch')
  BY <1>1 DEF RecvEvents
<1>2. CASE ProcessEvent
  <2>1. doneFlag' => doneFlag \/ requestID # NoRequest
    BY <1>2 DEF ProcessEvent, EndsRequest
  <2> QED
    BY <1>2, <2>1 DEF ProcessEvent
<1>3. CASE EndOfBatch
  BY <1>3 DEF EndOfBatch
<1>4. CASE SendOut
  BY <1>4 DEF SendOut
<1>5. CASE SendRuntimeDone
  BY <1>5, ProcessorAssumption DEF SendRuntimeDone, TypeOK
<1>6. ASSUME NEW r \in Requests \ assigned, RecvRequest(r)
      PROVE  (FlagIsCurrent /\ AnnounceOnce /\ Received)'
  BY <1>6, ProcessorAssumption DEF RecvRequest
<1>7. CASE RecvStopR \/ SendStoppedR
  BY <1>7 DEF RecvStopR, SendStoppedR
<1>8. CASE UNCHANGED processorVars
  BY <1>8 DEF processorVars
<1> QED
  BY <1>1, <1>2, <1>3, <1>4, <1>5, <1>6, <1>7, <1>8 DEF Next

\* The initial state satisfies the inductive invariant.
LEMMA InitInd == Init => IndInv
  BY InitTyped DEF Init, IndInv, FlagIsCurrent, AnnounceOnce, Received

\* Every step of the processor keeps the inductive invariant.
LEMMA NextInd == IndInv /\ [Next]_processorVars => IndInv'
  BY NextTyped, NextRest DEF IndInv

\* The inductive invariant holds in every behaviour of the processor, for any number of
\* requests and events.
THEOREM Inductive == Spec => []IndInv
  BY InitInd, NextInd, PTL DEF Spec

\* TypeOK holds in every behaviour of the processor.
THEOREM TypeCorrect == Spec => []TypeOK
<1>1. IndInv => TypeOK
  BY DEF IndInv
<1> QED
  BY <1>1, Inductive, PTL

\* The processor announces the end of the current request only, and between messages
\* no announcement is pending.
THEOREM FlagCorrect == Spec => []FlagIsCurrent
<1>1. IndInv => FlagIsCurrent
  BY DEF IndInv
<1> QED
  BY <1>1, Inductive, PTL

\* Whatever the Telemetry API delivers, and however often, the end of a request is
\* announced at most once.
THEOREM AnnouncedOnce == Spec => []AnnounceOnce
<1>1. IndInv => AnnounceOnce
  BY DEF IndInv
<1> QED
  BY <1>1, Inductive, PTL

=============================================================================
