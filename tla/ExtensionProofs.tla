---------------------------- MODULE ExtensionProofs ----------------------------
(***************************************************************************)
(* Proofs about Extension, for any number of invocations, handlers,        *)
(* flushes and events, in both modes, whatever is allowed to go wrong.     *)
(*                                                                         *)
(* PP and RP are the proofs about the two components, instantiated as the  *)
(* components are in Extension.                                            *)
(***************************************************************************)
EXTENDS Extension, SequenceTheorems, TLAPS

PP == INSTANCE PusherProofs WITH
        NoInvocation <- 0,
        MaxBatch <- MaxPost,
        Totals <- Nat

RP == INSTANCE ProcessorProofs WITH
        Requests <- Invocations,
        NoRequest <- 0,
        MaxEvents <- MaxPost

-----------------------------------------------------------------------------
(***************************************************************************)
(* What is proved of the components is proved of the instances of          *)
(* Extension.                                                              *)
(***************************************************************************)

\* The constants of the components are as these assume.
LEMMA ComponentAssumptions == PP!PusherAssumption /\ RP!ProcessorAssumption
  BY ExtensionAssumption DEF PP!PusherAssumption, RP!ProcessorAssumption, Invocations

\* Pusher and PusherProofs speak of the same initial states, ...
LEMMA SamePusherInit == P!Init <=> PP!Init
  BY DEF P!Init, PP!Init, P!NoFlush, PP!NoFlush

\* ... the same steps ...
LEMMA SamePusherNext == P!Next <=> PP!Next
<1>1. P!CtxDone <=> PP!CtxDone
  BY DEF P!CtxDone, PP!CtxDone, P!Done, PP!Done, P!PushSync, PP!PushSync, P!ResetCtx,
         PP!ResetCtx
<1>2. P!RecvForce <=> PP!RecvForce
  BY DEF P!RecvForce, PP!RecvForce, P!PushSync, PP!PushSync, P!Reply, PP!Reply
<1>3. P!PushOk <=> PP!PushOk
  BY DEF P!PushOk, PP!PushOk, P!AfterPush, PP!AfterPush, P!FinishStop, PP!FinishStop,
         P!SendDone, PP!SendDone, P!BackToSelect, PP!BackToSelect, P!ResetCtx, PP!ResetCtx,
         P!Reply, PP!Reply, P!Range, PP!Range
<1>4. P!PushFail <=> PP!PushFail
  BY DEF P!PushFail, PP!PushFail, P!AfterPush, PP!AfterPush, P!FinishStop, PP!FinishStop,
         P!SendDone, PP!SendDone, P!BackToSelect, PP!BackToSelect, P!ResetCtx, PP!ResetCtx,
         P!Reply, PP!Reply, P!Range, PP!Range
<1>5. \A f : P!RecvFlushResp(f) <=> PP!RecvFlushResp(f)
  BY DEF P!RecvFlushResp, PP!RecvFlushResp, P!Requeued, PP!Requeued, P!NoFlush, PP!NoFlush,
         P!SendDone, PP!SendDone
<1>6. \A f : P!FlushStart(f) <=> PP!FlushStart(f)
  BY DEF P!FlushStart, PP!FlushStart, P!Done, PP!Done
<1>7. \A f : P!FlushOk(f) <=> PP!FlushOk(f)
  BY DEF P!FlushOk, PP!FlushOk, P!Answering, PP!Answering, P!FlushTried, PP!FlushTried,
         P!Range, PP!Range
<1>8. \A f : P!FlushFail(f) <=> PP!FlushFail(f)
  BY DEF P!FlushFail, PP!FlushFail, P!Answering, PP!Answering, P!FlushTried, PP!FlushTried,
         P!Trimmed, PP!Trimmed,
         P!RecordsDropped, PP!RecordsDropped, P!Start, PP!Start, P!Range, PP!Range
<1>9. \A n : P!RecvLogs(n) <=> PP!RecvLogs(n)
  BY DEF P!RecvLogs, PP!RecvLogs
<1>10. P!RecvRuntimeDone <=> PP!RecvRuntimeDone
  BY DEF P!RecvRuntimeDone, PP!RecvRuntimeDone, P!Done, PP!Done, P!PushSync, PP!PushSync,
         P!StartFlush, PP!StartFlush
<1>11. \A i : P!RecvInvoke(i) <=> PP!RecvInvoke(i)
  BY DEF P!RecvInvoke, PP!RecvInvoke, P!SendDone, PP!SendDone, P!StartFlush, PP!StartFlush
<1>12. P!RecvStop <=> PP!RecvStop
  BY DEF P!RecvStop, PP!RecvStop, P!PushSync, PP!PushSync, P!FinishStop, PP!FinishStop,
         P!SendDone, PP!SendDone
<1>13. P!SignalDone <=> PP!SignalDone
  BY DEF P!SignalDone, PP!SignalDone, P!BackToSelect, PP!BackToSelect
<1>14. P!SendStopped <=> PP!SendStopped
  BY DEF P!SendStopped, PP!SendStopped
<1>15. \A i : P!Cancel(i) <=> PP!Cancel(i)
  BY DEF P!Cancel, PP!Cancel
<1>16. \A i : P!SendForce(i) <=> PP!SendForce(i)
  BY DEF P!SendForce, PP!SendForce
<1>17. \A i : P!MayForce(i) <=> PP!MayForce(i)
  BY DEF P!MayForce, PP!MayForce, P!Range, PP!Range
<1>18. P!Internal <=> PP!Internal
  BY <1>1, <1>2, <1>3, <1>4, <1>5, <1>6, <1>7, <1>8 DEF P!Internal, PP!Internal
<1>19. P!External <=> PP!External
  BY <1>9, <1>10, <1>11, <1>12, <1>13, <1>14, <1>15, <1>16, <1>17 DEF P!External,
         PP!External
<1> QED
  BY <1>18, <1>19 DEF P!Next, PP!Next

\* ... and the same invariant.
LEMMA SamePusherInv == P!IndInv <=> PP!IndInv
<1>1. P!TypeOK <=> PP!TypeOK
  BY DEF P!TypeOK, PP!TypeOK, P!Label, PP!Label, P!Cause, PP!Cause, P!Flush, PP!Flush,
         P!FlushLabel, PP!FlushLabel, P!Record, PP!Record
<1>2. P!Held = PP!Held /\ P!Given = PP!Given
  BY DEF P!Held, PP!Held, P!InFlush, PP!InFlush, P!Given, PP!Given, P!Range, PP!Range
<1>3. P!OneHolder <=> PP!OneHolder
  BY <1>2 DEF P!OneHolder, PP!OneHolder, P!IdleIsEmpty, PP!IdleIsEmpty, P!Apart, PP!Apart,
         P!IsInjective, PP!IsInjective, P!Range, PP!Range
<1>4. P!Numbered <=> PP!Numbered
  BY <1>2 DEF P!Numbered, PP!Numbered
<1>5. P!DoneFresh <=> PP!DoneFresh
  BY DEF P!DoneFresh, PP!DoneFresh
<1>6. P!StopKeepsEmpty <=> PP!StopKeepsEmpty
  BY DEF P!StopKeepsEmpty, PP!StopKeepsEmpty
<1> QED
  BY <1>1, <1>3, <1>4, <1>5, <1>6 DEF P!IndInv, PP!IndInv

\* The same of Processor and ProcessorProofs.
LEMMA SameProcessorInit == R!Init <=> RP!Init
  BY DEF R!Init, RP!Init

LEMMA SameProcessorNext == R!Next <=> RP!Next
<1>1. \A e : R!RecvEvents(e) <=> RP!RecvEvents(e)
  BY DEF R!RecvEvents, RP!RecvEvents
<1>2. R!ProcessEvent <=> RP!ProcessEvent
  BY DEF R!ProcessEvent, RP!ProcessEvent, R!EndsRequest, RP!EndsRequest, R!MakesRecord,
         RP!MakesRecord, R!RecordOf, RP!RecordOf, R!StampOf, RP!StampOf, R!SaidOf,
         RP!SaidOf, R!SpanOf, RP!SpanOf, R!DurationAfter, RP!DurationAfter
<1>3. R!EndOfBatch <=> RP!EndOfBatch
  BY DEF R!EndOfBatch, RP!EndOfBatch
<1>4. R!SendOut <=> RP!SendOut
  BY DEF R!SendOut, RP!SendOut
<1>5. R!SendRuntimeDone <=> RP!SendRuntimeDone
  BY DEF R!SendRuntimeDone, RP!SendRuntimeDone
<1>6. \A r : R!RecvRequest(r) <=> RP!RecvRequest(r)
  BY DEF R!RecvRequest, RP!RecvRequest
<1>7. R!RecvStopR <=> RP!RecvStopR
  BY DEF R!RecvStopR, RP!RecvStopR
<1>8. R!SendStoppedR <=> RP!SendStoppedR
  BY DEF R!SendStoppedR, RP!SendStoppedR
<1>9. R!Message = RP!Message
  BY DEF R!Message, RP!Message, R!Event, RP!Event, R!EventType, RP!EventType, R!Form,
         RP!Form
<1> QED
  BY <1>1, <1>2, <1>3, <1>4, <1>5, <1>6, <1>7, <1>8, <1>9 DEF R!Next, RP!Next

LEMMA SameProcessorInv == R!IndInv <=> RP!IndInv
  BY DEF R!IndInv, RP!IndInv, R!TypeOK, RP!TypeOK, R!RLabel, RP!RLabel, R!Event, RP!Event,
         R!EventType, RP!EventType, R!Form, RP!Form, R!Duration, RP!Duration, R!LogRecord,
         RP!LogRecord, R!FlagIsCurrent, RP!FlagIsCurrent, R!AnnounceOnce, RP!AnnounceOnce,
         R!Received, RP!Received

\* A step of the pusher keeps its invariant, wherever it is taken.
LEMMA PusherKeeps == P!IndInv /\ [P!Next]_pvars => P!IndInv'
<1>1. [P!Next]_pvars => [PP!Next]_(PP!pusherVars)
  BY SamePusherNext DEF pvars, PP!pusherVars
<1>2. P!IndInv' <=> PP!IndInv'
  BY SamePusherInv, PTL
<1> QED
  BY <1>1, <1>2, SamePusherInv, ComponentAssumptions, PP!NextInd

\* So does a step of the processor.
LEMMA ProcessorKeeps == R!IndInv /\ [R!Next]_rvars => R!IndInv'
<1>1. [R!Next]_rvars => [RP!Next]_(RP!processorVars)
  BY SameProcessorNext DEF rvars, RP!processorVars
<1>2. R!IndInv' <=> RP!IndInv'
  BY SameProcessorInv, PTL
<1> QED
  BY <1>1, <1>2, SameProcessorInv, ComponentAssumptions, RP!NextInd

-----------------------------------------------------------------------------
(***************************************************************************)
(* The components are used as their modules suppose.                       *)
(***************************************************************************)

\* What the invariant says of the lengths of the messages.
LEMMA Lengths ==
  ASSUME IndInv
  PROVE  /\ MaxPost \in Nat /\ accepted \in Nat /\ inv \in Nat /\ inv <= LastInvocation
         /\ Len(out) \in Nat /\ Len(batch) \in Nat
         /\ Len(out) + Len(batch) <= MaxPost
         /\ LastInvocation \in Nat
<1>1. accepted \in Nat
  BY DEF IndInv, P!IndInv, P!TypeOK
<1>2. out \in Seq(R!LogRecord) /\ batch \in Seq(R!Event)
  BY DEF IndInv, R!IndInv, R!TypeOK
<1>3. inv \in 0..LastInvocation
  BY DEF IndInv, TypeOK, WorkerTypeOK
<1> QED
  BY <1>1, <1>2, <1>3, ExtensionAssumption DEF IndInv, EventsOnTheWay

\* Every step of the extension is one of the pusher, or leaves it alone.
LEMMA PusherSteps == IndInv /\ [Next]_vars => [P!Next]_pvars
<1> SUFFICES ASSUME IndInv, [Next]_vars
             PROVE  [P!Next]_pvars
  OBVIOUS
<1> USE DEF P!Next, P!External, P!Internal
<1>1. CASE \/ InvokeStarts \/ FunctionRuns \/ ProcessorRuns \/ ProcessorInvoke \/ InvokeTimesOut
           \/ ShutdownEvent \/ CallStop \/ StopProducer \/ StopProcessor \/ Exit
           \/ Signal \/ NextEventFails \/ Ended \/ UNCHANGED vars
           \/ \E k \in Handlers : Telemetry(k) \/ EventsTaken(k) \/ EventsPanic(k)
  BY <1>1 DEF InvokeStarts, FunctionRuns, ProcessorRuns, ProcessorInvoke, InvokeTimesOut,
     ShutdownEvent, CallStop, StopProducer, StopProcessor, Exit, Signal, NextEventFails,
     Ended, vars, Telemetry, EventsTaken, EventsPanic
<1>2. CASE RecordsTaken
  <2>1. P!RecvLogs(Len(out))
    BY <1>2 DEF RecordsTaken
  <2>2. Len(out) \in 0..MaxPost /\ accepted + Len(out) \in Nat
    BY Lengths
  <2> QED
    BY <2>1, <2>2
<1>3. CASE RuntimeDone
  BY <1>3 DEF RuntimeDone
<1>4. CASE PusherInvoke
  <2>1. P!RecvInvoke(inv) /\ h = "pusherInvoke"
    BY <1>4 DEF PusherInvoke, PusherInvoked, HGoes
  <2>2. inv \in Invocations \ invoked
    BY <2>1, Lengths DEF IndInv, Known, InInvoke, Invocations
  <2> QED
    BY <2>1, <2>2
<1>5. CASE Timeout \/ InvokeReturns
  <2>1. h \in InInvoke
    BY <1>5 DEF Timeout, InvokeReturns, Return, HGoes, InInvoke
  <2>2. inv \in Invocations
    BY <2>1, Lengths DEF IndInv, Known, Invocations
  <2>3. P!Cancel(inv) \/ UNCHANGED pvars
    BY <1>5 DEF Timeout, InvokeReturns
  <2> QED
    BY <2>2, <2>3
<1>6. CASE PusherDone
  BY <1>6 DEF PusherDone
<1>7. CASE ForceRequested
  <2>1. P!SendForce(inv) /\ h = "forceSend"
    BY <1>7 DEF ForceRequested, ForceSent, HGoes
  <2>2. inv \in Invocations /\ inv \in invoked \cap ctxDone
    BY <2>1, Lengths DEF IndInv, Known, TimedOutOnly, InInvoke, Invocations
  <2>3. ~AskedFor(inv)
    BY <2>1, <2>2, Lengths DEF IndInv, AskedOnce
  <2>4. P!MayForce(inv)
    BY <2>2, <2>3 DEF AskedFor, P!MayForce
  <2> QED
    BY <2>1, <2>2, <2>4
<1>8. CASE PusherRuns
  BY <1>8 DEF PusherRuns
<1>9. CASE StopPusher
  BY <1>9 DEF StopPusher
<1> QED
  BY <1>1, <1>2, <1>3, <1>4, <1>5, <1>6, <1>7, <1>8, <1>9 DEF Next, Required, Optional

\* Every step of the extension is one of the processor, or leaves it alone.
LEMMA ProcessorSteps == IndInv /\ [Next]_vars => [R!Next]_rvars
<1> SUFFICES ASSUME IndInv, [Next]_vars
             PROVE  [R!Next]_rvars
  OBVIOUS
<1> USE DEF R!Next
<1>1. CASE \/ InvokeStarts \/ FunctionRuns \/ PusherInvoke \/ Timeout \/ PusherDone
           \/ InvokeTimesOut \/ ForceRequested \/ InvokeReturns \/ PusherRuns
           \/ ShutdownEvent \/ CallStop \/ StopProducer \/ StopPusher \/ Exit
           \/ Signal \/ NextEventFails \/ Ended \/ UNCHANGED vars
           \/ \E k \in Handlers : Telemetry(k) \/ EventsPanic(k)
  BY <1>1 DEF InvokeStarts, FunctionRuns, PusherInvoke, Timeout, PusherDone, InvokeTimesOut,
     ForceRequested, InvokeReturns, PusherRuns, ShutdownEvent, CallStop, StopProducer,
     StopPusher, Exit, Signal, NextEventFails, Ended, vars, Telemetry, EventsPanic
<1>2. ASSUME NEW k \in Handlers, EventsTaken(k)
      PROVE  R!Next
  <2>1. R!RecvEvents(posted[k][1]) /\ posted[k] # Idle
    BY <1>2 DEF EventsTaken, PostTaken
  <2>2. posted[k] \in PostStates
    BY DEF IndInv, EventsOnTheWay
  <2>3. PICK m \in R!Message : posted[k] = <<m>>
    BY <2>1, <2>2 DEF PostStates
  <2>4. rpc = "select" /\ batch' = m /\ R!RecvEvents(batch')
    BY <2>1, <2>3 DEF R!RecvEvents
  <2> QED
    BY <2>4
<1>3. CASE ProcessorRuns \/ RecordsTaken \/ RuntimeDone \/ StopProcessor
  BY <1>3 DEF ProcessorRuns, RecordsTaken, RuntimeDone, StopProcessor
<1>4. CASE ProcessorInvoke
  <2>1. R!RecvRequest(inv) /\ h = "processorInvoke"
    BY <1>4 DEF ProcessorInvoke, ProcessorInvoked, HGoes
  <2>2. inv \in Invocations \ assigned
    BY <2>1, Lengths DEF IndInv, Known, InInvoke, Invocations
  <2> QED
    BY <2>1, <2>2
<1> QED
  BY <1>1, <1>2, <1>3, <1>4 DEF Next, Required, Optional

-----------------------------------------------------------------------------
(***************************************************************************)
(* What the steps of the pusher leave alone.                               *)
(***************************************************************************)

\* The invariant of the pusher, as far as it is needed below.
LEMMA PusherTyped ==
  ASSUME IndInv
  PROVE  /\ forceFlushing \in Seq(Invocations)
         /\ reply \in [Invocations -> {"none", "ok", "failed"}]
         /\ serving \in Invocations \cup {0}
         /\ doneC \in Invocations \cup {0}
         /\ pc = "select" => cause = "none"
         /\ pc \in {"stopped", "exited"} => cause = "stop"
         /\ 0 \notin Invocations
  BY DEF IndInv, P!IndInv, P!TypeOK, P!StopKeepsEmpty, Invocations

\* No step of the pusher but RecvInvoke, SignalDone and those of Stop changes what it
\* knows of invocations or whether it is being stopped.
LEMMA PusherOwn ==
  ASSUME IndInv, PusherRuns \/ RecordsTaken \/ RuntimeDone
  PROVE  /\ UNCHANGED <<invoked, ctxDone, doneC, timedOut, workerVars>>
         /\ cause' = "stop" <=> cause = "stop"
         /\ pc' = "exited" <=> pc = "exited"
         /\ pc \in {"stopped", "exited"} => pc' \in {"stopped", "exited"}
<1> USE PusherTyped
<1>1. CASE P!CtxDone /\ PusherRuns
  BY <1>1 DEF P!CtxDone, P!PushSync, PusherRuns, hist
<1>2. CASE P!RecvForce /\ PusherRuns
  BY <1>2 DEF P!RecvForce, P!PushSync, PusherRuns, hist
<1>3. CASE (P!PushOk \/ P!PushFail) /\ PusherRuns
  BY <1>3 DEF P!PushOk, P!PushFail, P!AfterPush, P!FinishStop, P!SendDone, P!BackToSelect,
     PusherRuns, hist
<1>4. ASSUME NEW f \in Flushes, P!RecvFlushResp(f), PusherRuns
      PROVE  /\ UNCHANGED <<invoked, ctxDone, doneC, timedOut, workerVars>>
             /\ cause' = "stop" <=> cause = "stop"
             /\ pc' = "exited" <=> pc = "exited"
             /\ pc \in {"stopped", "exited"} => pc' \in {"stopped", "exited"}
  BY <1>4 DEF P!RecvFlushResp, P!SendDone, PusherRuns, hist
<1>5. ASSUME NEW f \in Flushes, P!FlushStart(f) \/ P!FlushOk(f) \/ P!FlushFail(f), PusherRuns
      PROVE  /\ UNCHANGED <<invoked, ctxDone, doneC, timedOut, workerVars>>
             /\ cause' = "stop" <=> cause = "stop"
             /\ pc' = "exited" <=> pc = "exited"
             /\ pc \in {"stopped", "exited"} => pc' \in {"stopped", "exited"}
  BY <1>5 DEF P!FlushStart, P!FlushOk, P!FlushFail, P!FlushTried, PusherRuns, hist
<1>6. CASE RecordsTaken
  BY <1>6 DEF RecordsTaken, P!RecvLogs, hist
<1>7. CASE RuntimeDone
  BY <1>7 DEF RuntimeDone, P!RecvRuntimeDone, P!PushSync, P!StartFlush
<1> QED
  BY <1>1, <1>2, <1>3, <1>4, <1>5, <1>6, <1>7 DEF PusherRuns

\* Nor does it ask for a force flush.
LEMMA PusherAsksNothing ==
  ASSUME IndInv, PusherRuns \/ RecordsTaken \/ RuntimeDone, NEW i \in Invocations, AskedFor(i)'
  PROVE  AskedFor(i)
<1> USE PusherTyped DEF AskedFor
<1>1. CASE P!RecvForce
  <2>1. forceFlushing # <<>> /\ forceFlushing' = Tail(forceFlushing)
    BY <1>1 DEF P!RecvForce
  <2>2. Head(forceFlushing) \in P!Range(forceFlushing)
    BY <2>1 DEF P!Range
  <2>3. P!Range(forceFlushing') \subseteq P!Range(forceFlushing)
    BY <2>1 DEF P!Range
  <2>4. serving' = serving \/ serving' = Head(forceFlushing)
    BY <1>1 DEF P!RecvForce
  <2>5. reply'[i] = reply[i] \/ i = Head(forceFlushing)
    BY <1>1 DEF P!RecvForce, P!Reply
  <2> QED
    BY <2>2, <2>3, <2>4, <2>5
<1>2. CASE P!PushOk \/ P!PushFail
  <2>1. forceFlushing' = forceFlushing
    BY <1>2 DEF P!PushOk, P!PushFail, P!AfterPush
  <2>2. serving' = serving \/ serving' = 0
    BY <1>2 DEF P!PushOk, P!PushFail, P!AfterPush
  <2>3. reply'[i] = reply[i] \/ i = serving
    BY <1>2 DEF P!PushOk, P!PushFail, P!AfterPush, P!Reply
  <2> QED
    BY <2>1, <2>2, <2>3 DEF P!Range
<1>3. CASE ~(P!RecvForce \/ P!PushOk \/ P!PushFail)
  <2>1. UNCHANGED <<forceFlushing, serving, reply>>
    BY <1>3 DEF PusherRuns, RecordsTaken, RuntimeDone, P!CtxDone, P!RecvFlushResp, P!FlushStart,
       P!FlushOk, P!FlushFail, P!FlushTried, P!RecvLogs, P!RecvRuntimeDone
  <2> QED
    BY <2>1 DEF P!Range
<1> QED
  BY <1>1, <1>2, <1>3

-----------------------------------------------------------------------------
(***************************************************************************)
(* The invocation and its doneC.                                           *)
(***************************************************************************)

Handling == Known /\ TimedOutOnly /\ AskedOnce /\ DoneAwaited

\* The steps that do not concern the invocation at all.
LEMMA HandlingElsewhere ==
  ASSUME IndInv,
         \/ FunctionRuns \/ ProcessorRuns \/ StopProducer \/ StopProcessor \/ Signal
         \/ UNCHANGED vars
         \/ \E k \in Handlers : Telemetry(k) \/ EventsTaken(k) \/ EventsPanic(k)
  PROVE  Handling'
<1>1. UNCHANGED <<h, inv>>
  BY DEF FunctionRuns, ProcessorRuns, StopProducer, StopProcessor, Signal, Telemetry,
     EventsTaken, EventsPanic, vars, workerVars, StopSlept, ProducerShutDown,
     ProcessorStopSent, ProcessorStopped, StopGoes, GetSignal
<1>2. UNCHANGED pvars /\ UNCHANGED timedOut
  BY DEF FunctionRuns, ProcessorRuns, StopProducer, StopProcessor, Signal, Telemetry,
     EventsTaken, EventsPanic, vars, hist
<1>3. assigned' = assigned
  BY DEF FunctionRuns, ProcessorRuns, StopProducer, StopProcessor, Signal, Telemetry,
     EventsTaken, EventsPanic, vars, rvars, R!RecvEvents, R!ProcessEvent, R!EndOfBatch,
     R!RecvStopR, R!SendStoppedR
<1>4. UNCHANGED <<invoked, ctxDone, doneC, cause, pc, forceFlushing, serving, reply>>
  BY <1>2 DEF pvars
<1> QED
  BY <1>1, <1>2, <1>3, <1>4 DEF IndInv, Handling, Known, TimedOutOnly, AskedOnce, AskedFor,
     DoneAwaited, P!Range

\* The pusher at work.
LEMMA HandlingByPusher ==
  ASSUME IndInv, PusherRuns \/ RecordsTaken \/ RuntimeDone
  PROVE  Handling'
<1>1. /\ UNCHANGED <<invoked, ctxDone, doneC, timedOut, h, inv>>
      /\ pc \in {"stopped", "exited"} => pc' \in {"stopped", "exited"}
  BY PusherOwn DEF workerVars
<1>2. assigned' = assigned
  BY DEF PusherRuns, RecordsTaken, RuntimeDone, rvars, R!SendOut, R!SendRuntimeDone
<1>3. AskedOnce'
  BY <1>1, PusherAsksNothing DEF IndInv, AskedOnce
<1> QED
  BY <1>1, <1>2, <1>3 DEF IndInv, Handling, Known, TimedOutOnly, DoneAwaited

\* The steps of Worker.Invoke, from NextEvent to NextEvent.
LEMMA HandlingInvoke ==
  ASSUME IndInv,
         \/ InvokeStarts \/ PusherInvoke \/ ProcessorInvoke \/ Timeout \/ PusherDone
         \/ InvokeTimesOut \/ ForceRequested \/ InvokeReturns
  PROVE  Handling'
<1> USE PusherTyped, Lengths
    DEF Handling, IndInv, Known, TimedOutOnly, AskedOnce, AskedFor, DoneAwaited, InInvoke,
        P!Range, Invocations
<1>1. CASE InvokeStarts
  <2>1. h = "next" /\ h' = "pusherInvoke" /\ inv' = inv + 1
    BY <1>1 DEF InvokeStarts, GetInvoke
  <2>2. UNCHANGED <<invoked, ctxDone, doneC, cause, pc, forceFlushing, serving, reply, assigned, timedOut>>
    BY <1>1 DEF InvokeStarts, pvars, rvars, hist
  <2>3. inv \in Nat /\ inv + 1 # 0 /\ inv + 1 \notin 1..inv /\ 1..inv \subseteq 1..(inv + 1)
    OBVIOUS
  <2>4. Known' /\ TimedOutOnly'
    BY <2>1, <2>2, <2>3
  <2>5. AskedOnce'
    <3>1. \A i \in Invocations : AskedFor(i)' <=> AskedFor(i)
      BY <2>2
    <3>2. \A i \in Invocations : i < inv \/ i = inv => i < inv + 1
      OBVIOUS
    <3> QED
      BY <2>1, <3>1, <3>2
  <2>6. DoneAwaited'
    BY <2>1, <2>2
  <2> QED
    BY <2>4, <2>5, <2>6
<1>2. CASE PusherInvoke
  <2>1. h = "pusherInvoke" /\ h' = "processorInvoke" /\ inv' = inv
    BY <1>2 DEF PusherInvoke, PusherInvoked, HGoes
  <2>2. invoked' = invoked \cup {inv} /\ doneC' = inv
    BY <1>2 DEF PusherInvoke, P!RecvInvoke
  <2>3. UNCHANGED <<ctxDone, forceFlushing, serving, reply, assigned, timedOut>>
    BY <1>2 DEF PusherInvoke, P!RecvInvoke, rvars
  <2> QED
    BY <2>1, <2>2, <2>3
<1>3. CASE ProcessorInvoke
  <2>1. h = "processorInvoke" /\ h' = "await" /\ inv' = inv
    BY <1>3 DEF ProcessorInvoke, ProcessorInvoked, HGoes
  <2>2. assigned' = assigned \cup {inv}
    BY <1>3 DEF ProcessorInvoke, R!RecvRequest
  <2>3. UNCHANGED <<invoked, ctxDone, doneC, cause, pc, forceFlushing, serving, reply, timedOut>>
    BY <1>3 DEF ProcessorInvoke, pvars, hist
  <2> QED
    BY <2>1, <2>2, <2>3
<1>4. CASE Timeout
  <2>1. h \in InInvoke /\ h' = h /\ inv' = inv
    BY <1>4 DEF Timeout, workerVars
  <2>2. ctxDone' = ctxDone \cup {inv} /\ timedOut' = timedOut \cup {inv}
    BY <1>4 DEF Timeout, P!Cancel
  <2>3. UNCHANGED <<invoked, doneC, cause, pc, forceFlushing, serving, reply, assigned>>
    BY <1>4 DEF Timeout, P!Cancel, rvars
  <2> QED
    BY <2>1, <2>2, <2>3
<1>5. CASE PusherDone
  <2>1. h = "await" /\ h' = "return" /\ inv' = inv
    BY <1>5 DEF PusherDone, SeeDoneC, HGoes
  <2>2. pc' = "stopped" \/ doneC' = 0
    BY <1>5 DEF PusherDone, P!SignalDone
  <2>3. UNCHANGED <<invoked, ctxDone, forceFlushing, serving, reply, assigned, timedOut>>
    BY <1>5 DEF PusherDone, P!SignalDone, rvars, hist
  <2> QED
    BY <2>1, <2>2, <2>3
<1>6. CASE InvokeTimesOut
  <2>1. /\ inv' = inv
        /\ \/ h = "await" /\ inv \in ctxDone /\ h' = "forceSend"
           \/ h \in {"forceSend", "forceWait"} /\ h' = "return"
    BY <1>6 DEF InvokeTimesOut, SeeCtxDone, ForceReplied, ForceTimesOut, HGoes
  <2>2. UNCHANGED <<invoked, ctxDone, doneC, cause, pc, forceFlushing, serving, reply, assigned, timedOut>>
    BY <1>6 DEF InvokeTimesOut, pvars, rvars, hist
  <2>3. Known' /\ TimedOutOnly'
    BY <2>1, <2>2
  <2>4. AskedOnce'
    BY <2>1, <2>2
  <2>5. DoneAwaited'
    BY <2>1, <2>2
  <2> QED
    BY <2>3, <2>4, <2>5
<1>7. CASE ForceRequested
  <2>1. h = "forceSend" /\ h' = "forceWait" /\ inv' = inv
    BY <1>7 DEF ForceRequested, ForceSent, HGoes
  <2>2. forceFlushing' = Append(forceFlushing, inv)
    BY <1>7 DEF ForceRequested, P!SendForce
  <2>3. UNCHANGED <<invoked, ctxDone, doneC, cause, pc, serving, reply, assigned, timedOut>>
    BY <1>7 DEF ForceRequested, P!SendForce, rvars, hist
  <2>4. Known' /\ TimedOutOnly' /\ DoneAwaited'
    BY <2>1, <2>3
  <2>5. inv \in Invocations
    BY <2>1
  <2>6. P!Range(forceFlushing)' \subseteq P!Range(forceFlushing) \cup {inv}
    BY <2>2, <2>5
  <2>7. AskedOnce'
    BY <2>1, <2>3, <2>6
  <2> QED
    BY <2>4, <2>7
<1>8. CASE InvokeReturns
  <2>1. h = "return" /\ h' = "next" /\ inv' = inv
    BY <1>8 DEF InvokeReturns, Return, HGoes
  <2>2. ctxDone' \subseteq ctxDone \cup {inv}
    BY <1>8 DEF InvokeReturns, P!Cancel, pvars
  <2>3. UNCHANGED <<invoked, doneC, cause, pc, forceFlushing, serving, reply, assigned, timedOut>>
    BY <1>8 DEF InvokeReturns, P!Cancel, pvars, rvars, hist
  <2> QED
    BY <2>1, <2>2, <2>3
<1> QED
  BY <1>1, <1>2, <1>3, <1>4, <1>5, <1>6, <1>7, <1>8

\* The end of handleInvocations, and the stop of the pusher.
LEMMA HandlingEnd ==
  ASSUME IndInv, ShutdownEvent \/ CallStop \/ NextEventFails \/ Exit \/ StopPusher
  PROVE  Handling'
<1>1. /\ inv' = inv
      /\ h' = h \/ h' \in {"callStop", "stop", "sendStop", "gone"}
      /\ h' # h => h \notin {"processorInvoke", "await"} \/ pc \in {"stopped", "exited"}
  BY PusherTyped DEF ShutdownEvent, GetShutdown, CallStop, HandlerCallsStop, SignalCallsStop,
     KillSleepEnds, NextEventFails, NextFails, Exit, MainReturns, StopPusher, PusherStopSent,
     PusherStopped, P!SendStopped, StopGoes, HGoes
<1>2. UNCHANGED <<invoked, ctxDone, doneC, forceFlushing, serving, reply, assigned, timedOut>>
  BY DEF ShutdownEvent, CallStop, NextEventFails, Exit, StopPusher, P!RecvStop, P!SendStopped,
     pvars, rvars, hist
<1>3. pc \in {"stopped", "exited"} => pc' \in {"stopped", "exited"}
  BY DEF ShutdownEvent, CallStop, NextEventFails, Exit, StopPusher, P!RecvStop, P!SendStopped,
     P!PushSync, P!FinishStop, P!SendDone, pvars
<1> QED
  BY <1>1, <1>2, <1>3 DEF IndInv, Handling, Known, TimedOutOnly, AskedOnce, AskedFor,
     DoneAwaited, InInvoke, P!Range

\* No step spoils what is known of the invocation.
LEMMA HandlingKept == IndInv /\ [Next]_vars => Handling'
  BY HandlingElsewhere, HandlingByPusher, HandlingInvoke, HandlingEnd
  DEF Next, Required, Optional, Ended

-----------------------------------------------------------------------------
(***************************************************************************)
(* Stop.                                                                   *)
(***************************************************************************)

\* The steps of the pusher and the processor at work do not stop anything.
LEMMA StagesAtWork ==
  ASSUME IndInv,
         \/ PusherRuns \/ RecordsTaken \/ RuntimeDone \/ ProcessorRuns
         \/ \E k \in Handlers : EventsTaken(k)
  PROVE  StopStages'
<1>1. UNCHANGED <<h, sig, stopping, stopper, stopAt, server, inClosed>>
  BY DEF PusherRuns, RecordsTaken, RuntimeDone, ProcessorRuns, EventsTaken, PostTaken,
     workerVars, producerVars, rvars, R!SendOut, R!SendRuntimeDone, R!ProcessEvent,
     R!EndOfBatch, R!RecvEvents
<1>2. (cause' = "stop" <=> cause = "stop") /\ (pc' = "exited" <=> pc = "exited")
  BY PusherOwn DEF ProcessorRuns, EventsTaken, pvars
<1>3. /\ rpc' = "exited" <=> rpc = "exited"
      /\ rpc' \in {"drained", "stopped", "exited"} <=> rpc \in {"drained", "stopped", "exited"}
  BY DEF PusherRuns, RecordsTaken, RuntimeDone, ProcessorRuns, EventsTaken, rvars, R!SendOut,
     R!SendRuntimeDone, R!ProcessEvent, R!EndOfBatch, R!RecvEvents
<1> QED
  BY <1>1, <1>2, <1>3 DEF IndInv, StopStages

\* Nor do those of the invocations and of the platform.
LEMMA StagesInvoke ==
  ASSUME IndInv,
         \/ InvokeStarts \/ PusherInvoke \/ ProcessorInvoke \/ Timeout \/ PusherDone
         \/ InvokeTimesOut \/ ForceRequested \/ InvokeReturns \/ FunctionRuns
         \/ ShutdownEvent \/ Signal \/ NextEventFails \/ Exit \/ UNCHANGED vars
         \/ \E k \in Handlers : Telemetry(k) \/ EventsPanic(k)
  PROVE  StopStages'
<1>1. /\ UNCHANGED <<stopping, stopper, stopAt>>
      /\ h' = h \/ h' # "stop"
      /\ sig' = sig \/ sig' # "stop"
  BY DEF InvokeStarts, PusherInvoke, ProcessorInvoke, Timeout, PusherDone, InvokeTimesOut,
     ForceRequested, InvokeReturns, FunctionRuns, ShutdownEvent, Signal, NextEventFails, Exit,
     Telemetry, EventsPanic, GetInvoke, PusherInvoked, ProcessorInvoked, SeeDoneC, SeeCtxDone,
     ForceReplied, ForceTimesOut, ForceSent, Return, GetShutdown, GetSignal, NextFails,
     MainReturns, HGoes, workerVars, vars
<1>2. UNCHANGED <<server, inClosed, rpc>>
  BY DEF InvokeStarts, PusherInvoke, ProcessorInvoke, Timeout, PusherDone, InvokeTimesOut,
     ForceRequested, InvokeReturns, FunctionRuns, ShutdownEvent, Signal, NextEventFails, Exit,
     Telemetry, EventsPanic, Post, PostRefused, PostPanics, R!RecvRequest, producerVars, rvars,
     vars
<1>3. (cause' = "stop" <=> cause = "stop") /\ (pc' = "exited" <=> pc = "exited")
  <2>1. CASE PusherInvoke
    BY <2>1, PusherTyped DEF PusherInvoke, P!RecvInvoke, P!SendDone, P!StartFlush
  <2>2. CASE PusherDone
    BY <2>2 DEF PusherDone, P!SignalDone, P!BackToSelect
  <2>3. CASE ~(PusherInvoke \/ PusherDone)
    BY <2>3 DEF InvokeStarts, ProcessorInvoke, Timeout, InvokeTimesOut, ForceRequested,
       InvokeReturns, FunctionRuns, ShutdownEvent, Signal, NextEventFails, Exit, Telemetry,
       EventsPanic, P!Cancel, P!SendForce, pvars, vars
  <2> QED
    BY <2>1, <2>2, <2>3
<1> QED
  BY <1>1, <1>2, <1>3 DEF IndInv, StopStages

\* Each step of Stop takes it from one stage to the next.
LEMMA StagesOfStop ==
  ASSUME IndInv, CallStop \/ StopProducer \/ StopProcessor \/ StopPusher
  PROVE  StopStages'
<1> USE DEF IndInv, StopStages
<1>1. CASE CallStop
  <2>1. UNCHANGED <<server, inClosed, rpc, cause, pc>>
    BY <1>1 DEF CallStop, producerVars, rvars, pvars
  <2>2. CASE HandlerCallsStop
    BY <2>1, <2>2 DEF HandlerCallsStop, WinsStop, LosesStop
  <2>3. CASE SignalCallsStop
    BY <2>1, <2>3 DEF SignalCallsStop, WinsStop, LosesStop
  <2>4. CASE KillSleepEnds
    BY <2>1, <2>4 DEF KillSleepEnds
  <2> QED
    BY <1>1, <2>2, <2>3, <2>4 DEF CallStop
<1>2. CASE StopProducer
  <2>1. UNCHANGED <<inClosed, rpc, cause, pc>>
    BY <1>2 DEF StopProducer, rvars, pvars
  <2>2. CASE StopSlept /\ BeginShutdown
    BY <2>1, <2>2 DEF StopSlept, BeginShutdown, StopGoes
  <2>3. CASE ProducerShutDown /\ EndShutdown("drainTimeout" \in Allowed)
    BY <2>1, <2>3 DEF ProducerShutDown, EndShutdown, StopGoes
  <2> QED
    BY <1>2, <2>2, <2>3 DEF StopProducer
<1>3. CASE StopProcessor
  <2>1. UNCHANGED <<server, cause, pc>>
    BY <1>3 DEF StopProcessor, producerVars, pvars
  <2>2. CASE ProcessorStopSent /\ R!RecvStopR
    BY <2>1, <2>2 DEF ProcessorStopSent, R!RecvStopR, StopGoes
  <2>3. CASE ProcessorStopped /\ R!SendStoppedR
    BY <2>1, <2>3 DEF ProcessorStopped, R!SendStoppedR, StopGoes
  <2> QED
    BY <1>3, <2>2, <2>3 DEF StopProcessor
<1>4. CASE StopPusher
  <2>1. UNCHANGED <<server, inClosed, rpc>>
    BY <1>4 DEF StopPusher, producerVars, rvars
  <2>2. CASE PusherStopSent /\ P!RecvStop
    <3>1. cause' = "stop" /\ pc' # "exited"
      BY <2>2 DEF P!RecvStop, P!PushSync, P!FinishStop, P!SendDone
    <3> QED
      BY <2>1, <2>2, <3>1 DEF PusherStopSent, StopGoes
  <2>3. CASE PusherStopped /\ P!SendStopped
    BY <2>1, <2>3 DEF PusherStopped, P!SendStopped
  <2> QED
    BY <1>4, <2>2, <2>3 DEF StopPusher
<1> QED
  BY <1>1, <1>2, <1>3, <1>4

\* No step disturbs the stages of Stop.
LEMMA StagesKept == IndInv /\ [Next]_vars => StopStages'
  BY StagesAtWork, StagesInvoke, StagesOfStop DEF Next, Required, Optional, Ended

\* No step changes who stops but those of the two that may.
LEMMA WhoStopsKept == IndInv /\ [Next]_vars => WhoStops'
<1> SUFFICES ASSUME IndInv, [Next]_vars
             PROVE  WhoStops'
  OBVIOUS
<1> USE DEF IndInv, StopStages, WhoStops, EndsByStop
<1>1. CASE UNCHANGED <<h, sig, stopper, stopAt, over>>
  BY <1>1
<1>2. CASE \/ FunctionRuns \/ ProcessorRuns \/ RecordsTaken \/ RuntimeDone \/ Timeout \/ PusherRuns
           \/ UNCHANGED vars
           \/ \E k \in Handlers : Telemetry(k) \/ EventsTaken(k) \/ EventsPanic(k)
  BY <1>1, <1>2 DEF FunctionRuns, ProcessorRuns, RecordsTaken, RuntimeDone, Timeout, PusherRuns,
     Telemetry, EventsTaken, EventsPanic, workerVars, vars
<1>3. CASE InvokeStarts
  BY <1>3 DEF InvokeStarts, GetInvoke
<1>4. CASE \/ PusherInvoke \/ ProcessorInvoke \/ PusherDone \/ InvokeTimesOut \/ ForceRequested
           \/ InvokeReturns \/ ShutdownEvent \/ NextEventFails
  BY <1>4 DEF PusherInvoke, ProcessorInvoke, PusherDone, InvokeTimesOut, ForceRequested,
     InvokeReturns, ShutdownEvent, NextEventFails, PusherInvoked, ProcessorInvoked, SeeDoneC,
     SeeCtxDone, ForceReplied, ForceTimesOut, ForceSent, Return, GetShutdown, NextFails, HGoes
<1>5. CASE Signal
  BY <1>5 DEF Signal, GetSignal
<1>6. CASE CallStop
  <2>1. stopper \in {"none", "handler", "signal"}
    BY DEF TypeOK, WorkerTypeOK
  <2> QED
    BY <1>6, <2>1 DEF CallStop, HandlerCallsStop, SignalCallsStop, KillSleepEnds, WinsStop,
       LosesStop
<1>7. CASE StopProducer \/ StopProcessor
  BY <1>7 DEF StopProducer, StopProcessor, StopSlept, ProducerShutDown, ProcessorStopSent,
     ProcessorStopped, StopGoes
<1>8. CASE StopPusher
  <2>1. stopper \in {"none", "handler", "signal"}
    BY DEF TypeOK, WorkerTypeOK
  <2> QED
    BY <1>8, <2>1 DEF StopPusher, PusherStopSent, PusherStopped, StopGoes
<1>9. CASE Exit
  BY <1>9 DEF Exit, MainReturns
<1> QED
  BY <1>2, <1>3, <1>4, <1>5, <1>6, <1>7, <1>8, <1>9 DEF Next, Required, Optional, Ended

-----------------------------------------------------------------------------
(***************************************************************************)
(* The events on their way.                                                *)
(***************************************************************************)

\* A message is a sequence of events, of at most MaxPost.
LEMMA MessageLength ==
  ASSUME NEW m \in R!Message
  PROVE  /\ m \in Seq(R!Event)
         /\ Len(m) \in 0..MaxPost
         /\ m # <<>> => Len(m) \in 1..MaxPost
<1> DEFINE E == R!Event
<1>1. PICK n \in 0..MaxPost : m \in [1..n -> E]
  BY DEF R!Message
<1>2. n \in Nat /\ MaxPost \in Nat
  BY ExtensionAssumption
<1> HIDE DEF E
<1>3. m \in Seq(E)
  BY <1>1, <1>2, SeqDef
<1>4. Len(m) = n
  BY <1>1, <1>2, <1>3, LenProperties
<1>5. m # <<>> => Len(m) # 0
  BY <1>3, EmptySeq
<1> QED
  BY <1>2, <1>3, <1>4, <1>5 DEF E

\* What the platform has recorded, and cuts off to post, are events.
LEMMA Recording ==
  ASSUME IndInv, NEW i \in Invocations,
         NEW t \in R!EventType, NEW form \in {"ok", "partial", "unbilled"},
         form = "unbilled" => t = "report"
  PROVE  RecordedAs(form, t, i) \in Seq(R!Event)
<1>1. [type |-> t, req |-> i, form |-> form] \in R!Event
  BY DEF R!Event, R!Form
<1> QED
  BY <1>1 DEF IndInv, EventsOnTheWay, RecordedAs

LEMMA Posting ==
  ASSUME IndInv, NEW n \in 1..Len(stream), Posts(n)
  PROVE  /\ SubSeq(stream, 1, n) \in R!Message \ {<<>>}
         /\ stream' \in Seq(R!Event)
<1> DEFINE E == R!Event
           s == stream
<1>1. s \in Seq(E)
  BY DEF IndInv, EventsOnTheWay
<1>2. n \in 1..MaxPost /\ n \in 1..Len(s) /\ s' = SubSeq(s, n + 1, Len(s)) /\ MaxPost \in Nat
  BY ExtensionAssumption DEF Posts
<1> HIDE DEF E, s
<1>3. Len(s) \in Nat /\ \A j \in 1..Len(s) : s[j] \in E
  BY <1>1, ElementOfSeq
<1>4. SubSeq(s, n + 1, Len(s)) \in Seq(E)
  <2>1. n + 1 \in Int /\ Len(s) \in Int /\ \A j \in (n + 1)..Len(s) : s[j] \in E
    BY <1>2, <1>3
  <2> QED
    BY <2>1, SubSeqProperties
<1>5. SubSeq(s, 1, n) \in Seq(E) /\ Len(SubSeq(s, 1, n)) = n
  <2>1. 1 \in Int /\ n \in Int /\ 1 <= n /\ \A j \in 1..n : s[j] \in E
    BY <1>2, <1>3
  <2>2. /\ SubSeq(s, 1, n) \in Seq(E)
        /\ Len(SubSeq(s, 1, n)) = IF 1 <= n THEN n - 1 + 1 ELSE 0
    BY <2>1, SubSeqProperties
  <2> QED
    BY <2>1, <2>2
<1>6. SubSeq(s, 1, n) \in [1..n -> E]
  BY <1>5, LenProperties
<1>7. n \in 0..MaxPost /\ SubSeq(s, 1, n) # <<>>
  BY <1>2, <1>5, EmptySeq
<1>8. SubSeq(s, 1, n) \in R!Message
  BY <1>6, <1>7 DEF R!Message, E
<1> QED
  BY <1>2, <1>4, <1>7, <1>8 DEF E, s

\* The steps that record or post an event.
LEMMA EventsRecorded ==
  ASSUME IndInv, InvokeStarts \/ FunctionRuns \/ \E k \in Handlers : Telemetry(k)
  PROVE  EventsOnTheWay'
<1> USE Lengths
<1>1. UNCHANGED rvars
  BY DEF InvokeStarts, FunctionRuns, Telemetry
<1>2. /\ Len(out') + Len(batch') <= MaxPost
      /\ rpc' \notin {"batch", "out"} => out' = <<>>
  BY <1>1 DEF IndInv, EventsOnTheWay, PostStates, rvars
<1>3. /\ inv' \in Nat /\ (fn' # "idle" => inv' # 0)
      /\ stream' \in Seq(R!Event)
      /\ posted' \in [Handlers -> PostStates]
  <2> USE DEF IndInv, EventsOnTheWay, PostStates
  <2>1. CASE InvokeStarts
    <3>1. inv' = inv + 1 /\ inv + 1 \in Invocations
      BY <2>1 DEF InvokeStarts, GetInvoke, Invocations
    <3>2. stream' = Recorded("start", inv + 1) /\ posted' = posted
      BY <2>1, <3>1 DEF InvokeStarts, FunctionStarts, producerVars
    <3>3. Recorded("start", inv + 1) \in Seq(R!Event)
      BY <3>1, Recording DEF R!EventType, Recorded
    <3> QED
      BY <3>1, <3>2, <3>3
  <2>2. CASE FunctionRuns
    <3>1. inv' = inv /\ posted' = posted /\ fn # "idle"
      BY <2>2 DEF FunctionRuns, workerVars, producerVars, FunctionLogs, OtherEvent,
         FunctionEnds, Reports
    <3>2. inv \in Invocations
      BY <3>1 DEF Invocations
    <3>3. PICK t \in R!EventType, form \in {"ok", "partial", "unbilled"} :
            (form = "unbilled" => t = "report") /\ stream' = RecordedAs(form, t, inv)
      BY <2>2 DEF FunctionRuns, FunctionLogs, OtherEvent, FunctionEnds, Reports, Recorded,
         R!EventType
    <3> QED
      BY <3>1, <3>2, <3>3, Recording
  <2>3. ASSUME NEW k \in Handlers, Telemetry(k)
        PROVE  /\ inv' \in Nat /\ (fn' # "idle" => inv' # 0)
               /\ stream' \in Seq(R!Event)
               /\ posted' \in [Handlers -> PostStates]
    <3>1. PICK n \in 1..Len(stream) :
            /\ Posts(n)
            /\ Post(k, SubSeq(stream, 1, n)) \/ PostRefused(k)
      BY <2>3 DEF Telemetry
    <3>2. posted' = posted \/ posted' = [posted EXCEPT ![k] = <<SubSeq(stream, 1, n)>>]
      BY <3>1 DEF Post, PostRefused, producerVars
    <3>3. inv' = inv /\ fn' = fn
      BY <2>3, <3>1 DEF Telemetry, workerVars, Posts
    <3> QED
      BY <3>1, <3>2, <3>3, Posting
  <2> QED
    BY <2>1, <2>2, <2>3
<1> QED
  BY <1>2, <1>3 DEF EventsOnTheWay

\* The steps of the processor, which turns the events of a message into records.
LEMMA EventsProcessed ==
  ASSUME IndInv,
         \/ ProcessorRuns \/ RecordsTaken \/ RuntimeDone \/ ProcessorInvoke \/ StopProcessor
         \/ \E k \in Handlers : EventsTaken(k)
  PROVE  EventsOnTheWay'
<1> USE Lengths DEF IndInv, EventsOnTheWay, PostStates
<1>1. /\ UNCHANGED <<inv, fn, stream>>
      /\ posted' \in [Handlers -> PostStates]
  BY DEF ProcessorRuns, RecordsTaken, RuntimeDone, ProcessorInvoke, StopProcessor, EventsTaken,
     PostTaken, ProcessorInvoked, ProcessorStopSent, ProcessorStopped, HGoes, StopGoes,
     workerVars, producerVars, platformVars
<1>2. /\ Len(out') + Len(batch') <= MaxPost
      /\ rpc' \notin {"batch", "out"} => out' = <<>>
  <2>1. CASE R!ProcessEvent
    <3>1. out \in Seq(R!LogRecord) /\ batch \in Seq(R!Event)
      BY DEF R!IndInv, R!TypeOK
    <3>2. batch # <<>> /\ batch' = Tail(batch) /\ rpc = "batch" /\ rpc' = rpc
      BY <2>1 DEF R!ProcessEvent
    <3>3. Len(batch') = Len(batch) - 1
      BY <3>1, <3>2, HeadTailProperties
    <3>4. out' = out \/ Len(out') = Len(out) + 1
      BY <2>1, <3>1 DEF R!ProcessEvent
    <3> QED
      BY <3>2, <3>3, <3>4
  <2>2. CASE R!SendOut
    <3>1. batch' = batch /\ out' = <<>> /\ Len(out') = 0
      BY <2>2 DEF R!SendOut
    <3> QED
      BY <3>1
  <2>3. CASE R!EndOfBatch \/ R!SendRuntimeDone \/ R!RecvRequest(inv) \/ R!RecvStopR \/ R!SendStoppedR
    BY <2>3 DEF R!EndOfBatch, R!SendRuntimeDone, R!RecvRequest, R!RecvStopR, R!SendStoppedR
  <2>4. ASSUME NEW k \in Handlers, EventsTaken(k)
        PROVE  /\ Len(out') + Len(batch') <= MaxPost
               /\ rpc' \notin {"batch", "out"} => out' = <<>>
    <3>1. PICK m \in R!Message : posted[k] = <<m>>
      BY <2>4 DEF EventsTaken, PostTaken
    <3>2. batch' = m /\ out' = out /\ rpc = "select"
      BY <2>4, <3>1 DEF EventsTaken, R!RecvEvents
    <3>3. out = <<>> /\ Len(out) = 0
      BY <3>2
    <3>4. Len(m) \in 0..MaxPost
      BY MessageLength
    <3> QED
      BY <3>2, <3>3, <3>4
  <2> QED
    BY <2>1, <2>2, <2>3, <2>4 DEF ProcessorRuns, RecordsTaken, RuntimeDone, ProcessorInvoke,
       StopProcessor
<1> QED
  BY <1>1, <1>2

\* No step spoils what is known of them.
LEMMA EventsKept == IndInv /\ [Next]_vars => EventsOnTheWay'
<1> SUFFICES ASSUME IndInv, [Next]_vars
             PROVE  EventsOnTheWay'
  OBVIOUS
<1>1. CASE \/ InvokeStarts \/ FunctionRuns \/ ProcessorRuns \/ RecordsTaken \/ RuntimeDone
           \/ ProcessorInvoke \/ StopProcessor
           \/ \E k \in Handlers : Telemetry(k) \/ EventsTaken(k)
  BY <1>1, EventsRecorded, EventsProcessed
<1>2. CASE \/ PusherInvoke \/ Timeout \/ PusherDone \/ InvokeTimesOut \/ ForceRequested
           \/ InvokeReturns \/ PusherRuns \/ ShutdownEvent \/ CallStop \/ StopProducer
           \/ StopPusher \/ Exit \/ Signal \/ NextEventFails \/ UNCHANGED vars
           \/ \E k \in Handlers : EventsPanic(k)
  <2>1. UNCHANGED <<inv, fn, stream>> /\ UNCHANGED rvars
    BY <1>2 DEF PusherInvoke, Timeout, PusherDone, InvokeTimesOut, ForceRequested,
       InvokeReturns, PusherRuns, ShutdownEvent, CallStop, StopProducer, StopPusher, Exit,
       Signal, NextEventFails, EventsPanic, PusherInvoked, SeeDoneC, SeeCtxDone, ForceReplied,
       ForceTimesOut, ForceSent, Return, GetShutdown, HandlerCallsStop, SignalCallsStop,
       KillSleepEnds, StopSlept, ProducerShutDown, PusherStopSent, PusherStopped, StopGoes,
       MainReturns, GetSignal, NextFails, HGoes, workerVars, platformVars, vars
  <2>2. posted' = posted \/ \E k \in Handlers : posted' = [posted EXCEPT ![k] = Idle]
    BY <1>2 DEF PusherInvoke, Timeout, PusherDone, InvokeTimesOut, ForceRequested,
       InvokeReturns, PusherRuns, ShutdownEvent, CallStop, StopProducer, StopPusher, Exit,
       Signal, NextEventFails, EventsPanic, PostPanics, BeginShutdown, EndShutdown,
       producerVars, vars
  <2> QED
    BY <2>1, <2>2 DEF IndInv, EventsOnTheWay, PostStates, rvars
<1> QED
  BY <1>1, <1>2 DEF Next, Required, Optional, Ended


-----------------------------------------------------------------------------
(***************************************************************************)
(* The types, and the whole invariant.                                     *)
(***************************************************************************)

\* The worker's steps keep its types.
LEMMA WorkerTyped == IndInv /\ [Next]_vars => WorkerTypeOK'
<1> SUFFICES ASSUME IndInv, [Next]_vars
             PROVE  WorkerTypeOK'
  OBVIOUS
<1> USE DEF IndInv, TypeOK, WorkerTypeOK, HLabel, SLabel, StopLabel
<1>1. CASE InvokeStarts
  <2>1. inv' \in 0..LastInvocation
    BY <1>1, Lengths DEF InvokeStarts, GetInvoke
  <2> QED
    BY <1>1, <2>1 DEF InvokeStarts, GetInvoke
<1>2. CASE \/ PusherInvoke \/ ProcessorInvoke \/ PusherDone \/ InvokeTimesOut \/ ForceRequested
           \/ InvokeReturns \/ ShutdownEvent \/ NextEventFails
  BY <1>2 DEF PusherInvoke, ProcessorInvoke, PusherDone, InvokeTimesOut, ForceRequested,
     InvokeReturns, ShutdownEvent, NextEventFails, PusherInvoked, ProcessorInvoked, SeeDoneC,
     SeeCtxDone, ForceReplied, ForceTimesOut, ForceSent, Return, GetShutdown, NextFails, HGoes
<1>3. CASE CallStop \/ Signal
  BY <1>3 DEF CallStop, Signal, HandlerCallsStop, SignalCallsStop, KillSleepEnds, WinsStop,
     LosesStop, GetSignal
<1>4. CASE StopProducer \/ StopProcessor
  BY <1>4 DEF StopProducer, StopProcessor, StopSlept, ProducerShutDown, ProcessorStopSent,
     ProcessorStopped, StopGoes
<1>5. CASE StopPusher \/ Exit
  BY <1>5 DEF StopPusher, Exit, PusherStopSent, PusherStopped, StopGoes, MainReturns
<1>6. CASE UNCHANGED workerVars
  BY <1>6 DEF workerVars
<1>7. CASE \/ FunctionRuns \/ ProcessorRuns \/ RecordsTaken \/ RuntimeDone \/ Timeout \/ PusherRuns
           \/ UNCHANGED vars
           \/ \E k \in Handlers : Telemetry(k) \/ EventsTaken(k) \/ EventsPanic(k)
  BY <1>6, <1>7 DEF FunctionRuns, ProcessorRuns, RecordsTaken, RuntimeDone, Timeout, PusherRuns,
     Telemetry, EventsTaken, EventsPanic, vars
<1> QED
  BY <1>1, <1>2, <1>3, <1>4, <1>5, <1>7 DEF Next, Required, Optional, Ended

\* The platform's and the histories'.
LEMMA PlatformTyped ==
  IndInv /\ [Next]_vars => fn' \in {"idle", "running", "ended"} /\ timedOut' \subseteq Invocations
<1> SUFFICES ASSUME IndInv, [Next]_vars
             PROVE  fn' \in {"idle", "running", "ended"} /\ timedOut' \subseteq Invocations
  OBVIOUS
<1> USE DEF IndInv, TypeOK
<1>1. CASE Timeout
  <2>1. inv \in Invocations
    BY <1>1, Lengths DEF Timeout, Known, InInvoke, Invocations
  <2> QED
    BY <1>1, <2>1 DEF Timeout, platformVars
<1>2. CASE InvokeStarts \/ FunctionRuns \/ \E k \in Handlers : Telemetry(k)
  BY <1>2 DEF InvokeStarts, FunctionRuns, Telemetry, FunctionStarts, FunctionLogs, OtherEvent,
     FunctionEnds, Reports, Posts, hist
<1>3. CASE ~(Timeout \/ InvokeStarts \/ FunctionRuns \/ \E k \in Handlers : Telemetry(k))
  <2>1. UNCHANGED <<fn, timedOut>>
    BY <1>3 DEF Next, Required, Optional, Ended, ProcessorRuns, RecordsTaken, RuntimeDone,
       PusherInvoke, ProcessorInvoke, PusherDone, InvokeTimesOut, ForceRequested, InvokeReturns,
       PusherRuns, ShutdownEvent, CallStop, StopProducer, StopProcessor, StopPusher, Exit,
       Signal, NextEventFails, EventsTaken, EventsPanic, hist, platformVars, vars
  <2> QED
    BY <2>1
<1> QED
  BY <1>1, <1>2, <1>3

\* Only invocations go astray.
LEMMA AstrayTyped == IndInv /\ [Next]_vars => astray' \subseteq Invocations
<1> SUFFICES ASSUME IndInv, [Next]_vars
             PROVE  astray' \subseteq Invocations
  OBVIOUS
<1>a. astray \subseteq Invocations
  BY DEF IndInv, TypeOK
<1>1. ASSUME NEW message
      PROVE  Losing(message) \subseteq Invocations
  BY DEF Losing
<1>2. CASE FunctionRuns
  <2>1. astray' = astray \/ (astray' = astray \cup {inv} /\ fn # "idle")
    BY <1>2 DEF FunctionRuns, FunctionEnds, Reports, Strays
  <2>2. fn # "idle" => inv \in Invocations
    BY Lengths DEF IndInv, EventsOnTheWay, Invocations
  <2> QED
    BY <1>a, <2>1, <2>2
<1>3. ASSUME NEW k \in Handlers, Telemetry(k) \/ EventsPanic(k)
      PROVE  astray' \subseteq Invocations
  <2>1. astray' = astray \/ \E message : astray' = astray \cup Losing(message)
    BY <1>3 DEF Telemetry, EventsPanic, Strays
  <2> QED
    BY <1>a, <1>1, <2>1
<1>4. CASE ProcessorRuns
  <2>1. astray' = astray \/ (astray' = astray \cup {Head(batch).req} /\ batch # <<>>)
    BY <1>4 DEF ProcessorRuns, R!ProcessEvent, Strays
  <2>2. batch # <<>> => Head(batch) \in R!Event
    BY DEF IndInv, R!IndInv, R!TypeOK
  <2>3. batch # <<>> => Head(batch).req \in Invocations
    BY <2>2 DEF R!Event
  <2> QED
    BY <1>a, <2>1, <2>3
<1>5. CASE ~(FunctionRuns \/ ProcessorRuns \/ \E k \in Handlers : Telemetry(k) \/ EventsPanic(k))
  <2>1. astray' = astray
    BY <1>5 DEF Next, Required, Optional, Ended, InvokeStarts, RecordsTaken, RuntimeDone, Timeout,
       PusherInvoke, ProcessorInvoke, PusherDone, InvokeTimesOut, ForceRequested, InvokeReturns,
       PusherRuns, ShutdownEvent, CallStop, StopProducer, StopProcessor, StopPusher, Exit,
       Signal, NextEventFails, EventsTaken, hist, vars
  <2> QED
    BY <1>a, <2>1
<1> QED
  BY <1>2, <1>3, <1>4, <1>5

\* What the handlers are blocked sending is never empty.
LEMMA PostedTyped ==
  ASSUME EventsOnTheWay
  PROVE  \A k \in Handlers : posted[k] = Idle \/ \E n \in 1..MaxPost : Len(posted[k][1]) = n
<1> SUFFICES ASSUME NEW k \in Handlers, posted[k] # Idle
             PROVE  \E n \in 1..MaxPost : Len(posted[k][1]) = n
  OBVIOUS
<1>1. PICK m \in R!Message \ {<<>>} : posted[k] = <<m>>
  BY DEF EventsOnTheWay, PostStates
<1>2. Len(m) \in 1..MaxPost
  BY MessageLength
<1> QED
  BY <1>1, <1>2

\* The invariant holds at the start, ...
LEMMA InitInd == Init => IndInv
<1> SUFFICES ASSUME Init
             PROVE  IndInv
  OBVIOUS
<1> USE DEF Init, WorkerInit, ProducerInit, PlatformInit
<1>1. P!IndInv
  BY SamePusherInit, SamePusherInv, ComponentAssumptions, PP!InitInd
<1>2. R!IndInv
  BY SameProcessorInit, SameProcessorInv, ComponentAssumptions, RP!InitInd
<1>3. EventsOnTheWay
  <2>1. /\ out = <<>> /\ batch = <<>> /\ Len(out) = 0 /\ Len(batch) = 0
        /\ fn = "idle" /\ stream = <<>> /\ posted = [k \in Handlers |-> Idle]
    BY DEF R!Init
  <2>2. <<>> \in Seq(R!Event)
    BY EmptySeq
  <2> QED
    BY <2>1, <2>2, ExtensionAssumption DEF EventsOnTheWay, PostStates
<1>4. TypeOK
  <2>1. 0 \in 0..LastInvocation
    BY ExtensionAssumption
  <2>2. WorkerTypeOK
    BY <2>1 DEF WorkerTypeOK, HLabel, SLabel, StopLabel
  <2>3. \A k \in Handlers : posted[k] = Idle
    OBVIOUS
  <2> QED
    BY <1>1, <1>2, <2>2, <2>3 DEF TypeOK, P!IndInv, R!IndInv
<1>5. /\ invoked = {} /\ assigned = {} /\ ctxDone = {} /\ doneC = 0 /\ serving = 0
      /\ forceFlushing = <<>> /\ \A i \in Invocations : reply[i] = "none"
      /\ cause = "none" /\ pc = "select" /\ rpc = "select" /\ ~inClosed
  BY DEF P!Init, R!Init
<1>6. Known /\ TimedOutOnly /\ StopStages /\ WhoStops /\ DoneAwaited
  BY <1>5 DEF Known, TimedOutOnly, InInvoke, StopStages, WhoStops, EndsByStop, DoneAwaited
<1>7. AskedOnce
  BY <1>5 DEF AskedOnce, AskedFor, P!Range, Invocations
<1> QED
  BY <1>1, <1>2, <1>3, <1>4, <1>6, <1>7 DEF IndInv

\* ... and every step keeps it.
LEMMA NextInd == IndInv /\ [Next]_vars => IndInv'
<1> SUFFICES ASSUME IndInv, [Next]_vars
             PROVE  IndInv'
  OBVIOUS
<1>1. P!IndInv'
  BY PusherSteps, PusherKeeps DEF IndInv
<1>2. R!IndInv'
  BY ProcessorSteps, ProcessorKeeps DEF IndInv
<1>3. EventsOnTheWay' /\ Handling' /\ StopStages' /\ WhoStops'
  BY EventsKept, HandlingKept, StagesKept, WhoStopsKept
<1>4. \A k \in Handlers : posted'[k] = Idle \/ \E n \in 1..MaxPost : Len(posted'[k][1]) = n
  <2>1. EventsOnTheWay' => (\A k \in Handlers : posted[k] = Idle \/ \E n \in 1..MaxPost : Len(posted[k][1]) = n)'
    BY PostedTyped, PTL
  <2> QED
    BY <1>3, <2>1
<1>5. server' \in {"up", "closing", "closed", "abandoned"}
  BY <1>3 DEF StopStages
<1>6. TypeOK'
  BY <1>1, <1>2, <1>4, <1>5, WorkerTyped, PlatformTyped, AstrayTyped
  DEF TypeOK, P!IndInv, R!IndInv
<1> QED
  BY <1>1, <1>2, <1>3, <1>6 DEF IndInv, Handling


-----------------------------------------------------------------------------
(***************************************************************************)
(* The theorems.                                                           *)
(***************************************************************************)

\* The inductive invariant holds in every reachable state of the extension.
THEOREM Inductive == Spec => []IndInv
  BY InitInd, NextInd, PTL DEF Spec

\* In every reachable state of the whole extension, each variable of each component
\* has its type: above all, the channels carry what their receivers expect.
THEOREM TypeCorrect == Spec => []TypeOK
<1>1. IndInv => TypeOK
  BY DEF IndInv
<1> QED
  BY <1>1, Inductive, PTL

\* However a shutdown event and a signal interleave, one Stop runs (Worker.Stop and
\* its compare-and-swap), and it closes inC only after the server was shut down.
THEOREM OneStopHolds == Spec => []OneStop
<1>1. IndInv => OneStop
  BY DEF IndInv, StopStages, WhoStops, OneStop
<1> QED
  BY <1>1, Inductive, PTL

\* The process ends only when its Stop has finished, or because the one of
\* handleInvocations and waitSignals that did not win the flag ends it.
THEOREM EndsByStopHolds == Spec => []EndsByStop
<1>1. IndInv => EndsByStop
  BY DEF IndInv, WhoStops
<1> QED
  BY <1>1, Inductive, PTL

\* The pusher answers Stop, and its goroutine returns, only after the processor's has
\* returned, and then with an empty buffer.
THEOREM StopsProcessorFirst == Spec => []ProcessorStopsFirst
<1>1. IndInv => ProcessorStopsFirst
  <2>1. IndInv /\ pc \in {"stopped", "exited"} => cause = "stop" /\ buf = <<>>
    BY DEF IndInv, P!IndInv, P!StopKeepsEmpty
  <2> QED
    BY <2>1 DEF IndInv, StopStages, ProcessorStopsFirst
<1> QED
  BY <1>1, Inductive, PTL

\* The pusher hangs in its send on doneC only for an invocation whose deadline came
\* before it was done.
THEOREM OrphansTimedOut == Spec => []OrphanTimedOut
<1>1. IndInv => OrphanTimedOut
  <2>1. IndInv /\ pc = "signal" => doneC # 0
    BY DEF IndInv, P!IndInv, P!DoneFresh
  <2> QED
    BY <2>1 DEF IndInv, DoneAwaited, OrphanTimedOut
<1> QED
  BY <1>1, Inductive, PTL

\* The extension implements the specification of the pusher: the worker, the processor
\* and the platform use its channels as module Pusher supposes.
THEOREM UsesPusherHolds == Spec => UsesPusher
<1>1. Init => P!Init
  BY DEF Init
<1>2. IndInv /\ [Next]_vars => [P!Next]_(P!pusherVars)
  BY PusherSteps DEF pvars, P!pusherVars
<1> QED
  BY <1>1, <1>2, Inductive, PTL DEF Spec, UsesPusher, P!Spec

\* And that of the processor, although its events now come from the platform.
THEOREM UsesProcessorHolds == Spec => UsesProcessor
<1>1. Init => R!Init
  BY DEF Init
<1>2. IndInv /\ [Next]_vars => [R!Next]_(R!processorVars)
  BY ProcessorSteps DEF rvars, R!processorVars
<1> QED
  BY <1>1, <1>2, Inductive, PTL DEF Spec, UsesProcessor, R!Spec


\* In the whole extension, whatever fails, every record that the processor handed to the
\* pusher is held by it, or was acknowledged, or given up where the code gives up, and
\* only one of these.
THEOREM EveryRecordAccounted == Spec => []P!Partition
<1>1. P!Spec => PP!Spec
  <2>1. [P!Next]_(P!pusherVars) => [PP!Next]_(PP!pusherVars)
    BY SamePusherNext DEF P!pusherVars, PP!pusherVars
  <2> QED
    BY <2>1, SamePusherInit, PTL DEF P!Spec, PP!Spec
<1>2. PP!Spec => []PP!Partition
  BY PP!PartitionInPusher, ComponentAssumptions
<1>3. PP!Partition => P!Partition
  BY DEF P!Partition, PP!Partition, P!Pipe!Partition, PP!Pipe!Partition, P!Held, PP!Held,
     P!InFlush, PP!InFlush, P!Range, PP!Range
<1> QED
  BY <1>1, <1>2, <1>3, UsesPusherHolds, PTL DEF UsesPusher


=============================================================================
