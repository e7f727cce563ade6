----------------------------- MODULE FlightProofs -----------------------------
(***************************************************************************)
(* Proofs about Extension as long as no invocation has timed out: one      *)
(* flush is in the air at a time, and the invocation that it is for waits  *)
(* for it.  They are for any number of invocations, handlers, flushes and  *)
(* events, and in both modes, whatever is allowed to go wrong: what must   *)
(* not have happened yet is a premise of the invariants.                   *)
(***************************************************************************)
EXTENDS ExtensionProofs

-----------------------------------------------------------------------------
(***************************************************************************)
(* What follows from IndInv.                                               *)
(***************************************************************************)

\* The invariants of the components, as far as they are needed below.
LEMMA Typed ==
  ASSUME IndInv
  PROVE  /\ flush \in [Flushes -> P!Flush]
         /\ buf \in Seq(P!Record) /\ payload \in Seq(P!Record)
         /\ pc = "select" => cause = "none"
         /\ pc \in {"stopped", "exited"} => cause = "stop"
         /\ cause = "stop" => buf = <<>>
         /\ pc # "push" => payload = <<>>
         /\ doneC \in Invocations \cup {0}
         /\ 0 \notin Invocations
         /\ requestID # 0 => requestID \in assigned /\ requestID \notin announced
         /\ rpc = "announce" => requestID # 0
         /\ accepted \in Nat
  BY DEF IndInv, P!IndInv, P!TypeOK, P!StopKeepsEmpty, P!OneHolder, P!IdleIsEmpty, R!IndInv,
         R!Received, R!AnnounceOnce, R!FlagIsCurrent, Invocations

\* Without a timeout, the pusher holds no doneC but that of the invocation that awaits
\* it, and no invocation gives up.
LEMMA NobodyGivesUp ==
  ASSUME IndInv, timedOut = {}
  PROVE  /\ cause # "stop" /\ doneC # 0 => doneC = inv /\ h \in {"processorInvoke", "await"}
         /\ h \in InInvoke => inv \notin ctxDone
         /\ h \notin {"forceSend", "forceWait"}
<1>1. cause # "stop" => pc \notin {"stopped", "exited"}
  BY Typed
<1> QED
  BY <1>1 DEF IndInv, DoneAwaited, TimedOutOnly, InInvoke

\* The current request is one that Invoke has handed over completely.
LEMMA CurrentIsInvoked ==
  ASSUME IndInv, requestID = inv
  PROVE  h \notin {"pusherInvoke", "processorInvoke"}
<1> SUFFICES ASSUME h \in {"pusherInvoke", "processorInvoke"}
             PROVE  FALSE
  OBVIOUS
<1>1. inv # 0 /\ inv \notin assigned
  BY DEF IndInv, Known, InInvoke
<1> QED
  BY <1>1, Typed

\* Where a flush starts, and what it leaves.
LEMMA FlushStarts ==
  ASSUME IndInv, P!StartFlush
  PROVE  \E f \in Flushes :
           /\ flush[f].at = "idle"
           /\ flush' = [flush EXCEPT ![f] = [at |-> "new", under |-> 0, payload |-> buf]]
           /\ InAir' = InAir \cup {f}
           /\ buf' = <<>>
<1>1. PICK f \in Flushes :
        /\ flush[f].at = "idle"
        /\ flush' = [flush EXCEPT ![f] = [at |-> "new", under |-> 0, payload |-> buf]]
  BY DEF P!StartFlush
<1>2. InAir' = InAir \cup {f}
  BY <1>1, Typed DEF InAir
<1> QED
  BY <1>1, <1>2 DEF P!StartFlush

-----------------------------------------------------------------------------
(***************************************************************************)
(* One flight.                                                             *)
(***************************************************************************)

OneAtATime == OneFlight /\ EndAwaited

\* Steps that leave alone what it is about.
LEMMA FlightElsewhere ==
  ASSUME IndInv, OneAtATime,
         UNCHANGED <<flush, doneC, requestID, announced>>,
         cause = "stop" => cause' = "stop",
         pc' = "signal" /\ cause' # "stop" => pc = "signal",
         h' = "processorInvoke" => h = "processorInvoke",
         inv' = inv
  PROVE  OneAtATime'
  BY DEF OneAtATime, OneFlight, EndAwaited, InAir

\* The steps of which that is true.
LEMMA FlightOthers ==
  ASSUME IndInv, OneAtATime, timedOut = {},
         \/ FunctionRuns \/ ProcessorRuns \/ RecordsTaken \/ InvokeTimesOut \/ ForceRequested
         \/ InvokeReturns \/ ShutdownEvent \/ CallStop \/ StopProducer \/ StopProcessor
         \/ Exit \/ Signal \/ NextEventFails \/ UNCHANGED vars
         \/ \E k \in Handlers : Telemetry(k) \/ EventsTaken(k) \/ EventsPanic(k)
  PROVE  OneAtATime'
<1>1. UNCHANGED <<flush, doneC, cause, pc>>
  BY DEF FunctionRuns, ProcessorRuns, RecordsTaken, InvokeTimesOut, ForceRequested,
     InvokeReturns, ShutdownEvent, CallStop, StopProducer, StopProcessor, Exit, Signal,
     NextEventFails, Telemetry, EventsTaken, EventsPanic, P!RecvLogs, P!SendForce, P!Cancel,
     pvars, vars
<1>2. UNCHANGED <<requestID, announced>>
  BY DEF FunctionRuns, ProcessorRuns, RecordsTaken, InvokeTimesOut, ForceRequested,
     InvokeReturns, ShutdownEvent, CallStop, StopProducer, StopProcessor, Exit, Signal,
     NextEventFails, Telemetry, EventsTaken, EventsPanic, R!ProcessEvent, R!EndOfBatch,
     R!SendOut, R!RecvEvents, R!RecvStopR, R!SendStoppedR, rvars, vars
<1>3. inv' = inv /\ (h' = h \/ h' # "processorInvoke")
  BY DEF FunctionRuns, ProcessorRuns, RecordsTaken, InvokeTimesOut, ForceRequested,
     InvokeReturns, ShutdownEvent, CallStop, StopProducer, StopProcessor, Exit, Signal,
     NextEventFails, Telemetry, EventsTaken, EventsPanic, SeeCtxDone, ForceReplied,
     ForceTimesOut, ForceSent, Return, GetShutdown, HandlerCallsStop, SignalCallsStop,
     KillSleepEnds, StopSlept, ProducerShutDown, ProcessorStopSent, ProcessorStopped, StopGoes,
     MainReturns, GetSignal, NextFails, HGoes, workerVars, vars
<1> QED
  BY <1>1, <1>2, <1>3, FlightElsewhere

\* The steps of Worker.Invoke.
LEMMA FlightInvoke ==
  ASSUME IndInv, OneAtATime, timedOut = {},
         InvokeStarts \/ PusherInvoke \/ ProcessorInvoke \/ PusherDone
  PROVE  OneAtATime'
<1> USE Typed, NobodyGivesUp
<1>1. CASE InvokeStarts
  <2>1. h = "next" /\ h' = "pusherInvoke"
    BY <1>1 DEF InvokeStarts, GetInvoke
  <2>2. UNCHANGED <<flush, doneC, cause, pc, requestID, announced>>
    BY <1>1 DEF InvokeStarts, pvars, rvars
  <2>3. ~FlushAtNextInvoke /\ cause # "stop" => requestID = 0
    BY <2>1 DEF OneAtATime, EndAwaited
  <2> QED
    BY <2>1, <2>2, <2>3 DEF OneAtATime, OneFlight, EndAwaited, InAir
<1>2. CASE PusherInvoke
  <2>1. /\ h = "pusherInvoke" /\ h' = "processorInvoke" /\ inv' = inv
        /\ pc = "select" /\ doneC' = inv
        /\ UNCHANGED <<requestID, announced>>
    BY <1>2 DEF PusherInvoke, PusherInvoked, HGoes, P!RecvInvoke, rvars
  <2>2. cause = "none" /\ doneC = 0 /\ InAir = {} /\ inv # 0
    BY <2>1 DEF OneAtATime, OneFlight, IndInv, Known, InInvoke
  <2>3. ~FlushAtNextInvoke => requestID = 0
    BY <2>1, <2>2, CurrentIsInvoked DEF OneAtATime, EndAwaited
  <2>4. CASE ~FlushAtNextInvoke
    <3>1. UNCHANGED <<flush, pc, cause>>
      BY <1>2, <2>4 DEF PusherInvoke, P!RecvInvoke
    <3> QED
      BY <2>1, <2>2, <2>3, <3>1 DEF OneAtATime, OneFlight, EndAwaited, InAir
  <2>5. CASE FlushAtNextInvoke /\ buf = <<>>
    <3>1. flush' = flush
      BY <1>2, <2>5 DEF PusherInvoke, P!RecvInvoke
    <3> QED
      BY <2>2, <2>5, <3>1 DEF OneAtATime, OneFlight, EndAwaited, InAir
  <2>6. CASE FlushAtNextInvoke /\ buf # <<>>
    <3>1. P!StartFlush /\ pc' = "select"
      BY <1>2, <2>1, <2>6 DEF PusherInvoke, P!RecvInvoke
    <3>2. PICK f \in Flushes : InAir' = {f}
      BY <2>2, <3>1, FlushStarts
    <3> QED
      BY <2>1, <2>2, <2>6, <3>1, <3>2 DEF OneAtATime, OneFlight, EndAwaited
  <2> QED
    BY <2>4, <2>5, <2>6
<1>3. CASE ProcessorInvoke
  <2>1. /\ h = "processorInvoke" /\ h' = "await" /\ inv' = inv
        /\ requestID' = inv /\ announced' = announced
        /\ UNCHANGED <<flush, doneC, cause, pc>>
    BY <1>3 DEF ProcessorInvoke, ProcessorInvoked, HGoes, R!RecvRequest, pvars
  <2> QED
    BY <2>1 DEF OneAtATime, OneFlight, EndAwaited, InAir
<1>4. CASE PusherDone
  <2>1. /\ h = "await" /\ h' = "return" /\ inv' = inv
        /\ UNCHANGED <<flush, requestID, announced>>
        /\ pc = "signal"
    BY <1>4 DEF PusherDone, SeeDoneC, HGoes, P!SignalDone, rvars
  <2>2. CASE cause = "stop"
    <3>1. cause' = "stop"
      BY <1>4, <2>2 DEF PusherDone, P!SignalDone
    <3> QED
      BY <3>1 DEF OneAtATime, OneFlight, EndAwaited
  <2>3. CASE cause # "stop"
    <3>1. pc' = "select" /\ doneC' = 0
      BY <1>4, <2>3 DEF PusherDone, P!SignalDone, P!BackToSelect
    <3>2. InAir = {} /\ (~FlushAtNextInvoke => requestID = 0)
      BY <2>1, <2>3 DEF OneAtATime, OneFlight, EndAwaited
    <3> QED
      BY <2>1, <3>1, <3>2 DEF OneAtATime, OneFlight, EndAwaited, InAir
  <2> QED
    BY <2>2, <2>3
<1> QED
  BY <1>1, <1>2, <1>3, <1>4

\* The announcement of the end.
LEMMA FlightAnnounced ==
  ASSUME IndInv, OneAtATime, timedOut = {}, RuntimeDone
  PROVE  OneAtATime'
<1> USE Typed, NobodyGivesUp
<1>1. /\ pc = "select" /\ cause = "none" /\ doneC' = doneC /\ rpc = "announce"
      /\ UNCHANGED <<h, inv>> /\ requestID' = 0 /\ announced' = announced \cup {requestID}
  BY DEF RuntimeDone, P!RecvRuntimeDone, R!SendRuntimeDone, workerVars
<1>2. CASE FlushAtNextInvoke
  <2>1. UNCHANGED <<flush, pc, cause>>
    BY <1>2 DEF RuntimeDone, P!RecvRuntimeDone
  <2> QED
    BY <1>1, <1>2, <2>1 DEF OneAtATime, OneFlight, EndAwaited, InAir
<1>3. CASE ~FlushAtNextInvoke
  <2>1. requestID = inv /\ doneC # 0 /\ InAir = {}
    BY <1>1, <1>3 DEF OneAtATime, EndAwaited
  <2>2. doneC \in announced' /\ h' # "processorInvoke"
    BY <1>1, <2>1, CurrentIsInvoked
  <2>3. pc' \in {"select", "push"} /\ (InAir' = {} \/ \E f \in Flushes : InAir' = {f})
    <3>1. CASE P!StartFlush
      BY <1>1, <2>1, <3>1, FlushStarts DEF RuntimeDone, P!RecvRuntimeDone, P!PushSync
    <3>2. CASE flush' = flush
      BY <1>1, <2>1, <3>2 DEF RuntimeDone, P!RecvRuntimeDone, P!PushSync, InAir
    <3> QED
      BY <1>1, <3>1, <3>2 DEF RuntimeDone, P!RecvRuntimeDone
  <2> QED
    BY <1>1, <2>1, <2>2, <2>3 DEF OneAtATime, OneFlight, EndAwaited
<1> QED
  BY <1>2, <1>3

\* The pusher at work, and its stop.
LEMMA FlightByPusher ==
  ASSUME IndInv, OneAtATime, timedOut = {}, PusherRuns \/ StopPusher
  PROVE  OneAtATime'
<1> USE Typed
<1>1. CASE StopPusher
  <2>1. cause' = "stop"
    BY <1>1 DEF StopPusher, P!RecvStop, P!SendStopped, P!PushSync, P!FinishStop, P!SendDone
  <2> QED
    BY <2>1 DEF OneAtATime, OneFlight, EndAwaited
<1>2. CASE PusherRuns
  <2>1. UNCHANGED <<h, inv, requestID, announced>>
    BY <1>2 DEF PusherRuns, workerVars, rvars
  <2>2. doneC' = doneC
    BY <1>2, PusherOwn
  <2>3. CASE P!CtxDone \/ P!RecvForce
    BY <2>1, <2>3, FlightElsewhere DEF P!CtxDone, P!RecvForce, P!PushSync
  <2>4. CASE P!PushOk \/ P!PushFail
    <3>1. flush' = flush
      BY <2>4 DEF P!PushOk, P!PushFail, P!AfterPush
    <3>2. /\ cause = "stop" => cause' = "stop"
          /\ pc' = "signal" => cause' = "stop"
      BY <2>4 DEF P!PushOk, P!PushFail, P!AfterPush, P!FinishStop, P!SendDone, P!BackToSelect
    <3> QED
      BY <2>1, <2>2, <3>1, <3>2, FlightElsewhere
  <2>5. ASSUME NEW f \in Flushes, P!RecvFlushResp(f)
        PROVE  OneAtATime'
    <3>1. /\ pc = "select" /\ cause = "none" /\ f \in InAir
          /\ flush' = [flush EXCEPT ![f] = P!NoFlush]
      BY <2>5 DEF P!RecvFlushResp, InAir
    <3>2. doneC # 0 /\ \A g \in InAir : g = f
      BY <3>1 DEF OneAtATime, OneFlight
    <3>3. InAir' = {}
      BY <3>1, <3>2 DEF InAir, P!NoFlush
    <3>4. ~FlushAtNextInvoke => requestID = 0 /\ h # "processorInvoke" /\ doneC \in announced
      BY <3>1 DEF OneAtATime, EndAwaited
    <3> QED
      BY <2>1, <2>2, <3>2, <3>3, <3>4 DEF OneAtATime, OneFlight, EndAwaited
  <2>6. ASSUME NEW f \in Flushes, P!FlushStart(f) \/ P!FlushOk(f) \/ P!FlushFail(f)
        PROVE  OneAtATime'
    <3>1. UNCHANGED <<pc, cause>>
      BY <2>6 DEF P!FlushStart, P!FlushOk, P!FlushFail, P!FlushTried
    <3>2. flush[f].at # "idle" /\ flush'[f].at # "idle"
      BY <2>6 DEF P!FlushStart, P!FlushOk, P!FlushFail, P!FlushTried, P!Flush, P!Answering
    <3>3. \A g \in Flushes \ {f} : flush'[g] = flush[g]
      BY <2>6 DEF P!FlushStart, P!FlushOk, P!FlushFail, P!FlushTried
    <3>4. InAir' = InAir
      BY <3>2, <3>3 DEF InAir
    <3> QED
      BY <2>1, <2>2, <3>1, <3>4 DEF OneAtATime, OneFlight, EndAwaited
  <2> QED
    BY <1>2, <2>3, <2>4, <2>5, <2>6 DEF PusherRuns
<1> QED
  BY <1>1, <1>2

\* A timeout is not undone.
LEMMA TimedOutGrows ==
  ASSUME [Next]_vars
  PROVE  timedOut' = timedOut \/ (Timeout /\ timedOut' = timedOut \cup {inv})
  BY DEF Next, Required, Optional, Ended, InvokeStarts, FunctionRuns, Telemetry, EventsTaken,
     EventsPanic, ProcessorRuns, RecordsTaken, RuntimeDone, PusherInvoke, ProcessorInvoke,
     Timeout, PusherDone, InvokeTimesOut, ForceRequested, InvokeReturns, PusherRuns,
     ShutdownEvent, CallStop, StopProducer, StopProcessor, StopPusher, Exit, Signal,
     NextEventFails, hist, vars

\* A new invocation comes only after the last one has returned.
LEMMA InvGrows ==
  ASSUME [Next]_vars
  PROVE  inv' = inv \/ (InvokeStarts /\ inv' = inv + 1)
<1>1. ASSUME UNCHANGED workerVars
      PROVE  inv' = inv
  BY <1>1 DEF workerVars
<1> QED
  BY <1>1 DEF Next, Required, Optional, Ended, InvokeStarts, FunctionRuns, Telemetry,
     EventsTaken, EventsPanic, ProcessorRuns, RecordsTaken, RuntimeDone, PusherInvoke,
     ProcessorInvoke, Timeout, PusherDone, InvokeTimesOut, ForceRequested, InvokeReturns,
     PusherRuns, ShutdownEvent, CallStop, StopProducer, StopProcessor, StopPusher, Exit,
     Signal, NextEventFails, GetInvoke, PusherInvoked, ProcessorInvoked, SeeDoneC, SeeCtxDone,
     ForceReplied, ForceTimesOut, ForceSent, Return, GetShutdown, HandlerCallsStop,
     SignalCallsStop, KillSleepEnds, StopSlept, ProducerShutDown, ProcessorStopSent,
     ProcessorStopped, PusherStopSent, PusherStopped, StopGoes, MainReturns, GetSignal,
     NextFails, HGoes, vars

\* Every step but a timeout keeps it to one flush at a time.
LEMMA FlightKept ==
  ASSUME IndInv, OneAtATime, timedOut = {}, timedOut' = {}, [Next]_vars
  PROVE  OneAtATime'
<1>1. ~Timeout
  BY DEF Timeout
<1> QED
  BY <1>1, FlightOthers, FlightInvoke, FlightAnnounced, FlightByPusher
  DEF Next, Required, Optional, Ended

-----------------------------------------------------------------------------
(***************************************************************************)
(* The context of the flight.                                              *)
(***************************************************************************)

Contexts == OwnContext /\ FlushContext

\* Steps that give nobody another context.
LEMMA ContextElsewhere ==
  ASSUME Contexts, UNCHANGED <<ctx, doneC>>, timedOut = {},
         cause = "stop" => cause' = "stop",
         cause' = "ctxDone" /\ doneC # 0 => cause = "ctxDone",
         \A f \in Flushes : flush'[f].at = "push" =>
           flush[f].at = "push" /\ flush'[f].under = flush[f].under
  PROVE  Contexts'
  BY DEF Contexts, OwnContext, FlushContext

\* The context that run has is not done while an invocation waits.
LEMMA ContextAlive ==
  ASSUME IndInv, Contexts, timedOut = {}, cause # "stop", doneC # 0
  PROVE  ctx = doneC /\ ~P!Done(ctx)
<1>1. doneC = inv /\ h \in InInvoke
  BY NobodyGivesUp DEF InInvoke
<1> QED
  BY <1>1, NobodyGivesUp DEF Contexts, OwnContext, P!Done

\* The invocation and its end.
LEMMA ContextOfInvocation ==
  ASSUME IndInv, OneAtATime, Contexts, timedOut = {}, PusherInvoke \/ PusherDone \/ StopPusher
  PROVE  Contexts'
<1>1. CASE PusherInvoke
  <2>1. /\ h = "pusherInvoke" /\ pc = "select" /\ ctx' = inv /\ doneC' = inv
        /\ cause' \in {cause, "invoke"}
    BY <1>1 DEF PusherInvoke, PusherInvoked, HGoes, P!RecvInvoke, P!SendDone
  <2>2. cause = "none" /\ InAir = {}
    BY <2>1, Typed, NobodyGivesUp DEF OneAtATime, OneFlight
  <2>3. flush' = flush \/ \E f \in Flushes :
          flush' = [flush EXCEPT ![f] = [at |-> "new", under |-> 0, payload |-> buf]]
    BY <1>1 DEF PusherInvoke, P!RecvInvoke, P!StartFlush
  <2>4. \A f \in Flushes : flush'[f].at # "push"
    BY <2>2, <2>3, Typed DEF InAir
  <2> QED
    BY <2>1, <2>2, <2>4 DEF Contexts, OwnContext, FlushContext
<1>2. CASE PusherDone
  <2>1. pc = "signal" /\ flush' = flush
    BY <1>2 DEF PusherDone, P!SignalDone
  <2>2. (cause = "stop" /\ cause' = "stop") \/ (cause # "stop" /\ doneC' = 0)
    BY <1>2 DEF PusherDone, P!SignalDone, P!BackToSelect
  <2>3. cause # "stop" => \A f \in Flushes : flush'[f].at # "push"
    BY <2>1 DEF OneAtATime, OneFlight, InAir
  <2> QED
    BY <2>2, <2>3 DEF Contexts, OwnContext, FlushContext
<1>3. CASE StopPusher
  <2>1. cause' = "stop"
    BY <1>3, Typed DEF StopPusher, P!RecvStop, P!SendStopped, P!PushSync, P!FinishStop,
       P!SendDone
  <2> QED
    BY <2>1 DEF Contexts, OwnContext, FlushContext
<1> QED
  BY <1>1, <1>2, <1>3

\* run at work.
LEMMA ContextInRun ==
  ASSUME IndInv, Contexts, timedOut = {},
         \/ P!CtxDone \/ P!RecvForce \/ P!PushOk \/ P!PushFail \/ P!RecvRuntimeDone
         \/ \E n \in Nat : P!RecvLogs(n)
  PROVE  Contexts'
<1> USE Typed
<1>1. CASE P!CtxDone
  <2>1. pc = "select" /\ P!Done(ctx) /\ UNCHANGED <<doneC, flush>>
    BY <1>1 DEF P!CtxDone
  <2>2. cause = "none" /\ doneC = 0
    BY <2>1, ContextAlive
  <2> QED
    BY <2>1, <2>2 DEF Contexts, OwnContext, FlushContext
<1>2. CASE P!PushOk \/ P!PushFail
  <2>1. UNCHANGED <<doneC, flush>> /\ cause' \in {"stop", "none"}
    BY <1>2 DEF P!PushOk, P!PushFail, P!AfterPush, P!FinishStop, P!SendDone, P!BackToSelect
  <2>2. CASE cause = "stop"
    <3>1. cause' = "stop"
      BY <1>2, <2>2 DEF P!PushOk, P!PushFail, P!AfterPush, P!FinishStop, P!SendDone
    <3> QED
      BY <3>1 DEF Contexts, OwnContext, FlushContext
  <2>3. CASE cause # "stop"
    <3>1. doneC # 0 => ctx' = ctx
      BY <1>2, <2>3 DEF P!PushOk, P!PushFail, P!AfterPush, Contexts, OwnContext
    <3> QED
      BY <2>1, <2>3, <3>1 DEF Contexts, OwnContext, FlushContext
  <2> QED
    BY <2>2, <2>3
<1>3. CASE P!RecvForce \/ \E n \in Nat : P!RecvLogs(n)
  <2>1. UNCHANGED <<ctx, doneC, flush>> /\ cause' \in {cause, "force"} /\ pc = "select"
    BY <1>3 DEF P!RecvForce, P!RecvLogs, P!PushSync
  <2> QED
    BY <2>1, ContextElsewhere
<1>4. CASE P!RecvRuntimeDone
  <2>1. UNCHANGED <<ctx, doneC>> /\ cause' \in {cause, "runtimeDone"} /\ pc = "select"
    BY <1>4 DEF P!RecvRuntimeDone, P!PushSync
  <2>2. flush' = flush \/ \E f \in Flushes :
          flush' = [flush EXCEPT ![f] = [at |-> "new", under |-> 0, payload |-> buf]]
    BY <1>4 DEF P!RecvRuntimeDone, P!StartFlush
  <2>3. \A f \in Flushes : flush'[f].at = "push" => flush'[f] = flush[f]
    BY <2>2
  <2> QED
    BY <2>1, <2>3, ContextElsewhere
<1> QED
  BY <1>1, <1>2, <1>3, <1>4

\* The flush goroutines, which read the variable that run assigns to.
LEMMA ContextInFlight ==
  ASSUME IndInv, OneAtATime, Contexts, timedOut = {}, NEW f \in Flushes,
         P!RecvFlushResp(f) \/ P!FlushStart(f) \/ P!FlushOk(f) \/ P!FlushFail(f)
  PROVE  Contexts'
<1> USE Typed
<1>1. CASE P!FlushStart(f)
  <2>1. /\ UNCHANGED <<ctx, doneC, cause>> /\ f \in InAir
        /\ flush' = [flush EXCEPT ![f].at = "push",
                                  ![f].under = IF P!Done(ctx) THEN 0 ELSE ctx]
    BY <1>1 DEF P!FlushStart, InAir
  <2>2. CASE cause = "stop"
    BY <2>1, <2>2 DEF Contexts, OwnContext, FlushContext
  <2>3. CASE cause # "stop"
    <3>1. doneC # 0
      BY <2>1, <2>3 DEF OneAtATime, OneFlight
    <3>2. ctx = doneC /\ ~P!Done(ctx)
      BY <2>3, <3>1, ContextAlive
    <3>3. flush'[f].under = doneC
      BY <2>1, <3>2
    <3>4. \A g \in Flushes \ {f} : flush'[g] = flush[g]
      BY <2>1
    <3> QED
      BY <2>1, <3>1, <3>2, <3>3, <3>4 DEF Contexts, OwnContext, FlushContext
  <2> QED
    BY <2>2, <2>3
<1>2. CASE P!FlushOk(f) \/ P!FlushFail(f)
  <2>1. UNCHANGED <<ctx, doneC, cause>> /\ flush[f].at = "push"
    BY <1>2 DEF P!FlushOk, P!FlushFail, P!FlushTried
  <2>2. flush'[f].at = "resp" /\ \A g \in Flushes \ {f} : flush'[g] = flush[g]
    BY <1>2 DEF P!FlushOk, P!FlushFail, P!Answering
  <2> QED
    BY <2>1, <2>2, ContextElsewhere
<1>3. CASE P!RecvFlushResp(f)
  <2>1. UNCHANGED <<ctx, doneC>> /\ cause' \in {cause, "flushResp"} /\ pc = "select"
    BY <1>3 DEF P!RecvFlushResp, P!SendDone
  <2>2. flush'[f].at = "idle" /\ \A g \in Flushes \ {f} : flush'[g] = flush[g]
    BY <1>3 DEF P!RecvFlushResp, P!NoFlush
  <2> QED
    BY <2>1, <2>2, ContextElsewhere
<1> QED
  BY <1>1, <1>2, <1>3

\* Every step but a timeout keeps the contexts apart.
LEMMA ContextKept ==
  ASSUME IndInv, OneAtATime, Contexts, timedOut = {}, [Next]_vars
  PROVE  Contexts'
<1>1. CASE RecordsTaken
  <2>1. P!RecvLogs(Len(out)) /\ Len(out) \in Nat
    BY <1>1, Lengths DEF RecordsTaken
  <2> QED
    BY <2>1, ContextInRun
<1>2. CASE PusherRuns \/ RuntimeDone
  BY <1>2, ContextInRun, ContextInFlight DEF PusherRuns, RuntimeDone
<1>3. CASE ~(\/ RecordsTaken \/ PusherRuns \/ RuntimeDone \/ PusherInvoke \/ PusherDone
            \/ StopPusher)
  <2>1. UNCHANGED <<ctx, doneC, cause, flush>>
    BY <1>3 DEF Next, Required, Optional, Ended, InvokeStarts, FunctionRuns, Telemetry,
       EventsTaken, EventsPanic, ProcessorRuns, ProcessorInvoke, Timeout, InvokeTimesOut,
       ForceRequested, InvokeReturns, ShutdownEvent, CallStop, StopProducer, StopProcessor,
       Exit, Signal, NextEventFails, P!Cancel, P!SendForce, pvars, vars
  <2> QED
    BY <2>1, ContextElsewhere
<1> QED
  BY <1>1, <1>2, <1>3, ContextOfInvocation

-----------------------------------------------------------------------------
(***************************************************************************)
(* Sequences of records in the order of their numbers.                     *)
(***************************************************************************)

\* The records of two payloads, one put before the other.
LEMMA Joined ==
  ASSUME NEW s \in Seq(P!Record), NEW t \in Seq(P!Record)
  PROVE  P!Range(s \o t) = P!Range(s) \cup P!Range(t)
<1>1. s \in Seq(PP!Record) /\ t \in Seq(PP!Record)
  BY DEF P!Record, PP!Record
<1>2. PP!Range(s \o t) = PP!Range(s) \cup PP!Range(t)
  BY <1>1, ComponentAssumptions, PP!Concatenation
<1> QED
  BY <1>2 DEF P!Range, PP!Range

\* What is put behind what is older stays in order.
LEMMA OlderFirst ==
  ASSUME NEW s \in Seq(P!Record), NEW t \in Seq(P!Record), Increasing(s), Increasing(t),
         \A j \in P!Range(s), k \in P!Range(t) : j < k
  PROVE  Increasing(s \o t)
<1> SUFFICES ASSUME NEW a \in DOMAIN (s \o t), NEW b \in DOMAIN (s \o t), a < b
             PROVE  (s \o t)[a] < (s \o t)[b]
  BY DEF Increasing
<1>1. /\ Len(s) \in Nat /\ Len(t) \in Nat
      /\ DOMAIN s = 1..Len(s) /\ DOMAIN t = 1..Len(t)
      /\ a \in 1..(Len(s) + Len(t)) /\ b \in 1..(Len(s) + Len(t))
  OBVIOUS
<1>2. \A i \in 1..(Len(s) + Len(t)) :
        /\ i <= Len(s) => i \in DOMAIN s /\ (s \o t)[i] = s[i]
        /\ ~(i <= Len(s)) => i - Len(s) \in DOMAIN t /\ (s \o t)[i] = t[i - Len(s)]
  BY <1>1
<1>3. CASE b <= Len(s)
  <2>1. a <= Len(s)
    BY <1>1, <1>3
  <2> QED
    BY <1>1, <1>2, <1>3, <2>1 DEF Increasing
<1>4. CASE a <= Len(s) /\ ~(b <= Len(s))
  <2>1. (s \o t)[a] \in P!Range(s) /\ (s \o t)[b] \in P!Range(t)
    BY <1>1, <1>2, <1>4 DEF P!Range
  <2> QED
    BY <2>1
<1>5. CASE ~(a <= Len(s)) /\ ~(b <= Len(s))
  <2>1. a - Len(s) < b - Len(s)
    BY <1>1
  <2> QED
    BY <1>1, <1>2, <1>5, <2>1 DEF Increasing
<1> QED
  BY <1>1, <1>3, <1>4, <1>5

\* The records of a new message are in order, and newer than all before.
LEMMA NewestLast ==
  ASSUME NEW a \in Nat, NEW n \in Nat
  PROVE  LET s == [k \in 1..n |-> a + k]
         IN /\ s \in Seq(P!Record)
            /\ Increasing(s)
            /\ P!Range(s) = (a + 1)..(a + n)
<1> DEFINE s == [k \in 1..n |-> a + k]
<1>1. s \in Seq(P!Record)
  BY PP!NewRecords DEF P!Record, PP!Record
<1>2. Increasing(s)
  BY DEF Increasing
<1>3. P!Range(s) = (a + 1)..(a + n)
  <2>1. \A x \in (a + 1)..(a + n) : x - a \in 1..n /\ s[x - a] = x
    OBVIOUS
  <2>2. \A k \in 1..n : s[k] \in (a + 1)..(a + n)
    OBVIOUS
  <2> QED
    BY <2>1, <2>2 DEF P!Range
<1> QED
  BY <1>1, <1>2, <1>3

\* So is what is left of a payload that was cut.
LEMMA CutInOrder ==
  ASSUME NEW p \in Seq(P!Record), Increasing(p)
  PROVE  Increasing(P!Trimmed(p)) /\ P!Range(P!Trimmed(p)) \subseteq P!Range(p)
<1> DEFINE m == P!RecordsDropped(RecordBytes, BufferSize) + 1
<1> DEFINE q == SubSeq(p, m, Len(p))
<1>1. m \in Nat /\ m >= 2
  BY ExtensionAssumption DEF P!RecordsDropped, P!Start
<1>2. Len(p) \in Nat /\ DOMAIN p = 1..Len(p)
  OBVIOUS
<1> HIDE DEF m
<1>3. \A i \in m..Len(p) : p[i] \in P!Record
  BY <1>1, <1>2
<1>4. /\ q \in Seq(P!Record)
      /\ Len(q) = IF m <= Len(p) THEN Len(p) - m + 1 ELSE 0
      /\ \A i \in 1..(Len(p) - m + 1) : q[i] = p[m + i - 1]
  BY <1>1, <1>2, <1>3, SubSeqProperties
<1> HIDE DEF q
<1>5. DOMAIN q = 1..Len(q)
  BY <1>4
<1>6. \A i \in DOMAIN q : m + i - 1 \in DOMAIN p /\ q[i] = p[m + i - 1]
  BY <1>1, <1>2, <1>4, <1>5
<1>7. P!Range(q) \subseteq P!Range(p)
  BY <1>6 DEF P!Range
<1>8. Increasing(q)
  <2> SUFFICES ASSUME NEW a \in DOMAIN q, NEW b \in DOMAIN q, a < b
               PROVE  q[a] < q[b]
    BY DEF Increasing
  <2>1. m + a - 1 < m + b - 1
    BY <1>1, <1>4, <1>5
  <2> QED
    BY <1>6, <2>1 DEF Increasing
<1>9. P!Trimmed(p) = p \/ P!Trimmed(p) = q
  BY DEF P!Trimmed, q, m
<1> QED
  BY <1>7, <1>8, <1>9

-----------------------------------------------------------------------------
(***************************************************************************)
(* The order of the buffer.                                                *)
(***************************************************************************)

Ordered == FlightIsOlder /\ InOrder

\* A buffer that is emptied, and flushes whose payloads are in order, are in order.
LEMMA EmptyInOrder ==
  ASSUME buf' = <<>>, \A f \in InAir' : Increasing(flush[f].payload)'
  PROVE  Ordered'
<1>1. DOMAIN buf' = {}
  BY EmptySeq
<1>2. P!Range(buf)' = {}
  BY <1>1 DEF P!Range
<1> QED
  BY <1>1, <1>2 DEF Ordered, FlightIsOlder, InOrder, Increasing

\* Steps that leave the buffer and the flushes alone.
LEMMA OrderElsewhere ==
  ASSUME Ordered, UNCHANGED <<buf, flush>>, cause' # "stop" => cause # "stop"
  PROVE  Ordered'
  BY DEF Ordered, FlightIsOlder, InOrder, Increasing, InAir, P!Range

\* Nothing in the hands of the pusher has a number that was not given out.
LEMMA GivenOut ==
  ASSUME IndInv
  PROVE  /\ P!Range(buf) \subseteq 1..accepted
         /\ P!Range(payload) \subseteq 1..accepted
         /\ \A f \in Flushes : P!Range(flush[f].payload) \subseteq 1..accepted
         /\ \A f \in Flushes : flush[f].payload \in Seq(P!Record)
         /\ P!Given \subseteq 1..accepted
<1>1. \A f \in Flushes : flush[f].payload \in Seq(P!Record)
  BY Typed DEF P!Flush
<1> QED
  BY <1>1 DEF IndInv, P!IndInv, P!Numbered, P!Held, P!InFlush

\* The buffer goes to a flush goroutine, or to a synchronous push.
LEMMA OrderWhenEmptied ==
  ASSUME IndInv, Ordered, cause # "stop",
         P!StartFlush \/ (buf' = <<>> /\ flush' = flush)
  PROVE  Ordered'
<1>1. \A f \in InAir : Increasing(flush[f].payload)
  BY DEF Ordered, FlightIsOlder
<1>2. CASE flush' = flush /\ buf' = <<>>
  BY <1>1, <1>2, EmptyInOrder DEF InAir, Increasing
<1>3. CASE P!StartFlush
  <2>1. PICK f \in Flushes :
          /\ flush' = [flush EXCEPT ![f] = [at |-> "new", under |-> 0, payload |-> buf]]
          /\ InAir' = InAir \cup {f}
          /\ buf' = <<>>
    BY <1>3, FlushStarts
  <2>2. flush'[f].payload = buf /\ \A g \in InAir \ {f} : flush'[g].payload = flush[g].payload
    BY <2>1, Typed DEF InAir
  <2>3. \A g \in InAir' : Increasing(flush'[g].payload)
    BY <1>1, <2>1, <2>2 DEF Ordered, InOrder, Increasing
  <2> QED
    BY <2>1, <2>3, EmptyInOrder DEF Increasing
<1> QED
  BY <1>2, <1>3

\* New records go behind.
LEMMA OrderOfNew ==
  ASSUME IndInv, Ordered, NEW n \in Nat, P!RecvLogs(n)
  PROVE  Ordered'
<1> DEFINE new == [k \in 1..n |-> accepted + k]
<1>1. accepted \in Nat /\ buf \in Seq(P!Record) /\ cause # "stop"
  BY Typed DEF P!RecvLogs
<1>2. new \in Seq(P!Record) /\ Increasing(new) /\ P!Range(new) = (accepted + 1)..(accepted + n)
  BY <1>1, NewestLast
<1>3. buf' = buf \o new /\ UNCHANGED <<flush, cause>>
  BY DEF P!RecvLogs
<1> HIDE DEF new
<1>4. \A i \in 1..accepted, j \in P!Range(new) : i < j
  BY <1>1, <1>2
<1>5. Increasing(buf')
  BY <1>1, <1>2, <1>3, <1>4, GivenOut, OlderFirst DEF Ordered, InOrder
<1>6. P!Range(buf') = P!Range(buf) \cup P!Range(new)
  BY <1>1, <1>2, <1>3, Joined
<1>7. ASSUME NEW f \in InAir
      PROVE  /\ Increasing(flush[f].payload)
             /\ \A i \in P!Range(flush[f].payload), j \in P!Range(buf') : i < j
  <2>1. P!Range(flush[f].payload) \subseteq 1..accepted
    BY GivenOut DEF InAir
  <2> QED
    BY <1>1, <1>4, <1>6, <2>1 DEF Ordered, FlightIsOlder
<1>8. FlightIsOlder'
  <2>1. InAir' = InAir
    BY <1>3 DEF InAir
  <2> QED
    BY <1>3, <1>7, <2>1 DEF FlightIsOlder
<1>9. InOrder'
  BY <1>5 DEF InOrder
<1> QED
  BY <1>8, <1>9 DEF Ordered

\* A payload that comes back goes before, and it is the only one.
LEMMA OrderOfReturned ==
  ASSUME IndInv, OneFlight, Ordered, NEW f \in Flushes, P!RecvFlushResp(f)
  PROVE  Ordered'
<1>1. /\ cause # "stop" /\ f \in InAir
      /\ buf' = flush[f].payload \o buf
      /\ flush' = [flush EXCEPT ![f] = P!NoFlush]
  BY Typed DEF P!RecvFlushResp, P!Requeued, InAir
<1>2. Increasing(buf')
  BY <1>1, Typed, GivenOut, OlderFirst DEF Ordered, FlightIsOlder, InOrder
<1>3. InAir' = {}
  BY <1>1, Typed DEF OneFlight, InAir, P!NoFlush
<1> QED
  BY <1>2, <1>3 DEF Ordered, FlightIsOlder, InOrder, Increasing

\* A flush goroutine at work.
LEMMA OrderInFlight ==
  ASSUME IndInv, Ordered, NEW f \in Flushes, P!FlushStart(f) \/ P!FlushOk(f) \/ P!FlushFail(f)
  PROVE  Ordered'
<1>1. UNCHANGED <<buf, cause>> /\ f \in InAir
  BY DEF P!FlushStart, P!FlushOk, P!FlushFail, P!FlushTried, InAir
<1>2. \A g \in Flushes \ {f} : flush'[g] = flush[g]
  BY Typed DEF P!FlushStart, P!FlushOk, P!FlushFail
<1>3. CASE cause = "stop"
  BY <1>1, <1>3, Typed, EmptySeq DEF Ordered, FlightIsOlder, InOrder, Increasing
<1>4. CASE cause # "stop"
  <2>1. flush[f].payload \in Seq(P!Record) /\ Increasing(flush[f].payload)
    BY <1>1, <1>4, GivenOut DEF Ordered, FlightIsOlder
  <2>2. Increasing(<<>>) /\ P!Range(<<>>) = {}
    BY EmptySeq DEF Increasing, P!Range
  <2>3. flush'[f].payload \in {flush[f].payload, <<>>, P!Trimmed(flush[f].payload)}
    BY Typed DEF P!FlushStart, P!FlushOk, P!FlushFail, P!Flush, P!Answering
  <2>4. /\ Increasing(flush'[f].payload)
        /\ P!Range(flush'[f].payload) \subseteq P!Range(flush[f].payload)
    BY <2>1, <2>2, <2>3, CutInOrder
  <2>5. \A g \in InAir' : g \in InAir
    BY <1>1, <1>2 DEF InAir
  <2>6. \A g \in InAir' :
          /\ Increasing(flush'[g].payload)
          /\ \A j \in P!Range(flush'[g].payload), k \in P!Range(buf) : j < k
    BY <1>1, <1>2, <1>4, <2>4, <2>5 DEF Ordered, FlightIsOlder, InAir
  <2> QED
    BY <1>1, <2>6 DEF Ordered, FlightIsOlder, InOrder, Increasing, P!Range
<1> QED
  BY <1>3, <1>4

\* No step of the pusher puts a record of its buffer before an older one, as long as
\* there is one flush at a time.
LEMMA OrderKept ==
  ASSUME IndInv, OneFlight, Ordered, [P!Next]_pvars
  PROVE  Ordered'
<1> USE Typed
<1>1. ASSUME NEW n \in 0..MaxPost, P!RecvLogs(n)
      PROVE  Ordered'
  BY <1>1, OrderOfNew
<1>2. CASE P!RecvRuntimeDone
  <2>1. cause # "stop" /\ (cause' # "stop" \/ buf # <<>>)
    BY <1>2 DEF P!RecvRuntimeDone
  <2>2. P!StartFlush \/ (buf' = <<>> /\ flush' = flush) \/ UNCHANGED <<buf, flush>>
    BY <1>2 DEF P!RecvRuntimeDone, P!PushSync
  <2> QED
    BY <2>1, <2>2, OrderWhenEmptied, OrderElsewhere
<1>3. ASSUME NEW i \in Invocations, P!RecvInvoke(i)
      PROVE  Ordered'
  <2>1. cause # "stop"
    BY <1>3 DEF P!RecvInvoke
  <2>2. P!StartFlush \/ UNCHANGED <<buf, flush>>
    BY <1>3 DEF P!RecvInvoke
  <2> QED
    BY <2>1, <2>2, OrderWhenEmptied, OrderElsewhere
<1>4. CASE P!CtxDone \/ P!RecvForce \/ P!RecvStop
  <2>1. cause # "stop"
    BY <1>4 DEF P!CtxDone, P!RecvForce, P!RecvStop
  <2>2. (buf' = <<>> /\ flush' = flush) \/ UNCHANGED <<buf, flush>>
    BY <1>4 DEF P!CtxDone, P!RecvForce, P!RecvStop, P!PushSync
  <2> QED
    BY <2>1, <2>2, OrderWhenEmptied, OrderElsewhere
<1>5. CASE P!PushOk \/ P!PushFail \/ P!SignalDone \/ P!SendStopped
  <2>1. UNCHANGED <<buf, flush>>
    BY <1>5 DEF P!PushOk, P!PushFail, P!AfterPush, P!SignalDone, P!SendStopped
  <2>2. cause' # "stop" => cause # "stop"
    BY <1>5 DEF P!PushOk, P!PushFail, P!AfterPush, P!FinishStop, P!SendDone, P!SignalDone,
       P!SendStopped
  <2> QED
    BY <2>1, <2>2, OrderElsewhere
<1>6. ASSUME NEW i \in Invocations, P!Cancel(i) \/ P!SendForce(i)
      PROVE  Ordered'
  BY <1>6, OrderElsewhere DEF P!Cancel, P!SendForce
<1>7. CASE UNCHANGED pvars
  BY <1>7, OrderElsewhere DEF pvars
<1> QED
  BY <1>1, <1>2, <1>3, <1>4, <1>5, <1>6, <1>7, OrderOfReturned, OrderInFlight
  DEF P!Next, P!Internal, P!External

-----------------------------------------------------------------------------
(***************************************************************************)
(* What a push was tried of.                                               *)
(***************************************************************************)

\* The flush goroutines that have a push before them.
ToPush == {f \in Flushes : flush[f].at \in {"new", "push"}}

\* A step after which every payload still has a push before it, or has had one.
LEMMA TryingKept ==
  ASSUME attempted \subseteq attempted',
         P!Range(payload) \subseteq (attempted \cup Trying)',
         \A f \in ToPush : P!Range(flush[f].payload) \subseteq (attempted \cup Trying)'
  PROVE  attempted \cup Trying \subseteq (attempted \cup Trying)'
  BY DEF Trying, ToPush

\* The goroutines of flush other than f keep what they have to push.
LEMMA TryingOthers ==
  ASSUME NEW f \in Flushes, NEW g \in ToPush \ {f}, flush'[g] = flush[g]
  PROVE  P!Range(flush[g].payload) \subseteq Trying'
  BY DEF Trying, ToPush

\* What was pushed is not forgotten, and what was to be pushed is pushed.
LEMMA TriedGrows ==
  ASSUME IndInv, [P!Next]_pvars
  PROVE  attempted \cup Trying \subseteq (attempted \cup Trying)'
<1> USE Typed
<1>e. P!Range(<<>>) = {}
  BY EmptySeq DEF P!Range
<1>1. ASSUME UNCHANGED <<flush, attempted>>, payload' = payload \/ payload = <<>>
      PROVE  attempted \cup Trying \subseteq (attempted \cup Trying)'
  <2>1. P!Range(payload) \subseteq Trying'
    BY <1>e, <1>1 DEF Trying
  <2>2. \A f \in ToPush : P!Range(flush[f].payload) \subseteq Trying'
    BY <1>1 DEF Trying, ToPush
  <2> QED
    BY <1>1, <2>1, <2>2, TryingKept
<1>2. ASSUME P!StartFlush, UNCHANGED <<payload, attempted>>
      PROVE  attempted \cup Trying \subseteq (attempted \cup Trying)'
  <2>1. PICK f \in Flushes :
          /\ flush[f].at = "idle"
          /\ flush' = [flush EXCEPT ![f] = [at |-> "new", under |-> 0, payload |-> buf]]
    BY <1>2, FlushStarts
  <2>2. \A g \in ToPush : g # f /\ flush'[g] = flush[g]
    BY <2>1 DEF ToPush
  <2>3. P!Range(payload) \subseteq Trying'
    BY <1>2 DEF Trying
  <2> QED
    BY <1>2, <2>2, <2>3, TryingKept, TryingOthers
<1>3. CASE P!PushOk \/ P!PushFail
  <2>1. flush' = flush /\ attempted' = attempted \cup P!Range(payload)
    BY <1>3 DEF P!PushOk, P!PushFail, P!AfterPush
  <2>2. \A f \in ToPush : P!Range(flush[f].payload) \subseteq Trying'
    BY <2>1 DEF Trying, ToPush
  <2> QED
    BY <2>1, <2>2, TryingKept
<1>4. ASSUME NEW f \in Flushes, P!RecvFlushResp(f) \/ P!FlushStart(f) \/ P!FlushOk(f) \/ P!FlushFail(f)
      PROVE  attempted \cup Trying \subseteq (attempted \cup Trying)'
  <2>1. payload' = payload /\ \A g \in Flushes \ {f} : flush'[g] = flush[g]
    BY <1>4 DEF P!RecvFlushResp, P!FlushStart, P!FlushOk, P!FlushFail, P!FlushTried
  <2>2. attempted \subseteq attempted'
    BY <1>4 DEF P!RecvFlushResp, P!FlushStart, P!FlushOk, P!FlushFail, P!FlushTried
  <2>3. P!Range(payload) \subseteq Trying'
    BY <2>1 DEF Trying
  <2>4. f \in ToPush => P!Range(flush[f].payload) \subseteq (attempted \cup Trying)'
    <3>1. CASE P!RecvFlushResp(f)
      BY <3>1 DEF P!RecvFlushResp, ToPush
    <3>2. CASE P!FlushStart(f)
      <4>1. flush'[f].at = "push" /\ flush'[f].payload = flush[f].payload
        BY <3>2 DEF P!FlushStart, P!Flush
      <4> QED
        BY <4>1 DEF Trying
    <3>3. CASE P!FlushOk(f) \/ P!FlushFail(f)
      BY <3>3 DEF P!FlushOk, P!FlushFail, P!FlushTried
    <3> QED
      BY <1>4, <3>1, <3>2, <3>3
  <2>5. \A g \in ToPush \ {f} : P!Range(flush[g].payload) \subseteq Trying'
    BY <2>1, TryingOthers DEF ToPush
  <2> QED
    BY <2>2, <2>3, <2>4, <2>5, TryingKept
<1>5. CASE P!RecvRuntimeDone
  BY <1>1, <1>2, <1>5 DEF P!RecvRuntimeDone, P!PushSync
<1>6. ASSUME NEW i \in Invocations, P!RecvInvoke(i)
      PROVE  attempted \cup Trying \subseteq (attempted \cup Trying)'
  <2>1. UNCHANGED <<payload, attempted>> /\ (P!StartFlush \/ flush' = flush)
    BY <1>6 DEF P!RecvInvoke
  <2> QED
    BY <1>1, <1>2, <2>1
<1>7. CASE P!CtxDone \/ P!RecvForce \/ P!RecvStop
  BY <1>1, <1>7 DEF P!CtxDone, P!RecvForce, P!RecvStop, P!PushSync
<1>8. CASE \/ P!SignalDone \/ P!SendStopped \/ UNCHANGED pvars
           \/ \E n \in 0..MaxPost : P!RecvLogs(n)
           \/ \E i \in Invocations : P!Cancel(i) \/ P!SendForce(i)
  BY <1>1, <1>8 DEF P!SignalDone, P!SendStopped, P!RecvLogs, P!Cancel, P!SendForce, pvars
<1> QED
  BY <1>3, <1>4, <1>5, <1>6, <1>7, <1>8 DEF P!Next, P!Internal, P!External

\* The pusher gives nothing up before it has tried to push it.
LEMMA GivenTried ==
  ASSUME IndInv, P!Given \subseteq attempted, [P!Next]_pvars
  PROVE  P!Given' \subseteq attempted'
<1> USE Typed
<1>1. CASE P!PushOk \/ P!PushFail
  BY <1>1 DEF P!PushOk, P!PushFail, P!AfterPush, P!Given
<1>2. ASSUME NEW f \in Flushes, P!FlushOk(f) \/ P!FlushFail(f)
      PROVE  P!Given' \subseteq attempted'
  BY <1>2 DEF P!FlushOk, P!FlushFail, P!FlushTried, P!Given
<1>3. ASSUME UNCHANGED <<attempted, sent, lost, trimmed>>
      PROVE  P!Given' \subseteq attempted'
  BY <1>3 DEF P!Given
<1>4. CASE \/ P!CtxDone \/ P!RecvForce \/ P!RecvStop \/ P!RecvRuntimeDone
           \/ P!SignalDone \/ P!SendStopped \/ UNCHANGED pvars
           \/ \E f \in Flushes : P!RecvFlushResp(f) \/ P!FlushStart(f)
           \/ \E n \in 0..MaxPost : P!RecvLogs(n)
           \/ \E i \in Invocations : P!Cancel(i) \/ P!SendForce(i) \/ P!RecvInvoke(i)
  BY <1>3, <1>4 DEF P!CtxDone, P!RecvForce, P!RecvStop, P!RecvRuntimeDone, P!SignalDone,
     P!SendStopped, P!RecvFlushResp, P!FlushStart, P!RecvLogs, P!Cancel, P!SendForce,
     P!RecvInvoke, pvars
<1> QED
  BY <1>1, <1>2, <1>4 DEF P!Next, P!Internal, P!External

\* Where nothing is pushed or in the air, all that was accepted is in the buffer or given.
LEMMA AllInBuffer ==
  ASSUME IndInv, P!Partition, InAir = {}, pc = "select"
  PROVE  1..accepted = P!Range(buf) \cup P!Given
<1>1. P!Held \cup P!Given = 1..accepted
  BY DEF P!Partition, P!Pipe!Partition, P!Given
<1>2. P!Range(<<>>) = {}
  BY EmptySeq DEF P!Range
<1>3. \A f \in Flushes : flush[f].payload = <<>>
  BY DEF InAir, IndInv, P!IndInv, P!OneHolder, P!IdleIsEmpty
<1>4. P!Held = P!Range(buf)
  BY <1>2, <1>3, Typed DEF P!Held, P!InFlush
<1> QED
  BY <1>1, <1>4

\* A flush of it all.
LEMMA AllTried ==
  ASSUME IndInv, P!Partition, InAir = {}, pc = "select", P!Given \subseteq attempted,
         attempted' = attempted,
         P!StartFlush \/ payload' = buf \/ buf = <<>>
  PROVE  1..accepted \subseteq (attempted \cup Trying)'
<1>1. P!Range(buf) \subseteq Trying'
  <2>1. CASE P!StartFlush
    <3>1. PICK f \in Flushes :
            flush' = [flush EXCEPT ![f] = [at |-> "new", under |-> 0, payload |-> buf]]
      BY <2>1, FlushStarts
    <3>2. flush'[f].at = "new" /\ flush'[f].payload = buf
      BY <3>1, Typed
    <3> QED
      BY <3>2 DEF Trying
  <2>2. CASE payload' = buf
    BY <2>2 DEF Trying
  <2>3. CASE buf = <<>>
    BY <2>3, EmptySeq DEF P!Range
  <2> QED
    BY <2>1, <2>2, <2>3
<1> QED
  BY <1>1, AllInBuffer

\* When the pusher is to flush for an invocation, all that it has goes out.
LEMMA DueIsTried ==
  ASSUME IndInv, OneAtATime, timedOut = {}, P!Given \subseteq attempted, P!Partition,
         RuntimeDone \/ PusherInvoke
  PROVE  \/ due' = due
         \/ \E i \in Invocations :
              /\ due' = [due EXCEPT ![i] = accepted]
              /\ 1..accepted \subseteq (attempted \cup Trying)'
              /\ IF FlushAtNextInvoke THEN i \notin invoked ELSE i \notin announced
<1> USE Typed
<1>1. CASE RuntimeDone /\ ~FlushAtNextInvoke
  <2>1. pc = "select" /\ cause = "none" /\ rpc = "announce" /\ attempted' = attempted
    BY <1>1 DEF RuntimeDone, P!RecvRuntimeDone, R!SendRuntimeDone
  <2>2. out = <<>>
    BY <2>1 DEF IndInv, EventsOnTheWay
  <2>3. due' = [due EXCEPT ![requestID] = accepted]
    <3>1. accepted + Len(out) = accepted
      BY <2>2, EmptySeq
    <3> QED
      BY <1>1, <3>1 DEF RuntimeDone
  <2>4. InAir = {} /\ requestID \in Invocations /\ requestID \notin announced
    <3>1. assigned \subseteq Invocations
      BY DEF IndInv, R!IndInv, R!TypeOK
    <3> QED
      BY <1>1, <2>1, <3>1 DEF OneAtATime, EndAwaited
  <2>5. P!StartFlush \/ payload' = buf \/ buf = <<>>
    BY <1>1 DEF RuntimeDone, P!RecvRuntimeDone, P!PushSync
  <2> QED
    BY <1>1, <2>1, <2>3, <2>4, <2>5, AllTried
<1>2. CASE PusherInvoke /\ FlushAtNextInvoke
  <2>1. /\ h = "pusherInvoke" /\ pc = "select" /\ attempted' = attempted
        /\ due' = [due EXCEPT ![inv] = accepted]
    BY <1>2 DEF PusherInvoke, PusherInvoked, HGoes, P!RecvInvoke
  <2>2. InAir = {}
    BY <2>1, NobodyGivesUp DEF OneAtATime, OneFlight
  <2>3. inv \in Invocations \ invoked
    BY <2>1, Lengths DEF IndInv, Known, InInvoke, Invocations
  <2>4. P!StartFlush \/ buf = <<>>
    BY <1>2 DEF PusherInvoke, P!RecvInvoke
  <2> QED
    BY <1>2, <2>1, <2>2, <2>3, <2>4, AllTried
<1>3. CASE (RuntimeDone /\ FlushAtNextInvoke) \/ (PusherInvoke /\ ~FlushAtNextInvoke)
  BY <1>3 DEF RuntimeDone, PusherInvoke
<1> QED
  BY <1>1, <1>2, <1>3

\* No other step changes what is due.
LEMMA DueElsewhere ==
  ASSUME [Next]_vars, ~RuntimeDone, ~PusherInvoke
  PROVE  due' = due
  BY DEF Next, Required, Optional, Ended, InvokeStarts, FunctionRuns, Telemetry, EventsTaken,
     EventsPanic, ProcessorRuns, RecordsTaken, ProcessorInvoke, Timeout, PusherDone,
     InvokeTimesOut, ForceRequested, InvokeReturns, PusherRuns, ShutdownEvent, CallStop,
     StopProducer, StopProcessor, StopPusher, Exit, Signal, NextEventFails, hist, vars

\* What was due for an invocation that has been released is not changed.
LEMMA DueKept ==
  ASSUME IndInv, due \in [Invocations -> Nat], [Next]_vars
  PROVE  /\ due' \in [Invocations -> Nat]
         /\ \A i \in Invocations :
              (IF FlushAtNextInvoke THEN i \in invoked ELSE i \in announced) => due'[i] = due[i]
<1> USE Typed
<1>1. CASE RuntimeDone
  <2>1. accepted + Len(out) \in Nat
    BY Lengths
  <2>2. requestID \notin announced
    BY <1>1 DEF RuntimeDone, R!SendRuntimeDone
  <2> QED
    BY <1>1, <2>1, <2>2 DEF RuntimeDone
<1>2. CASE PusherInvoke
  <2>1. h = "pusherInvoke"
    BY <1>2 DEF PusherInvoke, PusherInvoked, HGoes
  <2>2. inv \notin invoked
    BY <2>1 DEF IndInv, Known
  <2> QED
    BY <1>2, <2>2 DEF PusherInvoke
<1> QED
  BY <1>1, <1>2, DueElsewhere

\* Every step keeps what is due among what was tried, or is about to be.
LEMMA TriedKept ==
  ASSUME IndInv, OneAtATime, timedOut = {}, Tried, P!Partition, [Next]_vars,
         due \in [Invocations -> Nat]
  PROVE  Tried'
<1>1. attempted \cup Trying \subseteq (attempted \cup Trying)' /\ P!Given' \subseteq attempted'
  BY PusherSteps, TriedGrows, GivenTried DEF Tried
<1>2. CASE due' = due
  BY <1>1, <1>2 DEF Tried
<1>3. ASSUME NEW i \in Invocations, due' = [due EXCEPT ![i] = accepted],
             1..accepted \subseteq (attempted \cup Trying)'
      PROVE  Tried'
  BY <1>1, <1>3, Typed DEF Tried
<1> QED
  BY <1>2, <1>3, DueIsTried, DueElsewhere DEF Tried

-----------------------------------------------------------------------------
(***************************************************************************)
(* The stop by handleInvocations.                                          *)
(***************************************************************************)

\* The pusher is stopped by Stop only.
LEMMA StopElsewhere ==
  ASSUME IndInv, [Next]_vars, ~StopPusher, ~PusherInvoke, ~PusherDone
  PROVE  cause' = "stop" <=> cause = "stop"
<1>1. CASE PusherRuns \/ RecordsTaken \/ RuntimeDone
  BY <1>1, PusherOwn
<1>2. CASE ~(PusherRuns \/ RecordsTaken \/ RuntimeDone)
  <2>1. cause' = cause
    BY <1>2 DEF Next, Required, Optional, Ended, InvokeStarts, FunctionRuns, Telemetry,
       EventsTaken, EventsPanic, ProcessorRuns, ProcessorInvoke, Timeout, InvokeTimesOut,
       ForceRequested, InvokeReturns, ShutdownEvent, CallStop, StopProducer, StopProcessor,
       Exit, Signal, NextEventFails, P!Cancel, P!SendForce, pvars, vars
  <2> QED
    BY <2>1
<1> QED
  BY <1>1, <1>2

\* A Stop that waitSignals won stays its own.
LEMMA StopperKept ==
  ASSUME IndInv, [Next]_vars, stopper' # "signal"
  PROVE  stopper # "signal"
<1>1. CASE CallStop
  BY <1>1 DEF CallStop, HandlerCallsStop, SignalCallsStop, KillSleepEnds, WinsStop, LosesStop,
     IndInv, StopStages
<1>2. CASE ~CallStop
  <2>1. stopper' = stopper
    BY <1>2 DEF Next, Required, Optional, Ended, InvokeStarts, FunctionRuns, Telemetry,
       EventsTaken, EventsPanic, ProcessorRuns, RecordsTaken, RuntimeDone, PusherInvoke,
       ProcessorInvoke, Timeout, PusherDone, InvokeTimesOut, ForceRequested, InvokeReturns,
       PusherRuns, ShutdownEvent, StopProducer, StopProcessor, StopPusher, Exit, Signal,
       NextEventFails, GetInvoke, PusherInvoked, ProcessorInvoked, SeeDoneC, SeeCtxDone,
       ForceReplied, ForceTimesOut, ForceSent, Return, GetShutdown, StopSlept,
       ProducerShutDown, ProcessorStopSent, ProcessorStopped, PusherStopSent, PusherStopped,
       StopGoes, MainReturns, GetSignal, NextFails, HGoes, workerVars, vars
  <2> QED
    BY <2>1
<1> QED
  BY <1>1, <1>2

\* Unless waitSignals stops the extension, no invocation is under way when it is stopped,
\* and no flush is left when the pusher is told to stop.
LEMMA HandlerStopsKept ==
  ASSUME IndInv, OneAtATime, timedOut = {}, HandlerStops, stopper' # "signal", [Next]_vars
  PROVE  HandlerStops'
<1> USE Typed
<1>1. stopping' => h' \in {"stop", "sendStop", "gone"}
  <2> USE DEF HandlerStops
  <2>1. CASE InvokeStarts
    BY <2>1 DEF InvokeStarts, GetInvoke
  <2>2. CASE \/ PusherInvoke \/ ProcessorInvoke \/ PusherDone \/ InvokeTimesOut
             \/ ForceRequested \/ InvokeReturns \/ ShutdownEvent \/ NextEventFails
    BY <2>2 DEF PusherInvoke, ProcessorInvoke, PusherDone, InvokeTimesOut, ForceRequested,
       InvokeReturns, ShutdownEvent, NextEventFails, PusherInvoked, ProcessorInvoked, SeeDoneC,
       SeeCtxDone, ForceReplied, ForceTimesOut, ForceSent, Return, GetShutdown, NextFails, HGoes
  <2>3. CASE CallStop
    BY <2>3 DEF CallStop, HandlerCallsStop, SignalCallsStop, KillSleepEnds, WinsStop, LosesStop
  <2>4. CASE StopProducer \/ StopProcessor
    BY <2>4 DEF StopProducer, StopProcessor, StopSlept, ProducerShutDown, ProcessorStopSent,
       ProcessorStopped, StopGoes
  <2>5. CASE StopPusher
    BY <2>5 DEF StopPusher, PusherStopSent, PusherStopped, StopGoes
  <2>6. CASE Exit \/ Signal
    BY <2>6 DEF Exit, MainReturns, Signal, GetSignal
  <2>7. CASE \/ FunctionRuns \/ ProcessorRuns \/ RecordsTaken \/ RuntimeDone \/ Timeout
             \/ PusherRuns \/ UNCHANGED vars
             \/ \E k \in Handlers : Telemetry(k) \/ EventsTaken(k) \/ EventsPanic(k)
    <3>1. UNCHANGED workerVars
      BY <2>7 DEF FunctionRuns, ProcessorRuns, RecordsTaken, RuntimeDone, Timeout, PusherRuns,
         Telemetry, EventsTaken, EventsPanic, vars
    <3> QED
      BY <3>1 DEF workerVars
  <2> QED
    BY <2>1, <2>2, <2>3, <2>4, <2>5, <2>6, <2>7 DEF Next, Required, Optional, Ended
<1>2. ASSUME cause = "stop"
      PROVE  InAir' = {}
  <2>1. pc # "select" /\ \A f \in Flushes : flush[f].at = "idle"
    BY <1>2 DEF HandlerStops, InAir
  <2>2. flush' = flush
    BY <2>1, PusherSteps DEF P!Next, P!Internal, P!External, P!RecvLogs, P!RecvRuntimeDone,
       P!RecvInvoke, P!RecvStop, P!SignalDone, P!SendStopped, P!Cancel, P!SendForce, P!CtxDone,
       P!RecvForce, P!PushOk, P!PushFail, P!AfterPush, P!RecvFlushResp, P!FlushStart, P!FlushOk,
       P!FlushFail, P!FlushTried, pvars
  <2> QED
    BY <2>1, <2>2 DEF InAir
<1>3. ASSUME cause' = "stop", cause # "stop"
      PROVE  InAir' = {}
  <2>1. CASE StopPusher
    <3>1. flush' = flush
      BY <2>1 DEF StopPusher, P!RecvStop, P!SendStopped
    <3>2. stopAt # "none"
      BY <2>1 DEF StopPusher, PusherStopSent, PusherStopped, StopGoes
    <3>3. h \in {"stop", "sendStop", "gone"}
      BY <3>2 DEF HandlerStops, IndInv, StopStages
    <3>4. InAir = {}
      BY <1>3, <3>3, NobodyGivesUp DEF OneAtATime, OneFlight
    <3> QED
      BY <3>1, <3>4 DEF InAir
  <2>2. CASE PusherInvoke \/ PusherDone
    BY <1>3, <2>2 DEF PusherInvoke, PusherDone, P!RecvInvoke, P!SendDone, P!SignalDone,
       P!BackToSelect
  <2>3. CASE ~(StopPusher \/ PusherInvoke \/ PusherDone)
    BY <1>3, <2>3, StopElsewhere
  <2> QED
    BY <2>1, <2>2, <2>3
<1> QED
  BY <1>1, <1>2, <1>3 DEF HandlerStops

\* What an invocation was told stays true, and the next one is told only what is true.
LEMMA DoneKept ==
  ASSUME IndInv, P!Partition, CourseInv, [Next]_vars
  PROVE  DoneMeansFlushed'
<1> USE Typed
<1> SUFFICES ASSUME NEW i \in signalled', stopper' # "signal", \A j \in timedOut' : j > i
             PROVE  /\ 1..due'[i] \subseteq attempted'
                    /\ ~FlushAtNextInvoke => i \in announced'
  BY DEF DoneMeansFlushed
<1>1. stopper # "signal" /\ \A j \in timedOut : j > i
  BY StopperKept, TimedOutGrows
<1>2. announced \subseteq announced'
  BY ProcessorSteps DEF R!Next, R!RecvEvents, R!ProcessEvent, R!EndOfBatch, R!SendOut,
     R!SendRuntimeDone, R!RecvRequest, R!RecvStopR, R!SendStoppedR, rvars
<1>3. attempted \subseteq attempted'
  BY PusherSteps DEF P!Next, P!Internal, P!External, P!RecvLogs, P!RecvRuntimeDone,
     P!RecvInvoke, P!RecvStop, P!SignalDone, P!SendStopped, P!Cancel, P!SendForce, P!CtxDone,
     P!RecvForce, P!PushOk, P!PushFail, P!AfterPush, P!RecvFlushResp, P!FlushStart, P!FlushOk,
     P!FlushFail, P!FlushTried, pvars
<1>4. CASE i \in signalled
  <2>1. i \in invoked /\ i \in Invocations
    BY <1>4 DEF IndInv, P!IndInv, P!DoneFresh, P!TypeOK
  <2>2. 1..due[i] \subseteq attempted /\ (~FlushAtNextInvoke => i \in announced)
    BY <1>1, <1>4 DEF CourseInv, DoneMeansFlushed
  <2>3. due'[i] = due[i]
    BY <2>1, <2>2, DueKept DEF CourseInv
  <2> QED
    BY <1>2, <1>3, <2>2, <2>3
<1>5. CASE i \notin signalled
  <2>1. PusherDone
    BY <1>5 DEF Next, Required, Optional, Ended, InvokeStarts, FunctionRuns, Telemetry,
       EventsTaken, EventsPanic, ProcessorRuns, RecordsTaken, RuntimeDone, PusherInvoke,
       ProcessorInvoke, Timeout, InvokeTimesOut, ForceRequested, InvokeReturns, PusherRuns,
       ShutdownEvent, CallStop, StopProducer, StopProcessor, StopPusher, Exit, Signal,
       NextEventFails, P!RecvLogs, P!RecvRuntimeDone, P!RecvInvoke, P!RecvStop,
       P!SendStopped, P!Cancel, P!SendForce, P!CtxDone, P!RecvForce, P!PushOk, P!PushFail,
       P!AfterPush, P!RecvFlushResp, P!FlushStart, P!FlushOk, P!FlushFail, P!FlushTried, pvars,
       vars
  <2>2. /\ h = "await" /\ pc = "signal" /\ i = doneC /\ doneC = inv
        /\ UNCHANGED <<due, attempted, announced>>
    BY <1>5, <2>1 DEF PusherDone, SeeDoneC, HGoes, P!SignalDone, hist, rvars
  <2>3. timedOut = {}
    <3>1. \A j \in timedOut : j \in 1..inv /\ j > inv
      BY <1>1, <2>2 DEF CourseInv
    <3>2. inv \in Nat
      BY Lengths
    <3> QED
      BY <3>1, <3>2
  <2>4. OneFlight /\ EndAwaited /\ HandlerStops /\ Tried
    BY <1>1, <2>3 DEF CourseInv, Flights
  <2>5. cause # "stop"
    <3>1. ~stopping
      BY <2>2, <2>4 DEF HandlerStops
    <3> QED
      BY <3>1 DEF IndInv, StopStages
  <2>6. InAir = {}
    BY <2>2, <2>4, <2>5 DEF OneFlight
  <2>7. Trying = {}
    <3>1. payload = <<>> /\ P!Range(<<>>) = {}
      BY <2>2, EmptySeq DEF P!Range
    <3>2. {g \in Flushes : flush[g].at \in {"new", "push"}} = {}
      BY <2>6 DEF InAir
    <3> QED
      BY <3>1, <3>2 DEF Trying
  <2>8. doneC \in Invocations
    BY <2>2 DEF IndInv, P!IndInv, P!DoneFresh
  <2>9. 1..due[doneC] \subseteq attempted
    BY <2>4, <2>7, <2>8 DEF Tried
  <2>10. ~FlushAtNextInvoke => doneC \in announced
    BY <2>2, <2>4, <2>5 DEF EndAwaited
  <2> QED
    BY <2>2, <2>9, <2>10
<1> QED
  BY <1>4, <1>5

-----------------------------------------------------------------------------
(***************************************************************************)
(* The server.                                                             *)
(***************************************************************************)

\* Unless Shutdown gives up, no request outlives the server.
LEMMA ServerDrainsKept ==
  ASSUME IndInv, ServerDrains, [Next]_vars
  PROVE  ServerDrains'
<1> USE DEF ServerDrains
<1>1. posted \in [Handlers -> PostStates]
  BY DEF IndInv, EventsOnTheWay
<1>2. ASSUME NEW k \in Handlers, Telemetry(k)
      PROVE  ServerDrains'
  BY <1>2 DEF Telemetry, Post, PostRefused, producerVars
<1>3. ASSUME NEW k \in Handlers, EventsTaken(k) \/ EventsPanic(k)
      PROVE  ServerDrains'
  BY <1>1, <1>3 DEF EventsTaken, EventsPanic, PostTaken, PostPanics, PostStates
<1>4. CASE StopProducer
  BY <1>4 DEF StopProducer, BeginShutdown, EndShutdown
<1>5. CASE ~(StopProducer \/ \E k \in Handlers : Telemetry(k) \/ EventsTaken(k) \/ EventsPanic(k))
  <2>1. UNCHANGED producerVars
    BY <1>5 DEF Next, Required, Optional, Ended, InvokeStarts, FunctionRuns, ProcessorRuns,
       RecordsTaken, RuntimeDone, PusherInvoke, ProcessorInvoke, Timeout, PusherDone,
       InvokeTimesOut, ForceRequested, InvokeReturns, PusherRuns, ShutdownEvent, CallStop,
       StopProcessor, StopPusher, Exit, Signal, NextEventFails, vars
  <2> QED
    BY <2>1 DEF producerVars
<1> QED
  BY <1>2, <1>3, <1>4, <1>5

-----------------------------------------------------------------------------
(***************************************************************************)
(* The theorems.                                                           *)
(***************************************************************************)

\* At the start nothing is in the air, nothing is due, and nobody stops.
LEMMA CourseInit == Init => CourseInv
<1> SUFFICES ASSUME Init
             PROVE  CourseInv
  OBVIOUS
<1>1. /\ InAir = {} /\ doneC = 0 /\ requestID = 0 /\ pc = "select" /\ cause = "none"
      /\ h = "next" /\ signalled = {} /\ buf = <<>> /\ timedOut = {}
      /\ sig = "wait" /\ stopper = "none" /\ ~stopping /\ server = "up"
      /\ due = [i \in Invocations |-> 0]
      /\ P!Given = {}
  BY DEF Init, WorkerInit, ProducerInit, P!Init, R!Init, P!NoFlush, P!Given, InAir
<1>2. Flights
  <2>1. \A f \in Flushes : flush[f].at = "idle"
    BY <1>1 DEF InAir
  <2> QED
    BY <1>1, <2>1, EmptySeq DEF Flights, OneFlight, OwnContext, FlushContext, EndAwaited,
       FlightIsOlder, InOrder, Increasing
<1>3. Tried /\ due \in [Invocations -> Nat]
  BY <1>1 DEF Tried
<1>4. HandlerStops /\ DoneMeansFlushed /\ ServerDrains
  BY <1>1 DEF HandlerStops, DoneMeansFlushed, ServerDrains
<1> QED
  BY <1>1, <1>2, <1>3, <1>4 DEF CourseInv

\* Every step keeps each part of it under its own condition.
LEMMA CourseKept == IndInv /\ P!Partition /\ CourseInv /\ [Next]_vars => CourseInv'
<1> SUFFICES ASSUME IndInv, P!Partition, CourseInv, [Next]_vars
             PROVE  CourseInv'
  OBVIOUS
<1>1. ASSUME timedOut' = {}
      PROVE  timedOut = {} /\ OneAtATime /\ Contexts /\ Ordered
  BY <1>1, TimedOutGrows DEF CourseInv, Flights, OneAtATime, Contexts, Ordered
<1>2. ASSUME timedOut' = {}
      PROVE  Flights'
  <2>1. OneAtATime'
    BY <1>1, <1>2, FlightKept
  <2>2. Contexts'
    BY <1>1, <1>2, ContextKept
  <2>3. Ordered'
    BY <1>1, <1>2, PusherSteps, OrderKept DEF OneAtATime
  <2> QED
    BY <2>1, <2>2, <2>3 DEF Flights, OneAtATime, Contexts, Ordered
<1>3. ASSUME timedOut' = {}, stopper' # "signal"
      PROVE  HandlerStops' /\ Tried'
  <2>1. HandlerStops /\ Tried
    BY <1>1, <1>3, StopperKept DEF CourseInv
  <2> QED
    BY <1>1, <1>3, <2>1, HandlerStopsKept, TriedKept DEF CourseInv
<1>4. timedOut' \subseteq 1..inv'
  <2>1. inv \in Nat /\ (inv' = inv \/ inv' = inv + 1)
    BY Lengths, InvGrows
  <2>2. Timeout => inv' = inv /\ inv # 0
    BY DEF Timeout, workerVars, IndInv, Known, InInvoke
  <2>3. timedOut \subseteq 1..inv
    BY DEF CourseInv
  <2>4. 1..inv \subseteq 1..inv'
    BY <2>1
  <2>5. CASE timedOut' = timedOut
    BY <2>3, <2>4, <2>5
  <2>6. CASE Timeout /\ timedOut' = timedOut \cup {inv}
    <3>1. inv' = inv /\ inv \in 1..inv
      BY <2>1, <2>2, <2>6
    <3> QED
      BY <2>3, <2>6, <3>1
  <2> QED
    BY <2>5, <2>6, TimedOutGrows
<1>5. due' \in [Invocations -> Nat]
  BY DueKept DEF CourseInv
<1>6. ServerDrains'
  BY ServerDrainsKept DEF CourseInv
<1> QED
  BY <1>2, <1>3, <1>4, <1>5, <1>6, DoneKept DEF CourseInv

\* In every reachable state, with any number of invocations, flush goroutines and
\* handlers: until an invocation has timed out, one flush is in the air at a time, under
\* the context of the invocation that waits for it; unless a signal stops the extension,
\* what is due was tried; unless Shutdown gives up, no request outlives the server.
THEOREM CourseHolds == Spec => []CourseInv
  BY Inductive, EveryRecordAccounted, CourseInit, CourseKept, PTL DEF Spec

\* The buffer of the pusher keeps its records in the order in which the processor
\* handed them over, however failed flushes come back between new records, in both
\* modes, until an invocation has timed out: the requeue of the flushRespC case is
\* right because only one flush is in the air.
THEOREM BufferInOrder == Spec => [](timedOut = {} => InOrder)
<1>1. CourseInv => (timedOut = {} => InOrder)
  BY DEF CourseInv, Flights
<1> QED
  BY <1>1, CourseHolds, PTL

\* A flush goroutine reads the variable ctx of run after it was started, and run may
\* have assigned to it by then; still it gets the context of the invocation that waits
\* for it, and that is not done, until an invocation has timed out.
THEOREM FlushHasItsContext == Spec => []FlushContext
<1>1. CourseInv => FlushContext
  BY DEF CourseInv, Flights, FlushContext
<1> QED
  BY <1>1, CourseHolds, PTL

\* An invocation that was told it is done had a push tried of all that the pusher held
\* for it, in both modes, whatever fails, ends early or times out later.  One after a
\* timed-out invocation, and one released by the Stop of a signal, is exempt.
THEOREM DoneIsFlushed == Spec => []DoneMeansFlushed
<1>1. CourseInv => DoneMeansFlushed
  BY DEF CourseInv
<1> QED
  BY <1>1, CourseHolds, PTL

\* A Stop by handleInvocations ends with empty hands: no record is in the buffer, in a
\* push or in a flush, unless an invocation timed out.  And inC is closed under a
\* blocked handler only if the server's Shutdown gave up.
THEOREM ExitsGracefully == Spec => []GracefulExit
<1>1. IndInv /\ CourseInv => GracefulExit
  <2> SUFFICES ASSUME IndInv, CourseInv
               PROVE  GracefulExit
    OBVIOUS
  <2>1. ASSUME stopAt = "done", stopper = "handler", timedOut = {}
        PROVE  P!Held = {}
    <3>1. HandlerStops
      BY <2>1 DEF CourseInv
    <3>2. cause = "stop" /\ pc = "exited"
      BY <2>1 DEF IndInv, StopStages
    <3>3. buf = <<>> /\ payload = <<>> /\ \A f \in Flushes : flush[f].at = "idle"
      BY <3>1, <3>2, Typed DEF HandlerStops, InAir
    <3>4. \A f \in Flushes : flush[f].payload = <<>>
      BY <3>3 DEF IndInv, P!IndInv, P!OneHolder, P!IdleIsEmpty
    <3>5. P!Range(<<>>) = {}
      BY EmptySeq DEF P!Range
    <3> QED
      BY <3>3, <3>4, <3>5 DEF P!Held, P!InFlush
  <2>2. ASSUME inClosed, server # "abandoned"
        PROVE  \A k \in Handlers : posted[k] = Idle
    <3>1. server = "closed"
      BY <2>2 DEF IndInv, StopStages
    <3> QED
      BY <3>1 DEF CourseInv, ServerDrains
  <2> QED
    BY <2>1, <2>2 DEF GracefulExit
<1> QED
  BY <1>1, Inductive, CourseHolds, PTL

\* In the default mode, until an invocation has timed out, Invoke, the processor and the
\* pusher never wait for each other in a circle, whatever else goes wrong: while Invoke
\* hands the invocation to the processor, the pusher has nothing to tell it.  Run
\* circular_wait shows the circle in the other mode.
THEOREM NobodyWaitsInCircle ==
  ASSUME ~FlushAtNextInvoke
  PROVE  Spec => [](timedOut = {} => NoCircularWait)
<1>1. IndInv /\ CourseInv => (timedOut = {} => NoCircularWait)
  <2> SUFFICES ASSUME IndInv, CourseInv, timedOut = {}, h = "processorInvoke", pc = "signal",
                      rpc \in {"out", "announce", "drained"}
               PROVE  FALSE
    BY DEF NoCircularWait
  <2>1. CASE cause = "stop"
    BY <2>1 DEF IndInv, StopStages
  <2>2. CASE cause # "stop"
    BY <2>2 DEF CourseInv, Flights, EndAwaited
  <2> QED
    BY <2>1, <2>2
<1> QED
  BY <1>1, Inductive, CourseHolds, PTL

=============================================================================
