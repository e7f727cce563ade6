-------------------------------- MODULE Worker --------------------------------
(***************************************************************************)
(* The worker (main.go): the goroutine of handleInvocations, which takes   *)
(* events from the Extensions API and runs Worker.Invoke, the goroutine of *)
(* waitSignals, Worker.Stop, which either may run, and main, which waits   *)
(* for one of them on the channel stop and then ends the process.          *)
(*                                                                         *)
(* The actions are the worker's half of what it does together with the     *)
(* other components; module Extension adds the other half.                 *)
(***************************************************************************)
EXTENDS Naturals

CONSTANT LastInvocation  \* bound: invocations are numbered 1..LastInvocation

VARIABLES
  h,          \* where handleInvocations is
  inv,        \* the invocation it handles, or handled last
  sig,        \* where waitSignals is
  cancelled,  \* whether the context of NextEvent was cancelled
  stopping,   \* the flag w.stopping
  stopper,    \* who runs Stop
  stopAt,     \* where Stop is
  over        \* whether main has returned

workerVars == <<h, inv, sig, cancelled, stopping, stopper, stopAt, over>>

\* "next": in NextEvent; "pusherInvoke", "processorInvoke": blocked in the Invoke of
\* that component; "await": in the select of Invoke; "forceSend", "forceWait": in
\* ForceFlush; "return": about to run the deferred cancel.
HLabel == {"next", "pusherInvoke", "processorInvoke", "await", "forceSend", "forceWait",
           "return", "callStop", "stop", "sendStop", "gone"}

SLabel == {"wait", "callStop", "stop", "killSleep", "sendStop", "gone"}

StopLabel == {"none", "sleep", "producer", "processor", "awaitProcessor", "pusher",
              "awaitPusher", "done"}

\* The types of the worker's variables.
WorkerTypeOK ==
  /\ h \in HLabel
  /\ inv \in 0..LastInvocation
  /\ sig \in SLabel
  /\ cancelled \in BOOLEAN
  /\ stopping \in BOOLEAN
  /\ stopper \in {"none", "handler", "signal"}
  /\ stopAt \in StopLabel
  /\ over \in BOOLEAN

WorkerInit ==
  /\ h = "next"
  /\ inv = 0
  /\ sig = "wait"
  /\ cancelled = FALSE
  /\ stopping = FALSE
  /\ stopper = "none"
  /\ stopAt = "none"
  /\ over = FALSE

-----------------------------------------------------------------------------
(***************************************************************************)
(* handleInvocations and Worker.Invoke.                                    *)
(***************************************************************************)

\* Every step of Invoke moves h on and nothing else.
HGoes(from, to) ==
  /\ ~over
  /\ h = from
  /\ h' = to
  /\ UNCHANGED <<inv, sig, cancelled, stopping, stopper, stopAt, over>>

\* NextEvent returns an Invoke event.
GetInvoke ==
  /\ ~over
  /\ ~cancelled
  /\ h = "next"
  /\ inv < LastInvocation
  /\ inv' = inv + 1
  /\ h' = "pusherInvoke"
  /\ UNCHANGED <<sig, cancelled, stopping, stopper, stopAt, over>>

\* Mutation: the loop ends the process when it ends.
NextFailsAndEnds == HGoes("next", "sendStop")

\* NextEvent fails, always once its context is cancelled.  The loop ends without
\* Stop and without a send on stop.
NextFails == HGoes("next", "gone")

\* Each of Pusher.Invoke and Processor.Invoke returns when its send was received.
PusherInvoked == HGoes("pusherInvoke", "processorInvoke")
ProcessorInvoked == HGoes("processorInvoke", "await")

\* The two cases of the select, and the force flush that follows the first.
SeeCtxDone == HGoes("await", "forceSend")
SeeDoneC == HGoes("await", "return")
ForceSent == HGoes("forceSend", "forceWait")
ForceReplied == HGoes("forceWait", "return")

\* The 200 ms of flushCtx are over, before the request was sent or after.
ForceTimesOut == HGoes("forceSend", "return") \/ HGoes("forceWait", "return")

\* Mutation: the loop invokes the processor again for the same event.
ReturnToProcessor == HGoes("return", "processorInvoke")

\* The deferred cancel, and back to NextEvent.
Return == HGoes("return", "next")

-----------------------------------------------------------------------------
(***************************************************************************)
(* Worker.Stop.                                                            *)
(***************************************************************************)

\* NextEvent returns a Shutdown event.
GetShutdown == ~cancelled /\ HGoes("next", "callStop")

\* waitSignals receives SIGTERM or SIGINT and cancels the context of NextEvent.
GetSignal ==
  /\ ~over
  /\ sig = "wait"
  /\ sig' = "callStop"
  /\ cancelled' = TRUE
  /\ UNCHANGED <<h, inv, stopping, stopper, stopAt, over>>

\* Mutation: the flag is set without looking at it.
WinsStopAlways(who) ==
  /\ stopping' = TRUE
  /\ stopper' = who
  /\ stopAt' = "sleep"

\* w.stopping.CompareAndSwap(false, true): the first caller runs Stop, ...
WinsStop(who) ==
  /\ ~stopping
  /\ stopping' = TRUE
  /\ stopper' = who
  /\ stopAt' = "sleep"

\* ... the second one gets false at once.
LosesStop ==
  /\ stopping
  /\ UNCHANGED <<stopping, stopper, stopAt>>

\* handleInvocations ignores what Stop returns.
HandlerCallsStop ==
  /\ ~over
  /\ h = "callStop"
  /\ \/ WinsStop("handler") /\ h' = "stop"
     \/ LosesStop /\ h' = "sendStop"
  /\ UNCHANGED <<inv, sig, cancelled, over>>

\* waitSignals sleeps for KillTimeout when Stop is already running.
SignalCallsStop ==
  /\ ~over
  /\ sig = "callStop"
  /\ \/ WinsStop("signal") /\ sig' = "stop"
     \/ LosesStop /\ sig' = "killSleep"
  /\ UNCHANGED <<h, inv, cancelled, over>>

KillSleepEnds ==
  /\ ~over
  /\ sig = "killSleep"
  /\ sig' = "sendStop"
  /\ UNCHANGED <<h, inv, cancelled, stopping, stopper, stopAt, over>>

StopGoes(from, to) ==
  /\ ~over
  /\ stopAt = from
  /\ stopAt' = to
  /\ UNCHANGED <<h, inv, sig, cancelled, stopping, stopper, over>>

\* Mutation: the pusher is stopped while the processor still stops.
ProcessorStopNotAwaited == StopGoes("processor", "pusher")

\* time.Sleep, producer.Shutdown, and the two halves of the Stop of the processor
\* and of the pusher.
StopSlept == StopGoes("sleep", "producer")
ProducerShutDown == StopGoes("producer", "processor")
ProcessorStopSent == StopGoes("processor", "awaitProcessor")
ProcessorStopped == StopGoes("awaitProcessor", "pusher")
PusherStopSent == StopGoes("pusher", "awaitPusher")

\* Stop returns to its caller.
PusherStopped ==
  /\ ~over
  /\ stopAt = "awaitPusher"
  /\ stopAt' = "done"
  /\ IF stopper = "handler"
     THEN h' = "sendStop" /\ UNCHANGED sig
     ELSE sig' = "sendStop" /\ UNCHANGED h
  /\ UNCHANGED <<inv, cancelled, stopping, stopper, over>>

\* main receives from stop, returns, and the process ends.
MainReturns ==
  /\ ~over
  /\ \/ h = "sendStop" /\ h' = "gone" /\ UNCHANGED sig
     \/ sig = "sendStop" /\ sig' = "gone" /\ UNCHANGED h
  /\ over' = TRUE
  /\ UNCHANGED <<inv, cancelled, stopping, stopper, stopAt>>

=============================================================================
