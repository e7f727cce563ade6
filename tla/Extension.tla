------------------------------ MODULE Extension ------------------------------
(***************************************************************************)
(* The whole extension: worker, producer, processor and pusher on the      *)
(* channels that NewWorker makes between them, run by the Lambda platform. *)
(*                                                                         *)
(* Every step of this module is a step of one component, or the two halves *)
(* of one communication.  What may go wrong is chosen by Allowed.          *)
(***************************************************************************)
EXTENDS Worker, Producer, Platform, FiniteSets, Functions

CONSTANTS Flushes, FlushAtNextInvoke, BufferSize, RecordBytes, Background

\* What may happen besides the undisturbed course of events:
\*   "timeout"      the context of an invocation runs out before the pusher is done
\*   "pushFail"     the backend does not take a payload in time
\*   "earlyEnd"     the function ends before the invocation is known to all components
\*   "otherEvents"  an event of an ignored type is recorded after the end
\*   "drainTimeout" Shutdown of the server gives up waiting for its handlers
\*   "signal"       the process receives SIGTERM or SIGINT
\*   "nextFails"    NextEvent returns an error
\*   "crash"        the platform shuts down although the function has not finished
\*   "badPost"      the producer cannot read or decode a message
\*   "badTime"      the time of the function's end is not valid
\*   "badReport"    the report lacks one of the durations
CONSTANT Allowed

Condition == {"timeout", "pushFail", "earlyEnd", "otherEvents", "drainTimeout", "signal",
              "nextFails", "crash", "badPost", "badTime", "badReport"}

ASSUME ExtensionAssumption ==
  /\ LastInvocation \in Nat
  /\ Background \notin 0..LastInvocation
  /\ MaxLogs \in Nat
  /\ MaxPost \in Nat
  /\ FlushAtNextInvoke \in BOOLEAN
  /\ BufferSize \in Nat
  /\ RecordBytes \in Nat \ {0}
  /\ Allowed \subseteq Condition

VARIABLES
  pc, cause, buf, payload, ctx, doneC, flush, forceFlushing, serving, reply, ctxDone,
  invoked, signalled, accepted, attempted, sent, lost, trimmed,
  rpc, batch, doneFlag, requestID, durations, out, inClosed, assigned, announced,
  timedOut,  \* history: the invocations whose context ran out
  due,       \* history: how many records there were when the pusher was to flush for each
  astray     \* history: the invocations whose end or report was lost, came before an
             \* earlier event of the same invocation, or lacked its time or durations

Invocations == 1..LastInvocation

P == INSTANCE Pusher WITH
       NoInvocation <- 0,
       MaxBatch <- MaxPost,
       Totals <- Nat

R == INSTANCE Processor WITH
       Requests <- Invocations,
       NoRequest <- 0,
       MaxEvents <- MaxPost

pvars ==
  <<pc, cause, buf, payload, ctx, doneC, flush, forceFlushing, serving, reply, ctxDone,
    invoked, signalled, accepted, attempted, sent, lost, trimmed>>
rvars == <<rpc, batch, doneFlag, requestID, durations, out, inClosed, assigned, announced>>
hist == <<timedOut, due, astray>>

vars == <<workerVars, producerVars, platformVars, pvars, rvars, hist>>

Init ==
  /\ WorkerInit
  /\ ProducerInit
  /\ PlatformInit
  /\ P!Init
  /\ R!Init
  /\ timedOut = {}
  /\ due = [i \in Invocations |-> 0]
  /\ astray = {}

-----------------------------------------------------------------------------
(***************************************************************************)
(* The platform.                                                           *)
(***************************************************************************)

InvokeStarts ==
  /\ GetInvoke
  /\ FunctionStarts(inv')
  /\ UNCHANGED <<producerVars, pvars, rvars, hist>>

Strays(requests) == astray' = astray \cup requests

\* Unless "earlyEnd" is allowed, the function does not end before both Invoke calls of
\* its invocation have returned.
MayEnd == "earlyEnd" \in Allowed \/ h \notin {"pusherInvoke", "processorInvoke"}

\* The function runs beside the extension.
FunctionRuns ==
  /\ ~over
  /\ \/ FunctionLogs(inv) /\ UNCHANGED astray
     \/ "otherEvents" \in Allowed /\ OtherEvent(inv) /\ UNCHANGED astray
     \/ MayEnd /\ FunctionEnds(inv, "ok") /\ UNCHANGED astray
     \/ "badTime" \in Allowed /\ MayEnd /\ FunctionEnds(inv, "partial") /\ Strays({inv})
     \/ h = "next" /\ Reports(inv, "ok") /\ UNCHANGED astray
     \/ /\ "badReport" \in Allowed
        /\ h = "next"
        /\ \E form \in {"partial", "unbilled"} : Reports(inv, form)
        /\ Strays({inv})
  /\ UNCHANGED <<workerVars, producerVars, pvars, rvars, timedOut, due>>

\* The invocations that go astray when a message is lost.
Losing(message) ==
  {i \in Invocations : \E j \in DOMAIN message :
     message[j].req = i /\ message[j].type \in {"runtimeDone", "report"}}

\* A message that is refused is lost; one that is then sent again was not posted yet.
Telemetry(k) ==
  /\ ~over
  /\ \E n \in 1..Len(stream) :
       /\ Posts(n)
       /\ LET message == SubSeq(stream, 1, n) IN
            \/ Post(k, message) /\ UNCHANGED astray
            \/ "badPost" \in Allowed /\ PostRefused(k) /\ Strays(Losing(message))
  /\ UNCHANGED <<workerVars, pvars, rvars, timedOut, due>>

-----------------------------------------------------------------------------
(***************************************************************************)
(* logC, bufferC and runtimeDoneC: the way of the events.                  *)
(***************************************************************************)

EventsTaken(k) ==
  /\ ~over
  /\ PostTaken(k)
  /\ R!RecvEvents(posted[k][1])
  /\ UNCHANGED <<workerVars, platformVars, pvars, hist>>

EventsPanic(k) ==
  /\ ~over
  /\ inClosed
  /\ PostPanics(k)
  /\ Strays(Losing(posted[k][1]))
  /\ UNCHANGED <<workerVars, platformVars, pvars, rvars, timedOut, due>>

\* The message that handler k is blocked sending, and the events on their way to the
\* processor, among them those of the message that it is at.
Sending(k) == IF posted[k] = Idle THEN <<>> ELSE posted[k][1]
OnTheWay == Range(batch) \cup Range(stream) \cup UNION {Range(Sending(k)) : k \in Handlers}

Coming(type, i) == \E d \in OnTheWay : d.type = type /\ d.req = i

\* e is processed before an event of the same request that the platform recorded earlier,
\* and that requestDurations needs.
Overtakes(e) ==
  \/ e.type \in {"runtimeDone", "report"} /\ Coming("start", e.req)
  \/ e.type = "report" /\ Coming("runtimeDone", e.req)

ProcessorRuns ==
  /\ ~over
  /\ \/ /\ R!ProcessEvent
        /\ IF Overtakes(Head(batch)) THEN Strays({Head(batch).req}) ELSE UNCHANGED astray
     \/ R!EndOfBatch /\ UNCHANGED astray
  /\ UNCHANGED <<workerVars, producerVars, platformVars, pvars, timedOut, due>>

RecordsTaken ==
  /\ ~over
  /\ R!SendOut
  /\ P!RecvLogs(Len(out))
  /\ UNCHANGED <<workerVars, producerVars, platformVars, hist>>

RuntimeDone ==
  /\ ~over
  /\ R!SendRuntimeDone
  /\ P!RecvRuntimeDone
  /\ due' = IF FlushAtNextInvoke THEN due ELSE [due EXCEPT ![requestID] = accepted + Len(out)]
  /\ UNCHANGED <<workerVars, producerVars, platformVars, timedOut, astray>>

-----------------------------------------------------------------------------
(***************************************************************************)
(* Worker.Invoke.                                                          *)
(***************************************************************************)

PusherInvoke ==
  /\ PusherInvoked
  /\ P!RecvInvoke(inv)
  /\ due' = IF FlushAtNextInvoke THEN [due EXCEPT ![inv] = accepted] ELSE due
  /\ UNCHANGED <<producerVars, platformVars, rvars, timedOut, astray>>

ProcessorInvoke ==
  /\ ProcessorInvoked
  /\ R!RecvRequest(inv)
  /\ UNCHANGED <<producerVars, platformVars, pvars, hist>>

\* The deadline of the invocation, less the grace period.
Timeout ==
  /\ ~over
  /\ "timeout" \in Allowed
  /\ h \in {"pusherInvoke", "processorInvoke", "await"}
  /\ P!Cancel(inv)
  /\ timedOut' = timedOut \cup {inv}
  /\ UNCHANGED <<workerVars, producerVars, platformVars, rvars, due, astray>>

\* The invocation receives from its own doneC only.
PusherDone ==
  /\ SeeDoneC
  /\ doneC = inv
  /\ P!SignalDone
  /\ UNCHANGED <<producerVars, platformVars, rvars, hist>>

\* Mutation: Invoke gives up without its context being done.
InvokeGivesUp ==
  /\ \/ SeeCtxDone
     \/ ForceReplied /\ reply[inv] # "none"
     \/ ForceTimesOut
  /\ UNCHANGED <<producerVars, platformVars, pvars, rvars, hist>>

InvokeTimesOut ==
  /\ \/ SeeCtxDone /\ inv \in ctxDone
     \/ ForceReplied /\ reply[inv] # "none"
     \/ ForceTimesOut
  /\ UNCHANGED <<producerVars, platformVars, pvars, rvars, hist>>

ForceRequested ==
  /\ ForceSent
  /\ P!SendForce(inv)
  /\ UNCHANGED <<producerVars, platformVars, rvars, hist>>

InvokeReturns ==
  /\ Return
  /\ IF inv \in ctxDone THEN UNCHANGED pvars ELSE P!Cancel(inv)
  /\ UNCHANGED <<producerVars, platformVars, rvars, hist>>

-----------------------------------------------------------------------------
(***************************************************************************)
(* The pusher on its own.                                                  *)
(***************************************************************************)

\* A push fails if the backend does not take its payload, or if the context that it was
\* called with is done, then or by now.
MayFail(f) ==
  "pushFail" \in Allowed \/ flush[f].under = 0 \/ P!Done(flush[f].under)

PusherRuns ==
  /\ ~over
  /\ \/ P!CtxDone
     \/ P!RecvForce
     \/ P!PushOk
     \/ "pushFail" \in Allowed /\ P!PushFail
     \/ \E f \in Flushes :
          \/ P!RecvFlushResp(f)
          \/ P!FlushStart(f)
          \/ P!FlushOk(f)
          \/ MayFail(f) /\ P!FlushFail(f)
  /\ UNCHANGED <<workerVars, producerVars, platformVars, rvars, hist>>

-----------------------------------------------------------------------------
(***************************************************************************)
(* The end.                                                                *)
(***************************************************************************)

\* The platform shuts down between invocations, or because the function failed.
ShutdownEvent ==
  /\ GetShutdown
  /\ fn = "idle" \/ "crash" \in Allowed
  /\ UNCHANGED <<producerVars, platformVars, pvars, rvars, hist>>

Signal ==
  /\ "signal" \in Allowed
  /\ GetSignal
  /\ UNCHANGED <<producerVars, platformVars, pvars, rvars, hist>>

NextEventFails ==
  /\ NextFails
  /\ cancelled \/ "nextFails" \in Allowed
  /\ UNCHANGED <<producerVars, platformVars, pvars, rvars, hist>>

CallStop ==
  /\ HandlerCallsStop \/ SignalCallsStop \/ KillSleepEnds
  /\ UNCHANGED <<producerVars, platformVars, pvars, rvars, hist>>

StopProducer ==
  /\ \/ StopSlept /\ BeginShutdown
     \/ ProducerShutDown /\ EndShutdown("drainTimeout" \in Allowed)
  /\ UNCHANGED <<platformVars, pvars, rvars, hist>>

StopProcessor ==
  /\ \/ ProcessorStopSent /\ R!RecvStopR
     \/ ProcessorStopped /\ R!SendStoppedR
  /\ UNCHANGED <<producerVars, platformVars, pvars, hist>>

StopPusher ==
  /\ \/ PusherStopSent /\ P!RecvStop
     \/ PusherStopped /\ P!SendStopped
  /\ UNCHANGED <<producerVars, platformVars, rvars, hist>>

Exit ==
  /\ MainReturns
  /\ UNCHANGED <<producerVars, platformVars, pvars, rvars, hist>>

\* The steps that happen unless the process has ended or all its goroutines wait:
\* the platform's clock and schedulers see to it.
Required ==
  \/ InvokeStarts
  \/ FunctionRuns
  \/ \E k \in Handlers : Telemetry(k)
  \/ \E k \in Handlers : EventsTaken(k) \/ EventsPanic(k)
  \/ ProcessorRuns \/ RecordsTaken \/ RuntimeDone
  \/ PusherInvoke \/ ProcessorInvoke \/ Timeout \/ PusherDone \/ InvokeTimesOut
  \/ ForceRequested \/ InvokeReturns
  \/ PusherRuns
  \/ ShutdownEvent \/ CallStop \/ StopProducer \/ StopProcessor \/ StopPusher \/ Exit

\* The steps that need not happen.
Optional == Signal \/ NextEventFails

\* A process that has ended does nothing.
Ended == over /\ UNCHANGED vars

Next == Required \/ Optional \/ Ended

Spec == Init /\ [][Next]_vars

\* As long as some goroutine or the platform can go on, one of them does.  No
\* behaviour of this specification goes on for ever, so nothing is starved.
FairSpec == Spec /\ WF_vars(Required)

-----------------------------------------------------------------------------
(***************************************************************************)
(* Properties that hold whatever is allowed.                               *)
(***************************************************************************)

\* Every variable has its type, in every component at once.
TypeOK ==
  /\ WorkerTypeOK
  /\ P!TypeOK
  /\ R!TypeOK
  /\ server \in {"up", "closing", "closed", "abandoned"}
  /\ \A k \in Handlers : posted[k] = Idle \/ \E n \in 1..MaxPost : Len(posted[k][1]) = n
  /\ fn \in {"idle", "running", "ended"}
  /\ timedOut \subseteq Invocations
  /\ astray \subseteq Invocations

\* In the extension, the pusher is used as module Pusher supposes (no doneC is handed
\* to it twice, a force flush comes once and after the invocation's context is done),
\* so what is proved of Pusher holds here.
UsesPusher == P!Spec

\* The same for the processor.
UsesProcessor == R!Spec

\* Worker.Stop ends the processor before the pusher: when the pusher has answered
\* Stop, nobody can still hand it a record or announce an end, so nothing is left
\* behind in the buffer of a goroutine that has returned.
ProcessorStopsFirst == pc \in {"stopped", "exited"} => rpc = "exited" /\ buf = <<>>

\* Only one of handleInvocations and waitSignals runs Stop, however their calls
\* interleave: inC is closed by a Stop under way, and the one whose Stop has
\* finished is the one that won the flag.
OneStop ==
  /\ inClosed => stopping /\ stopAt \notin {"sleep", "producer"}
  /\ stopAt = "done" => rpc = "exited" /\ pc = "exited" /\ server \notin {"up", "closing"}
  /\ ~(h = "stop" /\ sig = "stop")

\* The process ends by a Stop that has finished, and before that only if a shutdown
\* event and a signal both came: then the one that did not win the flag ends it while
\* the other is still stopping.  waitSignals gives Stop KillTimeout more, but
\* handleInvocations nothing.
EndsByStop ==
  over /\ stopAt # "done" =>
    IF stopper = "handler" THEN h = "stop" /\ sig = "gone" ELSE h = "gone" /\ sig = "stop"

\* The pusher blocks on the doneC of an invocation that has gone only if that
\* invocation timed out, also while it is being stopped: without timeouts, neither run
\* nor Stop waits for ever on that send.
OrphanTimedOut ==
  pc = "signal" =>
    \/ doneC \in timedOut
    \/ doneC = inv /\ h \in {"processorInvoke", "await"}

-----------------------------------------------------------------------------
(***************************************************************************)
(* Properties of the states that nothing has disturbed yet: what it takes  *)
(* to disturb them is a premise.                                           *)
(***************************************************************************)

\* An invocation that was told it is done had a push tried of all that the pusher
\* held for it: at its announced end, or, with FlushAtNextInvoke, when it began.  Only an
\* invocation after one that timed out can be released by a flush that is not its own,
\* and only the Stop of a signal releases one without a flush.
DoneMeansFlushed ==
  stopper # "signal" => \A i \in signalled : (\A j \in timedOut : j > i) =>
    /\ 1..due[i] \subseteq attempted
    /\ ~FlushAtNextInvoke => i \in announced

\* A flush runs under the context of the invocation that waits for it, although its
\* closure captures a variable that run assigns to.  Only after a timeout can it get the
\* context of a later invocation, or one that is done.
FlushContext ==
  timedOut = {} /\ cause # "stop" =>
    \A f \in Flushes : flush[f].at = "push" => doneC # 0 /\ flush[f].under = doneC

\* The buffer keeps its records in the order in which they came, although a failed
\* payload comes back while new records arrive.
Increasing(s) == \A j, k \in DOMAIN s : j < k => s[j] < s[k]
InOrder == Increasing(buf)

\* No record names another invocation than that of its event: neither a function's,
\* whose event does not show it, nor the message of an END, which names the current one.
NeverMisattributed == \A k \in DOMAIN out : {out[k].id, out[k].said} \subseteq {out[k].req, 0}

\* Worker.Invoke does not wait for the processor while that waits for the pusher and the
\* pusher for Worker.Invoke: nobody but these three could end that.
NoCircularWait ==
  ~(h = "processorInvoke" /\ rpc \in {"out", "announce", "drained"} /\ pc = "signal" /\ doneC = inv)

\* A metric's runtime duration is computed from an End that was not set, or from a bill
\* that was not sent, only if the end of its request was lost, had no valid time, or came
\* after the report or before the start, or the report had no bill: whatever else goes
\* wrong, with any number of requests at one time.
SpansRight == \A k \in DOMAIN out : out[k].span = "garbage" => out[k].req \in astray

\* requestDurations keeps an entry only until the report of its request is processed,
\* unless that was lost, came before the start or had no duration: the map does not grow
\* with the number of invocations.
ReportComes(i) == Coming("report", i) \/ (i = inv /\ fn # "idle")
DurationsFreed ==
  \A i \in Invocations : durations[i] # "absent" => ReportComes(i) \/ i \in astray

\* A Stop by a shutdown event leaves nothing behind, unless some invocation timed out: all
\* that the pusher accepted was sent or given up, and no flush is cut off.  And inC is
\* closed under a handler only if Shutdown gave up waiting for it.
GracefulExit ==
  /\ stopAt = "done" /\ stopper = "handler" /\ timedOut = {} => P!Held = {}
  /\ inClosed /\ server # "abandoned" => \A k \in Handlers : posted[k] = Idle

\* Every invocation comes back to NextEvent.
InvocationReturns == h = "pusherInvoke" ~> h = "next"

\* Once the platform asks for it, the process ends, and by Stop.
ShutdownCompletes == h = "callStop" ~> over /\ stopAt = "done"

-----------------------------------------------------------------------------
(***************************************************************************)
(* What the repository says, and the code does not do.                     *)
(***************************************************************************)

\* README.md: "Normally logs are flushed at the end of the function execution."  The
\* end of the function leads to the announcement that makes the pusher flush.
FlushedAtEnd == \A i \in Invocations : (fn = "ended" /\ inv = i) ~> i \in announced

\* README.md: "Failed flushes are retried for at most 10 times. Retries are done at
\* the next flush time."  No record is discarded because a push failed, as long as
\* there were not ten of them.
FailedFlushIsRetried == lost = {}

-----------------------------------------------------------------------------
(***************************************************************************)
(* The inductive invariant that the proofs of module ExtensionProofs use.  *)
(***************************************************************************)

\* Where handleInvocations is while it is in Worker.Invoke.
InInvoke == {"pusherInvoke", "processorInvoke", "await", "forceSend", "forceWait", "return"}

\* What a handler may hold: nothing, or a message that is not empty.
PostStates == {Idle} \cup {<<m>> : m \in R!Message \ {<<>>}}

\* The events on their way to the pusher are of invocations that have begun, and never
\* more than one message of them at a time is in the hands of the processor.
EventsOnTheWay ==
  /\ fn # "idle" => inv # 0
  /\ stream \in Seq(R!Event)
  /\ posted \in [Handlers -> PostStates]
  /\ Len(out) + Len(batch) <= MaxPost
  /\ rpc \notin {"batch", "out"} => out = <<>>

\* Which invocations the components know, as far as Invoke has come with this one.
Known ==
  /\ invoked \cup assigned \cup ctxDone \subseteq 1..inv
  /\ h \in InInvoke => inv # 0
  /\ h = "pusherInvoke" => inv \notin invoked
  /\ h \in InInvoke \ {"pusherInvoke"} => inv \in invoked
  /\ h \in {"pusherInvoke", "processorInvoke"} => inv \notin assigned

\* While Invoke has not returned, the context of its invocation is done only by its
\* timeout, and only then a force flush is asked for.
TimedOutOnly ==
  /\ h \in InInvoke /\ inv \in ctxDone => inv \in timedOut
  /\ h \in {"forceSend", "forceWait"} => inv \in ctxDone

\* No force flush was asked for before its time.
AskedFor(i) == i \in P!Range(forceFlushing) \/ i = serving \/ reply[i] # "none"
AskedOnce ==
  \A i \in Invocations : AskedFor(i) =>
    i < inv \/ (i = inv /\ h \notin {"pusherInvoke", "processorInvoke", "await", "forceSend"})

\* How far the components have been stopped, at each stage of Stop.
StopStages ==
  /\ stopping <=> stopAt # "none"
  /\ stopping <=> stopper # "none"
  /\ server \in CASE stopAt \in {"none", "sleep"} -> {"up"}
                   [] stopAt = "producer" -> {"closing"}
                   [] OTHER -> {"closed", "abandoned"}
  /\ inClosed <=> stopAt \in {"awaitProcessor", "pusher", "awaitPusher", "done"}
  /\ inClosed <=> rpc \in {"drained", "stopped", "exited"}
  /\ rpc = "exited" <=> stopAt \in {"pusher", "awaitPusher", "done"}
  /\ cause = "stop" <=> stopAt \in {"awaitPusher", "done"}
  /\ pc = "exited" <=> stopAt = "done"

\* Who runs Stop, and who ends the process without having run it.
WhoStops ==
  /\ h = "stop" <=> stopper = "handler" /\ stopAt # "done"
  /\ sig = "stop" <=> stopper = "signal" /\ stopAt # "done"
  /\ h = "sendStop" => stopAt = "done" \/ stopper = "signal"
  /\ sig \in {"killSleep", "sendStop"} => stopAt = "done" \/ stopper = "handler"
  /\ EndsByStop

\* The doneC that the pusher is yet to use is that of the invocation that awaits it, or of
\* one that has timed out.
DoneAwaited ==
  doneC # 0 /\ pc \notin {"stopped", "exited"} =>
    doneC \in timedOut \/ (doneC = inv /\ h \in {"processorInvoke", "await"})

IndInv ==
  /\ TypeOK /\ P!IndInv /\ R!IndInv
  /\ EventsOnTheWay /\ Known /\ TimedOutOnly /\ AskedOnce /\ DoneAwaited
  /\ StopStages /\ WhoStops

-----------------------------------------------------------------------------
(***************************************************************************)
(* What is inductive together with IndInv as long as nothing has disturbed *)
(* it; module FlightProofs uses it.                                        *)
(***************************************************************************)

\* The flush goroutines that run.
InAir == {f \in Flushes : flush[f].at # "idle"}

\* Without timeouts there is one flush at a time, and an invocation waits for it; so none
\* is left when the next invocation comes, whose doneC it would use.
OneFlight ==
  cause # "stop" =>
    /\ \A f, g \in InAir : f = g
    /\ InAir # {} => doneC # 0
    /\ pc = "signal" => InAir = {}

\* The context that run has is that of the invocation whose doneC it has.
OwnContext == cause # "stop" /\ doneC # 0 => ctx = doneC /\ cause # "ctxDone"

\* Without FlushAtNextInvoke, the end of an invocation reaches the pusher while it holds
\* the doneC of the same invocation, and nothing but this end releases it.
EndAwaited ==
  ~FlushAtNextInvoke /\ cause # "stop" =>
    /\ requestID # 0 \/ h = "processorInvoke" => doneC # 0 /\ InAir = {} /\ pc # "signal"
    /\ requestID # 0 => requestID = inv
    /\ InAir # {} \/ pc = "signal" => doneC \in announced

\* The payload of the flush in the air is older than the buffer that it may come back to.
FlightIsOlder ==
  cause # "stop" =>
    \A f \in InAir :
      /\ Increasing(flush[f].payload)
      /\ \A j \in P!Range(flush[f].payload), k \in P!Range(buf) : j < k

Flights ==
  OneFlight /\ OwnContext /\ FlushContext /\ EndAwaited /\ FlightIsOlder /\ InOrder

\* The records that a push has been called for and not tried yet.
Trying ==
  P!Range(payload) \cup
    UNION {P!Range(flush[f].payload) : f \in {g \in Flushes : flush[g].at \in {"new", "push"}}}

\* What was to be flushed for an invocation is no longer in the buffer, unless it came
\* back.
Tried ==
  /\ P!Given \subseteq attempted
  /\ \A i \in Invocations : 1..due[i] \subseteq attempted \cup Trying

\* Unless waitSignals does it, handleInvocations stops the extension, between two
\* invocations.
HandlerStops ==
  /\ stopping => h \in {"stop", "sendStop", "gone"}
  /\ cause = "stop" => InAir = {}

\* The server is closed only when no request is left.
ServerDrains == server = "closed" => \A k \in Handlers : posted[k] = Idle

\* Each of these under the condition that it needs.
CourseInv ==
  /\ timedOut \subseteq 1..inv /\ due \in [Invocations -> Nat]
  /\ timedOut = {} => Flights
  /\ timedOut = {} /\ stopper # "signal" => HandlerStops /\ Tried
  /\ DoneMeansFlushed
  /\ ServerDrains

-----------------------------------------------------------------------------
(***************************************************************************)
(* The same about the events on their way; module EventProofs uses it.     *)
(***************************************************************************)

\* What is recorded of a request, and has not gone astray, is well formed, and no report
\* of it is recorded while the function runs.
FormKept ==
  \A e \in OnTheWay :
    /\ e.req <= inv
    /\ e.form = "ok" \/ (e.type \in {"runtimeDone", "report"} /\ e.req \in astray)
    /\ e.req = inv /\ fn # "idle" => e.type # "report"
    /\ e.req = inv /\ fn = "running" => e.type # "runtimeDone"

\* Until its report is processed, the end and the report of a request that has begun are
\* yet to come.
EndKept ==
  \A i \in Invocations : durations[i] = "started" \/ Coming("start", i) =>
    Coming("runtimeDone", i) \/ (i = inv /\ fn = "running") \/ i \in astray
ReportKept ==
  \A i \in Invocations :
    durations[i] # "absent" \/ Coming("start", i) => ReportComes(i) \/ i \in astray

\* A message is processed to its end before the next one is received.
BatchOver == rpc # "batch" => batch = <<>>

\* Holds for any number of requests at one time.
AstrayInv == BatchOver /\ FormKept /\ EndKept /\ ReportKept /\ SpansRight

(***************************************************************************)
(* The rest holds if the producer handles one request at a time.           *)
(***************************************************************************)

\* The events on their way, the next one first.
Queue(k) == batch \o Sending(k) \o stream

\* The order in which the platform records the events of one invocation.
Phase(type) ==
  CASE type = "start" -> 0
    [] type = "function" -> 1
    [] type = "runtimeDone" -> 2
    [] type = "other" -> 3
    [] type = "report" -> 4

Precedes(d, e) ==
  \/ d.req < e.req
  \/ d.req = e.req /\ Phase(d.type) < Phase(e.type)
  \/ d.req = e.req /\ d.type = e.type /\ d.type \in {"function", "other"}

\* They are well formed and in order, and none is about what has not happened yet.
QueueInOrder(k) ==
  /\ \A j \in DOMAIN Queue(k) :
       LET e == Queue(k)[j] IN
       /\ e \in R!Event /\ e.form # "bad" /\ e.req <= inv
       /\ e.req = inv /\ fn = "running" => e.type \in {"start", "function"}
       /\ e.req = inv /\ fn = "ended" => e.type # "report"
  /\ \A i, j \in DOMAIN Queue(k) : i < j => Precedes(Queue(k)[i], Queue(k)[j])

\* Nothing more comes of the function in invocation i.
FunctionOver(k, i) ==
  /\ i < inv \/ (i = inv /\ fn # "running")
  /\ \A j \in DOMAIN Queue(k) :
       LET e == Queue(k)[j] IN e.req > i \/ (e.req = i /\ e.type \in {"other", "report"})

\* That is so when the end was processed, and an invocation that has returned was
\* announced.
AnnouncedIsOver(k) ==
  /\ doneFlag => FunctionOver(k, requestID)
  /\ \A i \in announced : FunctionOver(k, i)

ReturnedIsAnnounced ==
  cause # "stop" => \A i \in 1..inv :
    i \in announced \/ (i = inv /\ h \in {"pusherInvoke", "processorInvoke", "await"})

\* Each of these under the condition that it needs.
EventInv ==
  \A k \in Handlers : Handlers = {k} =>
    /\ QueueInOrder(k) /\ AnnouncedIsOver(k)
    /\ timedOut = {} /\ ~FlushAtNextInvoke => ReturnedIsAnnounced /\ NeverMisattributed

\* Together with IndInv, all that has to be known of a state to know it of the next.
FinerInv == CourseInv /\ AstrayInv /\ EventInv

=============================================================================
