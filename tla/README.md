# A TLA+ model of the Edge Delta Lambda extension

The extension (Go, `main.go` and four packages) runs beside a Lambda function.  It
receives the function's telemetry over HTTP, turns it into log records, buffers them
and pushes them to a backend at the end of each invocation, or at the start of the next
one when `ED_FLUSH_AT_NEXT_INVOKE` is set.  It is five long-lived goroutines on
unbuffered channels, short-lived goroutines that push, and contexts that run out.  All
the difficulty is in how these meet; that is what is modelled, checked with TLC and proved
with TLAPS: every safety property of a passing run is also a theorem, for all values of
the constants, or all that a stated premise about what goes wrong allows.  Where a property
fails once something has gone wrong, it says itself what that must have been, so that most
theorems need no premise.

## Inventory

| Component | Code | State | Operations | Talks to |
|---|---|---|---|---|
| pusher | `pushers/pusher.go` | the buffer, `ctx` and `doneC` of the last invocation, flushes in flight, `forceFlushing` | `run` (a select of seven cases), `flush`, `push`, `Invoke`, `Stop`, `ForceFlush` | backend (HTTP or Firehose); processor (`inC`, `runtimeDoneC`); worker (`invokeC`, `doneC`, `stopC`, `stoppedC`, `forceFlushing`) |
| processor | `pushers/processor.go` | `runtimeDone`, the current request id (`faasObj`), `requestDurations`, the message being built | `run`, `handlePlatformEvent`, `process...`, `Invoke`, `Stop` | producer (`inC`), pusher (`outC`, `runtimeDoneC`), worker |
| producer | `handlers/producer.go` | the HTTP server, one goroutine per request | `Start`, `handleLogs`, `Shutdown` | Telemetry API, processor |
| worker | `main.go` | the flag `stopping`; where `handleInvocations`, `waitSignals` and `main` are | `Invoke`, `Stop`, the loop over `NextEvent` | Extensions API, signals, all the above |
| start-up | `main.go` 37-127, `lambda/extension_api.go` | the step it is at, the context of `InitTimeout` | `startExtension`, `Register`, `InitError`, `Subscribe` | Lambda APIs |
| retry | `utils/helpers.go` | elapsed time, interval | `DoWithExpBackoffC` | used by `push` |
| configuration | `cfg/config.go` | none | `GetConfigAndValidate` | environment |
| API client | `lambda/*.go` | none | HTTP and JSON | Lambda APIs |
| pool | `utils/pool.go` | | unused by the program | |

What makes each component correct:

- *pusher*: no record vanishes unnoticed or is sent twice after an acknowledgement; a
  failed flush comes back, in order; `run` never sends on a nil or used `doneC`; an
  invocation is released after its flush and not before; `Stop` and `ForceFlush` are
  answered.
- *processor*: the end of a request is announced once, after its records were handed
  over, and never for another request; a record never carries the id of another request;
  durations are computed from times that were set.
- *producer*: events handed over once, or refused as a whole; Shutdown drains.
- *worker*: every invocation comes back to `NextEvent`; the components are stopped once
  and in the right order whoever asks; the process ends.
- *retry*: a push returns in time; it reports success only for what the backend took; a
  payload that comes back lacks whole records only.
- *configuration*, *start-up*: the pusher gets the endpoint of its mode; a start that
  fails is reported as what it was, once, or it is known why not; it stops what it had
  started.

What is hard here: unbuffered sends between goroutines that wait for each other; an
invocation that gives up while others still hold its channel; flush responses that
arrive after the world has moved on; a closure that reads a variable which its maker
goes on to assign; telemetry that is late, repeated or in an unexpected order; two
callers of `Stop`.  The full list, with lines, is `hazards` in `PROJECT.json`.

## Modules

| Module | Models | EXTENDS / INSTANCE |
|---|---|---|
| `LogPipe` | what a pusher promises about records, abstractly; its theorem | |
| `Payload` | the cut of an oversized payload (`flush`, 279-289), byte by byte | |
| `Pusher` | `Pusher.run` and the goroutines of `flush` | extends `Payload`; `Pipe == INSTANCE LogPipe` (refinement mapping) |
| `Push` | one call of `push`: requests, timeouts, backoff, in discrete time | |
| `Flush` | a push with what its caller does with the outcome | extends `Push`, `Payload` |
| `Processor` | `Processor.run` and what it calls | |
| `Producer` | `handleLogs`, and how `Shutdown` drains | |
| `Worker` | `handleInvocations`, `Invoke`, `Stop`, `waitSignals`, `main` | |
| `Platform` | the Lambda platform as the code relies on it (external) | |
| `Extension` | the composition along `NewWorker`'s channels | extends the last three, instantiates `Pusher` and `Processor` |
| `Server` | the field `server` of the producer and those who read and set it | |
| `Config` | `GetConfigAndValidate`, and the endpoint that `NewPusher` takes | |
| `StartUp` | `startExtension`, the Lambda calls it makes, and the server's life up to the end of `Stop` | extends `Config`, `Server` |
| `PusherProofs`, `ProcessorProofs`, `FlushProofs`, `StartUpProofs` | proofs about the module of that name | each extends its module |
| `ExtensionProofs` | the composition, whatever goes wrong | extends `Extension`, instantiates `PusherProofs` and `ProcessorProofs` |
| `FlightProofs` | the composition until an invocation times out: flushes and what they leave | extends `ExtensionProofs` |
| `EventProofs` | events on their way, with any number of handlers, and their order when the producer handles one request at a time | extends `FlightProofs` |
| `MC...` | symmetry sets and small instances for TLC | |

All channels but `forceFlushing`, the reply of `ForceFlush` and the one for signals are
unbuffered.  A send and the receive that meets it are one step, so in `Pusher` and
`Processor` an action `Recv...` or `Send...`/`Signal...` is one goroutine's half, and
`Extension` conjoins it with the other half: `RecordsTaken` is `R!SendOut /\
P!RecvLogs(Len(out))`, the processor's `p.outC <- buf.Bytes()` with the pusher's
`case b := <-p.inC`.  In `Pusher`'s and `Processor`'s own `Next` the other half is any
environment that uses the channels as the program does.  That the program does is
checked: `UsesPusher` and `UsesProcessor` say that `Extension` implements `P!Spec` and
`R!Spec`.  They hold only because of what `Worker` does: no `doneC` is handed over
twice, a force flush comes once, after its context is done.

*State and code.*  `Pusher!pc` is where `run` is: in its select, in a synchronous
`p.push`, blocked on `doneC`, blocked on `stoppedC`, returned; `cause` is the select
case.  `ctx` and `doneC` are the variables of `run`, as the invocation they belong to.
`flush[f]` is one goroutine of `p.flush`: started, pushing, or blocked on `flushRespC`.
`forceFlushing` is a sequence because that channel has capacity 1.  Records are numbers
in order of receipt.  `Processor!rpc`, `batch`, `doneFlag`, `requestID`, `durations`
are the program counter, the rest of the message, `runtimeDone`, `faasObj.RequestID`
and `requestDurations`.  `Worker!h`, `sig` and `stopAt` are program counters.  History
variables (`accepted`, `attempted`, `sent`, `lost`, `trimmed`, `signalled`,
`announced`, `timedOut`, `due`, `astray`, ...) record what happened and guard no step of the
code; the environment of a stand-alone module uses `invoked` and `assigned` to hand
over each invocation once.

*Data.*  In `Pusher` all records have one size, `RecordBytes`, so that the trimming of an
oversized payload is arithmetic on lengths: `RecordsDropped`.  That this arithmetic is
right for equal records, and what the loop does for unequal ones, is checked of the bytes
in `Flush` (`CutCountsRecords`, `WholeRecords`).  Every payload ends with a separator,
because the processor writes one behind each record, so the loop never runs to the end
without finding one: the cut is always between records.  An event is its type, request
and form: `ok`, `partial` (its time, or a report's `durationMs`, is not valid), `unbilled` (a
report without `billedDurationMs`) or `bad`.  A record has the request ids of its `faas` object
and of its message; a metric's runtime duration is `right`, absent, or `garbage`: computed from
an `End` that was never set, or from a `billedDurationMs` of 0 that nobody sent
(processor.go:313).

*What goes astray.*  `astray` are the invocations whose end or report was lost (the producer
answered 400, or panicked on the closed `inC`), lacked its time or its durations, or was
processed before an event of the same request that comes before it: with two handlers, net/http
decides the order (`Overtakes`).  `SpansRight` and `DurationsFreed` say that it takes one of
these for a duration without an `End` or without a bill, or for an entry that stays.

*Time.*  `Push` counts time units since the call.  A step that is due is taken before
the clock ticks, so a bound on `now` says when the code returns if the machine is not
slow.  Lambda freezes the sandbox with all goroutines between invocations; the clock is
that of the running sandbox.  `limit` is `MaxElapsedTime`, which the backoff library
looks at after a failed attempt only; its random interval is any of its range.

*What `Flush` justifies in `Pusher`.*  There a push is one step.  That it ends is
`FlushEnds`; that a flush whose context (`under`) was done when it began cannot succeed
(`FlushOk` needs another) is `DoneNeverSends`; that success means acknowledgement is
`OkMeansTaken`.  The converse does not hold: a request may fail although the backend took
it, and its records are then sent again.  A push whose context runs out in the middle may
fail, or have succeeded before: `MayFail` of `Extension` allows both.

*Start.*  `StartUp` chooses an environment at the start.  Each Lambda call succeeds or
fails, and fails if the context of `InitTimeout` is done; `GetFunction` is not made under
it.  Two steps can panic, which ends the process without an `InitError`: `GetFunction` for a
function without `Runtime` (main.go:108), and `NewPusher` in the kinesis mode, by
`session.Must` (pusher.go:104).  `told` is what `InitError` told the API, in order, so that
"once" can be checked.  From `worker.Start()` on the goroutine of `ListenAndServe` runs
beside it and after it, until `Stop` is over.

*Races.*  `Shutdown` reads `p.server` twice and sets it without a lock; `Server` takes each
of these accesses as a step.  The closure given to `utils.Go` reads `ctx` when it runs, while `run` may have
assigned it again: `FlushStart` reads the current value at any later time.  A torn read
of the two words of the interface value is not modelled.

*The end.*  `server.Shutdown` may return while a handler still reads a request
(`"abandoned"`); that handler sends later, on a channel that the processor closes, and
panics, which net/http recovers.  When `main` returns, everything stops.  The platform's
SIGKILL is not modelled: it can come at any state, and nothing is persisted.

## Runs

| Run | Instance | Shows | Distinct states |
|---|---|---|---|
| `pusher_end` | default mode, 2 invocations, 2 flushes at one time, 3 records, `BufferSize` 10, `RecordBytes` 6 | where every record is, after any interleaving; `Pusher` implements `LogPipe` | 2.2 M |
| `pusher_invoke` | `FlushAtNextInvoke`, 2 invocations, 1 flush, 1 record, fairness | the inductive invariant of the proofs; a force flush is answered and a failed flush returns unless `run` is stuck on a send | 6 k |
| `processor` | 2 requests, messages of up to 2 arbitrary events | announcements, whatever is delivered; the inductive invariant of the proofs | 156 k |
| `extension_end` | default mode, 3 invocations, pushes may fail, fairness | every invocation comes back, records are attributed rightly, the shutdown is complete; `FinerInv`, the invariant of `FlightProofs` and `EventProofs` | 155 k |
| `extension_invoke` | `FlushAtNextInvoke`, 2 invocations, 2 flushes, pushes may fail, ignored events | an invocation is released after what was buffered at its start was pushed; a flush has the context of the invocation that waits for it; the order in the buffer | 3.3 M |
| `extension_timeouts` | default mode, 2 invocations that may time out | the pusher is stuck on an abandoned `doneC`, in `Stop` too, only after a timeout; a response can release an invocation that is not its own only behind one that timed out; `Pusher` and `Processor` are used as they suppose | 680 k |
| `extension_stop` | 1 invocation, 2 handlers, signals, failing `NextEvent`, timeouts, early ends, lost messages, invalid times, incomplete reports, Shutdown that gives up, function that crashes | `Stop` runs once, takes the components down in order and, from a shutdown event without a timeout, leaves nothing; no handler is caught by the close of `inC` unless `Shutdown` gave up; who may end the process; what it takes for a wrong duration or an entry that stays; the inductive invariant of the proofs | 1.1 M |
| `flush` | each caller of `push`; limits of 4, 1, 0 and -1, a timeout of 0 or 2 for a request, payloads of up to 3 records of 2 or 12 bytes, buffer sizes -10 to 20, fairness | when a push returns and what its outcome says, what comes back to `run`; the inductive invariant of the proofs | 780 k |
| `start` | every environment, with 2 of the 6 numeric variables, every step failing or panicking where it can, the context running out anywhere | what the API is told of a failure, and when it is told nothing; the endpoint, the server shut before the processor is stopped; the inductive invariant of the proofs | 480 k |
| `circular_wait` | `FlushAtNextInvoke`, 2 invocations, nothing goes wrong | **violated**: see Findings | |
| `end_missed` | 1 invocation, an ignored event behind the end | **violated** | |
| `failed_flush` | 1 invocation, pushes may fail | **violated** | |

`Allowed` says what may go wrong in a run of `Extension`.  A property that something can void
names it, by the histories `timedOut` and `astray` or by `stopper`, so that it is checked
where that happens: `DoneMeansFlushed` and `OrphanTimedOut` with timeouts, `GracefulExit`
with all that a shutdown can meet, `SpansRight` and `DurationsFreed` with two handlers and
lost messages.  `InOrder`, `NeverMisattributed` and the two liveness properties do not: they are
checked where nothing times out and one handler posts, and a passing run without a condition is not
evidence for it.  In particular `InvocationReturns` fails with timeouts in the default mode too: a
response that comes after an invocation has given up leaves `run` blocked at
pusher.go:222.

*Bounds.*  `LastInvocation` (or `Invocations`): two are needed for anything stale to
meet something new, three for a response to skip one.  `Flushes`: at one time; two are
needed for responses to overtake each other.  When no name is free, `StartFlush` waits,
where the code would start one more; that happens in `pusher_end` and `pusher_invoke`
only.  In the runs of `Extension` a flush is started once per invocation, and there are
as many names as invocations, or (`extension_end`) nothing times out and each flush is
awaited before the next.  `Totals` (how many records
there may ever be) up to 3 with a buffer size of 10 bytes and records of 6 makes payloads of one record (kept) and of two
or three (trimmed).  `MaxLogs` (function records of an invocation) 0 or 1: start, end
and report make records too.  `MaxPost`, `MaxEvents`, `MaxBatch`: 2 or 3, so that a
message can end behind, at or before the end of a request.  In
`flush` the limits are shorter and longer than a request's timeout and than the first
interval, the interval reaches `MaxInterval`, and a push without a limit goes on for
`MaxTime`; record sizes are below and above a tenth of the buffer size.  In `start` two
numeric variables stand for six, which the code treats alike.  The bounds are in guards
and constants only; the proofs have none, but for `flush`, where `MaxTime` only stops the
clock of a push without a limit.

*Deadlock* is checked in `extension_end`, where every behaviour must end with the
process.  Elsewhere the system may really stop: the environment of a stand-alone
component falls silent, `run` returns, a timeout leaves goroutines blocked.

*Fairness.*  `Pusher`: a push ends, because `DoWithExpBackoffC` has a timeout and each
request has one (weak fairness); a goroutine that can run runs (weak); Go's select
picks at random among the ready cases, so a case that is ready again and again is taken
(strong fairness on the select cases that need nobody else).  `Extension`: as long as
some goroutine or the platform can go on, one does, that is, weak fairness of the
disjunction of all steps but a signal and a failing `NextEvent`, which need not
happen.  `Flush`: the clock ticks and a goroutine that can run runs; that the context
ends is not assumed.  The fairness of `Extension` is weaker than fairness per goroutine; it is enough because no behaviour
goes on for ever (every step consumes an event, an invocation or a stage of `Stop`).
That `Timeout` is among these steps is justified by the clock.  `StartUp` has none: it
states no liveness, since each of its calls may hang for as long as its context lets it.

*Mutants.*  Each property of a passing run has a mutated definition, named after the
bug it makes and placed before the original with a comment `Mutation:`.

## Proofs

Each proof is for every value of the constants that the named assumption of the module
allows.

`PusherProofs`, from `PusherAssumption` (any number of invocations, flushes and records,
any buffer and record size, both modes):

- `Inductive`: `IndInv` is an invariant.  `TypeOK` alone is not inductive: `SignalDone`
  adds `doneC` to `signalled`, which is well typed only if `doneC` is set; `DoneFresh`
  says that it is, and that it was not used.  `OneHolder` needs `Numbered`, since the
  records of a new message are fresh only if all older ones have lower numbers.
  `StopEmptiesBuffer` needs `StopKeepsEmpty`: the buffer stays empty from the `stopC`
  case on.
- `TypeCorrect`, `SignalsOnce`, `OneHolderHolds`, `StopEmpties`: its consequences.
- `Implementation`: `Pusher` implements `LogPipe` under the mapping `held <- Held`,
  `dropped <- lost \cup trimmed`.  Each step accepts (`RecvLogs`), delivers (`PushOk`,
  `FlushOk`), drops (`PushFail`, `FlushFail`) or moves records between holders, which
  the pipe does not see.
- `PartitionInPusher`: with `LogPipe!PartitionHolds`, `Partition` follows.

The lemmas below them are about sequences without repetitions: `Concatenation`,
`NewRecords`, `Trimming` (what a suffix of a payload keeps).

`ProcessorProofs`, from `ProcessorAssumption`: `Inductive`, `TypeCorrect`, `FlagCorrect`,
`AnnouncedOnce`.  The invariant adds that what was announced was received before; without
it a request could become current after its announcement.

`FlushProofs`, from `PushAssumption` and `FlushAssumption` (any timeouts, intervals,
payloads of whole records and buffer sizes): `Inductive`, `TypeCorrect`, `EndsByLastMoment`,
`SentMeansTaken`, `NothingWhenDone`, `CutsWholeRecords`, `CutCounted`.  The
bound on the time needs a bound on the last wait, and that one on the interval:
`IntervalIsTime` says that the interval has grown by no more than the time that has passed,
because each wait is at least half of it and it grows by half.  So a wait that begins by
the limit ends by `LastWake`, and the request after it by `LastMoment`.  `CutCounted` is
what lets `Pusher` count records where the code scans bytes: for records of one size the
first separator at or behind the wanted cut is that of record
`RecordsDropped(size, bufferSize)`, for any size.

`StartUpProofs`, without an assumption (every environment, any set of numeric variables):
`Inductive`, `TypeCorrect`, `FailureIsReported`, `ServerShutFirst`, `EndpointAgrees`,
`ShutdownTwice`.  `FailureReported` is about every end of the process: the API was told the
type of error that belongs to the step that failed, once, or one of four reasons is there why
it was told nothing.  It is not inductive, because the exit is many steps behind
the failure: `Progress` says what `main` has at each step (a valid configuration, a worker, the
type of error that it is to report), where nothing has failed yet, and that nothing is told
before the end.  `FunctionErrorType` is the table of step and error; each error path names its
own type, as in the code.  The properties of the server need `ServerStates`: `Shutdown` forgets the
server only after it was shut down, so what another caller can see in between is either
the server or, only if the two overlap, nil.  `EndpointAgrees` is that of `ValidEndpoint`, a
fact about `GetConfigAndValidate` in every environment.

`ExtensionProofs`, from `ExtensionAssumption` (any number of invocations, handlers,
flushes, events, both modes, and every choice of what may go wrong):

- The components are used as they suppose only because of the composition, and the
  composition is well behaved only because of the components, so both are one induction:
  `IndInv` of `Extension` contains `P!IndInv` and `R!IndInv`.  `PusherSteps` and
  `ProcessorSteps` show that a step of the extension is one of the component or leaves it
  alone; from there the component's own proof does the rest (`PusherKeeps`,
  `ProcessorKeeps`, by the proofs of the component's module, instantiated).
- What that takes: `EventsOnTheWay` (a handler is blocked on a message as the processor
  supposes it; the records of one message at a time), `Known` (an invocation is handed to
  each component once), `TimedOutOnly` and `AskedOnce` (a force flush is asked for once,
  under a context that is done), `StopStages` (how far each component is stopped at each
  stage of `Stop`), `WhoStops`, `DoneAwaited`.
- `UsesPusherHolds`, `UsesProcessorHolds`: `Extension` implements `P!Spec` and `R!Spec`, so
  all that is proved of the components holds in the composition.  `EveryRecordAccounted`
  is what this gives for the records.
- `TypeCorrect`, `OneStopHolds`, `EndsByStopHolds`, `StopsProcessorFirst`,
  `OrphansTimedOut`: the consequences of `IndInv`.

`FlightProofs` and `EventProofs` are about what an undisturbed course of events promises.  From
the same assumption they prove `CourseInv`, `AstrayInv` and `EventInv`, which are inductive
together with `IndInv`; each part is an implication whose premise says what has not gone wrong
so far, so that every theorem has the weakest premise that it needs.

| Theorem | States | Premise | Condition within the property |
|---|---|---|---|
| `DoneIsFlushed` | `Spec => []DoneMeansFlushed` | none | the invocation, and those before it, did not time out; no signal's Stop |
| `FlushHasItsContext` | `Spec => []FlushContext` | none | no timeout so far; before the last flush of `Stop` |
| `ExitsGracefully` | `Spec => []GracefulExit` | none | for what is held: no timeout, and Stop by a shutdown event; for the handlers: `Shutdown` did not give up |
| `SpansAreRight` | `Spec => []SpansRight` | none | the request did not go astray |
| `DurationsAreFreed` | `Spec => []DurationsFreed` | none | the request did not go astray |
| `BufferInOrder` | `Spec => [](timedOut = {} => InOrder)` | none | no timeout so far |
| `NobodyWaitsInCircle` | `Spec => [](timedOut = {} => NoCircularWait)` | default mode | no timeout so far |
| `NeverMisattributes` | `Spec => [](timedOut = {} => NeverMisattributed)` | one handler, default mode | no timeout so far |

Everything else that `Allowed` names may go wrong, with any number of invocations, handlers,
flushes and events.  With two invocations TLC finds a counterexample to each of the last three when
any one item of premise or condition is dropped (a failing push comes with the timeout in the
case of `InOrder`), and to the others when the condition is, so none is there for the proof's
sake.

- `CourseHolds`.  Without a timeout the pusher holds a `doneC` only while its invocation
  waits, and one flush is in the air at a time (`OneFlight`), under that invocation's context (`OwnContext`,
  and with it `FlushContext`: between two assignments of `ctx` no closure that captured it is
  left to run); `EndAwaited`: in the
  default mode the end of a function reaches the pusher while it holds that function's
  `doneC`.  So a payload that comes back is older than all that was buffered meanwhile
  (`FlightIsOlder`), which is why the requeue of the `flushRespC` case keeps `InOrder`.
  `Tried` says where records that are due are: pushed at least once, or on their way to
  it; with `Partition` of the pusher it gives `DoneMeansFlushed`.  `HandlerStops` and
  `ServerDrains` say that a shutdown begins between invocations and waits for the handlers.
- `NobodyWaitsInCircle` is the other side of Finding 1: in the default mode the circle
  cannot close, because while `Invoke` is at the processor the pusher has nothing to tell
  it.  With a timeout this fails too: a flush of an earlier invocation comes back, the
  pusher signals the new `doneC`, and the circle of Finding 1 closes.
- `AstrayHolds`, for any number of handlers.  The events on their way are a set: the rest of
  the message at the processor, those that handlers send, and what the platform has not posted
  (`OnTheWay`).  As long as a request has not gone astray, its end is among them, or yet to be
  recorded, from its start until its end is processed (`EndKept`), and its report until its
  entry is deleted (`ReportKept`); `FormKept` says that an invalid time or an incomplete
  report is counted as astray.
  So an event that would break this order is one that `Overtakes`, or was lost.
- `EventsHold`, for one handler.  What is on its way is then one sequence (`Queue`), always in
  the order in which the platform recorded it
  (`QueueInOrder`), and a step takes from its front or adds at its end.  Hence nothing of
  a function comes behind its announced end (`AnnouncedIsOver`).  In the default mode an
  invocation returns only after its end was announced (`ReturnedIsAnnounced`), which makes
  the current request that of every function event (`NeverMisattributed`).
- That the producer handles one request at a time, for `NeverMisattributes`, is a premise that the code does not
  enforce: net/http runs a goroutine for each request, and `handleLogs` does not order
  them.  It holds if the Telemetry API waits for an answer before it posts again.

Only model-checked: liveness (`ForceAnswered`, `FlushReturns`, `InvocationReturns`,
`ShutdownCompletes`, `FlushEnds`), which needs fairness and ENABLED, and is out of the
prover's reach.

## Findings

1. `circular_wait`.  With `ED_FLUSH_AT_NEXT_INVOKE`, `Worker.Invoke` hands the
   invocation to the pusher and then to the processor (main.go:165-166).  With an empty
   buffer the pusher answers on `doneC` inside that select case (pusher.go:204); the
   worker receives it only after `processor.Invoke`.  If the processor is just sending a
   message on `outC` (processor.go:148), it needs the pusher: worker waits for
   processor, processor for pusher, pusher for worker.  It takes one message of telemetry, such as the
   one with `platform.start`, at the start of the first invocation.  The deadline does
   not help, because the worker is not in its select.  `extension_invoke` therefore
   checks safety only.  In the default mode the same circle closes only after a timeout
   (`NobodyWaitsInCircle`).
2. `end_missed`.  In a message, an event that is not the function's overwrites
   `runtimeDone` (processor.go:136), so one behind `platform.runtimeDone` hides the end
   and nothing is flushed at it; README.md:56 says it is.
3. `failed_flush`.  Only `Pusher.flush` returns what it could not send.  The synchronous
   pushes (pusher.go:168, 190, 229, 245) discard it when their short timeout is over;
   README.md:58 says failed flushes are retried at the next flush time.

Seen while modelling, without a run of their own:

- README.md:58 says "Flushes are restricted to 5 seconds at most", and README.md:41 that
  ED_PUSH_TIMEOUT_SEC is the total time for one batch.  The 5 s of `flush` are looked at
  between attempts only, and ED_PUSH_TIMEOUT_SEC bounds each attempt: `EndsInTime` gives
  the bound that holds, about 18 s with the defaults.
- With a deadline that leaves exactly nothing, `Stop` passes 0, which the backoff library
  takes for no limit (`GivesUp` of `Push`).  With ED_PUSH_TIMEOUT_SEC=0 every request is out of time at once and
  no push succeeds.
- README.md:43 calls ED_BUFFER_SIZE_MB the maximum; only a payload that has failed is cut,
  by a tenth of it, whatever its size.  A negative value makes the cut panic
  (`WholeRecords`), which ends the process.
- The comment at config.go:62 says that an invalid PUSHER_MODE defaults to HTTP; it is
  also an error, and the start fails.
- A function of a container image has no `Runtime`: with ED_FORWARD_LAMBDA_TAGS the
  dereference at main.go:108 panics (`GetFunction` goes to `"panicked"`).  So does
  `session.Must` at pusher.go:104 when the kinesis mode gets no AWS session (`StartWorker`).
  Both ends are unknown to the API: `FailureReported` lists them.
- A report with `durationMs` but without `billedDurationMs` makes the metric's runtime duration
  that of a bill of 0 (processor.go:313; `SpanOf`, and `SpansRight` in `extension_stop`).
- A message that is answered 400 (producer.go:54, 61) is gone with the end or the report in it:
  the invocation is not announced, or its entry of `requestDurations` stays.
- When a Stop of `waitSignals` is under way, `handleInvocations` gets `false` from its own
  and ends the process without waiting (`EndsByStop`).
- `p.server` is read and set without a lock.  `SecondShutdownHarmless` says when that can
  dereference nil: two calls of `Shutdown` at one time, or a `Stop` before the goroutine of
  `Start` has run.
- `InitError` is a GET without an extension id when `Register` failed; whether the platform
  takes it is outside the repository (`refused`).

## Not modelled

- That the platform posts again what was answered 400 or not at all is allowed by
  `Processor`'s own environment (any event, any number of times), but not by `Platform`, where
  a message that was refused is lost; one that the platform does send again is one not posted
  yet.
- `Platform` records starts with a valid time, and records that are objects: what the others
  do (no record, and for a start no entry of `requestDurations`) is in `Processor` only.
- In `Extension` the server is always there; its failures are in `StartUp`, where the
  processor and the pusher are not.
- The widths of the configured numbers: a huge ED_BUFFER_SIZE_MB overflows `int`, one of
  ED_LAMBDA_MAX_ITEMS is cut to 32 bits.  Neither is told from a number that was meant.
- `ED_LAMBDA_LOG_TYPES` without `platform` leaves the processor without ends and reports,
  and nothing is flushed before a timeout or `Stop`; `Platform` always posts both.

What a further stage could add: which records can be misattributed with two handlers, and for
how long after a timeout; the order of two flushes that both come back (pusher.go:217).  Both
are hazards without a property, like the other entries of `hazards` with a note: a function's
end before its invocation is known (processor.go:182), a request that failed although it was
taken (pusher.go:276), the buffer without a limit (pusher.go:150), and the answer of a force
flush that came too late (pusher.go:258), which the form of a select statement settles.

Left out for good: the JSON text of records, the HTTP and Firehose clients (a push
succeeds or fails), logging, tags, the unused pool, build and release scripts.
