-------------------------------- MODULE Pusher --------------------------------
(***************************************************************************)
(* The pusher (pushers/pusher.go): the goroutine of Pusher.run, which owns *)
(* the log buffer and serves seven channels in one select, and the         *)
(* goroutines of Pusher.flush that it starts.                              *)
(*                                                                         *)
(* The channels are unbuffered, so a send and the receive it meets are one *)
(* step.  An action named Recv... or Signal... below is the pusher's half  *)
(* of such a step; module Extension conjoins it with the half of the       *)
(* goroutine at the other end.  In this module's own Next the other end is *)
(* any environment that uses the channels as the program does, so what is  *)
(* proved here holds in the composition.                                   *)
(*                                                                         *)
(* A log record (one processed event and its separator) is its number in   *)
(* the order in which the pusher receives it.  All records have the same   *)
(* size, RecordBytes.                                                      *)
(***************************************************************************)
EXTENDS Payload, FiniteSets, Functions

CONSTANTS
  Invocations,        \* the invocations; each has its own context and doneC
  NoInvocation,       \* the nil doneC
  Background,         \* context.Background(), which is never done
  Flushes,            \* names for the flush goroutines that run at one time
  FlushAtNextInvoke,  \* ED_FLUSH_AT_NEXT_INVOKE
  BufferSize,         \* ED_BUFFER_SIZE_MB in bytes
  RecordBytes,        \* the size of one record in bytes
  MaxBatch,           \* bound: the records of one message on inC
  Totals              \* bound: how many records may have been received

ASSUME PusherAssumption ==
  /\ NoInvocation \notin Invocations
  /\ Background \notin Invocations \cup {NoInvocation}
  /\ FlushAtNextInvoke \in BOOLEAN
  /\ BufferSize \in Nat
  /\ RecordBytes \in Nat \ {0}
  /\ MaxBatch \in Nat
  /\ Totals \subseteq Nat

VARIABLES
  pc,             \* where Pusher.run is
  cause,          \* the select case it is executing
  buf,            \* the buffer
  payload,        \* what a synchronous push is sending
  ctx,            \* the variable ctx of run, shared with the flush goroutines
  doneC,          \* the variable doneC of run, as the invocation it belongs to
  flush,          \* the flush goroutines
  forceFlushing,  \* the channel of capacity 1, as the invocations that ask
  serving,        \* the invocation whose force flush is being executed
  reply,          \* the contents of the channels ForceFlush waits on
  ctxDone,        \* the invocations whose context is done
  invoked,        \* history: the invocations received on invokeC
  signalled,      \* history: the invocations whose doneC was sent on
  accepted,       \* history: how many records were received on inC
  attempted,      \* history: the records some push has tried to send
  sent,           \* history: the records the backend acknowledged
  lost,           \* history: the records discarded after a failed push
  trimmed         \* history: the records cut off an oversized payload

pusherVars ==
  <<pc, cause, buf, payload, ctx, doneC, flush, forceFlushing, serving, reply,
    ctxDone, invoked, signalled, accepted, attempted, sent, lost, trimmed>>

-----------------------------------------------------------------------------

Record == Nat \ {0}

\* "select": in the select of run; "push": in a synchronous p.push; "signal":
\* blocked sending on doneC; "stopped": blocked sending on stoppedC; "exited":
\* run has returned.
Label == {"select", "push", "signal", "stopped", "exited"}

Cause == {"none", "runtimeDone", "ctxDone", "invoke", "flushResp", "stop", "force"}

\* "idle": no such goroutine; "new": started, p.flush not yet called; "push":
\* in p.push; "resp": blocked sending its payload on flushRespC.
FlushLabel == {"idle", "new", "push", "resp"}

\* under: the context that flush was called with, or NoInvocation before that, and
\* also if that context was already done.
Flush ==
  [at : FlushLabel, under : Invocations \cup {Background, NoInvocation}, payload : Seq(Record)]

NoFlush == [at |-> "idle", under |-> NoInvocation, payload |-> <<>>]

\* A flush that holds its answer: its push is over, and the context with it.
Answering(rest) == [at |-> "resp", under |-> NoInvocation, payload |-> rest]

Done(c) == c \in ctxDone

\* The payload that flush returns after a failed push.  Module Flush shows that what is
\* cut there, byte by byte, is this number of records.
Trimmed(p) ==
  IF Len(p) * RecordBytes > BufferSize
  THEN SubSeq(p, RecordsDropped(RecordBytes, BufferSize) + 1, Len(p))
  ELSE p

Init ==
  /\ pc = "select"
  /\ cause = "none"
  /\ buf = <<>>
  /\ payload = <<>>
  /\ ctx = Background  \* cancelled only when run returns, after its last use
  /\ doneC = NoInvocation
  /\ flush = [f \in Flushes |-> NoFlush]
  /\ forceFlushing = <<>>
  /\ serving = NoInvocation
  /\ reply = [i \in Invocations |-> "none"]
  /\ ctxDone = {}
  /\ invoked = {}
  /\ signalled = {}
  /\ accepted = 0
  /\ attempted = {}
  /\ sent = {}
  /\ lost = {}
  /\ trimmed = {}

-----------------------------------------------------------------------------
(***************************************************************************)
(* Parts of the select cases.  Each sets a few of the variables and leaves *)
(* the others to the action that uses it.                                  *)
(***************************************************************************)

\* The case goes on to push the whole buffer synchronously.
PushSync(c) ==
  /\ pc' = "push"
  /\ cause' = c
  /\ payload' = buf
  /\ buf' = <<>>

BackToSelect ==
  /\ pc' = "select"
  /\ cause' = "none"

\* The case goes on to send on doneC.
SendDone(c) ==
  /\ pc' = "signal"
  /\ cause' = c

\* Mutation: the buffer is not replaced when its bytes go to a flush.
StartFlushKeepingBuffer ==
  /\ \E f \in Flushes :
       /\ flush[f].at = "idle"
       /\ flush' =
            [flush EXCEPT ![f] = [at |-> "new", under |-> NoInvocation, payload |-> buf]]
  /\ UNCHANGED buf

\* utils.Go("Pusher.flush", ...) on the whole buffer.
StartFlush ==
  /\ \E f \in Flushes :
       /\ flush[f].at = "idle"
       /\ flush' =
            [flush EXCEPT ![f] = [at |-> "new", under |-> NoInvocation, payload |-> buf]]
  /\ buf' = <<>>

\* Mutation: the context is set to nil instead of the background context.
ResetCtxToNil == NoInvocation

\* ctx = context.Background(), so that its Done is not selected again
ResetCtx == Background

\* Mutation: what arrived during the flush is overwritten.
RequeuedAlone(p) == p

\* Mutation: the payload that comes back goes last.
RequeuedLast(p) == buf \o p

\* The payload that comes back from a flush goes before what has arrived since.
Requeued(p) == p \o buf

\* The end of the stopC case: release the invocation, if any, then answer Stop.
FinishStop ==
  IF doneC # NoInvocation
  THEN SendDone("stop")
  ELSE pc' = "stopped" /\ cause' = "stop"

\* Mutation: a failed force flush is not answered.
ReplyIfOk(i, r) ==
  reply' = [reply EXCEPT ![i] = IF @ = "none" /\ r = "ok" THEN r ELSE @]

\* The reply to a force flush never blocks: its channel has capacity 1.
Reply(i, r) ==
  reply' = [reply EXCEPT ![i] = IF @ = "none" THEN r ELSE @]

-----------------------------------------------------------------------------
(***************************************************************************)
(* The cases of the select in run, up to the first point where they block. *)
(***************************************************************************)

\* case b := <-p.inC.  The n records of the message are new.
RecvLogs(n) ==
  /\ pc = "select"
  /\ buf' = buf \o [k \in 1..n |-> accepted + k]
  /\ accepted' = accepted + n
  /\ UNCHANGED <<pc, cause, payload, ctx, doneC, flush, forceFlushing, serving, reply,
                 ctxDone, invoked, signalled, attempted, sent, lost, trimmed>>

\* case <-p.runtimeDoneC
RecvRuntimeDone ==
  /\ pc = "select"
  /\ IF FlushAtNextInvoke \/ buf = <<>>
     THEN UNCHANGED <<pc, cause, buf, payload, flush>>
     ELSE IF Done(ctx)
     THEN PushSync("runtimeDone") /\ UNCHANGED flush
     ELSE StartFlush /\ UNCHANGED <<pc, cause, payload>>
  /\ UNCHANGED <<ctx, doneC, forceFlushing, serving, reply, ctxDone, invoked, signalled,
                 accepted, attempted, sent, lost, trimmed>>

\* case <-ctx.Done().  ctx is reset after the push.
CtxDone ==
  /\ pc = "select"
  /\ Done(ctx)
  /\ IF buf # <<>>
     THEN PushSync("ctxDone") /\ UNCHANGED ctx
     ELSE ctx' = ResetCtx /\ UNCHANGED <<pc, cause, buf, payload>>
  /\ UNCHANGED <<doneC, flush, forceFlushing, serving, reply, ctxDone, invoked, signalled,
                 accepted, attempted, sent, lost, trimmed>>

\* Mutation: the invocation is released before its flush has answered.
RecvInvokeAtOnce(i) ==
  /\ pc = "select"
  /\ ctx' = i
  /\ doneC' = i
  /\ invoked' = invoked \cup {i}
  /\ IF ~FlushAtNextInvoke
     THEN UNCHANGED <<pc, cause, buf, flush>>
     ELSE /\ SendDone("invoke")
          /\ IF buf = <<>> THEN UNCHANGED <<buf, flush>> ELSE StartFlush
  /\ UNCHANGED <<payload, forceFlushing, serving, reply, ctxDone, signalled,
                 accepted, attempted, sent, lost, trimmed>>

\* case inv := <-p.invokeC
RecvInvoke(i) ==
  /\ pc = "select"
  /\ ctx' = i
  /\ doneC' = i
  /\ invoked' = invoked \cup {i}
  /\ IF ~FlushAtNextInvoke
     THEN UNCHANGED <<pc, cause, buf, flush>>
     ELSE IF buf = <<>>
     THEN SendDone("invoke") /\ UNCHANGED <<buf, flush>>
     ELSE StartFlush /\ UNCHANGED <<pc, cause>>
  /\ UNCHANGED <<payload, forceFlushing, serving, reply, ctxDone, signalled,
                 accepted, attempted, sent, lost, trimmed>>

\* Mutation: only a failed flush releases the invocation.
RecvFlushRespIfFailed(f) ==
  /\ pc = "select"
  /\ flush[f].at = "resp"
  /\ buf' = Requeued(flush[f].payload)
  /\ flush' = [flush EXCEPT ![f] = NoFlush]
  /\ IF doneC # NoInvocation /\ flush[f].payload # <<>>
     THEN SendDone("flushResp")
     ELSE UNCHANGED <<pc, cause>>
  /\ UNCHANGED <<payload, ctx, doneC, forceFlushing, serving, reply, ctxDone, invoked,
                 signalled, accepted, attempted, sent, lost, trimmed>>

\* Mutation: a response is received only while an invocation waits for one.
RecvFlushRespIfAwaited(f) ==
  /\ pc = "select"
  /\ flush[f].at = "resp"
  /\ doneC # NoInvocation
  /\ buf' = Requeued(flush[f].payload)
  /\ flush' = [flush EXCEPT ![f] = NoFlush]
  /\ SendDone("flushResp")
  /\ UNCHANGED <<payload, ctx, doneC, forceFlushing, serving, reply, ctxDone, invoked,
                 signalled, accepted, attempted, sent, lost, trimmed>>

\* case failedPayload := <-flushRespC, from flush goroutine f, which ends
RecvFlushResp(f) ==
  /\ pc = "select"
  /\ flush[f].at = "resp"
  /\ buf' = Requeued(flush[f].payload)
  /\ flush' = [flush EXCEPT ![f] = NoFlush]
  /\ IF doneC # NoInvocation
     THEN SendDone("flushResp")
     ELSE UNCHANGED <<pc, cause>>
  /\ UNCHANGED <<payload, ctx, doneC, forceFlushing, serving, reply, ctxDone, invoked,
                 signalled, accepted, attempted, sent, lost, trimmed>>

\* Mutation: Stop does not flush.
RecvStopUnflushed ==
  /\ pc = "select"
  /\ FinishStop
  /\ UNCHANGED <<buf, payload, ctx, doneC, flush, forceFlushing, serving, reply, ctxDone,
                 invoked, signalled, accepted, attempted, sent, lost, trimmed>>

\* case timeout := <-p.stopC
RecvStop ==
  /\ pc = "select"
  /\ IF buf # <<>>
     THEN PushSync("stop")
     ELSE FinishStop /\ UNCHANGED <<buf, payload>>
  /\ UNCHANGED <<ctx, doneC, flush, forceFlushing, serving, reply, ctxDone, invoked,
                 signalled, accepted, attempted, sent, lost, trimmed>>

\* case forceFlushDoneC := <-p.forceFlushing
RecvForce ==
  /\ pc = "select"
  /\ forceFlushing # <<>>
  /\ forceFlushing' = Tail(forceFlushing)
  /\ IF buf # <<>>
     THEN /\ PushSync("force")
          /\ serving' = Head(forceFlushing)
          /\ UNCHANGED reply
     ELSE /\ Reply(Head(forceFlushing), "ok")
          /\ UNCHANGED <<pc, cause, buf, payload, serving>>
  /\ UNCHANGED <<ctx, doneC, flush, ctxDone, invoked, signalled, accepted, attempted,
                 sent, lost, trimmed>>

-----------------------------------------------------------------------------
(***************************************************************************)
(* Where the select cases block: a synchronous push, a send on doneC, a    *)
(* send on stoppedC.                                                       *)
(***************************************************************************)

\* What a case does when its synchronous push has returned, ok or not.
AfterPush(ok) ==
  /\ pc = "push"
  /\ payload' = <<>>
  /\ attempted' = attempted \cup Range(payload)
  /\ IF cause = "stop" THEN FinishStop ELSE BackToSelect
  /\ ctx' = IF cause = "ctxDone" THEN ResetCtx ELSE ctx
  /\ IF cause = "force"
     THEN Reply(serving, IF ok THEN "ok" ELSE "failed") /\ serving' = NoInvocation
     ELSE UNCHANGED <<reply, serving>>
  /\ UNCHANGED <<buf, doneC, flush, forceFlushing, ctxDone, invoked, signalled, accepted,
                 trimmed>>

PushOk ==
  /\ AfterPush(TRUE)
  /\ sent' = sent \cup Range(payload)
  /\ UNCHANGED lost

\* The logs of a failed synchronous push are gone: only flush returns them.
PushFail ==
  /\ AfterPush(FALSE)
  /\ lost' = lost \cup Range(payload)
  /\ UNCHANGED sent

\* Mutation: doneC is not reset.
SignalDoneKept ==
  /\ pc = "signal"
  /\ signalled' = signalled \cup {doneC}
  /\ IF cause = "stop" THEN pc' = "stopped" /\ UNCHANGED cause ELSE BackToSelect
  /\ UNCHANGED <<buf, payload, ctx, doneC, flush, forceFlushing, serving, reply, ctxDone,
                 invoked, accepted, attempted, sent, lost, trimmed>>

\* doneC <- struct{}{}, received by the invocation that made doneC
SignalDone ==
  /\ pc = "signal"
  /\ signalled' = signalled \cup {doneC}
  /\ IF cause = "stop"
     THEN pc' = "stopped" /\ UNCHANGED <<cause, doneC>>
     ELSE BackToSelect /\ doneC' = NoInvocation
  /\ UNCHANGED <<buf, payload, ctx, flush, forceFlushing, serving, reply, ctxDone, invoked,
                 accepted, attempted, sent, lost, trimmed>>

\* p.stoppedC <- struct{}{}, received by Stop.  The goroutines of flush outlive run.
SendStopped ==
  /\ pc = "stopped"
  /\ pc' = "exited"
  /\ UNCHANGED <<cause, buf, payload, ctx, doneC, flush, forceFlushing, serving, reply,
                 ctxDone, invoked, signalled, accepted, attempted, sent, lost, trimmed>>

-----------------------------------------------------------------------------
(***************************************************************************)
(* The goroutines of flush.                                                *)
(***************************************************************************)

\* The closure of utils.Go reads the variable ctx when it runs, not when it is
\* made: by then run may have assigned another context to it.
FlushStart(f) ==
  /\ flush[f].at = "new"
  /\ flush' = [flush EXCEPT ![f].at = "push",
                                ![f].under = IF Done(ctx) THEN NoInvocation ELSE ctx]
  /\ UNCHANGED <<pc, cause, buf, payload, ctx, doneC, forceFlushing, serving, reply, ctxDone,
                 invoked, signalled, accepted, attempted, sent, lost, trimmed>>

FlushTried(f) ==
  /\ flush[f].at = "push"
  /\ attempted' = attempted \cup Range(flush[f].payload)
  /\ UNCHANGED <<pc, cause, buf, payload, ctx, doneC, forceFlushing, serving, reply, ctxDone,
                 invoked, signalled, accepted, lost>>

\* Mutation: a payload that was sent comes back too.
FlushOkReturned(f) ==
  /\ FlushTried(f)
  /\ flush[f].under # NoInvocation
  /\ sent' = sent \cup Range(flush[f].payload)
  /\ flush' = [flush EXCEPT ![f] = Answering(flush[f].payload)]
  /\ UNCHANGED trimmed

\* A request made under a context that is already done never reaches the backend.
FlushOk(f) ==
  /\ FlushTried(f)
  /\ flush[f].under # NoInvocation
  /\ sent' = sent \cup Range(flush[f].payload)
  /\ flush' = [flush EXCEPT ![f] = Answering(<<>>)]
  /\ UNCHANGED trimmed

FlushFail(f) ==
  /\ FlushTried(f)
  /\ LET kept == Trimmed(flush[f].payload)
     IN /\ trimmed' = trimmed \cup (Range(flush[f].payload) \ Range(kept))
        /\ flush' = [flush EXCEPT ![f] = Answering(kept)]
  /\ UNCHANGED sent

-----------------------------------------------------------------------------
(***************************************************************************)
(* Steps of the invocation handler on the variables above.                 *)
(***************************************************************************)

\* The context of invocation i times out or is cancelled.
Cancel(i) ==
  /\ i \notin ctxDone
  /\ ctxDone' = ctxDone \cup {i}
  /\ UNCHANGED <<pc, cause, buf, payload, ctx, doneC, flush, forceFlushing, serving, reply,
                 invoked, signalled, accepted, attempted, sent, lost, trimmed>>

\* ForceFlush: p.forceFlushing <- done
SendForce(i) ==
  /\ Len(forceFlushing) < 1
  /\ forceFlushing' = Append(forceFlushing, i)
  /\ UNCHANGED <<pc, cause, buf, payload, ctx, doneC, flush, serving, reply, ctxDone, invoked,
                 signalled, accepted, attempted, sent, lost, trimmed>>

\* An invocation asks for one force flush, after Invoke and when its context is done.
MayForce(i) ==
  /\ i \in invoked \cap ctxDone
  /\ i \notin Range(forceFlushing)
  /\ i # serving
  /\ reply[i] = "none"

-----------------------------------------------------------------------------

\* The steps that need nobody else.
Internal ==
  \/ CtxDone
  \/ RecvForce
  \/ PushOk
  \/ PushFail
  \/ \E f \in Flushes : RecvFlushResp(f) \/ FlushStart(f) \/ FlushOk(f) \/ FlushFail(f)

\* The steps taken together with another goroutine, and the handler's own.
External ==
  \/ \E n \in 0..MaxBatch : accepted + n \in Totals /\ RecvLogs(n)
  \/ RecvRuntimeDone
  \/ \E i \in Invocations \ invoked : RecvInvoke(i)
  \/ RecvStop
  \/ SignalDone
  \/ SendStopped
  \/ \E i \in Invocations : Cancel(i) \/ (MayForce(i) /\ SendForce(i))

Next == Internal \/ External

Spec == Init /\ [][Next]_pusherVars

\* Every push ends: DoWithExpBackoffC gives up at its timeout.  A goroutine that
\* can run does run.  Go's select chooses at random among the ready cases, so one
\* that is ready again and again is chosen.
Fairness ==
  /\ WF_pusherVars(PushOk \/ PushFail)
  /\ SF_pusherVars(CtxDone)
  /\ SF_pusherVars(RecvForce)
  /\ \A f \in Flushes : /\ WF_pusherVars(FlushStart(f))
                        /\ WF_pusherVars(FlushOk(f) \/ FlushFail(f))
                        /\ SF_pusherVars(RecvFlushResp(f))

FairSpec == Spec /\ Fairness

-----------------------------------------------------------------------------
(***************************************************************************)
(* Properties.                                                             *)
(***************************************************************************)

\* The types: above all, ctx is never the nil context once its invocation is over,
\* and only invocations that were received are ever signalled.
TypeOK ==
  /\ pc \in Label
  /\ cause \in Cause
  /\ buf \in Seq(Record)
  /\ payload \in Seq(Record)
  /\ ctx \in Invocations \cup {Background}
  /\ doneC \in Invocations \cup {NoInvocation}
  /\ flush \in [Flushes -> Flush]
  /\ forceFlushing \in Seq(Invocations)
  /\ serving \in Invocations \cup {NoInvocation}
  /\ reply \in [Invocations -> {"none", "ok", "failed"}]
  /\ ctxDone \subseteq Invocations
  /\ invoked \subseteq Invocations
  /\ signalled \subseteq Invocations
  /\ accepted \in Nat
  /\ attempted \subseteq Record
  /\ sent \subseteq Record
  /\ lost \subseteq Record
  /\ trimmed \subseteq Record

\* The records in the hands of the flush goroutines, and all records not yet
\* acknowledged or given up.
InFlush == UNION {Range(flush[f].payload) : f \in Flushes}
Held == Range(buf) \cup Range(payload) \cup InFlush
Given == sent \cup lost \cup trimmed

\* Only what is in use holds records.
IdleIsEmpty ==
  /\ pc # "push" => payload = <<>>
  /\ \A f \in Flushes : flush[f].at = "idle" => flush[f].payload = <<>>

\* No two of the buffer, the synchronous payload and the flush payloads share a
\* record, and none holds a record twice.
Apart ==
  /\ IsInjective(buf)
  /\ IsInjective(payload)
  /\ \A f \in Flushes : IsInjective(flush[f].payload)
  /\ Range(buf) \cap Range(payload) = {}
  /\ \A f \in Flushes : Range(flush[f].payload) \cap (Range(buf) \cup Range(payload)) = {}
  /\ \A f, g \in Flushes :
       f # g => Range(flush[f].payload) \cap Range(flush[g].payload) = {}

\* Every record is in one place only, at most once: however the select cases and
\* the flush goroutines interleave, requeueing and pushing never duplicate a
\* record, and one that the backend acknowledged is not sent again.
OneHolder ==
  /\ IdleIsEmpty
  /\ Apart
  /\ Held \cap Given = {}

\* The pusher keeps every record it received, or knows why it does not.
Pipe == INSTANCE LogPipe WITH held <- Held, dropped <- lost \cup trimmed

ImplementsLogPipe == Pipe!Spec

Partition == Pipe!Partition

\* doneC is nil until invokeC sets it and after it was sent on: run never blocks on
\* a nil channel, and never sends twice to an invocation, which receives only once.
SignalOnce == pc = "signal" => doneC \in invoked \ signalled

\* Once Stop is answered, only flush goroutines can still hold a record.
StopEmptiesBuffer == pc \in {"stopped", "exited"} => Held = InFlush

\* run has stopped serving its select: it waits for a receiver that does not come,
\* or has returned.
Stuck == pc \in {"signal", "stopped", "exited"}

\* A force flush that was requested is answered, unless run is stuck for good.
ForceAnswered ==
  \A i \in Invocations : i \in Range(forceFlushing) ~> (reply[i] # "none" \/ []Stuck)

\* What a flush goroutine failed to send comes back to the buffer, unless run is
\* stuck for good: no failed flush is forgotten while the pusher lives.
FlushReturns ==
  \A f \in Flushes : flush[f].at = "new" ~> (flush[f].at = "idle" \/ []Stuck)

-----------------------------------------------------------------------------
(***************************************************************************)
(* The inductive invariant that the proofs of module PusherProofs use.     *)
(***************************************************************************)

\* All records have a number that was given out.
Numbered == Held \cup Given \subseteq 1..accepted

\* A doneC that is set belongs to an invocation that was received and not released;
\* the stop case alone leaves it set, and then it is not used again.
DoneFresh ==
  /\ signalled \subseteq invoked
  /\ pc = "signal" => doneC # NoInvocation
  /\ doneC # NoInvocation /\ pc \notin {"stopped", "exited"} => doneC \in invoked \ signalled

\* From the stop case on, the buffer is empty.
StopKeepsEmpty ==
  /\ pc = "select" => cause = "none"
  /\ pc \in {"stopped", "exited"} => cause = "stop"
  /\ cause = "stop" => buf = <<>>

\* What has to be known of a state to know it of the next: Stop must find nothing to
\* forget, doneC must be fresh, and no record may be in two places or without a number.
IndInv == TypeOK /\ OneHolder /\ Numbered /\ DoneFresh /\ StopKeepsEmpty

=============================================================================
