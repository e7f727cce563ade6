------------------------------ MODULE Processor ------------------------------
(***************************************************************************)
(* The processor (pushers/processor.go): the goroutine of Processor.run,   *)
(* which turns the events that the producer hands it into log records,     *)
(* hands the records of one message to the pusher, and announces the end   *)
(* of an invocation on runtimeDoneC.                                       *)
(*                                                                         *)
(* As in module Pusher, a send on an unbuffered channel and the receive it *)
(* meets are one step, and the actions named Recv... and Send... are the   *)
(* processor's half of it.  In this module's own Next the events are       *)
(* arbitrary: the Telemetry API may deliver them late, again, or out of    *)
(* order.                                                                  *)
(***************************************************************************)
EXTENDS Naturals, Sequences

CONSTANTS
  Requests,   \* the request ids
  NoRequest,  \* the empty request id
  MaxEvents   \* bound: the events of one message

ASSUME ProcessorAssumption ==
  /\ NoRequest \notin Requests
  /\ MaxEvents \in Nat

VARIABLES
  rpc,        \* where Processor.run is
  batch,      \* the events of the message that are still to be processed
  doneFlag,   \* the variable runtimeDone of run
  requestID,  \* faasObj.RequestID
  durations,  \* requestDurations: what it knows of each request
  out,        \* the records of the message being built
  inClosed,   \* whether p.inC is closed
  assigned,   \* history: the requests received on invokeC
  announced   \* history: the requests announced on runtimeDoneC

processorVars ==
  <<rpc, batch, doneFlag, requestID, durations, out, inClosed, assigned, announced>>

-----------------------------------------------------------------------------

\* "select": in the select of run; "batch": in the loop over a message; "out":
\* sending on outC; "announce": sending on runtimeDoneC; "drained": sending on
\* outC after stopC; "stopped": sending on stoppedC; "exited": run has returned.
RLabel == {"select", "batch", "out", "announce", "drained", "stopped", "exited"}

\* "other": the types that process ignores, platform and extension events alike.
EventType == {"function", "start", "runtimeDone", "report", "other"}

\* "partial": the record is well formed, but the event has no valid time (or, a
\* report, no durationMs); "unbilled": a report with durationMs but no
\* billedDurationMs; "bad": the record does not have the form of its type.
Form == {"ok", "partial", "unbilled", "bad"}

\* req is the request the event is about.  A function event does not show it.
Event ==
  {e \in [type : EventType, req : Requests, form : Form] :
     e.form = "unbilled" => e.type = "report"}

Message == UNION {[1..n -> Event] : n \in 0..MaxEvents}

\* A log record: the request of its event, the request ids in its faas object and in
\* its message, and for a metric what its runtime duration was computed from.
LogRecord ==
  [type : EventType, req : Requests, id : Requests \cup {NoRequest},
   said : Requests \cup {NoRequest}, span : {"none", "right", "garbage"}]

\* requestDurations[r] is absent, has only Start, or has Start and End.
Duration == {"absent", "started", "ended"}

Init ==
  /\ rpc = "select"
  /\ batch = <<>>
  /\ doneFlag = FALSE
  /\ requestID = NoRequest
  /\ durations = [r \in Requests |-> "absent"]
  /\ out = <<>>
  /\ inClosed = FALSE
  /\ assigned = {}
  /\ announced = {}

-----------------------------------------------------------------------------
(***************************************************************************)
(* Processing one event.                                                   *)
(***************************************************************************)

\* Mutation: the end of any request counts.
EndsAnyRequest(e) == e.type = "runtimeDone" /\ e.form # "bad"

\* Mutation: any event about the current request ends it.
EndsByAnyEvent(e) ==
  /\ requestID # NoRequest
  /\ e.form # "bad"
  /\ e.req = requestID

\* handlePlatformEvent: e ends the current request.
EndsRequest(e) ==
  /\ requestID # NoRequest
  /\ e.type = "runtimeDone"
  /\ e.form # "bad"
  /\ e.req = requestID

\* process returns a record for e: neither an error nor nil.
MakesRecord(e) ==
  /\ e.type # "other"
  /\ e.form # "bad"
  /\ e.form = "partial" => \/ e.type \in {"function", "report"}
                           \/ e.type = "runtimeDone" /\ durations[e.req] = "absent"

\* The request id in the record of e.  A function event takes the current one.
StampOf(e) == IF e.type = "function" THEN requestID ELSE e.req

\* The request id in the message of e: START has that of the event, END the current one.
SaidOf(e) ==
  CASE e.type = "start" -> e.req
    [] e.type = "runtimeDone" -> requestID
    [] OTHER -> NoRequest

\* A report with durationMs computes the runtime duration from the entry of its
\* request, if there is one, whether or not its End was ever set, and from
\* billedDurationMs, which is 0 if it is missing.
SpanOf(e) ==
  IF e.type # "report" \/ e.form \in {"partial", "bad"} \/ durations[e.req] = "absent" THEN "none"
  ELSE IF durations[e.req] = "ended" /\ e.form = "ok" THEN "right" ELSE "garbage"

RecordOf(e) ==
  [type |-> e.type, req |-> e.req, id |-> StampOf(e), said |-> SaidOf(e), span |-> SpanOf(e)]

\* Mutation: the end of a request is not noted.
DurationNotEnded(e) ==
  IF e.form \in {"partial", "bad"} THEN durations[e.req] ELSE
    CASE e.type = "start" -> "started"
      [] e.type = "report" -> "absent"
      [] OTHER -> durations[e.req]

\* Mutation: a report leaves the entry where it is.
DurationKept(e) ==
  LET before == durations[e.req] IN
  IF e.form \in {"partial", "bad"} THEN before ELSE
    CASE e.type = "start" -> "started"
      [] e.type = "runtimeDone" /\ before # "absent" -> "ended"
      [] OTHER -> before

\* The entry of the request of e after e.
DurationAfter(e) ==
  LET before == durations[e.req] IN
  IF e.form \in {"partial", "bad"} THEN before ELSE
    CASE e.type = "start" -> "started"
      [] e.type = "runtimeDone" /\ before # "absent" -> "ended"
      [] e.type = "report" -> "absent"
      [] OTHER -> before

-----------------------------------------------------------------------------

\* case events := <-p.inC
RecvEvents(events) ==
  /\ rpc = "select"
  /\ rpc' = "batch"
  /\ batch' = events
  /\ UNCHANGED <<doneFlag, requestID, durations, out, inClosed, assigned, announced>>

\* The body of the loop.  A later event that is not a function's overwrites the
\* flag that an earlier one set.
ProcessEvent ==
  /\ rpc = "batch"
  /\ batch # <<>>
  /\ LET e == Head(batch) IN
       /\ doneFlag' = IF e.type = "function" THEN doneFlag ELSE EndsRequest(e)
       /\ out' = IF MakesRecord(e) THEN Append(out, RecordOf(e)) ELSE out
       /\ durations' = [durations EXCEPT ![e.req] = DurationAfter(e)]
  /\ batch' = Tail(batch)
  /\ UNCHANGED <<rpc, requestID, inClosed, assigned, announced>>

\* Mutation: the end is announced before the records are handed over.
EndOfBatchAnnounced ==
  /\ rpc = "batch"
  /\ batch = <<>>
  /\ rpc' = IF doneFlag THEN "announce" ELSE "out"
  /\ UNCHANGED <<batch, doneFlag, requestID, durations, out, inClosed, assigned, announced>>

EndOfBatch ==
  /\ rpc = "batch"
  /\ batch = <<>>
  /\ rpc' = "out"
  /\ UNCHANGED <<batch, doneFlag, requestID, durations, out, inClosed, assigned, announced>>

\* Mutation: run returns without answering Stop.
SendOutAndExit ==
  /\ \/ rpc = "out" /\ rpc' = IF doneFlag THEN "announce" ELSE "select"
     \/ rpc = "drained" /\ rpc' = "exited"
  /\ out' = <<>>
  /\ UNCHANGED <<batch, doneFlag, requestID, durations, inClosed, assigned, announced>>

\* p.outC <- buf.Bytes(), after a message or after stopC
SendOut ==
  /\ \/ rpc = "out" /\ rpc' = IF doneFlag THEN "announce" ELSE "select"
     \/ rpc = "drained" /\ rpc' = "stopped"
  /\ out' = <<>>
  /\ UNCHANGED <<batch, doneFlag, requestID, durations, inClosed, assigned, announced>>

\* Mutation: the request stays the current one.
SendRuntimeDoneCurrent ==
  /\ rpc = "announce"
  /\ rpc' = "select"
  /\ announced' = announced \cup {requestID}
  /\ doneFlag' = FALSE
  /\ UNCHANGED <<batch, requestID, durations, out, inClosed, assigned>>

\* p.runtimeDoneC <- struct{}{}
SendRuntimeDone ==
  /\ rpc = "announce"
  /\ rpc' = "select"
  /\ announced' = announced \cup {requestID}
  /\ requestID' = NoRequest
  /\ doneFlag' = FALSE
  /\ UNCHANGED <<batch, durations, out, inClosed, assigned>>

\* case r := <-p.invokeC
RecvRequest(r) ==
  /\ rpc = "select"
  /\ requestID' = r
  /\ assigned' = assigned \cup {r}
  /\ UNCHANGED <<rpc, batch, doneFlag, durations, out, inClosed, announced>>

\* case <-p.stopC.  inC has no buffer, so the loop after close receives nothing,
\* and the message that goes out is empty.
RecvStopR ==
  /\ rpc = "select"
  /\ rpc' = "drained"
  /\ inClosed' = TRUE
  /\ UNCHANGED <<batch, doneFlag, requestID, durations, out, assigned, announced>>

\* p.stoppedC <- struct{}{}
SendStoppedR ==
  /\ rpc = "stopped"
  /\ rpc' = "exited"
  /\ UNCHANGED <<batch, doneFlag, requestID, durations, out, inClosed, assigned, announced>>

Next ==
  \/ rpc = "select" /\ batch' \in Message /\ RecvEvents(batch')
  \/ ProcessEvent
  \/ EndOfBatch
  \/ SendOut
  \/ SendRuntimeDone
  \/ \E r \in Requests \ assigned : RecvRequest(r)
  \/ RecvStopR
  \/ SendStoppedR

Spec == Init /\ [][Next]_processorVars

-----------------------------------------------------------------------------

\* The types: above all, requestDurations never holds an End without a Start.
TypeOK ==
  /\ rpc \in RLabel
  /\ batch \in Seq(Event)
  /\ doneFlag \in BOOLEAN
  /\ requestID \in Requests \cup {NoRequest}
  /\ durations \in [Requests -> Duration]
  /\ out \in Seq(LogRecord)
  /\ inClosed \in BOOLEAN
  /\ assigned \subseteq Requests
  /\ announced \subseteq Requests

\* The flag is set only for the current request, and is down between messages.
FlagIsCurrent ==
  /\ doneFlag => requestID # NoRequest
  /\ rpc = "announce" => doneFlag
  /\ rpc \in {"select", "drained", "stopped", "exited"} => ~doneFlag

\* A request that was announced is no longer the current one, whatever the
\* Telemetry API delivers again: its end is announced to the pusher only once.
AnnounceOnce == requestID \notin announced

-----------------------------------------------------------------------------
(***************************************************************************)
(* The inductive invariant that the proofs of module ProcessorProofs use.  *)
(***************************************************************************)

\* What is announced was received before.
Received == announced \subseteq assigned /\ (requestID # NoRequest => requestID \in assigned)

\* What has to be known of a state to know it of the next.
IndInv == TypeOK /\ FlagIsCurrent /\ AnnounceOnce /\ Received

=============================================================================
