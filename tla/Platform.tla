------------------------------- MODULE Platform -------------------------------
(***************************************************************************)
(* The Lambda platform, as far as src/ relies on it: it runs the function  *)
(* once per invocation, records what happens as telemetry events, and      *)
(* posts these to the producer in messages.  It is not part of the         *)
(* repository.                                                             *)
(***************************************************************************)
EXTENDS Naturals, Sequences

CONSTANTS
  MaxLogs,  \* bound: the function events of one invocation
  MaxPost   \* bound: the events of one message

VARIABLES
  fn,      \* the function: "idle", "running" or "ended"
  logs,    \* how many function events the current invocation has recorded
  stream   \* the recorded events that are not posted yet, oldest first

platformVars == <<fn, logs, stream>>

PlatformInit ==
  /\ fn = "idle"
  /\ logs = 0
  /\ stream = <<>>

RecordedAs(form, type, i) == Append(stream, [type |-> type, req |-> i, form |-> form])
Recorded(type, i) == RecordedAs("ok", type, i)

FunctionStarts(i) ==
  /\ fn = "idle"
  /\ fn' = "running"
  /\ logs' = 0
  /\ stream' = Recorded("start", i)

FunctionLogs(i) ==
  /\ fn = "running"
  /\ logs < MaxLogs
  /\ logs' = logs + 1
  /\ stream' = Recorded("function", i)
  /\ UNCHANGED fn

\* The time in the event is valid if form is "ok".
FunctionEnds(i, form) ==
  /\ fn = "running"
  /\ fn' = "ended"
  /\ stream' = RecordedAs(form, "runtimeDone", i)
  /\ UNCHANGED logs

\* An event of a type that the processor ignores: one of an extension's own log
\* lines, or of the platform.
OtherEvent(i) ==
  /\ fn = "ended"
  /\ stream # <<>>
  /\ stream[Len(stream)].type = "runtimeDone"
  /\ stream' = Recorded("other", i)
  /\ UNCHANGED <<fn, logs>>

\* The report follows when function and extensions are done with the invocation.  Its
\* numbers are complete if form is "ok".
Reports(i, form) ==
  /\ fn = "ended"
  /\ fn' = "idle"
  /\ stream' = RecordedAs(form, "report", i)
  /\ UNCHANGED logs

\* The n oldest events are posted.
Posts(n) ==
  /\ n \in 1..MaxPost
  /\ n <= Len(stream)
  /\ stream' = SubSeq(stream, n + 1, Len(stream))
  /\ UNCHANGED <<fn, logs>>

=============================================================================
