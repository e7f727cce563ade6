------------------------------- MODULE Server --------------------------------
(***************************************************************************)
(* The life of the field server of the producer (handlers/producer.go):    *)
(* the goroutine that Start makes reads it to call ListenAndServe, and     *)
(* calls Shutdown itself when that fails; Worker.Stop calls Shutdown from  *)
(* another goroutine.  Nothing protects the field: Shutdown reads it to    *)
(* see whether it is nil and again to use it, and sets it to nil.          *)
(* Module Extension has the handlers, and a server that is always there.   *)
(***************************************************************************)

VARIABLES
  field,     \* p.server: "nil" or "server"
  http,      \* the http.Server: "open", or "shut" once Shutdown was called on it
  in,        \* where each caller is in Shutdown
  listener,  \* where the goroutine of Start is
  overlap,   \* history: whether the two were in Shutdown at one time
  crashed    \* whether a nil server was dereferenced, which ends the process

serverVars == <<field, http, in, listener, overlap, crashed>>

Caller == {"listener", "stop"}

\* "enter": about to test the field; "call": about to call its Shutdown; "wait": in
\* the Shutdown of the http.Server.
InLabel == {"out", "enter", "call", "wait"}

\* "new": the goroutine has not run yet; "serving": in ListenAndServe; "failed":
\* ListenAndServe returned an error, and Shutdown follows.
ListenerLabel == {"none", "new", "serving", "failed", "gone"}

ServerTypeOK ==
  /\ field \in {"nil", "server"}
  /\ http \in {"open", "shut"}
  /\ in \in [Caller -> InLabel]
  /\ listener \in ListenerLabel
  /\ overlap \in BOOLEAN
  /\ crashed \in BOOLEAN

ServerInit ==
  /\ field = "nil"
  /\ http = "open"
  /\ in = [c \in Caller |-> "out"]
  /\ listener = "none"
  /\ overlap = FALSE
  /\ crashed = FALSE

\* Producer.Start
ServerStarts ==
  /\ field' = "server"
  /\ listener' = "new"
  /\ UNCHANGED <<http, in, overlap, crashed>>

Moves(c, to) ==
  /\ in' = [in EXCEPT ![c] = to]
  /\ overlap' = (overlap \/ \A d \in Caller : in'[d] # "out")

\* p.server is nil where it is used.
Crashes ==
  /\ field = "nil"
  /\ crashed' = TRUE
  /\ UNCHANGED <<field, http, in, listener, overlap>>

\* The goroutine of Start calls ListenAndServe, which may fail, and is closed at once
\* if Shutdown came first.
Listens ==
  /\ listener = "new"
  /\ \/ Crashes
     \/ /\ field = "server"
        /\ listener' \in IF http = "shut" THEN {"gone"} ELSE {"serving", "failed"}
        /\ UNCHANGED <<field, http, in, overlap, crashed>>

\* ListenAndServe returns: ErrServerClosed after Shutdown, or the error of Accept.
ServingEnds ==
  /\ listener = "serving"
  /\ listener' = IF http = "shut" THEN "gone" ELSE "failed"
  /\ UNCHANGED <<field, http, in, overlap, crashed>>

ListenerCallsShutdown ==
  /\ listener = "failed"
  /\ listener' = "gone"
  /\ Moves("listener", "enter")
  /\ UNCHANGED <<field, http, crashed>>

StopCallsShutdown ==
  /\ Moves("stop", "enter")
  /\ UNCHANGED <<field, http, listener, crashed>>

\* Mutation: Shutdown does not look whether there is a server.
EntersUnchecked(c) ==
  /\ in[c] = "enter"
  /\ Moves(c, "call")
  /\ UNCHANGED <<field, http, listener, crashed>>

\* if p.server == nil { return }
Enters(c) ==
  /\ in[c] = "enter"
  /\ Moves(c, IF field = "nil" THEN "out" ELSE "call")
  /\ UNCHANGED <<field, http, listener, crashed>>

\* p.server.Shutdown(ctx)
Calls(c) ==
  /\ in[c] = "call"
  /\ \/ Crashes
     \/ /\ field = "server"
        /\ http' = "shut"
        /\ Moves(c, "wait")
        /\ UNCHANGED <<field, listener, crashed>>

\* It returns without an error and p.server = nil, or its time is over.
Returns(c) ==
  /\ in[c] = "wait"
  /\ field' \in {field, "nil"}
  /\ Moves(c, "out")
  /\ UNCHANGED <<http, listener, crashed>>

ServerSteps ==
  \/ Listens
  \/ ServingEnds
  \/ ListenerCallsShutdown
  \/ \E c \in Caller : Enters(c) \/ Calls(c) \/ Returns(c)

=============================================================================
