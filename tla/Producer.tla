------------------------------- MODULE Producer -------------------------------
(***************************************************************************)
(* The producer (handlers/producer.go): one goroutine of the HTTP server   *)
(* per request of the Telemetry API, each sending the events of its body   *)
(* on the processor's unbuffered inC, and the shutdown of the server.      *)
(***************************************************************************)
EXTENDS Sequences

CONSTANT Handlers  \* the requests that are handled at one time

VARIABLES
  server,  \* "up", "closing" (in Shutdown), "closed", "abandoned" (it timed out)
  posted   \* the message each handler is blocked sending: a sequence of at most one

producerVars == <<server, posted>>

Idle == <<>>

ProducerInit ==
  /\ server = "up"
  /\ posted = [k \in Handlers |-> Idle]

\* handleLogs has read a request and decoded its events.  A request that was accepted
\* before Shutdown may still be read while Shutdown waits for it, or has given it up.
Post(k, events) ==
  /\ server # "closed"
  /\ posted[k] = Idle
  /\ posted' = [posted EXCEPT ![k] = <<events>>]
  /\ UNCHANGED server

\* handleLogs answers 400: the body could not be read, or is not JSON.  Nothing of it is
\* kept.
PostRefused(k) ==
  /\ server # "closed"
  /\ posted[k] = Idle
  /\ UNCHANGED producerVars

\* p.outC <- events has been received, and the request is answered.
PostTaken(k) ==
  /\ posted[k] # Idle
  /\ posted' = [posted EXCEPT ![k] = Idle]
  /\ UNCHANGED server

\* p.outC was closed under a blocked send: the handler panics, net/http recovers,
\* the events are gone.
PostPanics(k) ==
  /\ posted[k] # Idle
  /\ posted' = [posted EXCEPT ![k] = Idle]
  /\ UNCHANGED server

\* server.Shutdown closes the listener at once, ...
BeginShutdown ==
  /\ server = "up"
  /\ server' = "closing"
  /\ UNCHANGED posted

\* ... and returns when no request is being handled, or at its timeout.
EndShutdown(mayTimeOut) ==
  /\ server = "closing"
  /\ \/ (\A k \in Handlers : posted[k] = Idle) /\ server' = "closed"
     \/ mayTimeOut /\ server' = "abandoned"
  /\ UNCHANGED posted

=============================================================================
