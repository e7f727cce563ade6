--------------------------------- MODULE Push ---------------------------------
(***************************************************************************)
(* One call of Pusher.push (pushers/pusher.go 266-272): requests to the    *)
(* backend, each under a context with its own timeout, repeated by         *)
(* DoWithExpBackoffC (utils/helpers.go), in discrete time.  The backoff    *)
(* library is not part of the repository; it is modelled as helpers.go     *)
(* sets it up.                                                             *)
(*                                                                         *)
(* The clock counts while the sandbox runs: Lambda freezes it, and all     *)
(* goroutines, between invocations.  A step that is due is taken before    *)
(* the clock ticks.                                                        *)
(***************************************************************************)
EXTENDS Integers

CONSTANTS
  FlushTimeout,    \* flushTimeout, 5 s
  SyncTimeout,     \* the 150 ms of the pushes that block run
  StopTimeouts,    \* what may be left of the time of Stop: nothing, or less
  PushTimeouts,    \* the values of ED_PUSH_TIMEOUT_SEC
  RetryIntervals,  \* the values of ED_RETRY_INTERVAL_MS
  MaxInterval,     \* the library's own bound on the interval, 60 s
  MaxTime          \* bound: the clock of a push without a limit

ASSUME PushAssumption ==
  /\ FlushTimeout \in Nat \ {0}
  /\ SyncTimeout \in Nat \ {0}
  /\ StopTimeouts \subseteq Int
  /\ PushTimeouts \subseteq Nat
  /\ RetryIntervals \subseteq Nat
  /\ MaxInterval \in Nat
  /\ MaxTime \in Nat

VARIABLES
  caller,         \* which code of the pusher has called push
  limit,          \* MaxElapsedTime
  pushTimeout,    \* Pusher.pushTimeout
  retryInterval,  \* Pusher.retryInterval
  now,            \* the time since push was called
  at,             \* where push is
  began,          \* when the present request was made
  request,        \* what became of it
  interval,       \* the interval of the library
  wake,           \* when the wait ends
  ctxDone,        \* whether the context of push is done
  live,           \* history: whether it was not when push was called
  taken           \* history: whether the backend ever took the payload

pushVars == <<caller, limit, pushTimeout, retryInterval, now, at, began, request, interval,
              wake, ctxDone, live, taken>>
parameters == <<caller, limit, pushTimeout, retryInterval, live>>

\* "sync": the pushes at 168, 190 and 245 of pusher.go.
Caller == {"flush", "sync", "stop"}

\* "attempt": in makeRequestFunc; "wait": for the next attempt; "ok", "failed":
\* returned nil, an error.
At == {"attempt", "wait", "ok", "failed"}

Returned == at \in {"ok", "failed"}

\* "out": sent, or being sent; "taken": answered with a status from 200 to 299.
Request == {"out", "taken", "refused"}

LimitsOf(c) ==
  CASE c = "flush" -> {FlushTimeout}
    [] c = "sync" -> {SyncTimeout}
    [] c = "stop" -> StopTimeouts

\* Only flush pushes under the context of an invocation, the others under the
\* background context.
PushInit ==
  /\ caller \in Caller
  /\ limit \in LimitsOf(caller)
  /\ pushTimeout \in PushTimeouts
  /\ retryInterval \in RetryIntervals
  /\ now = 0
  /\ at = "attempt"
  /\ began = 0
  /\ request = "out"
  /\ interval = retryInterval
  /\ wake = 0
  /\ ctxDone \in (IF caller = "flush" THEN BOOLEAN ELSE {FALSE})
  /\ live = ~ctxDone
  /\ taken = FALSE

-----------------------------------------------------------------------------
(***************************************************************************)
(* One request.                                                            *)
(***************************************************************************)

\* Mutation: a request has no timeout of its own.
RequestLiveWithoutTimeout == ~ctxDone

\* Mutation: the requests are made under the background context.
RequestLiveWithoutCtx == now < began + pushTimeout

\* reqCtx: the context of push, and pushTimeout from the start of the request.
RequestLive == ~ctxDone /\ now < began + pushTimeout

\* The backend takes the payload, or refuses it with another status.
BackendAnswers ==
  /\ at = "attempt"
  /\ RequestLive
  /\ request = "out"
  /\ \/ request' = "taken" /\ taken' = TRUE
     \/ request' = "refused" /\ UNCHANGED taken
  /\ UNCHANGED <<parameters, now, at, began, interval, wake, ctxDone>>

\* Mutation: the status code is not looked at.
RequestAnswered ==
  /\ at = "attempt"
  /\ RequestLive
  /\ request # "out"
  /\ at' = "ok"
  /\ UNCHANGED <<parameters, now, began, request, interval, wake, ctxDone, taken>>

\* makeRequestFunc returns nil.
RequestSucceeds ==
  /\ at = "attempt"
  /\ RequestLive
  /\ request = "taken"
  /\ at' = "ok"
  /\ UNCHANGED <<parameters, now, began, request, interval, wake, ctxDone, taken>>

\* The library looks at the context and at its MaxElapsedTime after a failed attempt
\* only, and 0 stands for no limit.
GivesUp == ctxDone \/ (limit # 0 /\ now > limit)

NextInterval == IF (3 * interval) \div 2 < MaxInterval THEN (3 * interval) \div 2 ELSE MaxInterval

\* makeRequestFunc returns an error: the backend refused, the connection broke (even
\* if the backend has taken the payload), or reqCtx is done.  The wait is between half
\* the interval and one and a half of it.
RequestFails ==
  /\ at = "attempt"
  /\ IF GivesUp
     THEN at' = "failed" /\ UNCHANGED <<interval, wake>>
     ELSE /\ at' = "wait"
          /\ \E w \in (interval \div 2)..((3 * interval + 1) \div 2) : wake' = now + w
          /\ interval' = NextInterval
  /\ UNCHANGED <<parameters, now, began, request, ctxDone, taken>>

-----------------------------------------------------------------------------
(***************************************************************************)
(* Between requests, and the world around.                                 *)
(***************************************************************************)

\* When the timer fires while the context is done, select takes either.
WaitEnds ==
  /\ at = "wait"
  /\ now >= wake
  /\ at' = "attempt"
  /\ began' = now
  /\ request' = "out"
  /\ UNCHANGED <<parameters, now, interval, wake, ctxDone, taken>>

WaitCancelled ==
  /\ at = "wait"
  /\ ctxDone
  /\ at' = "failed"
  /\ UNCHANGED <<parameters, now, began, request, interval, wake, ctxDone, taken>>

\* The invocation whose context flush was given times out or returns.
CtxIsDone ==
  /\ caller = "flush"
  /\ ~ctxDone
  /\ ctxDone' = TRUE
  /\ UNCHANGED <<parameters, now, at, began, request, interval, wake, taken>>

Tick ==
  /\ \/ at = "attempt" /\ RequestLive
     \/ at = "wait" /\ now < wake /\ ~ctxDone
  /\ limit = 0 => now < MaxTime
  /\ now' = now + 1
  /\ UNCHANGED <<parameters, at, began, request, interval, wake, ctxDone, taken>>

PushSteps ==
  \/ BackendAnswers \/ RequestSucceeds \/ RequestFails
  \/ WaitEnds \/ WaitCancelled \/ Tick

=============================================================================
