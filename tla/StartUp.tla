------------------------------- MODULE StartUp -------------------------------
(***************************************************************************)
(* The start of the extension (main.go, startExtension) with the calls of  *)
(* the Lambda APIs that it makes: it registers, reads the configuration,   *)
(* asks for the tags of the function, starts the worker and subscribes to  *)
(* the Telemetry API.  A step that returns an error is reported by         *)
(* InitError, and the process exits with 1; one that panics ends it at     *)
(* once.  Afterwards the extension runs, until it calls Stop and ends.     *)
(*                                                                         *)
(* From the start of the worker on, the goroutine of its HTTP server runs  *)
(* at the same time.                                                       *)
(***************************************************************************)
EXTENDS Sequences, Config, Server

VARIABLES
  env,      \* the environment; it never changes
  at,       \* where main is
  config,   \* what GetConfigAndValidate returned
  pusher,   \* the mode and the endpoint of the pusher
  expired,  \* whether the context of startExtension is done
  failed,   \* the step that returned an error
  error,    \* the type of error that InitError is called with
  refused,  \* whether the API did not take what InitError sent
  told      \* what InitError told the API, one after the other

vars == <<serverVars, env, at, config, pusher, expired, failed, error, refused, told>>

Label == {"register", "config", "client", "function", "worker", "subscribe", "running",
          "stopSleep", "stopServer", "stopProcessor", "stopPusher", "report",
          "exit", "over", "panicked"}

Step == {"register", "config", "client", "function", "subscribe"}

ErrorType == {"RegisterError", "ConfigError", "ClientError", "SubscribeError"}

\* The type of error that belongs to a step.
FunctionErrorType(step) ==
  CASE step = "register" -> "RegisterError"
    [] step = "config" -> "ConfigError"
    [] step \in {"client", "function"} -> "ClientError"
    [] step = "subscribe" -> "SubscribeError"

\* The values before there is any.
NoConfig == [none |-> TRUE]
NoPusher == [none |-> TRUE]

Init ==
  /\ ServerInit
  /\ env \in Env
  /\ at = "register"
  /\ config = NoConfig
  /\ pusher = NoPusher
  /\ expired = FALSE
  /\ failed = "none"
  /\ error = "none"
  /\ refused = FALSE
  /\ told = <<>>

Ended == at \in {"exit", "over", "panicked"} \/ crashed

-----------------------------------------------------------------------------

\* The step goes well, and main goes on to the next.
Goes(from, to) ==
  /\ at = from
  /\ at' = to
  /\ UNCHANGED <<serverVars, env, expired, failed, error, refused, told>>

\* The step returns an error, of which InitError is to tell the given type.  When the
\* worker runs already, it is stopped first.
Fails(step, type) ==
  /\ at = step
  /\ failed' = step
  /\ error' = type
  /\ at' = IF step = "subscribe" THEN "stopSleep" ELSE "report"
  /\ UNCHANGED <<serverVars, env, expired, refused, told>>

\* A request under a context that is done fails.
Register ==
  /\ \/ ~expired /\ Goes("register", "config")
     \/ Fails("register", "RegisterError")
  /\ UNCHANGED <<config, pusher>>

Configure ==
  /\ IF IsValid(env)
     THEN Goes("config", IF env.ED_FORWARD_LAMBDA_TAGS THEN "client" ELSE "worker")
     ELSE Fails("config", "ConfigError")
  /\ config' = IF MissesEndpoint(env) THEN NoConfig ELSE GetConfig(env)
  /\ UNCHANGED pusher

NewAWSClient ==
  /\ Goes("client", "function") \/ Fails("client", "ClientError")
  /\ UNCHANGED <<config, pusher>>

\* Mutation: a function that is not found ends the start without a word.
GetFunctionUnreported ==
  /\ \/ Goes("function", "worker")
     \/ Fails("function", "ClientError")
     \/ Goes("function", "panicked")
     \/ /\ at = "function"
        /\ at' = "exit"
        /\ failed' = "function"
        /\ UNCHANGED <<serverVars, env, expired, error, refused, told>>
  /\ UNCHANGED <<config, pusher>>

\* The function is found; or there is an error, or no function; or a function without
\* Runtime, as that of a container image: its dereference panics.  The request is not
\* made under the context.
GetFunction ==
  /\ \/ Goes("function", "worker")
     \/ Fails("function", "ClientError")
     \/ Goes("function", "panicked")
  /\ UNCHANGED <<config, pusher>>

\* NewWorker and Start.  In the kinesis mode NewPusher panics if it gets no AWS session.
StartWorker ==
  \/ /\ at = "worker"
     /\ at' = "subscribe"
     /\ pusher' = [mode |-> config.PusherMode, endpoint |-> EndpointOf(config)]
     /\ ServerStarts
     /\ UNCHANGED <<env, config, expired, failed, error, refused, told>>
  \/ /\ Goes("worker", "panicked")
     /\ config.PusherMode = "kinesis"
     /\ UNCHANGED <<config, pusher>>

\* Mutation: the worker goes on when the subscription has failed.
SubscribeWithoutStop ==
  /\ \/ ~expired /\ Goes("subscribe", "running")
     \/ /\ at = "subscribe"
        /\ failed' = "subscribe"
        /\ error' = "SubscribeError"
        /\ at' = "report"
        /\ UNCHANGED <<serverVars, env, expired, refused, told>>
  /\ UNCHANGED <<config, pusher>>

Subscribe ==
  /\ \/ ~expired /\ Goes("subscribe", "running")
     \/ Fails("subscribe", "SubscribeError")
  /\ UNCHANGED <<config, pusher>>

\* InitTimeout is over.
Expires ==
  /\ ~expired
  /\ at \in Step \cup {"worker"} \/ failed # "none"
  /\ expired' = TRUE
  /\ UNCHANGED <<serverVars, env, at, config, pusher, failed, error, refused, told>>

\* InitError, under the same context, and os.Exit(1)
InitError ==
  /\ at = "report"
  /\ at' = "exit"
  /\ \/ ~expired /\ told' = Append(told, error) /\ UNCHANGED refused
     \/ refused' = TRUE /\ UNCHANGED told
  /\ UNCHANGED <<serverVars, env, config, pusher, expired, failed, error>>

-----------------------------------------------------------------------------
(***************************************************************************)
(* Worker.Stop, after a failed subscription or at the end of the life of   *)
(* the extension.  What it does to processor and pusher is in Extension.   *)
(***************************************************************************)

CallStop ==
  /\ Goes("running", "stopSleep")
  /\ UNCHANGED <<config, pusher>>

StopServer ==
  /\ at = "stopSleep"
  /\ at' = "stopServer"
  /\ StopCallsShutdown
  /\ UNCHANGED <<env, config, pusher, expired, failed, error, refused, told>>

StopProcessor ==
  /\ in["stop"] = "out"
  /\ Goes("stopServer", "stopProcessor")
  /\ UNCHANGED <<config, pusher>>

StopPusher ==
  /\ Goes("stopProcessor", "stopPusher")
  /\ UNCHANGED <<config, pusher>>

StopReturns ==
  /\ Goes("stopPusher", IF failed = "none" THEN "over" ELSE "report")
  /\ UNCHANGED <<config, pusher>>

ServerRuns == ServerSteps /\ UNCHANGED <<env, at, config, pusher, expired, failed, error, refused, told>>

\* A process that has ended does nothing.
Next ==
  /\ ~Ended
  /\ \/ Register \/ Configure \/ NewAWSClient \/ GetFunction \/ StartWorker \/ Subscribe
     \/ Expires \/ InitError
     \/ CallStop \/ StopServer \/ StopProcessor \/ StopPusher \/ StopReturns
     \/ ServerRuns

Spec == Init /\ [][Next]_vars

-----------------------------------------------------------------------------

\* The types: above all, only valid log types are ever subscribed to.
TypeOK ==
  /\ ServerTypeOK
  /\ env \in Env
  /\ at \in Label
  /\ config \in Configuration \cup {NoConfig}
  /\ pusher \in [mode : Mode, endpoint : {"", "ed", "firehose"}] \cup {NoPusher}
  /\ expired \in BOOLEAN
  /\ failed \in Step \cup {"none"}
  /\ error \in ErrorType \cup {"none"}
  /\ refused \in BOOLEAN
  /\ told \in Seq(ErrorType)

\* What the API is told is the failure that it was, once.  The process ends without
\* having told it anything only
\*  - by Stop, when the start went well;
\*  - when the API cannot be told: InitTimeout, whose end may be the failure, also ends
\*    the report of it, or the API does not take the report;
\*  - by a panic of the start, which takes ED_FORWARD_LAMBDA_TAGS or the kinesis mode;
\*  - by the nil dereference of SecondShutdownHarmless, when Stop follows a subscription
\*    that failed, or later.
FailureReported ==
  /\ told # <<>> => told = <<FunctionErrorType(failed)>>
  /\ Ended /\ told = <<>> =>
       \/ at = "over" /\ failed = "none"
       \/ at = "exit" /\ (expired \/ refused)
       \/ at = "panicked" /\ (env.ED_FORWARD_LAMBDA_TAGS \/ env.PUSHER_MODE = "kinesis")
       \/ crashed /\ failed \in {"none", "subscribe"} /\ (overlap \/ listener = "new")

\* The processor, which closes the channel that handlers send on, is stopped only when
\* the server takes no more requests, whoever has shut it down; and the process does
\* not exit with a worker that was started and not stopped.
ShutBeforeClosed ==
  /\ at \in {"stopProcessor", "stopPusher", "over"} => http = "shut"
  /\ at \in {"report", "exit"} /\ pusher # NoPusher => http = "shut"

\* The pusher sends to the backend that the environment asks for, and never to an
\* empty endpoint: GetConfigAndValidate and NewPusher, which choose the endpoint one
\* after the other, agree about a mode that is unset.
EndpointOfMode ==
  pusher # NoPusher =>
    pusher = IF env.PUSHER_MODE = "kinesis"
             THEN [mode |-> "kinesis", endpoint |-> "firehose"]
             ELSE [mode |-> "http", endpoint |-> "ed"]

\* A second Shutdown is harmless, as long as it does not overlap the first; and the
\* goroutine of Start must have run before Stop shuts the server down.  Otherwise nil
\* is dereferenced.
SecondShutdownHarmless == crashed => overlap \/ listener = "new"

-----------------------------------------------------------------------------
(***************************************************************************)
(* The inductive invariant that the proofs of module StartUpProofs use.    *)
(***************************************************************************)

\* What main has when it is where it is: a valid configuration as soon as it goes on
\* from Configure, a worker from StartWorker on, and, if it is to report a failure, its
\* type.  Nothing is told before the end.
Progress ==
  /\ at \in {"client", "function", "worker"} => IsValid(env) /\ config = GetConfig(env)
  /\ at \in {"register", "config", "client", "function", "worker"} =>
       pusher = NoPusher /\ listener = "none"
  /\ pusher # NoPusher => listener # "none"
  /\ at \in {"subscribe", "running"} => listener # "none"
  /\ at \in {"stopSleep", "stopServer", "stopProcessor", "stopPusher"} => listener # "none"
  /\ at \in {"client", "function"} => env.ED_FORWARD_LAMBDA_TAGS
  /\ at \in Step \cup {"worker", "running"} => failed = "none"
  /\ listener # "none" => failed \in {"none", "subscribe"}
  /\ ~Ended => told = <<>>
  /\ at = "report" => failed # "none" /\ error = FunctionErrorType(failed)
  /\ at \in {"stopSleep", "stopServer", "stopProcessor", "stopPusher"} /\ failed # "none" =>
       error = FunctionErrorType(failed)

\* What main and the listener have done to the server so far: Shutdown forgets it only
\* after it was shut down, and only another Shutdown can see that in between.
ServerStates ==
  /\ listener = "none" => \A c \in Caller : in[c] = "out"
  /\ field = "nil" /\ listener # "none" => http = "shut"
  /\ \A c \in Caller : in[c] = "wait" => http = "shut"
  /\ at = "stopServer" /\ in["stop"] = "out" => http = "shut"
  /\ (\A c \in Caller : in[c] # "out") => overlap
  /\ \A c \in Caller : in[c] = "call" => field = "server" \/ overlap

IndInv ==
  /\ TypeOK /\ Progress /\ ServerStates
  /\ FailureReported /\ ShutBeforeClosed /\ EndpointOfMode /\ SecondShutdownHarmless

=============================================================================
