---------------------------- MODULE StartUpProofs ----------------------------
(***************************************************************************)
(* Proofs about StartUp, for every environment and any set of environment  *)
(* variables that have to be numbers.                                      *)
(***************************************************************************)
EXTENDS StartUp, SequenceTheorems, TLAPS

-----------------------------------------------------------------------------
(***************************************************************************)
(* The configuration.                                                      *)
(***************************************************************************)

\* Whatever the environment is, what is made of it is a configuration: its mode is one
\* of the two, and only valid log types are in it.
LEMMA ConfigTyped ==
  ASSUME NEW e \in Env
  PROVE  GetConfig(e) \in Configuration
<1>1. PusherMode(e) \in Mode
  BY DEF PusherMode, Mode
<1>2. UsableLogTypes(e) \subseteq ValidLogTypes
  BY DEF UsableLogTypes, ValidLogTypes
<1>3. [n \in Numbers |-> NumberOf(e, n)] \in [Numbers -> {"default", "given", "untouched"}]
  <2>1. ASSUME NEW n \in Numbers
        PROVE  NumberOf(e, n) \in {"default", "given", "untouched"}
    <3>1. e.number[n] \in {"unset", "number", "text"}
      BY DEF Env
    <3> QED
      BY <3>1 DEF NumberOf
  <2> QED
    BY <2>1
<1> QED
  BY <1>1, <1>2, <1>3 DEF GetConfig, Configuration, Env

\* The endpoint that a valid configuration leads to is that of the mode asked for.
LEMMA ValidEndpoint ==
  ASSUME NEW e \in Env, IsValid(e)
  PROVE  LET c == GetConfig(e)
         IN [mode |-> c.PusherMode, endpoint |-> EndpointOf(c)] =
              IF e.PUSHER_MODE = "kinesis"
              THEN [mode |-> "kinesis", endpoint |-> "firehose"]
              ELSE [mode |-> "http", endpoint |-> "ed"]
<1>1. /\ e.PUSHER_MODE \in Mode \cup {"", "other"}
      /\ e.ED_ENDPOINT \in {"", "ed"}
      /\ e.KINESIS_ENDPOINT \in {"", "firehose"}
  BY DEF Env
<1>2. PusherMode(e) = IF e.PUSHER_MODE = "kinesis" THEN "kinesis" ELSE "http"
  BY <1>1 DEF PusherMode, Mode
<1>3. /\ PusherMode(e) = "http" => e.ED_ENDPOINT = "ed"
      /\ PusherMode(e) = "kinesis" => e.KINESIS_ENDPOINT = "firehose"
  BY <1>1 DEF IsValid, MissesEndpoint
<1> QED
  BY <1>2, <1>3 DEF GetConfig, EndpointOf

-----------------------------------------------------------------------------
(***************************************************************************)
(* The types.                                                              *)
(***************************************************************************)

\* The server's steps keep its types.
LEMMA ServerTyped ==
  ASSUME ServerTypeOK,
         ServerSteps \/ ServerStarts \/ StopCallsShutdown \/ UNCHANGED serverVars
  PROVE  ServerTypeOK'
<1> USE DEF ServerTypeOK, InLabel, ListenerLabel
<1>1. CASE Listens
  BY <1>1 DEF Listens, Crashes
<1>2. CASE ServingEnds \/ ServerStarts
  BY <1>2 DEF ServingEnds, ServerStarts
<1>3. ASSUME NEW c \in Caller, NEW to \in InLabel, Moves(c, to)
      PROVE  in' \in [Caller -> InLabel] /\ overlap' \in BOOLEAN
  BY <1>3 DEF Moves
<1>4. CASE ListenerCallsShutdown \/ StopCallsShutdown
  <2>1. "listener" \in Caller /\ "stop" \in Caller
    BY DEF Caller
  <2> QED
    BY <1>3, <1>4, <2>1 DEF ListenerCallsShutdown, StopCallsShutdown
<1>5. ASSUME NEW c \in Caller, Enters(c) \/ Calls(c) \/ Returns(c)
      PROVE  ServerTypeOK'
  <2>1. CASE Enters(c)
    BY <1>3, <2>1 DEF Enters
  <2>2. CASE Calls(c)
    BY <1>3, <2>2 DEF Calls, Crashes
  <2>3. CASE Returns(c)
    BY <1>3, <2>3 DEF Returns
  <2> QED
    BY <1>5, <2>1, <2>2, <2>3
<1>6. CASE UNCHANGED serverVars
  BY <1>6 DEF serverVars
<1> QED
  BY <1>1, <1>2, <1>4, <1>5, <1>6 DEF ServerSteps

\* A step of main on its own goes on from one label to the next, or fails.
LEMMA NextTyped == TypeOK /\ Progress /\ [Next]_vars => TypeOK'
<1> SUFFICES ASSUME TypeOK, Progress, [Next]_vars
             PROVE  TypeOK'
  OBVIOUS
<1> USE DEF TypeOK, Label, Step
<1>0. {"RegisterError", "ConfigError", "ClientError", "SubscribeError"} = ErrorType
  BY DEF ErrorType
<1>1. CASE Register \/ NewAWSClient \/ GetFunction \/ Subscribe \/ CallStop \/ StopProcessor
           \/ StopPusher \/ StopReturns
  <2>1. ServerTypeOK'
    BY <1>1, ServerTyped DEF Register, NewAWSClient, GetFunction, Subscribe, CallStop,
       StopProcessor, StopPusher, StopReturns, Goes, Fails
  <2> QED
    BY <1>0, <1>1, <2>1 DEF Register, NewAWSClient, GetFunction, Subscribe, CallStop,
       StopProcessor, StopPusher, StopReturns, Goes, Fails
<1>2. CASE Configure
  <2>1. ServerTypeOK'
    BY <1>2, ServerTyped DEF Configure, Goes, Fails
  <2>2. config' \in Configuration \cup {NoConfig}
    BY <1>2, ConfigTyped DEF Configure
  <2> QED
    BY <1>0, <1>2, <2>1, <2>2 DEF Configure, Goes, Fails
<1>3. CASE StartWorker
  <2>1. ServerTypeOK'
    BY <1>3, ServerTyped DEF StartWorker, Goes
  <2>2. config = GetConfig(env) /\ IsValid(env)
    BY <1>3 DEF StartWorker, Goes, Progress
  <2>3. [mode |-> config.PusherMode, endpoint |-> EndpointOf(config)]
          \in [mode : Mode, endpoint : {"", "ed", "firehose"}]
    BY <2>2, ValidEndpoint DEF Mode
  <2> QED
    BY <1>3, <2>1, <2>3 DEF StartWorker, Goes
<1>4. CASE Expires \/ StopServer \/ ServerRuns \/ UNCHANGED vars
  <2>1. ServerTypeOK'
    BY <1>4, ServerTyped DEF Expires, StopServer, ServerRuns, vars
  <2> QED
    BY <1>4, <2>1 DEF Expires, StopServer, ServerRuns, vars
<1>5. CASE InitError
  <2>1. ServerTypeOK'
    BY <1>5, ServerTyped DEF InitError
  <2>2. error \in ErrorType
    <3>1. failed \in Step /\ error = FunctionErrorType(failed)
      BY <1>5 DEF InitError, Progress
    <3>2. \A s \in Step : FunctionErrorType(s) \in ErrorType
      BY DEF FunctionErrorType, ErrorType
    <3> QED
      BY <3>1, <3>2
  <2>3. told' \in Seq(ErrorType)
    <3>1. told' = told \/ told' = Append(told, error)
      BY <1>5 DEF InitError
    <3>2. told \in Seq(ErrorType)
      OBVIOUS
    <3>3. Append(told, error) \in Seq(ErrorType)
      <4> HIDE DEF TypeOK
      <4> QED
        BY <2>2, <3>2, AppendProperties
    <3> QED
      BY <3>1, <3>2, <3>3
  <2> QED
    BY <1>5, <2>1, <2>3 DEF InitError
<1> QED
  BY <1>1, <1>2, <1>3, <1>4, <1>5 DEF Next

-----------------------------------------------------------------------------
(***************************************************************************)
(* Where main is, and what it has.                                         *)
(***************************************************************************)

\* The goroutines of the server leave the start as far as it is.
LEMMA ServerLeavesProgress ==
  ASSUME Progress, ServerRuns
  PROVE  Progress'
<1>1. UNCHANGED <<env, at, config, pusher, failed, error, told>> /\ (Ended => Ended')
  BY DEF ServerRuns, ServerSteps, Listens, Crashes, ServingEnds, ListenerCallsShutdown,
     Enters, Calls, Returns, Ended
<1>2. listener # "none" <=> listener' # "none"
  BY DEF ServerRuns, ServerSteps, Listens, Crashes, ServingEnds, ListenerCallsShutdown, Enters,
     Calls, Returns
<1> QED
  BY <1>1, <1>2 DEF Progress

LEMMA NextProgress == TypeOK /\ Progress /\ [Next]_vars => Progress'
<1> SUFFICES ASSUME TypeOK, Progress, [Next]_vars
             PROVE  Progress'
  OBVIOUS
<1> USE DEF Progress, Step
<1>1. CASE Register \/ NewAWSClient \/ GetFunction \/ Subscribe \/ CallStop \/ StopProcessor
           \/ StopPusher
  BY <1>1 DEF Register, NewAWSClient, GetFunction, Subscribe, CallStop, StopProcessor,
     StopPusher, Goes, Fails, serverVars, FunctionErrorType, Ended
<1>2. CASE Configure
  BY <1>2 DEF Configure, Goes, Fails, IsValid, serverVars, FunctionErrorType, Ended
<1>3. CASE StartWorker \/ StopReturns
  BY <1>3 DEF StartWorker, StopReturns, Goes, ServerStarts, serverVars, Ended
<1>4. CASE StopServer \/ Expires \/ InitError \/ UNCHANGED vars
  BY <1>4 DEF StopServer, StopCallsShutdown, Expires, InitError, vars, serverVars, Ended
<1> QED
  BY <1>1, <1>2, <1>3, <1>4, ServerLeavesProgress DEF Next

-----------------------------------------------------------------------------
(***************************************************************************)
(* The server.                                                             *)
(***************************************************************************)

\* A caller that moves finds its own label changed and the other's as it was.
LEMMA Moving ==
  ASSUME ServerTypeOK, NEW c \in Caller, NEW to, Moves(c, to)
  PROVE  /\ in'[c] = to
         /\ \A d \in Caller \ {c} : in'[d] = in[d]
         /\ (\A d \in Caller : in'[d] # "out") => overlap'
         /\ overlap => overlap'
  BY DEF Moves, ServerTypeOK

\* The steps that call Shutdown, or go on in it, keep what is known of the server.
LEMMA ShutdownKeeps ==
  ASSUME ServerTypeOK, ServerStates, at' = at,
         NEW c \in Caller, Enters(c) \/ Calls(c) \/ Returns(c), at = "stopServer" => listener # "none"
  PROVE  ServerStates'
<1> USE Moving DEF ServerStates, ServerTypeOK
<1>0. "stop" \in Caller /\ listener # "none" /\ listener' = listener
  BY DEF Caller, Enters, Calls, Returns, Crashes
<1>1. CASE Enters(c)
  <2>1. UNCHANGED <<field, http, listener>>
    BY <1>1 DEF Enters
  <2>2. CASE field = "nil"
    <3>1. Moves(c, "out")
      BY <1>1, <2>2 DEF Enters
    <3> QED
      BY <1>0, <2>1, <2>2, <3>1
  <2>3. CASE field = "server"
    <3>1. Moves(c, "call")
      BY <1>1, <2>3 DEF Enters
    <3> QED
      BY <1>0, <2>1, <2>3, <3>1
  <2> QED
    BY <2>2, <2>3
<1>2. CASE Calls(c)
  <2>1. CASE Crashes
    BY <1>0, <2>1 DEF Crashes
  <2>2. CASE field = "server" /\ http' = "shut" /\ Moves(c, "wait") /\ UNCHANGED <<field, listener>>
    BY <1>0, <2>2
  <2> QED
    BY <1>2, <2>1, <2>2 DEF Calls
<1>3. CASE Returns(c)
  <2>1. /\ in[c] = "wait" /\ http = "shut" /\ http' = "shut"
        /\ Moves(c, "out")
    BY <1>3 DEF Returns
  <2>2. \A d \in Caller : in'[d] = "call" => d # c /\ in[d] = "call"
    BY <2>1
  <2>3. \A d \in Caller : in'[d] = "call" => overlap'
    <3> SUFFICES ASSUME NEW d \in Caller, in'[d] = "call"
                 PROVE  overlap'
      OBVIOUS
    <3>1. d # c /\ in[d] = "call"
      BY <2>2
    <3>2. \A b \in Caller : b = c \/ b = d
      BY <3>1 DEF Caller
    <3>3. overlap
      BY <2>1, <3>1, <3>2
    <3> QED
      BY <2>1, <3>3
  <2>4. \A d \in Caller : in'[d] = "wait" => http' = "shut"
    BY <2>1
  <2> QED
    BY <1>0, <2>1, <2>3, <2>4
<1> QED
  BY <1>1, <1>2, <1>3

LEMMA NextServer == TypeOK /\ Progress /\ ServerStates /\ [Next]_vars => ServerStates'
<1> SUFFICES ASSUME TypeOK, Progress, ServerStates, [Next]_vars
             PROVE  ServerStates'
  OBVIOUS
<1>0. ServerTypeOK /\ "listener" \in Caller /\ "stop" \in Caller
  BY DEF TypeOK, Caller
<1>1. CASE Register \/ Configure \/ NewAWSClient \/ GetFunction \/ Subscribe \/ CallStop
           \/ StopProcessor \/ StopPusher \/ StopReturns
  <2>1. UNCHANGED serverVars /\ at' # "stopServer"
    BY <1>1 DEF Register, Configure, NewAWSClient, GetFunction, Subscribe, CallStop,
       StopProcessor, StopPusher, StopReturns, Goes, Fails
  <2> QED
    BY <2>1 DEF ServerStates, serverVars
<1>2. CASE Expires \/ InitError \/ UNCHANGED vars
  <2>1. UNCHANGED serverVars /\ (at' = at \/ at' = "exit")
    BY <1>2 DEF Expires, InitError, vars
  <2> QED
    BY <2>1 DEF ServerStates, serverVars
<1>3. CASE StartWorker
  BY <1>3 DEF StartWorker, ServerStarts, ServerStates, Goes, serverVars
<1>4. CASE StopServer
  <2>1. Moves("stop", "enter") /\ UNCHANGED <<field, http, listener>> /\ listener # "none"
    BY <1>4 DEF StopServer, StopCallsShutdown, Progress
  <2> QED
    BY <1>0, <2>1, Moving DEF ServerStates
<1>5. CASE ServerRuns
  <2>1. at' = at /\ (at = "stopServer" => listener # "none")
    BY <1>5 DEF ServerRuns, Progress
  <2>2. CASE Listens
    BY <2>1, <2>2 DEF Listens, Crashes, ServerStates
  <2>3. CASE ServingEnds
    BY <2>1, <2>3 DEF ServingEnds, ServerStates
  <2>4. CASE ListenerCallsShutdown
    <3>1. /\ Moves("listener", "enter") /\ UNCHANGED <<field, http>>
          /\ listener # "none" /\ listener' # "none"
      BY <2>4 DEF ListenerCallsShutdown
    <3> QED
      BY <1>0, <2>1, <3>1, Moving DEF ServerStates
  <2> QED
    BY <1>0, <1>5, <2>1, <2>2, <2>3, <2>4, ShutdownKeeps DEF ServerRuns, ServerSteps
<1> QED
  BY <1>1, <1>2, <1>3, <1>4, <1>5 DEF Next

-----------------------------------------------------------------------------
(***************************************************************************)
(* What the steps may not spoil.                                           *)
(***************************************************************************)

\* A process that crashes has its worker, so that at most the subscription has failed.
LEMMA CrashesLate ==
  ASSUME Progress, ServerStates, ServerSteps, ~crashed, crashed'
  PROVE  failed \in {"none", "subscribe"}
<1>1. listener # "none"
  BY DEF ServerSteps, Listens, Crashes, ServingEnds, ListenerCallsShutdown, Enters, Calls,
     Returns, ServerStates
<1> QED
  BY <1>1 DEF Progress

\* Until the process ends, nothing has been told; InitError tells what failed last, and
\* ends it.
LEMMA NextReported ==
  ASSUME TypeOK, Progress, ServerStates, FailureReported, SecondShutdownHarmless', [Next]_vars
  PROVE  FailureReported'
<1>1. CASE UNCHANGED vars
  BY <1>1 DEF vars, serverVars, FailureReported, Ended
<1>2. CASE Next
  <2>1. ~Ended /\ ~crashed /\ told = <<>>
    BY <1>2 DEF Next, Ended, Progress
  <2>2. CASE InitError
    <3>1. /\ told' = <<error>> \/ (told' = told /\ refused')
          /\ at' = "exit" /\ failed' = failed /\ error = FunctionErrorType(failed)
      BY <2>1, <2>2 DEF InitError, Progress
    <3> QED
      BY <2>1, <3>1 DEF FailureReported
  <2>3. CASE ServerRuns
    <3>1. /\ UNCHANGED <<told, failed, at>> /\ ServerSteps
          /\ at \notin {"exit", "over", "panicked"}
      BY <2>1, <2>3 DEF ServerRuns, Ended
    <3>2. crashed' => failed \in {"none", "subscribe"} /\ (overlap' \/ listener' = "new")
      BY <2>1, <3>1, CrashesLate DEF SecondShutdownHarmless
    <3> QED
      BY <2>1, <3>1, <3>2 DEF FailureReported, Ended
  <2>4. CASE ~InitError /\ ~ServerRuns
    <3>1. /\ told' = told /\ crashed' = crashed /\ env' = env /\ at' # "exit"
          /\ at' = "over" => failed' = "none"
      BY <1>2, <2>1, <2>4 DEF Next, Ended, Register, Configure, NewAWSClient, GetFunction,
         StartWorker, Subscribe, Expires, CallStop, StopServer, StopProcessor, StopPusher,
         StopReturns, Goes, Fails, ServerStarts, StopCallsShutdown, serverVars
    <3>2. at' = "panicked" => env.ED_FORWARD_LAMBDA_TAGS \/ env.PUSHER_MODE = "kinesis"
      <4>1. CASE GetFunction
        BY <4>1 DEF GetFunction, Goes, Fails, Progress
      <4>2. CASE StartWorker
        <5>1. at' = "panicked" => config.PusherMode = "kinesis" /\ config = GetConfig(env)
          BY <4>2 DEF StartWorker, Goes, Progress
        <5> QED
          BY <5>1 DEF GetConfig, PusherMode
      <4>3. CASE ~GetFunction /\ ~StartWorker
        BY <1>2, <2>1, <2>4, <4>3 DEF Next, Ended, Register, Configure, NewAWSClient, Subscribe,
           Expires, CallStop, StopServer, StopProcessor, StopPusher, StopReturns, Goes, Fails
      <4> QED
        BY <4>1, <4>2, <4>3
    <3> QED
      BY <2>1, <3>1, <3>2 DEF FailureReported, Ended
  <2> QED
    BY <2>2, <2>3, <2>4
<1> QED
  BY <1>1, <1>2

\* Once the http.Server is shut it stays so.
LEMMA StaysShut ==
  ASSUME ServerSteps \/ UNCHANGED serverVars, http = "shut"
  PROVE  http' = "shut"
  BY DEF ServerSteps, Listens, Crashes, ServingEnds, ListenerCallsShutdown, Enters, Calls,
     Returns, serverVars

LEMMA NextShut ==
  TypeOK /\ Progress /\ ServerStates /\ ShutBeforeClosed /\ [Next]_vars => ShutBeforeClosed'
<1> SUFFICES ASSUME TypeOK, Progress, ServerStates, ShutBeforeClosed, [Next]_vars
             PROVE  ShutBeforeClosed'
  OBVIOUS
<1> USE DEF ShutBeforeClosed
<1>1. CASE Register \/ Configure \/ NewAWSClient \/ GetFunction
  <2>1. pusher' = NoPusher
    BY <1>1 DEF Register, Configure, NewAWSClient, GetFunction, Goes, Fails, Progress
  <2>2. at' \notin {"stopProcessor", "stopPusher", "over"}
    BY <1>1 DEF Register, Configure, NewAWSClient, GetFunction, Goes, Fails
  <2> QED
    BY <2>1, <2>2
<1>2. CASE StartWorker \/ Subscribe \/ CallStop \/ StopServer
  BY <1>2 DEF StartWorker, Subscribe, CallStop, StopServer, Goes, Fails
<1>3. CASE StopProcessor
  BY <1>3 DEF StopProcessor, Goes, ServerStates, serverVars
<1>4. CASE StopPusher \/ StopReturns \/ InitError
  BY <1>4 DEF StopPusher, StopReturns, InitError, Goes, serverVars
<1>5. CASE Expires \/ ServerRuns \/ UNCHANGED vars
  <2>1. UNCHANGED <<at, pusher>> /\ (http = "shut" => http' = "shut")
    BY <1>5, StaysShut DEF Expires, ServerRuns, vars
  <2> QED
    BY <2>1
<1> QED
  BY <1>1, <1>2, <1>3, <1>4, <1>5 DEF Next

LEMMA NextEndpoint == TypeOK /\ Progress /\ EndpointOfMode /\ [Next]_vars => EndpointOfMode'
<1> SUFFICES ASSUME TypeOK, Progress, EndpointOfMode, [Next]_vars
             PROVE  EndpointOfMode'
  OBVIOUS
<1>1. CASE StartWorker
  <2>1. config = GetConfig(env) /\ IsValid(env) /\ env \in Env
    BY <1>1 DEF StartWorker, Goes, Progress, TypeOK
  <2>2. /\ env' = env
        /\ \/ pusher' = [mode |-> config.PusherMode, endpoint |-> EndpointOf(config)]
           \/ pusher' = pusher
    BY <1>1 DEF StartWorker, Goes
  <2> QED
    BY <2>1, <2>2, ValidEndpoint DEF EndpointOfMode
<1>2. CASE ~StartWorker
  <2>1. UNCHANGED <<env, pusher>>
    BY <1>2 DEF Next, Register, Configure, NewAWSClient, GetFunction, Subscribe, Expires,
       InitError, CallStop, StopServer, StopProcessor, StopPusher, StopReturns, ServerRuns,
       Goes, Fails, vars
  <2> QED
    BY <2>1 DEF EndpointOfMode
<1> QED
  BY <1>1, <1>2

\* A process that has crashed does nothing, and it crashes only where the server is
\* used while there is none.
LEMMA NextHarmless ==
  TypeOK /\ ServerStates /\ SecondShutdownHarmless /\ [Next]_vars => SecondShutdownHarmless'
<1> SUFFICES ASSUME TypeOK, ServerStates, SecondShutdownHarmless, [Next]_vars
             PROVE  SecondShutdownHarmless'
  OBVIOUS
<1>1. CASE UNCHANGED vars
  BY <1>1 DEF vars, serverVars, SecondShutdownHarmless
<1>2. CASE Next
  <2>1. ~crashed
    BY <1>2 DEF Next, Ended
  <2>2. CASE ~ServerRuns
    <3>1. ~crashed'
      BY <1>2, <2>1, <2>2 DEF Next, Register, Configure, NewAWSClient, GetFunction,
         StartWorker, Subscribe, Expires, InitError, CallStop, StopServer, StopProcessor,
         StopPusher, StopReturns, Goes, Fails, ServerStarts, StopCallsShutdown, serverVars
    <3> QED
      BY <3>1 DEF SecondShutdownHarmless
  <2>3. CASE Listens
    BY <2>1, <2>3 DEF Listens, Crashes, SecondShutdownHarmless
  <2>4. CASE ServingEnds \/ ListenerCallsShutdown
    BY <2>1, <2>4 DEF ServingEnds, ListenerCallsShutdown, SecondShutdownHarmless
  <2>5. ASSUME NEW c \in Caller, Enters(c) \/ Calls(c) \/ Returns(c)
        PROVE  SecondShutdownHarmless'
    <3>1. CASE Calls(c) /\ Crashes
      <4>1. overlap
        BY <3>1 DEF Calls, Crashes, ServerStates
      <4> QED
        BY <3>1, <4>1 DEF Crashes, SecondShutdownHarmless
    <3>2. CASE ~(Calls(c) /\ Crashes)
      BY <2>1, <2>5, <3>2 DEF Enters, Calls, Returns, SecondShutdownHarmless
    <3> QED
      BY <3>1, <3>2
  <2> QED
    BY <2>2, <2>3, <2>4, <2>5 DEF ServerRuns, ServerSteps
<1> QED
  BY <1>1, <1>2

-----------------------------------------------------------------------------

\* The invariant holds at the start, ...
LEMMA InitInd == Init => IndInv
<1> SUFFICES ASSUME Init
             PROVE  IndInv
  OBVIOUS
<1> USE DEF Init, ServerInit
<1>1. ServerTypeOK
  BY DEF ServerTypeOK, InLabel, ListenerLabel
<1>2. TypeOK
  <2>1. told \in Seq(ErrorType) /\ error \in ErrorType \cup {"none"}
    OBVIOUS
  <2> QED
    BY <1>1, <2>1 DEF TypeOK, Label
<1>3. Progress
  BY DEF Progress, Ended
<1>4. "stop" \in Caller /\ \A c \in Caller : in[c] = "out"
  BY DEF Caller
<1>5. ServerStates
  BY <1>4 DEF ServerStates
<1>6. FailureReported /\ ShutBeforeClosed /\ EndpointOfMode /\ SecondShutdownHarmless
  BY DEF FailureReported, ShutBeforeClosed, EndpointOfMode, SecondShutdownHarmless, Ended
<1> QED
  BY <1>2, <1>3, <1>5, <1>6 DEF IndInv

\* ... and every step keeps it.
LEMMA NextInd == IndInv /\ [Next]_vars => IndInv'
  BY NextTyped, NextProgress, NextServer, NextReported, NextShut, NextEndpoint, NextHarmless
  DEF IndInv

\* The inductive invariant holds in every behaviour of the start.
THEOREM Inductive == Spec => []IndInv
  BY InitInd, NextInd, PTL DEF Spec

\* Every variable of the start has its type, whatever the environment is.
THEOREM TypeCorrect == Spec => []TypeOK
<1>1. IndInv => TypeOK
  BY DEF IndInv
<1> QED
  BY <1>1, Inductive, PTL

\* However the process ends, it has told the API once what failed, or it ends by Stop
\* after a start that went well, or it is one of the ends where nobody could be told: no
\* time or no answer, a panic of GetFunction or NewPusher, a nil server in Shutdown
\* (startExtension, InitError).
THEOREM FailureIsReported == Spec => []FailureReported
<1>1. IndInv => FailureReported
  BY DEF IndInv
<1> QED
  BY <1>1, Inductive, PTL

\* Whoever shuts the server down, and however the two callers of Producer.Shutdown
\* interleave, Worker.Stop reaches the processor only when the server is shut, and the
\* process never exits with a worker that it left running.
THEOREM ServerShutFirst == Spec => []ShutBeforeClosed
<1>1. IndInv => ShutBeforeClosed
  BY DEF IndInv
<1> QED
  BY <1>1, Inductive, PTL

\* GetConfigAndValidate and NewPusher agree on the endpoint, in every environment.
THEOREM EndpointAgrees == Spec => []EndpointOfMode
<1>1. IndInv => EndpointOfMode
  BY DEF IndInv
<1> QED
  BY <1>1, Inductive, PTL

\* A nil server is dereferenced only if two calls of Shutdown overlap, or if Stop comes
\* before the goroutine of Producer.Start has run.
THEOREM ShutdownTwice == Spec => []SecondShutdownHarmless
<1>1. IndInv => SecondShutdownHarmless
  BY DEF IndInv
<1> QED
  BY <1>1, Inductive, PTL

=============================================================================
