------------------------------- MODULE Config --------------------------------
(***************************************************************************)
(* The configuration (cfg/config.go): what GetConfigAndValidate makes of   *)
(* the environment variables, and the endpoint that NewPusher takes from   *)
(* it.  An endpoint is "" or the name of the backend it belongs to, and of *)
(* a number it is told only where it comes from.                           *)
(***************************************************************************)

CONSTANT Numbers  \* the environment variables that have to be numbers

Mode == {"http", "kinesis"}
ValidLogTypes == {"function", "platform", "extension"}

\* The environment.  logTypes is the list ED_LAMBDA_LOG_TYPES, unset if empty.
Env ==
  [PUSHER_MODE : Mode \cup {"", "other"},
   ED_ENDPOINT : {"", "ed"},
   KINESIS_ENDPOINT : {"", "firehose"},
   number : [Numbers -> {"unset", "number", "text"}],
   logTypes : SUBSET (ValidLogTypes \cup {"unknown"}),
   ED_FORWARD_LAMBDA_TAGS : BOOLEAN,
   ED_FLUSH_AT_NEXT_INVOKE : BOOLEAN]

\* A mode that is unset or invalid becomes "http"; the invalid one is an error as well.
PusherMode(env) == IF env.PUSHER_MODE \in Mode THEN env.PUSHER_MODE ELSE "http"

\* Mutation: the endpoint is looked for before the mode has its default.
MissesEndpointOfVariable(env) ==
  \/ env.PUSHER_MODE = "http" /\ env.ED_ENDPOINT = ""
  \/ env.PUSHER_MODE = "kinesis" /\ env.KINESIS_ENDPOINT = ""

\* The endpoint of the mode is missing: GetConfigAndValidate returns at once.
MissesEndpoint(env) ==
  \/ PusherMode(env) = "http" /\ env.ED_ENDPOINT = ""
  \/ PusherMode(env) = "kinesis" /\ env.KINESIS_ENDPOINT = ""

\* Mutation: log types that are not valid are kept.
AllLogTypes(env) == IF env.logTypes = {} THEN {"platform", "function"} ELSE env.logTypes

UsableLogTypes(env) ==
  IF env.logTypes = {} THEN {"platform", "function"} ELSE env.logTypes \cap ValidLogTypes

\* What multiErr has a message about.
Errors(env) ==
  ({env.PUSHER_MODE} \ (Mode \cup {""})) \cup (env.logTypes \ ValidLogTypes)
    \cup {n \in Numbers : env.number[n] = "text"}

\* A number that does not parse leaves its field as it is: 0, or the default if the
\* field has one already.
NumberOf(env, n) ==
  CASE env.number[n] = "unset" -> "default"
    [] env.number[n] = "number" -> "given"
    [] env.number[n] = "text" -> "untouched"

Configuration ==
  [PusherMode : Mode, EDEndpoint : {"", "ed"}, KinesisEndpoint : {"", "firehose"},
   number : [Numbers -> {"default", "given", "untouched"}],
   LogTypes : SUBSET ValidLogTypes, ForwardTags : BOOLEAN, FlushAtNextInvoke : BOOLEAN]

GetConfig(env) ==
  [PusherMode |-> PusherMode(env),
   EDEndpoint |-> env.ED_ENDPOINT,
   KinesisEndpoint |-> env.KINESIS_ENDPOINT,
   number |-> [n \in Numbers |-> NumberOf(env, n)],
   LogTypes |-> UsableLogTypes(env),
   ForwardTags |-> env.ED_FORWARD_LAMBDA_TAGS,
   FlushAtNextInvoke |-> env.ED_FLUSH_AT_NEXT_INVOKE]

IsValid(env) == ~MissesEndpoint(env) /\ Errors(env) = {}

\* The endpoint of the pusher that NewPusher makes.
EndpointOf(config) ==
  IF config.PusherMode = "kinesis" THEN config.KinesisEndpoint ELSE config.EDEndpoint

=============================================================================
