-------------------------------- MODULE Flush ---------------------------------
(***************************************************************************)
(* A push with what its caller does with the outcome: flush returns the    *)
(* payload that it could not send to run, cut if it is over the buffer     *)
(* size; the others go on without it.  Module Pusher takes all this as     *)
(* one step; what it supposes of that step is checked and proved here.     *)
(***************************************************************************)
EXTENDS Push, Payload

CONSTANTS
  Payloads,    \* the payloads: sequences of whole records
  BufferSizes  \* the values of ED_BUFFER_SIZE_MB in bytes

ASSUME FlushAssumption ==
  /\ Payloads \subseteq {p \in Seq(Byte) : p # <<>> /\ IsWhole(p)}
  /\ BufferSizes \subseteq Int

VARIABLES
  bufferSize,  \* Pusher.bufferSize
  payload,     \* the parameter of flush
  resp         \* what flush sent on flushRespC, as a sequence of at most one

vars == <<pushVars, bufferSize, payload, resp>>

\* Stands in for an answer when there is none.
Panic == <<"panic">>

Init ==
  /\ PushInit
  /\ bufferSize \in BufferSizes
  /\ payload \in Payloads
  /\ resp = <<>>

Pushes == PushSteps /\ UNCHANGED <<bufferSize, payload, resp>>

Cancelled == CtxIsDone /\ UNCHANGED <<bufferSize, payload, resp>>

\* Mutation: flush answers only when it has something to return.
RespondsIfFailed ==
  /\ caller = "flush"
  /\ at = "failed"
  /\ resp = <<>>
  /\ resp' = IF CutPanics(payload, bufferSize) THEN <<Panic>>
             ELSE <<Cut(payload, bufferSize)>>
  /\ UNCHANGED <<pushVars, bufferSize, payload>>

\* Mutation: flush goes on after it has returned the payload, and sends nil as well.
RespondsAgain ==
  /\ caller = "flush"
  /\ Returned
  /\ Len(resp) < 2
  /\ resp' = IF at = "failed" /\ resp = <<>>
             THEN <<IF CutPanics(payload, bufferSize) THEN Panic ELSE Cut(payload, bufferSize)>>
             ELSE Append(resp, <<>>)
  /\ UNCHANGED <<pushVars, bufferSize, payload>>

\* flushRespC <- nil, or what is left of the payload; or the cut panics.
Responds ==
  /\ caller = "flush"
  /\ Returned
  /\ resp = <<>>
  /\ resp' = IF at = "ok" THEN << <<>> >>
             ELSE IF CutPanics(payload, bufferSize) THEN <<Panic>>
             ELSE <<Cut(payload, bufferSize)>>
  /\ UNCHANGED <<pushVars, bufferSize, payload>>

Next == Pushes \/ Cancelled \/ Responds

Spec == Init /\ [][Next]_vars

\* The clock ticks, a request ends with its context, and a goroutine that can run
\* runs.  That the context is cancelled is not required.
FairSpec == Spec /\ WF_vars(Pushes \/ Responds)

-----------------------------------------------------------------------------
(***************************************************************************)
(* Properties.                                                             *)
(***************************************************************************)

\* The types: above all, the times are never negative, although a limit may be.
TypeOK ==
  /\ caller \in Caller
  /\ limit \in Int
  /\ pushTimeout \in Nat
  /\ retryInterval \in Nat
  /\ now \in Nat
  /\ at \in At
  /\ began \in Nat
  /\ request \in Request
  /\ interval \in Nat
  /\ wake \in Nat
  /\ ctxDone \in BOOLEAN
  /\ live \in BOOLEAN
  /\ taken \in BOOLEAN
  /\ bufferSize \in Int
  /\ payload \in Seq(Byte)
  /\ Len(resp) \in 0..1

Limit == IF limit > 0 THEN limit ELSE 0

\* A request that fails just before the limit is followed by a wait, whose interval has
\* grown with the time passed, ...
LastWake == Limit + (3 * (Limit + retryInterval) + 1) \div 2

\* ... and by one more request.
LastMoment == LastWake + pushTimeout

\* A push returns by a time that depends on its parameters only, which is well after
\* its limit; if the limit was over when it was called, after a single request.
EndsInTime ==
  /\ limit # 0 => now <= LastMoment
  /\ limit < 0 => now <= pushTimeout /\ at # "wait"

\* push reports success only if the backend took the payload, so the pusher forgets no
\* record that is not there; it may report failure although the backend took it.
OkMeansTaken == at = "ok" => taken

\* A flush whose context was done when it began sends nothing, not even when it keeps
\* trying: module Pusher lets only live flushes succeed.
DoneNeverSends == ~live => ~taken /\ at # "ok" /\ now = 0

\* q is p, or, if p is oversized, all of it but its first bytes: whole records, of which
\* no fewer and no more are dropped than it takes to drop more than a tenth of size.
KeepsWhole(p, size, q) ==
  LET dropped == Len(p) - Len(q)
  IN /\ q = SubSeq(p, dropped + 1, Len(p))
     /\ dropped = 0 <=> ~IsOversized(p, size)
     /\ dropped # 0 => /\ dropped > Start(size)
                       /\ p[dropped] = Sep
                       /\ \A i \in (Start(size) + 1)..(dropped - 1) : p[i] # Sep

\* What goes back to run is the payload that was not sent, less only whole records, and
\* no more of them than needed.  Only a negative buffer size makes the cut panic.
WholeRecords ==
  \A k \in DOMAIN resp :
    IF resp[k] = Panic THEN bufferSize < 0
    ELSE at = "failed" => KeepsWhole(payload, bufferSize, resp[k])

\* All records of p have the given size.
AllOfSize(p, size) == \A i \in 1..Len(p) : p[i] = Sep <=> i % size = 0

\* Module Pusher's arithmetic on the number of records is right when they have the
\* same size.
CutCountsRecords ==
  \A k \in DOMAIN resp : \A size \in 1..Len(payload) :
    /\ AllOfSize(payload, size)
    /\ at = "failed" /\ resp[k] # Panic
    /\ IsOversized(payload, bufferSize)
    => Len(resp[k]) = Len(payload) - size * RecordsDropped(size, bufferSize)

\* A push with a limit returns, and flush answers run: this is what module Pusher
\* supposes with its fairness.
FlushEnds == limit # 0 ~> Returned /\ (caller = "flush" => resp # <<>>)

-----------------------------------------------------------------------------
(***************************************************************************)
(* The inductive invariant that the proofs of module FlushProofs use.      *)
(***************************************************************************)

\* The interval has never grown by more than the time that has passed: a wait is at
\* least half the interval, by which the interval then grows.
IntervalIsTime ==
  /\ at = "attempt" => interval <= began + retryInterval
  /\ at = "wait" => interval <= wake + retryInterval

\* Requests and waits are within their bounds.
Timed ==
  /\ at = "attempt" => /\ began <= now /\ now <= began + pushTimeout
                       /\ limit # 0 => began <= LastWake
                       /\ limit < 0 => began = 0
  /\ at = "wait" => /\ now <= wake
                    /\ limit >= 0
                    /\ limit # 0 => wake <= LastWake

\* The context and the limit of each caller, and what they exclude.
Called ==
  /\ caller = "flush" => limit # 0
  /\ caller # "flush" => ~ctxDone
  /\ ~live => ctxDone /\ request = "out" /\ at # "wait"
  /\ request = "taken" => taken

\* flush answers once it has the outcome, about a payload of whole records, and with
\* what is left of it only if the cut did not panic.
Answered ==
  /\ payload # <<>> /\ IsWhole(payload)
  /\ resp # <<>> => Returned
  /\ \A k \in DOMAIN resp :
       at = "failed" /\ resp[k] # Panic =>
         resp[k] \in Seq(Byte) /\ ~CutPanics(payload, bufferSize)

IndInv ==
  /\ TypeOK /\ IntervalIsTime /\ Timed /\ Called /\ Answered
  /\ EndsInTime /\ OkMeansTaken /\ DoneNeverSends /\ WholeRecords

=============================================================================
