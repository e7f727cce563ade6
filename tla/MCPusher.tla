------------------------------- MODULE MCPusher -------------------------------
(***************************************************************************)
(* Pusher on a small instance: two invocations, two flushes at one time    *)
(* and three records, two of which exceed the buffer size.                 *)
(***************************************************************************)
EXTENDS Pusher, TLC

\* The flush goroutines are alike.
FlushSymmetry == Permutations(Flushes)

=============================================================================
