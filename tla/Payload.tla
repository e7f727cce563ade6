------------------------------- MODULE Payload --------------------------------
(***************************************************************************)
(* What Pusher.flush does to a payload that it could not send              *)
(* (pushers/pusher.go 279-289), byte by byte.  A payload is a sequence of  *)
(* bytes, each of them a separator or not: the processor writes a          *)
(* separator behind every record, and none inside, because JSON escapes    *)
(* it.                                                                     *)
(***************************************************************************)
EXTENDS Integers, Sequences

Sep == "sep"
Byte == {"x", Sep}

\* A sequence of whole records.
IsWhole(p) == p = <<>> \/ p[Len(p)] = Sep

\* Where the loop starts to look for a separator: behind a tenth of the buffer size,
\* which is a whole number of megabytes, so that nothing is rounded.
Start(limit) == limit \div 10

\* Mutation: the loop looks for the separator from the first byte.
SeparatorsOfAll(p, limit) == {i \in 1..Len(p) : p[i] = Sep}

\* The positions of the separators that the loop may stop at.
SeparatorsFrom(p, limit) == {i \in (Start(limit) + 1)..Len(p) : p[i] = Sep}

\* Mutation: the separator itself is kept.
DropsUpToSeparator(p, limit) ==
  LET seps == SeparatorsFrom(p, limit)
  IN IF seps = {} THEN Start(limit)
     ELSE (CHOOSE i \in seps : \A j \in seps : i <= j) - 1

\* How many bytes are dropped: up to the first of these, or, if there is none, up to
\* the tenth itself.
Drops(p, limit) ==
  LET seps == SeparatorsFrom(p, limit)
  IN IF seps = {} THEN Start(limit) ELSE CHOOSE i \in seps : \A j \in seps : i <= j

IsOversized(p, limit) == Len(p) > limit

\* payload[start], the first byte that the loop reads, is out of range: the goroutine
\* panics, and utils.Go panics again, which ends the process.
CutPanics(p, limit) == IsOversized(p, limit) /\ Start(limit) < 0

\* The payload that goes back to run.
Cut(p, limit) ==
  IF IsOversized(p, limit) THEN SubSeq(p, Drops(p, limit) + 1, Len(p)) ELSE p

\* How many records are dropped when all have the same size.
RecordsDropped(size, limit) == (Start(limit) \div size) + 1

=============================================================================
