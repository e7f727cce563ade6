------------------------------- MODULE MCFlush --------------------------------
(***************************************************************************)
(* Flush on a small instance: payloads of up to three records.             *)
(***************************************************************************)
EXTENDS Flush

\* A record of n bytes, its separator included.
RecordOf(n) == [i \in 1..n |-> IF i = n THEN Sep ELSE "x"]

Sizes == {2, 12}

MCPayloads ==
  {RecordOf(a) : a \in Sizes}
  \cup {RecordOf(a) \o RecordOf(b) : a, b \in Sizes}
  \cup {RecordOf(a) \o RecordOf(b) \o RecordOf(c) : a, b, c \in Sizes}

MCBufferSizes == {-10, 0, 10, 20}

\* Stop may find no time left, exactly none, or some.
MCStopTimeouts == {-1, 0, 1}

=============================================================================
