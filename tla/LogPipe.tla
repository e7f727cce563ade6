------------------------------- MODULE LogPipe -------------------------------
(***************************************************************************)
(* What the pusher promises about log records, with the goroutines,        *)
(* channels and contexts abstracted away.  Records are numbered in the     *)
(* order in which the pusher accepts them.  An accepted record is held     *)
(* until it is either acknowledged by the backend or given up, and it      *)
(* never leaves either of these two final places.  Module Pusher is shown  *)
(* to implement this specification.                                        *)
(***************************************************************************)
EXTENDS Naturals, TLAPS

VARIABLES
  accepted,  \* how many records the pipe has accepted
  held,      \* the numbers of the records it still holds
  sent,      \* the numbers of the records the backend has acknowledged
  dropped    \* the numbers of the records it has given up

vars == <<accepted, held, sent, dropped>>

Init ==
  /\ accepted = 0
  /\ held = {}
  /\ sent = {}
  /\ dropped = {}

\* A batch of new records is taken over, numbered consecutively.
Accept ==
  /\ accepted' \in Nat
  /\ accepted' >= accepted
  /\ held' = held \cup (accepted + 1)..accepted'
  /\ UNCHANGED <<sent, dropped>>

\* Some of the held records are acknowledged.
Deliver ==
  /\ held' \subseteq held
  /\ sent' = sent \cup (held \ held')
  /\ UNCHANGED <<accepted, dropped>>

\* Some of the held records are given up.
Drop ==
  /\ held' \subseteq held
  /\ dropped' = dropped \cup (held \ held')
  /\ UNCHANGED <<accepted, sent>>

Next == Accept \/ Deliver \/ Drop

Spec == Init /\ [][Next]_vars

-----------------------------------------------------------------------------
(***************************************************************************)
(* Every accepted record is in exactly one place: held, acknowledged or    *)
(* given up.  So none vanishes, none is acknowledged and then sent again,  *)
(* and none that was given up is acknowledged later.                       *)
(***************************************************************************)
Partition ==
  /\ accepted \in Nat
  /\ held \cup sent \cup dropped = 1..accepted
  /\ held \cap sent = {}
  /\ held \cap dropped = {}
  /\ sent \cap dropped = {}

\* The places of a LogPipe partition the records that it has accepted.
THEOREM PartitionHolds == Spec => []Partition
<1>1. Init => Partition
  BY DEF Init, Partition
<1>2. Partition /\ [Next]_vars => Partition'
  <2> SUFFICES ASSUME Partition, [Next]_vars
               PROVE  Partition'
    OBVIOUS
  <2> USE DEF Partition
  <2>1. CASE Accept
    <3>1. 1..accepted' = 1..accepted \cup (accepted + 1)..accepted'
      BY <2>1 DEF Accept
    <3>2. (1..accepted) \cap ((accepted + 1)..accepted') = {}
      OBVIOUS
    <3> QED
      BY <2>1, <3>1, <3>2 DEF Accept
  <2>2. CASE Deliver
    BY <2>2 DEF Deliver
  <2>3. CASE Drop
    BY <2>3 DEF Drop
  <2>4. CASE UNCHANGED vars
    BY <2>4 DEF vars
  <2> QED
    BY <2>1, <2>2, <2>3, <2>4 DEF Next
<1> QED
  BY <1>1, <1>2, PTL DEF Spec

=============================================================================
