----------------------------- MODULE PusherProofs -----------------------------
(***************************************************************************)
(* Proofs about Pusher, for any number of invocations, flushes, records    *)
(* and any buffer size.                                                    *)
(***************************************************************************)
EXTENDS Pusher, SequenceTheorems, TLAPS

-----------------------------------------------------------------------------
(***************************************************************************)
(* Sequences of records.                                                   *)
(***************************************************************************)

\* The empty payload holds nothing.
LEMMA NoRecords ==
  /\ <<>> \in Seq(Record)
  /\ Range(<<>>) = {}
  /\ IsInjective(<<>>)
<1>1. <<>> \in Seq(Record) /\ Len(<<>>) = 0
  BY EmptySeq
<1>2. DOMAIN <<>> = {}
  BY <1>1
<1> QED
  BY <1>1, <1>2 DEF Range, IsInjective

\* What a payload holds are records.
LEMMA RangeOfRecords ==
  ASSUME NEW s \in Seq(Record)
  PROVE  Range(s) \subseteq Record
  BY DEF Range

\* Putting one payload before another loses and duplicates nothing.
LEMMA Concatenation ==
  ASSUME NEW s \in Seq(Record), NEW t \in Seq(Record)
  PROVE  /\ s \o t \in Seq(Record)
         /\ Range(s \o t) = Range(s) \cup Range(t)
         /\ IsInjective(s) /\ IsInjective(t) /\ Range(s) \cap Range(t) = {}
            => IsInjective(s \o t)
<1>1. s \o t \in Seq(Record)
  OBVIOUS
<1>2. Range(s \o t) = Range(s) \cup Range(t)
  BY RangeConcatenation
<1>3. ASSUME IsInjective(s), IsInjective(t), Range(s) \cap Range(t) = {}
      PROVE  IsInjective(s \o t)
  <2> SUFFICES ASSUME NEW a \in DOMAIN (s \o t), NEW b \in DOMAIN (s \o t),
                      (s \o t)[a] = (s \o t)[b]
               PROVE  a = b
    BY DEF IsInjective
  <2>1. /\ a \in 1..(Len(s) + Len(t))
        /\ b \in 1..(Len(s) + Len(t))
        /\ Len(s) \in Nat
        /\ Len(t) \in Nat
        /\ DOMAIN s = 1..Len(s)
        /\ DOMAIN t = 1..Len(t)
    OBVIOUS
  <2>2. \A i \in 1..(Len(s) + Len(t)) :
          /\ i <= Len(s) => i \in DOMAIN s /\ (s \o t)[i] = s[i]
          /\ ~(i <= Len(s)) => i - Len(s) \in DOMAIN t /\ (s \o t)[i] = t[i - Len(s)]
    BY <2>1
  <2>3. CASE a <= Len(s) /\ b <= Len(s)
    BY <1>3, <2>1, <2>2, <2>3 DEF IsInjective
  <2>4. CASE ~(a <= Len(s)) /\ ~(b <= Len(s))
    <3>1. a - Len(s) = b - Len(s)
      BY <1>3, <2>1, <2>2, <2>4 DEF IsInjective
    <3> QED
      BY <2>1, <3>1
  <2>5. \A i, j \in 1..(Len(s) + Len(t)) :
          i <= Len(s) /\ ~(j <= Len(s)) =>
            (s \o t)[i] \in Range(s) /\ (s \o t)[j] \in Range(t)
    BY <2>2 DEF Range
  <2>6. CASE (a <= Len(s)) # (b <= Len(s))
    BY <1>3, <2>1, <2>5, <2>6
  <2> QED
    BY <2>1, <2>3, <2>4, <2>6
<1> QED
  BY <1>1, <1>2, <1>3

\* The records of a new message are new and distinct.
LEMMA NewRecords ==
  ASSUME NEW a \in Nat, NEW n \in Nat
  PROVE  LET s == [k \in 1..n |-> a + k]
         IN /\ s \in Seq(Record)
            /\ Range(s) = (a + 1)..(a + n)
            /\ IsInjective(s)
<1> DEFINE s == [k \in 1..n |-> a + k]
<1>1. s \in [1..n -> Record]
  BY DEF Record
<1>2. s \in Seq(Record)
  BY <1>1, SeqDef
<1>3. Range(s) = (a + 1)..(a + n)
  <2>1. \A x \in (a + 1)..(a + n) : x - a \in 1..n /\ s[x - a] = x
    OBVIOUS
  <2>2. \A k \in 1..n : s[k] \in (a + 1)..(a + n)
    OBVIOUS
  <2> QED
    BY <2>1, <2>2 DEF Range
<1>4. IsInjective(s)
  BY DEF IsInjective
<1> QED
  BY <1>2, <1>3, <1>4

\* Trimming removes records from a payload and does nothing else to it.
LEMMA Trimming ==
  ASSUME NEW p \in Seq(Record)
  PROVE  /\ Trimmed(p) \in Seq(Record)
         /\ Range(Trimmed(p)) \subseteq Range(p)
         /\ IsInjective(p) => IsInjective(Trimmed(p))
<1> DEFINE m == RecordsDropped(RecordBytes, BufferSize) + 1
<1> DEFINE q == SubSeq(p, m, Len(p))
<1>1. m \in Nat /\ m >= 2
  BY PusherAssumption DEF RecordsDropped, Start
<1>2. Len(p) \in Nat /\ DOMAIN p = 1..Len(p)
  OBVIOUS
<1> HIDE DEF m
<1>3. \A i \in m..Len(p) : p[i] \in Record
  BY <1>1, <1>2
<1>4. /\ q \in Seq(Record)
      /\ Len(q) = IF m <= Len(p) THEN Len(p) - m + 1 ELSE 0
      /\ \A i \in 1..(Len(p) - m + 1) : q[i] = p[m + i - 1]
  BY <1>1, <1>2, <1>3, SubSeqProperties
<1> HIDE DEF q
<1>5. DOMAIN q = 1..Len(q)
  BY <1>4
<1>6. \A i \in DOMAIN q : m + i - 1 \in DOMAIN p /\ q[i] = p[m + i - 1]
  BY <1>1, <1>2, <1>4, <1>5
<1>7. Range(q) \subseteq Range(p)
  BY <1>6 DEF Range
<1>8. IsInjective(p) => IsInjective(q)
  <2> SUFFICES ASSUME IsInjective(p), NEW a \in DOMAIN q, NEW b \in DOMAIN q, q[a] = q[b]
               PROVE  a = b
    BY DEF IsInjective
  <2>1. m + a - 1 = m + b - 1
    BY <1>6 DEF IsInjective
  <2> QED
    BY <1>1, <1>4, <1>5, <2>1
<1>9. Trimmed(p) = p \/ Trimmed(p) = q
  BY DEF Trimmed, q, m
<1> QED
  BY <1>4, <1>7, <1>8, <1>9

-----------------------------------------------------------------------------
(***************************************************************************)
(* Type correctness.                                                       *)
(***************************************************************************)

\* The initial values are well typed.
LEMMA InitTyped == Init => TypeOK
  BY PusherAssumption, NoRecords DEF Init, TypeOK, Label, Cause, Flush, NoFlush, FlushLabel

\* No step spoils a type; that of signalled needs the doneC that is sent on to be set.
LEMMA NextTyped == TypeOK /\ DoneFresh /\ [Next]_pusherVars => TypeOK'
<1> SUFFICES ASSUME TypeOK, DoneFresh, [Next]_pusherVars
             PROVE  TypeOK'
  OBVIOUS
<1> USE DEF TypeOK
<1>1. ASSUME NEW n \in 0..MaxBatch, RecvLogs(n)
      PROVE  TypeOK'
  <2>1. n \in Nat
    OBVIOUS
  <2>2. [k \in 1..n |-> accepted + k] \in Seq(Record)
    BY <2>1, NewRecords
  <2>3. buf' \in Seq(Record) /\ accepted' \in Nat
    BY <1>1, <2>1, <2>2 DEF RecvLogs
  <2> QED
    BY <1>1, <2>3 DEF RecvLogs
<1>s. ASSUME StartFlush
      PROVE  flush' \in [Flushes -> Flush] /\ buf' \in Seq(Record)
  <2>1. [at |-> "new", under |-> NoInvocation, payload |-> buf] \in Flush
    BY DEF Flush, FlushLabel
  <2> QED
    BY <1>s, <2>1, NoRecords DEF StartFlush
<1>2. CASE RecvRuntimeDone
  BY <1>2, <1>s, NoRecords DEF RecvRuntimeDone, PushSync, Label, Cause
<1>3. CASE CtxDone
  BY <1>3, NoRecords DEF CtxDone, PushSync, ResetCtx, Label, Cause
<1>4. ASSUME NEW i \in Invocations, RecvInvoke(i)
      PROVE  TypeOK'
  BY <1>4, <1>s DEF RecvInvoke, SendDone, Label, Cause
<1>5. ASSUME NEW f \in Flushes, RecvFlushResp(f)
      PROVE  TypeOK'
  <2>1. flush[f].payload \in Seq(Record)
    BY DEF Flush
  <2>2. buf' \in Seq(Record)
    BY <1>5, <2>1, Concatenation DEF RecvFlushResp, Requeued
  <2>3. flush' \in [Flushes -> Flush]
    BY <1>5, NoRecords DEF RecvFlushResp, Flush, NoFlush, FlushLabel
  <2> QED
    BY <1>5, <2>2, <2>3 DEF RecvFlushResp, SendDone, Label, Cause
<1>6. CASE RecvStop
  BY <1>6, NoRecords DEF RecvStop, PushSync, FinishStop, SendDone, Label, Cause
<1>7. CASE RecvForce
  <2>1. /\ forceFlushing' \in Seq(Invocations)
        /\ Head(forceFlushing) \in Invocations
    BY <1>7 DEF RecvForce
  <2> QED
    BY <1>7, <2>1, NoRecords DEF RecvForce, PushSync, Reply, Label, Cause
<1>8. ASSUME NEW ok \in BOOLEAN, AfterPush(ok),
             sent' \subseteq Record, lost' \subseteq Record
      PROVE  TypeOK'
  <2>1. payload' \in Seq(Record) /\ attempted' \subseteq Record
    BY <1>8, NoRecords, RangeOfRecords DEF AfterPush
  <2>2. pc' \in Label /\ cause' \in Cause
    BY <1>8 DEF AfterPush, FinishStop, SendDone, BackToSelect, Label, Cause
  <2>3. ctx' \in Invocations \cup {Background}
    BY <1>8 DEF AfterPush, ResetCtx
  <2>4. /\ reply' \in [Invocations -> {"none", "ok", "failed"}]
        /\ serving' \in Invocations \cup {NoInvocation}
    BY <1>8 DEF AfterPush, Reply
  <2> QED
    BY <1>8, <2>1, <2>2, <2>3, <2>4 DEF AfterPush
<1>9. CASE PushOk \/ PushFail
  <2>1. Range(payload) \subseteq Record
    BY RangeOfRecords
  <2>2. CASE PushOk
    BY <1>8, <2>1, <2>2 DEF PushOk
  <2>3. CASE PushFail
    BY <1>8, <2>1, <2>3 DEF PushFail
  <2> QED
    BY <1>9, <2>2, <2>3
<1>10. CASE SignalDone
  BY <1>10 DEF SignalDone, BackToSelect, DoneFresh, Label, Cause
<1>11. CASE SendStopped
  BY <1>11 DEF SendStopped, Label
<1>12. ASSUME NEW f \in Flushes, FlushStart(f)
       PROVE  TypeOK'
  <2> DEFINE c == IF Done(ctx) THEN NoInvocation ELSE ctx
  <2>1. c \in Invocations \cup {Background, NoInvocation}
    OBVIOUS
  <2>2. flush' = [flush EXCEPT ![f] = [flush[f] EXCEPT !.at = "push", !.under = c]]
    BY <1>12 DEF FlushStart
  <2> HIDE DEF c
  <2>3. [flush[f] EXCEPT !.at = "push", !.under = c] \in Flush
    BY <2>1 DEF Flush, FlushLabel
  <2>4. flush' \in [Flushes -> Flush]
    BY <2>2, <2>3
  <2> QED
    BY <1>12, <2>4 DEF FlushStart
<1>13. ASSUME NEW f \in Flushes, FlushTried(f),
              NEW p \in Seq(Record),
              flush' = [flush EXCEPT ![f] = Answering(p)],
              sent' \subseteq Record, trimmed' \subseteq Record
       PROVE  TypeOK'
  <2>1. flush' \in [Flushes -> Flush]
    BY <1>13 DEF Flush, FlushLabel, Answering
  <2>2. attempted' \subseteq Record
    BY <1>13, RangeOfRecords DEF FlushTried, Flush
  <2> QED
    BY <1>13, <2>1, <2>2 DEF FlushTried
<1>14. ASSUME NEW f \in Flushes, FlushOk(f) \/ FlushFail(f)
       PROVE  TypeOK'
  <2>1. flush[f].payload \in Seq(Record)
    BY DEF Flush
  <2>2. CASE FlushOk(f)
    BY <1>13, <2>1, <2>2, NoRecords, RangeOfRecords DEF FlushOk, FlushTried
  <2>3. CASE FlushFail(f)
    BY <1>13, <2>1, <2>3, Trimming, RangeOfRecords DEF FlushFail, FlushTried
  <2> QED
    BY <1>14, <2>2, <2>3
<1>15. ASSUME NEW i \in Invocations, Cancel(i)
       PROVE  TypeOK'
  BY <1>15 DEF Cancel
<1>16. ASSUME NEW i \in Invocations, SendForce(i)
       PROVE  TypeOK'
  BY <1>16 DEF SendForce
<1>17. CASE UNCHANGED pusherVars
  BY <1>17 DEF pusherVars
<1> QED
  BY <1>1, <1>2, <1>3, <1>4, <1>5, <1>6, <1>7, <1>9, <1>10, <1>11, <1>12, <1>13,
     <1>14, <1>15, <1>16, <1>17 DEF Next, Internal, External

-----------------------------------------------------------------------------
(***************************************************************************)
(* doneC.                                                                  *)
(***************************************************************************)

\* A doneC that is set stays that of an invocation received and not yet released.
LEMMA NextFresh == TypeOK /\ DoneFresh /\ [Next]_pusherVars => DoneFresh'
<1> SUFFICES ASSUME TypeOK, DoneFresh, [Next]_pusherVars
             PROVE  DoneFresh'
  OBVIOUS
<1> USE DEF DoneFresh
<1>1. ASSUME NEW i \in Invocations \ invoked, RecvInvoke(i)
      PROVE  DoneFresh'
  BY <1>1, PusherAssumption DEF RecvInvoke, SendDone, TypeOK
<1>2. CASE PushOk \/ PushFail
  BY <1>2 DEF PushOk, PushFail, AfterPush, FinishStop, SendDone, BackToSelect
<1>3. CASE SignalDone
  BY <1>3 DEF SignalDone, BackToSelect
<1>4. CASE RecvStop
  BY <1>4 DEF RecvStop, PushSync, FinishStop, SendDone
<1>5. ASSUME NEW f \in Flushes, RecvFlushResp(f)
      PROVE  DoneFresh'
  BY <1>5 DEF RecvFlushResp, SendDone
<1>6. CASE RecvRuntimeDone \/ CtxDone \/ RecvForce \/ SendStopped
  BY <1>6 DEF RecvRuntimeDone, CtxDone, RecvForce, SendStopped, PushSync
<1>7. CASE (\E n \in 0..MaxBatch : RecvLogs(n)) \/ UNCHANGED pusherVars
  BY <1>7 DEF RecvLogs, pusherVars
<1>8. CASE \E f \in Flushes : FlushStart(f) \/ FlushOk(f) \/ FlushFail(f)
  BY <1>8 DEF FlushStart, FlushOk, FlushFail, FlushTried
<1>9. CASE \E i \in Invocations : Cancel(i) \/ SendForce(i)
  BY <1>9 DEF Cancel, SendForce
<1> QED
  BY <1>1, <1>2, <1>3, <1>4, <1>5, <1>6, <1>7, <1>8, <1>9 DEF Next, Internal, External

\* doneC is nil at first.
LEMMA InitFresh == Init => DoneFresh
  BY PusherAssumption DEF Init, DoneFresh

\* TypeOK holds in every behaviour of the pusher.
THEOREM TypeCorrect == Spec => []TypeOK
  BY InitTyped, NextTyped, InitFresh, NextFresh, PTL DEF Spec

\* run never sends on a nil doneC, nor on one that it has already sent on.
THEOREM SignalsOnce == Spec => []SignalOnce
<1>1. DoneFresh => SignalOnce
  BY DEF DoneFresh, SignalOnce
<1> QED
  BY <1>1, InitTyped, NextTyped, InitFresh, NextFresh, PTL DEF Spec

-----------------------------------------------------------------------------
(***************************************************************************)
(* Where the records are.                                                  *)
(***************************************************************************)

\* The records of the flush goroutines other than f.
Others(f) == UNION {Range(flush[g].payload) : g \in Flushes \ {f}}

\* The flush records are those of f and those of the others.
LEMMA Split ==
  ASSUME NEW f \in Flushes
  PROVE  InFlush = Others(f) \cup Range(flush[f].payload)
  BY DEF InFlush, Others

\* What a step does to the records, told by the flush goroutine it concerns.
LEMMA OthersKeep ==
  ASSUME NEW f \in Flushes,
         \A g \in Flushes \ {f} : flush'[g] = flush[g]
  PROVE  InFlush' = Others(f) \cup Range(flush'[f].payload)
<1>1. Others(f)' = Others(f)
  BY DEF Others
<1>2. InFlush' = Others(f)' \cup Range(flush'[f].payload)
  BY DEF InFlush, Others
<1> QED
  BY <1>1, <1>2

\* OneHolder and Numbered, holder by holder.
HeldApart ==
  /\ Apart
  /\ \A r \in Range(buf) \cup Range(payload) : r \in 1..accepted /\ r \notin Given
  /\ \A f \in Flushes : \A r \in Range(flush[f].payload) : r \in 1..accepted /\ r \notin Given
  /\ Given \subseteq 1..accepted

\* HeldApart says of each holder what the invariants say of all together.
LEMMA HeldApartEquiv == HeldApart <=> Apart /\ Held \cap Given = {} /\ Numbered
<1>1. \A r : r \in Held <=> \/ r \in Range(buf) \cup Range(payload)
                            \/ \E f \in Flushes : r \in Range(flush[f].payload)
  BY DEF Held, InFlush
<1> QED
  BY <1>1 DEF HeldApart, Numbered

\* A flush goroutine that ended and a push that returned leave nothing behind.
LEMMA NextIdle == TypeOK /\ IdleIsEmpty /\ [Next]_pusherVars => IdleIsEmpty'
<1> SUFFICES ASSUME TypeOK, IdleIsEmpty, [Next]_pusherVars
             PROVE  IdleIsEmpty'
  OBVIOUS
<1> USE DEF IdleIsEmpty
<1>1. ASSUME StartFlush
      PROVE  \A f \in Flushes : flush'[f].at = "idle" => flush'[f].payload = <<>>
  BY <1>1 DEF StartFlush, TypeOK
<1>2. CASE RecvRuntimeDone
  BY <1>1, <1>2 DEF RecvRuntimeDone, PushSync
<1>3. CASE \E i \in Invocations : RecvInvoke(i)
  BY <1>1, <1>3 DEF RecvInvoke, SendDone
<1>4. CASE CtxDone \/ RecvForce
  BY <1>4 DEF CtxDone, RecvForce, PushSync
<1>5. CASE RecvStop
  BY <1>5 DEF RecvStop, PushSync, FinishStop, SendDone
<1>6. ASSUME NEW f \in Flushes, RecvFlushResp(f)
      PROVE  IdleIsEmpty'
  BY <1>6 DEF RecvFlushResp, SendDone, NoFlush, TypeOK
<1>7. CASE PushOk \/ PushFail
  BY <1>7 DEF PushOk, PushFail, AfterPush
<1>8. CASE SignalDone \/ SendStopped
  BY <1>8 DEF SignalDone, SendStopped, BackToSelect
<1>9. ASSUME NEW f \in Flushes, FlushStart(f) \/ FlushOk(f) \/ FlushFail(f)
      PROVE  IdleIsEmpty'
  <2>1. DOMAIN flush = Flushes /\ flush[f] \in Flush /\ DOMAIN flush[f] = {"at", "under", "payload"}
    BY DEF TypeOK, Flush
  <2>2. pc' = pc /\ payload' = payload
    BY <1>9 DEF FlushStart, FlushOk, FlushFail, FlushTried
  <2>3. \A g \in Flushes : g # f => flush'[g] = flush[g]
    BY <1>9, <2>1 DEF FlushStart, FlushOk, FlushFail
  <2>4. flush'[f].at = "idle" => flush'[f].payload = <<>>
    <3>1. CASE FlushStart(f)
      BY <2>1, <3>1 DEF FlushStart
    <3>2. CASE FlushOk(f)
      BY <2>1, <3>2 DEF FlushOk, Answering
    <3>3. CASE FlushFail(f)
      BY <2>1, <3>3 DEF FlushFail, Answering
    <3> QED
      BY <1>9, <3>1, <3>2, <3>3
  <2> QED
    BY <2>2, <2>3, <2>4
<1>10. CASE \/ \E n \in 0..MaxBatch : RecvLogs(n)
            \/ \E i \in Invocations : Cancel(i) \/ SendForce(i)
            \/ UNCHANGED pusherVars
  BY <1>10 DEF RecvLogs, Cancel, SendForce, pusherVars
<1> QED
  BY <1>2, <1>3, <1>4, <1>5, <1>6, <1>7, <1>8, <1>9, <1>10 DEF Next, Internal, External

\* No step puts a record in two places, or holds again one that was given away.
LEMMA NextApart ==
  TypeOK /\ IdleIsEmpty /\ HeldApart /\ [Next]_pusherVars => HeldApart'
<1> SUFFICES ASSUME TypeOK, IdleIsEmpty, HeldApart, [Next]_pusherVars
             PROVE  HeldApart'
  OBVIOUS
<1>a. /\ buf \in Seq(Record)
      /\ payload \in Seq(Record)
      /\ \A f \in Flushes : flush[f] \in Flush /\ flush[f].payload \in Seq(Record)
      /\ accepted \in Nat
      /\ DOMAIN flush = Flushes
  BY DEF TypeOK, Flush
<1>1. ASSUME NEW n \in 0..MaxBatch, RecvLogs(n)
      PROVE  HeldApart'
  <2> DEFINE new == [k \in 1..n |-> accepted + k]
  <2>1. n \in Nat
    OBVIOUS
  <2>2. /\ new \in Seq(Record)
        /\ Range(new) = (accepted + 1)..(accepted + n)
        /\ IsInjective(new)
    BY <1>a, <2>1, NewRecords
  <2> HIDE DEF new
  <2>3. buf' = buf \o new /\ accepted' = accepted + n
    BY <1>1 DEF RecvLogs, new
  <2>4. Range(buf) \cap Range(new) = {}
    BY <1>a, <2>1, <2>2 DEF HeldApart
  <2>5. Range(buf') = Range(buf) \cup Range(new) /\ IsInjective(buf')
    BY <1>a, <2>2, <2>3, <2>4, Concatenation DEF HeldApart, Apart
  <2>6. \A r \in 1..accepted : r \in 1..accepted' /\ r \notin Range(new)
    BY <1>a, <2>1, <2>2, <2>3
  <2>7. Range(new) \subseteq 1..accepted'
    BY <1>a, <2>1, <2>2, <2>3
  <2>8. UNCHANGED <<payload, flush, sent, lost, trimmed>>
    BY <1>1 DEF RecvLogs
  <2> HIDE <2>3
  <2> QED
    BY <2>5, <2>6, <2>7, <2>8 DEF HeldApart, Apart, Given
<1>2. ASSUME NEW c, PushSync(c), pc = "select",
             UNCHANGED <<flush, sent, lost, trimmed, accepted>>
      PROVE  HeldApart'
  <2>1. /\ Range(buf') = {} /\ IsInjective(buf')
        /\ Range(payload') = Range(buf) /\ IsInjective(payload')
    BY <1>2, NoRecords DEF PushSync, HeldApart, Apart
  <2> QED
    BY <1>2, <2>1 DEF HeldApart, Apart, Given
<1>3. ASSUME StartFlush, UNCHANGED <<payload, sent, lost, trimmed, accepted>>
      PROVE  HeldApart'
  <2>1. PICK f \in Flushes :
          /\ flush[f].at = "idle"
          /\ flush' = [flush EXCEPT ![f] = [at |-> "new", under |-> NoInvocation, payload |-> buf]]
    BY <1>3 DEF StartFlush
  <2>2. /\ flush'[f].payload = buf
        /\ \A g \in Flushes \ {f} : flush'[g] = flush[g]
    BY <1>a, <2>1
  <2>3. Range(buf') = {} /\ IsInjective(buf')
    BY <1>3, NoRecords DEF StartFlush
  <2> QED
    BY <1>3, <2>2, <2>3 DEF HeldApart, Apart, Given
<1>4. ASSUME NEW ok \in BOOLEAN, AfterPush(ok),
             \/ sent' = sent \cup Range(payload) /\ lost' = lost
             \/ lost' = lost \cup Range(payload) /\ sent' = sent
      PROVE  HeldApart'
  <2>1. /\ UNCHANGED <<buf, flush, trimmed, accepted>>
        /\ Range(payload') = {} /\ IsInjective(payload')
    BY <1>4, NoRecords DEF AfterPush
  <2>2. Given' = Given \cup Range(payload)
    BY <1>4, <2>1 DEF Given
  <2> QED
    BY <2>1, <2>2 DEF HeldApart, Apart
<1>5. ASSUME NEW f \in Flushes, RecvFlushResp(f)
      PROVE  HeldApart'
  <2> DEFINE p == flush[f].payload
  <2>1. /\ buf' = p \o buf
        /\ flush'[f].payload = <<>>
        /\ \A g \in Flushes \ {f} : flush'[g] = flush[g]
        /\ UNCHANGED <<payload, sent, lost, trimmed, accepted>>
    BY <1>5, <1>a DEF RecvFlushResp, Requeued, NoFlush
  <2>2. Range(p) \cap Range(buf) = {} /\ IsInjective(p) /\ IsInjective(buf)
    BY DEF HeldApart, Apart
  <2>3. Range(buf') = Range(p) \cup Range(buf) /\ IsInjective(buf')
    BY <1>a, <2>1, <2>2, Concatenation
  <2>4. Range(flush'[f].payload) = {} /\ IsInjective(flush'[f].payload)
    BY <2>1, NoRecords
  <2>5. Apart'
    BY <2>1, <2>3, <2>4 DEF HeldApart, Apart
  <2> QED
    BY <2>1, <2>3, <2>4, <2>5 DEF HeldApart, Given
<1>6. ASSUME NEW f \in Flushes, NEW q \in Seq(Record), FlushTried(f),
             flush' = [flush EXCEPT ![f] = Answering(q)],
             Range(q) \subseteq Range(flush[f].payload), IsInjective(q),
             Given' = Given \cup (Range(flush[f].payload) \ Range(q))
      PROVE  HeldApart'
  <2>1. /\ flush'[f].payload = q
        /\ \A g \in Flushes \ {f} : flush'[g] = flush[g]
        /\ UNCHANGED <<buf, payload, accepted>>
    BY <1>6, <1>a DEF FlushTried, Flush, Answering
  <2>2. Apart'
    BY <1>6, <2>1 DEF HeldApart, Apart
  <2>3. \A g \in Flushes \ {f} :
          Range(flush[g].payload) \cap Range(flush[f].payload) = {}
    BY DEF HeldApart, Apart
  <2>4. \A g \in Flushes : \A r \in Range(flush'[g].payload) :
          r \in 1..accepted /\ r \notin Given'
    BY <1>6, <2>1, <2>3 DEF HeldApart
  <2>5. \A r \in Range(buf) \cup Range(payload) : r \in 1..accepted /\ r \notin Given'
    BY <1>6 DEF HeldApart, Apart
  <2> QED
    BY <1>6, <2>1, <2>2, <2>4, <2>5 DEF HeldApart
<1>7. ASSUME UNCHANGED <<buf, payload, sent, lost, trimmed, accepted>>,
             \A f \in Flushes : flush'[f].payload = flush[f].payload
      PROVE  HeldApart'
  BY <1>7 DEF HeldApart, Apart, Given
<1>8. CASE RecvRuntimeDone
  <2>1. UNCHANGED <<sent, lost, trimmed, accepted>> /\ pc = "select"
    BY <1>8 DEF RecvRuntimeDone
  <2>2. CASE UNCHANGED <<pc, cause, buf, payload, flush>>
    BY <1>7, <2>1, <2>2
  <2>3. CASE PushSync("runtimeDone") /\ UNCHANGED flush
    BY <1>2, <2>1, <2>3
  <2>4. CASE StartFlush /\ UNCHANGED <<pc, cause, payload>>
    BY <1>3, <2>1, <2>4
  <2> QED
    BY <1>8, <2>2, <2>3, <2>4 DEF RecvRuntimeDone
<1>9. CASE CtxDone
  <2>1. UNCHANGED <<flush, sent, lost, trimmed, accepted>> /\ pc = "select"
    BY <1>9 DEF CtxDone
  <2>2. PushSync("ctxDone") \/ UNCHANGED <<buf, payload>>
    BY <1>9 DEF CtxDone
  <2> QED
    BY <1>2, <1>7, <2>1, <2>2
<1>10. ASSUME NEW i \in Invocations, RecvInvoke(i)
       PROVE  HeldApart'
  <2>1. UNCHANGED <<payload, sent, lost, trimmed, accepted>>
    BY <1>10 DEF RecvInvoke
  <2>2. StartFlush \/ UNCHANGED <<buf, flush>>
    BY <1>10 DEF RecvInvoke
  <2> QED
    BY <1>3, <1>7, <2>1, <2>2
<1>11. CASE RecvStop
  <2>1. UNCHANGED <<flush, sent, lost, trimmed, accepted>> /\ pc = "select"
    BY <1>11 DEF RecvStop
  <2>2. PushSync("stop") \/ UNCHANGED <<buf, payload>>
    BY <1>11 DEF RecvStop
  <2> QED
    BY <1>2, <1>7, <2>1, <2>2
<1>12. CASE RecvForce
  <2>1. UNCHANGED <<flush, sent, lost, trimmed, accepted>> /\ pc = "select"
    BY <1>12 DEF RecvForce
  <2>2. PushSync("force") \/ UNCHANGED <<buf, payload>>
    BY <1>12 DEF RecvForce
  <2> QED
    BY <1>2, <1>7, <2>1, <2>2
<1>13. CASE PushOk
  BY <1>4, <1>13 DEF PushOk
<1>14. CASE PushFail
  BY <1>4, <1>14 DEF PushFail
<1>15. CASE SignalDone \/ SendStopped
  BY <1>7, <1>15 DEF SignalDone, SendStopped
<1>16. ASSUME NEW f \in Flushes, FlushStart(f)
       PROVE  HeldApart'
  <2>1. \A g \in Flushes : flush'[g].payload = flush[g].payload
    BY <1>16, <1>a DEF FlushStart, Flush
  <2> QED
    BY <1>7, <1>16, <2>1 DEF FlushStart
<1>17. ASSUME NEW f \in Flushes, FlushOk(f)
       PROVE  HeldApart'
  <2>1. Given' = Given \cup (Range(flush[f].payload) \ Range(<<>>))
    BY <1>17, NoRecords DEF FlushOk, FlushTried, Given
  <2> QED
    BY <1>6, <1>17, <2>1, NoRecords DEF FlushOk
<1>18. ASSUME NEW f \in Flushes, FlushFail(f)
       PROVE  HeldApart'
  <2> DEFINE q == Trimmed(flush[f].payload)
  <2>1. /\ q \in Seq(Record)
        /\ Range(q) \subseteq Range(flush[f].payload)
        /\ IsInjective(q)
    BY <1>a, Trimming DEF HeldApart, Apart
  <2>2. Given' = Given \cup (Range(flush[f].payload) \ Range(q))
    BY <1>18 DEF FlushFail, FlushTried, Given
  <2>3. FlushTried(f) /\ flush' = [flush EXCEPT ![f] = Answering(q)]
    BY <1>18 DEF FlushFail
  <2> QED
    BY <1>6, <2>1, <2>2, <2>3
<1>19. CASE \E i \in Invocations : Cancel(i) \/ SendForce(i)
  BY <1>7, <1>19 DEF Cancel, SendForce
<1>20. CASE UNCHANGED pusherVars
  BY <1>7, <1>20 DEF pusherVars
<1> QED
  BY <1>1, <1>5, <1>8, <1>9, <1>10, <1>11, <1>12, <1>13, <1>14, <1>15, <1>16, <1>17, <1>18,
     <1>19, <1>20 DEF Next, Internal, External

\* From the stop case on, nothing enters the buffer.
LEMMA NextStopKeeps == StopKeepsEmpty /\ [Next]_pusherVars => StopKeepsEmpty'
<1> SUFFICES ASSUME StopKeepsEmpty, [Next]_pusherVars
             PROVE  StopKeepsEmpty'
  OBVIOUS
<1> USE DEF StopKeepsEmpty
<1>1. CASE RecvRuntimeDone
  BY <1>1 DEF RecvRuntimeDone, PushSync, StartFlush
<1>2. CASE \E i \in Invocations : RecvInvoke(i)
  BY <1>2 DEF RecvInvoke, SendDone, StartFlush
<1>3. CASE CtxDone \/ RecvForce
  BY <1>3 DEF CtxDone, RecvForce, PushSync
<1>4. CASE RecvStop
  BY <1>4 DEF RecvStop, PushSync, FinishStop, SendDone
<1>5. CASE \E f \in Flushes : RecvFlushResp(f)
  BY <1>5 DEF RecvFlushResp, SendDone
<1>6. CASE PushOk \/ PushFail
  BY <1>6 DEF PushOk, PushFail, AfterPush, FinishStop, SendDone, BackToSelect
<1>7. CASE SignalDone \/ SendStopped
  BY <1>7 DEF SignalDone, SendStopped, BackToSelect
<1>8. CASE \E f \in Flushes : FlushStart(f) \/ FlushOk(f) \/ FlushFail(f)
  BY <1>8 DEF FlushStart, FlushOk, FlushFail, FlushTried
<1>9. CASE \/ \E n \in 0..MaxBatch : RecvLogs(n)
           \/ \E i \in Invocations : Cancel(i) \/ SendForce(i)
           \/ UNCHANGED pusherVars
  BY <1>9 DEF RecvLogs, Cancel, SendForce, pusherVars
<1> QED
  BY <1>1, <1>2, <1>3, <1>4, <1>5, <1>6, <1>7, <1>8, <1>9 DEF Next, Internal, External

\* The initial state satisfies the inductive invariant.
LEMMA InitInd == Init => IndInv
<1> SUFFICES ASSUME Init
             PROVE  IndInv
  OBVIOUS
<1>1. TypeOK /\ DoneFresh
  BY InitTyped, InitFresh
<1>2. StopKeepsEmpty
  BY DEF Init, StopKeepsEmpty
<1>3. \A f \in Flushes : flush[f].payload = <<>>
  BY DEF Init, NoFlush
<1>4. IdleIsEmpty
  BY <1>3 DEF Init, IdleIsEmpty
<1>5. HeldApart
  BY <1>3, NoRecords DEF Init, HeldApart, Apart, Given
<1> QED
  BY <1>1, <1>2, <1>4, <1>5, HeldApartEquiv DEF IndInv, OneHolder

\* Every step of the pusher keeps the inductive invariant.
LEMMA NextInd == IndInv /\ [Next]_pusherVars => IndInv'
<1> SUFFICES ASSUME IndInv, [Next]_pusherVars
             PROVE  IndInv'
  OBVIOUS
<1>1. HeldApart
  BY HeldApartEquiv DEF IndInv, OneHolder
<1>2. TypeOK' /\ DoneFresh'
  BY NextTyped, NextFresh DEF IndInv
<1>3. StopKeepsEmpty'
  BY NextStopKeeps DEF IndInv
<1>4. IdleIsEmpty'
  BY NextIdle DEF IndInv, OneHolder
<1>5. HeldApart'
  BY <1>1, NextApart DEF IndInv, OneHolder
<1>6. (HeldApart <=> Apart /\ Held \cap Given = {} /\ Numbered)'
  BY HeldApartEquiv, PTL
<1> QED
  BY <1>2, <1>3, <1>4, <1>5, <1>6 DEF IndInv, OneHolder

\* The inductive invariant holds in every behaviour of the pusher, with any number of
\* invocations, flush goroutines and records, in either mode.
THEOREM Inductive == Spec => []IndInv
  BY InitInd, NextInd, PTL DEF Spec

\* However the select cases and the flush goroutines interleave, no record is ever in
\* two places, and none that was sent or given up is held again.
THEOREM OneHolderHolds == Spec => []OneHolder
<1>1. IndInv => OneHolder
  BY DEF IndInv
<1> QED
  BY <1>1, Inductive, PTL

\* When run answers Stop, it keeps no record back: only flush goroutines hold any.
THEOREM StopEmpties == Spec => []StopEmptiesBuffer
<1>1. IndInv => StopEmptiesBuffer
  <2> SUFFICES ASSUME IndInv, pc \in {"stopped", "exited"}
               PROVE  Held = InFlush
    BY DEF StopEmptiesBuffer
  <2>1. buf = <<>> /\ payload = <<>>
    BY DEF IndInv, StopKeepsEmpty, OneHolder, IdleIsEmpty
  <2> QED
    BY <2>1, NoRecords DEF Held
<1> QED
  BY <1>1, Inductive, PTL

-----------------------------------------------------------------------------
(***************************************************************************)
(* Pusher implements LogPipe.                                              *)
(***************************************************************************)

\* An empty pusher is an empty pipe.
LEMMA RefinesInit == Init => Pipe!Init
<1> SUFFICES ASSUME Init
             PROVE  Pipe!Init
  OBVIOUS
<1>1. \A f \in Flushes : Range(flush[f].payload) = {}
  BY NoRecords DEF Init, NoFlush
<1>2. Held = {}
  BY <1>1, NoRecords DEF Init, Held, InFlush
<1> QED
  BY <1>2 DEF Init, Pipe!Init

\* A step of a holder that gives none of its records away, nor takes any.
LEMMA KeepsHeld ==
  ASSUME UNCHANGED <<accepted, sent, lost, trimmed>>, Held' = Held
  PROVE  [Pipe!Next]_(Pipe!vars)
  BY DEF Pipe!vars

\* Every step of the pusher accepts, delivers or drops records of the pipe, or moves
\* them from one holder to another, which the pipe does not see.
LEMMA RefinesNext == IndInv /\ [Next]_pusherVars => [Pipe!Next]_(Pipe!vars)
<1> SUFFICES ASSUME IndInv, [Next]_pusherVars
             PROVE  [Pipe!Next]_(Pipe!vars)
  OBVIOUS
<1>a. /\ buf \in Seq(Record)
      /\ payload \in Seq(Record)
      /\ \A f \in Flushes : flush[f] \in Flush /\ flush[f].payload \in Seq(Record)
      /\ accepted \in Nat
      /\ DOMAIN flush = Flushes
  BY DEF IndInv, TypeOK, Flush
<1>b. HeldApart
  BY HeldApartEquiv DEF IndInv, OneHolder
<1>c. IdleIsEmpty
  BY DEF IndInv, OneHolder
<1>1. ASSUME NEW n \in 0..MaxBatch, RecvLogs(n)
      PROVE  Pipe!Accept
  <2> DEFINE new == [k \in 1..n |-> accepted + k]
  <2>1. n \in Nat
    OBVIOUS
  <2>2. new \in Seq(Record) /\ Range(new) = (accepted + 1)..(accepted + n)
    BY <1>a, <2>1, NewRecords
  <2> HIDE DEF new
  <2>3. Range(buf') = Range(buf) \cup (accepted + 1)..(accepted + n)
    <3>1. buf' = buf \o new
      BY <1>1 DEF RecvLogs, new
    <3> QED
      BY <1>a, <2>2, <3>1, Concatenation
  <2>4. UNCHANGED <<payload, flush, sent, lost, trimmed>> /\ accepted' = accepted + n
    BY <1>1 DEF RecvLogs
  <2>5. Held' = Held \cup (accepted + 1)..accepted'
    BY <2>3, <2>4 DEF Held, InFlush
  <2>6. accepted' \in Nat /\ accepted' >= accepted
    BY <1>a, <2>1, <2>4
  <2> QED
    BY <2>4, <2>5, <2>6 DEF Pipe!Accept
<1>2. ASSUME NEW c, PushSync(c), pc = "select",
             UNCHANGED <<flush, sent, lost, trimmed, accepted>>
      PROVE  [Pipe!Next]_(Pipe!vars)
  <2>1. Range(payload) = {} /\ Range(buf') = {} /\ Range(payload') = Range(buf)
    BY <1>2, <1>c, NoRecords DEF PushSync, IdleIsEmpty
  <2>2. Held' = Held
    BY <1>2, <2>1 DEF Held, InFlush
  <2> QED
    BY <1>2, <2>2, KeepsHeld
<1>3. ASSUME StartFlush, UNCHANGED <<payload, sent, lost, trimmed, accepted>>
      PROVE  [Pipe!Next]_(Pipe!vars)
  <2>1. PICK f \in Flushes :
          /\ flush[f].at = "idle"
          /\ flush' = [flush EXCEPT ![f] = [at |-> "new", under |-> NoInvocation, payload |-> buf]]
    BY <1>3 DEF StartFlush
  <2>2. /\ flush'[f].payload = buf
        /\ \A g \in Flushes \ {f} : flush'[g] = flush[g]
    BY <1>a, <2>1
  <2>3. Range(flush[f].payload) = {} /\ Range(buf') = {}
    BY <1>3, <1>c, <2>1, NoRecords DEF StartFlush, IdleIsEmpty
  <2>4. InFlush = Others(f) \cup {} /\ InFlush' = Others(f) \cup Range(buf)
    BY <2>2, <2>3, Split, OthersKeep
  <2>5. Held' = Held
    BY <1>3, <2>3, <2>4 DEF Held
  <2> QED
    BY <1>3, <2>5, KeepsHeld
<1>4. ASSUME NEW ok \in BOOLEAN, AfterPush(ok)
      PROVE  /\ Held' = Held \ Range(payload)
             /\ Held \ Held' = Range(payload)
             /\ UNCHANGED <<accepted, trimmed>>
  <2>1. Range(payload') = {} /\ UNCHANGED <<buf, flush, accepted, trimmed>>
    BY <1>4, NoRecords DEF AfterPush
  <2>2. Held' = Range(buf) \cup InFlush
    BY <2>1 DEF Held, InFlush
  <2>3. (Range(buf) \cup InFlush) \cap Range(payload) = {}
    BY <1>b DEF HeldApart, Apart, InFlush
  <2> QED
    BY <2>1, <2>2, <2>3 DEF Held
<1>5. CASE PushOk
  <2>1. UNCHANGED lost /\ sent' = sent \cup Range(payload)
    BY <1>5 DEF PushOk
  <2>2. Pipe!Deliver
    BY <1>4, <1>5, <2>1 DEF PushOk, Pipe!Deliver
  <2> QED
    BY <2>2 DEF Pipe!Next
<1>6. CASE PushFail
  <2>1. UNCHANGED sent /\ lost' = lost \cup Range(payload)
    BY <1>6 DEF PushFail
  <2>2. Pipe!Drop
    BY <1>4, <1>6, <2>1 DEF PushFail, Pipe!Drop
  <2> QED
    BY <2>2 DEF Pipe!Next
<1>7. ASSUME NEW f \in Flushes, RecvFlushResp(f)
      PROVE  [Pipe!Next]_(Pipe!vars)
  <2>1. /\ buf' = flush[f].payload \o buf
        /\ flush'[f].payload = <<>>
        /\ \A g \in Flushes \ {f} : flush'[g] = flush[g]
        /\ UNCHANGED <<payload, sent, lost, trimmed, accepted>>
    BY <1>7, <1>a DEF RecvFlushResp, Requeued, NoFlush
  <2>2. Range(buf') = Range(flush[f].payload) \cup Range(buf)
    BY <1>a, <2>1, Concatenation
  <2>3. /\ InFlush = Others(f) \cup Range(flush[f].payload)
        /\ InFlush' = Others(f) \cup {}
    BY <2>1, NoRecords, Split, OthersKeep
  <2>4. Held' = Held
    BY <2>1, <2>2, <2>3 DEF Held
  <2> QED
    BY <2>1, <2>4, KeepsHeld
<1>8. ASSUME NEW f \in Flushes, NEW q \in Seq(Record), FlushTried(f),
             flush' = [flush EXCEPT ![f] = Answering(q)],
             Range(q) \subseteq Range(flush[f].payload)
      PROVE  /\ Held' \subseteq Held
             /\ Held \ Held' = Range(flush[f].payload) \ Range(q)
             /\ UNCHANGED <<accepted, lost>>
  <2>1. /\ flush'[f].payload = q
        /\ \A g \in Flushes \ {f} : flush'[g] = flush[g]
        /\ UNCHANGED <<buf, payload, accepted, lost>>
    BY <1>8, <1>a DEF FlushTried, Flush, Answering
  <2>2. /\ InFlush = Others(f) \cup Range(flush[f].payload)
        /\ InFlush' = Others(f) \cup Range(q)
    BY <2>1, Split, OthersKeep
  <2>3. (Range(buf) \cup Range(payload) \cup Others(f)) \cap Range(flush[f].payload) = {}
    BY <1>b DEF HeldApart, Apart, Others
  <2>4. /\ Held = Range(buf) \cup Range(payload) \cup Others(f) \cup Range(flush[f].payload)
        /\ Held' = Range(buf) \cup Range(payload) \cup Others(f) \cup Range(q)
    BY <2>1, <2>2 DEF Held
  <2> QED
    BY <1>8, <2>1, <2>3, <2>4
<1>9. ASSUME NEW f \in Flushes, FlushOk(f)
      PROVE  Pipe!Deliver
  <2>1. /\ sent' = sent \cup Range(flush[f].payload)
        /\ UNCHANGED trimmed
        /\ FlushTried(f)
        /\ flush' = [flush EXCEPT ![f] = Answering(<<>>)]
    BY <1>9 DEF FlushOk
  <2>2. /\ Held' \subseteq Held
        /\ Held \ Held' = Range(flush[f].payload)
        /\ UNCHANGED <<accepted, lost>>
    BY <1>8, <2>1, NoRecords
  <2> QED
    BY <2>1, <2>2 DEF Pipe!Deliver
<1>10. ASSUME NEW f \in Flushes, FlushFail(f)
       PROVE  Pipe!Drop
  <2> DEFINE q == Trimmed(flush[f].payload)
  <2>1. /\ trimmed' = trimmed \cup (Range(flush[f].payload) \ Range(q))
        /\ UNCHANGED sent
        /\ FlushTried(f)
        /\ flush' = [flush EXCEPT ![f] = Answering(q)]
    BY <1>10 DEF FlushFail
  <2>2. q \in Seq(Record) /\ Range(q) \subseteq Range(flush[f].payload)
    BY <1>a, Trimming
  <2> HIDE DEF q
  <2>3. /\ Held' \subseteq Held
        /\ Held \ Held' = Range(flush[f].payload) \ Range(q)
        /\ UNCHANGED <<accepted, lost>>
    BY <1>8, <2>1, <2>2
  <2> QED
    BY <2>1, <2>3 DEF Pipe!Drop
<1>11. ASSUME UNCHANGED <<buf, payload, sent, lost, trimmed, accepted>>,
              \A f \in Flushes : flush'[f].payload = flush[f].payload
       PROVE  [Pipe!Next]_(Pipe!vars)
  <2>1. Held' = Held
    BY <1>11 DEF Held, InFlush
  <2> QED
    BY <1>11, <2>1, KeepsHeld
<1>12. CASE RecvRuntimeDone
  <2>1. UNCHANGED <<sent, lost, trimmed, accepted>> /\ pc = "select"
    BY <1>12 DEF RecvRuntimeDone
  <2>2. CASE UNCHANGED <<pc, cause, buf, payload, flush>>
    BY <1>11, <2>1, <2>2
  <2>3. CASE PushSync("runtimeDone") /\ UNCHANGED flush
    BY <1>2, <2>1, <2>3
  <2>4. CASE StartFlush /\ UNCHANGED <<pc, cause, payload>>
    BY <1>3, <2>1, <2>4
  <2> QED
    BY <1>12, <2>2, <2>3, <2>4 DEF RecvRuntimeDone
<1>13. ASSUME NEW i \in Invocations, RecvInvoke(i)
       PROVE  [Pipe!Next]_(Pipe!vars)
  <2>1. UNCHANGED <<payload, sent, lost, trimmed, accepted>>
    BY <1>13 DEF RecvInvoke
  <2>2. StartFlush \/ UNCHANGED <<buf, flush>>
    BY <1>13 DEF RecvInvoke
  <2> QED
    BY <1>3, <1>11, <2>1, <2>2
<1>14. CASE CtxDone \/ RecvStop \/ RecvForce
  <2>1. UNCHANGED <<flush, sent, lost, trimmed, accepted>> /\ pc = "select"
    BY <1>14 DEF CtxDone, RecvStop, RecvForce
  <2>2. (\E c \in Cause : PushSync(c)) \/ UNCHANGED <<buf, payload>>
    BY <1>14 DEF CtxDone, RecvStop, RecvForce, Cause
  <2> QED
    BY <1>2, <1>11, <2>1, <2>2
<1>15. CASE SignalDone \/ SendStopped
  BY <1>11, <1>15 DEF SignalDone, SendStopped
<1>16. ASSUME NEW f \in Flushes, FlushStart(f)
       PROVE  [Pipe!Next]_(Pipe!vars)
  <2>1. \A g \in Flushes : flush'[g].payload = flush[g].payload
    BY <1>16, <1>a DEF FlushStart, Flush
  <2> QED
    BY <1>11, <1>16, <2>1 DEF FlushStart
<1>17. CASE \/ \E i \in Invocations : Cancel(i) \/ SendForce(i)
            \/ UNCHANGED pusherVars
  BY <1>11, <1>17 DEF Cancel, SendForce, pusherVars
<1> QED
  BY <1>1, <1>5, <1>6, <1>7, <1>9, <1>10, <1>12, <1>13, <1>14, <1>15, <1>16, <1>17
  DEF Next, Internal, External, Pipe!Next

\* The pusher keeps the promise of LogPipe.
THEOREM Implementation == Spec => ImplementsLogPipe
  BY RefinesInit, RefinesNext, Inductive, PTL DEF Spec, ImplementsLogPipe, Pipe!Spec

\* Every record the pusher ever accepted is held, acknowledged or known to be given up,
\* and only one of these.
THEOREM PartitionInPusher == Spec => []Partition
<1>1. Pipe!Spec => []Pipe!Partition
  BY Pipe!PartitionHolds
<1> QED
  BY <1>1, Implementation, PTL DEF ImplementsLogPipe, Partition

=============================================================================
