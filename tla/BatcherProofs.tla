--------------------------- MODULE BatcherProofs ---------------------------
(***************************************************************************)
(* Proofs about module Batcher, for all values of its constants.           *)
(***************************************************************************)
EXTENDS Batcher, SequenceTheorems, WellFoundedInduction, TLAPS

-----------------------------------------------------------------------------
(* Sequences *)

\* Draining the first k elements of a sequence, as SinkOk drains the buffer,
\* splits it without loss.
LEMMA Split ==
    ASSUME NEW S, NEW s \in Seq(S), NEW k \in 0..Len(s)
    PROVE  /\ SubSeq(s, 1, k) \in Seq(S)
           /\ SubSeq(s, k + 1, Len(s)) \in Seq(S)
           /\ Len(SubSeq(s, 1, k)) = k
           /\ Len(SubSeq(s, k + 1, Len(s))) = Len(s) - k
           /\ \A i \in 1..(Len(s) - k) : SubSeq(s, k + 1, Len(s))[i] = s[i + k]
           /\ SubSeq(s, 1, k) \o SubSeq(s, k + 1, Len(s)) = s
<1> Len(s) \in Nat
  BY LenProperties
<1>1. \A i \in 1..Len(s) : s[i] \in S
  BY ElementOfSeq
<1>2. /\ SubSeq(s, 1, k) \in Seq(S)
      /\ Len(SubSeq(s, 1, k)) = k
  <2>1. \A i \in 1..k : s[i] \in S
    BY <1>1
  <2> QED BY <2>1, SubSeqProperties
<1>3. /\ SubSeq(s, k + 1, Len(s)) \in Seq(S)
      /\ Len(SubSeq(s, k + 1, Len(s))) = Len(s) - k
      /\ \A i \in 1..(Len(s) - k) : SubSeq(s, k + 1, Len(s))[i] = s[i + k]
  <2>1. \A i \in (k + 1)..Len(s) : s[i] \in S
    BY <1>1
  <2>2. /\ SubSeq(s, k + 1, Len(s)) \in Seq(S)
        /\ Len(SubSeq(s, k + 1, Len(s))) =
              IF k + 1 <= Len(s) THEN Len(s) - (k + 1) + 1 ELSE 0
        /\ \A i \in 1..(Len(s) - (k + 1) + 1) :
              SubSeq(s, k + 1, Len(s))[i] = s[(k + 1) + i - 1]
    BY <2>1, SubSeqProperties
  <2> QED BY <2>2
<1>4. SubSeq(s, 1, k) \o SubSeq(s, k + 1, Len(s)) = s
  <2>1. SubSeq(s, 1, k) \o SubSeq(s, k + 1, Len(s)) = SubSeq(s, 1, Len(s))
    <3>1. 1 \in 1..(Len(s) + 1) /\ k \in (1 - 1)..Len(s) /\ Len(s) \in k..Len(s)
      OBVIOUS
    <3> QED BY <3>1, ConcatAdjacentSubSeq
  <2> QED BY <2>1, SubSeqFull
<1> QED BY <1>2, <1>3, <1>4

\* Concatenation of event sequences, as a fact about values.
LEMMA Assoc ==
    \A s, t, u \in Seq(Event) : (s \o t) \o u = s \o (t \o u)
BY ConcatAssociative

LEMMA ConcatType ==
    \A s, t \in Seq(Event) : s \o t \in Seq(Event)
BY ConcatProperties

LEMMA ConcatLength ==
    \A s, t \in Seq(Event) : Len(s \o t) = Len(s) + Len(t) /\ Len(s) \in Nat
BY ConcatProperties, LenProperties

\* Pushing an element at the end of a sequence.
LEMMA Pushed ==
    ASSUME NEW S, NEW s \in Seq(S), NEW e \in S
    PROVE  /\ Append(s, e) \in Seq(S)
           /\ Append(s, e) = s \o <<e>>
           /\ Append(s, e) # <<>>
           /\ Len(Append(s, e)) = Len(s) + 1
           /\ \A i \in 1..Len(s) : Append(s, e)[i] = s[i]
           /\ Append(s, e)[Len(s) + 1] = e
BY AppendProperties, AppendIsConcat

-----------------------------------------------------------------------------
(* Type correctness *)

LEMMA TypeInit == Init => TypeOK
BY BatcherAssumption DEF Init, TypeOK, NoBatch

LEMMA TypeStep == TypeOK /\ [Next]_vars => TypeOK'
<1> SUFFICES ASSUME TypeOK, [Next]_vars PROVE TypeOK'
  OBVIOUS
<1> USE BatcherAssumption DEF TypeOK, NoBatch
<1>1. ASSUME NEW e \in Event, Send(e) PROVE TypeOK'
  BY <1>1 DEF Send, batcherVars
<1>2. CASE CloseSender
  BY <1>2 DEF CloseSender, batcherVars
<1>3. CASE Receive
  <2>1. /\ chan' \in Seq(Event)
        /\ buffer' = Append(buffer, Head(chan)) /\ buffer' \in Seq(Event)
        /\ Len(buffer') = Len(buffer) + 1 /\ Len(buffer) \in Nat
    BY <1>3, HeadTailProperties, AppendProperties, LenProperties DEF Receive
  <2>2. ages' \in Seq(0..FlushInterval)
    BY <1>3 DEF Receive
  <2>3. batchAge' \in 0..FlushInterval \cup {NoBatch}
    BY <1>3 DEF Receive, AgeAfterPush
  <2>4. pc' \in {"recv", "send", "backoff", "ended"}
        /\ loop' \in {"ready", "flush", "final"} /\ n' \in 0..Len(buffer')
    BY <1>3, <2>1 DEF Receive, StartSend
  <2> QED BY <1>3, <2>1, <2>2, <2>3, <2>4 DEF Receive
<1>4. CASE ReceiveTooLarge
  BY <1>4 DEF ReceiveTooLarge, End
<1>5. CASE ReceiveClosed
  BY <1>5 DEF ReceiveClosed, End, StartSend
<1>6. CASE Deadline
  BY <1>6 DEF Deadline, StartSend
<1>7. CASE SinkOk
  <2> DEFINE rest == SubSeq(buffer, n + 1, Len(buffer))
  <2>1. /\ rest \in Seq(Event) /\ buffer' = rest /\ Len(rest) \in Nat
        /\ SubSeq(buffer, 1, n) \in Seq(Event)
    BY <1>7, Split, LenProperties DEF SinkOk
  <2>2. delivered' \in Seq(Event)
    BY <1>7, <2>1, ConcatProperties DEF SinkOk
  <2>3. ages' \in Seq(0..FlushInterval)
    <3>1. \A i \in (n + 1)..Len(ages) : ages[i] \in 0..FlushInterval
      BY ElementOfSeq, LenProperties
    <3> QED BY <1>7, <3>1, SubSeqProperties, LenProperties DEF SinkOk
  <2>4. /\ batchAge' \in 0..FlushInterval \cup {NoBatch}
        /\ pc' \in {"recv", "send", "backoff", "ended"}
        /\ loop' \in {"ready", "flush", "final"}
        /\ n' \in 0..Len(buffer')
        /\ result' \in {"running", "ok", "too_large"}
    <3>1. CASE StartSend(rest, loop) /\ UNCHANGED <<batchAge, result>>
      BY <3>1, <2>1 DEF StartSend
    <3>2. CASE Resume(rest, batchAge)
      BY <3>2, <2>1 DEF Resume
    <3>3. CASE End("ok") /\ UNCHANGED batchAge
      BY <3>3, <2>1 DEF End
    <3> QED BY <1>7, <3>1, <3>2, <3>3 DEF SinkOk
  <2> QED BY <1>7, <2>1, <2>2, <2>3, <2>4 DEF SinkOk
<1>8. CASE SinkErr
  BY <1>8 DEF SinkErr
<1>9. CASE Retry
  BY <1>9 DEF Retry
<1>10. CASE Tick
  <2>1. ages' \in Seq(0..FlushInterval)
    <3>1. \A i \in 1..Len(ages) : Older(ages[i]) \in 0..FlushInterval
      BY ElementOfSeq DEF Older
    <3> QED BY <1>10, <3>1, LenProperties DEF Tick
  <2>2. batchAge' \in 0..FlushInterval \cup {NoBatch}
    BY <1>10 DEF Tick, Older
  <2> QED BY <1>10, <2>1, <2>2 DEF Tick
<1>11. CASE UNCHANGED vars
  BY <1>11 DEF vars, batcherVars
<1> QED
  BY <1>1, <1>2, <1>3, <1>4, <1>5, <1>6, <1>7, <1>8, <1>9, <1>10, <1>11
     DEF Next, Terminated

\* Every variable keeps its type; in particular the length of the batch being
\* sent never exceeds the buffer it is cut from (send_prefix_with_retry).
THEOREM TypeCorrect == Safety => []TypeOK
<1> QED BY TypeInit, TypeStep, PTL DEF Safety

-----------------------------------------------------------------------------
(* Batches *)

\* What is buffered fits the byte budget one by one, and a send has a batch.
BatchInv ==
    /\ \A i \in 1..Len(buffer) : Size[buffer[i]] <= MaxBytes
    /\ pc \in {"send", "backoff"} => n \in 1..Len(buffer)

\* prefix_len never returns 0 for a buffer whose first event fits.
LEMMA PrefixNotEmpty ==
    ASSUME NEW s \in Seq(Event), s # <<>>, NEW l, StartSend(s, l),
           \A i \in 1..Len(s) : Size[s[i]] <= MaxBytes
    PROVE  n' \in 1..Len(s)
<1>1. Len(s) \in Nat \ {0}
  BY EmptySeq
<1>2. PICK k \in 0..Len(s) : IsPrefixLen(s, k) /\ n' = k
  BY DEF StartSend
<1>3. Fits(s, 1)
  BY <1>1, BatcherAssumption DEF Fits
<1>4. k # 0
  BY <1>1, <1>2, <1>3 DEF IsPrefixLen
<1> QED BY <1>1, <1>2, <1>4

LEMMA BatchStep == TypeOK /\ BatchInv /\ [Next]_vars => BatchInv'
<1> SUFFICES ASSUME TypeOK, BatchInv, [Next]_vars PROVE BatchInv'
  OBVIOUS
<1> USE BatcherAssumption DEF TypeOK, BatchInv
<1>0. Len(buffer) \in Nat
  BY LenProperties
<1>1. ASSUME NEW e \in Event, Send(e) PROVE BatchInv'
  BY <1>1 DEF Send, batcherVars
<1>2. CASE CloseSender
  BY <1>2 DEF CloseSender, batcherVars
<1>3. CASE Receive
  <2>1. /\ buffer' \in Seq(Event)
        /\ buffer' # <<>> /\ Len(buffer') = Len(buffer) + 1
        /\ \A i \in 1..Len(buffer) : buffer'[i] = buffer[i]
        /\ buffer'[Len(buffer) + 1] = Head(chan)
    <3>1. Head(chan) \in Event /\ buffer \in Seq(Event)
      BY <1>3, HeadTailProperties DEF Receive
    <3>2. buffer' = Append(buffer, Head(chan))
      BY <1>3 DEF Receive
    <3> HIDE DEF TypeOK, BatchInv
    <3> QED BY <3>1, <3>2, Pushed
  <2>2. \A i \in 1..Len(buffer') : Size[buffer'[i]] <= MaxBytes
    <3> TAKE i \in 1..Len(buffer')
    <3>1. CASE i = Len(buffer) + 1
      BY <1>3, <2>1, <3>1 DEF Receive
    <3>2. CASE i \in 1..Len(buffer)
      BY <2>1, <3>2
    <3>3. i = Len(buffer) + 1 \/ i \in 1..Len(buffer)
      BY <1>0, <2>1
    <3> QED BY <3>1, <3>2, <3>3
  <2>3. CASE StartSend(buffer', "ready")
    BY <2>1, <2>2, <2>3, PrefixNotEmpty
  <2>4. CASE UNCHANGED <<pc, loop, n>>
    BY <1>3, <2>2, <2>4 DEF Receive
  <2> QED BY <1>3, <2>3, <2>4 DEF Receive
<1>4. CASE ReceiveTooLarge
  BY <1>4, EmptySeq DEF ReceiveTooLarge, End
<1>5. CASE ReceiveClosed
  <2>1. CASE End("ok")
    BY <1>5, <2>1 DEF ReceiveClosed, End
  <2>2. CASE buffer # <<>> /\ StartSend(buffer, "final")
    BY <1>5, <2>2, PrefixNotEmpty DEF ReceiveClosed
  <2> QED BY <1>5, <2>1, <2>2 DEF ReceiveClosed
<1>6. CASE Deadline
  BY <1>6, PrefixNotEmpty DEF Deadline, DeadlineDue
<1>7. CASE SinkOk
  <2> DEFINE rest == SubSeq(buffer, n + 1, Len(buffer))
  <2>1. /\ rest \in Seq(Event) /\ buffer' = rest
        /\ Len(rest) = Len(buffer) - n
        /\ \A i \in 1..(Len(buffer) - n) : rest[i] = buffer[i + n]
    <3>1. buffer \in Seq(Event) /\ n \in 0..Len(buffer) /\ buffer' = rest
      BY <1>7 DEF SinkOk
    <3> HIDE DEF TypeOK, BatchInv
    <3> QED BY <3>1, Split
  <2>2. \A i \in 1..Len(rest) : Size[rest[i]] <= MaxBytes
    <3> TAKE i \in 1..Len(rest)
    <3>1. i + n \in 1..Len(buffer) /\ rest[i] = buffer[i + n]
      BY <1>0, <2>1
    <3> QED BY <3>1
  <2>3. CASE rest # <<>> /\ StartSend(rest, loop)
    BY <2>1, <2>2, <2>3, PrefixNotEmpty
  <2>4. CASE Resume(rest, batchAge) \/ End("ok")
    BY <2>1, <2>2, <2>4 DEF Resume, End
  <2> QED BY <1>7, <2>3, <2>4 DEF SinkOk, ShouldFlushNow
<1>8. CASE SinkErr
  BY <1>8 DEF SinkErr
<1>9. CASE Retry
  BY <1>9 DEF Retry
<1>10. CASE Tick
  BY <1>10 DEF Tick
<1>11. CASE UNCHANGED vars
  BY <1>11 DEF vars, batcherVars
<1> QED
  BY <1>1, <1>2, <1>3, <1>4, <1>5, <1>6, <1>7, <1>8, <1>9, <1>10, <1>11
     DEF Next, Terminated

\* send_prefix_with_retry is never entered with an empty batch, which the
\* sink would refuse for ever: every send has at least one event.
THEOREM BatchNeverEmpty == Safety => []BatchInv
<1>1. Init => BatchInv
  BY EmptySeq DEF Init, BatchInv
<1> QED BY <1>1, TypeCorrect, BatchStep, PTL DEF Safety

-----------------------------------------------------------------------------
(* Sums, by induction: the library's induction theorems take an operator, a *)
(* set of numbers does as well                                              *)

\* The naturals are well-founded: a non-empty set of them has a least one.
LEMMA Least ==
    ASSUME NEW T \in SUBSET Nat, T # {}
    PROVE  \E x \in T : \A y \in T : x <= y
<1> DEFINE R == OpToRel(<, Nat)
<1>1. IsWellFoundedOn(R, Nat)
  BY NatLessThanWellFounded
<1>2. \A p, q \in Nat : p < q => <<p, q>> \in R
  BY DEF OpToRel
<1> HIDE DEF R
<1>3. PICK x \in T : \A y \in T : ~(<<y, x>> \in R)
  BY <1>1, WFMin
<1>4. \A p, q \in Nat : ~(p < q) => q <= p
  OBVIOUS
<1> QED BY <1>2, <1>3, <1>4, Zenon

\* Induction as a fact about sets.
LEMMA Induct ==
    ASSUME NEW T, 0 \in T, \A m \in Nat : m \in T => m + 1 \in T
    PROVE  Nat \subseteq T
<1> SUFFICES ASSUME Nat \ T # {} PROVE FALSE
  OBVIOUS
<1>1. PICK x \in Nat \ T : \A y \in Nat \ T : x <= y
  BY Least
<1>2. x - 1 \in Nat /\ x - 1 \in T
  BY <1>1
<1>3. (x - 1) + 1 \in T
  BY <1>2
<1> QED BY <1>1, <1>3

\* The recursive sum of Bytes is a function: it exists on every prefix.
LEMMA SumDefined ==
   ASSUME NEW N \in Nat, NEW a \in [1..N -> Nat]
   PROVE \E f : f = [i \in 0..N |-> IF i = 0 THEN 0 ELSE f[i - 1] + a[i]]
<1> DEFINE Sums(f, m) == f[0] = 0 /\ \A i \in 1..m : f[i] = f[i - 1] + a[i]
           Summed(m) == \E f \in [0..m -> Nat] : Sums(f, m)
           T == {m \in Nat : m <= N => Summed(m)}
<1>1. 0 \in T
  <2> DEFINE z == [i \in 0..0 |-> 0]
  <2>1. z \in [0..0 -> Nat] /\ Sums(z, 0)
    OBVIOUS
  <2> QED BY <2>1
<1>2. ASSUME NEW m \in Nat, m \in T PROVE m + 1 \in T
  <2> SUFFICES ASSUME m + 1 <= N PROVE Summed(m + 1)
    <3> HIDE DEF Summed
    <3> QED OBVIOUS
  <2>1. PICK f \in [0..m -> Nat] : Sums(f, m)
    <3>1. m <= N
      OBVIOUS
    <3> QED BY <1>2, <3>1
  <2> DEFINE g == [i \in 0..(m + 1) |-> IF i = m + 1 THEN f[m] + a[m + 1] ELSE f[i]]
  <2>2. a[m + 1] \in Nat /\ f[m] \in Nat
    OBVIOUS
  <2>3. g \in [0..(m + 1) -> Nat]
    BY <2>2
  <2>4. g[0] = 0
    BY <2>1
  <2>5. ASSUME NEW i \in 1..(m + 1) PROVE g[i] = g[i - 1] + a[i]
    <3>1. CASE i = m + 1
      BY <3>1
    <3>2. CASE i \in 1..m
      <4>1. g[i] = f[i] /\ g[i - 1] = f[i - 1]
        BY <3>2
      <4> QED BY <2>1, <3>2, <4>1
    <3> QED BY <3>1, <3>2
  <2> QED BY <2>3, <2>4, <2>5
<1> HIDE DEF T
<1>3. N \in T
  <2>1. Nat \subseteq T
    BY <1>1, <1>2, Induct
  <2> QED BY <2>1
<1>4. PICK f \in [0..N -> Nat] : Sums(f, N)
  <2>1. Summed(N)
    <3> HIDE DEF Summed
    <3> QED BY <1>3 DEF T
  <2> QED BY <2>1
<1>5. f = [i \in 0..N |-> IF i = 0 THEN 0 ELSE f[i - 1] + a[i]]
  BY <1>4
<1> QED BY <1>5

\* The bytes of a prefix, as the loop of prefix_len adds them up.
LEMMA BytesAreSums ==
    ASSUME NEW s \in Seq(Event)
    PROVE  /\ Bytes(s, 0) = 0
           /\ \A k \in 1..Len(s) : Bytes(s, k) = Bytes(s, k - 1) + Size[s[k]]
<1> DEFINE N == Len(s)
           F(f) == [i \in 0..N |-> IF i = 0 THEN 0 ELSE f[i - 1] + Size[s[i]]]
           sum == CHOOSE f : f = F(f)
<1>1. N \in Nat /\ \A i \in 1..N : Size[s[i]] \in Nat
  BY LenProperties, ElementOfSeq, BatcherAssumption
<1>2. \E f : f = F(f)
  <2> DEFINE a == [i \in 1..N |-> Size[s[i]]]
  <2>1. a \in [1..N -> Nat]
    BY <1>1
  <2> HIDE DEF N
  <2>2. PICK f : f = [i \in 0..N |-> IF i = 0 THEN 0 ELSE f[i - 1] + a[i]]
    BY <1>1, <2>1, SumDefined
  <2>3. \A i \in 0..N : (IF i = 0 THEN 0 ELSE f[i - 1] + a[i])
                       = (IF i = 0 THEN 0 ELSE f[i - 1] + Size[s[i]])
    BY <1>1
  <2>4. f = F(f)
    BY <2>2, <2>3
  <2> QED BY <2>4
<1>3. sum = F(sum)
  BY <1>2
<1>4. \A k : Bytes(s, k) = sum[k]
  BY DEF Bytes
<1> HIDE DEF sum
<1>5. sum[0] = 0 /\ \A k \in 1..N : sum[k] = sum[k - 1] + Size[s[k]]
  BY <1>1, <1>3
<1> QED BY <1>4, <1>5

-----------------------------------------------------------------------------
(* Batches within the limits *)

\* The prefix being sent got past prefix_len.
FitsInv == pc \in {"send", "backoff"} => Fits(buffer, n)

LEMMA FitsStep == TypeOK /\ BatchInv /\ FitsInv /\ [Next]_vars => FitsInv'
<1> SUFFICES ASSUME TypeOK, BatchInv, FitsInv, [Next]_vars PROVE FitsInv'
  OBVIOUS
<1>a. ASSUME NEW l, NEW s, s = buffer', StartSend(s, l) PROVE FitsInv'
  BY <1>a DEF StartSend, IsPrefixLen, FitsInv
<1>b. ASSUME UNCHANGED <<buffer, n>>, pc' \in {"send", "backoff"} => pc \in {"send", "backoff"}
      PROVE  FitsInv'
  BY <1>b DEF FitsInv
<1>c. ASSUME pc' \in {"recv", "ended"} PROVE FitsInv'
  BY <1>c DEF FitsInv
<1>1. CASE (\E e \in Event : Send(e)) \/ CloseSender \/ SinkErr \/ Retry \/ Tick \/ UNCHANGED vars
  <2>1. UNCHANGED <<buffer, n>> /\ (pc' \in {"send", "backoff"} => pc \in {"send", "backoff"})
    BY <1>1 DEF Send, CloseSender, SinkErr, Retry, Tick, vars, batcherVars
  <2> QED BY <1>b, <2>1
<1>2. CASE Receive
  <2>1. StartSend(buffer', "ready") \/ (UNCHANGED pc /\ pc = "recv")
    BY <1>2 DEF Receive
  <2> QED BY <1>a, <1>c, <2>1
<1>3. CASE ReceiveTooLarge
  BY <1>3, <1>c DEF ReceiveTooLarge, End
<1>4. CASE ReceiveClosed \/ Deadline
  <2>1. \/ pc' = "ended"
        \/ buffer' = buffer /\ \E l : StartSend(buffer, l)
    BY <1>4 DEF ReceiveClosed, Deadline, End
  <2> QED BY <1>a, <1>c, <2>1
<1>5. CASE SinkOk
  <2>1. \/ pc' \in {"recv", "ended"}
        \/ \E l : StartSend(buffer', l)
    BY <1>5 DEF SinkOk, Resume, End
  <2> QED BY <1>a, <1>c, <2>1
<1> QED BY <1>1, <1>2, <1>3, <1>4, <1>5 DEF Next, Terminated

\* Every batch send_prefix_with_retry sends, on the first try and on every
\* retry, has at least one event, at most max_messages of them, and at most
\* max_bytes bytes: the EventTooLarge of send_prefix_with_retry is unreachable.
THEOREM BatchesWithinLimits == Safety => []BatchWithinLimits
<1>1. Init => FitsInv
  BY DEF Init, FitsInv
<1>2. TypeOK /\ BatchInv /\ FitsInv => BatchWithinLimits
  <2> SUFFICES ASSUME TypeOK, BatchInv, FitsInv, pc \in {"send", "backoff"}
               PROVE  /\ n \in 1..Len(buffer) /\ n <= MaxMessages
                      /\ Bytes(buffer, n) <= MaxBytes
    BY DEF BatchWithinLimits
  <2>1. /\ n \in 1..Len(buffer) /\ n <= MaxMessages /\ Len(buffer) \in Nat
        /\ \A i \in 1..n : Size[buffer[i]] <= MaxBytes
        /\ n > 1 => Bytes(buffer, n) <= MaxBytes
    BY LenProperties DEF TypeOK, BatchInv, FitsInv, Fits
  <2>2. CASE n = 1
    <3>1. Size[buffer[1]] \in Nat /\ Size[buffer[1]] <= MaxBytes
      BY <2>1, ElementOfSeq, BatcherAssumption DEF TypeOK
    <3>2. Bytes(buffer, 0) = 0 /\ Bytes(buffer, 1) = Bytes(buffer, 1 - 1) + Size[buffer[1]]
      BY <2>1, <2>2, BytesAreSums DEF TypeOK
    <3>3. Bytes(buffer, 1) = Size[buffer[1]]
      BY <3>1, <3>2
    <3> QED BY <2>1, <2>2, <3>1, <3>3
  <2>3. CASE n > 1
    BY <2>1, <2>3
  <2> QED BY <2>1, <2>2, <2>3
<1> QED BY <1>1, <1>2, FitsStep, TypeCorrect, BatchNeverEmpty, PTL DEF Safety

-----------------------------------------------------------------------------
(* Order and loss *)

\* NothingLost and OkMeansDrained with what they rest on: the final flush
\* starts only once the channel can yield no more, and a result is final.
OrderInv ==
    /\ NothingLost
    /\ OkMeansDrained
    /\ loop = "final" => ~txOpen /\ chan = <<>>
    /\ result # "running" => pc = "ended"

LEMMA OrderStep == TypeOK /\ OrderInv /\ [Next]_vars => OrderInv'
<1> SUFFICES ASSUME TypeOK, OrderInv, [Next]_vars PROVE OrderInv'
  OBVIOUS
<1> USE DEF TypeOK, OrderInv, NothingLost, OkMeansDrained
<1>1. ASSUME NEW e \in Event, Send(e) PROVE OrderInv'
  <2>1. sent = delivered \o buffer \o chan
    BY <1>1 DEF Send
  <2>2. Append(sent, e) = delivered \o buffer \o Append(chan, e)
    <3>1. delivered \o buffer \in Seq(Event) /\ <<e>> \in Seq(Event)
      <4>1. delivered \in Seq(Event) /\ buffer \in Seq(Event) /\ <<e>> \in Seq(Event)
        OBVIOUS
      <4> QED BY <4>1, ConcatType, Zenon
    <3>2. (delivered \o buffer \o chan) \o <<e>> = delivered \o buffer \o (chan \o <<e>>)
      <4>1. chan \in Seq(Event)
        OBVIOUS
      <4> HIDE DEF TypeOK, OrderInv, NothingLost, OkMeansDrained
      <4> QED BY <3>1, <4>1, Assoc, Zenon
    <3> QED BY <2>1, <3>2, AppendIsConcat
  <2> QED BY <1>1, <2>2 DEF Send, batcherVars
<1>2. CASE CloseSender
  BY <1>2 DEF CloseSender, batcherVars
<1>3. CASE Receive
  <2>1. delivered \o Append(buffer, Head(chan)) \o Tail(chan) = delivered \o buffer \o chan
    <3> DEFINE h == <<Head(chan)>>
    <3>1. /\ Head(chan) \in Event /\ Tail(chan) \in Seq(Event) /\ h \in Seq(Event)
          /\ chan = h \o Tail(chan)
      BY <1>3, HeadTailProperties DEF Receive
    <3>2. Append(buffer, Head(chan)) = buffer \o h
      BY <3>1, AppendIsConcat
    <3>3. delivered \o (buffer \o h) = (delivered \o buffer) \o h
      <4> HIDE DEF h
      <4>1. delivered \in Seq(Event) /\ buffer \in Seq(Event)
        OBVIOUS
      <4> QED BY <3>1, <4>1, Assoc
    <3>4. ((delivered \o buffer) \o h) \o Tail(chan) = (delivered \o buffer) \o (h \o Tail(chan))
      <4>1. delivered \in Seq(Event) /\ buffer \in Seq(Event)
        OBVIOUS
      <4>2. delivered \o buffer \in Seq(Event)
        BY <4>1, ConcatType, Zenon
      <4> QED BY <3>1, <4>2, Assoc
    <3> QED BY <3>1, <3>2, <3>3, <3>4
  <2> QED BY <1>3, <2>1 DEF Receive, StartSend
<1>4. CASE ReceiveTooLarge
  BY <1>4 DEF ReceiveTooLarge, End
<1>5. CASE ReceiveClosed
  <2>1. CASE buffer = <<>>
    <3>1. delivered \o buffer \o chan = delivered
      BY <1>5, <2>1, ConcatEmptySeq DEF ReceiveClosed
    <3> QED BY <1>5, <2>1, <3>1 DEF ReceiveClosed, End
  <2>2. CASE buffer # <<>>
    BY <1>5, <2>2 DEF ReceiveClosed, StartSend
  <2> QED BY <2>1, <2>2
<1>6. CASE Deadline
  BY <1>6 DEF Deadline, DeadlineDue, StartSend
<1>7. CASE SinkOk
  <2> DEFINE batch == SubSeq(buffer, 1, n)
             rest == SubSeq(buffer, n + 1, Len(buffer))
  <2>1. batch \in Seq(Event) /\ rest \in Seq(Event) /\ batch \o rest = buffer
    <3>1. buffer \in Seq(Event) /\ n \in 0..Len(buffer)
      OBVIOUS
    <3> HIDE DEF TypeOK, OrderInv, NothingLost, OkMeansDrained
    <3> QED BY <3>1, Split, Zenon
  <2>2. (delivered \o batch) \o rest = delivered \o buffer
    <3>1. delivered \in Seq(Event)
      OBVIOUS
    <3> HIDE DEF batch, rest, TypeOK, OrderInv, NothingLost, OkMeansDrained
    <3> QED BY <2>1, <3>1, Assoc, Zenon
  <2>3. delivered' = delivered \o batch /\ buffer' = rest /\ UNCHANGED <<chan, txOpen, sent>>
    BY <1>7 DEF SinkOk
  <2>4. result = "running" /\ sent' = delivered' \o buffer' \o chan'
    BY <1>7, <2>2, <2>3 DEF SinkOk
  <2>5. CASE StartSend(rest, loop) /\ UNCHANGED <<batchAge, result>>
    BY <2>3, <2>4, <2>5 DEF StartSend
  <2>6. CASE Resume(rest, batchAge)
    BY <2>3, <2>4, <2>6 DEF Resume
  <2>7. CASE loop = "final" /\ rest = <<>> /\ End("ok")
    <3>1. chan' = <<>> /\ delivered' \in Seq(Event)
      BY <2>1, <2>3, <2>7, ConcatProperties
    <3>2. delivered' \o <<>> \o <<>> = delivered'
      BY <3>1, ConcatEmptySeq
    <3> QED BY <2>3, <2>4, <2>7, <3>1, <3>2 DEF End
  <2> QED BY <1>7, <2>5, <2>6, <2>7 DEF SinkOk
<1>8. CASE SinkErr
  BY <1>8 DEF SinkErr
<1>9. CASE Retry
  BY <1>9 DEF Retry
<1>10. CASE Tick
  BY <1>10 DEF Tick
<1>11. CASE UNCHANGED vars
  BY <1>11 DEF vars, batcherVars
<1> QED
  BY <1>1, <1>2, <1>3, <1>4, <1>5, <1>6, <1>7, <1>8, <1>9, <1>10, <1>11
     DEF Next, Terminated

LEMMA OrderInvariant == Safety => []OrderInv
<1>1. Init => OrderInv
  BY DEF Init, OrderInv, NothingLost, OkMeansDrained
<1> QED BY <1>1, TypeCorrect, OrderStep, PTL DEF Safety

\* Batcher::run neither drops, repeats nor reorders an event, whatever the
\* sink does and for batches and channels of any size, unless it returns
\* EventTooLarge.
THEOREM NoLoss == Safety => []NothingLost
<1>1. OrderInv => NothingLost
  BY DEF OrderInv
<1> QED BY <1>1, OrderInvariant, PTL

\* run returns Ok only with every event acknowledged.
THEOREM CleanReturn == Safety => []OkMeansDrained
<1>1. OrderInv => OkMeansDrained
  BY DEF OrderInv
<1> QED BY <1>1, OrderInvariant, PTL

-----------------------------------------------------------------------------
(* The deadline *)

\* While events are buffered the clock is set, and no event is older than it.
TimerInv ==
    /\ Len(ages) = Len(buffer)
    /\ buffer # <<>> => /\ batchAge # NoBatch
                        /\ \A i \in 1..Len(ages) : ages[i] <= batchAge

LEMMA TimerStep == TypeOK /\ TypeOK' /\ TimerInv /\ [Next]_vars => TimerInv'
<1> SUFFICES ASSUME TypeOK, TypeOK', TimerInv, [Next]_vars PROVE TimerInv'
  OBVIOUS
<1> USE BatcherAssumption DEF TypeOK, TimerInv, NoBatch
<1>0. /\ Len(buffer) \in Nat
      /\ \A i \in 1..Len(ages) : ages[i] \in 0..FlushInterval
      /\ buffer = <<>> <=> Len(buffer) = 0
  BY LenProperties, ElementOfSeq, EmptySeq
<1>1. ASSUME NEW e \in Event, Send(e) PROVE TimerInv'
  BY <1>1 DEF Send, batcherVars
<1>2. CASE CloseSender
  BY <1>2 DEF CloseSender, batcherVars
<1>3. CASE Receive
  <2>1. /\ Len(buffer') = Len(buffer) + 1 /\ Len(ages') = Len(ages) + 1
        /\ \A i \in 1..Len(ages) : ages'[i] = ages[i]
        /\ ages'[Len(ages) + 1] = 0
    <3>1. Head(chan) \in Event /\ buffer \in Seq(Event) /\ ages \in Seq(0..FlushInterval)
      BY <1>3, HeadTailProperties DEF Receive
    <3>2. buffer' = Append(buffer, Head(chan)) /\ ages' = Append(ages, 0)
      BY <1>3 DEF Receive
    <3>3. 0 \in 0..FlushInterval
      OBVIOUS
    <3> HIDE DEF TypeOK, TimerInv
    <3>4. Len(buffer') = Len(buffer) + 1
      BY <3>1, <3>2, Pushed
    <3> QED BY <3>1, <3>2, <3>3, <3>4, Pushed
  <2>2. batchAge' = IF buffer = <<>> THEN 0 ELSE batchAge
    BY <1>3 DEF Receive, AgeAfterPush
  <2>3. CASE buffer = <<>>
    BY <1>0, <2>1, <2>2, <2>3
  <2>4. CASE buffer # <<>>
    <3>1. batchAge' = batchAge /\ batchAge \in 0..FlushInterval
      BY <2>2, <2>4
    <3>2. \A i \in 1..Len(ages') : ages'[i] <= batchAge
      <4> TAKE i \in 1..Len(ages')
      <4>1. CASE i = Len(ages) + 1
        BY <2>1, <2>4, <3>1, <4>1
      <4>2. CASE i \in 1..Len(ages)
        BY <2>1, <2>4, <4>2
      <4>3. i = Len(ages) + 1 \/ i \in 1..Len(ages)
        BY <1>0, <2>1
      <4> QED BY <4>1, <4>2, <4>3
    <3> QED BY <2>1, <2>4, <3>1, <3>2
  <2> QED BY <2>3, <2>4
<1>4. CASE ReceiveTooLarge
  BY <1>4, EmptySeq DEF ReceiveTooLarge
<1>5. CASE ReceiveClosed
  BY <1>5 DEF ReceiveClosed
<1>6. CASE Deadline
  BY <1>6 DEF Deadline
<1>7. CASE SinkOk
  <2>1. /\ Len(buffer') = Len(buffer) - n
        /\ Len(ages') = Len(ages) - n
        /\ \A i \in 1..(Len(ages) - n) : ages'[i] = ages[i + n]
    <3>1. /\ buffer' = SubSeq(buffer, n + 1, Len(buffer))
          /\ ages' = SubSeq(ages, n + 1, Len(ages))
      BY <1>7 DEF SinkOk
    <3>2. /\ n \in 0..Len(ages) /\ ages \in Seq(0..FlushInterval)
          /\ buffer \in Seq(Event) /\ Len(ages) = Len(buffer)
      OBVIOUS
    <3> HIDE DEF TypeOK, TimerInv
    <3>3. Len(buffer') = Len(buffer) - n
      BY <3>1, <3>2, Split
    <3> QED BY <3>1, <3>2, <3>3, Split
  <2>2. CASE buffer' = <<>>
    BY <2>1, <2>2
  <2>3. CASE buffer' # <<>>
    <3>1. batchAge' = batchAge
      BY <1>7, <2>3 DEF SinkOk, Resume
    <3>2. Len(buffer') # 0 /\ buffer # <<>>
      BY <1>0, <2>1, <2>3, EmptySeq
    <3>3. \A i \in 1..Len(ages') : ages'[i] <= batchAge
      <4> TAKE i \in 1..Len(ages')
      <4>1. i + n \in 1..Len(ages) /\ ages'[i] = ages[i + n]
        BY <1>0, <2>1
      <4> QED BY <3>2, <4>1
    <3> QED BY <2>1, <3>1, <3>2, <3>3
  <2> QED BY <2>2, <2>3
<1>8. CASE SinkErr
  BY <1>8 DEF SinkErr
<1>9. CASE Retry
  BY <1>9 DEF Retry
<1>10. CASE Tick
  <2>1. /\ buffer' = buffer /\ buffer # <<>>
        /\ batchAge \in 0..FlushInterval /\ batchAge' = Older(batchAge)
        /\ Len(ages') = Len(ages)
        /\ \A i \in 1..Len(ages) : ages'[i] = Older(ages[i])
    BY <1>0, <1>10 DEF Tick
  <2>2. \A x, y \in 0..FlushInterval : x <= y => Older(x) <= Older(y)
    BY DEF Older
  <2>3. batchAge' # NoBatch
    BY <2>1 DEF Older
  <2>4. ASSUME NEW i \in 1..Len(ages') PROVE ages'[i] <= batchAge'
    <3>1. ages[i] \in 0..FlushInterval /\ ages[i] <= batchAge
      BY <1>0, <2>1
    <3> QED BY <2>1, <2>2, <3>1
  <2>5. Len(ages') = Len(buffer')
    BY <2>1
  <2> QED BY <2>3, <2>4, <2>5
<1>11. CASE UNCHANGED vars
  BY <1>11 DEF vars, batcherVars
<1> QED
  BY <1>1, <1>2, <1>3, <1>4, <1>5, <1>6, <1>7, <1>8, <1>9, <1>10, <1>11
     DEF Next, Terminated

\* batch.rs:77, the half that holds: no push resets the deadline, and none
\* of the events behind the first is older than the clock it waits on.
THEOREM TimerIsNeverLate == Safety => []TimerCoversOldest
<1>1. Init => TimerInv
  BY EmptySeq DEF Init, TimerInv
<1>2. TypeOK /\ TimerInv => TimerCoversOldest
  <2> SUFFICES ASSUME TypeOK, TimerInv, buffer # <<>>
               PROVE  batchAge # NoBatch /\ ages[1] <= batchAge
    BY DEF TimerCoversOldest
  <2>1. 1 \in 1..Len(ages)
    BY EmptySeq DEF TypeOK, TimerInv
  <2> QED BY <2>1 DEF TimerInv
<1> QED BY <1>1, <1>2, TypeCorrect, TimerStep, PTL DEF Safety

-----------------------------------------------------------------------------
(* Refinement *)

\* The acknowledged batch is the next one of the abstract queue.
LEMMA SinkOkDelivers ==
    ASSUME TypeOK, BatchInv, OrderInv, OrderInv', SinkOk
    PROVE  D!Deliver
<1> USE DEF TypeOK
<1> DEFINE batch == SubSeq(buffer, 1, n)
           rest == SubSeq(buffer, n + 1, Len(buffer))
           done == delivered \o batch
<1>1. /\ batch \in Seq(Event) /\ rest \in Seq(Event)
      /\ batch \o rest = buffer /\ Len(batch) = n /\ n \in 1..Len(buffer)
  <2>1. buffer \in Seq(Event) /\ n \in 0..Len(buffer)
    OBVIOUS
  <2>2. n \in 1..Len(buffer)
    BY DEF SinkOk, BatchInv
  <2> QED BY <2>1, <2>2, Split, Zenon
<1>2. result = "running" /\ sent = delivered \o buffer \o chan
  BY DEF SinkOk, OrderInv, NothingLost
<1>3. delivered' = done /\ UNCHANGED sent
  BY DEF SinkOk
<1> HIDE DEF batch, rest
<1>4. /\ done \in Seq(Event) /\ rest \o chan \in Seq(Event)
      /\ Len(done) = Len(delivered) + n /\ Len(delivered) \in Nat
  <2>1. delivered \in Seq(Event) /\ chan \in Seq(Event)
    OBVIOUS
  <2>2. done \in Seq(Event) /\ rest \o chan \in Seq(Event)
    BY <1>1, <2>1, ConcatType, Zenon
  <2>3. Len(done) = Len(delivered) + Len(batch) /\ Len(delivered) \in Nat
    BY <1>1, <2>1, ConcatLength, Zenon
  <2> QED BY <1>1, <2>2, <2>3
<1>5. done \o rest = delivered \o buffer
  <2>1. delivered \in Seq(Event)
    OBVIOUS
  <2> QED BY <1>1, <2>1, Assoc, Zenon
<1> HIDE DEF done
<1>6. sent = done \o (rest \o chan)
  <2>1. done \in Seq(Event) /\ rest \in Seq(Event) /\ chan \in Seq(Event)
    BY <1>1, <1>4
  <2> HIDE DEF TypeOK
  <2>2. (done \o rest) \o chan = done \o (rest \o chan)
    BY <2>1, Assoc, Zenon
  <2> QED BY <1>2, <1>5, <2>2
<1>7. Len(sent) = Len(done) + Len(rest \o chan) /\ Len(rest \o chan) \in Nat
  BY <1>4, <1>6, ConcatProperties, LenProperties
<1>8. done = SubSeq(sent, 1, Len(done))
  <2>1. 1 \in 1..Len(done) /\ Len(done) \in 1..Len(done)
    BY <1>1, <1>4
  <2>2. SubSeq(done \o (rest \o chan), 1, Len(done)) = SubSeq(done, 1, Len(done))
    BY <1>4, <2>1, SubSeqOfConcat1
  <2> QED BY <1>4, <1>6, <2>2, SubSeqFull
<1>9. n \in 1..(Len(sent) - Len(delivered))
  BY <1>1, <1>4, <1>7, LenProperties
<1>10. result' \in {"running", "ok"} /\ (result' = "ok" => delivered' = sent)
  BY <1>2, <1>3 DEF SinkOk, StartSend, Resume, End, OrderInv, OkMeansDrained
<1> QED BY <1>2, <1>3, <1>4, <1>8, <1>9, <1>10 DEF D!Deliver

LEMMA DeliveryStep ==
    TypeOK /\ BatchInv /\ OrderInv /\ OrderInv' /\ [Next]_vars => [D!Next]_(D!vars)
<1> SUFFICES ASSUME TypeOK, BatchInv, OrderInv, OrderInv', [Next]_vars
             PROVE  [D!Next]_(D!vars)
  OBVIOUS
<1> USE DEF D!Next, D!vars
<1>1. ASSUME NEW e \in Event, Send(e) PROVE D!Accept(e)
  BY <1>1 DEF Send, batcherVars, D!Accept
<1>2. CASE CloseSender
  BY <1>2 DEF CloseSender, batcherVars
<1>3. CASE Receive
  BY <1>3 DEF Receive
<1>4. CASE ReceiveTooLarge
  BY <1>4 DEF ReceiveTooLarge, End, OrderInv, D!GiveUp
<1>5. CASE ReceiveClosed
  BY <1>5 DEF ReceiveClosed, End, OrderInv, OkMeansDrained, D!Finish
<1>6. CASE Deadline
  BY <1>6 DEF Deadline
<1>7. CASE SinkOk
  BY <1>7, SinkOkDelivers
<1>8. CASE SinkErr
  BY <1>8 DEF SinkErr
<1>9. CASE Retry
  BY <1>9 DEF Retry
<1>10. CASE Tick
  BY <1>10 DEF Tick
<1>11. CASE UNCHANGED vars
  BY <1>11 DEF vars, batcherVars
<1> QED
  BY <1>1, <1>2, <1>3, <1>4, <1>5, <1>6, <1>7, <1>8, <1>9, <1>10, <1>11
     DEF Next, Terminated

\* The batcher with its channel is an in-order queue that acknowledges every
\* accepted event at most once and ends only empty or by EventTooLarge.
THEOREM DeliveryImplemented == Safety => D!Safety
<1>1. Init => D!Init
  BY DEF Init, D!Init
<1> QED
  BY <1>1, TypeCorrect, BatchNeverEmpty, OrderInvariant, DeliveryStep, PTL
     DEF Safety, D!Safety

=============================================================================
