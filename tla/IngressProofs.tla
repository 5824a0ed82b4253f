---------------------------- MODULE IngressProofs ----------------------------
(***************************************************************************)
(* Proofs about the way in: module Ingress, for any policy, idle limit and *)
(* channel, and, in its second half, module Frames, for any frames, files, *)
(* public suffix list and cap.                                             *)
(***************************************************************************)
EXTENDS Ingress, Frames, SequenceTheorems, WellFoundedInduction, TLAPS

-----------------------------------------------------------------------------
(* The delays *)

\* Doubling stays between the initial and the largest delay.
LEMMA BackoffInRange ==
    ASSUME NEW d \in Initial..MaxDelay
    PROVE  next_backoff(d) \in Initial..MaxDelay
BY IngressAssumption DEF next_backoff, Least

\* The jitter takes away at most half of a delay, and never all of it.
LEMMA JitterInRange ==
    ASSUME NEW d \in Initial..MaxDelay, NEW s \in with_jitter(d)
    PROVE  s \in 1..MaxDelay /\ 2 * s >= d - 1
<1>1. d \in Nat /\ d >= 1 /\ d <= MaxDelay /\ MaxDelay \in Nat
  BY IngressAssumption
<1>2. CASE d <= 1
  BY <1>1, <1>2 DEF with_jitter
<1>3. CASE d > 1
  <2>1. PICK pick \in 0..(d - d \div 2) : s = pick + d \div 2
    BY <1>1, <1>3 DEF with_jitter
  <2>2. d \div 2 \in Nat /\ 2 * (d \div 2) >= d - 1 /\ d \div 2 >= 1
    BY <1>1, <1>3
  <2> QED BY <1>1, <2>1, <2>2
<1> QED BY <1>1, <1>2, <1>3

-----------------------------------------------------------------------------
(* Type correctness *)

LEMMA SessionEndsType ==
    ASSUME TypeOK, SessionEnds
    PROVE  /\ link' = "none" /\ pc' \in {"stopped", "backoff"}
           /\ delay' \in Initial..MaxDelay /\ sleep_for' \in 0..MaxDelay
           /\ pingDue' = 0 /\ sincePing' = 0 /\ waited' = FALSE
<1>1. delay' = delay
  BY DEF SessionEnds, backoffVars
<1>2. CASE frameClosed
  BY <1>1, <1>2 DEF SessionEnds, TypeOK, backoffVars
<1>3. CASE ~frameClosed
  <2>1. sleep_for' \in with_jitter(delay)
    BY <1>3 DEF SessionEnds
  <2>2. sleep_for' \in 1..MaxDelay
    BY <2>1, JitterInRange DEF TypeOK
  <2> QED BY <1>1, <1>3, <2>2, IngressAssumption DEF SessionEnds, TypeOK
<1> QED BY <1>2, <1>3

LEMMA TypeStep == TypeOK /\ [Next]_vars => TypeOK'
<1> SUFFICES ASSUME TypeOK, [Next]_vars PROVE TypeOK'
  OBVIOUS
<1>0. /\ PingInterval \in 0..PingInterval /\ 0 \in 0..PingInterval
      /\ 0 \in 0..ServerIdle /\ 0 \in 0..MaxStall
  BY IngressAssumption
<1> USE DEF TypeOK
<1>1. CASE Connect
  BY <1>0, <1>1 DEF Connect, chanVars, backoffVars
<1>2. CASE ConnectFails
  <2>1. SessionEnds /\ UNCHANGED <<chanVars, shutdown>>
    BY <1>2 DEF ConnectFails
  <2>2. faults' \in 0..MaxFaults
    BY <1>2, IngressAssumption DEF ConnectFails, Fault
  <2> QED BY <1>0, <2>1, <2>2, SessionEndsType DEF chanVars
<1>3. CASE SendFails \/ PingFails \/ ReadEnd
  <2>1. SessionEnds /\ UNCHANGED <<chanVars, faults, shutdown>>
    BY <1>3 DEF SendFails, PingFails, ReadEnd
  <2> QED BY <1>0, <2>1, SessionEndsType DEF chanVars
<1>4. CASE ReadFrame \/ FrameSent
  <2>1. frames' \in 0..ChannelCapacity
    BY <1>4, IngressAssumption DEF ReadFrame, FrameSent
  <2> QED BY <1>4, <2>1 DEF ReadFrame, FrameSent, timers, backoffVars
<1>5. CASE SendPing
  BY <1>0, <1>5 DEF SendPing, chanVars, backoffVars
<1>6. CASE WakeUp
  BY <1>6, BackoffInRange DEF WakeUp, timers, chanVars
<1>7. CASE Stop
  BY <1>0, <1>7 DEF Stop, chanVars, backoffVars
<1>8. CASE ServerCloses \/ HandshakeStalls \/ LinkDies \/ IdleDrop
  <2>1. faults' \in 0..MaxFaults
    BY <1>8, IngressAssumption DEF ServerCloses, HandshakeStalls, LinkDies, IdleDrop, Fault
  <2> QED BY <1>8, <2>1 DEF ServerCloses, HandshakeStalls, LinkDies, IdleDrop, timers, chanVars, backoffVars
<1>9. CASE TakeFrame \/ Cancel \/ DropReceiver
  <2>1. frames' \in 0..ChannelCapacity /\ stall' \in 0..MaxStall
    BY <1>0, <1>9, IngressAssumption DEF TakeFrame, Cancel, DropReceiver, chanVars
  <2> QED BY <1>9, <2>1 DEF TakeFrame, Cancel, DropReceiver, timers, chanVars, backoffVars
<1>10. CASE Tick
  <2>1. pingDue' \in 0..PingInterval
    BY <1>10, IngressAssumption DEF Tick, Down
  <2>2. sleep_for' \in 0..MaxDelay
    BY <1>10, IngressAssumption DEF Tick, Down
  <2>3. sincePing' \in 0..ServerIdle
    BY <1>10, IngressAssumption DEF Tick, Least
  <2>4. stall' \in 0..MaxStall
    BY <1>10, IngressAssumption DEF Tick
  <2> QED BY <1>10, <2>1, <2>2, <2>3, <2>4 DEF Tick
<1>11. CASE Ended \/ UNCHANGED vars
  BY <1>11 DEF Ended, vars, timers, chanVars, backoffVars
<1> QED BY <1>1, <1>2, <1>3, <1>4, <1>5, <1>6, <1>7, <1>8, <1>9, <1>10, <1>11 DEF Next

\* Every variable has its type, and there is a session exactly while the task is
\* inside drain_connection.
THEOREM TypeCorrect == Spec => []TypeOK
<1>1. Init => TypeOK
  <2>1. /\ Initial \in Initial..MaxDelay /\ 0 \in 0..MaxDelay
        /\ 0 \in 0..PingInterval /\ 0 \in 0..ServerIdle /\ 0 \in 0..ChannelCapacity
        /\ 0 \in 0..MaxStall /\ 0 \in 0..MaxFaults
    BY IngressAssumption
  <2> QED BY <2>1 DEF Init, TypeOK
<1> QED BY <1>1, TypeStep, PTL DEF Spec

-----------------------------------------------------------------------------
(* The backoff *)

\* A reconnect waits for at least half of the delay the policy asks for and at
\* most for the largest, for any policy.
THEOREM DelayWithinPolicy == Spec => SleepWithinPolicy
<1>1. TypeOK /\ [Next]_vars =>
        [pc' = "backoff" /\ pc # "backoff" =>
           2 * sleep_for' >= delay - 1 /\ sleep_for' \in 1..MaxDelay]_vars
  <2> SUFFICES ASSUME TypeOK, Next, pc' = "backoff", pc # "backoff"
               PROVE  2 * sleep_for' >= delay - 1 /\ sleep_for' \in 1..MaxDelay
    OBVIOUS
  <2>1. SessionEnds
    BY DEF Next, Connect, ConnectFails, ReadFrame, FrameSent, SendFails, SendPing,
           PingFails, ReadEnd, WakeUp, Stop, ServerCloses, HandshakeStalls, LinkDies, IdleDrop, TakeFrame,
           Cancel, DropReceiver, Tick, Ended, vars
  <2>2. sleep_for' \in with_jitter(delay)
    BY <2>1 DEF SessionEnds
  <2>3. delay \in Initial..MaxDelay
    BY DEF TypeOK
  <2> QED BY <2>2, <2>3, JitterInRange
<1> QED BY <1>1, TypeCorrect, PTL DEF Spec, SleepWithinPolicy

-----------------------------------------------------------------------------
(* The keepalive *)

\* Without a wait since the last ping, the clock of the server and the ping
\* timer move in step: together they are at most one interval.
PingInv ==
    link = "live" /\ PingInterval > 0 /\ ~waited => sincePing + pingDue <= PingInterval

\* One tick of both.
LEMMA InStep ==
    ASSUME NEW s \in Int, NEW t \in Int, NEW due \in Int, NEW interval \in Int,
           t <= s + 1, s + due <= interval
    PROVE  t + (due - 1) <= interval
OBVIOUS

LEMMA PingStep == TypeOK /\ PingInv /\ [Next]_vars => PingInv'
<1> SUFFICES ASSUME TypeOK, PingInv, [Next]_vars,
                    link' = "live", PingInterval > 0, ~waited'
             PROVE  sincePing' + pingDue' <= PingInterval
  BY DEF PingInv
<1> USE IngressAssumption
<1>1. CASE Connect \/ SendPing
  BY <1>1 DEF Connect, SendPing, TypeOK
<1>2. CASE UNCHANGED <<link, timers>>
  BY <1>2 DEF PingInv, timers
<1>3. CASE Tick
  <2>1. link = "live" /\ ~waited /\ pc # "sending"
    BY <1>3 DEF Tick
  <2>2. pc = "select" /\ pingDue > 0
    BY <1>3, <2>1 DEF Tick, PingReady, TypeOK
  <2>3. pingDue' = pingDue - 1
    BY <1>3, <2>2 DEF Tick, Down, TypeOK
  <2>4. sincePing' <= sincePing + 1 /\ sincePing' \in Nat /\ sincePing \in Nat
    BY <1>3, <2>1 DEF Tick, Least, TypeOK
  <2>5. sincePing + pingDue <= PingInterval /\ pingDue \in Nat
    BY <2>1 DEF PingInv, TypeOK
  <2>6. /\ PingInterval \in Int /\ pingDue \in Int /\ pingDue' \in Int
        /\ sincePing \in Int /\ sincePing' \in Int
    BY <2>3, <2>4, <2>5
  <2>7. sincePing' + (pingDue - 1) <= PingInterval
    BY <2>4, <2>5, <2>6, InStep
  <2> QED BY <2>3, <2>7
<1>4. ~(SessionEnds \/ Stop \/ ServerCloses \/ HandshakeStalls \/ LinkDies \/ IdleDrop)
  BY DEF SessionEnds, Stop, ServerCloses, HandshakeStalls, LinkDies, IdleDrop
<1> QED
  BY <1>1, <1>2, <1>3, <1>4
     DEF Next, ConnectFails, ReadFrame, FrameSent, SendFails, PingFails, ReadEnd, WakeUp,
         TakeFrame, Cancel, DropReceiver, Ended, vars

\* For any policy with an interval below the server's limit, the server never
\* drops the client as idle unless the task has waited for the frame channel.
THEOREM IdleDropNeedsWait == Spec => IdleDropMeansWaited
<1>1. Init => PingInv
  BY DEF Init, PingInv
<1>2. Spec => []PingInv
  BY <1>1, PingStep, TypeCorrect, PTL DEF Spec
<1>3. TypeOK /\ PingInv /\ [Next]_vars =>
        [link # "dropped" /\ link' = "dropped" /\ PingInterval \in 1..(ServerIdle - 1)
           => waited]_vars
  <2> SUFFICES ASSUME TypeOK, PingInv, Next, link # "dropped", link' = "dropped",
                      PingInterval \in 1..(ServerIdle - 1)
               PROVE  waited
    OBVIOUS
  <2>1. IdleDrop
    BY DEF Next, Connect, ConnectFails, ReadFrame, FrameSent, SendFails, SendPing,
           PingFails, ReadEnd, WakeUp, Stop, ServerCloses, HandshakeStalls, LinkDies, TakeFrame, Cancel,
           DropReceiver, Tick, Ended, SessionEnds, vars
  <2>2. link = "live" /\ sincePing = ServerIdle
    BY <2>1 DEF IdleDrop
  <2> QED BY <2>2, IngressAssumption DEF PingInv, TypeOK
<1> QED BY <1>2, <1>3, TypeCorrect, PTL DEF Spec, IdleDropMeansWaited

-----------------------------------------------------------------------------
(* Frames: numbers and loops *)

LEMMA LeastElement ==
    ASSUME NEW T \in SUBSET Nat, T # {}
    PROVE  \E x \in T : \A y \in T : x <= y
<1> DEFINE R == OpToRel(<, Nat)
<1>1. IsWellFoundedOn(R, Nat)
  BY NatLessThanWellFounded
<1>2. \A p, q \in Nat : p < q => <<p, q>> \in R
  BY DEF OpToRel
<1> HIDE DEF R
<1>3. PICK x \in T : \A y \in T : ~(<<y, x>> \in R)
  BY <1>1, WFMin
<1>4. \A p, q \in Nat : ~(p < q) => q <= p
  OBVIOUS
<1> QED BY <1>2, <1>3, <1>4, Zenon

LEMMA GreatestElement ==
    ASSUME NEW n \in Nat, NEW T \in SUBSET (1..n), T # {}
    PROVE  \E x \in T : \A y \in T : y <= x
<1> DEFINE U == {n - x : x \in T}
<1>1. U \in SUBSET Nat
  <2>1. ASSUME NEW x \in T PROVE n - x \in Nat
    <3>1. x \in 1..n
      OBVIOUS
    <3> QED BY <3>1
  <2> QED BY <2>1
<1>0. U # {}
  <2>1. PICK x \in T : TRUE
    OBVIOUS
  <2> QED BY <2>1
<1> HIDE DEF U
<1>2. PICK u \in U : \A v \in U : u <= v
  BY <1>0, <1>1, LeastElement
<1>3. PICK x \in T : u = n - x
  BY DEF U
<1>4. ASSUME NEW y \in T PROVE y <= x
  <2>1. n - y \in U
    BY DEF U
  <2>2. n - x <= n - y
    BY <1>2, <1>3, <2>1
  <2> QED BY <2>2
<1> QED BY <1>4

\* Induction over the turns of a loop.
LEMMA Turns ==
    ASSUME NEW n \in Nat, NEW T, 0 \in T, \A m \in 0..(n - 1) : m \in T => m + 1 \in T
    PROVE  0..n \subseteq T
<1> SUFFICES ASSUME (0..n) \ T # {} PROVE FALSE
  OBVIOUS
<1>1. (0..n) \ T \in SUBSET Nat
  OBVIOUS
<1>2. PICK x \in (0..n) \ T : \A y \in (0..n) \ T : x <= y
  BY <1>1, LeastElement
<1>3. x - 1 \in 0..(n - 1)
  BY <1>2
<1>4. x - 1 \in T
  <2>1. x - 1 \in 0..n /\ ~(x <= x - 1)
    BY <1>3
  <2> QED BY <1>2, <2>1
<1>5. (x - 1) + 1 \in T /\ (x - 1) + 1 = x
  BY <1>3, <1>4
<1> QED BY <1>5

\* A loop of n turns that starts with b and applies g[i] in turn i.
IsLoop(f, n, S, b, g) == /\ f \in [0..n -> S] /\ f[0] = b
                         /\ \A i \in 1..n : f[i] = g[i][f[i - 1]]

\* It has a result after each turn.
LEMMA LoopDefined ==
    ASSUME NEW n \in Nat, NEW S, NEW b \in S, NEW g \in [1..n -> [S -> S]]
    PROVE  \E f : IsLoop(f, n, S, b, g)
<1> SUFFICES \E f \in [0..n -> S] : f[0] = b /\ \A i \in 1..n : f[i] = g[i][f[i - 1]]
  BY DEF IsLoop
<1> DEFINE Run(m) == \E f \in [0..m -> S] :
                        f[0] = b /\ \A i \in 1..m : f[i] = g[i][f[i - 1]]
           T == {m \in 0..n : Run(m)}
<1>1. 0 \in T
  <2> DEFINE z == [i \in 0..0 |-> b]
  <2>1. z \in [0..0 -> S] /\ z[0] = b /\ \A i \in 1..0 : z[i] = g[i][z[i - 1]]
    OBVIOUS
  <2> HIDE DEF z
  <2>2. Run(0)
    BY <2>1
  <2>3. 0 \in 0..n
    OBVIOUS
  <2> HIDE DEF Run
  <2> QED BY <2>2, <2>3
<1>2. ASSUME NEW m \in 0..(n - 1), m \in T PROVE m + 1 \in T
  <2>1. PICK f \in [0..m -> S] : f[0] = b /\ \A i \in 1..m : f[i] = g[i][f[i - 1]]
    BY <1>2
  <2> DEFINE h == [i \in 0..(m + 1) |-> IF i = m + 1 THEN g[m + 1][f[m]] ELSE f[i]]
  <2>2. m + 1 \in 1..n /\ m \in 0..m
    OBVIOUS
  <2>3. g[m + 1] \in [S -> S] /\ f[m] \in S
    BY <2>1, <2>2
  <2>4. g[m + 1][f[m]] \in S
    BY <2>3
  <2>5. h \in [0..(m + 1) -> S]
    BY <2>1, <2>4
  <2>6. h[0] = b
    BY <2>1
  <2>7. ASSUME NEW i \in 1..(m + 1) PROVE h[i] = g[i][h[i - 1]]
    <3>1. CASE i = m + 1
      BY <3>1
    <3>2. CASE i \in 1..m
      <4>1. h[i] = f[i] /\ h[i - 1] = f[i - 1]
        BY <3>2
      <4> QED BY <2>1, <3>2, <4>1
    <3> QED BY <3>1, <3>2
  <2>8. Run(m + 1)
    <3> HIDE DEF h
    <3> QED BY <2>5, <2>6, <2>7
  <2> HIDE DEF Run
  <2> QED BY <2>2, <2>8
<1>3. n \in T
  <2> HIDE DEF T
  <2>1. 0..n \subseteq T
    BY <1>1, <1>2, Turns
  <2> QED BY <2>1
<1> QED BY <1>3

-----------------------------------------------------------------------------
(* Frames: hosts and names *)

LEMMA HostOf ==
    ASSUME NEW raw \in Host
    PROVE  normalize_host(raw) \in Host
<1> DEFINE n == Len(raw)
           full == {i \in DOMAIN raw : raw[i] # ""}
           k == IF full = {} THEN 0 ELSE CHOOSE i \in full : \A j \in full : j <= i
           host == SubSeq(raw, 1, k)
<1>1. n \in Nat /\ DOMAIN raw = 1..n /\ raw \in Seq(STRING)
  BY LenProperties DEF Host
<1>2. \A i \in 1..n : raw[i] \in STRING
  BY <1>1, ElementOfSeq
<1>3. full \in SUBSET (1..n)
  BY <1>1
<1> HIDE DEF n, full
<1>4. k \in 0..n
  <2>1. CASE full = {}
    BY <1>1, <2>1
  <2>2. CASE full # {}
    <3>1. \E x \in full : \A y \in full : y <= x
      BY <1>1, <1>3, <2>2, GreatestElement
    <3>2. k \in full
      BY <2>2, <3>1
    <3>3. k \in 1..n
      BY <1>3, <3>2
    <3> HIDE DEF k
    <3> QED BY <1>1, <3>3
  <2> QED BY <2>1, <2>2
<1> HIDE DEF k
<1>5. host \in Seq(STRING)
  <2>1. \A i \in 1..k : raw[i] \in STRING
    BY <1>1, <1>2, <1>4
  <2>2. k \in Int
    BY <1>4
  <2> QED BY <2>1, <2>2, SubSeqProperties
<1>6. normalize_host(raw) = IF Len(host) > 1 /\ host[1] = "*" THEN Tail(host) ELSE host
  BY DEF normalize_host, full, k
<1> HIDE DEF host
<1>7. CASE Len(host) > 1 /\ host[1] = "*"
  <2>1. host # <<>>
    BY <1>5, <1>7, EmptySeq
  <2>2. Tail(host) \in Seq(STRING)
    BY <1>5, <2>1, HeadTailProperties
  <2> QED BY <1>6, <1>7, <2>2 DEF Host
<1>8. CASE ~(Len(host) > 1 /\ host[1] = "*")
  BY <1>5, <1>6, <1>8 DEF Host
<1> QED BY <1>7, <1>8

LEMMA SuffixOf ==
    ASSUME NEW h \in Host, NEW k \in 1..Len(h)
    PROVE  /\ Suffix(h, k) \in Host /\ Suffix(h, k) # None
           /\ Len(h) \in Nat /\ Len(Suffix(h, k)) = Len(h) - k + 1
           /\ \A j \in 1..(Len(h) - k + 1) : Suffix(h, k)[j] = h[k + j - 1]
<1> DEFINE n == Len(h)
           s == Suffix(h, k)
<1>1. n \in Nat /\ h \in Seq(STRING) /\ k \in Int /\ n \in Int /\ k >= 1 /\ k <= n
  BY LenProperties DEF Host
<1>2. \A i \in k..n : h[i] \in STRING
  BY <1>1, ElementOfSeq
<1>3. /\ s \in Seq(STRING)
      /\ Len(s) = IF k <= n THEN n - k + 1 ELSE 0
      /\ \A j \in 1..(n - k + 1) : s[j] = h[k + j - 1]
  BY <1>1, <1>2, SubSeqProperties DEF Suffix
<1> HIDE DEF s, n
<1>4. Len(s) = n - k + 1 /\ Len(s) # 0
  BY <1>1, <1>3
<1>5. s # <<>>
  BY <1>3, <1>4, EmptySeq
<1> QED BY <1>1, <1>3, <1>4, <1>5 DEF Host, None, s, n

\* The walk over the suffixes of a host finds the names it is under, and no
\* other: a comparison at label boundaries.
LEMMA SuffixIsUnder ==
    ASSUME NEW h \in Host, NEW n \in Host, n # None
    PROVE  n \in host_suffixes(h) <=> Under(h, n)
<1>1. /\ Len(h) \in Nat /\ Len(n) \in Nat /\ Len(n) >= 1 /\ DOMAIN n = 1..Len(n)
      /\ n \in Seq(STRING)
  BY LenProperties, EmptySeq DEF Host, None
<1>2. ASSUME n \in host_suffixes(h) PROVE Under(h, n)
  <2>1. PICK k \in 1..Len(h) : n = Suffix(h, k)
    BY <1>2 DEF host_suffixes
  <2>2. Len(n) = Len(h) - k + 1 /\ \A j \in 1..(Len(h) - k + 1) : n[j] = h[k + j - 1]
    BY <2>1, SuffixOf
  <2>3. k - 1 \in 0..(Len(h) - Len(n)) /\ (k - 1) + Len(n) = Len(h)
    BY <1>1, <2>1, <2>2
  <2>4. \A j \in DOMAIN n : h[(k - 1) + j] = n[j]
    <3>1. \A j \in 1..Len(n) : (k - 1) + j = k + j - 1
      BY <1>1, <2>1
    <3> QED BY <1>1, <2>2, <3>1
  <2> QED BY <2>3, <2>4 DEF Under
<1>3. ASSUME Under(h, n) PROVE n \in host_suffixes(h)
  <2>1. PICK i \in 0..(Len(h) - Len(n)) : i + Len(n) = Len(h) /\ \A j \in DOMAIN n : h[i + j] = n[j]
    BY <1>3 DEF Under
  <2>2. i + 1 \in 1..Len(h) /\ Len(h) - (i + 1) + 1 = Len(n)
    BY <1>1, <2>1
  <2> DEFINE s == Suffix(h, i + 1)
  <2>3. /\ s \in Seq(STRING) /\ Len(s) = Len(n)
        /\ \A j \in 1..Len(n) : s[j] = h[(i + 1) + j - 1]
    BY <2>2, SuffixOf DEF Host
  <2>4. \A j \in 1..Len(n) : s[j] = n[j]
    <3>1. \A j \in 1..Len(n) : (i + 1) + j - 1 = i + j
      BY <1>1, <2>1
    <3> QED BY <1>1, <2>1, <2>3, <3>1
  <2> HIDE DEF s
  <2>5. s = n
    BY <1>1, <2>3, <2>4, SeqEqual
  <2> QED BY <2>2, <2>5 DEF host_suffixes, s
<1> QED BY <1>2, <1>3

\* Nothing below a name's public suffix is listed.
LEMMA PublicSuffixIs ==
    ASSUME NEW h \in Host, h # None
    PROVE  /\ PublicSuffix(h) \in 1..Len(h)
           /\ \A i \in 1..Len(h) : i < PublicSuffix(h) => Suffix(h, i) \notin Icann \cup Private
<1> DEFINE listed == {i \in DOMAIN h : Suffix(h, i) \in Icann \cup Private}
<1>1. Len(h) \in Nat /\ Len(h) >= 1 /\ DOMAIN h = 1..Len(h)
  BY LenProperties, EmptySeq DEF Host, None
<1>2. listed \in SUBSET Nat /\ \A i \in listed : i \in 1..Len(h)
  BY <1>1
<1>3. \A i \in 1..Len(h) : i \notin listed => Suffix(h, i) \notin Icann \cup Private
  BY <1>1
<1>4. PublicSuffix(h) = IF listed = {} THEN Len(h) ELSE CHOOSE i \in listed : \A j \in listed : i <= j
  BY DEF PublicSuffix
<1> HIDE DEF listed
<1>5. CASE listed = {}
  BY <1>1, <1>3, <1>4, <1>5
<1>6. CASE listed # {}
  <2>1. \E x \in listed : \A y \in listed : x <= y
    BY <1>2, <1>6, LeastElement
  <2>2. PublicSuffix(h) \in listed /\ \A j \in listed : PublicSuffix(h) <= j
    BY <1>4, <1>6, <2>1
  <2>3. PublicSuffix(h) \in 1..Len(h)
    BY <1>2, <2>2
  <2>4. ASSUME NEW i \in 1..Len(h), i < PublicSuffix(h) PROVE i \notin listed
    BY <2>2, <2>3, <2>4
  <2> QED BY <1>3, <2>3, <2>4
<1> QED BY <1>5, <1>6

\* Where no suffix is listed, the public suffix is the last label.
LEMMA PublicSuffixUnlisted ==
    ASSUME NEW h \in Host, h # None
    PROVE  \/ Suffix(h, PublicSuffix(h)) \in Icann \cup Private
           \/ /\ PublicSuffix(h) = Len(h)
              /\ \A i \in 1..Len(h) : Suffix(h, i) \notin Icann \cup Private
<1> DEFINE listed == {i \in DOMAIN h : Suffix(h, i) \in Icann \cup Private}
<1>1. DOMAIN h = 1..Len(h)
  BY LenProperties DEF Host
<1>2. listed \in SUBSET Nat
  BY <1>1, LenProperties DEF Host
<1>3. PublicSuffix(h) = IF listed = {} THEN Len(h) ELSE CHOOSE i \in listed : \A j \in listed : i <= j
  BY DEF PublicSuffix
<1>4. CASE listed = {}
  BY <1>1, <1>3, <1>4
<1>5. CASE listed # {}
  <2> HIDE DEF listed
  <2>1. \E x \in listed : \A y \in listed : x <= y
    BY <1>2, <1>5, LeastElement
  <2>2. PublicSuffix(h) \in listed
    BY <1>3, <1>5, <2>1
  <2> QED BY <2>2 DEF listed
<1> QED BY <1>4, <1>5

\* A key of a watchlist is a name, never that of a whole registry.
IsKey(n) == n \in Host /\ n # None /\ n \notin Icann /\ (n \in Private => Len(n) > 2)

LEMMA Etld1IsKey ==
    ASSUME NEW raw \in Host, etld1(raw) # None
    PROVE  IsKey(etld1(raw))
<1> DEFINE h == normalize_host(raw)
           p == PublicSuffix(h)
<1>1. h \in Host
  BY HostOf
<1>2. etld1(raw) = IF ~Parses(h) THEN None
                   ELSE IF h \in Icann \cup Private
                     THEN IF h \in Icann \/ Len(h) <= 2 THEN None ELSE h
                   ELSE IF p > 1 THEN Suffix(h, p - 1) ELSE None
  BY DEF etld1
<1> HIDE DEF h
<1>3. h # None /\ Parses(h)
  BY <1>2 DEF Parses
<1>4. p \in 1..Len(h) /\ \A i \in 1..Len(h) : i < p => Suffix(h, i) \notin Icann \cup Private
  BY <1>1, <1>3, PublicSuffixIs
<1>5. Len(h) \in Nat
  BY <1>1, LenProperties DEF Host
<1> HIDE DEF p
<1>6. CASE h \in Icann \cup Private
  <2>1. h \notin Icann /\ ~(Len(h) <= 2) /\ etld1(raw) = h
    BY <1>2, <1>3, <1>6
  <2>2. Len(h) > 2
    BY <1>5, <2>1
  <2> QED BY <1>1, <1>3, <2>1, <2>2 DEF IsKey
<1>7. CASE ~(h \in Icann \cup Private)
  <2>1. p > 1 /\ etld1(raw) = Suffix(h, p - 1)
    BY <1>2, <1>3, <1>7
  <2>2. p - 1 \in 1..Len(h) /\ p - 1 < p
    BY <1>4, <1>5, <2>1
  <2>3. Suffix(h, p - 1) \notin Icann \cup Private
    BY <1>4, <2>2
  <2>4. Suffix(h, p - 1) \in Host /\ Suffix(h, p - 1) # None
    BY <1>1, <2>2, SuffixOf
  <2> QED BY <2>1, <2>3, <2>4 DEF IsKey
<1> QED BY <1>6, <1>7

LEMMA NamesAreKeys ==
    ASSUME NEW lines \in SUBSET Lines
    PROVE  \A n \in Names(lines) : IsKey(n)
<1> SUFFICES ASSUME NEW n \in Names(lines) PROVE IsKey(n)
  OBVIOUS
<1>1. PICK l \in lines : n = etld1(l) /\ n # None
  BY DEF Names
<1>2. l \in Host
  BY FramesAssumption
<1> QED BY <1>1, <1>2, Etld1IsKey

\* A suffix of a suffix is a suffix.
LEMMA SuffixOfSuffix ==
    ASSUME NEW h \in Host, NEW i \in 1..Len(h), NEW k \in i..Len(h)
    PROVE  /\ Suffix(Suffix(h, i), k - i + 1) = Suffix(h, k)
           /\ k - i + 1 \in 1..Len(Suffix(h, i))
<1> DEFINE s == Suffix(h, i)
           t == Suffix(s, k - i + 1)
           u == Suffix(h, k)
<1>1. /\ Len(h) \in Nat /\ i \in Nat /\ k \in Nat /\ k \in 1..Len(h)
      /\ 1 <= i /\ i <= k /\ k <= Len(h)
  BY LenProperties DEF Host
<1>2. /\ s \in Host /\ Len(s) = Len(h) - i + 1
      /\ \A j \in 1..(Len(h) - i + 1) : s[j] = h[i + j - 1]
  BY SuffixOf
<1>3. /\ u \in Host /\ Len(u) = Len(h) - k + 1
      /\ \A j \in 1..(Len(h) - k + 1) : u[j] = h[k + j - 1]
  BY <1>1, SuffixOf
<1> HIDE DEF s, u
<1>4. k - i + 1 \in 1..Len(s)
  BY <1>1, <1>2
<1>5. /\ t \in Host /\ Len(t) = Len(s) - (k - i + 1) + 1
      /\ \A j \in 1..(Len(s) - (k - i + 1) + 1) : t[j] = s[(k - i + 1) + j - 1]
  BY <1>2, <1>4, SuffixOf
<1> HIDE DEF t
<1>6. Len(t) = Len(u)
  BY <1>1, <1>2, <1>3, <1>5
<1>7. ASSUME NEW j \in 1..Len(t) PROVE t[j] = u[j]
  <2>1. j \in 1..(Len(h) - k + 1) /\ j \in 1..(Len(s) - (k - i + 1) + 1)
    BY <1>1, <1>2, <1>5
  <2>2. (k - i + 1) + j - 1 \in 1..(Len(h) - i + 1)
    BY <1>1, <2>1
  <2>3. t[j] = h[i + ((k - i + 1) + j - 1) - 1] /\ u[j] = h[k + j - 1]
    BY <1>2, <1>3, <1>5, <2>1, <2>2
  <2>4. i + ((k - i + 1) + j - 1) - 1 = k + j - 1
    BY <1>1, <2>1
  <2> QED BY <2>3, <2>4
<1>8. t = u
  BY <1>3, <1>5, <1>6, <1>7, SeqEqual DEF Host
<1> QED BY <1>4, <1>8 DEF s, t, u

\* What a name's parent says of it: a key that is not listed itself is one
\* label more than a listed suffix, or two labels in no section of the list.
Registrable(n) ==
    /\ n \notin Icann \cup Private /\ Len(n) >= 2
    /\ Suffix(n, 2) \in Icann \cup Private \/ Len(n) = 2

LEMMA KeyIsRegistrable ==
    ASSUME NEW raw \in Host, etld1(raw) # None, etld1(raw) \notin Icann \cup Private
    PROVE  Registrable(etld1(raw))
<1> DEFINE h == normalize_host(raw)
           p == PublicSuffix(h)
           n == Suffix(h, p - 1)
<1>1. h \in Host
  BY HostOf
<1>2. etld1(raw) = IF ~Parses(h) THEN None
                   ELSE IF h \in Icann \cup Private
                     THEN IF h \in Icann \/ Len(h) <= 2 THEN None ELSE h
                   ELSE IF p > 1 THEN Suffix(h, p - 1) ELSE None
  BY DEF etld1
<1> HIDE DEF h
<1>3. h # None
  BY <1>2 DEF Parses
<1>4. p \in 1..Len(h) /\ Len(h) \in Nat
  BY <1>1, <1>3, PublicSuffixIs, LenProperties DEF Host
<1>5. Suffix(h, p) \in Icann \cup Private \/ p = Len(h)
  BY <1>1, <1>3, PublicSuffixUnlisted
<1> HIDE DEF p
<1>6. p > 1 /\ etld1(raw) = n
  BY <1>2
<1>7. p - 1 \in 1..Len(h) /\ p \in (p - 1)..Len(h) /\ p - (p - 1) + 1 = 2
  BY <1>4, <1>6
<1>8. Len(n) = Len(h) - (p - 1) + 1
  BY <1>1, <1>7, SuffixOf
<1>9. Suffix(n, 2) = Suffix(h, p)
  BY <1>1, <1>7, SuffixOfSuffix
<1> HIDE DEF n
<1>10. Len(n) >= 2 /\ (p = Len(h) => Len(n) = 2)
  BY <1>4, <1>8
<1> QED BY <1>5, <1>6, <1>9, <1>10 DEF Registrable

\* A host under a key, and under no registry below it, has that key.
LEMMA KeyOfHost ==
    ASSUME NEW raw \in Host, etld1(raw) # None, NEW d \in Host,
           Parses(normalize_host(d)), Under(normalize_host(d), etld1(raw)),
           ~RegistryBelow(normalize_host(d), etld1(raw))
    PROVE  etld1(d) = etld1(raw)
<1> DEFINE h == normalize_host(d)
           n == etld1(raw)
           p == PublicSuffix(h)
<1>1. h \in Host /\ h # None /\ n \in Host /\ n # None
  BY HostOf, Etld1IsKey DEF Parses, IsKey
<1>2. etld1(d) = IF h \in Icann \cup Private
                   THEN IF h \in Icann \/ Len(h) <= 2 THEN None ELSE h
                 ELSE IF p > 1 THEN Suffix(h, p - 1) ELSE None
  BY DEF etld1
<1>3. n \notin Icann \cup Private => Registrable(n)
  BY KeyIsRegistrable
<1>4. Under(h, n) /\ ~RegistryBelow(h, n)
  OBVIOUS
<1>5. p \in 1..Len(h) /\ \A i \in 1..Len(h) : i < p => Suffix(h, i) \notin Icann \cup Private
  BY <1>1, PublicSuffixIs
<1>6. \/ Suffix(h, p) \in Icann \cup Private
      \/ p = Len(h) /\ \A i \in 1..Len(h) : Suffix(h, i) \notin Icann \cup Private
  BY <1>1, PublicSuffixUnlisted
<1> HIDE DEF h, n, p
<1>7. PICK k \in 1..Len(h) : n = Suffix(h, k)
  BY <1>1, <1>4, SuffixIsUnder DEF host_suffixes
<1>8. Len(h) \in Nat /\ DOMAIN h = 1..Len(h) /\ Len(n) = Len(h) - k + 1
  BY <1>1, <1>7, SuffixOf, LenProperties DEF Host
<1>9. ASSUME NEW i \in 1..k PROVE Suffix(h, i) \notin Icann \cup Private
  <2>1. i \in 1..Len(h) /\ k \in i..Len(h)
    BY <1>7, <1>8
  <2> DEFINE s == Suffix(h, i)
  <2>2. Suffix(s, k - i + 1) = n /\ k - i + 1 \in 1..Len(s) /\ s \in Host
    BY <1>1, <1>7, <2>1, SuffixOfSuffix, SuffixOf
  <2> HIDE DEF s
  <2>3. n \in host_suffixes(s)
    BY <2>2 DEF host_suffixes
  <2>4. Under(s, n)
    BY <1>1, <2>2, <2>3, SuffixIsUnder
  <2> QED BY <1>4, <1>8, <2>1, <2>4 DEF RegistryBelow, s
<1>10. Registrable(n)
  <2>1. k \in 1..k
    BY <1>7
  <2> QED BY <1>3, <1>7, <1>9, <2>1
<1>11. k + 1 \in 1..Len(h) /\ k + 1 \in k..Len(h) /\ (Len(n) = 2 => Len(h) = k + 1)
  <2>1. \A m, l \in Nat : m - l + 1 >= 2 => l + 1 <= m
    OBVIOUS
  <2>2. \A m, l \in Nat : m - l + 1 = 2 => m = l + 1
    OBVIOUS
  <2>3. Len(h) - k + 1 >= 2 /\ k \in Nat
    BY <1>7, <1>8, <1>10 DEF Registrable
  <2>4. k + 1 <= Len(h)
    BY <1>8, <2>1, <2>3
  <2>5. Len(n) = 2 => Len(h) = k + 1
    BY <1>8, <2>2, <2>3
  <2>6. \A m, l \in Nat : l + 1 <= m => l + 1 \in 1..m /\ l + 1 \in l..m
    OBVIOUS
  <2>7. k + 1 \in 1..Len(h) /\ k + 1 \in k..Len(h)
    BY <1>8, <2>3, <2>4, <2>6
  <2> QED BY <2>5, <2>7
<1>12. Suffix(n, 2) = Suffix(h, k + 1)
  <2>1. (k + 1) - k + 1 = 2
    BY <1>7
  <2> QED BY <1>1, <1>7, <1>11, <2>1, SuffixOfSuffix
<1>13. p = k + 1
  <2>1. CASE Suffix(h, p) \in Icann \cup Private
    <3>1. ~(p <= k)
      BY <1>5, <1>9, <2>1
    <3>2. p <= k + 1
      <4>1. CASE Suffix(n, 2) \in Icann \cup Private
        <5>1. ~(k + 1 < p)
          BY <1>5, <1>11, <1>12, <4>1
        <5> QED BY <1>5, <1>7, <5>1
      <4>2. CASE Len(n) = 2
        BY <1>5, <1>11, <4>2
      <4> QED BY <1>10, <4>1, <4>2 DEF Registrable
    <3> QED BY <1>5, <1>7, <3>1, <3>2
  <2>2. CASE p = Len(h) /\ \A i \in 1..Len(h) : Suffix(h, i) \notin Icann \cup Private
    <3>1. Suffix(n, 2) \notin Icann \cup Private
      BY <1>11, <1>12, <2>2
    <3> QED BY <1>10, <1>11, <2>2, <3>1 DEF Registrable
  <2> QED BY <1>6, <2>1, <2>2
<1>14. h \notin Icann \cup Private
  <2>1. 1 \in 1..k /\ 1 \in 1..Len(h) /\ Len(h) - 1 + 1 = Len(h)
    BY <1>7, <1>8
  <2>2. /\ Suffix(h, 1) \in Host /\ Len(Suffix(h, 1)) = Len(h) - 1 + 1
        /\ \A j \in 1..(Len(h) - 1 + 1) : Suffix(h, 1)[j] = h[1 + j - 1]
    BY <1>1, <2>1, SuffixOf
  <2>3. \A j \in 1..Len(h) : 1 + j - 1 = j
    BY <1>8
  <2>4. Suffix(h, 1) = h
    BY <1>1, <2>1, <2>2, <2>3, SeqEqual DEF Host
  <2> QED BY <1>9, <2>1, <2>4
<1>15. p > 1 /\ p - 1 = k
  BY <1>7, <1>13
<1> QED BY <1>2, <1>7, <1>14, <1>15 DEF n

-----------------------------------------------------------------------------
(* Frames: matching *)

\* A domain is under one of the names.
UnderOne(d, names) == \E n \in names : Under(normalize_host(d), n)

LEMMA PassesIs ==
    ASSUME NEW d \in Host, NEW names, \A n \in names : IsKey(n)
    PROVE  host_suffixes(normalize_host(d)) \cap names # {} <=> UnderOne(d, names)
<1>1. normalize_host(d) \in Host
  BY HostOf
<1>2. \A n \in names : n \in host_suffixes(normalize_host(d)) <=> Under(normalize_host(d), n)
  BY <1>1, SuffixIsUnder DEF IsKey
<1> QED BY <1>2 DEF UnderOne

LEMMA ImplicatedIs ==
    ASSUME NEW domains \in Seq(Host), NEW names, \A n \in names : IsKey(n)
    PROVE  Implicated(domains, names) =
             {n \in names : \E i \in DOMAIN domains : Under(normalize_host(domains[i]), n)}
<1>1. \A i \in DOMAIN domains : domains[i] \in Host
  BY LenProperties, ElementOfSeq
<1>2. \A n \in names, i \in DOMAIN domains :
        n \in host_suffixes(normalize_host(domains[i])) <=> Under(normalize_host(domains[i]), n)
  BY <1>1, HostOf, SuffixIsUnder DEF IsKey
<1>3. \A n : n \in Implicated(domains, names) <=>
        n \in names /\ \E i \in DOMAIN domains : n \in host_suffixes(normalize_host(domains[i]))
  BY DEF Implicated
<1> HIDE DEF Implicated
<1> QED BY <1>2, <1>3

\* The turns of under_any's loop.
LEMMA UnderAnyTurns ==
    ASSUME NEW domains \in Seq(Host), NEW names
    PROVE  \E out \in [0..Len(domains) -> Seq(Host)] :
             /\ under_any(domains, names) = out[Len(domains)]
             /\ out[0] = <<>>
             /\ \A i \in 1..Len(domains) :
                  out[i] = IF host_suffixes(normalize_host(domains[i])) \cap names # {}
                           THEN Append(out[i - 1], domains[i]) ELSE out[i - 1]
<1> DEFINE N == Len(domains)
           g == [i \in 1..N |-> [s \in Seq(Host) |->
                   IF host_suffixes(normalize_host(domains[i])) \cap names # {}
                   THEN Append(s, domains[i]) ELSE s]]
<1>1. N \in Nat /\ \A i \in 1..N : domains[i] \in Host
  BY LenProperties, ElementOfSeq
<1>2. <<>> \in Seq(Host)
  BY EmptySeq
<1>3. g \in [1..N -> [Seq(Host) -> Seq(Host)]]
  <2>1. ASSUME NEW i \in 1..N, NEW s \in Seq(Host) PROVE Append(s, domains[i]) \in Seq(Host)
    BY <1>1, <2>1, AppendProperties
  <2> QED BY <2>1
<1>4. PICK f \in [0..N -> Seq(Host)] : f[0] = <<>> /\ \A i \in 1..N : f[i] = g[i][f[i - 1]]
  <2> DEFINE S == Seq(Host)
             b == <<>>
  <2>1. N \in Nat /\ b \in S /\ g \in [1..N -> [S -> S]]
    BY <1>1, <1>2, <1>3
  <2> HIDE DEF g, N, S, b
  <2>2. \E f : IsLoop(f, N, S, b, g)
    BY <2>1, LoopDefined
  <2> QED BY <2>2 DEF IsLoop, S, b
<1> DEFINE F(h) == [i \in 0..N |->
                     IF i = 0 THEN <<>>
                     ELSE IF host_suffixes(normalize_host(domains[i])) \cap names # {}
                       THEN Append(h[i - 1], domains[i]) ELSE h[i - 1]]
           out == CHOOSE h : h = F(h)
<1>5. \A i \in 1..N : f[i - 1] \in Seq(Host)
  <2>1. \A i \in 1..N : i - 1 \in 0..N
    BY <1>1
  <2> QED BY <2>1
<1>6. \A i \in 1..N : f[i] = IF host_suffixes(normalize_host(domains[i])) \cap names # {}
                             THEN Append(f[i - 1], domains[i]) ELSE f[i - 1]
  BY <1>4, <1>5
<1>7. f = F(f)
  <2>1. ASSUME NEW i \in 0..N PROVE f[i] = F(f)[i]
    <3>1. CASE i = 0
      BY <1>4, <3>1
    <3>2. CASE i # 0
      <4>1. i \in 1..N
        BY <1>1, <3>2
      <4> QED BY <1>6, <3>2, <4>1, Zenon
    <3> QED BY <3>1, <3>2
  <2>2. DOMAIN f = 0..N /\ f = [i \in 0..N |-> f[i]]
    OBVIOUS
  <2> QED BY <2>1, <2>2
<1>8. out = F(out)
  BY <1>7
<1>9. under_any(domains, names) = out[N]
  BY DEF under_any
<1> HIDE DEF out
<1>10. out[0] = <<>> /\ \A i \in 1..N : out[i] =
          IF host_suffixes(normalize_host(domains[i])) \cap names # {}
          THEN Append(out[i - 1], domains[i]) ELSE out[i - 1]
  <2>1. 0 \in 0..N /\ \A i \in 1..N : i \in 0..N /\ i # 0
    BY <1>1
  <2>2. out[0] = <<>>
    BY <1>8, <2>1
  <2>3. ASSUME NEW i \in 1..N
        PROVE  out[i] = IF host_suffixes(normalize_host(domains[i])) \cap names # {}
                        THEN Append(out[i - 1], domains[i]) ELSE out[i - 1]
    BY <1>8, <2>1, Zenon
  <2> QED BY <2>2, <2>3
<1>11. out \in [0..N -> Seq(Host)]
  <2> DEFINE T == {m \in 0..N : out[m] \in Seq(Host)}
  <2>1. 0 \in T
    <3>1. 0 \in 0..N
      BY <1>1
    <3> QED BY <1>2, <1>10, <3>1
  <2>2. ASSUME NEW m \in 0..(N - 1), m \in T PROVE m + 1 \in T
    <3>1. m + 1 \in 1..N /\ m + 1 \in 0..N /\ (m + 1) - 1 = m
      BY <1>1
    <3>2. out[m] \in Seq(Host) /\ domains[m + 1] \in Host
      BY <1>1, <2>2, <3>1
    <3>3. Append(out[m], domains[m + 1]) \in Seq(Host)
      BY <3>2, AppendProperties
    <3>4. out[m + 1] \in {Append(out[m], domains[m + 1]), out[m]}
      BY <1>10, <3>1
    <3>5. out[m + 1] \in Seq(Host)
      BY <3>2, <3>3, <3>4
    <3> QED BY <3>1, <3>5
  <2> HIDE DEF T
  <2>3. 0..N \subseteq T
    BY <1>1, <2>1, <2>2, Turns
  <2>4. \A m \in 0..N : out[m] \in Seq(Host)
    BY <2>3 DEF T
  <2>5. out = [i \in 0..N |-> out[i]]
    BY <1>8
  <2> QED BY <2>4, <2>5
<1> QED BY <1>9, <1>10, <1>11

LEMMA RangeOfAppend ==
    ASSUME NEW s \in Seq(Host), NEW d \in Host
    PROVE  Append(s, d) \in Seq(Host) /\ Range(Append(s, d)) = Range(s) \cup {d}
           /\ Len(Append(s, d)) = Len(s) + 1
<1> DEFINE t == Append(s, d)
<1>1. /\ t \in Seq(Host) /\ Len(t) = Len(s) + 1 /\ t[Len(s) + 1] = d
      /\ \A i \in 1..Len(s) : t[i] = s[i]
  BY AppendProperties
<1> HIDE DEF t
<1>2. Len(s) \in Nat
  BY LenProperties
<1>3. Range(s) = {s[i] : i \in 1..Len(s)} /\ Range(t) = {t[i] : i \in 1..Len(t)}
  BY <1>1, RangeEquality
<1>4. \A i \in 1..Len(t) : i \in 1..Len(s) \/ i = Len(s) + 1
  BY <1>1, <1>2
<1>5. \A i \in 1..Len(s) : i \in 1..Len(t)
  BY <1>1, <1>2
<1>6. Len(s) + 1 \in 1..Len(t)
  BY <1>1, <1>2
<1>7. Range(t) = Range(s) \cup {d}
  <2>1. ASSUME NEW x \in Range(t) PROVE x \in Range(s) \cup {d}
    BY <1>1, <1>3, <1>4, <2>1
  <2>2. ASSUME NEW x \in Range(s) \cup {d} PROVE x \in Range(t)
    BY <1>1, <1>3, <1>5, <1>6, <2>2
  <2> QED BY <2>1, <2>2
<1> QED BY <1>1, <1>7 DEF t

\* The domains of the first m turns.
Upto(s, m) == {s[i] : i \in 1..m}

LEMMA UptoNext ==
    ASSUME NEW s, NEW m \in Nat
    PROVE  Upto(s, m + 1) = Upto(s, m) \cup {s[m + 1]}
<1>1. \A i : i \in 1..(m + 1) <=> (i \in 1..m \/ i = m + 1)
  OBVIOUS
<1> QED BY <1>1, Zenon DEF Upto

\* under_any keeps the domains under one of the names, and no other.
LEMMA UnderAnyIs ==
    ASSUME NEW domains \in Seq(Host), NEW names, \A n \in names : IsKey(n)
    PROVE  /\ under_any(domains, names) \in Seq(Host)
           /\ Range(under_any(domains, names)) = {d \in Range(domains) : UnderOne(d, names)}
<1> DEFINE N == Len(domains)
           Kept(m) == {d \in Upto(domains, m) : UnderOne(d, names)}
<1>1. N \in Nat /\ \A i \in 1..N : domains[i] \in Host
  BY LenProperties, ElementOfSeq
<1>2. PICK out \in [0..N -> Seq(Host)] :
        /\ under_any(domains, names) = out[N] /\ out[0] = <<>>
        /\ \A i \in 1..N : out[i] = IF host_suffixes(normalize_host(domains[i])) \cap names # {}
                                    THEN Append(out[i - 1], domains[i]) ELSE out[i - 1]
  BY UnderAnyTurns
<1>3. \A i \in 1..N : host_suffixes(normalize_host(domains[i])) \cap names # {}
                        <=> UnderOne(domains[i], names)
  BY <1>1, PassesIs
<1> DEFINE T == {m \in 0..N : Range(out[m]) = Kept(m)}
<1>4. 0 \in T
  <2>1. Range(<<>>) = {}
    BY DEF Range
  <2>2. Upto(domains, 0) = {}
    BY DEF Upto
  <2>3. 0 \in 0..N
    BY <1>1
  <2> QED BY <1>2, <2>1, <2>2, <2>3
<1>5. ASSUME NEW m \in 0..(N - 1), m \in T PROVE m + 1 \in T
  <2>1. m + 1 \in 1..N /\ m + 1 \in 0..N /\ (m + 1) - 1 = m /\ m \in Nat /\ m \in 0..N
    BY <1>1
  <2>2. out[m] \in Seq(Host) /\ domains[m + 1] \in Host
    BY <1>1, <2>1
  <2>3. Kept(m + 1) = IF UnderOne(domains[m + 1], names)
                      THEN Kept(m) \cup {domains[m + 1]} ELSE Kept(m)
    <3>1. Upto(domains, m + 1) = Upto(domains, m) \cup {domains[m + 1]}
      BY <2>1, UptoNext
    <3> QED BY <3>1
  <2> DEFINE r == out[m]
             q == out[m + 1]
             e == domains[m + 1]
  <2>4. q = IF UnderOne(e, names) THEN Append(r, e) ELSE r
    BY <1>2, <1>3, <2>1
  <2>5. Range(r) = Kept(m)
    BY <1>5
  <2> HIDE DEF Kept, r, q, e
  <2>6. Range(q) = Kept(m + 1)
    <3>1. r \in Seq(Host) /\ e \in Host
      BY <2>2 DEF r, e
    <3>2. Range(Append(r, e)) = Range(r) \cup {e}
      BY <3>1, RangeOfAppend
    <3> QED BY <2>3, <2>4, <2>5, <3>2 DEF e
  <2> QED BY <2>1, <2>6 DEF q
<1> HIDE DEF T
<1>6. 0..N \subseteq T
  BY <1>1, <1>4, <1>5, Turns
<1>7. N \in 0..N
  BY <1>1
<1>8. Range(out[N]) = Kept(N)
  BY <1>6, <1>7 DEF T
<1>9. Range(domains) = Upto(domains, N)
  BY RangeEquality DEF Upto
<1> HIDE DEF N
<1> QED BY <1>2, <1>7, <1>8, <1>9

\* What inspect_outcome returns: an event with every name hit and not
\* suppressed, when there is one.  Its second early return is never taken.
LEMMA InspectIs ==
    ASSUME NEW domains \in Seq(Host), NEW W, NEW G, \A n \in W : IsKey(n),
           NEW o, o = inspect_outcome(domains, W, G), NEW K,
           \A n : n \in K <=> /\ n \in W /\ n \notin G
                            /\ \E i \in DOMAIN domains : Under(normalize_host(domains[i]), n)
    PROVE  /\ o.matched_keywords = K /\ (o.event <=> K # {})
           /\ o.fully_suppressed <=>
                ~o.event /\ \E n \in W : \E i \in DOMAIN domains :
                                           Under(normalize_host(domains[i]), n)
           /\ o.event => o.matched_domains = under_any(domains, K)
<1> DEFINE I == Implicated(domains, W)
<1>1. I = {n \in W : \E i \in DOMAIN domains : Under(normalize_host(domains[i]), n)}
  BY ImplicatedIs
<1>2. I \ G = K
  BY <1>1
<1>3. K # {} => under_any(domains, K) # <<>>
  <2> SUFFICES ASSUME K # {} PROVE under_any(domains, K) # <<>>
    OBVIOUS
  <2>1. PICK n \in K, i \in DOMAIN domains : Under(normalize_host(domains[i]), n)
    OBVIOUS
  <2>2. UnderOne(domains[i], K) /\ domains[i] \in Range(domains)
    BY <2>1 DEF UnderOne, Range
  <2>3. \A k \in K : IsKey(k)
    OBVIOUS
  <2>4. Range(under_any(domains, K)) = {d \in Range(domains) : UnderOne(d, K)}
    BY <2>3, UnderAnyIs
  <2>5. Range(under_any(domains, K)) # {}
    BY <2>2, <2>4
  <2>6. Range(<<>>) = {}
    BY DEF Range
  <2> QED BY <2>5, <2>6
<1>4. K \subseteq I /\ (I # {} <=> \E n \in W : \E i \in DOMAIN domains :
                                     Under(normalize_host(domains[i]), n))
  BY <1>1
<1> HIDE DEF I
<1>5. o = IF I = {} THEN NoMatch
          ELSE IF K = {} THEN [NoMatch EXCEPT !.fully_suppressed = TRUE]
          ELSE [event |-> TRUE, fully_suppressed |-> FALSE,
                matched_domains |-> under_any(domains, K),
                matched_keywords |-> K, san_count |-> Len(domains)]
  BY <1>2, <1>3 DEF inspect_outcome, I
<1>6. CASE I = {}
  BY <1>4, <1>5, <1>6 DEF NoMatch
<1>7. CASE I # {} /\ K = {}
  BY <1>4, <1>5, <1>7 DEF NoMatch
<1>8. CASE I # {} /\ K # {}
  BY <1>4, <1>5, <1>8
<1> QED BY <1>4, <1>6, <1>7, <1>8

-----------------------------------------------------------------------------
(* Frames: the domains of a row *)

\* The turns of fill's loop.
LEMMA FillTurns ==
    ASSUME NEW domains \in Seq(Host)
    PROVE  \E out \in [0..Len(domains) -> Seq(Host)] :
             /\ fill(domains) = out[Len(domains)] /\ out[0] = <<>>
             /\ \A i \in 1..Len(domains) : out[i] = AddNew(out[i - 1], domains[i])
<1> DEFINE N == Len(domains)
           g == [i \in 1..N |-> [s \in Seq(Host) |-> AddNew(s, domains[i])]]
<1>1. N \in Nat /\ \A i \in 1..N : domains[i] \in Host
  BY LenProperties, ElementOfSeq
<1>2. <<>> \in Seq(Host)
  BY EmptySeq
<1>3. \A s \in Seq(Host), d \in Host : AddNew(s, d) \in Seq(Host)
  <2>1. ASSUME NEW s \in Seq(Host), NEW d \in Host PROVE Append(s, d) \in Seq(Host)
    BY <2>1, AppendProperties
  <2> QED BY <2>1 DEF AddNew
<1>4. g \in [1..N -> [Seq(Host) -> Seq(Host)]]
  BY <1>1, <1>3
<1>5. PICK f \in [0..N -> Seq(Host)] : f[0] = <<>> /\ \A i \in 1..N : f[i] = g[i][f[i - 1]]
  <2> DEFINE S == Seq(Host)
             b == <<>>
  <2>1. N \in Nat /\ b \in S /\ g \in [1..N -> [S -> S]]
    BY <1>1, <1>2, <1>4
  <2> HIDE DEF g, N, S, b
  <2>2. \E f : IsLoop(f, N, S, b, g)
    BY <2>1, LoopDefined
  <2> QED BY <2>2 DEF IsLoop, S, b
<1> DEFINE F(h) == [i \in 0..N |-> IF i = 0 THEN <<>> ELSE AddNew(h[i - 1], domains[i])]
           out == CHOOSE h : h = F(h)
<1>6. \A i \in 1..N : f[i] = AddNew(f[i - 1], domains[i])
  <2>1. \A i \in 1..N : i - 1 \in 0..N
    BY <1>1
  <2>2. \A i \in 1..N : f[i - 1] \in Seq(Host)
    BY <2>1
  <2> QED BY <1>5, <2>2
<1>7. f = F(f)
  <2>1. ASSUME NEW i \in 0..N PROVE f[i] = F(f)[i]
    <3>1. CASE i = 0
      BY <1>5, <3>1
    <3>2. CASE i # 0
      <4>1. i \in 1..N
        BY <1>1, <3>2
      <4> QED BY <1>6, <3>2, <4>1, Zenon
    <3> QED BY <3>1, <3>2
  <2>2. f = [i \in 0..N |-> f[i]]
    OBVIOUS
  <2> QED BY <2>1, <2>2
<1>8. out = F(out)
  BY <1>7
<1>9. fill(domains) = out[N]
  BY DEF fill
<1> HIDE DEF out
<1>10. out[0] = <<>> /\ \A i \in 1..N : out[i] = AddNew(out[i - 1], domains[i])
  <2>1. 0 \in 0..N /\ \A i \in 1..N : i \in 0..N /\ i # 0
    BY <1>1
  <2>2. out[0] = <<>>
    BY <1>8, <2>1
  <2>3. ASSUME NEW i \in 1..N PROVE out[i] = AddNew(out[i - 1], domains[i])
    BY <1>8, <2>1, Zenon
  <2> QED BY <2>2, <2>3
<1>11. out \in [0..N -> Seq(Host)]
  <2> DEFINE T == {m \in 0..N : out[m] \in Seq(Host)}
  <2>1. 0 \in T
    <3>1. 0 \in 0..N
      BY <1>1
    <3> QED BY <1>2, <1>10, <3>1
  <2>2. ASSUME NEW m \in 0..(N - 1), m \in T PROVE m + 1 \in T
    <3>1. m + 1 \in 1..N /\ m + 1 \in 0..N /\ (m + 1) - 1 = m
      BY <1>1
    <3>2. out[m] \in Seq(Host) /\ domains[m + 1] \in Host
      BY <1>1, <2>2, <3>1
    <3>3. out[m + 1] \in Seq(Host)
      BY <1>3, <1>10, <3>1, <3>2
    <3> QED BY <3>1, <3>3
  <2> HIDE DEF T
  <2>3. 0..N \subseteq T
    BY <1>1, <2>1, <2>2, Turns
  <2>4. \A m \in 0..N : out[m] \in Seq(Host)
    BY <2>3 DEF T
  <2>5. out = [i \in 0..N |-> out[i]]
    BY <1>8
  <2> QED BY <2>4, <2>5
<1> QED BY <1>9, <1>10, <1>11

\* What one turn does: add a new domain while there is room.
LEMMA AddNewIs ==
    ASSUME NEW s \in Seq(Host), NEW d \in Host, Len(s) <= Cap
    PROVE  /\ AddNew(s, d) \in Seq(Host) /\ Len(AddNew(s, d)) <= Cap
           /\ Range(AddNew(s, d)) \subseteq Range(s) \cup {d} /\ Range(s) \subseteq Range(AddNew(s, d))
           /\ Len(s) < Cap => Range(AddNew(s, d)) = Range(s) \cup {d}
           /\ Len(s) = Cap => AddNew(s, d) = s
<1>1. /\ Append(s, d) \in Seq(Host) /\ Range(Append(s, d)) = Range(s) \cup {d}
      /\ Len(Append(s, d)) = Len(s) + 1
  BY RangeOfAppend
<1>2. Len(s) \in Nat /\ Cap \in Nat /\ DOMAIN s = 1..Len(s)
  BY LenProperties, FramesAssumption
<1>3. (\A i \in DOMAIN s : s[i] # d) <=> d \notin Range(s)
  BY DEF Range
<1>4. CASE Len(s) < Cap /\ d \notin Range(s)
  <2> DEFINE t == Append(s, d)
  <2>1. AddNew(s, d) = t
    BY <1>3, <1>4 DEF AddNew
  <2>2. t \in Seq(Host) /\ Range(t) = Range(s) \cup {d} /\ Len(t) = Len(s) + 1
    BY <1>1
  <2> HIDE DEF t
  <2>3. Len(t) <= Cap /\ ~(Len(s) = Cap)
    <3>1. \A a, b \in Nat : a < b => a + 1 <= b /\ ~(a = b)
      OBVIOUS
    <3> QED BY <1>2, <1>4, <2>2, <3>1
  <2> QED BY <2>1, <2>2, <2>3
<1>5. CASE ~(Len(s) < Cap /\ d \notin Range(s))
  <2>1. AddNew(s, d) = s
    BY <1>3, <1>5 DEF AddNew
  <2> QED BY <1>2, <1>5, <2>1
<1> QED BY <1>4, <1>5

\* After m turns: at most Cap domains, all of them among the first m; as long
\* as there is room, all of those.  The first k domains are all there, unless
\* they alone filled it.
LEMMA FillIs ==
    ASSUME NEW domains \in Seq(Host), NEW k \in 0..Len(domains)
    PROVE  LET r == fill(domains) IN
           /\ r \in Seq(Host) /\ Len(r) <= Cap /\ Range(r) \subseteq Range(domains)
           /\ \/ Upto(domains, k) \subseteq Range(r)
              \/ Len(r) = Cap /\ Range(r) \subseteq Upto(domains, k)
<1> DEFINE N == Len(domains)
<1>1. N \in Nat /\ \A i \in 1..N : domains[i] \in Host
  BY LenProperties, ElementOfSeq
<1>2. PICK out \in [0..N -> Seq(Host)] :
        /\ fill(domains) = out[N] /\ out[0] = <<>>
        /\ \A i \in 1..N : out[i] = AddNew(out[i - 1], domains[i])
  BY FillTurns
<1> DEFINE Good(r, m) ==
             /\ Len(r) <= Cap /\ Range(r) \subseteq Upto(domains, m)
             /\ Len(r) < Cap => Upto(domains, m) \subseteq Range(r)
             /\ m >= k => \/ Upto(domains, k) \subseteq Range(r)
                          \/ Len(r) = Cap /\ Range(r) \subseteq Upto(domains, k)
           T == {m \in 0..N : Good(out[m], m)}
<1>3. Cap \in Nat /\ k \in Nat /\ Range(<<>>) = {} /\ Len(<<>>) = 0 /\ Upto(domains, 0) = {}
  BY <1>1, FramesAssumption DEF Range, Upto
<1>4. 0 \in T
  <2>1. 0 \in 0..N
    BY <1>1
  <2>2. 0 >= k => k = 0
    BY <1>3
  <2>3. Good(<<>>, 0)
    BY <1>3, <2>2
  <2> HIDE DEF Good
  <2> QED BY <1>2, <2>1, <2>3
<1>5. ASSUME NEW m \in 0..(N - 1), m \in T PROVE m + 1 \in T
  <2> DEFINE r == out[m]
             e == domains[m + 1]
             q == out[m + 1]
  <2>1. m + 1 \in 1..N /\ m + 1 \in 0..N /\ (m + 1) - 1 = m /\ m \in Nat /\ m \in 0..N
    BY <1>1
  <2>2. r \in Seq(Host) /\ e \in Host /\ q = AddNew(r, e) /\ Good(r, m)
    <3> HIDE DEF Good
    <3> QED BY <1>1, <1>2, <1>5, <2>1
  <2>3. Upto(domains, m + 1) = Upto(domains, m) \cup {e}
    BY <2>1, UptoNext
  <2> HIDE DEF r, e, q
  <2>4. Len(r) \in Nat /\ Len(r) <= Cap
    BY <2>2, LenProperties
  <2>5. /\ q \in Seq(Host) /\ Len(q) <= Cap
        /\ Range(q) \subseteq Range(r) \cup {e} /\ Range(r) \subseteq Range(q)
        /\ Len(r) < Cap => Range(q) = Range(r) \cup {e}
        /\ Len(r) = Cap => q = r
    BY <2>2, <2>4, AddNewIs
  <2>6. Len(q) \in Nat
    BY <2>5, LenProperties
  <2>7. Len(r) < Cap \/ Len(r) = Cap
    BY <1>3, <2>4
  <2>8. Range(q) \subseteq Upto(domains, m + 1)
    BY <2>2, <2>3, <2>5
  <2>9. Len(q) < Cap => Upto(domains, m + 1) \subseteq Range(q)
    <3>1. CASE Len(r) < Cap
      BY <2>2, <2>3, <2>5, <3>1
    <3>2. CASE Len(r) = Cap
      BY <1>3, <2>5, <3>2
    <3> QED BY <2>7, <3>1, <3>2
  <2>10. m + 1 >= k => \/ Upto(domains, k) \subseteq Range(q)
                       \/ Len(q) = Cap /\ Range(q) \subseteq Upto(domains, k)
    <3>1. CASE m >= k
      BY <2>2, <2>5, <2>7, <3>1
    <3>2. CASE m + 1 = k
      <4>1. Len(q) < Cap \/ Len(q) = Cap
        BY <1>3, <2>5, <2>6
      <4> QED BY <2>8, <2>9, <3>2, <4>1
    <3>3. m + 1 >= k => m >= k \/ m + 1 = k
      BY <1>3, <2>1
    <3> QED BY <3>1, <3>2, <3>3
  <2>11. Good(q, m + 1)
    BY <2>5, <2>8, <2>9, <2>10
  <2> HIDE DEF Good
  <2> QED BY <2>1, <2>11 DEF q
<1> HIDE DEF T
<1>6. 0..N \subseteq T
  BY <1>1, <1>4, <1>5, Turns
<1>7. N \in 0..N /\ N >= k
  BY <1>1
<1>8. Good(out[N], N)
  <2> HIDE DEF Good
  <2> QED BY <1>6, <1>7 DEF T
<1>9. Range(domains) = Upto(domains, N)
  BY RangeEquality DEF Upto
<1>10. out[N] \in Seq(Host)
  BY <1>2, <1>7
<1> HIDE DEF N
<1> QED BY <1>2, <1>7, <1>8, <1>9, <1>10

LEMMA CompactIs ==
    ASSUME NEW all \in Seq(Host), NEW matched \in Seq(Host), Range(matched) \subseteq Range(all),
           NEW r, r = compact_all_domains(all, matched)
    PROVE  /\ Range(r.domains) \subseteq Range(all)
           /\ Cap > 0 => Len(r.domains) <= Cap
           /\ \/ Range(matched) \subseteq Range(r.domains)
              \/ Range(r.domains) \subseteq Range(matched) /\ Len(r.domains) = Cap
           /\ ~r.truncated => r.domains = all
<1>0. Cap \in Nat /\ Len(all) \in Nat
  BY LenProperties, FramesAssumption
<1>1. CASE Cap = 0 \/ Len(all) <= Cap
  <2>1. r = [domains |-> all, truncated |-> FALSE]
    BY <1>1 DEF compact_all_domains
  <2> QED BY <1>0, <1>1, <2>1
<1>2. CASE ~(Cap = 0 \/ Len(all) <= Cap)
  <2> DEFINE s == matched \o all
             f == fill(s)
  <2>1. r = [domains |-> f, truncated |-> TRUE]
    BY <1>2 DEF compact_all_domains
  <2>2. /\ s \in Seq(Host) /\ Len(s) = Len(matched) + Len(all)
        /\ \A i \in 1..Len(matched) + Len(all) : s[i] = IF i <= Len(matched) THEN matched[i]
                                                        ELSE all[i - Len(matched)]
    BY ConcatProperties
  <2>3. Range(s) = Range(matched) \cup Range(all)
    BY RangeConcatenation
  <2> HIDE DEF s
  <2>4. Len(matched) \in Nat /\ Len(matched) \in 0..Len(s)
    BY <1>0, <2>2, LenProperties
  <2>5. Upto(s, Len(matched)) = Range(matched)
    <3>1. \A i \in 1..Len(matched) : s[i] = matched[i]
      BY <1>0, <2>2, <2>4
    <3>2. Range(matched) = {matched[i] : i \in 1..Len(matched)}
      BY RangeEquality
    <3> QED BY <3>1, <3>2 DEF Upto
  <2>6. /\ f \in Seq(Host) /\ Len(f) <= Cap /\ Range(f) \subseteq Range(s)
        /\ \/ Upto(s, Len(matched)) \subseteq Range(f)
           \/ Len(f) = Cap /\ Range(f) \subseteq Upto(s, Len(matched))
    BY <2>2, <2>4, FillIs
  <2> HIDE DEF f
  <2> QED BY <2>1, <2>3, <2>5, <2>6
<1> QED BY <1>1, <1>2

-----------------------------------------------------------------------------
(* Frames: one frame *)

\* What each stage has left behind: the outcome is that of inspect_outcome on
\* the parsed domains and the two files, the row that of compact_all_domains.
FrameInv ==
    /\ frame \in Frames /\ watch \in SUBSET Lines /\ ignore \in SUBSET Lines
    /\ stage \in {"received", "parsed", "matched", "archived", "dropped"}
    /\ parsed.domains \in Seq(Host)
    /\ stage \in {"received", "parsed"} => outcome = NoMatch
    /\ stage \in {"parsed", "matched", "archived"} => parsed.result = "leaf"
    /\ stage \in {"matched", "archived", "dropped"} =>
         IF parsed.result = "leaf"
         THEN outcome = inspect_outcome(parsed.domains, Names(watch), Names(ignore))
         ELSE outcome = NoMatch
    /\ stage \in {"matched", "archived"} => outcome.event
    /\ stage = "archived" => row = compact_all_domains(parsed.domains, outcome.matched_domains)

LEMMA ParsedIs ==
    ASSUME NEW f \in Frames
    PROVE  parse_certstream_frame(f).domains \in Seq(Host)
<1>1. f.items \in Seq(Host)
  BY FramesAssumption
<1>2. <<>> \in Seq(Host)
  BY EmptySeq
<1>3. parse_certstream_frame(f).domains \in {<<>>, f.items}
  BY DEF parse_certstream_frame, Malformed, Ignored
<1> QED BY <1>1, <1>2, <1>3

LEMMA FrameInvInit == FrameInit => FrameInv
<1> SUFFICES ASSUME FrameInit PROVE FrameInv
  OBVIOUS
<1>1. parsed.domains \in Seq(Host)
  BY EmptySeq DEF FrameInit, Ignored
<1> QED BY <1>1 DEF FrameInit, FrameInv, Files, Ignored

LEMMA FrameInvStep == FrameInv /\ [FrameNext]_frameVars => FrameInv'
<1> SUFFICES ASSUME FrameInv, [FrameNext]_frameVars PROVE FrameInv'
  OBVIOUS
<1>1. CASE Parse
  <2>1. parsed'.domains \in Seq(Host)
    BY <1>1, ParsedIs DEF Parse, FrameInv
  <2> QED BY <1>1, <2>1 DEF Parse, FrameInv
<1>2. CASE Inspect
  BY <1>2 DEF Inspect, FrameInv
<1>3. CASE ArchiveRow
  BY <1>3 DEF ArchiveRow, FrameInv
<1>4. CASE Done \/ UNCHANGED frameVars
  BY <1>4 DEF Done, frameVars, FrameInv
<1> QED BY <1>1, <1>2, <1>3, <1>4 DEF FrameNext

LEMMA FrameInvariant == FrameSpec => []FrameInv
BY FrameInvInit, FrameInvStep, PTL DEF FrameSpec

\* The outcome of a leaf that was inspected, in terms of the hits.
LEMMA OutcomeIs ==
    ASSUME FrameInv, stage \in {"matched", "archived", "dropped"}, parsed.result = "leaf",
           NEW K, K = {n \in Names(watch) \ Names(ignore) : Hit(n)}
    PROVE  /\ outcome.matched_keywords = K /\ (outcome.event <=> K # {})
           /\ outcome.fully_suppressed <=> ~outcome.event /\ \E n \in Names(watch) : Hit(n)
           /\ outcome.event => outcome.matched_domains = under_any(parsed.domains, K)
           /\ parsed.domains \in Seq(Host) /\ \A n \in K : IsKey(n)
<1>1. /\ parsed.domains \in Seq(Host) /\ watch \in SUBSET Lines
      /\ outcome = inspect_outcome(parsed.domains, Names(watch), Names(ignore))
  BY DEF FrameInv
<1>2. \A n \in Names(watch) : IsKey(n)
  BY <1>1, NamesAreKeys
<1>3. \A n : Hit(n) <=> \E i \in DOMAIN parsed.domains : Under(normalize_host(parsed.domains[i]), n)
  BY DEF Hit
<1> DEFINE W == Names(watch)
           G == Names(ignore)
           D == parsed.domains
           o == outcome
<1>4. /\ D \in Seq(Host) /\ o = inspect_outcome(D, W, G) /\ \A n \in W : IsKey(n)
      /\ \A n : Hit(n) <=> \E i \in DOMAIN D : Under(normalize_host(D[i]), n)
      /\ K = {n \in W \ G : Hit(n)}
  BY <1>1, <1>2, <1>3
<1> HIDE DEF W, G, D, o
<1>5. \A n : n \in K <=> /\ n \in W /\ n \notin G
                        /\ \E i \in DOMAIN D : Under(normalize_host(D[i]), n)
  BY <1>4
<1>d. /\ D \in Seq(Host) /\ o = inspect_outcome(D, W, G) /\ \A n \in W : IsKey(n)
  BY <1>4
<1>6. /\ o.matched_keywords = K /\ (o.event <=> K # {})
      /\ o.fully_suppressed <=> ~o.event /\ \E n \in W : \E i \in DOMAIN D :
                                                  Under(normalize_host(D[i]), n)
      /\ o.event => o.matched_domains = under_any(D, K)
  BY <1>d, <1>5, InspectIs
<1>7. /\ o.matched_keywords = K /\ (o.event <=> K # {})
      /\ o.fully_suppressed <=> ~o.event /\ \E n \in W : Hit(n)
      /\ o.event => o.matched_domains = under_any(D, K)
  BY <1>4, <1>6
<1> QED BY <1>4, <1>7 DEF W, G, D, o

\* inspect_outcome on any frame and any two files: the walk over suffixes finds
\* exactly the names that a reference definition of "being under" finds.
THEOREM MatchesAreExact == FrameSpec => []MatchesAreSuffixes
<1>1. FrameInv => MatchesAreSuffixes
  <2> SUFFICES ASSUME FrameInv, stage \in {"matched", "archived", "dropped"}, parsed.result = "leaf"
               PROVE  /\ outcome.matched_keywords = {n \in Names(watch) \ Names(ignore) : Hit(n)}
                      /\ outcome.event <=> outcome.matched_keywords # {}
                      /\ outcome.fully_suppressed <=>
                             ~outcome.event /\ \E n \in Names(watch) : Hit(n)
    BY DEF MatchesAreSuffixes
  <2> QED BY OutcomeIs
<1> QED BY <1>1, FrameInvariant, PTL

\* inspect_outcome: the domains an event shows are under its names, and every
\* name has one.
THEOREM EvidenceIsComplete == FrameSpec => []EvidenceFits
<1>1. ASSUME FrameInv, outcome.event
      PROVE  /\ \A i \in DOMAIN outcome.matched_domains : \E n \in outcome.matched_keywords :
                  Under(normalize_host(outcome.matched_domains[i]), n)
             /\ \A n \in outcome.matched_keywords : \E i \in DOMAIN outcome.matched_domains :
                  Under(normalize_host(outcome.matched_domains[i]), n)
  <2> DEFINE K == {n \in Names(watch) \ Names(ignore) : Hit(n)}
             md == outcome.matched_domains
             D == parsed.domains
  <2>1. stage \in {"matched", "archived", "dropped"} /\ parsed.result = "leaf"
    BY <1>1 DEF FrameInv, NoMatch
  <2>2. \A n \in K : \E i \in DOMAIN D : Under(normalize_host(D[i]), n)
    BY DEF Hit
  <2> HIDE DEF K
  <2>3. /\ outcome.matched_keywords = K /\ md = under_any(D, K)
        /\ D \in Seq(Host) /\ \A n \in K : IsKey(n)
    BY <1>1, <2>1, OutcomeIs DEF K
  <2> HIDE DEF D, md
  <2>4. Range(md) = {d \in Range(D) : UnderOne(d, K)}
    BY <2>3, UnderAnyIs
  <2>5. ASSUME NEW i \in DOMAIN md PROVE \E n \in K : Under(normalize_host(md[i]), n)
    <3>1. md[i] \in Range(md)
      BY DEF Range
    <3> QED BY <2>4, <3>1 DEF UnderOne
  <2>6. ASSUME NEW n \in K PROVE \E i \in DOMAIN md : Under(normalize_host(md[i]), n)
    <3>1. PICK i \in DOMAIN D : Under(normalize_host(D[i]), n)
      BY <2>2
    <3>2. D[i] \in Range(D) /\ UnderOne(D[i], K)
      BY <3>1 DEF Range, UnderOne
    <3>3. D[i] \in Range(md)
      BY <2>4, <3>2
    <3>4. PICK j \in DOMAIN md : md[j] = D[i]
      BY <3>3 DEF Range
    <3> QED BY <3>1, <3>4
  <2> QED BY <2>3, <2>5, <2>6 DEF md
<1>2. FrameInv => EvidenceFits
  BY <1>1 DEF EvidenceFits
<1> QED BY <1>2, FrameInvariant, PTL

\* etld1, for any public suffix list and any lines: a key stands for one
\* registrant, but for the registries the list has below it.
THEOREM KeyIsOneRegistrant == FrameSpec => []OneRegistrantPerKey
<1>1. FrameInv => OneRegistrantPerKey
  <2> SUFFICES ASSUME FrameInv, NEW n \in Names(watch)
               PROVE  /\ n \notin Icann /\ (n \in Private => Len(n) > 2)
                      /\ \A i \in DOMAIN parsed.domains :
                           Parses(normalize_host(parsed.domains[i]))
                             /\ Under(normalize_host(parsed.domains[i]), n)
                             /\ ~RegistryBelow(normalize_host(parsed.domains[i]), n)
                           => etld1(parsed.domains[i]) = n
    BY DEF OneRegistrantPerKey
  <2>1. watch \in SUBSET Lines /\ parsed.domains \in Seq(Host)
    BY DEF FrameInv
  <2>2. IsKey(n)
    BY <2>1, NamesAreKeys
  <2>3. PICK l \in watch : n = etld1(l) /\ n # None
    BY DEF Names
  <2>4. l \in Host
    BY <2>1, FramesAssumption
  <2>5. \A i \in DOMAIN parsed.domains : parsed.domains[i] \in Host
    BY <2>1, LenProperties, ElementOfSeq
  <2> QED BY <2>2, <2>3, <2>4, <2>5, KeyOfHost DEF IsKey
<1> QED BY <1>1, FrameInvariant, PTL

\* compact_all_domains, for any cap and any list: a row keeps the evidence.
THEOREM RowsKeepEvidence == FrameSpec => []RowKeepsEvidence
<1>1. ASSUME FrameInv, stage = "archived" PROVE RowKeepsEvidence
  <2> DEFINE K == {n \in Names(watch) \ Names(ignore) : Hit(n)}
             md == outcome.matched_domains
             D == parsed.domains
  <2>1. /\ stage \in {"matched", "archived", "dropped"} /\ parsed.result = "leaf"
        /\ outcome.event /\ row = compact_all_domains(D, md)
    BY <1>1 DEF FrameInv
  <2> HIDE DEF K
  <2>2. md = under_any(D, K) /\ D \in Seq(Host) /\ \A n \in K : IsKey(n)
    BY <1>1, <2>1, OutcomeIs DEF K
  <2> HIDE DEF D, md
  <2>3. md \in Seq(Host) /\ Range(md) = {d \in Range(D) : UnderOne(d, K)}
    BY <2>2, UnderAnyIs
  <2>4. Range(md) \subseteq Range(D)
    BY <2>3
  <2>5. /\ Range(row.domains) \subseteq Range(D)
        /\ Cap > 0 => Len(row.domains) <= Cap
        /\ \/ Range(md) \subseteq Range(row.domains)
           \/ Range(row.domains) \subseteq Range(md) /\ Len(row.domains) = Cap
        /\ ~row.truncated => row.domains = D
    BY <2>1, <2>2, <2>3, <2>4, CompactIs
  <2> QED BY <2>5 DEF RowKeepsEvidence, md, D
<1>2. FrameInv => RowKeepsEvidence
  BY <1>1 DEF RowKeepsEvidence
<1> QED BY <1>2, FrameInvariant, PTL
=============================================================================
