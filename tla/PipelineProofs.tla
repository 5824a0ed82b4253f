--------------------------- MODULE PipelineProofs ---------------------------
(***************************************************************************)
(* Proofs about module Pipeline, for all values of its constants.  What    *)
(* the batcher promises on its own (module BatcherProofs) is carried over  *)
(* through the refinement ImplementsBatcher.                               *)
(***************************************************************************)
EXTENDS Pipeline, SequenceTheorems, TLAPS

BP == INSTANCE BatcherProofs WITH MaxSent <- MaxFrames

-----------------------------------------------------------------------------
(* The batcher inside the pipeline *)

\* A match in hand is a match.
HandInv == main \in {"offer", "blocked"} => held \in Event

LEMMA HandStep == HandInv /\ [Next]_vars => HandInv'
<1> SUFFICES ASSUME HandInv, [Next]_vars PROVE HandInv'
  OBVIOUS
<1> USE DEF HandInv
<1>1. ASSUME NEW f \in Frame, ReadFrame(f) PROVE HandInv'
  BY <1>1 DEF ReadFrame, mainVars, archiveVars
<1>2. CASE FrameSent
  BY <1>2 DEF FrameSent, mainVars, archiveVars
<1>3. CASE StopIngress
  BY <1>3 DEF StopIngress, mainVars, archiveVars
<1>4. CASE MainStep
  BY <1>4 DEF MainStep, DropFrame, TakeMatch, Enqueue, Block, LeaveLoop,
              FlushAndCancel, Join
<1>5. CASE BatcherStep \/ SinkOk \/ SinkErr \/ Tick
  BY <1>5 DEF BatcherStep, SinkOk, SinkErr, Tick, outsideBatcher, mainVars, archiveVars
<1>6. CASE CtrlC \/ Crash
  BY <1>6 DEF CtrlC, Crash, mainVars, archiveVars
<1>7. CASE Halted \/ UNCHANGED vars
  BY <1>7 DEF Halted, vars, mainVars, archiveVars
<1> QED BY <1>1, <1>2, <1>3, <1>4, <1>5, <1>6, <1>7 DEF Next

LEMMA HandInvariant == Safety => []HandInv
<1>1. Init => HandInv
  BY DEF Init, HandInv
<1> QED BY <1>1, HandStep, PTL DEF Safety

LEMMA BatcherStepRefines == HandInv /\ [Next]_vars => [B!Next]_B!vars
<1> SUFFICES ASSUME HandInv, [Next]_vars PROVE [B!Next]_B!vars
  OBVIOUS
<1> USE DEF B!vars, B!batcherVars
<1>1. ASSUME NEW f \in Frame, ReadFrame(f) PROVE UNCHANGED B!vars
  BY <1>1 DEF ReadFrame, queueVars
<1>2. CASE FrameSent \/ StopIngress \/ CtrlC \/ Crash
  BY <1>2 DEF FrameSent, StopIngress, CtrlC, Crash, queueVars
<1>3. CASE Enqueue
  <2>1. held \in Event /\ B!Send(held)
    BY <1>3 DEF Enqueue, HandInv
  <2> QED BY <2>1 DEF B!Next
<1>4. CASE LeaveLoop
  BY <1>4 DEF LeaveLoop, B!Next
<1>5. CASE DropFrame \/ TakeMatch \/ Block \/ FlushAndCancel \/ Join
  BY <1>5 DEF DropFrame, TakeMatch, Block, FlushAndCancel, Join, queueVars
<1>6. CASE BatcherStep \/ SinkOk \/ SinkErr \/ Tick
  BY <1>6 DEF BatcherStep, SinkOk, SinkErr, Tick, B!BatcherStep, B!Next
<1>7. CASE Halted \/ UNCHANGED vars
  BY <1>7 DEF Halted, vars, queueVars
<1> QED BY <1>1, <1>2, <1>3, <1>4, <1>5, <1>6, <1>7 DEF Next, MainStep

\* The main task is a producer the batcher allows: it sends matches only, never
\* after it has dropped the sender, and touches nothing of the batcher's own.
\* So the composed program still is the Batcher module, for any parameters.
THEOREM BatcherImplemented == Safety => ImplementsBatcher
<1>1. Init => B!Init
  BY DEF Init
<1> QED BY <1>1, HandInvariant, BatcherStepRefines, PTL
           DEF Safety, ImplementsBatcher, B!Safety

-----------------------------------------------------------------------------
(* What the batcher's own proofs say here *)

\* B and BP are instances of the same text.
LEMMA SameStep == [B!Next]_B!vars => [BP!Next]_BP!vars
<1> USE DEF B!vars, BP!vars, B!batcherVars, BP!batcherVars
<1>1. ASSUME NEW e \in Event PROVE B!Send(e) <=> BP!Send(e)
  BY DEF B!Send, BP!Send
<1>2. B!CloseSender <=> BP!CloseSender
  BY DEF B!CloseSender, BP!CloseSender
<1>3. B!Receive <=> BP!Receive
  BY DEF B!Receive, BP!Receive, B!AgeAfterPush, BP!AgeAfterPush, B!StartSend,
         BP!StartSend, B!ShouldFlushNow, BP!ShouldFlushNow, B!IsPrefixLen,
         BP!IsPrefixLen, B!Fits, BP!Fits, B!Bytes, BP!Bytes
<1>4. B!ReceiveTooLarge <=> BP!ReceiveTooLarge
  BY DEF B!ReceiveTooLarge, BP!ReceiveTooLarge, B!End, BP!End, B!NoBatch, BP!NoBatch
<1>5. B!ReceiveClosed <=> BP!ReceiveClosed
  BY DEF B!ReceiveClosed, BP!ReceiveClosed, B!End, BP!End, B!StartSend, BP!StartSend,
         B!IsPrefixLen, BP!IsPrefixLen, B!Fits, BP!Fits, B!Bytes, BP!Bytes
<1>6. B!Deadline <=> BP!Deadline
  BY DEF B!Deadline, BP!Deadline, B!DeadlineDue, BP!DeadlineDue, B!StartSend,
         BP!StartSend, B!IsPrefixLen, BP!IsPrefixLen, B!Fits, BP!Fits,
         B!Bytes, BP!Bytes
<1>7. B!SinkOk <=> BP!SinkOk
  BY DEF B!SinkOk, BP!SinkOk, B!StartSend, BP!StartSend, B!Resume, BP!Resume, B!End,
         BP!End, B!NoBatch, BP!NoBatch, B!ShouldFlushNow, BP!ShouldFlushNow,
         B!IsPrefixLen, BP!IsPrefixLen, B!Fits, BP!Fits, B!Bytes, BP!Bytes
<1>8. B!SinkErr <=> BP!SinkErr
  BY DEF B!SinkErr, BP!SinkErr
<1>9. B!Retry <=> BP!Retry
  BY DEF B!Retry, BP!Retry
<1>10. B!Tick <=> BP!Tick
  BY DEF B!Tick, BP!Tick, B!DeadlineDue, BP!DeadlineDue, B!Older, BP!Older,
         B!NoBatch, BP!NoBatch
<1>11. B!Terminated <=> BP!Terminated
  BY DEF B!Terminated, BP!Terminated
<1> QED
  BY <1>1, <1>2, <1>3, <1>4, <1>5, <1>6, <1>7, <1>8, <1>9, <1>10, <1>11
     DEF B!Next, BP!Next

\* The batcher's type, what its result says, and when it has one.
QueueInv == B!TypeOK /\ B!OkMeansDrained /\ (result # "running" => pc = "ended")

LEMMA QueueInvariant == Safety => []QueueInv
<1>1. B!Init => BP!Init
  BY DEF B!Init, BP!Init, B!NoBatch, BP!NoBatch
<1>2. Safety => BP!Safety
  BY <1>1, SameStep, BatcherImplemented, PTL DEF ImplementsBatcher, B!Safety, BP!Safety
<1>3. BP!Safety => []BP!TypeOK
  BY PipelineAssumption, BP!TypeCorrect
<1>4. BP!Safety => []BP!OrderInv
  BY PipelineAssumption, BP!OrderInvariant
<1>5. BP!TypeOK /\ BP!OrderInv => QueueInv
  BY DEF BP!TypeOK, B!TypeOK, B!NoBatch, BP!NoBatch, BP!OrderInv, BP!OkMeansDrained,
         B!OkMeansDrained, QueueInv
<1> QED BY <1>2, <1>3, <1>4, <1>5, PTL

-----------------------------------------------------------------------------
(* Type correctness *)

\* The part of TypeOK that is not the batcher's, with the two hands.
OwnTypes ==
    /\ frames \in Seq(Frame)
    /\ Len(frames) <= ChannelCapacity
    /\ ingress \in {"reading", "sending", "stopped"}
    /\ carried \in Frame \cup {NoEvent}
    /\ ingress = "sending" => carried \in Frame
    /\ arrived \in 0..MaxFrames
    /\ shutdown \in BOOLEAN
    /\ main \in {"select", "offer", "blocked", "closing", "joining", "exited"}
    /\ held \in Event \cup {NoEvent}
    /\ unflushed \in Seq(Event)
    /\ written \in Seq(Event)
    /\ detached \in BOOLEAN
    /\ archiveErrs \in BOOLEAN
    /\ metrics \in [Counter -> Nat]
    /\ alive \in BOOLEAN

\* Taking a frame out of the channel.
LEMMA HeadTail ==
    ASSUME NEW S, NEW s \in Seq(S), s # <<>>
    PROVE  Head(s) \in S /\ Tail(s) \in Seq(S) /\ Len(s) \in Nat /\ Len(Tail(s)) = Len(s) - 1
BY HeadTailProperties, LenProperties

\* Putting one in.
LEMMA Pushed ==
    ASSUME NEW S, NEW s \in Seq(S), NEW e \in S
    PROVE  /\ Append(s, e) \in Seq(S) /\ Len(s) \in Nat
           /\ Len(Append(s, e)) = Len(s) + 1
BY AppendProperties, LenProperties

LEMMA RowsType == OwnTypes => Rows \in Seq(Event)
BY ConcatProperties DEF OwnTypes, Rows

LEMMA ArchiveType ==
    ASSUME OwnTypes, NEW e \in Event, Archive(e)
    PROVE  /\ unflushed' \in Seq(Event) /\ written' \in Seq(Event)
           /\ detached' \in BOOLEAN /\ archiveErrs' \in BOOLEAN
<1>1. Flushed \in Seq(Event) /\ Append(Flushed, e) \in Seq(Event)
  BY RowsType, Pushed DEF Flushed, OwnTypes
<1>2. <<e>> \in Seq(Event) /\ <<>> \in Seq(Event)
  OBVIOUS
<1> QED BY <1>1, <1>2 DEF Archive, OwnTypes

LEMMA OwnTypesStep == OwnTypes /\ [Next]_vars => OwnTypes'
<1> SUFFICES ASSUME OwnTypes, [Next]_vars PROVE OwnTypes'
  OBVIOUS
<1>0. ChannelCapacity \in Nat /\ MaxFrames \in Nat
  BY PipelineAssumption
<1>1. ASSUME NEW f \in Frame, ReadFrame(f) PROVE OwnTypes'
  <2>1. arrived' \in 0..MaxFrames
    BY <1>0, <1>1 DEF OwnTypes, ReadFrame
  <2>2. CASE Len(frames) < ChannelCapacity
    <3>1. /\ Append(frames, f) \in Seq(Frame) /\ Len(frames) \in Nat
          /\ Len(Append(frames, f)) = Len(frames) + 1
      BY <1>1, Pushed DEF OwnTypes
    <3>2. frames' = Append(frames, f) /\ UNCHANGED <<ingress, carried>>
      BY <1>1, <2>2 DEF ReadFrame
    <3>3. frames' \in Seq(Frame) /\ Len(frames') <= ChannelCapacity
      BY <1>0, <2>2, <3>1, <3>2
    <3> QED BY <1>1, <2>1, <3>2, <3>3 DEF OwnTypes, ReadFrame, mainVars, archiveVars
  <2>3. CASE ~(Len(frames) < ChannelCapacity)
    BY <1>1, <2>1, <2>3 DEF OwnTypes, ReadFrame, mainVars, archiveVars
  <2> QED BY <2>2, <2>3
<1>2. CASE FrameSent
  BY <1>0, <1>2, Pushed DEF OwnTypes, FrameSent, mainVars, archiveVars
<1>3. CASE StopIngress
  BY <1>3 DEF OwnTypes, StopIngress, mainVars, archiveVars
<1>4. CASE DropFrame
  <2>1. Head(frames) \in Counter
    BY <1>4, PipelineAssumption DEF DropFrame, Counter
  <2>2. "seen" \in Counter
    BY DEF Counter
  <2>3. metrics' \in [Counter -> Nat]
    <3>1. metrics' = [metrics EXCEPT !["seen"] = @ + 1, ![Head(frames)] = @ + 1]
      BY <1>4 DEF DropFrame
    <3>2. metrics \in [Counter -> Nat]
      BY DEF OwnTypes
    <3> QED BY <2>1, <2>2, <3>1, <3>2
  <2>4. /\ Tail(frames) \in Seq(Frame) /\ Len(frames) \in Nat
        /\ Len(Tail(frames)) = Len(frames) - 1
    BY <1>4, HeadTail DEF OwnTypes, DropFrame
  <2>5. frames' \in Seq(Frame) /\ Len(frames') <= ChannelCapacity
    BY <1>0, <1>4, <2>4 DEF OwnTypes, DropFrame
  <2> QED BY <1>4, <2>3, <2>5 DEF OwnTypes, DropFrame, ingressVars, archiveVars
<1>5. CASE TakeMatch
  <2>1. Head(frames) \in Event /\ Archive(Head(frames))
    BY <1>5 DEF TakeMatch
  <2>2. metrics' \in [Counter -> Nat]
    BY <1>5 DEF TakeMatch, Count, OwnTypes, Counter
  <2>3. /\ unflushed' \in Seq(Event) /\ written' \in Seq(Event)
        /\ detached' \in BOOLEAN /\ archiveErrs' \in BOOLEAN
    BY <2>1, ArchiveType
  <2>4. /\ Tail(frames) \in Seq(Frame) /\ Len(frames) \in Nat
        /\ Len(Tail(frames)) = Len(frames) - 1
    BY <1>5, HeadTail DEF OwnTypes, TakeMatch
  <2>5. frames' \in Seq(Frame) /\ Len(frames') <= ChannelCapacity
    BY <1>0, <1>5, <2>4 DEF OwnTypes, TakeMatch
  <2> QED BY <1>5, <2>1, <2>2, <2>3, <2>5 DEF OwnTypes, TakeMatch, ingressVars
<1>6. CASE Enqueue \/ Block
  BY <1>6 DEF OwnTypes, Enqueue, Block, Count, Counter, ingressVars, archiveVars
<1>7. CASE LeaveLoop
  BY <1>7 DEF OwnTypes, LeaveLoop, ingressVars, archiveVars
<1>8. CASE FlushAndCancel
  <2>1. <<>> \in Seq(Event) /\ Flushed \in Seq(Event)
    BY RowsType DEF Flushed, OwnTypes
  <2> QED BY <1>8, <2>1 DEF OwnTypes, FlushAndCancel, ingressVars
<1>9. CASE Join
  BY <1>9 DEF OwnTypes, Join, ingressVars, archiveVars
<1>10. CASE BatcherStep \/ SinkOk \/ SinkErr \/ Tick
  BY <1>10 DEF OwnTypes, BatcherStep, SinkOk, SinkErr, Tick, outsideBatcher, mainVars, archiveVars,
               ingressVars
<1>11. CASE CtrlC \/ Crash
  <2>1. <<>> \in Seq(Event)
    OBVIOUS
  <2> QED BY <1>11, <2>1 DEF OwnTypes, CtrlC, Crash, mainVars, archiveVars, ingressVars
<1>12. CASE Halted \/ UNCHANGED vars
  BY <1>12 DEF OwnTypes, Halted, vars, mainVars, archiveVars, ingressVars
<1> QED
  BY <1>1, <1>2, <1>3, <1>4, <1>5, <1>6, <1>7, <1>8, <1>9, <1>10, <1>11, <1>12
     DEF Next, MainStep

LEMMA OwnTypesInvariant == Safety => []OwnTypes
<1>1. Init => OwnTypes
  <2>1. \A S : <<>> \in Seq(S) /\ Len(<<>>) = 0
    OBVIOUS
  <2>2. [c \in Counter |-> 0] \in [Counter -> Nat]
    OBVIOUS
  <2>3. 0 \in 0..MaxFrames /\ 0 <= ChannelCapacity
    BY PipelineAssumption
  <2> SUFFICES ASSUME Init PROVE OwnTypes
    OBVIOUS
  <2>4. frames \in Seq(Frame) /\ Len(frames) <= ChannelCapacity
    BY <2>1, <2>3 DEF Init
  <2>5. metrics \in [Counter -> Nat] /\ arrived \in 0..MaxFrames
    BY <2>2, <2>3 DEF Init
  <2>6. unflushed \in Seq(Event) /\ written \in Seq(Event)
    BY <2>1 DEF Init
  <2> QED BY <2>4, <2>5, <2>6 DEF Init, OwnTypes
<1> QED BY <1>1, OwnTypesStep, PTL DEF Safety

\* Every variable of the pipeline, the batcher's included, has its type.
THEOREM TypeCorrect == Safety => []TypeOK
<1>1. QueueInv /\ OwnTypes => TypeOK
  BY DEF QueueInv, OwnTypes, TypeOK
<1> QED BY <1>1, QueueInvariant, OwnTypesInvariant, PTL

-----------------------------------------------------------------------------
(* The counters *)

\* The batcher and the clock put nothing into the match channel.
LEMMA SentKept == BatcherStep \/ SinkOk \/ SinkErr \/ Tick => UNCHANGED sent
<1>1. BatcherStep => UNCHANGED sent
  BY DEF BatcherStep, B!BatcherStep, B!Receive, B!ReceiveTooLarge, B!ReceiveClosed,
         B!Deadline, B!Retry
<1>2. SinkOk => UNCHANGED sent
  BY DEF SinkOk, B!SinkOk
<1>3. SinkErr \/ Tick => UNCHANGED sent
  BY DEF SinkErr, B!SinkErr, Tick, B!Tick
<1> QED BY <1>1, <1>2, <1>3

\* Frames seen and not yet accounted for.
Open == metrics["seen"] - (metrics["ignored"] + metrics["malformed"]
                           + metrics["suppressed"] + metrics["enqueued"])

\* FramesAccounted, its cases apart.
CountInv ==
    /\ metrics["enqueued"] = Len(sent)
    /\ main = "select" => Open = 0
    /\ main \in {"offer", "blocked"} => Open = 1
    /\ Open \in {0, 1}

LEMMA CountInvIsFramesAccounted == CountInv => FramesAccounted
<1> SUFFICES ASSUME CountInv PROVE FramesAccounted
  OBVIOUS
<1> DEFINE held_now == main \in {"offer", "blocked"}
<1>1. CASE main = "select"
  BY <1>1 DEF CountInv, FramesAccounted, Open
<1>2. CASE held_now
  BY <1>2 DEF CountInv, FramesAccounted, Open
<1>3. CASE main # "select" /\ ~held_now
  BY <1>3 DEF CountInv, FramesAccounted, Open
<1> QED BY <1>1, <1>2, <1>3

\* One more of a counter.
LEMMA Counted ==
    ASSUME OwnTypes, NEW c \in Counter, Count(c)
    PROVE  /\ \A d \in Counter : metrics[d] \in Nat
           /\ metrics'[c] = metrics[c] + 1
           /\ \A d \in Counter \ {c} : metrics'[d] = metrics[d]
BY DEF OwnTypes, Count

LEMMA CountStep == OwnTypes /\ sent \in Seq(Event) /\ CountInv /\ [Next]_vars => CountInv'
<1> SUFFICES ASSUME OwnTypes, sent \in Seq(Event), CountInv, [Next]_vars
             PROVE  CountInv'
  OBVIOUS
<1>1. CASE UNCHANGED <<metrics, sent, main>>
  BY <1>1 DEF CountInv, Open
<1>2. CASE DropFrame
  <2>1. Head(frames) \in {"ignored", "malformed", "suppressed"}
    BY <1>2, PipelineAssumption DEF DropFrame
  <2>2. metrics \in [Counter -> Nat] /\ UNCHANGED <<sent, main>> /\ main = "select"
    BY <1>2 DEF DropFrame, queueVars, OwnTypes
  <2>3. metrics' = [metrics EXCEPT !["seen"] = @ + 1, ![Head(frames)] = @ + 1]
    BY <1>2 DEF DropFrame
  <2>4. ASSUME NEW c \in {"ignored", "malformed", "suppressed"}, Head(frames) = c
        PROVE  Open' = Open /\ metrics'["enqueued"] = metrics["enqueued"]
    <3>1. PICK s \in Int, i \in Int, m \in Int, u \in Int, q \in Int :
             /\ metrics["seen"] = s /\ metrics["ignored"] = i /\ metrics["malformed"] = m
             /\ metrics["suppressed"] = u /\ metrics["enqueued"] = q
      BY <2>2 DEF Counter
    <3>2. Open = s - (i + m + u + q)
      BY <3>1 DEF Open
    <3>3. CASE c = "ignored"
      <4>1. /\ metrics'["seen"] = s + 1 /\ metrics'["ignored"] = i + 1
            /\ metrics'["malformed"] = m /\ metrics'["suppressed"] = u
            /\ metrics'["enqueued"] = q
        BY <2>2, <2>3, <2>4, <3>1, <3>3 DEF Counter
      <4>2. Open' = (s + 1) - ((i + 1) + m + u + q)
        BY <4>1 DEF Open
      <4>3. (s + 1) - ((i + 1) + m + u + q) = s - (i + m + u + q)
        OBVIOUS
      <4> QED BY <3>1, <3>2, <4>1, <4>2, <4>3
    <3>4. CASE c = "malformed"
      <4>1. /\ metrics'["seen"] = s + 1 /\ metrics'["ignored"] = i
            /\ metrics'["malformed"] = m + 1 /\ metrics'["suppressed"] = u
            /\ metrics'["enqueued"] = q
        BY <2>2, <2>3, <2>4, <3>1, <3>4 DEF Counter
      <4>2. Open' = (s + 1) - (i + (m + 1) + u + q)
        BY <4>1 DEF Open
      <4>3. (s + 1) - (i + (m + 1) + u + q) = s - (i + m + u + q)
        OBVIOUS
      <4> QED BY <3>1, <3>2, <4>1, <4>2, <4>3
    <3>5. CASE c = "suppressed"
      <4>1. /\ metrics'["seen"] = s + 1 /\ metrics'["ignored"] = i
            /\ metrics'["malformed"] = m /\ metrics'["suppressed"] = u + 1
            /\ metrics'["enqueued"] = q
        BY <2>2, <2>3, <2>4, <3>1, <3>5 DEF Counter
      <4>2. Open' = (s + 1) - (i + m + (u + 1) + q)
        BY <4>1 DEF Open
      <4>3. (s + 1) - (i + m + (u + 1) + q) = s - (i + m + u + q)
        OBVIOUS
      <4> QED BY <3>1, <3>2, <4>1, <4>2, <4>3
    <3> QED BY <3>3, <3>4, <3>5
  <2> QED BY <2>1, <2>2, <2>4 DEF CountInv
<1>3. CASE TakeMatch
  <2>1. Count("seen") /\ "seen" \in Counter
    BY <1>3 DEF TakeMatch, Counter
  <2>2. Open' = Open + 1 /\ metrics'["enqueued"] = metrics["enqueued"]
    <3>1. /\ metrics["seen"] \in Nat /\ metrics["ignored"] \in Nat
          /\ metrics["malformed"] \in Nat /\ metrics["suppressed"] \in Nat
          /\ metrics["enqueued"] \in Nat
      BY <2>1, Counted DEF Counter
    <3>2. /\ metrics'["seen"] = metrics["seen"] + 1
          /\ metrics'["ignored"] = metrics["ignored"]
          /\ metrics'["malformed"] = metrics["malformed"]
          /\ metrics'["suppressed"] = metrics["suppressed"]
          /\ metrics'["enqueued"] = metrics["enqueued"]
      BY <2>1, Counted DEF Counter
    <3> QED BY <3>1, <3>2 DEF Open
  <2> QED BY <1>3, <2>2 DEF CountInv, TakeMatch, queueVars
<1>4. CASE Enqueue
  <2>1. Count("enqueued") /\ "enqueued" \in Counter
    BY <1>4 DEF Enqueue, Counter
  <2>2. Open' = Open - 1 /\ metrics'["enqueued"] = metrics["enqueued"] + 1
    BY <2>1, Counted DEF Open, Counter
  <2>3. sent' = Append(sent, held) /\ main' = "select" /\ main \in {"offer", "blocked"}
    BY <1>4 DEF Enqueue, B!Send
  <2>4. Len(Append(sent, held)) = Len(sent) + 1
    BY AppendProperties
  <2> QED BY <2>2, <2>3, <2>4 DEF CountInv
<1>5. CASE Block
  <2>1. Count("full") /\ "full" \in Counter
    BY <1>5 DEF Block, Counter
  <2>2. Open' = Open /\ metrics'["enqueued"] = metrics["enqueued"]
    BY <2>1, Counted DEF Open, Counter
  <2> QED BY <1>5, <2>2 DEF CountInv, Block, queueVars
<1>6. CASE LeaveLoop \/ FlushAndCancel \/ Join
  <2>1. UNCHANGED <<metrics, sent>> /\ main' \notin {"select", "offer", "blocked"}
    BY <1>6 DEF LeaveLoop, B!CloseSender, FlushAndCancel, Join, queueVars
  <2> QED BY <2>1 DEF CountInv, Open
<1> QED
  BY <1>1, <1>2, <1>3, <1>4, <1>5, <1>6, SentKept
     DEF Next, MainStep, ReadFrame, FrameSent, StopIngress, BatcherStep, SinkOk,
         SinkErr, Tick, outsideBatcher, CtrlC, Crash, Halted, vars, mainVars, archiveVars, queueVars

LEMMA CountInvariant == Safety => []CountInv
<1>1. Init => CountInv
  BY DEF Init, B!Init, CountInv, Open, Counter
<1>2. QueueInv => sent \in Seq(Event)
  BY DEF QueueInv, B!TypeOK
<1> QED BY <1>1, <1>2, CountStep, OwnTypesInvariant, QueueInvariant, PTL DEF Safety

\* Every frame seen is counted once more or in hand, and matches_enqueued is the
\* number of events in the channel, however the tasks interleave.
THEOREM EveryFrameAccounted == Safety => []FramesAccounted
BY CountInvariant, CountInvIsFramesAccounted, PTL

-----------------------------------------------------------------------------
(* The archive and the match channel *)

\* The writer is on a placeholder only after a failure, and has a row at most.
WriterInv == archiveErrs = FALSE => detached = FALSE /\ Len(unflushed) <= 1

LEMMA WriterStep == WriterInv /\ OwnTypes /\ [Next]_vars => WriterInv'
<1> SUFFICES ASSUME WriterInv, OwnTypes, [Next]_vars, archiveErrs' = FALSE
             PROVE  detached' = FALSE /\ Len(unflushed') <= 1
  BY DEF WriterInv
<1>l. \A e : Len(<<e>>) = 1
  OBVIOUS
<1>m. Len(<<>>) = 0
  OBVIOUS
<1>1. CASE TakeMatch
  <2>1. Archive(Head(frames))
    BY <1>1 DEF TakeMatch
  <2>2. /\ detached' \in {detached, FALSE} /\ unflushed' \in {<<Head(frames)>>, <<>>}
        /\ archiveErrs' \in {archiveErrs, TRUE}
    BY <2>1 DEF Archive
  <2>3. archiveErrs = FALSE /\ detached' = FALSE
    BY <2>2 DEF WriterInv, OwnTypes
  <2>4. Len(unflushed') <= 1
    <3>1. CASE unflushed' = <<Head(frames)>>
      BY <1>l, <3>1
    <3>2. CASE unflushed' = <<>>
      BY <1>m, <3>2
    <3> QED BY <2>2, <3>1, <3>2
  <2> QED BY <2>3, <2>4
<1>2. CASE FlushAndCancel \/ Crash
  <2>1. UNCHANGED <<detached, archiveErrs>> /\ unflushed' = <<>>
    BY <1>2 DEF FlushAndCancel, Crash
  <2> QED BY <1>m, <2>1 DEF WriterInv
<1>3. CASE UNCHANGED archiveVars
  BY <1>3 DEF archiveVars, WriterInv
<1> QED BY <1>1, <1>2, <1>3
     DEF Next, MainStep, ReadFrame, FrameSent, StopIngress, DropFrame, Enqueue, Block,
         LeaveLoop, Join, BatcherStep, SinkOk, SinkErr, Tick, outsideBatcher, CtrlC,
         Halted, vars, mainVars

\* ArchiveTracksQueue, its cases apart.
ArchiveInv ==
    alive /\ archiveErrs = FALSE =>
        /\ main = "select" => Rows = sent
        /\ main \in {"offer", "blocked"} => Rows = Append(sent, held)
        /\ Rows = sent \/ \E e \in Event : Rows = Append(sent, e)

LEMMA ArchiveInvIsTracking == OwnTypes /\ ArchiveInv => ArchiveTracksQueue
<1> SUFFICES ASSUME OwnTypes, ArchiveInv, alive, ~archiveErrs
             PROVE  CASE main = "select" -> Rows = sent
                      [] main \in {"offer", "blocked"} -> Rows = Append(sent, held)
                      [] OTHER -> Rows = sent \/ \E e \in Event : Rows = Append(sent, e)
  BY DEF ArchiveTracksQueue
<1>1. archiveErrs = FALSE
  BY DEF OwnTypes
<1>2. CASE main = "select"
  BY <1>1, <1>2 DEF ArchiveInv
<1>3. CASE main \in {"offer", "blocked"}
  BY <1>1, <1>3 DEF ArchiveInv
<1>4. CASE main # "select" /\ main \notin {"offer", "blocked"}
  BY <1>1, <1>4 DEF ArchiveInv
<1> QED BY <1>2, <1>3, <1>4

\* A write that does not fail adds its row after the others, wherever they are.
LEMMA RowAppended ==
    ASSUME OwnTypes, WriterInv, NEW e \in Event, Archive(e), archiveErrs' = FALSE
    PROVE  /\ archiveErrs = FALSE /\ Rows' = Append(Rows, e)
           /\ written' = Rows \/ written' = Append(Rows, e)
<1>1. Rows \in Seq(Event) /\ Append(Rows, e) \in Seq(Event)
  BY RowsType, Pushed
<1>2. /\ detached' \in {detached, FALSE}
      /\ \/ /\ written' = Flushed /\ unflushed' = <<e>>
            /\ archiveErrs' \in {archiveErrs, TRUE}
         \/ /\ written' = IF detached' THEN Flushed ELSE Append(Flushed, e)
            /\ unflushed' = <<>>
            /\ UNCHANGED archiveErrs
  BY DEF Archive
<1>3. archiveErrs = FALSE
  BY <1>2 DEF OwnTypes
<1>4. Flushed = Rows /\ detached' = FALSE
  BY <1>2, <1>3 DEF WriterInv, Flushed
<1>5. CASE written' = Flushed /\ unflushed' = <<e>>
  <2>1. Rows \o <<e>> = Append(Rows, e)
    BY <1>1, AppendIsConcat
  <2>2. Rows' = Rows \o <<e>>
    BY <1>4, <1>5 DEF Rows
  <2> QED BY <1>3, <1>4, <1>5, <2>1, <2>2
<1>6. CASE written' = (IF detached' THEN Flushed ELSE Append(Flushed, e)) /\ unflushed' = <<>>
  <2>1. Append(Rows, e) \o <<>> = Append(Rows, e)
    BY <1>1, ConcatEmptySeq
  <2>2. written' = Append(Rows, e)
    BY <1>4, <1>6
  <2>3. Rows' = Append(Rows, e) \o <<>>
    BY <1>6, <2>2 DEF Rows
  <2> QED BY <1>3, <2>1, <2>2, <2>3
<1> QED BY <1>2, <1>5, <1>6

LEMMA ArchiveStep == OwnTypes /\ WriterInv /\ ArchiveInv /\ [Next]_vars => ArchiveInv'
<1> SUFFICES ASSUME OwnTypes, WriterInv, ArchiveInv, [Next]_vars,
                    alive', archiveErrs' = FALSE
             PROVE  /\ main' = "select" => Rows' = sent'
                    /\ main' \in {"offer", "blocked"} => Rows' = Append(sent', held')
                    /\ Rows' = sent' \/ \E e \in Event : Rows' = Append(sent', e)
  BY DEF ArchiveInv
<1>1. CASE UNCHANGED <<main, held, unflushed, written, archiveErrs, sent, alive>>
  BY <1>1 DEF ArchiveInv, Rows
<1>2. CASE DropFrame
  BY <1>2 DEF DropFrame, ArchiveInv, Rows, queueVars, archiveVars
<1>3. CASE TakeMatch
  <2>1. Head(frames) \in Event /\ Archive(Head(frames))
    BY <1>3 DEF TakeMatch
  <2>2. archiveErrs = FALSE /\ Rows' = Append(Rows, Head(frames))
    BY <2>1, RowAppended
  <2>3. /\ alive /\ main = "select" /\ main' = "offer" /\ held' = Head(frames)
        /\ sent' = sent
    BY <1>3 DEF TakeMatch, queueVars
  <2>4. Rows = sent
    BY <2>2, <2>3 DEF ArchiveInv
  <2> QED BY <2>1, <2>2, <2>3, <2>4
<1>4. CASE Enqueue
  <2>1. alive /\ main \in {"offer", "blocked"} /\ main' = "select"
    BY <1>4 DEF Enqueue
  <2>2. sent' = Append(sent, held) /\ Rows' = Rows /\ archiveErrs = FALSE
    BY <1>4 DEF Enqueue, B!Send, Rows, archiveVars
  <2> QED BY <2>1, <2>2 DEF ArchiveInv
<1>5. CASE Block
  <2>1. /\ alive /\ main = "offer" /\ main' = "blocked" /\ held' = held
        /\ sent' = sent /\ Rows' = Rows /\ archiveErrs = FALSE
    BY <1>5 DEF Block, queueVars, Rows, archiveVars
  <2> QED BY <2>1 DEF ArchiveInv
<1>6. CASE LeaveLoop
  <2>1. /\ alive /\ main' = "closing" /\ sent' = sent /\ Rows' = Rows
        /\ archiveErrs = FALSE
    BY <1>6 DEF LeaveLoop, B!CloseSender, Rows, archiveVars
  <2> QED BY <2>1 DEF ArchiveInv
<1>7. CASE FlushAndCancel
  <2>1. alive /\ main' = "joining" /\ sent' = sent
    BY <1>7 DEF FlushAndCancel, queueVars
  <2>2. written' = Rows /\ unflushed' = <<>> /\ archiveErrs = FALSE
    BY <1>7 DEF FlushAndCancel, Flushed, WriterInv
  <2>3. Rows \o <<>> = Rows
    BY RowsType, ConcatEmptySeq
  <2>4. Rows' = Rows
    BY <2>2, <2>3 DEF Rows
  <2> QED BY <2>1, <2>2, <2>4 DEF ArchiveInv
<1>8. CASE Join
  <2>1. /\ alive /\ main' = "exited" /\ sent' = sent /\ Rows' = Rows
        /\ archiveErrs = FALSE
    BY <1>8 DEF Join, queueVars, Rows, archiveVars
  <2> QED BY <2>1 DEF ArchiveInv
<1>9. ~Crash
  BY DEF Crash
<1> QED
  BY <1>1, <1>2, <1>3, <1>4, <1>5, <1>6, <1>7, <1>8, <1>9, SentKept
     DEF Next, MainStep, ReadFrame, FrameSent, StopIngress, BatcherStep, SinkOk,
         SinkErr, Tick, outsideBatcher, CtrlC, Halted, vars, mainVars, archiveVars, queueVars

LEMMA ArchiveInvariant == Safety => [](WriterInv /\ ArchiveInv)
<1>1. Init => WriterInv /\ ArchiveInv
  <2>1. Len(<<>>) = 0
    OBVIOUS
  <2> QED BY <2>1 DEF Init, B!Init, WriterInv, ArchiveInv, Rows
<1> QED BY <1>1, WriterStep, ArchiveStep, OwnTypesInvariant, PTL DEF Safety

\* Until an archive write fails, the rows are the matches enqueued, in order,
\* with at most the one match that is in hand or was dropped on the way out.
THEOREM ArchiveTracks == Safety => []ArchiveTracksQueue
BY ArchiveInvariant, ArchiveInvIsTracking, OwnTypesInvariant, PTL

\* The matches before the last one of s are in file.
LEMMA AllButLast ==
    ASSUME NEW s \in Seq(Event), NEW file \in Seq(Event), NEW rest \in Seq(Event),
           Len(rest) <= 1, s = file \o rest
    PROVE  \A i \in 1..(Len(s) - 1) : i <= Len(file) /\ file[i] = s[i]
<1>1. /\ Len(s) = Len(file) + Len(rest) /\ Len(file) \in Nat /\ Len(rest) \in Nat
      /\ \A i \in 1..Len(file) : s[i] = file[i]
  BY ConcatProperties, LenProperties
<1>2. \A a, b \in Nat : b <= 1 => \A i \in 1..(a + b - 1) : i \in 1..a /\ i <= a
  OBVIOUS
<1> QED BY <1>1, <1>2

\* What is in the file stays there, whatever is flushed after it.
LEMMA StillThere ==
    ASSUME NEW s \in Seq(Event), NEW file \in Seq(Event), NEW more \in Seq(Event),
           \A i \in 1..(Len(s) - 1) : i <= Len(file) /\ file[i] = s[i]
    PROVE  \A i \in 1..(Len(s) - 1) : i <= Len(file \o more) /\ (file \o more)[i] = s[i]
<1>1. /\ Len(file \o more) = Len(file) + Len(more)
      /\ Len(file) \in Nat /\ Len(more) \in Nat /\ Len(s) \in Nat
      /\ \A i \in 1..Len(file) : (file \o more)[i] = file[i]
  BY ConcatProperties, LenProperties
<1>2. \A a, b, i \in Nat : i <= a => i <= a + b
  OBVIOUS
<1>3. \A i \in 1..(Len(s) - 1) : i \in Nat /\ i \in 1..Len(file)
  BY <1>1
<1> QED BY <1>1, <1>2, <1>3

LEMMA FileStep ==
    OwnTypes /\ WriterInv /\ WriterInv' /\ ArchiveInv /\ sent \in Seq(Event) /\ CrashCostsLastMatch
      /\ [Next]_vars => CrashCostsLastMatch'
<1> SUFFICES ASSUME OwnTypes, WriterInv, WriterInv', ArchiveInv, sent \in Seq(Event),
                    CrashCostsLastMatch, [Next]_vars, archiveErrs' = FALSE
             PROVE  \A i \in 1..(Len(sent') - 1) : i <= Len(written') /\ written'[i] = sent'[i]
  BY DEF CrashCostsLastMatch, Next, MainStep, ReadFrame, FrameSent, StopIngress, DropFrame,
         TakeMatch, Archive, Enqueue, Block, LeaveLoop, FlushAndCancel, Join, BatcherStep,
         SinkOk, SinkErr, Tick, outsideBatcher, CtrlC, Crash, Halted, vars, mainVars, archiveVars,
         OwnTypes
<1>1. Rows \in Seq(Event) /\ written \in Seq(Event) /\ unflushed \in Seq(Event) /\ <<>> \in Seq(Event)
  BY RowsType DEF OwnTypes
<1>2. CASE TakeMatch
  <2>1. Head(frames) \in Event /\ Archive(Head(frames)) /\ alive /\ main = "select" /\ sent' = sent
    BY <1>2 DEF TakeMatch, queueVars
  <2>2. archiveErrs = FALSE /\ (written' = Rows \/ written' = Append(Rows, Head(frames)))
    BY <2>1, RowAppended
  <2>3. Rows = sent
    BY <2>1, <2>2 DEF ArchiveInv
  <2>4. PICK more \in Seq(Event) : written' = sent \o more
    <3>1. CASE written' = Rows
      BY <1>1, <2>3, <3>1, ConcatEmptySeq
    <3>2. CASE written' = Append(Rows, Head(frames))
      <4>1. <<Head(frames)>> \in Seq(Event) /\ Append(Rows, Head(frames)) = Rows \o <<Head(frames)>>
        BY <1>1, <2>1, AppendIsConcat
      <4> QED BY <2>3, <3>2, <4>1
    <3> QED BY <2>2, <3>1, <3>2
  <2>5. \A i \in 1..(Len(sent) - 1) : i <= Len(sent) /\ sent[i] = sent[i]
    BY LenProperties
  <2> QED BY <2>1, <2>4, <2>5, StillThere
<1>3. CASE Enqueue
  <2>1. /\ alive /\ main \in {"offer", "blocked"} /\ UNCHANGED <<written, unflushed, archiveErrs>>
        /\ sent' = Append(sent, held)
    BY <1>3 DEF Enqueue, B!Send, archiveVars
  <2>2. sent' = written \o unflushed /\ Len(unflushed) <= 1
    BY <2>1 DEF ArchiveInv, WriterInv, Rows
  <2>3. sent' \in Seq(Event)
    BY <1>1, <2>2 DEF Rows
  <2> QED BY <1>1, <2>1, <2>2, <2>3, AllButLast
<1>4. CASE FlushAndCancel
  <2>1. written' = written \o unflushed /\ sent' = sent /\ archiveErrs = FALSE
    BY <1>4 DEF FlushAndCancel, Flushed, WriterInv, Rows, queueVars
  <2> QED BY <1>1, <2>1, StillThere DEF CrashCostsLastMatch
<1>5. CASE UNCHANGED <<written, archiveErrs, sent>>
  BY <1>5 DEF CrashCostsLastMatch
<1>6. LeaveLoop => UNCHANGED <<written, archiveErrs, sent>>
  BY DEF LeaveLoop, B!CloseSender, archiveVars
<1> QED
  BY <1>2, <1>3, <1>4, <1>5, <1>6, SentKept
     DEF Next, MainStep, ReadFrame, FrameSent, StopIngress, DropFrame, Block, Join, BatcherStep,
         SinkOk, SinkErr, Tick, outsideBatcher, CtrlC, Crash, Halted, vars, mainVars, archiveVars,
         queueVars

\* Until an archive write fails, what was put into the match channel is in a file,
\* but for the last match: neither a crash nor the shutdown loses another.
THEOREM CrashCostsLittle == Safety => []CrashCostsLastMatch
<1>1. Init => CrashCostsLastMatch
  <2> SUFFICES ASSUME Init, NEW i \in 1..(Len(sent) - 1) PROVE FALSE
    BY DEF CrashCostsLastMatch
  <2>1. sent = <<>> /\ Len(<<>>) = 0
    BY DEF Init, B!Init
  <2> QED BY <2>1
<1>2. QueueInv => sent \in Seq(Event)
  BY DEF QueueInv, B!TypeOK
<1> QED BY <1>1, <1>2, FileStep, ArchiveInvariant, OwnTypesInvariant, QueueInvariant, PTL DEF Safety

-----------------------------------------------------------------------------
(* The exit *)

\* The main task has awaited the batcher, which has returned.
ExitInv == main = "exited" => pc = "ended"

LEMMA ExitStep == ExitInv /\ [Next]_vars => ExitInv'
<1> SUFFICES ASSUME ExitInv, [Next]_vars PROVE ExitInv'
  OBVIOUS
<1> USE DEF ExitInv
<1>1. CASE BatcherStep \/ SinkOk \/ SinkErr \/ Tick
  <2>1. UNCHANGED main
    BY <1>1 DEF BatcherStep, SinkOk, SinkErr, Tick, outsideBatcher, mainVars, archiveVars
  <2>2. pc # "ended"
    BY <1>1 DEF BatcherStep, B!BatcherStep, B!Receive, B!ReceiveTooLarge,
                B!ReceiveClosed, B!Deadline, B!DeadlineDue, B!Retry, SinkOk, B!SinkOk,
                SinkErr, B!SinkErr, Tick, B!Tick
  <2> QED BY <2>1, <2>2
<1>2. CASE Join
  BY <1>2 DEF Join, queueVars
<1>3. CASE DropFrame \/ TakeMatch \/ Enqueue \/ Block \/ LeaveLoop \/ FlushAndCancel
  BY <1>3 DEF DropFrame, TakeMatch, Enqueue, Block, LeaveLoop, FlushAndCancel
<1>4. CASE UNCHANGED <<main, pc>>
  BY <1>4
<1> QED
  BY <1>1, <1>2, <1>3, <1>4
     DEF Next, MainStep, ReadFrame, FrameSent, StopIngress, CtrlC, Crash, Halted, vars,
         mainVars, archiveVars, queueVars

\* A batcher that has ended has a result.
EndedInv == pc = "ended" => result # "running"

LEMMA EndedInvariant == Safety => []EndedInv
<1>1. Init => EndedInv
  BY DEF Init, B!Init, EndedInv
<1>2. EndedInv /\ [B!Next]_B!vars => EndedInv'
  <2> SUFFICES ASSUME EndedInv, [B!Next]_B!vars PROVE EndedInv'
    OBVIOUS
  <2> USE DEF EndedInv
  <2>1. CASE B!Receive
    BY <2>1 DEF B!Receive, B!StartSend
  <2>2. CASE B!ReceiveTooLarge \/ B!ReceiveClosed
    BY <2>2 DEF B!ReceiveTooLarge, B!ReceiveClosed, B!End, B!StartSend
  <2>3. CASE B!Deadline
    BY <2>3 DEF B!Deadline, B!StartSend
  <2>4. CASE B!SinkOk
    BY <2>4 DEF B!SinkOk, B!StartSend, B!Resume, B!End
  <2>5. CASE B!SinkErr \/ B!Retry \/ B!Tick
    BY <2>5 DEF B!SinkErr, B!Retry, B!Tick
  <2>6. CASE UNCHANGED <<pc, result>>
    BY <2>6
  <2> QED
    BY <2>1, <2>2, <2>3, <2>4, <2>5, <2>6
       DEF B!Next, B!Send, B!CloseSender, B!Terminated, B!vars, B!batcherVars
<1> QED BY <1>1, <1>2, BatcherImplemented, PTL DEF Safety, ImplementsBatcher, B!Safety

\* The process exits only when all it enqueued was acknowledged, or the batcher
\* met an event over the budget.
THEOREM ExitDrains == Safety => []ExitAfterDrain
<1>1. Init => ExitInv
  BY DEF Init, ExitInv
<1>2. Safety => []ExitInv
  BY <1>1, ExitStep, PTL DEF Safety
<1>3. ExitInv /\ EndedInv /\ QueueInv /\ CountInv => ExitAfterDrain
  BY DEF ExitInv, EndedInv, QueueInv, CountInv, ExitAfterDrain, B!TypeOK, B!OkMeansDrained
<1> QED BY <1>2, <1>3, EndedInvariant, QueueInvariant, CountInvariant, PTL

=============================================================================
