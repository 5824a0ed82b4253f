------------------------------- MODULE Batcher -------------------------------
(***************************************************************************)
(* The egress batcher (src/batch.rs) and the bounded match channel it      *)
(* drains.  Batcher::run is one task: it waits for an event or for its     *)
(* flush deadline, buffers what it receives and sends prefixes of the      *)
(* buffer to the sink, retrying a failed send for ever.  The producer of   *)
(* the channel and the sink are the environment.                           *)
(*                                                                         *)
(* Abstracted: the length of the retry sleep (10 ms doubling to 5 s) and   *)
(* the metrics counters.  Time is counted in ticks and only up to          *)
(* FlushInterval, beyond which the code cannot tell two ages apart.        *)
(***************************************************************************)
EXTENDS Integers, Sequences

CONSTANTS
    Event,            \* match events
    Size,             \* Size[e]: serialized length of e
    MaxMessages,      \* BatchConfig.max_messages
    MaxBytes,         \* BatchConfig.max_bytes
    FlushInterval,    \* BatchConfig.flush_interval, in ticks
    ChannelCapacity,  \* capacity of the match channel
    MaxSent           \* bound of the model: events the producer may send

ASSUME BatcherAssumption ==
    /\ Size \in [Event -> Nat]
    /\ MaxMessages \in Nat \ {0}
    /\ MaxBytes \in Nat
    /\ FlushInterval \in Nat \ {0}
    /\ ChannelCapacity \in Nat \ {0}
    /\ MaxSent \in Nat

VARIABLES
    chan,       \* events in the match channel, oldest first
    txOpen,     \* the sender half has not been dropped
    buffer,     \* Batcher.buffer
    batchAge,   \* ticks since batch_started_at, or NoBatch
    pc,         \* what the task awaits: "recv", "send" (the sink),
                \*   "backoff" (the retry sleep); "ended" once run returned
    loop,       \* the loop a send belongs to: "ready" (flush_ready),
                \*   "flush" (deadline) or "final" (channel closed)
    n,          \* length of the prefix being sent, 0 outside a send
    result,     \* "running", "ok" or "too_large": what run returned
    sent,       \* history: every event put into the channel
    delivered,  \* history: every event the sink acknowledged
    ages        \* history: ages[i] is the true age of buffer[i] in ticks

batcherVars == <<buffer, batchAge, pc, loop, n, result, delivered, ages>>
vars == <<chan, txOpen, sent, batcherVars>>

NoBatch == -1  \* batch_started_at = None

-----------------------------------------------------------------------------
(* Sizing a batch *)

\* Serialized bytes of the first k events of s.
Bytes(s, k) ==
    LET sum[i \in 0..Len(s)] == IF i = 0 THEN 0 ELSE sum[i - 1] + Size[s[i]]
    IN  sum[k]

\* Mutant of Fits: the byte budget is checked per event only.
FitsUnsummed(s, k) ==
    /\ k <= MaxMessages
    /\ \A i \in 1..k : Size[s[i]] <= MaxBytes

\* The loop of prefix_len gets past its first k events: the message limit,
\* no event over the budget, and no second event that would exceed it.
Fits(s, k) ==
    /\ k <= MaxMessages
    /\ \A i \in 1..k : Size[s[i]] <= MaxBytes
    /\ k > 1 => Bytes(s, k) <= MaxBytes

\* prefix_len returns k: k events fit and one more would not.
IsPrefixLen(s, k) ==
    /\ Fits(s, k)
    /\ k < Len(s) => ~Fits(s, k + 1)

ShouldFlushNow(s) ==
    /\ s # <<>>
    /\ \/ Len(s) >= MaxMessages
       \/ Bytes(s, Len(s)) > MaxBytes /\ Fits(s, 1)

-----------------------------------------------------------------------------
Init ==
    /\ chan = <<>>
    /\ txOpen = TRUE
    /\ buffer = <<>>
    /\ batchAge = NoBatch
    /\ pc = "recv"
    /\ loop = "ready"
    /\ n = 0
    /\ result = "running"
    /\ sent = <<>>
    /\ delivered = <<>>
    /\ ages = <<>>

(* The producer: run drops the receiver when it returns, so a send needs a *)
(* running batcher as well as a free slot.                                 *)

Send(e) ==
    /\ txOpen
    /\ result = "running"
    /\ Len(chan) < ChannelCapacity
    /\ Len(sent) < MaxSent
    /\ chan' = Append(chan, e)
    /\ sent' = Append(sent, e)
    /\ UNCHANGED <<txOpen, batcherVars>>

CloseSender ==
    /\ txOpen
    /\ txOpen' = FALSE
    /\ UNCHANGED <<chan, sent, batcherVars>>

-----------------------------------------------------------------------------
(* The batcher task *)

\* send_prefix_with_retry is entered with buffer s from loop l.
StartSend(s, l) ==
    /\ pc' = "send"
    /\ loop' = l
    /\ \E k \in 0..Len(s) : IsPrefixLen(s, k) /\ n' = k

\* run returns.
End(outcome) ==
    /\ pc' = "ended"
    /\ result' = outcome
    /\ n' = 0
    /\ UNCHANGED loop

\* run goes back to its receive with buffer s.
Resume(s, age) ==
    /\ pc' = "recv"
    /\ n' = 0
    /\ batchAge' = IF s = <<>> THEN NoBatch ELSE age
    /\ UNCHANGED <<loop, result>>

\* Mutant of AgeAfterPush: every push restarts the deadline.
AgeAfterAnyPush == 0

\* The deadline starts with the first buffered event.
AgeAfterPush == IF buffer = <<>> THEN 0 ELSE batchAge

\* An event is received within budget: push it, then flush if the buffer
\* reached a limit.
Receive ==
    /\ pc = "recv"
    /\ chan # <<>>
    /\ Size[Head(chan)] <= MaxBytes
    /\ chan' = Tail(chan)
    /\ buffer' = Append(buffer, Head(chan))
    /\ ages' = Append(ages, 0)
    /\ batchAge' = AgeAfterPush
    /\ IF ShouldFlushNow(buffer')
          THEN StartSend(buffer', "ready")
          ELSE UNCHANGED <<pc, loop, n>>
    /\ UNCHANGED <<txOpen, sent, result, delivered>>

\* Mutant of ReceiveTooLarge: the backlog is given up as if it were done.
ReceiveTooLargeAsOk ==
    /\ pc = "recv"
    /\ chan # <<>>
    /\ Size[Head(chan)] > MaxBytes
    /\ End("ok")
    /\ chan' = <<>>
    /\ buffer' = <<>>
    /\ ages' = <<>>
    /\ batchAge' = NoBatch
    /\ UNCHANGED <<txOpen, sent, delivered>>

\* An event over the budget ends run with EventTooLarge: the buffer and the
\* receiver, with whatever the channel still holds, are dropped.
ReceiveTooLarge ==
    /\ pc = "recv"
    /\ chan # <<>>
    /\ Size[Head(chan)] > MaxBytes
    /\ End("too_large")
    /\ chan' = <<>>
    /\ buffer' = <<>>
    /\ ages' = <<>>
    /\ batchAge' = NoBatch
    /\ UNCHANGED <<txOpen, sent, delivered>>

\* The channel is closed and drained: flush the rest, or return.
ReceiveClosed ==
    /\ pc = "recv"
    /\ chan = <<>>
    /\ ~txOpen
    /\ IF buffer = <<>>
          THEN End("ok")
          ELSE StartSend(buffer, "final") /\ UNCHANGED result
    /\ UNCHANGED <<chan, txOpen, sent, buffer, batchAge, delivered, ages>>

\* The task waits with nothing to receive and its deadline has passed.
DeadlineDue ==
    /\ pc = "recv"
    /\ chan = <<>>
    /\ txOpen
    /\ buffer # <<>>
    /\ batchAge >= FlushInterval

\* timeout polls the channel before the timer, so an event that is ready wins.
Deadline ==
    /\ DeadlineDue
    /\ StartSend(buffer, "flush")
    /\ UNCHANGED <<chan, txOpen, sent, buffer, batchAge, result, delivered, ages>>

\* The sink acknowledged the batch: drain it, then go round the loop again,
\* resume receiving, or return.
SinkOk ==
    LET rest == SubSeq(buffer, n + 1, Len(buffer))
        again == IF loop = "ready" THEN ShouldFlushNow(rest) ELSE rest # <<>>
    IN  /\ pc = "send"
        /\ delivered' = delivered \o SubSeq(buffer, 1, n)
        /\ buffer' = rest
        /\ ages' = SubSeq(ages, n + 1, Len(ages))
        /\ IF again
              THEN StartSend(rest, loop) /\ UNCHANGED <<batchAge, result>>
              ELSE IF loop # "final"
              THEN Resume(rest, batchAge)
              ELSE End("ok") /\ UNCHANGED batchAge
        /\ UNCHANGED <<chan, txOpen, sent>>

\* Mutant of SinkErr: the batch is drained although the sink failed.
SinkErrDrains ==
    /\ pc = "send"
    /\ buffer' = SubSeq(buffer, n + 1, Len(buffer))
    /\ ages' = SubSeq(ages, n + 1, Len(ages))
    /\ Resume(buffer', batchAge)
    /\ UNCHANGED <<chan, txOpen, sent, delivered>>

\* The sink failed: the items are kept and the send is retried after a sleep.
SinkErr ==
    /\ pc = "send"
    /\ pc' = "backoff"
    /\ UNCHANGED <<chan, txOpen, sent, buffer, batchAge, loop, n, result, delivered, ages>>

Retry ==
    /\ pc = "backoff"
    /\ pc' = "send"
    /\ UNCHANGED <<chan, txOpen, sent, buffer, batchAge, loop, n, result, delivered, ages>>

-----------------------------------------------------------------------------
(* Time *)

Older(age) == IF age < FlushInterval THEN age + 1 ELSE age

\* Time passes while events are buffered, except past a deadline the idle
\* task is about to serve: a timer that is due fires.
Tick ==
    /\ pc # "ended"
    /\ buffer # <<>>
    /\ ~DeadlineDue
    /\ batchAge' = IF batchAge = NoBatch THEN NoBatch ELSE Older(batchAge)
    /\ ages' = [i \in 1..Len(ages) |-> Older(ages[i])]
    /\ UNCHANGED <<chan, txOpen, sent, buffer, pc, loop, n, result, delivered>>

Terminated ==
    /\ pc = "ended"
    /\ UNCHANGED vars

BatcherStep == Receive \/ ReceiveTooLarge \/ ReceiveClosed \/ Deadline \/ Retry

Next ==
    \/ \E e \in Event : Send(e)
    \/ CloseSender
    \/ Receive
    \/ ReceiveTooLarge
    \/ ReceiveClosed
    \/ Deadline
    \/ SinkOk
    \/ SinkErr
    \/ Retry
    \/ Tick
    \/ Terminated

\* The runtime keeps polling a ready task and the clock runs; a sink that is
\* retried for ever eventually accepts.
Fairness ==
    /\ WF_vars(BatcherStep)
    /\ WF_vars(Tick)
    /\ SF_vars(SinkOk)

Safety == Init /\ [][Next]_vars

Spec == Safety /\ Fairness

-----------------------------------------------------------------------------
(* Properties *)

\* Every variable has its type.
TypeOK ==
    /\ chan \in Seq(Event)
    /\ txOpen \in BOOLEAN
    /\ buffer \in Seq(Event)
    /\ batchAge \in 0..FlushInterval \cup {NoBatch}
    /\ pc \in {"recv", "send", "backoff", "ended"}
    /\ loop \in {"ready", "flush", "final"}
    /\ n \in 0..Len(buffer)
    /\ result \in {"running", "ok", "too_large"}
    /\ sent \in Seq(Event)
    /\ delivered \in Seq(Event)
    /\ ages \in Seq(0..FlushInterval)

\* Across failed sends, partial batches and the close of the channel, every
\* event that entered the channel is, in order, acknowledged, buffered or
\* still in the channel: send_prefix_with_retry never drops or repeats an
\* acknowledged event.  The only exception is an EventTooLarge return.
NothingLost ==
    result # "too_large" => sent = delivered \o buffer \o chan

\* A send always has a batch inside the buffer and within both limits: the
\* empty batch, which the novelty sink refuses for ever, is never sent, and
\* the EventTooLarge of send_prefix_with_retry is unreachable.
BatchWithinLimits ==
    pc \in {"send", "backoff"} =>
        /\ n \in 1..Len(buffer)
        /\ n <= MaxMessages
        /\ Bytes(buffer, n) <= MaxBytes

\* "The timer is a deadline from the first buffered item (not reset on each
\* push)": while events wait, the clock is set and never behind the age of
\* the oldest of them, so with a timer that fires when due none waits longer
\* than FlushInterval for a flush.
TimerCoversOldest ==
    pc = "recv" /\ buffer # <<>> =>
        /\ batchAge # NoBatch
        /\ ages[1] <= batchAge

\* run returns Ok only with everything delivered and nothing left behind.
OkMeansDrained ==
    result = "ok" => delivered = sent /\ buffer = <<>>

\* The batcher and its channel implement the abstract queue.
D == INSTANCE Delivery WITH accepted <- sent
ImplementsDelivery == D!Spec
=============================================================================
