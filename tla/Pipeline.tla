------------------------------ MODULE Pipeline ------------------------------
(***************************************************************************)
(* run_pipeline_with_archive (src/pipeline.rs): the ingress task feeds a   *)
(* bounded frame channel; the main task parses and filters each frame,     *)
(* archives a match and puts it into the bounded match channel, applying   *)
(* backpressure when that is full; the batcher task (module Batcher)       *)
(* drains the match channel into the sink.  Ctrl-C cancels a token every   *)
(* task watches; a crash of the process may come at any point.             *)
(*                                                                         *)
(* The research archive is configured, as under EGRESS=novelty.  A frame   *)
(* is what parsing and filtering make of it: a match event, or one of      *)
(* three kinds that carry none.  The WebSocket session is abstracted to    *)
(* the frames it hands over; the archive to its rows, in the BufWriter, in *)
(* a file or in neither: module Archive has the files and their rotation.  *)
(***************************************************************************)
EXTENDS Integers, Sequences

CONSTANTS
    Event, Size, MaxMessages, MaxBytes, FlushInterval, ChannelCapacity,
    Dropped,    \* the kinds of frames that carry no match, each named for the
                \*   counter it is dropped under
    NoEvent,    \* nothing held
    MaxFrames   \* bound of the model: frames received

ASSUME PipelineAssumption ==
    /\ Dropped \subseteq {"ignored", "malformed", "suppressed"}
    /\ Dropped \cap Event = {}
    /\ NoEvent \notin Event
    /\ Size \in [Event -> Nat]
    /\ MaxMessages \in Nat \ {0} /\ MaxBytes \in Nat
    /\ FlushInterval \in Nat \ {0}
    /\ ChannelCapacity \in Nat \ {0}
    /\ MaxFrames \in Nat

VARIABLES
    chan, txOpen, buffer, batchAge, pc, loop, n, result, sent, delivered, ages

queueVars == <<chan, txOpen, buffer, batchAge, pc, loop, n, result, sent, delivered, ages>>

B == INSTANCE Batcher WITH MaxSent <- MaxFrames

VARIABLES
    frames,      \* the frame channel, oldest first
    ingress,     \* ingress task: "reading", "sending" (frame_tx.send), "stopped"
    carried,     \* the frame a "sending" ingress waits to hand over
    arrived,     \* frames read from the WebSocket so far
    shutdown,    \* the cancellation token is cancelled
    main,        \* main task: "select", "offer" (try_send), "blocked" (send),
                 \*   "closing" (loop left), "joining", "exited"
    held,        \* the match event in hand, or NoEvent
    unflushed,   \* archive rows in the BufWriter
    written,     \* archive rows in the live file or a chunk sealed from it
    detached,    \* the BufWriter is on an unlinked placeholder
    archiveErrs, \* record_enqueued or the last flush has failed
    metrics,     \* the frame counters of PipelineMetrics
    alive        \* the process has not crashed

ingressVars == <<ingress, carried, arrived>>
archiveVars == <<unflushed, written, detached, archiveErrs>>
mainVars == <<main, held, archiveVars, metrics>>
vars == <<queueVars, frames, ingressVars, shutdown, mainVars, alive>>

Frame == Event \cup Dropped
Counter == {"seen", "ignored", "malformed", "suppressed", "enqueued", "full"}

Rows == written \o unflushed

Count(c) == metrics' = [metrics EXCEPT ![c] = @ + 1]

Init ==
    /\ B!Init
    /\ frames = <<>>
    /\ ingress = "reading" /\ carried = NoEvent /\ arrived = 0
    /\ shutdown = FALSE
    /\ main = "select" /\ held = NoEvent
    /\ unflushed = <<>> /\ written = <<>>
    /\ detached = FALSE /\ archiveErrs = FALSE
    /\ metrics = [c \in Counter |-> 0]
    /\ alive = TRUE

-----------------------------------------------------------------------------
(* Ingress *)

\* A frame is read and handed to the frame channel; without a free slot the
\* task waits in frame_tx.send.
ReadFrame(f) ==
    /\ alive
    /\ ingress = "reading"
    /\ arrived < MaxFrames
    /\ arrived' = arrived + 1
    /\ IF Len(frames) < ChannelCapacity
          THEN frames' = Append(frames, f) /\ UNCHANGED <<ingress, carried>>
          ELSE ingress' = "sending" /\ carried' = f /\ UNCHANGED frames
    /\ UNCHANGED <<queueVars, shutdown, mainVars, alive>>

FrameSent ==
    /\ alive
    /\ ingress = "sending"
    /\ Len(frames) < ChannelCapacity
    /\ frames' = Append(frames, carried)
    /\ ingress' = "reading"
    /\ carried' = NoEvent
    /\ UNCHANGED <<queueVars, arrived, shutdown, mainVars, alive>>

\* Mutant of StopIngress: shutdown is noticed between frames only.
StopIngressBetweenFrames ==
    /\ alive
    /\ shutdown
    /\ ingress = "reading"
    /\ ingress' = "stopped"
    /\ carried' = NoEvent
    /\ UNCHANGED <<queueVars, frames, arrived, shutdown, mainVars, alive>>

\* The select around drain_connection drops the session at any of its awaits,
\* a pending frame_tx.send with the frame it carries included.
StopIngress ==
    /\ alive
    /\ shutdown
    /\ ingress # "stopped"
    /\ ingress' = "stopped"
    /\ carried' = NoEvent
    /\ UNCHANGED <<queueVars, frames, arrived, shutdown, mainVars, alive>>

-----------------------------------------------------------------------------
(* The main task *)

\* Mutant of Archive: the writer is replaced with a row still in it.
ArchiveReplacesWriter(e) ==
    /\ unflushed' = <<e>>
    /\ UNCHANGED <<written, detached, archiveErrs>>

\* Mutant of Archive: rows gather in the BufWriter.
ArchiveUnflushed(e) ==
    /\ unflushed' = Append(unflushed, e)
    /\ UNCHANGED <<written, detached, archiveErrs>>

\* What a flush leaves behind: an unlinked file has no reader.
Flushed == IF detached THEN written ELSE Rows

\* record_enqueued flushes the earlier rows, rotates a full file, and writes
\* the row to the BufWriter, which may spill at once.  The caller only warns.
Archive(e) ==
    \* The flush fails.
    \/ archiveErrs' = TRUE /\ UNCHANGED <<unflushed, written, detached>>
    \* The rotation fails, before or after the writer went to the placeholder,
    \* or the write does.
    \/ /\ written' = Flushed /\ unflushed' = <<>>
       /\ detached' \in BOOLEAN
       /\ archiveErrs' = TRUE
    \* The row is written, to a file that a rotation may have opened; flushing
    \* it, when that is due, may fail.
    \/ /\ detached' \in {detached, FALSE}
       /\ \/ /\ written' = Flushed /\ unflushed' = <<e>>
             /\ archiveErrs' \in {archiveErrs, TRUE}
          \/ /\ written' = IF detached' THEN Flushed ELSE Append(Flushed, e)
             /\ unflushed' = <<>>
             /\ UNCHANGED archiveErrs

\* A frame that carries no match is counted and forgotten.
DropFrame ==
    /\ alive
    /\ main = "select"
    /\ frames # <<>>
    /\ Head(frames) \in Dropped
    /\ frames' = Tail(frames)
    /\ metrics' = [metrics EXCEPT !["seen"] = @ + 1, ![Head(frames)] = @ + 1]
    /\ UNCHANGED <<queueVars, ingressVars, shutdown, main, held, archiveVars, alive>>

\* A match is archived before it is offered to the channel.
TakeMatch ==
    /\ alive
    /\ main = "select"
    /\ frames # <<>>
    /\ Head(frames) \in Event
    /\ frames' = Tail(frames)
    /\ held' = Head(frames)
    /\ main' = "offer"
    /\ Archive(Head(frames))
    /\ Count("seen")
    /\ UNCHANGED <<queueVars, ingressVars, shutdown, alive>>

\* Mutant of Enqueue: only a try_send is counted.
EnqueueCountedOnce ==
    /\ alive
    /\ main \in {"offer", "blocked"}
    /\ B!Send(held)
    /\ main' = "select"
    /\ held' = NoEvent
    /\ IF main = "offer" THEN Count("enqueued") ELSE UNCHANGED metrics
    /\ UNCHANGED <<frames, ingressVars, shutdown, archiveVars, alive>>

\* Mutant of Enqueue: the send does not wait for a free slot.
EnqueueUnbounded ==
    /\ alive
    /\ main \in {"offer", "blocked"}
    /\ chan' = Append(chan, held)
    /\ sent' = Append(sent, held)
    /\ main' = "select"
    /\ held' = NoEvent
    /\ Count("enqueued")
    /\ UNCHANGED <<txOpen, buffer, batchAge, pc, loop, n, result, delivered, ages,
                   frames, ingressVars, shutdown, archiveVars, alive>>

\* try_send, or the send that waits out a full channel, succeeds.
Enqueue ==
    /\ alive
    /\ main \in {"offer", "blocked"}
    /\ B!Send(held)
    /\ main' = "select"
    /\ held' = NoEvent
    /\ Count("enqueued")
    /\ UNCHANGED <<frames, ingressVars, shutdown, archiveVars, alive>>

\* try_send finds the channel full: apply backpressure.
Block ==
    /\ alive
    /\ main = "offer"
    /\ result = "running"
    /\ Len(chan) >= ChannelCapacity
    /\ main' = "blocked"
    /\ Count("full")
    /\ UNCHANGED <<queueVars, frames, ingressVars, shutdown, held, archiveVars, alive>>

\* Mutant of LoopEnds: a blocked send misses the death of the batcher.
LoopEndsUnlessBlocked ==
    \/ main = "select" /\ shutdown
    \/ main = "select" /\ ingress = "stopped" /\ frames = <<>>
    \/ main = "offer" /\ result # "running"
    \/ main = "blocked" /\ shutdown

\* The loop is left on shutdown, on the end of the frame channel, or with a
\* match in hand: when the batcher has gone or shutdown interrupts a blocked
\* send.
LoopEnds ==
    \/ main = "select" /\ shutdown
    \/ main = "select" /\ ingress = "stopped" /\ frames = <<>>
    \/ main \in {"offer", "blocked"} /\ result # "running"
    \/ main = "blocked" /\ shutdown

\* Leaving drops the event in hand and the sender of the match channel.
LeaveLoop ==
    /\ alive
    /\ LoopEnds
    /\ B!CloseSender
    /\ main' = "closing"
    /\ held' = NoEvent
    /\ UNCHANGED <<frames, ingressVars, shutdown, archiveVars, metrics, alive>>

\* arch.flush, whose error is ignored, and the cancellation of every task.
FlushAndCancel ==
    /\ alive
    /\ main = "closing"
    /\ \/ written' = Flushed /\ unflushed' = <<>> /\ UNCHANGED archiveErrs
       \/ archiveErrs' = TRUE /\ UNCHANGED <<written, unflushed>>
    /\ shutdown' = TRUE
    /\ main' = "joining"
    /\ UNCHANGED <<queueVars, frames, ingressVars, held, detached, metrics, alive>>

\* Mutant of Join: the batcher is not awaited.
JoinIngressOnly ==
    /\ alive
    /\ main = "joining"
    /\ ingress = "stopped"
    /\ main' = "exited"
    /\ UNCHANGED <<queueVars, frames, ingressVars, shutdown, held, archiveVars, metrics, alive>>

\* The ingress and batcher tasks are awaited.
Join ==
    /\ alive
    /\ main = "joining"
    /\ ingress = "stopped"
    /\ pc = "ended"
    /\ main' = "exited"
    /\ UNCHANGED <<queueVars, frames, ingressVars, shutdown, held, archiveVars, metrics, alive>>

-----------------------------------------------------------------------------
CtrlC ==
    /\ alive
    /\ ~shutdown
    /\ main # "exited"
    /\ shutdown' = TRUE
    /\ UNCHANGED <<queueVars, frames, ingressVars, mainVars, alive>>

\* The process dies: what it had not handed to the kernel is gone.
Crash ==
    /\ alive
    /\ main # "exited"
    /\ alive' = FALSE
    /\ unflushed' = <<>>
    /\ UNCHANGED <<queueVars, frames, ingressVars, shutdown, main, held,
                   written, detached, archiveErrs, metrics>>

Halted ==
    /\ main = "exited" \/ ~alive
    /\ UNCHANGED vars

\* Mutant of MainStep: a blocked send is not woken by a free slot.
MainStepUnwoken ==
    \/ DropFrame
    \/ TakeMatch
    \/ main = "offer" /\ Enqueue
    \/ Block
    \/ LeaveLoop
    \/ FlushAndCancel
    \/ Join

MainStep ==
    \/ DropFrame
    \/ TakeMatch
    \/ Enqueue
    \/ Block
    \/ LeaveLoop
    \/ FlushAndCancel
    \/ Join

outsideBatcher == <<frames, ingressVars, shutdown, mainVars, alive>>

BatcherStep == alive /\ B!BatcherStep /\ UNCHANGED outsideBatcher
SinkOk == alive /\ B!SinkOk /\ UNCHANGED outsideBatcher
SinkErr == alive /\ B!SinkErr /\ UNCHANGED outsideBatcher
Tick == alive /\ B!Tick /\ UNCHANGED outsideBatcher

Next ==
    \/ \E f \in Frame : ReadFrame(f)
    \/ FrameSent
    \/ StopIngress
    \/ MainStep
    \/ BatcherStep
    \/ SinkOk
    \/ SinkErr
    \/ Tick
    \/ CtrlC
    \/ Crash
    \/ Halted

\* Every task is polled while it is ready and the clock runs; a sink retried
\* for ever eventually accepts.  Nothing makes frames arrive, Ctrl-C be
\* pressed or the process crash.
Fairness ==
    /\ WF_vars(FrameSent)
    /\ WF_vars(StopIngress)
    /\ WF_vars(MainStep)
    /\ WF_vars(BatcherStep)
    /\ WF_vars(Tick)
    /\ SF_vars(SinkOk)

Safety == Init /\ [][Next]_vars

Spec == Safety /\ Fairness

-----------------------------------------------------------------------------
(* Properties *)

\* Every variable has its type.
TypeOK ==
    /\ B!TypeOK
    /\ frames \in Seq(Frame)
    /\ Len(frames) <= ChannelCapacity
    /\ ingress \in {"reading", "sending", "stopped"}
    /\ carried \in Frame \cup {NoEvent}
    /\ arrived \in 0..MaxFrames
    /\ shutdown \in BOOLEAN
    /\ main \in {"select", "offer", "blocked", "closing", "joining", "exited"}
    /\ held \in Event \cup {NoEvent}
    /\ unflushed \in Seq(Event)
    /\ written \in Seq(Event)
    /\ detached \in BOOLEAN
    /\ archiveErrs \in BOOLEAN
    /\ metrics \in [Counter -> Nat]
    /\ alive \in BOOLEAN

\* Every frame counted as seen is counted once more as what became of it, or
\* is the match in hand; only a match dropped on the way out of the loop is
\* counted nowhere.  matches_enqueued is the number of events in the channel.
FramesAccounted ==
    LET accounted == metrics["ignored"] + metrics["malformed"]
                     + metrics["suppressed"] + metrics["enqueued"]
    IN  /\ metrics["enqueued"] = Len(sent)
        /\ metrics["seen"] - accounted \in
               CASE main = "select" -> {0}
                 [] main \in {"offer", "blocked"} -> {1}
                 [] OTHER -> {0, 1}

\* While no archive write has failed, the rows are the matches enqueued, in
\* order, plus at most the one match in hand or dropped on the way out.
ArchiveTracksQueue ==
    alive /\ ~archiveErrs =>
        CASE main = "select" -> Rows = sent
          [] main \in {"offer", "blocked"} -> Rows = Append(sent, held)
          [] OTHER -> Rows = sent \/ \E e \in Event : Rows = Append(sent, e)

\* While nothing of the archive has failed, every match that was put into the
\* channel, and may have been delivered, is in a file, but for the last: a crash
\* at any point of any task costs the archive no other.
CrashCostsLastMatch ==
    ~archiveErrs =>
        \A i \in 1..(Len(sent) - 1) : i <= Len(written) /\ written[i] = sent[i]

\* The process exits only after the batcher has flushed: every match that was
\* enqueued before Ctrl-C has been acknowledged by the sink, unless an
\* oversize event killed the batcher first.
ExitAfterDrain ==
    main = "exited" /\ result # "too_large" => metrics["enqueued"] = Len(delivered)

\* The batcher composed with the main task still is the Batcher module: the
\* main task is a producer it allows, and closes the channel once.
ImplementsBatcher == B!Safety

\* Ctrl-C, or the death of the batcher, leads to the exit of the process even
\* when both channels are full and the sink is failing, given a sink that
\* eventually accepts.
ShutdownCompletes == shutdown ~> (main = "exited" \/ ~alive)

\* Backpressure is temporary: a match that waits for a slot is enqueued, or
\* the pipeline is shutting down.
BackpressureResolves == main = "blocked" ~> (main # "blocked" \/ ~alive)

\* An oversize event takes the process down as soon as a later match meets
\* the closed channel: the main loop never outlives that meeting.
DeadBatcherEndsLoop ==
    (main \in {"offer", "blocked"} /\ result # "running")
        ~> (main = "exited" \/ ~alive)
=============================================================================
