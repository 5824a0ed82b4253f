------------------------------ MODULE Ingress ------------------------------
(***************************************************************************)
(* run_ingress_with_metrics and drain_connection (src/ingress.rs): one     *)
(* task connects, reads frames into the bounded frame channel, pings the   *)
(* server, and reconnects with a doubling, jittered delay.  Sending a      *)
(* frame happens inside the arm of the select that read it: while the      *)
(* channel is full, the task neither pings nor reads.                      *)
(*                                                                         *)
(* Time is counted in ticks; work the task is ready to do takes no time.   *)
(* The server (external) closes a session without a ping for ServerIdle    *)
(* ticks, as the comment at src/ingress.rs:15 says.  A link may also die   *)
(* without a word: only a failing ping write tells, and in the handshake,  *)
(* which has neither pings nor a timeout, nothing does.                    *)
(***************************************************************************)
EXTENDS Integers

CONSTANTS
    Initial, MaxDelay,  \* ReconnectPolicy.initial and max, in ticks
    PingInterval,       \* ReconnectPolicy.ping_interval; 0 disables pings
    ServerIdle,         \* the server's idle limit
    ChannelCapacity,    \* of the frame channel
    MaxStall,           \* ticks the main task may leave a full channel alone
    MaxFaults           \* bound of the model: closed or dead links, refused
                        \*   connections and stalled handshakes

ASSUME IngressAssumption ==
    /\ Initial \in Nat \ {0} /\ MaxDelay \in Nat /\ Initial <= MaxDelay
    /\ PingInterval \in Nat /\ ServerIdle \in Nat \ {0}
    /\ ChannelCapacity \in Nat \ {0} /\ MaxStall \in Nat /\ MaxFaults \in Nat

VARIABLES
    pc,         \* "connecting", "select", "sending", "backoff" or "stopped"
    link,       \* the session: "none", a handshake gone "silent", "live",
                \*   "closed" by the server, "dropped" by it as idle, or "dead"
    delay,      \* the next reconnect's delay before jitter
    sleep_for,  \* ticks left of the backoff
    pingDue,    \* ticks to the next tick of the ping interval
    sincePing,  \* ticks since the server last heard a ping
    frames,     \* frames in the channel
    stall,      \* ticks the channel has been full
    waited,     \* time has passed in a send since the last ping
    faults,
    shutdown, frameClosed  \* the token is cancelled; the receiver is gone

timers == <<pingDue, sincePing, waited>>
chanVars == <<frames, stall, frameClosed>>
backoffVars == <<delay, sleep_for>>
vars == <<pc, link, timers, chanVars, backoffVars, faults, shutdown>>

TypeOK ==
    /\ pc \in {"connecting", "select", "sending", "backoff", "stopped"}
    /\ link \in {"none", "silent", "live", "closed", "dropped", "dead"}
    /\ (pc \in {"select", "sending"}) <=> (link \notin {"none", "silent"})
    /\ link = "silent" => pc = "connecting"
    /\ delay \in Initial..MaxDelay /\ sleep_for \in 0..MaxDelay
    /\ pingDue \in 0..PingInterval /\ sincePing \in 0..ServerIdle
    /\ frames \in 0..ChannelCapacity /\ stall \in 0..MaxStall
    /\ faults \in 0..MaxFaults /\ waited \in BOOLEAN
    /\ shutdown \in BOOLEAN /\ frameClosed \in BOOLEAN

Least(a, b) == IF a < b THEN a ELSE b

next_backoff(current) == Least(current * 2, MaxDelay)

\* Mutant of with_jitter: the span starts at zero.
with_full_jitter(current) == 0..current

\* Any delay between half of current and current; one tick or less is kept.
with_jitter(current) ==
    IF current <= 1 THEN {current}
    ELSE {pick + current \div 2 : pick \in 0..(current - current \div 2)}

Init ==
    /\ pc = "connecting" /\ link = "none"
    /\ delay = Initial /\ sleep_for = 0
    /\ pingDue = 0 /\ sincePing = 0 /\ waited = FALSE
    /\ frames = 0 /\ stall = 0 /\ frameClosed = FALSE
    /\ faults = 0 /\ shutdown = FALSE

\* drain_connection has returned: count, and sleep for the jittered delay.
SessionEnds ==
    /\ link' = "none"
    /\ IF frameClosed
          THEN pc' = "stopped" /\ UNCHANGED backoffVars
          ELSE /\ pc' = "backoff"
               /\ sleep_for' \in with_jitter(delay)
               /\ UNCHANGED delay
    /\ pingDue' = 0 /\ sincePing' = 0 /\ waited' = FALSE

Fault == faults < MaxFaults /\ faults' = faults + 1

-----------------------------------------------------------------------------
(* The task *)

\* connect_async; the immediate first tick of the interval is consumed.  A
\* silent server may yet answer.
Connect ==
    /\ pc = "connecting"
    /\ pc' = "select" /\ link' = "live"
    /\ pingDue' = PingInterval /\ sincePing' = 0 /\ waited' = FALSE
    /\ UNCHANGED <<chanVars, backoffVars, faults, shutdown>>

ConnectFails ==
    /\ pc = "connecting"
    /\ Fault \/ (link = "silent" /\ UNCHANGED faults)
    /\ SessionEnds
    /\ UNCHANGED <<chanVars, shutdown>>

\* A text or binary frame; without a free slot the arm waits in send.
ReadFrame ==
    /\ pc = "select" /\ link = "live" /\ ~frameClosed
    /\ IF frames < ChannelCapacity
          THEN frames' = frames + 1 /\ UNCHANGED pc
          ELSE pc' = "sending" /\ UNCHANGED frames
    /\ UNCHANGED <<link, timers, stall, frameClosed, backoffVars, faults, shutdown>>

FrameSent ==
    /\ pc = "sending" /\ frames < ChannelCapacity /\ ~frameClosed
    /\ frames' = frames + 1
    /\ pc' = "select"
    /\ UNCHANGED <<link, timers, stall, frameClosed, backoffVars, faults, shutdown>>

\* A send into a closed channel fails, and the task ends.
SendFails ==
    /\ pc = "sending" \/ (pc = "select" /\ link = "live")
    /\ frameClosed
    /\ SessionEnds
    /\ UNCHANGED <<chanVars, faults, shutdown>>

PingReady == PingInterval > 0 /\ pingDue = 0

\* Mutant of SendPing: a ping that comes late is skipped to the next interval.
SendPingTwice ==
    /\ pc = "select" /\ PingReady
    /\ pingDue' = 2 * PingInterval /\ waited' = FALSE
    /\ sincePing' = IF link = "live" THEN 0 ELSE sincePing
    /\ UNCHANGED <<pc, link, chanVars, backoffVars, faults, shutdown>>

\* A late tick delays the next one (MissedTickBehavior::Delay).  A ping into a
\* dead link goes to the kernel's buffer.
SendPing ==
    /\ pc = "select" /\ PingReady
    /\ pingDue' = PingInterval /\ waited' = FALSE
    /\ sincePing' = IF link = "live" THEN 0 ELSE sincePing
    /\ UNCHANGED <<pc, link, chanVars, backoffVars, faults, shutdown>>

\* Mutant of PingFails: a failed ping is only logged.
PingFailureIgnored ==
    /\ pc = "select" /\ PingReady /\ link = "dead"
    /\ pingDue' = PingInterval
    /\ UNCHANGED <<pc, link, sincePing, waited, chanVars, backoffVars, faults,
                   shutdown>>

\* TCP has given up on the dead link.
PingFails ==
    /\ pc = "select" /\ PingReady /\ link = "dead"
    /\ SessionEnds
    /\ UNCHANGED <<chanVars, faults, shutdown>>

\* Close, end of stream or an error, seen when the task reads again.
ReadEnd ==
    /\ pc = "select" /\ link \in {"closed", "dropped"}
    /\ SessionEnds
    /\ UNCHANGED <<chanVars, faults, shutdown>>

\* The delay doubles whatever became of the session.
WakeUp ==
    /\ pc = "backoff" /\ sleep_for = 0
    /\ delay' = next_backoff(delay)
    /\ pc' = IF frameClosed THEN "stopped" ELSE "connecting"
    /\ UNCHANGED <<link, timers, chanVars, sleep_for, faults, shutdown>>

\* Every await of the task is under a select on the token.
Stop ==
    /\ shutdown /\ pc # "stopped"
    /\ pc' = "stopped" /\ link' = "none"
    /\ pingDue' = 0 /\ sincePing' = 0 /\ waited' = FALSE
    /\ UNCHANGED <<chanVars, backoffVars, faults, shutdown>>

-----------------------------------------------------------------------------
(* The server, the network, the main task and time *)

ServerCloses ==
    /\ link = "live" /\ Fault
    /\ link' = "closed"
    /\ UNCHANGED <<pc, timers, chanVars, backoffVars, shutdown>>

\* The server accepts the connection and never finishes the handshake.
HandshakeStalls ==
    /\ pc = "connecting" /\ link = "none" /\ Fault
    /\ link' = "silent"
    /\ UNCHANGED <<pc, timers, chanVars, backoffVars, shutdown>>

LinkDies ==
    /\ link = "live" /\ Fault
    /\ link' = "dead"
    /\ UNCHANGED <<pc, timers, chanVars, backoffVars, shutdown>>

IdleDrop ==
    /\ link = "live" /\ sincePing = ServerIdle /\ Fault
    /\ link' = "dropped"
    /\ UNCHANGED <<pc, timers, chanVars, backoffVars, shutdown>>

TakeFrame ==
    /\ frames > 0 /\ ~frameClosed
    /\ frames' = frames - 1 /\ stall' = 0
    /\ UNCHANGED <<pc, link, timers, frameClosed, backoffVars, faults,
                   shutdown>>

Cancel ==
    /\ ~shutdown
    /\ shutdown' = TRUE
    /\ UNCHANGED <<pc, link, timers, chanVars, backoffVars, faults>>

\* The main task ends on its own (its batcher is gone) and drops the receiver.
DropReceiver ==
    /\ ~frameClosed
    /\ frameClosed' = TRUE
    /\ UNCHANGED <<pc, link, timers, frames, stall, backoffVars, faults,
                   shutdown>>

Down(n) == IF n = 0 THEN 0 ELSE n - 1

\* Time passes when nobody has something to do at once.
Tick ==
    LET full == frames = ChannelCapacity /\ ~frameClosed IN
    /\ pc # "stopped"
    /\ ~(pc = "select" /\ (PingReady \/ link \in {"closed", "dropped"}))
    /\ ~(pc = "sending" /\ (frames < ChannelCapacity \/ frameClosed))
    /\ ~shutdown
    /\ ~(pc = "backoff" /\ sleep_for = 0)
    /\ full => stall < MaxStall
    /\ stall' = IF full THEN stall + 1 ELSE 0
    /\ pingDue' = Down(pingDue) /\ sleep_for' = Down(sleep_for)
    /\ waited' = (waited \/ pc = "sending")
    /\ sincePing' = IF link = "live" THEN Least(sincePing + 1, ServerIdle) ELSE 0
    /\ UNCHANGED <<pc, link, frames, frameClosed, delay, faults, shutdown>>

\* The task has returned.
Ended == pc = "stopped" /\ UNCHANGED vars

Next ==
    \/ Connect \/ ConnectFails \/ ReadFrame \/ FrameSent \/ SendFails
    \/ SendPing \/ PingFails \/ ReadEnd \/ WakeUp \/ Stop
    \/ ServerCloses \/ HandshakeStalls \/ LinkDies \/ IdleDrop \/ TakeFrame \/ Cancel \/ DropReceiver
    \/ Tick \/ Ended

Spec == Init /\ [][Next]_vars

\* The runtime polls the task and the main task takes frames; a server that has
\* not gone silent answers; select picks a ready arm at random, so a ready ping
\* is not passed over for ever; TCP does not accept writes into a dead link for
\* ever.
FairSpec ==
    /\ Spec
    /\ WF_vars(Tick) /\ WF_vars(WakeUp) /\ WF_vars(Stop)
    /\ WF_vars(link = "none" /\ Connect)
    /\ WF_vars(FrameSent) /\ WF_vars(SendFails)
    /\ SF_vars(TakeFrame) /\ SF_vars(ReadEnd)
    /\ SF_vars(SendPing \/ PingFails) /\ SF_vars(PingFails)

-----------------------------------------------------------------------------
(* Properties *)

\* No two connection attempts are closer than half the delay the policy asks
\* for, nor further apart than its maximum.
SleepWithinPolicy ==
    [][pc' = "backoff" /\ pc # "backoff" =>
         2 * sleep_for' >= delay - 1 /\ sleep_for' \in 1..MaxDelay]_vars

\* README.md:148, "Ingress sends WebSocket pings every 30s so self-hosted
\* certstream-server-go does not idle-drop the client": it does so only if the
\* task has waited for a slot of the frame channel since its last ping.
IdleDropMeansWaited ==
    [][link # "dropped" /\ link' = "dropped" /\ PingInterval \in 1..(ServerIdle - 1)
         => waited]_vars

\* Whatever the server and the network do a bounded number of times, there is a
\* live session again, a link that died silently included, if pings are enabled;
\* but a server that falls silent in the handshake holds the task until it
\* speaks or the task is stopped, for connect_async has no timeout.
SessionRestored ==
    PingInterval > 0 =>
        []<>(link = "live" \/ pc = "stopped") \/ <>[](link = "silent")
=============================================================================
