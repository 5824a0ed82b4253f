------------------------------ MODULE Delivery ------------------------------
(***************************************************************************)
(* What the match channel and the batcher promise together, with neither   *)
(* a channel nor a buffer in sight: events are accepted one at a time and  *)
(* acknowledged by the sink in the order they were accepted, in batches,   *)
(* none skipped and none acknowledged twice.  The queue may end in two     *)
(* ways only: "ok", once everything accepted has been acknowledged, or     *)
(* "too_large", the one error that gives the backlog up.                   *)
(***************************************************************************)
EXTENDS Naturals, Sequences

CONSTANT Event

VARIABLES
    accepted,   \* every event that entered the queue, oldest first
    delivered,  \* every event the sink has acknowledged, oldest first
    result      \* "running", or how the queue ended

vars == <<accepted, delivered, result>>

Init ==
    /\ accepted = <<>>
    /\ delivered = <<>>
    /\ result = "running"

Accept(e) ==
    /\ result = "running"
    /\ accepted' = Append(accepted, e)
    /\ UNCHANGED <<delivered, result>>

\* The next m events are acknowledged together; the acknowledgement that
\* empties a closed queue also ends it.
Deliver ==
    /\ result = "running"
    /\ \E m \in 1..(Len(accepted) - Len(delivered)) :
          delivered' = SubSeq(accepted, 1, Len(delivered) + m)
    /\ result' \in {"running", "ok"}
    /\ result' = "ok" => delivered' = accepted
    /\ UNCHANGED accepted

Finish ==
    /\ result = "running"
    /\ delivered = accepted
    /\ result' = "ok"
    /\ UNCHANGED <<accepted, delivered>>

GiveUp ==
    /\ result = "running"
    /\ result' = "too_large"
    /\ UNCHANGED <<accepted, delivered>>

Next ==
    \/ \E e \in Event : Accept(e)
    \/ Deliver
    \/ Finish
    \/ GiveUp

\* Whatever is waiting is eventually acknowledged, unless the queue gives up.
Fairness == WF_vars(Deliver)

Safety == Init /\ [][Next]_vars

Spec == Safety /\ Fairness

=============================================================================
