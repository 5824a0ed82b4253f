----------------------------- MODULE AlertFeed -----------------------------
(***************************************************************************)
(* What the novelty sink promises about first-seen coalitions.  The first  *)
(* time a coalition is seen it is either announced or silenced, for good:  *)
(* an announced coalition is a captured fact, a silenced one never becomes *)
(* one.  The alert file repeats announcements: it names a coalition only   *)
(* after the fact is captured, and never twice.                            *)
(***************************************************************************)
EXTENDS FiniteSets

CONSTANT Coalition

VARIABLES
    facts,      \* coalitions announced: captured facts
    silenced,   \* coalitions seen first when they could not be announced
    published   \* coalitions the alert file names

vars == <<facts, silenced, published>>

Init ==
    /\ facts = {}
    /\ silenced = {}
    /\ published = {}

Announce(c) ==
    /\ c \notin facts \cup silenced
    /\ facts' = facts \cup {c}
    /\ UNCHANGED <<silenced, published>>

Silence(c) ==
    /\ c \notin facts \cup silenced
    /\ silenced' = silenced \cup {c}
    /\ UNCHANGED <<facts, published>>

\* Facts not yet in the file reach it, several at once when an earlier write
\* had been held back.
Publish ==
    /\ \E C \in SUBSET (facts \ published) : published' = published \cup C
    /\ UNCHANGED <<facts, silenced>>

Next ==
    \/ \E c \in Coalition : Announce(c)
    \/ \E c \in Coalition : Silence(c)
    \/ Publish

Spec == Init /\ [][Next]_vars

=============================================================================
