----------------------------- MODULE MCBatcher -----------------------------
EXTENDS Batcher

CONSTANTS small, medium, large, oversize

MCEvent == {small, medium, large, oversize}

\* Byte budget 4: two smalls and a medium fill it, large fills it alone.
MCSize ==
    [e \in Event |-> CASE e = small -> 1
                       [] e = medium -> 2
                       [] e = large -> 4
                       [] OTHER -> 5]
=============================================================================
