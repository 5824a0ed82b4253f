----------------------------- MODULE MCPipeline -----------------------------
EXTENDS Pipeline

CONSTANTS small, large, oversize

MCEvent == {small, large}
MCEventOversize == {small, oversize}

\* Byte budget 2: two smalls or one large.
MCSize ==
    [e \in Event |-> CASE e = small -> 1 [] e = large -> 2 [] OTHER -> 3]
=============================================================================
