----------------------------- MODULE MCNovelty -----------------------------
EXTENDS Novelty

CONSTANTS a, b, c, h1, h2

MCBrand == {a, b, c}
MCHost == {h1, h2}

\* An event is named for the brands it carries; packedAB is a mega-SAN cert.
MCEvent == {"pairAB", "tripleABC", "soloA", "packedAB"}

MCKeywords ==
    [e \in Event |-> CASE e \in {"pairAB", "packedAB"} -> {a, b}
                       [] e = "tripleABC" -> {a, b, c}
                       [] e = "soloA" -> {a}]

MCHosts == [e \in Event |-> IF e = "soloA" THEN {h1, h2} ELSE {h1}]

MCMegaSan == {"packedAB"}
MCRoutine == {<<a, h2>>}
=============================================================================
