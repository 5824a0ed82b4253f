------------------------------ MODULE MCFrames ------------------------------
(* Frames on small frames, files and suffix lists. *)
EXTENDS Frames

\* y.com, like kobe.jp, is no entry of the list but has one below it.
MCIcann == {<<"com">>, <<"x", "y", "com">>}
MCPrivate == {<<"s3", "hub", "com">>, <<"pages", "com">>}

MCLines == {<<"a", "com">>, <<"www", "a", "com">>, <<"*", "b", "com">>, <<"com">>,
            <<"hub", "com", "">>, <<"s3", "hub", "com">>, <<"pages", "com">>,
            <<"x", "pages", "com">>, <<"y", "com">>}

Sans == {<<"a", "com">>, <<"*", "a", "com", "">>, <<"xa", "com">>, <<"b", "com", "org">>,
         <<"c", "s3", "hub", "com">>, <<"pages", "com">>, <<"z", "x", "y", "com">>,
         <<"", "">>, <<"not a string">>}

Good == [json |-> "object", type |-> "certificate_update", data |-> "object",
         leaf |-> "object", domains |-> "array", items |-> <<>>]

\* Every list of up to two SANs, a few of four, and every field gone wrong.
MCFrames ==
    {[Good EXCEPT !.items = s] : s \in UNION {[1..n -> Sans] : n \in 0..2}}
    \cup {[Good EXCEPT !.items = <<<<"xa", "com">>, d, <<"xa", "com">>, e>>] : d, e \in Sans}
    \cup {[Good EXCEPT !.items = <<<<"a", "com">>>>, !.json = v] : v \in {"other", "invalid"}}
    \cup {[Good EXCEPT !.items = <<<<"a", "com">>>>, !.type = "heartbeat", !.data = v] :
            v \in {"object", "other"}}
    \cup {[Good EXCEPT !.data = v] : v \in {"absent", "null", "other"}}
    \cup {[Good EXCEPT !.leaf = v] : v \in {"absent", "null", "other"}}
    \cup {[Good EXCEPT !.domains = v] : v \in {"absent", "null", "other"}}
=============================================================================
