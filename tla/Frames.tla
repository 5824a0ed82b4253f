------------------------------- MODULE Frames -------------------------------
(***************************************************************************)
(* What becomes of one CertStream frame before it is queued: parsing       *)
(* (src/parse.rs), the match against the watchlist (src/watchlist.rs) and  *)
(* the domains its archive row keeps (src/archive.rs).  Each step is a     *)
(* function of its input, held against a definition of what it should be.  *)
(*                                                                         *)
(* A host is its labels: s3.hub.com is <<"s3", "hub", "com">>, a leading or*)
(* trailing dot an empty label; case and blanks at either end are gone.    *)
(* The public suffix list (the crate addr, external) is a constant.        *)
(***************************************************************************)
EXTENDS Integers, Sequences, FiniteSets, Functions

CONSTANTS
    Frames,      \* the frames: [json, type, data, leaf, domains, items]
    Lines,       \* the lines watchlist and suppress files may hold
    MaxLines,    \* bound of the model: lines of a file
    Icann, Private, \* the public suffixes, by section
    Cap          \* ARCHIVE_MAX_ALL_DOMAINS

Host == Seq(STRING)

ASSUME FramesAssumption ==
    /\ Frames \subseteq [json : STRING, type : STRING, data : STRING, leaf : STRING,
                         domains : STRING, items : Seq(Host)]
    /\ Lines \subseteq Host /\ Cap \in Nat /\ MaxLines \in Nat

VARIABLES frame, watch, ignore, stage, parsed, outcome, row
frameVars == <<frame, watch, ignore, stage, parsed, outcome, row>>

None == <<>>

-----------------------------------------------------------------------------
(* Hosts *)

\* Trailing dots go, then one leading "*.".
normalize_host(raw) ==
    LET full == {i \in DOMAIN raw : raw[i] # ""}
        host == SubSeq(raw, 1, IF full = {} THEN 0 ELSE CHOOSE i \in full : \A j \in full : j <= i)
    IN  IF Len(host) > 1 /\ host[1] = "*" THEN Tail(host) ELSE host

Suffix(host, i) == SubSeq(host, i, Len(host))

\* Mutant of host_suffixes: the parents only.
host_parents(host) == {Suffix(host, i) : i \in 2..Len(host)}

host_suffixes(host) == {Suffix(host, i) : i \in 1..Len(host)}

\* addr::parse_domain_name: a name's public suffix, the last label if unlisted.
PublicSuffix(host) ==
    LET listed == {i \in DOMAIN host : Suffix(host, i) \in Icann \cup Private} IN
    IF listed = {} THEN Len(host) ELSE CHOOSE i \in listed : \A j \in listed : i <= j

Parses(host) == host # None /\ \A i \in DOMAIN host : host[i] \notin {"", "*"}

\* Mutant of etld1: the last two labels, whatever the list says.
etld1_two_labels(raw) ==
    LET host == normalize_host(raw) IN
    IF Parses(host) /\ Len(host) > 1 THEN Suffix(host, Len(host) - 1) ELSE None

\* The registrable domain; of the listed suffixes only a private one of three
\* labels or more.
etld1(raw) ==
    LET host == normalize_host(raw)
        i == PublicSuffix(host)
    IN  IF ~Parses(host) THEN None
        ELSE IF host \in Icann \cup Private
          THEN IF host \in Icann \/ Len(host) <= 2 THEN None ELSE host
        ELSE IF i > 1 THEN Suffix(host, i - 1) ELSE None

Names(lines) == {etld1(l) : l \in lines} \ {None}

-----------------------------------------------------------------------------
(* parse_certstream_frame *)

Malformed == [result |-> "err", domains |-> <<>>]
Ignored == [result |-> "none", domains |-> <<>>]

parse_certstream_frame(f) ==
    IF f.json # "object" THEN Malformed
    ELSE IF f.type # "certificate_update" \/ f.data \in {"absent", "null"} THEN Ignored
    ELSE IF f.data # "object" THEN Malformed
    ELSE IF f.leaf \in {"absent", "null"} THEN Ignored
    ELSE IF f.leaf # "object" THEN Malformed
    ELSE IF f.domains = "absent" THEN Ignored
    ELSE IF f.domains # "array" THEN Malformed
    ELSE IF f.items = <<>> THEN Ignored
    ELSE IF \E i \in DOMAIN f.items : f.items[i] = <<"not a string">> THEN Malformed
    ELSE [result |-> "leaf", domains |-> f.items]

-----------------------------------------------------------------------------
(* inspect_outcome *)

NoMatch == [event |-> FALSE, fully_suppressed |-> FALSE,
            matched_domains |-> <<>>, matched_keywords |-> {}, san_count |-> 0]

Implicated(domains, names) ==
    names \cap UNION {host_suffixes(normalize_host(domains[i])) : i \in DOMAIN domains}

\* The domains under one of the names, in the leaf's order.
under_any(domains, names) ==
    LET out[i \in 0..Len(domains)] ==
            IF i = 0 THEN <<>>
            ELSE IF host_suffixes(normalize_host(domains[i])) \cap names # {}
              THEN Append(out[i - 1], domains[i]) ELSE out[i - 1]
    IN  out[Len(domains)]

\* Mutant of inspect_outcome: the domains of suppressed names are kept.
inspect_keep_hits(domains, names, suppress) ==
    LET kept == Implicated(domains, names) \ suppress IN
    IF Implicated(domains, names) = {} THEN NoMatch
    ELSE IF kept = {} \/ under_any(domains, kept) = <<>>
      THEN [NoMatch EXCEPT !.fully_suppressed = TRUE]
    ELSE [event |-> TRUE, fully_suppressed |-> FALSE,
          matched_domains |-> under_any(domains, names),
          matched_keywords |-> kept, san_count |-> Len(domains)]

inspect_outcome(domains, names, suppress) ==
    LET kept == Implicated(domains, names) \ suppress IN
    IF Implicated(domains, names) = {} THEN NoMatch
    ELSE IF kept = {} \/ under_any(domains, kept) = <<>>
      THEN [NoMatch EXCEPT !.fully_suppressed = TRUE]
    ELSE [event |-> TRUE, fully_suppressed |-> FALSE,
          matched_domains |-> under_any(domains, kept),
          matched_keywords |-> kept, san_count |-> Len(domains)]

-----------------------------------------------------------------------------
(* compact_all_domains *)

AddNew(out, d) ==
    IF Len(out) < Cap /\ \A i \in DOMAIN out : out[i] # d THEN Append(out, d) ELSE out

fill(domains) ==
    LET out[i \in 0..Len(domains)] == IF i = 0 THEN <<>> ELSE AddNew(out[i - 1], domains[i])
    IN  out[Len(domains)]

\* Mutant of compact_all_domains: the leaf's order is kept.
compact_in_order(all, matched) ==
    IF Cap = 0 \/ Len(all) <= Cap THEN [domains |-> all, truncated |-> FALSE]
    ELSE [domains |-> fill(all), truncated |-> TRUE]

compact_all_domains(all, matched) ==
    IF Cap = 0 \/ Len(all) <= Cap THEN [domains |-> all, truncated |-> FALSE]
    ELSE [domains |-> fill(matched \o all), truncated |-> TRUE]

-----------------------------------------------------------------------------
(* One frame, step by step *)

Files == {lines \in SUBSET Lines : Cardinality(lines) <= MaxLines}

FrameInit ==
    /\ frame \in Frames /\ watch \in Files
    /\ ignore \in {lines \in SUBSET Lines : Cardinality(lines) <= 1}
    /\ stage = "received"
    /\ parsed = Ignored /\ outcome = NoMatch /\ row = [domains |-> <<>>, truncated |-> FALSE]

Parse ==
    /\ stage = "received"
    /\ parsed' = parse_certstream_frame(frame)
    /\ stage' = IF parsed'.result = "leaf" THEN "parsed" ELSE "dropped"
    /\ UNCHANGED <<frame, watch, ignore, outcome, row>>

Inspect ==
    /\ stage = "parsed"
    /\ outcome' = inspect_outcome(parsed.domains, Names(watch), Names(ignore))
    /\ stage' = IF outcome'.event THEN "matched" ELSE "dropped"
    /\ UNCHANGED <<frame, watch, ignore, parsed, row>>

ArchiveRow ==
    /\ stage = "matched"
    /\ row' = compact_all_domains(parsed.domains, outcome.matched_domains)
    /\ stage' = "archived"
    /\ UNCHANGED <<frame, watch, ignore, parsed, outcome>>

Done == stage \in {"dropped", "archived"} /\ UNCHANGED frameVars

FrameNext == Parse \/ Inspect \/ ArchiveRow \/ Done

FrameSpec == FrameInit /\ [][FrameNext]_frameVars

-----------------------------------------------------------------------------
(* Properties *)

\* A host is under a name when it is the name or ends in "." and the name.
Under(host, name) ==
    \E i \in 0..(Len(host) - Len(name)) :
        /\ i + Len(name) = Len(host)
        /\ \A j \in DOMAIN name : host[i + j] = name[j]

Hit(name) == \E i \in DOMAIN parsed.domains : Under(normalize_host(parsed.domains[i]), name)

\* src/watchlist.rs:46: the names an event carries are exactly those of the
\* watchlist, not suppressed, that some SAN is under; an event there is if and
\* only if there is such a name.
MatchesAreSuffixes ==
    stage \in {"matched", "archived", "dropped"} /\ parsed.result = "leaf" =>
        /\ outcome.matched_keywords = {n \in Names(watch) \ Names(ignore) : Hit(n)}
        /\ outcome.event <=> outcome.matched_keywords # {}
        /\ outcome.fully_suppressed <=>
               ~outcome.event /\ \E n \in Names(watch) : Hit(n)

\* The evidence of an event fits it: every matched domain is under a name of
\* the event, every name has a domain.
EvidenceFits ==
    outcome.event =>
        LET under(i, n) == Under(normalize_host(outcome.matched_domains[i]), n) IN
        /\ \A i \in DOMAIN outcome.matched_domains :
             \E n \in outcome.matched_keywords : under(i, n)
        /\ \A n \in outcome.matched_keywords :
             \E i \in DOMAIN outcome.matched_domains : under(i, n)

\* The public suffix list has an entry under the name that the host is under,
\* as *.kobe.jp, which lists no kobe.jp.
RegistryBelow(host, name) ==
    \E i \in DOMAIN host : /\ Suffix(host, i) \in Icann \cup Private
                           /\ Under(Suffix(host, i), name)

\* src/watchlist.rs:296: no key is a registry, or a private suffix of two
\* labels, and what a key matches is of one registrant: a certificate's name
\* under a key has that key for its registrable domain, unless the list has a
\* registry below the key, or the key itself for a private suffix.
OneRegistrantPerKey ==
    \A n \in Names(watch) :
        /\ n \notin Icann /\ (n \in Private => Len(n) > 2)
        /\ \A i \in DOMAIN parsed.domains :
             LET host == normalize_host(parsed.domains[i]) IN
             Parses(host) /\ Under(host, n) /\ ~RegistryBelow(host, n)
                => etld1(parsed.domains[i]) = n

\* src/archive.rs:186: a row never exceeds the cap, never invents a domain, and
\* leaves out a matched host only when the matched hosts alone fill it.
RowKeepsEvidence ==
    stage = "archived" =>
        LET kept == Range(row.domains)
            matched == Range(outcome.matched_domains)
        IN  /\ kept \subseteq Range(parsed.domains)
            /\ Cap > 0 => Len(row.domains) <= Cap
            /\ matched \subseteq kept \/ (kept \subseteq matched /\ Len(row.domains) = Cap)
            /\ ~row.truncated => row.domains = parsed.domains
=============================================================================
