------------------------------- MODULE Startup -------------------------------
(***************************************************************************)
(* From the environment to a running process: Config::from_env and validate*)
(* (src/config.rs), the lenient readers of the other modules               *)
(* (novelty_alert.rs, alerts_file.rs, archive.rs), the checks of main      *)
(* (src/main.rs) and of NoveltySink::open (src/novelty_sink.rs).  Any start*)
(* may be refused half-way; the supervisor starts the process again and    *)
(* operators change the environment, or lose the volume, in between.       *)
(*                                                                         *)
(* A raw value is Unset, Bad, a word, or a number.  The numbers of the     *)
(* settings keep their order and the limits they are held against; those of*)
(* the thresholds are the code's own.  The file sizes, which decide nothing*)
(* here, are left out.                                                     *)
(***************************************************************************)
EXTENDS Integers

CONSTANTS
    Unset, Bad, \* raw values: no such key, and one that does not parse
    MaxBatch,   \* BATCH_MAX_MESSAGES
    FullList,   \* DEFAULT_PROD_WATCHLIST_MIN_LEN
    MaxStarts   \* bound of the model

ASSUME StartupAssumption ==
    /\ MaxBatch \in Nat \ {0} /\ FullList \in Nat \ {0}
    /\ MaxStarts \in Nat \ {0} /\ {Unset, Bad} \cap Nat = {}

VARIABLES
    env,      \* the environment: key -> raw value
    list,     \* the length of WATCHLIST_FILE
    pc,       \* how far main has come; "refused" when it returned an error
    dbExists, \* NOVELTY_DB is on the volume
    starts

vars == <<env, list, pc, dbExists, starts>>

Number == 0..(MaxBatch + 1)
Numeric == {Unset, Bad} \cup Number

\* config.rs refuses the first kind when they do not parse ...
Strict == {"CHANNEL_CAPACITY", "BATCH_MAX_MESSAGES", "FLUSH_INTERVAL_SECS",
           "RECONNECT_DELAY_MS", "RECONNECT_MAX_DELAY_MS", "PROGRESS_INTERVAL_SECS",
           "WATCHLIST_MIN_LEN", "WATCHLIST_RELOAD_SECS"}
\* ... the others fall back to the default.
Threshold == {"NOVELTY_MAX_COALITION", "NOVELTY_MAX_SANS", "NOVELTY_MAX_PARTNER_DEGREE",
              "NOVELTY_MAX_BRAND_DF", "NOVELTY_CALIBRATE_SECS", "NOVELTY_CALIBRATE_EVENTS"}
Switch == {"NOVELTY_REQUIRE_DB", "NOVELTY_SKIP_ROUTINE"}
Path == {"CERTSTREAM_URL", "NOVELTY_DB", "NOVELTY_ALERTS", "NOVELTY_CANDIDATES"}
Optional == {"ARCHIVE_DIR", "STATUS_BIND"}
Key == Strict \cup Threshold \cup Switch \cup Path \cup Optional
       \cup {"EGRESS", "NOVELTY_TIERS"}

Raw(k) ==
    CASE k \in Strict -> Numeric
      [] k \in Threshold -> {Unset, Bad, 0, 5, 25, 32}
      [] k \in Switch -> {Unset, "on", "off"}
      [] k \in Path -> {Unset, "blank", "set"}
      [] k \in Optional -> {Unset, "off", "set"}
      [] k = "EGRESS" -> {Unset, "stdout", "novelty", Bad}
      [] k = "NOVELTY_TIERS" -> {Unset, "A", "B", "AB", "C"}

Default(k) ==
    CASE k = "WATCHLIST_MIN_LEN" -> IF env["EGRESS"] = "novelty" THEN FullList ELSE 0
      [] k = "WATCHLIST_RELOAD_SECS" -> 0
      [] OTHER -> 1

\* parse_usize_env, parse_u64_env and the parsers like them.
Value(e, k) == IF e[k] \in Number THEN e[k] ELSE Default(k)
Enabled(k, default) == IF env[k] = Unset THEN default ELSE env[k] = "on"

Novelty == env["EGRESS"] = "novelty"
ArchiveOn == env["ARCHIVE_DIR"] = "set" \/ (env["ARCHIVE_DIR"] = Unset /\ Novelty)
StatusOn == env["STATUS_BIND"] # "off"

TypeOK ==
    /\ \A k \in Key : env[k] \in Raw(k)
    /\ list \in Nat
    /\ pc \in {"env", "watchlist", "archive", "status", "sink", "db", "alerts",
               "running", "refused"}
    /\ dbExists \in BOOLEAN /\ starts \in 0..MaxStarts
    /\ Novelty /\ pc = "running" => dbExists

\* The environments that differ from an empty one in EGRESS and another key, or
\* in two keys that are held against one another or against the volume.
Related == {"RECONNECT_DELAY_MS", "RECONNECT_MAX_DELAY_MS", "WATCHLIST_MIN_LEN",
            "NOVELTY_REQUIRE_DB"}
NearDefault(mode) ==
    LET empty == [[k \in Key |-> Unset] EXCEPT !["EGRESS"] = mode]
        set(a, b) == {[empty EXCEPT ![a] = x, ![b] = y] : x \in Raw(a), y \in Raw(b)}
    IN  (UNION {set(a, a) : a \in Key}) \cup (UNION {set(a, b) : a, b \in Related})

Init ==
    /\ env \in NearDefault("novelty") \cup NearDefault(Unset)
    /\ list \in {0, FullList} /\ dbExists \in BOOLEAN
    /\ pc = "env" /\ starts = 1

-----------------------------------------------------------------------------
(* from_env and validate *)

validate ==
    /\ env["CERTSTREAM_URL"] # "blank"
    /\ Novelty => env["NOVELTY_DB"] # "blank" /\ env["NOVELTY_ALERTS"] # "blank"
    /\ Value(env, "CHANNEL_CAPACITY") > 0
    /\ Value(env, "BATCH_MAX_MESSAGES") \in 1..MaxBatch
    /\ Value(env, "FLUSH_INTERVAL_SECS") > 0
    /\ Value(env, "RECONNECT_DELAY_MS") > 0
    /\ Value(env, "RECONNECT_MAX_DELAY_MS") >= Value(env, "RECONNECT_DELAY_MS")
    /\ Value(env, "PROGRESS_INTERVAL_SECS") > 0

Parses == env["EGRESS"] # Bad /\ \A k \in Strict : env[k] # Bad

FromEnv ==
    /\ pc = "env"
    /\ pc' = IF Parses /\ validate THEN "watchlist" ELSE "refused"
    /\ UNCHANGED <<env, list, dbExists, starts>>

\* The defaults of the thresholds where the policy is made, ...
PolicyDefault ==
    [NOVELTY_MAX_COALITION |-> 5, NOVELTY_MAX_SANS |-> 32,
     NOVELTY_MAX_PARTNER_DEGREE |-> 25, NOVELTY_MAX_BRAND_DF |-> 25,
     NOVELTY_CALIBRATE_SECS |-> 0, NOVELTY_CALIBRATE_EVENTS |-> 0]

\* Mutant of HashDefault: a default is changed in one of the two places.
HashDefaultDrift ==
    [NOVELTY_MAX_COALITION |-> 5, NOVELTY_MAX_SANS |-> 25,
     NOVELTY_MAX_PARTNER_DEGREE |-> 25, NOVELTY_MAX_BRAND_DF |-> 25,
     NOVELTY_CALIBRATE_SECS |-> 0, NOVELTY_CALIBRATE_EVENTS |-> 0]

\* ... and, written down a second time, where it is hashed.
HashDefault ==
    [NOVELTY_MAX_COALITION |-> 5, NOVELTY_MAX_SANS |-> 32,
     NOVELTY_MAX_PARTNER_DEGREE |-> 25, NOVELTY_MAX_BRAND_DF |-> 25,
     NOVELTY_CALIBRATE_SECS |-> 0, NOVELTY_CALIBRATE_EVENTS |-> 0]

\* A threshold that does not parse is as good as none.
Limit(e, k) == IF e[k] \in {Unset, Bad} THEN PolicyDefault[k] ELSE e[k]

\* A learning feed, which NoveltySink::open opens for a path that is not blank.
emit_candidates(e) == e["NOVELTY_CANDIDATES"] = "set"

\* NoveltyPolicy::from_tiers, the switch main sets after it and the one that
\* NoveltySink::open sets.
Policy(e) ==
    [skip_routine |-> e["NOVELTY_SKIP_ROUTINE"] # "off",
     emit_candidates |-> emit_candidates(e),
     tiers |-> IF e["NOVELTY_TIERS"] \in {Unset, "C"} THEN "A" ELSE e["NOVELTY_TIERS"],
     thresholds |-> [k \in Threshold |-> Limit(e, k)]]

\* What write_config_snapshot hashes besides the files: the raw values.
ConfigHash(e) ==
    [tiers |-> IF e["NOVELTY_TIERS"] = Unset THEN "A" ELSE e["NOVELTY_TIERS"],
     thresholds |-> [k \in Threshold |-> IF e[k] = Unset THEN HashDefault[k] ELSE e[k]]]

-----------------------------------------------------------------------------
(* main and NoveltySink::open *)

Refuse == pc' = "refused"

LoadWatchlist ==
    /\ pc = "watchlist"
    /\ IF Novelty /\ list < Value(env, "WATCHLIST_MIN_LEN")
          THEN Refuse ELSE pc' = "archive" \/ Refuse
    /\ UNCHANGED <<env, list, dbExists, starts>>

OpenArchive ==
    /\ pc = "archive"
    /\ pc' = "status" \/ (ArchiveOn /\ Refuse)
    /\ UNCHANGED <<env, list, dbExists, starts>>

BindStatus ==
    /\ pc = "status"
    /\ pc' = (IF Novelty THEN "sink" ELSE "running") \/ (StatusOn /\ Refuse)
    /\ UNCHANGED <<env, list, dbExists, starts>>

\* Mutant of RequireDb: the check is left to the opening of the database.
RequireDbLater ==
    /\ pc = "sink"
    /\ pc' = "db"
    /\ UNCHANGED <<env, list, dbExists, starts>>

\* NOVELTY_REQUIRE_DB is checked before anything is created; the directories
\* and the ignore files come next.
RequireDb ==
    /\ pc = "sink"
    /\ IF Enabled("NOVELTY_REQUIRE_DB", FALSE) /\ ~dbExists
          THEN Refuse ELSE pc' = "db" \/ Refuse
    /\ UNCHANGED <<env, list, dbExists, starts>>

\* Connection::open creates the file; the schema or the migration may fail.
OpenDb ==
    /\ pc = "db"
    /\ dbExists' = TRUE
    /\ pc' = "alerts" \/ Refuse
    /\ UNCHANGED <<env, list, starts>>

OpenAlerts ==
    /\ pc = "alerts"
    /\ pc' = "running" \/ Refuse
    /\ UNCHANGED <<env, list, dbExists, starts>>

\* The supervisor, after the operator has perhaps changed a key.
Restart ==
    /\ pc \in {"running", "refused"} /\ starts < MaxStarts
    /\ starts' = starts + 1
    /\ pc' = "env"
    /\ \/ UNCHANGED <<env, dbExists>>
       \/ \E on \in {"on", "off"} :
            env' = [env EXCEPT !["NOVELTY_REQUIRE_DB"] = on] /\ UNCHANGED dbExists
       \/ dbExists' = FALSE /\ UNCHANGED env
    /\ UNCHANGED list

\* The bound on starts is reached.
Rest == pc \in {"running", "refused"} /\ starts = MaxStarts /\ UNCHANGED vars

Next ==
    \/ FromEnv \/ LoadWatchlist \/ OpenArchive \/ BindStatus
    \/ RequireDb \/ OpenDb \/ OpenAlerts \/ Restart \/ Rest

Spec == Init /\ [][Next]_vars

-----------------------------------------------------------------------------
(* Properties *)

\* docs/SIGNAL.md:284, "refuse start if DB missing": no start with
\* NOVELTY_REQUIRE_DB on makes a database, not even one that is refused later.
RequireDbCreatesNothing ==
    [][~dbExists /\ dbExists' => ~Enabled("NOVELTY_REQUIRE_DB", FALSE)]_vars

\* The environments of a config_hash have one policy, but for the two switches
\* the hash leaves out: no threshold or tier is parsed, or defaulted, in a way
\* that the hash of the raw values does not show.
Unhashed == {"NOVELTY_SKIP_ROUTINE", "NOVELTY_CANDIDATES"}
HashCoversThresholds ==
    \A k \in Key \ Unhashed : \A r \in Raw(k) :
        LET other == [env EXCEPT ![k] = r] IN
        ConfigHash(other) = ConfigHash(env) => Policy(other) = Policy(env)
=============================================================================
