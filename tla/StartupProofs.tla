---------------------------- MODULE StartupProofs ----------------------------
(***************************************************************************)
(* Proofs about modules Startup, for any limits and any number of starts,  *)
(* and Migration, for any rows and any number of crashes.                  *)
(***************************************************************************)
EXTENDS Startup, Migration, SequenceTheorems, FiniteSetTheorems, TLAPS

\* Only the environment decides.
LEMMA EnvDecides ==
    ASSUME UNCHANGED env
    PROVE  /\ Novelty' = Novelty
           /\ Enabled("NOVELTY_REQUIRE_DB", FALSE)' = Enabled("NOVELTY_REQUIRE_DB", FALSE)
BY DEF Novelty, Enabled

\* What OpenDb relies on: the database has been held against NOVELTY_REQUIRE_DB.
Checked == pc = "db" => dbExists \/ ~Enabled("NOVELTY_REQUIRE_DB", FALSE)

LEMMA CheckedStep == Checked /\ [Next]_vars => Checked'
<1> SUFFICES ASSUME Checked, [Next]_vars, pc' = "db"
             PROVE  (dbExists \/ ~Enabled("NOVELTY_REQUIRE_DB", FALSE))'
  BY DEF Checked
<1>1. CASE RequireDb
  <2>1. UNCHANGED <<env, dbExists>> /\ (dbExists \/ ~Enabled("NOVELTY_REQUIRE_DB", FALSE))
    BY <1>1 DEF RequireDb, Refuse
  <2> QED BY <2>1, EnvDecides
<1>2. CASE UNCHANGED vars
  BY <1>2, EnvDecides DEF vars, Checked
<1>3. CASE Rest
  BY <1>3, EnvDecides DEF Rest, vars, Checked
<1>4. CASE FromEnv \/ LoadWatchlist \/ OpenArchive \/ BindStatus \/ OpenDb \/ OpenAlerts \/ Restart
  BY <1>4 DEF FromEnv, LoadWatchlist, OpenArchive, BindStatus, OpenDb, OpenAlerts, Restart, Refuse
<1> QED BY <1>1, <1>2, <1>3, <1>4 DEF Next

LEMMA CheckedInvariant == Spec => []Checked
<1>1. Init => Checked
  BY DEF Init, Checked
<1> QED BY <1>1, CheckedStep, PTL DEF Spec

\* A start with NOVELTY_REQUIRE_DB on never makes a database, whatever the
\* operator changed or lost before it.
THEOREM NoDbIsMade == Spec => RequireDbCreatesNothing
<1>1. Checked /\ [Next]_vars =>
        [~dbExists /\ dbExists' => ~Enabled("NOVELTY_REQUIRE_DB", FALSE)]_vars
  BY DEF Checked, Next, FromEnv, LoadWatchlist, OpenArchive, BindStatus, RequireDb,
         OpenDb, OpenAlerts, Restart, Rest, vars
<1> QED BY <1>1, CheckedInvariant, PTL DEF Spec, RequireDbCreatesNothing

-----------------------------------------------------------------------------
(* Type correctness *)

\* Every key may be missing from the environment.
LEMMA UnsetIsRaw == \A k \in Key : Unset \in Raw(k)
<1> SUFFICES ASSUME NEW k \in Key PROVE Unset \in Raw(k)
  OBVIOUS
<1> USE DEF Strict, Threshold, Switch, Path, Optional
<1>1. CASE k \in Strict \cup Threshold
  <2>1. Raw(k) = Numeric \/ Raw(k) = {Unset, Bad, 0, 5, 25, 32}
    BY <1>1 DEF Raw
  <2> QED BY <2>1 DEF Numeric
<1>2. CASE k \in Switch
  <2>1. Raw(k) = {Unset, "on", "off"}
    BY <1>2 DEF Raw
  <2> QED BY <2>1
<1>3. CASE k \in Path
  <2>1. Raw(k) = {Unset, "blank", "set"}
    BY <1>3 DEF Raw
  <2> QED BY <2>1
<1>4. CASE k \in Optional
  <2>1. Raw(k) = {Unset, "off", "set"}
    BY <1>4 DEF Raw
  <2> QED BY <2>1
<1>5. CASE k = "EGRESS"
  <2>1. Raw(k) = {Unset, "stdout", "novelty", Bad}
    BY <1>5 DEF Raw
  <2> QED BY <2>1
<1>6. CASE k = "NOVELTY_TIERS"
  <2>1. Raw(k) = {Unset, "A", "B", "AB", "C"}
    BY <1>6 DEF Raw
  <2> QED BY <2>1
<1> QED BY <1>1, <1>2, <1>3, <1>4, <1>5, <1>6 DEF Key

\* An environment: a raw value of the right kind for every key.
Environment(e) == e = [k \in Key |-> e[k]] /\ \A k \in Key : e[k] \in Raw(k)

LEMMA KeyChanged ==
    ASSUME NEW e, Environment(e), NEW a \in Key, NEW x \in Raw(a)
    PROVE  Environment([e EXCEPT ![a] = x])
BY DEF Environment

LEMMA StartsNearDefault ==
    ASSUME NEW mode \in {"novelty", Unset}, NEW e \in NearDefault(mode)
    PROVE  Environment(e)
<1> DEFINE empty == [[k \in Key |-> Unset] EXCEPT !["EGRESS"] = mode]
           set(a, b) == {[empty EXCEPT ![a] = x, ![b] = y] : x \in Raw(a), y \in Raw(b)}
<1>1. "EGRESS" \in Key /\ Related \subseteq Key
  BY DEF Key, Related, Strict, Switch
<1>2. mode \in Raw("EGRESS")
  <2>1. Raw("EGRESS") = {Unset, "stdout", "novelty", Bad}
    BY DEF Raw, Strict, Threshold, Switch, Path, Optional
  <2> QED BY <2>1
<1>3. Environment([k \in Key |-> Unset])
  BY UnsetIsRaw DEF Environment
<1>4. Environment(empty)
  BY <1>1, <1>2, <1>3, KeyChanged
<1>5. PICK a \in Key, b \in Key : e \in set(a, b)
  <2>1. \/ e \in UNION {set(c, c) : c \in Key}
        \/ e \in UNION {set(c, d) : c, d \in Related}
    BY DEF NearDefault
  <2>2. CASE e \in UNION {set(c, c) : c \in Key}
    BY <2>2
  <2>3. CASE e \in UNION {set(c, d) : c, d \in Related}
    <3>1. PICK c \in Related, d \in Related : e \in set(c, d)
      BY <2>3
    <3> QED BY <1>1, <3>1
  <2> QED BY <2>1, <2>2, <2>3
<1>6. PICK x \in Raw(a), y \in Raw(b) : e = [empty EXCEPT ![a] = x, ![b] = y]
  BY <1>5
<1>7. Environment([empty EXCEPT ![a] = x])
  BY <1>4, KeyChanged
<1>8. Environment([[empty EXCEPT ![a] = x] EXCEPT ![b] = y])
  BY <1>7, KeyChanged
<1>9. e = [[empty EXCEPT ![a] = x] EXCEPT ![b] = y]
  BY <1>6
<1> QED BY <1>8, <1>9

\* What is left of TypeOK, and the stages that lie behind the database.
TypeInv ==
    /\ Environment(env)
    /\ list \in Nat
    /\ pc \in {"env", "watchlist", "archive", "status", "sink", "db", "alerts",
               "running", "refused"}
    /\ dbExists \in BOOLEAN /\ starts \in 0..MaxStarts
    /\ Novelty /\ pc \in {"alerts", "running"} => dbExists

LEMMA TypeStep == TypeInv /\ [Next]_vars => TypeInv'
<1> SUFFICES ASSUME TypeInv, [Next]_vars PROVE TypeInv'
  OBVIOUS
<1> USE DEF TypeInv
<1>0. ASSUME UNCHANGED <<env, list>>
      PROVE  /\ Environment(env)' /\ list' \in Nat
             /\ Novelty' = Novelty
  BY <1>0, EnvDecides DEF Environment
<1>1. CASE FromEnv \/ LoadWatchlist \/ OpenArchive \/ RequireDb
  <2>1. UNCHANGED <<env, list, dbExists, starts>>
    BY <1>1 DEF FromEnv, LoadWatchlist, OpenArchive, RequireDb
  <2>2. pc' \in {"watchlist", "archive", "status", "db", "refused"}
    BY <1>1 DEF FromEnv, LoadWatchlist, OpenArchive, RequireDb, Refuse
  <2> QED BY <1>0, <2>1, <2>2
<1>5. CASE OpenDb
  <2>1. UNCHANGED <<env, list, starts>> /\ dbExists' = TRUE /\ pc' \in {"alerts", "refused"}
    BY <1>5 DEF OpenDb, Refuse
  <2> QED BY <1>0, <2>1
<1>6. CASE OpenAlerts
  <2>1. /\ UNCHANGED <<env, list, dbExists, starts>> /\ pc' \in {"running", "refused"}
        /\ pc = "alerts"
    BY <1>6 DEF OpenAlerts, Refuse
  <2> QED BY <1>0, <2>1
<1>2. CASE BindStatus
  <2>1. UNCHANGED <<env, list, dbExists, starts>>
    BY <1>2 DEF BindStatus
  <2>2. pc' \in {"sink", "running", "refused"} /\ (Novelty => pc' # "running")
    BY <1>2 DEF BindStatus, Refuse
  <2> QED BY <1>0, <2>1, <2>2
<1>3. CASE Restart
  <2>1. Environment(env')
    <3>1. CASE UNCHANGED env
      BY <3>1
    <3>2. CASE \E on \in {"on", "off"} : env' = [env EXCEPT !["NOVELTY_REQUIRE_DB"] = on]
      <4>1. PICK on \in {"on", "off"} : env' = [env EXCEPT !["NOVELTY_REQUIRE_DB"] = on]
        BY <3>2
      <4>2. "NOVELTY_REQUIRE_DB" \in Key
        BY DEF Key, Switch
      <4>3. Raw("NOVELTY_REQUIRE_DB") = {Unset, "on", "off"}
        BY DEF Raw, Strict, Threshold, Switch, Path, Optional
      <4> QED BY <4>1, <4>2, <4>3, KeyChanged
    <3> QED BY <1>3, <3>1, <3>2 DEF Restart
  <2>2. starts' \in 0..MaxStarts
    BY <1>3, StartupAssumption DEF Restart
  <2>3. pc' = "env" /\ list' = list /\ dbExists' \in BOOLEAN
    BY <1>3 DEF Restart
  <2> QED BY <2>1, <2>2, <2>3 DEF Environment
<1>4. CASE Rest \/ UNCHANGED vars
  <2>1. UNCHANGED <<env, list, pc, dbExists, starts>>
    BY <1>4 DEF Rest, vars
  <2> QED BY <1>0, <2>1
<1> QED BY <1>1, <1>2, <1>3, <1>4, <1>5, <1>6 DEF Next

LEMMA InitTyped == Init => TypeInv
<1> SUFFICES ASSUME Init PROVE TypeInv
  OBVIOUS
<1>1. Environment(env)
  BY StartsNearDefault DEF Init
<1>2. list \in Nat /\ starts \in 0..MaxStarts
  BY StartupAssumption DEF Init
<1> QED BY <1>1, <1>2 DEF Init, TypeInv

\* Every variable has its type, and a novelty process that runs has its database.
THEOREM TypeCorrect == Spec => []TypeOK
<1>1. TypeInv => TypeOK
  BY DEF TypeInv, TypeOK, Environment
<1> QED BY <1>1, InitTyped, TypeStep, PTL DEF Spec

-----------------------------------------------------------------------------
(* One hash, one policy *)

LEMMA RawKinds ==
    /\ \A k \in Threshold : Raw(k) = {Unset, Bad, 0, 5, 25, 32}
    /\ Raw("NOVELTY_TIERS") = {Unset, "A", "B", "AB", "C"}
    /\ Threshold \cup Unhashed \cup {"NOVELTY_TIERS"} \subseteq Key
<1> USE DEF Strict, Threshold, Switch, Path, Optional, Unhashed
<1>1. \A k \in Threshold : Raw(k) = {Unset, Bad, 0, 5, 25, 32}
  BY DEF Raw
<1>2. Raw("NOVELTY_TIERS") = {Unset, "A", "B", "AB", "C"}
  BY DEF Raw
<1>3. Threshold \cup Unhashed \cup {"NOVELTY_TIERS"} \subseteq Key
  BY DEF Key
<1> QED BY <1>1, <1>2, <1>3

\* The two lists of defaults agree, and a default is a value like another:
\* hashing it for a key that is not set cannot hide one that does not parse.
LEMMA ThresholdDefaults ==
    \A k \in Threshold : HashDefault[k] = PolicyDefault[k] /\ HashDefault[k] \notin {Unset, Bad}
<1> SUFFICES ASSUME NEW k \in Threshold
             PROVE  HashDefault[k] = PolicyDefault[k] /\ HashDefault[k] \notin {Unset, Bad}
  OBVIOUS
<1>1. HashDefault[k] = PolicyDefault[k] /\ HashDefault[k] \in {0, 5, 25, 32}
  BY DEF HashDefault, PolicyDefault, Threshold
<1>2. Unset \notin {0, 5, 25, 32} /\ Bad \notin {0, 5, 25, 32}
  BY StartupAssumption
<1> QED BY <1>1, <1>2

LEMMA HashDecidesThresholds ==
    ASSUME NEW e, Environment(e), NEW f, Environment(f), ConfigHash(e) = ConfigHash(f)
    PROVE  \A k \in Threshold : Limit(e, k) = Limit(f, k)
<1> DEFINE H(g, k) == IF g[k] = Unset THEN HashDefault[k] ELSE g[k]
<1> SUFFICES ASSUME NEW k \in Threshold PROVE Limit(e, k) = Limit(f, k)
  OBVIOUS
<1>1. H(e, k) = H(f, k)
  <2>1. ConfigHash(e).thresholds = ConfigHash(f).thresholds
    OBVIOUS
  <2>2. /\ ConfigHash(e).thresholds = [j \in Threshold |-> H(e, j)]
        /\ ConfigHash(f).thresholds = [j \in Threshold |-> H(f, j)]
    BY DEF ConfigHash
  <2>3. [j \in Threshold |-> H(e, j)][k] = [j \in Threshold |-> H(f, j)][k]
    BY <2>1, <2>2
  <2> QED BY <2>3
<1> QED BY <1>1, ThresholdDefaults DEF Limit

LEMMA HashDecidesTiers ==
    ASSUME NEW e, Environment(e), NEW f, Environment(f), ConfigHash(e) = ConfigHash(f)
    PROVE  Policy(e).tiers = Policy(f).tiers
<1>1. /\ e["NOVELTY_TIERS"] \in {Unset, "A", "B", "AB", "C"}
      /\ f["NOVELTY_TIERS"] \in {Unset, "A", "B", "AB", "C"}
  BY RawKinds DEF Environment
<1>2. ConfigHash(e).tiers = ConfigHash(f).tiers
  OBVIOUS
<1>3. (IF e["NOVELTY_TIERS"] = Unset THEN "A" ELSE e["NOVELTY_TIERS"])
        = (IF f["NOVELTY_TIERS"] = Unset THEN "A" ELSE f["NOVELTY_TIERS"])
  BY <1>2 DEF ConfigHash
<1> QED BY <1>1, <1>3 DEF Policy

\* Any two environments of one hash and with the same two switches, however
\* many keys they differ in.
LEMMA HashDecidesPolicy ==
    ASSUME NEW e, Environment(e), NEW f, Environment(f), ConfigHash(e) = ConfigHash(f),
           \A k \in Unhashed : e[k] = f[k]
    PROVE  Policy(e) = Policy(f)
<1>1. /\ Policy(e).skip_routine = Policy(f).skip_routine
      /\ Policy(e).emit_candidates = Policy(f).emit_candidates
  BY DEF Policy, emit_candidates, Unhashed
<1>2. Policy(e).tiers = Policy(f).tiers
  BY HashDecidesTiers
<1>3. Policy(e).thresholds = Policy(f).thresholds
  BY HashDecidesThresholds DEF Policy
<1> QED BY <1>1, <1>2, <1>3 DEF Policy

\* The configuration hash tells policies apart: a change of any one key but
\* NOVELTY_SKIP_ROUTINE and NOVELTY_CANDIDATES that changes the policy changes
\* the hash, in every environment a start can have.
THEOREM HashTellsPolicies == Spec => []HashCoversThresholds
<1>1. TypeInv => HashCoversThresholds
  <2> SUFFICES ASSUME TypeInv, NEW k \in Key \ Unhashed, NEW r \in Raw(k),
                      ConfigHash([env EXCEPT ![k] = r]) = ConfigHash(env)
               PROVE  Policy([env EXCEPT ![k] = r]) = Policy(env)
    BY DEF HashCoversThresholds
  <2>1. Environment(env)
    BY DEF TypeInv
  <2>2. Environment([env EXCEPT ![k] = r])
    BY <2>1, KeyChanged
  <2>3. \A j \in Unhashed : [env EXCEPT ![k] = r][j] = env[j]
    BY <2>1, RawKinds DEF Environment
  <2> QED BY <2>1, <2>2, <2>3, HashDecidesPolicy
<1> QED BY <1>1, InitTyped, TypeStep, PTL DEF Spec

-----------------------------------------------------------------------------
(* Migration, what OpenDb runs: NoveltyStore::open *)

\* How far open has come is how far the database has: behind the rename the
\* column is "hosts", behind the installation the triggers are, and what is
\* about to be dropped has been copied.
StoreProgress ==
    /\ statement \in {"install", "copy", "drop", "touch", "open"} => column = "hosts"
    /\ statement \in {"copy", "drop", "touch", "open"} => triggers = "hosts"
    /\ statement \in {"touch", "open"} => aprime = NoTable
    /\ statement = "drop" => aprime \subseteq certs

StoreInv == StoreTypeOK /\ StoreProgress

LEMMA CapturedType ==
    ASSUME StoreTypeOK, NEW rows, NEW op \in {"I", "U"}, NEW key \in ListKey
    PROVE  Captured(rows, op, key) \in [Rows -> Seq(Event)]
<1>1. [op |-> op, key |-> key] \in Event
  BY DEF Event
<1>2. \A r \in Rows : outbox[r] \in Seq(Event)
  BY DEF StoreTypeOK
<1>3. \A r \in Rows : Append(outbox[r], [op |-> op, key |-> key]) \in Seq(Event)
  BY <1>1, <1>2, AppendProperties
<1> QED BY <1>2, <1>3 DEF Captured

LEMMA StoreInitInv == StoreInit => StoreInv
<1> SUFFICES ASSUME StoreInit PROVE StoreInv
  OBVIOUS
<1>1. outbox \in [Rows -> Seq(Event)]
  <2>1. \A r \in certs \ older : <<[op |-> "I", key |-> column]>> \in Seq(Event)
    <3> SUFFICES ASSUME NEW r \in certs \ older
                 PROVE  <<[op |-> "I", key |-> column]>> \in Seq(Event)
      OBVIOUS
    <3>1. column \in ListKey
      BY DEF StoreInit
    <3>2. [op |-> "I", key |-> column] \in Event
      BY <3>1 DEF Event
    <3> QED BY <3>2
  <2>2. <<>> \in Seq(Event)
    OBVIOUS
  <2> QED BY <2>1, <2>2 DEF StoreInit
<1> QED BY <1>1 DEF StoreInit, StoreInv, StoreTypeOK, StoreProgress

LEMMA StoreStep == StoreInv /\ [StoreNext]_storeVars => StoreInv'
<1> SUFFICES ASSUME StoreInv, [StoreNext]_storeVars PROVE StoreInv'
  OBVIOUS
<1> USE DEF StoreInv, StoreProgress
<1>1. CASE Open \/ Schema \/ migrate_names_column \/ DropAprime
  BY <1>1 DEF StoreTypeOK, Open, Schema, migrate_names_column, DropAprime, db, ListKey, NoTable
<1>2. CASE install_capture
  BY <1>2 DEF StoreTypeOK, install_capture, ListKey
<1>3. CASE CopyAprime
  <2>1. CASE aprime = NoTable
    BY <1>3, <2>1 DEF StoreTypeOK, CopyAprime
  <2>2. CASE aprime # NoTable
    <3>1. triggers \in ListKey
      BY <1>3 DEF CopyAprime, ListKey
    <3>2. outbox' \in [Rows -> Seq(Event)]
      <4>1. outbox' = Captured(aprime \ certs, "I", triggers)
        BY <1>3, <2>2 DEF CopyAprime
      <4>2. Captured(aprime \ certs, "I", triggers) \in [Rows -> Seq(Event)]
        BY <3>1, CapturedType
      <4> QED BY <4>1, <4>2
    <3>3. certs' = certs \cup aprime /\ certs' \subseteq Rows
      <4>1. certs' = certs \cup aprime
        BY <1>3, <2>2 DEF CopyAprime
      <4>2. certs \subseteq Rows /\ aprime \subseteq Rows
        BY <2>2 DEF StoreTypeOK
      <4> QED BY <4>1, <4>2
    <3>4. /\ statement = "copy" /\ statement' = "drop"
          /\ UNCHANGED <<column, aprime, triggers, renamed, crashes, older>>
      BY <1>3, <2>2 DEF CopyAprime
    <3>5. StoreTypeOK'
      BY <3>2, <3>3, <3>4 DEF StoreTypeOK
    <3>6. aprime' \subseteq certs' /\ column' = "hosts" /\ triggers' = "hosts"
      BY <3>3, <3>4
    <3> QED BY <3>4, <3>5, <3>6
  <2> QED BY <2>1, <2>2
<1>4. CASE Touch
  <2>1. triggers \in ListKey
    BY <1>4 DEF Touch, ListKey
  <2>2. outbox' \in [Rows -> Seq(Event)]
    BY <1>4, <2>1, CapturedType DEF Touch, StoreTypeOK
  <2> QED BY <1>4, <2>2 DEF StoreTypeOK, Touch
<1>5. ASSUME NEW r \in Rows, Insert(r) PROVE StoreInv'
  <2>1. triggers \in ListKey
    BY <1>5 DEF Insert, ListKey
  <2>2. outbox' \in [Rows -> Seq(Event)]
    BY <1>5, <2>1, CapturedType DEF Insert
  <2> QED BY <1>5, <2>2 DEF StoreTypeOK, Insert
<1>6. CASE Crash
  BY <1>6 DEF StoreTypeOK, Crash, db
<1>7. CASE StoreRest \/ UNCHANGED storeVars
  BY <1>7 DEF StoreTypeOK, StoreRest, storeVars, db
<1> QED BY <1>1, <1>2, <1>3, <1>4, <1>5, <1>6, <1>7 DEF StoreNext

LEMMA StoreInvariant == StoreSpec => []StoreInv
BY StoreInitInv, StoreStep, PTL DEF StoreSpec

\* Every variable has its type, and an open store has the new column, triggers
\* that follow it and no table left to copy.
THEOREM StoreTypeCorrect == StoreSpec => []StoreTypeOK
BY StoreInvariant, PTL DEF StoreInv

\* An alert is in aprime_alerts or in multi_brand_certs at every moment, however
\* often open is interrupted and repeated, for any number of rows and crashes.
THEOREM NoAlertDropped == StoreSpec => AlertsKept
<1>1. StoreInv /\ [StoreNext]_storeVars =>
        [/\ certs \subseteq certs'
         /\ (IF aprime = NoTable THEN {} ELSE aprime)
              \subseteq (IF aprime' = NoTable THEN {} ELSE aprime') \cup certs']_storeVars
  BY DEF StoreInv, StoreProgress, StoreNext, Open, Schema, migrate_names_column,
         install_capture, CopyAprime, DropAprime, Touch, Insert, Crash, StoreRest, db,
         storeVars
<1> QED BY <1>1, StoreInvariant, PTL DEF StoreSpec, AlertsKept

-----------------------------------------------------------------------------
(* Every row is captured once *)

LEMMA NoInserts == Cardinality(Inserts(<<>>)) = 0
<1>1. Inserts(<<>>) = {}
  BY DEF Inserts
<1> QED BY <1>1, FS_EmptySet

\* One more event counts if it is an insert.
LEMMA OneMoreEvent ==
    ASSUME NEW s \in Seq(Event), NEW e \in Event
    PROVE  /\ e.op = "I" => Cardinality(Inserts(Append(s, e))) = Cardinality(Inserts(s)) + 1
           /\ e.op # "I" => Cardinality(Inserts(Append(s, e))) = Cardinality(Inserts(s))
<1> DEFINE t == Append(s, e)
           n == Len(s)
<1>1. /\ n \in Nat /\ DOMAIN s = 1..n /\ DOMAIN t = 1..(n + 1)
      /\ t[n + 1] = e /\ \A i \in 1..n : t[i] = s[i]
  BY AppendProperties, LenProperties
<1> HIDE DEF t, n
<1>2. IsFiniteSet(Inserts(s)) /\ n + 1 \notin Inserts(s)
  <2>1. Inserts(s) \subseteq 1..n
    BY <1>1 DEF Inserts
  <2>2. IsFiniteSet(1..n)
    BY <1>1, FS_Interval
  <2> QED BY <1>1, <2>1, <2>2, FS_Subset
<1>3. CASE e.op = "I"
  <2>1. Inserts(t) = Inserts(s) \cup {n + 1}
    BY <1>1, <1>3 DEF Inserts
  <2>2. Cardinality(Inserts(t)) = Cardinality(Inserts(s)) + 1
    BY <1>2, <2>1, FS_AddElement
  <2> QED BY <1>3, <2>2 DEF t
<1>4. CASE e.op # "I"
  <2>1. Inserts(t) = Inserts(s)
    BY <1>1, <1>4 DEF Inserts
  <2> QED BY <1>4, <2>1 DEF t
<1> QED BY <1>3, <1>4

\* A statement that inserts the rows of S captures them as inserts, once each.
LEMMA InsertsCaptured ==
    ASSUME StoreInv, CapturedOnce, NEW S \in SUBSET Rows, triggers \in ListKey,
           outbox' = Captured(S \ certs, "I", triggers), certs' = certs \cup S,
           older' = older
    PROVE  CapturedOnce'
<1> SUFFICES ASSUME NEW r \in Rows
             PROVE  Cardinality(Inserts(outbox'[r])) = IF r \in certs' \ older' THEN 1 ELSE 0
  BY DEF CapturedOnce
<1>1. outbox[r] \in Seq(Event) /\ Cardinality(Inserts(outbox[r])) = IF r \in certs \ older THEN 1 ELSE 0
  BY DEF StoreInv, StoreTypeOK, CapturedOnce
<1>2. [op |-> "I", key |-> triggers] \in Event
  BY DEF Event
<1>3. CASE r \in S \ certs
  <2>0. r \notin older /\ r \in certs' \ older'
    BY <1>3 DEF StoreInv, StoreTypeOK
  <2>1. outbox'[r] = Append(outbox[r], [op |-> "I", key |-> triggers])
    BY <1>3 DEF Captured
  <2>2. Cardinality(Inserts(outbox'[r])) = 0 + 1
    BY <1>1, <1>2, <1>3, <2>0, <2>1, OneMoreEvent
  <2> QED BY <2>0, <2>2
<1>4. CASE r \notin S \ certs
  <2>1. outbox'[r] = outbox[r] /\ older' = older /\ (r \in certs' <=> r \in certs)
    BY <1>4 DEF Captured
  <2> QED BY <1>1, <2>1
<1> QED BY <1>3, <1>4

LEMMA OnceStep == StoreInv /\ CapturedOnce /\ [StoreNext]_storeVars => CapturedOnce'
<1> SUFFICES ASSUME StoreInv, CapturedOnce, [StoreNext]_storeVars PROVE CapturedOnce'
  OBVIOUS
<1>1. ASSUME UNCHANGED <<certs, outbox, older>> PROVE CapturedOnce'
  BY <1>1 DEF CapturedOnce
<1>2. CASE CopyAprime
  <2>1. CASE aprime = NoTable
    BY <1>1, <1>2, <2>1 DEF CopyAprime
  <2>2. CASE aprime # NoTable
    <3>1. /\ outbox' = Captured(aprime \ certs, "I", triggers)
          /\ certs' = certs \cup aprime /\ triggers \in ListKey /\ older' = older
      BY <1>2, <2>2 DEF CopyAprime, StoreInv, StoreProgress, ListKey
    <3>2. aprime \in SUBSET Rows
      BY <2>2 DEF StoreInv, StoreTypeOK
    <3> QED BY <3>1, <3>2, InsertsCaptured
  <2> QED BY <2>1, <2>2
<1>3. ASSUME NEW r \in Rows, Insert(r) PROVE CapturedOnce'
  <2>1. /\ outbox' = Captured({r}, "I", triggers) /\ r \notin certs
        /\ certs' = certs \cup {r} /\ triggers \in ListKey /\ older' = older
    BY <1>3 DEF Insert, StoreInv, StoreProgress, ListKey
  <2>2. {r} \ certs = {r} /\ {r} \in SUBSET Rows
    BY <2>1
  <2> QED BY <2>1, <2>2, InsertsCaptured
<1>4. CASE Touch
  <2>1. CASE ~renamed
    BY <1>1, <1>4, <2>1 DEF Touch
  <2>2. CASE renamed
    <3> SUFFICES ASSUME NEW r \in Rows
                 PROVE  Cardinality(Inserts(outbox'[r])) = IF r \in certs' \ older' THEN 1 ELSE 0
      BY DEF CapturedOnce
    <3>1. /\ outbox' = Captured(certs, "U", triggers) /\ certs' = certs
          /\ triggers \in ListKey /\ older' = older
      BY <1>4, <2>2 DEF Touch, StoreInv, StoreProgress, ListKey
    <3>2. [op |-> "U", key |-> triggers] \in Event
      BY <3>1 DEF Event
    <3>3. \/ outbox'[r] = outbox[r]
          \/ outbox'[r] = Append(outbox[r], [op |-> "U", key |-> triggers])
      BY <3>1 DEF Captured
    <3>4. outbox[r] \in Seq(Event)
      BY DEF StoreInv, StoreTypeOK
    <3>5. Cardinality(Inserts(outbox'[r])) = Cardinality(Inserts(outbox[r]))
      BY <3>2, <3>3, <3>4, OneMoreEvent
    <3> QED BY <3>1, <3>5 DEF CapturedOnce
  <2> QED BY <2>1, <2>2
<1>5. CASE Open \/ Schema \/ migrate_names_column \/ install_capture \/ DropAprime
           \/ Crash \/ StoreRest \/ UNCHANGED storeVars
  <2>1. UNCHANGED <<certs, outbox, older>>
    BY <1>5 DEF Open, Schema, migrate_names_column, install_capture, DropAprime, Crash,
                StoreRest, storeVars, db
  <2> QED BY <1>1, <2>1
<1> QED BY <1>2, <1>3, <1>4, <1>5 DEF StoreNext

LEMMA OnceInit == StoreInit => CapturedOnce
<1> SUFFICES ASSUME StoreInit, NEW r \in Rows
             PROVE  Cardinality(Inserts(outbox[r])) = IF r \in certs \ older THEN 1 ELSE 0
  BY DEF CapturedOnce
<1>1. CASE r \in certs \ older
  <2>1. column \in ListKey
    BY <1>1 DEF StoreInit
  <2>2. [op |-> "I", key |-> column] \in Event
    BY <2>1 DEF Event
  <2>3. outbox[r] = Append(<<>>, [op |-> "I", key |-> column])
    BY <1>1 DEF StoreInit
  <2>4. Cardinality(Inserts(outbox[r])) = Cardinality(Inserts(<<>>)) + 1
    <3>1. <<>> \in Seq(Event)
      OBVIOUS
    <3> QED BY <2>2, <2>3, <3>1, OneMoreEvent
  <2> QED BY <1>1, <2>4, NoInserts
<1>2. CASE r \notin certs \ older
  BY <1>2, NoInserts DEF StoreInit
<1> QED BY <1>1, <1>2

\* Each row of multi_brand_certs has one captured insert, unless a build without
\* capture stored it, and no other row has one: an open that is interrupted and repeated, at any of its statements and
\* any number of times, neither repeats nor misses a capture.
THEOREM EachRowCapturedOnce == StoreSpec => []CapturedOnce
BY OnceInit, OnceStep, StoreInvariant, PTL DEF StoreSpec

=============================================================================
