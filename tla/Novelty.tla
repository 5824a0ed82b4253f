------------------------------ MODULE Novelty ------------------------------
(***************************************************************************)
(* The novelty sink: NoveltySink::send_batch (src/novelty_sink.rs) runs    *)
(* process_match (src/novelty_alert.rs) on each event of a batch against   *)
(* the SQLite store (src/novelty.rs) and appends alerts to a local file.   *)
(* Each statement or transaction of the store is one step; any of them,    *)
(* and any file write, may fail, in which case send_batch returns the      *)
(* error and the batcher sends the whole batch again.  The process may     *)
(* crash between two steps; the store survives, what is in memory does     *)
(* not.                                                                    *)
(*                                                                         *)
(* A coalition key is the set of its brands.  A fact stands for its row in *)
(* multi_brand_certs and for the outbox row the capture trigger adds in    *)
(* the same transaction.  The statistics and the contents of the candidate *)
(* feed are left out; its writes, which can fail, are not.                 *)
(***************************************************************************)
EXTENDS Integers, Sequences, FiniteSets

CONSTANTS
    Event,             \* match events
    Brand,             \* watchlist names
    Host,              \* host names
    Keywords,          \* Keywords[e]: unique_keywords of e
    Hosts,             \* Hosts[e]: normalized_hosts of e
    MegaSan,           \* events over policy.max_san_count
    Routine,           \* <<brand, host>> pairs skipped as routine
    Ignore,            \* operator ignore set (SUPPRESS_FILE and GLUE_FILE)
    WantA, WantB, EmitCandidates,
    MaxCoalitionLen, MaxPartnerDegree, MaxBrandDf,
    CalibrateSecs, CalibrateEvents,
    BatchLen,          \* longest batch
    MaxItems,          \* bound of the model: events handed to the sink
    MaxFaults,         \* bound of the model: failures of a step
    MaxCrashes,        \* bound of the model: crashes
    MaxClock           \* bound of the model: the wall clock

ASSUME NoveltyAssumption ==
    /\ Keywords \in [Event -> SUBSET Brand \ {{}}]
    /\ Hosts \in [Event -> SUBSET Host]
    /\ MegaSan \subseteq Event
    /\ Routine \subseteq Brand \X Host
    /\ Ignore \subseteq Brand
    /\ WantA \in BOOLEAN /\ WantB \in BOOLEAN /\ EmitCandidates \in BOOLEAN
    /\ MaxCoalitionLen \in Nat /\ MaxPartnerDegree \in Nat /\ MaxBrandDf \in Nat
    /\ CalibrateSecs \in Nat /\ CalibrateEvents \in Nat
    /\ BatchLen \in Nat /\ MaxItems \in Nat /\ MaxFaults \in Nat
    /\ MaxCrashes \in Nat /\ MaxClock \in Nat

ASSUME FiniteBrands == IsFiniteSet(Brand)

VARIABLES
    (* the store *)
    df,         \* brand_degree.events
    degree,     \* brand_degree.partners
    partners,   \* brand_partners: partners[b] is the set of partners of b
    multi,      \* meta multi_brand_events
    started,    \* meta calibrate_started_at, or NotStarted
    mute,       \* coalitions: the mute keys
    facts,      \* multi_brand_certs
    hosts,      \* hosts: <<brand, host>> pairs seen
    (* the alert file *)
    lines,      \* alerts in the file, oldest first
    residue,    \* alerts a failed flush left in the BufWriter
    (* send_batch and process_match *)
    pc,         \* next step: "down" (not running), "idle", "record",
                \*   "classify", "hosts", "emit", or "failed" (awaiting retry)
    batch, idx, \* the batch and the index of the event in hand
    calibrating,\* policy.calibrating, as read for the event in hand
    brands,     \* its low-df brands
    todo,       \* <<brand, host>> pairs still to insert
    fresh,      \* hosts found novel and not routine
    alerts,     \* the alerts to write, at most one
    feed,       \* a candidate line is to be written
    (* environment and history *)
    now,        \* the wall clock
    faults, crashes,
    items,      \* events handed to the sink
    silenced,   \* keys whose first insert was not an announcement
    handed,     \* handed[b]: events naming b that were handed to the sink
    acked       \* acked[b]: events naming b in acknowledged batches

countVars == <<df, degree, partners, multi>>
keyVars == <<mute, facts, silenced>>
fileVars == <<lines, residue>>
taskVars == <<batch, idx, calibrating, brands, todo, fresh, alerts, feed>>
envVars == <<now, faults, crashes, items, handed, acked>>
vars == <<countVars, started, keyVars, hosts, fileVars, pc, taskVars, envVars>>

NotStarted == -1

Coalition == SUBSET Brand
Alert == [tier : {"A"}, coalition : Coalition]
         \cup [tier : {"B"}, brand : Brand, hosts : SUBSET Host]

Larger(a, b) == IF a > b THEN a ELSE b

event == batch[idx]

\* Mutant of full: an event that names one brand is not counted.
fullOfSeveral == IF Cardinality(Keywords[event]) < 2 THEN {} ELSE Keywords[event]

full == Keywords[event]

Naming(b) == Cardinality({i \in 1..Len(batch) : b \in Keywords[batch[i]]})

-----------------------------------------------------------------------------
(* Policy *)

\* is_learned_hub, and the ignore filter tier_a_brands applies without caps.
IsHub(b) ==
    \/ b \in Ignore
    \/ MaxBrandDf > 0 /\ df[b] >= MaxBrandDf
    \/ MaxPartnerDegree > 0 /\ degree[b] >= MaxPartnerDegree

tierABrands == {b \in full : ~IsHub(b)}

IsCalibrating ==
    /\ CalibrateSecs > 0 \/ CalibrateEvents > 0
    /\ ~ (/\ CalibrateSecs = 0 \/ now - started >= CalibrateSecs
          /\ CalibrateEvents = 0 \/ multi >= CalibrateEvents)

\* Oversized coalitions and mega-SAN certs are recorded but not announced.
Packed(B) == Cardinality(B) > MaxCoalitionLen \/ event \in MegaSan

\* Mutant of WantEmit: the burn-in gate is forgotten.
WantEmitAlways(B) == WantA /\ ~Packed(B)

WantEmit(B) == WantA /\ ~Packed(B) /\ ~calibrating

-----------------------------------------------------------------------------
Init ==
    /\ df = [b \in Brand |-> 0]
    /\ degree = [b \in Brand |-> 0]
    /\ partners = [b \in Brand |-> {}]
    /\ multi = 0
    /\ started = NotStarted
    /\ mute = {} /\ facts = {} /\ silenced = {}
    /\ hosts = {}
    /\ lines = <<>> /\ residue = <<>>
    /\ pc = "down"
    /\ batch = <<>> /\ idx = 0
    /\ calibrating = FALSE /\ brands = {} /\ todo = {} /\ fresh = {}
    /\ alerts = {} /\ feed = FALSE
    /\ now = 0 /\ faults = 0 /\ crashes = 0 /\ items = 0
    /\ handed = [b \in Brand |-> 0]
    /\ acked = [b \in Brand |-> 0]

ForgetItem ==
    /\ brands' = {} /\ todo' = {} /\ fresh' = {}
    /\ alerts' = {} /\ feed' = FALSE

-----------------------------------------------------------------------------
(* Opening the sink: the burn-in clock starts once, and the ignored brands *)
(* are floored at the larger cap.                                          *)

Floor == Larger(MaxPartnerDegree, MaxBrandDf)

StartedAt == IF started = NotStarted THEN now ELSE started

Open ==
    /\ pc = "down"
    /\ started' = StartedAt
    /\ df' = [b \in Brand |-> IF b \in Ignore THEN Larger(df[b], Floor) ELSE df[b]]
    /\ degree' = [b \in Brand |-> IF b \in Ignore THEN Larger(degree[b], Floor)
                                                  ELSE degree[b]]
    /\ pc' = "idle"
    /\ UNCHANGED <<partners, multi, keyVars, hosts, fileVars, taskVars, envVars>>

\* The batcher hands over the next batch.
SendBatch(s) ==
    /\ pc = "idle"
    /\ items + Len(s) <= MaxItems
    /\ items' = items + Len(s)
    /\ batch' = s
    /\ idx' = 1
    /\ pc' = "record"
    /\ handed' = [b \in Brand |->
                    handed[b] + Cardinality({i \in 1..Len(s) : b \in Keywords[s[i]]})]
    /\ UNCHANGED <<countVars, started, keyVars, hosts, fileVars, calibrating,
                   brands, todo, fresh, alerts, feed, now, faults, crashes, acked>>

-----------------------------------------------------------------------------
(* One event *)

\* Mutant of DegreeOf: the partners named by this event only.
DegreeOfEvent(b, P) == Cardinality(full) - 1

\* record_cooccurrence refreshes a degree as the larger of the stored one and
\* the count of distinct partners P.
DegreeOf(b, P) == Larger(degree[b], Cardinality(P))

\* The burn-in gate is read, then record_cooccurrence (one transaction) or
\* record_appearances counts the event.
Record ==
    /\ pc = "record"
    /\ calibrating' = IsCalibrating
    /\ df' = [b \in Brand |-> IF b \in full THEN df[b] + 1 ELSE df[b]]
    /\ IF Cardinality(full) >= 2
          THEN /\ partners' = [b \in Brand |-> IF b \in full
                                 THEN partners[b] \cup (full \ {b})
                                 ELSE partners[b]]
               /\ degree' = [b \in Brand |-> IF b \in full
                               THEN DegreeOf(b, partners'[b]) ELSE degree[b]]
               /\ multi' = multi + 1
          ELSE UNCHANGED <<partners, degree, multi>>
    /\ pc' = "classify"
    /\ UNCHANGED <<started, keyVars, hosts, fileVars, batch, idx, brands, todo,
                   fresh, alerts, feed, envVars>>

\* Mutant of InsertCoalition: the key is not remembered.
InsertCoalitionForgets(key) ==
    /\ silenced' = IF key \in mute THEN silenced ELSE silenced \cup {key}
    /\ UNCHANGED <<mute, facts>>

\* insert_coalition: a key that is new is silenced for good.
InsertCoalition(key) ==
    /\ mute' = mute \cup {key}
    /\ silenced' = IF key \in mute THEN silenced ELSE silenced \cup {key}
    /\ UNCHANGED facts

\* Mutant of InsertMultiBrandCert: the mute key survives a failed fact.
InsertMultiBrandCertTorn(key) ==
    /\ mute' = mute \cup {key}
    /\ \/ facts' = IF key \in mute THEN facts ELSE facts \cup {key}
       \/ UNCHANGED facts
    /\ UNCHANGED silenced

\* Mutant of InsertMultiBrandCert: the fact is stored without the mute key.
InsertMultiBrandCertUnmuted(key) ==
    /\ facts' = facts \cup {key}
    /\ UNCHANGED <<mute, silenced>>

\* Mutant of InsertMultiBrandCert: a key seen before is an error.
InsertMultiBrandCertStrict(key) ==
    /\ key \notin mute
    /\ mute' = mute \cup {key}
    /\ facts' = facts \cup {key}
    /\ UNCHANGED silenced

\* insert_multi_brand_cert: the mute key and the fact in one transaction.
InsertMultiBrandCert(key) ==
    /\ mute' = mute \cup {key}
    /\ facts' = IF key \in mute THEN facts ELSE facts \cup {key}
    /\ UNCHANGED silenced

AfterClassify(pairs) ==
    /\ brands' = tierABrands
    /\ todo' = pairs
    /\ pc' = IF pairs = {} THEN "emit" ELSE "hosts"
    /\ UNCHANGED <<countVars, started, hosts, fileVars, batch, idx, calibrating,
                   fresh, envVars>>

HostPairs(B) == IF WantB THEN B \X Hosts[event] ELSE {}

\* Two or more low-df brands: a coalition, announced if it is new and no gate
\* holds it back.
ClassifyCoalition ==
    LET key == tierABrands
        isNew == key \notin mute
    IN  /\ pc = "classify"
        /\ Cardinality(key) >= 2
        /\ IF WantEmit(key) THEN InsertMultiBrandCert(key) ELSE InsertCoalition(key)
        /\ alerts' = IF isNew /\ WantEmit(key)
                        THEN {[tier |-> "A", coalition |-> key]} ELSE {}
        /\ feed' = (EmitCandidates /\ isNew /\ WantA /\ ~Packed(key))
        /\ AfterClassify(HostPairs(key))

\* Several brands named, fewer than two of them low-df: the whole set is
\* silenced; the brand that is left, if any, goes on to tier B.
ClassifyHighDf ==
    /\ pc = "classify"
    /\ Cardinality(full) >= 2
    /\ Cardinality(tierABrands) < 2
    /\ InsertCoalition(full)
    /\ alerts' = {}
    /\ feed' = (EmitCandidates /\ full \notin mute)
    /\ AfterClassify(HostPairs(tierABrands))

\* A single brand: only tier B has anything to do.
ClassifySolo ==
    /\ pc = "classify"
    /\ Cardinality(full) < 2
    /\ alerts' = {}
    /\ feed' = FALSE
    /\ UNCHANGED keyVars
    /\ AfterClassify(HostPairs(tierABrands))

\* Mutant of IsNovelHost: a host seen before is novel again.
IsAnyHost(p) == Cardinality(brands) = 1 /\ p \notin Routine

\* Only a lone brand looks for novelty.
IsNovelHost(p) == Cardinality(brands) = 1 /\ p \notin hosts \cup Routine

\* insert_host, one statement per pair.
InsertHost(p) ==
    /\ pc = "hosts"
    /\ p \in todo
    /\ hosts' = hosts \cup {p}
    /\ todo' = todo \ {p}
    /\ fresh' = IF IsNovelHost(p) THEN fresh \cup {p[2]} ELSE fresh
    /\ UNCHANGED <<countVars, started, keyVars, fileVars, pc, batch, idx,
                   calibrating, brands, alerts, feed, envVars>>

HostsDone ==
    /\ pc = "hosts"
    /\ todo = {}
    /\ pc' = "emit"
    /\ alerts' = IF fresh = {} THEN alerts
                 ELSE {[tier |-> "B", brand |-> b, hosts |-> fresh] : b \in brands}
    /\ UNCHANGED <<countVars, started, keyVars, hosts, fileVars, batch, idx,
                   calibrating, brands, todo, fresh, feed, envVars>>

\* write_line appends the alert and flushes, with whatever an earlier failure
\* had left in the BufWriter.
WriteAlert(a) ==
    /\ pc = "emit"
    /\ a \in alerts
    /\ lines' = Append(lines \o residue, a)
    /\ residue' = <<>>
    /\ alerts' = {}
    /\ UNCHANGED <<countVars, started, keyVars, hosts, pc, batch, idx, calibrating,
                   brands, todo, fresh, feed, envVars>>

WriteCandidate ==
    /\ pc = "emit"
    /\ alerts = {}
    /\ feed
    /\ feed' = FALSE
    /\ UNCHANGED <<countVars, started, keyVars, hosts, fileVars, pc, batch, idx,
                   calibrating, brands, todo, fresh, alerts, envVars>>

LastItem == idx >= Len(batch)

\* Nothing is left to write for this event: on to the next, or acknowledge.
NextItem ==
    /\ pc = "emit"
    /\ alerts = {} /\ ~feed
    /\ IF LastItem
          THEN /\ idx' = 0
               /\ pc' = "idle"
               /\ batch' = <<>>
               /\ acked' = [b \in Brand |-> acked[b] + Naming(b)]
          ELSE /\ idx' = idx + 1
               /\ pc' = "record"
               /\ UNCHANGED <<batch, acked>>
    /\ ForgetItem
    /\ UNCHANGED <<countVars, started, keyVars, hosts, fileVars, calibrating,
                   now, faults, crashes, items, handed>>

-----------------------------------------------------------------------------
(* Failures *)

\* send_batch returns an error.
Fail ==
    /\ faults < MaxFaults
    /\ faults' = faults + 1
    /\ pc' = "failed"
    /\ ForgetItem
    /\ UNCHANGED <<countVars, started, keyVars, hosts, batch, idx, calibrating,
                   now, crashes, items, handed, acked>>

\* The next statement or write fails without effect.
StepFails ==
    /\ pc \in {"record", "classify", "hosts", "emit"}
    /\ pc = "emit" => alerts # {} \/ feed
    /\ Fail
    /\ UNCHANGED fileVars

\* write_line fails with the alert written to the BufWriter but not flushed,
\* or after the flush, in the rotation.
WriteAlertFails(a) ==
    /\ pc = "emit"
    /\ a \in alerts
    /\ \/ residue' = Append(residue, a) /\ UNCHANGED lines
       \/ lines' = Append(lines \o residue, a) /\ residue' = <<>>
    /\ Fail

\* The batcher sends the same batch again.
Retry ==
    /\ pc = "failed"
    /\ pc' = "record"
    /\ idx' = 1
    /\ UNCHANGED <<countVars, started, keyVars, hosts, fileVars, batch, calibrating,
                   brands, todo, fresh, alerts, feed, envVars>>

Crash ==
    /\ pc # "down"
    /\ crashes < MaxCrashes
    /\ crashes' = crashes + 1
    /\ pc' = "down"
    /\ batch' = <<>> /\ idx' = 0
    /\ calibrating' = FALSE
    /\ ForgetItem
    /\ residue' = <<>>
    /\ UNCHANGED <<countVars, started, keyVars, hosts, lines, now, faults, items, handed, acked>>

Tick ==
    /\ now < MaxClock
    /\ now' = now + 1
    /\ UNCHANGED <<countVars, started, keyVars, hosts, fileVars, pc, taskVars,
                   faults, crashes, items, handed, acked>>

\* The sink may wait for ever for the next batch.
Idle ==
    /\ pc = "idle"
    /\ UNCHANGED vars

SinkStep ==
    \/ Open
    \/ Record
    \/ ClassifyCoalition
    \/ ClassifyHighDf
    \/ ClassifySolo
    \/ \E p \in Brand \X Host : InsertHost(p)
    \/ HostsDone
    \/ \E a \in alerts : WriteAlert(a)
    \/ WriteCandidate
    \/ NextItem
    \/ Retry

Next ==
    \/ \E k \in 1..BatchLen : \E s \in [1..k -> Event] : SendBatch(s)
    \/ SinkStep
    \/ StepFails
    \/ \E a \in alerts : WriteAlertFails(a)
    \/ Crash
    \/ Tick
    \/ Idle

Safety == Init /\ [][Next]_vars

\* The sink runs to its next await and the batcher always retries; failures
\* are bounded by MaxFaults.
Spec == Safety /\ WF_vars(SinkStep)

-----------------------------------------------------------------------------
(* Properties *)

\* The alerts that reached write_line and were not lost with the process: in
\* the file or still in the BufWriter.
Written == lines \o residue

\* Every variable has its type.
TypeOK ==
    /\ df \in [Brand -> Nat]
    /\ degree \in [Brand -> Nat]
    /\ partners \in [Brand -> SUBSET Brand]
    /\ multi \in Nat
    /\ started \in Nat \cup {NotStarted}
    /\ mute \subseteq Coalition /\ facts \subseteq Coalition
    /\ silenced \subseteq Coalition
    /\ hosts \subseteq Brand \X Host
    /\ lines \in Seq(Alert)
    /\ residue \in Seq(Alert)
    /\ pc \in {"down", "idle", "record", "classify", "hosts", "emit", "failed"}
    /\ batch \in Seq(Event)
    /\ idx \in 0..Len(batch)
    /\ pc \in {"record", "classify", "hosts", "emit", "failed"} => idx # 0
    /\ calibrating \in BOOLEAN
    /\ brands \subseteq Brand
    /\ todo \subseteq Brand \X Host
    /\ fresh \subseteq Host
    /\ alerts \subseteq Alert
    /\ feed \in BOOLEAN
    /\ now \in Nat /\ faults \in Nat /\ crashes \in Nat /\ items \in Nat
    /\ handed \in [Brand -> Nat]
    /\ acked \in [Brand -> Nat]

\* The first insert of a coalition decides once and for all whether it is a
\* fact: no failure, retry or crash leaves a key muted without its fact, and
\* what was muted during burn-in, as oversized or as high-df is never
\* announced later (insert_multi_brand_cert is all or nothing).
SeenOnce ==
    /\ mute = facts \cup silenced
    /\ facts \cap silenced = {}

\* Across retries of a batch, failed flushes and restarts, the alert file
\* names a coalition at most once, and only one whose fact is committed.
AnnouncedOnce ==
    /\ \A i \in 1..Len(Written) :
          Written[i].tier = "A" => Written[i].coalition \in facts
    /\ \A i, j \in 1..Len(Written) :
          Written[i].tier = "A" /\ Written[i] = Written[j] => i = j

\* A host is announced for a brand at most once, and only after its row.
HostAnnouncedOnce ==
    /\ \A i \in 1..Len(Written) :
          Written[i].tier = "B" => {Written[i].brand} \X Written[i].hosts \subseteq hosts
    /\ \A i, j \in 1..Len(Written) :
          (/\ i # j
           /\ Written[i].tier = "B" /\ Written[j].tier = "B"
           /\ Written[i].brand = Written[j].brand)
              => Written[i].hosts \cap Written[j].hosts = {}

\* An acknowledged event has been counted: event-df never falls behind what
\* the batcher considers delivered, whatever failed or crashed on the way.
AckedIsCounted == \A b \in Brand : acked[b] <= df[b]

\* A learned hub stays one: neither a restart with its degree floor nor a
\* retry lets a brand that saturated back into alerts.
HubStays == [][\A b \in Brand : IsHub(b) => IsHub(b)']_vars

\* Burn-in ends once: a restart does not start it again.
BurnInEndsOnce ==
    [][started # NotStarted /\ ~IsCalibrating => ~IsCalibrating']_vars

\* Nothing is announced before burn-in is over, although the gate is read
\* before the event is counted and used after.
NoFactInBurnIn == [][facts' # facts => ~IsCalibrating]_vars

\* The sink implements the abstract feed.
Published == {lines[i].coalition : i \in {j \in 1..Len(lines) : lines[j].tier = "A"}}
F == INSTANCE AlertFeed WITH published <- Published
ImplementsAlertFeed == F!Spec

\* A batch that was handed over is eventually acknowledged unless the process
\* crashes: every step of a retried batch can be repeated.
BatchAcknowledged == pc = "record" ~> pc \in {"idle", "down"}
=============================================================================
