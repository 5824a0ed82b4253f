----------------------------- MODULE Provenance -----------------------------
(***************************************************************************)
(* Config provenance and hot reload (src/main.rs, write_config_snapshot in *)
(* src/archive.rs, HotWatchlist in src/watchlist.rs).  The reload task, if *)
(* WATCHLIST_RELOAD_SECS asks for one, builds a watchlist, swaps it in,    *)
(* snapshots the files and only then stores the new provenance; the daily  *)
(* task snapshots and stores without loading anything; the main task       *)
(* stamps its archive rows with the provenance of the moment; operators    *)
(* edit and delete the files at any time.                                  *)
(*                                                                         *)
(* A file is the version it has, 0 when it is missing; a hash is the pair  *)
(* of versions hashed.  suppress.txt and glue.txt are one "ignore" file.   *)
(***************************************************************************)
EXTENDS Integers, FiniteSets

CONSTANTS
    Corrupt,        \* the versions load_domain_file refuses
    MaxMishaps,     \* bounds of the model: edits and failed copies together,
    MaxSnapshots,   \*   snapshots that something names,
    MaxRows         \*   archive rows

ASSUME ProvenanceAssumption ==
    /\ Corrupt \subseteq Nat /\ MaxMishaps \in Nat
    /\ MaxSnapshots \in Nat \ {0} /\ MaxRows \in Nat

VARIABLES
    reloads,            \* there is a reload task
    watchlist, ignore,  \* the files' versions
    hot,        \* the version HotWatchlist holds
    provenance, \* the stored ConfigProvenance: [snapshot_id, config_hash]
    dirs,       \* config_snapshots/: id -> the versions copied there
    clock,      \* the id of the last snapshot
    pc, work,   \* of the tasks "reload" (the start-up too) and "daily"
    serving,    \* start-up is done
    rows,       \* the archive rows: [snapshot_id, config_hash]
    reused,     \* ids whose directory a second snapshot was written to
    mishaps

files == <<reloads, watchlist, ignore>>
shared == <<hot, provenance, dirs>>
vars == <<files, shared, clock, pc, work, serving, rows, reused, mishaps>>

Task == {"reload", "daily"}
Missing == 0
Unset == -1
NoHash == [watchlist |-> Unset, ignore |-> Unset]
NoWork == [built |-> 0, id |-> 0, hash |-> NoHash]

Init ==
    /\ reloads \in BOOLEAN
    /\ watchlist = 1 /\ ignore = 1
    /\ hot = Missing
    /\ provenance = [snapshot_id |-> 0, config_hash |-> NoHash]
    /\ dirs = [i \in {} |-> NoHash] /\ clock = 0
    /\ pc = [t \in Task |-> "sleep"]
    /\ work = [t \in Task |-> NoWork]
    /\ serving = FALSE /\ rows = {} /\ reused = {} /\ mishaps = 0

Goto(t, label) == pc' = [pc EXCEPT ![t] = label]

-----------------------------------------------------------------------------
(* Reload and start-up *)

Loadable(version) == version # Missing /\ version \notin Corrupt

\* Mutant of Build: a reload is skipped when the stored hash, which may be the
\* daily task's, is already that of the file.
BuildIfChanged ==
    /\ pc["reload"] = "sleep" /\ (serving => reloads)
    /\ Loadable(watchlist)
    /\ serving => watchlist # provenance.config_hash.watchlist
    /\ work' = [work EXCEPT !["reload"].built = watchlist]
    /\ Goto("reload", "swap")
    /\ UNCHANGED <<files, shared, clock, serving, rows, reused, mishaps>>

\* build_watchlist on a blocking thread.  While the file cannot be loaded, a
\* reload warns and the next one tries again.
Build ==
    /\ pc["reload"] = "sleep" /\ (serving => reloads)
    /\ Loadable(watchlist)
    /\ work' = [work EXCEPT !["reload"].built = watchlist]
    /\ Goto("reload", "swap")
    /\ UNCHANGED <<files, shared, clock, serving, rows, reused, mishaps>>

\* A start-up that cannot load the file ends in an error; whoever runs the
\* program starts it again.
Refuse ==
    /\ pc["reload"] = "sleep" /\ ~serving
    /\ ~Loadable(watchlist)
    /\ UNCHANGED vars

Swap ==
    /\ pc["reload"] = "swap"
    /\ hot' = work["reload"].built
    /\ work' = [work EXCEPT !["reload"].built = 0]
    /\ Goto("reload", "dir")
    /\ UNCHANGED <<files, provenance, dirs, clock, serving, rows, reused, mishaps>>

\* The sink is open, the pipeline starts.
OpenSink ==
    /\ pc["reload"] = "sink"
    /\ serving' = TRUE
    /\ Goto("reload", "sleep")
    /\ UNCHANGED <<files, hot, provenance, dirs, clock, work, rows, reused, mishaps>>

-----------------------------------------------------------------------------
(* write_config_snapshot, by either task *)

DailyTick ==
    /\ pc["daily"] = "sleep" /\ serving
    /\ Goto("daily", "dir")
    /\ UNCHANGED <<files, shared, clock, work, serving, rows, reused, mishaps>>

\* An id stands for a second, and is used again only once nothing names it; the
\* directories nothing names are forgotten.
Named == {provenance.snapshot_id} \cup {work[t].id : t \in Task}
         \cup {r.snapshot_id : r \in rows}
Unused == (1..MaxSnapshots) \ Named

\* The directory is named for the second: a new one, ...
MakeDir(t) ==
    /\ pc[t] = "dir"
    /\ clock' \in Unused /\ \A id \in Unused : clock' <= id
    /\ work' = [work EXCEPT ![t].id = clock']
    /\ dirs' = [i \in (Named \cap DOMAIN dirs) \cup {clock'} |->
                   IF i = clock' THEN NoHash ELSE dirs[i]]
    /\ reused' = reused \cap Named
    /\ Goto(t, "watchlist")
    /\ UNCHANGED <<files, hot, provenance, serving, rows, mishaps>>

\* ... or the one of the last snapshot, which started within the same second.
ReuseDir(t) ==
    /\ pc[t] = "dir" /\ clock > 0
    /\ work' = [work EXCEPT ![t].id = clock]
    /\ reused' = reused \cup {clock}
    /\ Goto(t, "watchlist")
    /\ UNCHANGED <<files, shared, clock, serving, rows, mishaps>>

\* Mutant of copy_and_hash: the source is hashed, possibly after another edit.
hash_source(src) == {src, src + 1}

\* The copy is what is hashed; a file that is missing is copied and hashed as
\* an empty one.
copy_and_hash(src) == {src}

CopyWatchlist(t) ==
    /\ pc[t] = "watchlist"
    /\ dirs' = [dirs EXCEPT ![work[t].id].watchlist = watchlist]
    /\ \E h \in copy_and_hash(watchlist) :
         work' = [work EXCEPT ![t].hash.watchlist = h]
    /\ Goto(t, "ignore")
    /\ UNCHANGED <<files, hot, provenance, clock, serving, rows, reused, mishaps>>

CopyIgnore(t) ==
    /\ pc[t] = "ignore"
    /\ dirs' = [dirs EXCEPT ![work[t].id].ignore = ignore]
    /\ \E h \in copy_and_hash(ignore) :
         work' = [work EXCEPT ![t].hash.ignore = h]
    /\ Goto(t, "store")
    /\ UNCHANGED <<files, hot, provenance, clock, serving, rows, reused, mishaps>>

Store(t) ==
    /\ pc[t] = "store"
    /\ provenance' = [snapshot_id |-> work[t].id, config_hash |-> work[t].hash]
    /\ work' = [work EXCEPT ![t] = NoWork]
    /\ Goto(t, IF serving THEN "sleep" ELSE "sink")
    /\ UNCHANGED <<files, hot, dirs, clock, serving, rows, reused, mishaps>>

\* A copy, a write or a read of the copy fails: a warning, and the old
\* provenance stays.
Fail(t) ==
    /\ serving
    /\ mishaps < MaxMishaps /\ mishaps' = mishaps + 1
    /\ pc[t] \in {"dir", "watchlist", "ignore", "store"}
    /\ work' = [work EXCEPT ![t] = NoWork]
    /\ Goto(t, "sleep")
    /\ UNCHANGED <<files, shared, clock, serving, rows, reused>>

-----------------------------------------------------------------------------
(* The main task and the operators *)

\* record_enqueued stamps the provenance of the moment.
RecordEnqueued ==
    /\ serving /\ Cardinality(rows) < MaxRows
    /\ rows' = rows \cup {provenance}
    /\ UNCHANGED <<files, shared, clock, pc, work, serving, reused, mishaps>>

Edit ==
    /\ mishaps < MaxMishaps /\ mishaps' = mishaps + 1
    /\ \/ watchlist' \in {mishaps + 2, Missing} /\ UNCHANGED ignore
       \/ ignore' = mishaps + 2 /\ UNCHANGED watchlist
    /\ UNCHANGED <<reloads, shared, clock, pc, work, serving, rows, reused>>

SnapshotStep(t) ==
    MakeDir(t) \/ ReuseDir(t) \/ CopyWatchlist(t) \/ CopyIgnore(t) \/ Store(t)

Next ==
    \/ Build \/ Refuse \/ Swap \/ OpenSink \/ DailyTick
    \/ \E t \in Task : SnapshotStep(t) \/ Fail(t)
    \/ RecordEnqueued \/ Edit

Spec == Init /\ [][Next]_vars

\* Both tasks are woken by timers and run to the end of their round.
FairSpec ==
    /\ Spec
    /\ WF_vars(Build) /\ WF_vars(Swap) /\ WF_vars(OpenSink) /\ WF_vars(DailyTick)
    /\ \A t \in Task : WF_vars(SnapshotStep(t))

-----------------------------------------------------------------------------
(* Properties *)

Hash == [watchlist : Nat \cup {Unset}, ignore : Nat \cup {Unset}]
ConfigProvenance == [snapshot_id : Nat, config_hash : Hash]

\* Every variable has its type.
TypeOK ==
    /\ reloads \in BOOLEAN
    /\ watchlist \in Nat /\ ignore \in Nat /\ hot \in Nat
    /\ provenance \in ConfigProvenance
    /\ dirs \in [DOMAIN dirs -> Hash] /\ DOMAIN dirs \subseteq 1..MaxSnapshots
    /\ clock \in 0..MaxSnapshots
    /\ pc \in [Task -> {"sleep", "swap", "sink", "dir", "watchlist", "ignore", "store"}]
    /\ work \in [Task -> [built : Nat, id : Nat, hash : Hash]]
    /\ serving \in BOOLEAN
    /\ rows \subseteq ConfigProvenance
    /\ reused \subseteq 1..MaxSnapshots
    /\ mishaps \in Nat

\* A row's config_hash is the hash of what its snapshot directory holds, from
\* the moment the row is written and for ever: no row names a directory that is
\* incomplete, or rewritten later, but by a snapshot of the same second.
RowMatchesSnapshot ==
    \A r \in rows : r.snapshot_id \notin reused =>
        r.snapshot_id \in DOMAIN dirs /\ dirs[r.snapshot_id] = r.config_hash

\* With a reload task, and once the files rest with a watchlist that can be
\* loaded, the stored provenance names the watchlist in use: a reload that fails
\* half-way, or that the daily task overtakes, is made good by the next one.
\* Without them the daily task stores the hash of a list nothing has loaded.
ProvenanceCatchesUp ==
    reloads /\ <>[]Loadable(watchlist) =>
        <>[](serving => provenance.config_hash.watchlist = hot)
=============================================================================
