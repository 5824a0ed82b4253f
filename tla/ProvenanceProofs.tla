-------------------------- MODULE ProvenanceProofs --------------------------
(***************************************************************************)
(* Proofs about module Provenance, for all values of its constants.        *)
(***************************************************************************)
EXTENDS Provenance, TLAPS

-----------------------------------------------------------------------------
(* Type correctness *)

LEMMA TypeStep == TypeOK /\ [Next]_vars => TypeOK'
<1> SUFFICES ASSUME TypeOK, [Next]_vars PROVE TypeOK'
  OBVIOUS
<1> USE ProvenanceAssumption DEF files, shared, Goto, Task
<1>1. CASE Build
  BY <1>1 DEF Build, TypeOK, Hash
<1>2. CASE Swap
  BY <1>2 DEF Swap, TypeOK, Hash
<1>3. CASE OpenSink
  BY <1>3 DEF OpenSink, TypeOK
<1>4. CASE DailyTick
  BY <1>4 DEF DailyTick, TypeOK
<1>5. ASSUME NEW t \in Task, MakeDir(t) PROVE TypeOK'
  <2>1. clock' \in 1..MaxSnapshots
    BY <1>5 DEF MakeDir, Unused
  <2>2. dirs' \in [DOMAIN dirs' -> Hash] /\ DOMAIN dirs' \subseteq 1..MaxSnapshots
    BY <1>5, <2>1 DEF MakeDir, TypeOK, NoHash, Unset, Hash
  <2>3. work' \in [Task -> [built : Nat, id : Nat, hash : Hash]]
    BY <1>5, <2>1 DEF MakeDir, TypeOK
  <2> QED BY <1>5, <2>1, <2>2, <2>3 DEF MakeDir, TypeOK
<1>6. ASSUME NEW t \in Task, ReuseDir(t) PROVE TypeOK'
  BY <1>6 DEF ReuseDir, TypeOK
<1>7. ASSUME NEW t \in Task, CopyWatchlist(t) PROVE TypeOK'
  <2>1. DOMAIN dirs' = DOMAIN dirs /\ dirs' \in [DOMAIN dirs' -> Hash]
    BY <1>7 DEF CopyWatchlist, TypeOK, Hash
  <2>2. work' = [work EXCEPT ![t].hash.watchlist = watchlist]
    BY <1>7 DEF CopyWatchlist, copy_and_hash
  <2>3. work' \in [Task -> [built : Nat, id : Nat, hash : Hash]]
    BY <2>2 DEF TypeOK, Hash
  <2> QED BY <1>7, <2>1, <2>3 DEF CopyWatchlist, TypeOK
<1>8. ASSUME NEW t \in Task, CopyIgnore(t) PROVE TypeOK'
  <2>1. DOMAIN dirs' = DOMAIN dirs /\ dirs' \in [DOMAIN dirs' -> Hash]
    BY <1>8 DEF CopyIgnore, TypeOK, Hash
  <2>2. work' = [work EXCEPT ![t].hash.ignore = ignore]
    BY <1>8 DEF CopyIgnore, copy_and_hash
  <2>3. work' \in [Task -> [built : Nat, id : Nat, hash : Hash]]
    BY <2>2 DEF TypeOK, Hash
  <2> QED BY <1>8, <2>1, <2>3 DEF CopyIgnore, TypeOK
<1>9. ASSUME NEW t \in Task, Store(t) PROVE TypeOK'
  BY <1>9 DEF Store, TypeOK, NoWork, NoHash, Unset, Hash, ConfigProvenance
<1>10. ASSUME NEW t \in Task, Fail(t) PROVE TypeOK'
  BY <1>10 DEF Fail, TypeOK, NoWork, NoHash, Unset, Hash
<1>11. CASE RecordEnqueued
  BY <1>11 DEF RecordEnqueued, TypeOK
<1>12. CASE Edit
  BY <1>12 DEF Edit, TypeOK, Missing
<1>13. CASE Refuse \/ UNCHANGED vars
  BY <1>13 DEF Refuse, vars, TypeOK
<1> QED
  BY <1>1, <1>2, <1>3, <1>4, <1>5, <1>6, <1>7, <1>8, <1>9, <1>10, <1>11, <1>12, <1>13
     DEF Next, SnapshotStep

\* Every variable keeps its type, for any bounds.
THEOREM TypeCorrect == Spec => []TypeOK
<1>1. Init => TypeOK
  <2> SUFFICES ASSUME Init PROVE TypeOK
    OBVIOUS
  <2>1. DOMAIN dirs = {} /\ dirs \in [{} -> Hash]
    BY DEF Init
  <2>2. NoHash \in Hash
    BY DEF NoHash, Unset, Hash
  <2>3. work \in [Task -> [built : Nat, id : Nat, hash : Hash]]
    BY <2>2 DEF Init, NoWork
  <2>4. provenance \in ConfigProvenance /\ rows \subseteq ConfigProvenance
    BY <2>2 DEF Init, ConfigProvenance
  <2>5. dirs \in [DOMAIN dirs -> Hash] /\ DOMAIN dirs \subseteq 1..MaxSnapshots
    BY <2>1
  <2>6. clock \in 0..MaxSnapshots
    BY ProvenanceAssumption DEF Init
  <2> QED BY <2>3, <2>4, <2>5, <2>6 DEF Init, TypeOK, Missing
<1> QED BY <1>1, TypeStep, PTL DEF Spec

-----------------------------------------------------------------------------
(* Rows and their snapshots *)

Busy(t) == pc[t] \in {"watchlist", "ignore", "store"}

\* A directory that one snapshot wrote holds what the hash says.
Fits(id, hash) == id \notin reused => id \in DOMAIN dirs /\ dirs[id] = hash

\* A snapshot in progress has a directory, and as much of it as is copied fits.
CopyInv ==
    \A t \in Task :
        /\ Busy(t) => work[t].id \in DOMAIN dirs
        /\ ~Busy(t) => work[t].id = 0
        /\ pc[t] = "ignore" /\ work[t].id \notin reused
              => dirs[work[t].id].watchlist = work[t].hash.watchlist
        /\ pc[t] = "store" => Fits(work[t].id, work[t].hash)

\* Nothing else names the directory of a snapshot in progress, or it is reused.
OwnInv ==
    \A t \in Task : Busy(t) /\ work[t].id \notin reused =>
        /\ work[t].id # provenance.snapshot_id
        /\ \A r \in rows : work[t].id # r.snapshot_id
        /\ \A u \in Task \ {t} : work[t].id # work[u].id

StoredInv ==
    serving \/ pc["reload"] = "sink" =>
        Fits(provenance.snapshot_id, provenance.config_hash)

RowsInv == \A r \in rows : Fits(r.snapshot_id, r.config_hash)

SnapshotInv ==
    CopyInv /\ OwnInv /\ StoredInv /\ RowsInv /\ (clock > 0 => clock \in DOMAIN dirs)

\* A step that touches neither directories nor ids.
LEMMA SnapshotFrame ==
    ASSUME TypeOK, SnapshotInv, UNCHANGED <<dirs, provenance, rows, reused, clock>>,
           \A t \in Task : /\ work'[t].id = work[t].id /\ work'[t].hash = work[t].hash
                           /\ pc'[t] = pc[t] \/ (~Busy(t) /\ ~Busy(t)'),
           serving' => serving \/ pc["reload"] = "sink",
           pc'["reload"] = "sink" => pc["reload"] = "sink"
    PROVE  SnapshotInv'
BY DEF SnapshotInv, CopyInv, OwnInv, StoredInv, RowsInv, Fits, Busy, Task

\* A new directory is named by nothing yet.
LEMMA NewDirectory ==
    ASSUME TypeOK, SnapshotInv, NEW t \in Task, MakeDir(t)
    PROVE  SnapshotInv'
<1>1. /\ clock' \in 1..MaxSnapshots /\ clock' \notin Named
      /\ UNCHANGED <<provenance, rows, serving>>
      /\ work' = [work EXCEPT ![t].id = clock']
      /\ pc' = [pc EXCEPT ![t] = "watchlist"] /\ pc[t] = "dir"
  BY DEF MakeDir, Unused, Goto, files
<1>2. /\ work'[t].id = clock' /\ pc'[t] = "watchlist"
      /\ \A u \in Task \ {t} : work'[u] = work[u] /\ pc'[u] = pc[u]
  BY <1>1 DEF TypeOK
<1>3. /\ clock' \in DOMAIN dirs' /\ clock' \notin reused'
      /\ \A id \in Named : /\ id \in DOMAIN dirs => id \in DOMAIN dirs' /\ dirs'[id] = dirs[id]
                           /\ id \in reused' <=> id \in reused
  BY <1>1 DEF MakeDir
<1>4. \A id \in Named : \A hash : Fits(id, hash) => Fits(id, hash)'
  BY <1>3 DEF Fits
<1>5. /\ provenance.snapshot_id \in Named
      /\ \A u \in Task : work[u].id \in Named
      /\ \A r \in rows : r.snapshot_id \in Named
  BY DEF Named
<1>6. CopyInv'
  <2>1. \A u \in Task \ {t} : Busy(u)' <=> Busy(u)
    BY <1>2 DEF Busy
  <2>2. Busy(t)'
    BY <1>2 DEF Busy
  <2>3. ASSUME NEW u \in Task \ {t}
        PROVE  /\ Busy(u)' => work'[u].id \in DOMAIN dirs'
               /\ ~Busy(u)' => work'[u].id = 0
               /\ pc'[u] = "ignore" /\ work'[u].id \notin reused'
                     => dirs'[work'[u].id].watchlist = work'[u].hash.watchlist
               /\ pc'[u] = "store" => Fits(work[u].id, work[u].hash)'
    <3>1. work'[u] = work[u] /\ pc'[u] = pc[u] /\ work[u].id \in Named
      BY <1>2, <1>5
    <3>2. pc[u] = "ignore" => work[u].id \in DOMAIN dirs
      BY DEF SnapshotInv, CopyInv, Busy
    <3>3. pc[u] = "store" => Fits(work[u].id, work[u].hash)
      BY DEF SnapshotInv, CopyInv
    <3>4. pc[u] = "store" => Fits(work[u].id, work[u].hash)'
      BY <1>4, <3>1, <3>3
    <3> QED BY <1>3, <2>1, <3>1, <3>2, <3>4 DEF SnapshotInv, CopyInv
  <2> QED BY <1>2, <1>3, <2>2, <2>3 DEF CopyInv
<1>7. OwnInv'
  <2> SUFFICES ASSUME NEW u \in Task, Busy(u)', work'[u].id \notin reused'
               PROVE  /\ work'[u].id # provenance.snapshot_id
                      /\ \A r \in rows : work'[u].id # r.snapshot_id
                      /\ \A v \in Task \ {u} : work'[u].id # work'[v].id
    BY <1>1 DEF OwnInv
  <2>1. CASE u = t
    BY <1>1, <1>2, <1>5, <2>1
  <2>2. CASE u # t
    <3>1. Busy(u) /\ work[u].id \notin reused /\ work[u].id \in Named
      BY <1>2, <1>3, <1>5, <2>2 DEF Busy
    <3> QED BY <1>1, <1>2, <2>2, <3>1 DEF SnapshotInv, OwnInv
  <2> QED BY <2>1, <2>2
<1>8. StoredInv'
  <2>1. (serving \/ pc["reload"] = "sink")' => serving \/ pc["reload"] = "sink"
    BY <1>1, <1>2 DEF Task
  <2> QED BY <1>1, <1>4, <1>5, <2>1 DEF SnapshotInv, StoredInv
<1>9. RowsInv'
  BY <1>1, <1>4, <1>5 DEF SnapshotInv, RowsInv
<1> QED BY <1>3, <1>6, <1>7, <1>8, <1>9 DEF SnapshotInv

\* A directory used again is marked.
LEMMA SameDirectory ==
    ASSUME TypeOK, SnapshotInv, NEW t \in Task, ReuseDir(t)
    PROVE  SnapshotInv'
<1>1. /\ clock > 0 /\ UNCHANGED <<provenance, rows, serving, dirs, clock>>
      /\ pc[t] = "dir" /\ reused' = reused \cup {clock}
      /\ work' = [work EXCEPT ![t].id = clock] /\ pc' = [pc EXCEPT ![t] = "watchlist"]
  BY DEF ReuseDir, Goto, shared
<1>2. /\ work'[t].id = clock /\ pc'[t] = "watchlist"
      /\ \A u \in Task \ {t} : work'[u] = work[u] /\ pc'[u] = pc[u]
  BY <1>1 DEF TypeOK
<1>3. \A id, hash : Fits(id, hash) => Fits(id, hash)'
  BY <1>1 DEF Fits
<1>4. CopyInv'
  BY <1>1, <1>2, <1>3 DEF SnapshotInv, CopyInv, Busy
<1>5. OwnInv'
  <2> SUFFICES ASSUME NEW u \in Task, Busy(u)', work'[u].id \notin reused'
               PROVE  /\ work'[u].id # provenance.snapshot_id
                      /\ \A r \in rows : work'[u].id # r.snapshot_id
                      /\ \A v \in Task \ {u} : work'[u].id # work'[v].id
    BY <1>1 DEF OwnInv
  <2>1. u # t /\ Busy(u) /\ work[u].id \notin reused /\ work[u].id # clock
    BY <1>1, <1>2 DEF Busy
  <2> QED BY <1>1, <1>2, <2>1 DEF SnapshotInv, OwnInv
<1>6. StoredInv'
  BY <1>1, <1>2, <1>3 DEF SnapshotInv, StoredInv, Task
<1>7. RowsInv'
  BY <1>1, <1>3 DEF SnapshotInv, RowsInv
<1> QED BY <1>1, <1>4, <1>5, <1>6, <1>7 DEF SnapshotInv

\* A copy changes the directory of its own snapshot only.
LEMMA Copy ==
    ASSUME TypeOK, SnapshotInv, NEW t \in Task, CopyWatchlist(t) \/ CopyIgnore(t)
    PROVE  SnapshotInv'
<1> DEFINE own == work[t].id
<1>1. /\ UNCHANGED <<provenance, rows, serving, reused, clock>>
      /\ Busy(t) /\ Busy(t)' /\ pc'[t] # "sink"
      /\ work'[t].id = own
      /\ \A u \in Task \ {t} : work'[u] = work[u] /\ pc'[u] = pc[u]
      /\ DOMAIN dirs' = DOMAIN dirs
      /\ \A id \in DOMAIN dirs : id # own => dirs'[id] = dirs[id]
  BY DEF CopyWatchlist, CopyIgnore, Busy, Goto, TypeOK
<1>2. own \in DOMAIN dirs
  BY <1>1 DEF SnapshotInv, CopyInv
<1>3. /\ pc'[t] = "ignore" => dirs'[own].watchlist = work'[t].hash.watchlist
      /\ pc'[t] = "store" /\ own \notin reused => dirs'[own] = work'[t].hash
  <2>1. CASE CopyWatchlist(t)
    BY <1>2, <2>1 DEF CopyWatchlist, copy_and_hash, Goto, TypeOK, Hash
  <2>2. CASE CopyIgnore(t)
    <3>1. /\ dirs' = [dirs EXCEPT ![own].ignore = ignore]
          /\ work' = [work EXCEPT ![t].hash.ignore = ignore]
          /\ pc'[t] = "store" /\ pc[t] = "ignore"
      BY <2>2 DEF CopyIgnore, copy_and_hash, Goto, TypeOK
    <3>2. own \notin reused => dirs[own].watchlist = work[t].hash.watchlist
      BY <3>1 DEF SnapshotInv, CopyInv
    <3>3. dirs[own] \in Hash /\ work[t].hash \in Hash
      BY <1>2 DEF TypeOK
    <3>4. dirs'[own] = [dirs[own] EXCEPT !.ignore = ignore]
      BY <1>2, <3>1 DEF TypeOK
    <3>5. work'[t].hash = [work[t].hash EXCEPT !.ignore = ignore]
      BY <3>1 DEF TypeOK
    <3>6. own \notin reused => dirs'[own] = work'[t].hash
      BY <3>2, <3>3, <3>4, <3>5 DEF Hash
    <3> QED BY <3>1, <3>6
  <2> QED BY <2>1, <2>2
<1>4. ASSUME NEW id, NEW hash, id = own => own \in reused, Fits(id, hash)
      PROVE  Fits(id, hash)'
  BY <1>1, <1>4 DEF Fits
<1>5. CopyInv'
  <2> SUFFICES ASSUME NEW u \in Task
               PROVE  /\ Busy(u)' => work'[u].id \in DOMAIN dirs'
                      /\ ~Busy(u)' => work'[u].id = 0
                      /\ pc'[u] = "ignore" /\ work'[u].id \notin reused'
                            => dirs'[work'[u].id].watchlist = work'[u].hash.watchlist
                      /\ pc'[u] = "store" => Fits(work[u].id, work[u].hash)'
    BY DEF CopyInv
  <2>1. CASE u = t
    BY <1>1, <1>2, <1>3, <2>1 DEF Fits
  <2>2. CASE u # t
    <3>1. work'[u] = work[u] /\ pc'[u] = pc[u] /\ (Busy(u)' <=> Busy(u))
      BY <1>1, <2>2 DEF Busy
    <3>2. Busy(u) /\ work[u].id = own => own \in reused
      BY <1>1, <2>2 DEF SnapshotInv, OwnInv
    <3>3. pc[u] \in {"ignore", "store"} => Busy(u)
      BY DEF Busy
    <3>4. pc[u] = "store" => Fits(work[u].id, work[u].hash)
      BY DEF SnapshotInv, CopyInv
    <3>5. pc[u] = "store" => Fits(work[u].id, work[u].hash)'
      BY <1>1, <3>1, <3>2, <3>3, <3>4 DEF Fits
    <3> QED BY <1>1, <3>1, <3>2, <3>3, <3>5 DEF SnapshotInv, CopyInv
  <2> QED BY <2>1, <2>2
<1>6. OwnInv'
  BY <1>1 DEF SnapshotInv, OwnInv, Busy
<1>7. StoredInv'
  BY <1>1, <1>4 DEF SnapshotInv, StoredInv, OwnInv, Task
<1>8. RowsInv'
  BY <1>1, <1>4 DEF SnapshotInv, RowsInv, OwnInv
<1> QED BY <1>1, <1>5, <1>6, <1>7, <1>8 DEF SnapshotInv

\* The task is done with its directory, which the provenance may now name.
LEMMA Finish ==
    ASSUME TypeOK, SnapshotInv, NEW t \in Task, Store(t) \/ Fail(t)
    PROVE  SnapshotInv'
<1>1. /\ UNCHANGED <<rows, serving, reused, clock, dirs>>
      /\ ~Busy(t)' /\ work'[t].id = 0
      /\ \A u \in Task \ {t} : work'[u] = work[u] /\ pc'[u] = pc[u]
      /\ \/ /\ provenance' = provenance
            /\ pc'["reload"] = "sink" => pc["reload"] = "sink"
         \/ /\ provenance' = [snapshot_id |-> work[t].id, config_hash |-> work[t].hash]
            /\ pc[t] = "store"
  BY DEF Store, Fail, Busy, Goto, TypeOK, NoWork, files, shared, Task
<1>2. \A id, hash : Fits(id, hash) <=> Fits(id, hash)'
  BY <1>1 DEF Fits
<1>3. CopyInv'
  BY <1>1, <1>2 DEF SnapshotInv, CopyInv, Busy
<1>4. OwnInv'
  <2> SUFFICES ASSUME NEW u \in Task, Busy(u)', work'[u].id \notin reused'
               PROVE  /\ work'[u].id # provenance'.snapshot_id
                      /\ \A r \in rows' : work'[u].id # r.snapshot_id
                      /\ \A v \in Task \ {u} : work'[u].id # work'[v].id
    BY DEF OwnInv
  <2>1. u # t /\ Busy(u) /\ work'[u] = work[u] /\ work[u].id \notin reused
    BY <1>1 DEF Busy
  <2>2. work[u].id # 0
    BY <2>1 DEF SnapshotInv, CopyInv, TypeOK
  <2> QED BY <1>1, <2>1, <2>2 DEF SnapshotInv, OwnInv
<1>5. StoredInv'
  BY <1>1, <1>2 DEF SnapshotInv, StoredInv, CopyInv
<1>6. RowsInv'
  BY <1>1, <1>2 DEF SnapshotInv, RowsInv
<1> QED BY <1>1, <1>3, <1>4, <1>5, <1>6 DEF SnapshotInv

\* A row is stamped with what is stored.
LEMMA RowStamped ==
    ASSUME TypeOK, SnapshotInv, RecordEnqueued
    PROVE  SnapshotInv'
<1>1. /\ rows' = rows \cup {provenance} /\ serving
      /\ UNCHANGED <<provenance, dirs, clock, pc, work, serving, reused>>
  BY DEF RecordEnqueued, shared
<1> QED BY <1>1 DEF SnapshotInv, CopyInv, OwnInv, StoredInv, RowsInv, Fits, Busy

LEMMA SnapshotStepInv == TypeOK /\ SnapshotInv /\ [Next]_vars => SnapshotInv'
<1> SUFFICES ASSUME TypeOK, SnapshotInv, [Next]_vars PROVE SnapshotInv'
  OBVIOUS
<1>1. CASE Build \/ Swap \/ DailyTick
  <2>1. UNCHANGED <<dirs, provenance, rows, reused, clock, serving>>
    BY <1>1 DEF Build, Swap, DailyTick, shared
  <2>2. \A t \in Task : /\ work'[t].id = work[t].id /\ work'[t].hash = work[t].hash
                        /\ pc'[t] = pc[t] \/ (~Busy(t) /\ ~Busy(t)')
    BY <1>1 DEF Build, Swap, DailyTick, Goto, Busy, TypeOK, Task
  <2>3. pc'["reload"] = "sink" => pc["reload"] = "sink"
    BY <1>1 DEF Build, Swap, DailyTick, Goto, TypeOK, Task
  <2> QED BY <2>1, <2>2, <2>3, SnapshotFrame
<1>2. CASE OpenSink
  <2>1. UNCHANGED <<dirs, provenance, rows, reused, clock, work>> /\ pc["reload"] = "sink"
    BY <1>2 DEF OpenSink
  <2>2. \A t \in Task : pc'[t] = pc[t] \/ (~Busy(t) /\ ~Busy(t)')
    BY <1>2 DEF OpenSink, Goto, Busy, TypeOK, Task
  <2> QED BY <2>1, <2>2, SnapshotFrame
<1>3. ASSUME NEW t \in Task, SnapshotStep(t) \/ Fail(t) PROVE SnapshotInv'
  BY <1>3, NewDirectory, SameDirectory, Copy, Finish DEF SnapshotStep
<1>4. CASE RecordEnqueued
  BY <1>4, RowStamped
<1>5. CASE Edit \/ Refuse \/ UNCHANGED vars
  <2>1. UNCHANGED <<dirs, provenance, rows, reused, clock, work, pc, serving>>
    BY <1>5 DEF Edit, Refuse, vars, shared
  <2> QED BY <2>1, SnapshotFrame
<1> QED BY <1>1, <1>2, <1>3, <1>4, <1>5 DEF Next

\* However start-up, reloads, daily snapshots, edits and failures interleave, a
\* row's hash is the hash of what its snapshot directory holds.
THEOREM RowsMatch == Spec => []RowMatchesSnapshot
<1>1. Init => SnapshotInv
  BY DEF Init, SnapshotInv, CopyInv, OwnInv, StoredInv, RowsInv, Fits, Busy, NoWork, Task
<1>2. SnapshotInv => RowMatchesSnapshot
  BY DEF SnapshotInv, RowsInv, Fits, RowMatchesSnapshot
<1> QED BY <1>1, <1>2, TypeCorrect, SnapshotStepInv, PTL DEF Spec
=============================================================================
