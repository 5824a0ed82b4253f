# Verification of ct-firehose-filter

TLA+ modules, TLC configurations and TLAPS proofs for the service under
`src/src/`: a process that reads Certificate Transparency frames from a
certstream WebSocket, keeps those that name a watched brand, archives them, and
turns them, in batches, into alerts about brand combinations seen for the first
time.

Paths in this file are relative to the repository, with the crate's own sources
written as `batch.rs` for `src/src/batch.rs`.

## 1. Inventory

| Component | State | Operations | What makes it correct |
|---|---|---|---|
| Ingress (`ingress.rs`) | WebSocket session, reconnect delay, ping timer | connect, read a frame, send it to the frame channel, ping/pong, back off, stop on cancellation | never wedges shutdown; the delay stays within its bounds; the session is kept alive |
| Pipeline main loop (`pipeline.rs`) | frame and match channels, match in hand, counters | receive, drop, archive, `try_send`, backpressure, leave, flush, cancel, join | every frame accounted for once; archive and channel agree; exit only after the batcher drained; no deadlock |
| Egress batcher (`batch.rs`) | buffer, `batch_started_at`, place in `run` | receive, flush by size, bytes, deadline or close, retry | nothing lost, repeated or reordered; batches within limits; deadline not late; everything delivered in the end |
| Novelty sink (`novelty_sink.rs`) | mutex around store and writers, policy | open, `send_batch` | a retried batch does no harm beyond recounting |
| Novelty decision (`novelty_alert.rs`) | none of its own | `process_match`: count, strip hubs, gate, insert, decide | a coalition is decided once; a hub stays out; nothing during burn-in |
| Novelty store (`novelty.rs`) | SQLite tables `brand_degree`, `brand_partners`, `coalitions`, `hosts`, `meta`, `multi_brand_certs` and the capture outbox | counters, inserts, burn-in test, hub floor, migrations | key and fact atomic; counters never behind; survives a crash between any two statements; a migration loses nothing |
| Alerts file (`alerts_file.rs`) | `BufWriter`, live file, sealed chunks | `write_line`, rotate, gzip, prune | lines whole and unrepeated; the writer points at the live file |
| Research archive (`archive.rs`) | `BufWriter`, live file, sealed chunks, session byte counter, provenance | `record_enqueued`, `flush`, rotate, prune, snapshot | a crash loses little; rows and enqueues agree; a row names a complete snapshot |
| Provenance and hot reload (`main.rs`, `watchlist.rs`) | watchlist and provenance behind atomic swaps | reload, daily snapshot | a row's hash is that of its snapshot; the stored provenance comes to name the watchlist in use |
| Watchlist and parsing (`watchlist.rs`, `parse.rs`) | immutable per swap | pure functions of a frame | verdict equals a reference definition; a key is of one registrant; what a SAN list is cut to keeps the matched hosts |
| Metrics and status (`metrics.rs`, `status.rs`) | atomics, rate sampler | increment, serve | counters agree with events |
| Entry point and configuration (`main.rs`, `config.rs`) | environment, cancellation token | parse, validate, open everything in order, start tasks, Ctrl-C | a start under the guard makes no database; the configuration hash tells policies apart; Ctrl-C reaches every task |

How they interact:

    certstream -> ingress --frame channel--> main loop --match channel--> batcher -> sink
                                               |                                  |-> SQLite (+ outbox)
                                               |-> research archive               |-> alerts file
    Ctrl-C -> cancellation token, watched by ingress, main loop and status server (not by the batcher)
    reload task -> watchlist swap, provenance swap -> archive rows

Both channels are bounded by the same capacity. The sink is called by the
batcher only, one batch at a time; a failed call is repeated for ever with the
same batch. The batcher learns of shutdown only by the closing of the match
channel. The main task joins ingress and batcher before it returns.

What is hard here, with the line where it bites and the property that watches
it, is the list `hazards` of `PROJECT.json`. In short: backpressure meeting
shutdown; archive and channel drifting apart; a batch half done, then repeated
or lost in a crash; the burn-in gate read before the count it depends on; and
the rotations and swaps that replace a file or a configuration under a writer.

## 2. Modules

| Module | Models | Composes |
|---|---|---|
| `Delivery` | abstract queue: accept, deliver in order, end | |
| `Batcher` | `batch.rs` with the match channel, any producer, any sink | implements `Delivery` |
| `Pipeline` | `run_pipeline_with_archive`, hand-over in `ingress.rs`, rows of `archive.rs`, counters of `metrics.rs`, Ctrl-C, crash | `Batcher`, as an instance |
| `AlertFeed` | abstract feed: announce once, silence for good, publish | |
| `Novelty` | `novelty_sink.rs`, `novelty_alert.rs`, `novelty.rs`, `write_line` of `alerts_file.rs` | implements `AlertFeed` |
| `RowLog` | abstract append-only log with a byte budget | |
| `Archive` | `MatchArchive` of `archive.rs`: writing, rotation, pruning, session flush, open | implements `RowLog` |
| `AlertsFile` | `alerts_file.rs`: writing, rotation, pruning, open | implements `RowLog` |
| `Ingress` | `ingress.rs`: sessions, pings, backoff, cancellation | |
| `Provenance` | snapshots and reload in `main.rs` and `archive.rs`, the swap in `watchlist.rs` | |
| `Migration` | `NoveltyStore::open`, statement by statement | |
| `Startup` | `config.rs`, the lenient readers, the order of checks in `main.rs` and `NoveltySink::open` | |
| `Frames` | `parse.rs`, matching in `watchlist.rs`, compaction of SAN lists in `archive.rs`, as operators | |
| `BatcherProofs`, `PipelineProofs`, `NoveltyProofs`, `ProvenanceProofs`, `ArchiveProofs`, `AlertsFileProofs` | theorems about the module each is named for | |
| `IngressProofs` | theorems about `Ingress` and `Frames`: what comes in, and what becomes of it | |
| `StartupProofs` | theorems about `Startup` and `Migration`: a start, and the opening of the store it ends in | |
| `MCBatcher`, `MCPipeline`, `MCNovelty`, `MCAlertsFile`, `MCFrames` | the values the configurations use | |

Operators whose comment begins "Mutant of" change one definition the way a
plausible bug would. No action of a specification uses them: they record which
mistake each property catches. `Migration` and `Frames` prefix the names every
specification has (`StoreSpec`, `FrameSpec`), because a module of proofs extends
each of them together with another specification.

### Batcher

`chan`/`txOpen` are the match channel; `buffer`, `batchAge` are `Batcher.buffer`
and the time since `batch_started_at`; `pc` is the await the task is at, and
`loop` says which of the three callers of `send_prefix_with_retry` is running
(`flush_ready`, the flush at the deadline, the flush at the close). `Receive` is
one turn of the loop including `enqueue`, the test of `flush_ready` and the
entry into a send; `SinkOk` is an acknowledgement with everything up to the next
await: drain, the loop test, the return. `ages` is a history variable that
records how long each event has really been in the buffer. Time is counted in
ticks up to `FlushInterval`; the code compares an age with the interval only.
`Tick` does not pass a deadline an idle task is due to serve; while a send is
being retried it does, as it can in the code.

### Pipeline

A frame is the verdict of parsing and filtering: a match event, or one of
`ignored`, `malformed`, `suppressed`, after the counter it is dropped under. The
main task is at `select`, `offer` (before `try_send`), `blocked` (in the
`send` under backpressure), then `closing`, `joining`, `exited`. `Archive` is
`record_enqueued`: the rotation check flushes what the `BufWriter` holds, then
the new row is written, each of which may fail; the caller only logs it. A
rotation that fails after the writer went to the placeholder (`detached`) sends
all that is flushed later to an unlinked file: `Flushed` then adds nothing.
`StopIngress` can come while the ingress task waits in `frame_tx.send`, because
`run_ingress_with_metrics` selects over the whole of `drain_connection`. A
`Crash` loses the `BufWriter`; nothing of the process is modelled after it.

The archive is assumed configured. Its files, and what becomes of them after a
fault, are in `Archive`: here a flushed row is in the file or, when `detached`, in
none.

### Novelty

Each SQL statement outside a transaction, and each transaction, is one step of
`Novelty`: `Record` (`record_cooccurrence` or `record_appearances`, after the
burn-in gate was read), the three `Classify` actions (the branch of
`process_match` on the number of brands left after hub stripping, with its
insert), `InsertHost` per pair, `WriteAlert`, `WriteCandidate`. Between any two
the step may fail (`StepFails`, `WriteAlertFails`), which ends `send_batch` with
an error and leads to `Retry` of the whole batch, or the process may crash. A
coalition key is the set of its brands: the code joins the sorted names with
U+001F, which no brand contains. `facts` stands for a row of `multi_brand_certs`
and its outbox row, which the capture trigger adds in the same transaction.
`lines` is every alert that ever reached the live file, sealed chunks included;
`residue` is what a failed flush left in the `BufWriter`.

`insert_multi_brand_cert` returns an error of COMMIT without a ROLLBACK. The
database is in WAL mode and has one writer, so only the disk can refuse the
COMMIT, and SQLite has then rolled back by itself: the model lets the transaction
fail as a whole. A line is
written whole or not at all here (torn lines are in `AlertsFile`), and the wall
clock does not step back.

### RowLog, Archive, AlertsFile

`RowLog` numbers rows in the order they were accepted and promises that only the
oldest leave the disk and only those in memory are lost in a crash. Both file
modules take every file operation as a step, with a constant set of operations
that may fail on the disk of the run; `"crash"` is one of them. What tells the
two apart is where the writer points during a rotation:

* `Archive` replaces the writer by one to a placeholder that is unlinked at once
  (`writer = "unlinked"`), renames, gzips, prunes and only then reopens. `Record`
  is the flush and the length check at the head of `record_enqueued`;
  `WriteBuffered` and `WriteThrough` are the write with the session counter.
* `AlertsFile` keeps the writer on the file it renames (`writer` is the stamp the
  file was renamed to). `WriteLine` flushes every line; `CheckLength` is the
  test before a rotation; `Start` is `open_append`, which rotates first.

A torn line is an element of its own; with it the row that follows it on the
same line is lost to a reader. A line that does not fit the `BufWriter` goes
straight to the file and may stop part-way (`WriteTorn` of both).

`Archive` counts bytes. A row has any size of `RowBytes`, and the length is tested
before it is written, so a file may be longer than `MaxBytes`, up to
`LargestFile`; a finished gzip has any size of `GzipBytes` up to `GzipExtra` more
than the file it was made of, an unfinished one any of those or none.
`RoomForNewest` asks for a budget of three of the largest files (live, plain and
gzipped copy) and the snapshots. `AlertsFile` counts lines, a gzipped chunk taking
half. The removal of the placeholder is taken to succeed, as its error is ignored.

`Sound` names the disks on which a file is a `RowLog`. It leaves out those where
flushes or deletions fail or, for the alerts file, the last two steps of a
rotation: there the counting properties `CountedRowsAccounted` and
`AckedLinesFound` speak, and the refinement says nothing. `WriterKeepsFile`
names the settings and disks under which no fault leaves the writer of
`AlertsFile` on a file that is about to lose its name: the rotation cannot fail
once the file is renamed, or nothing is gzipped and the chunk just sealed, which
the writer then still has open, fits the budget.

Config snapshots share the archive's directory and its budget, so `Snapshot`
grows what `dir_byte_total` sums.

### Ingress

One task: `connecting`, `select`, `sending` (inside the arm that read a frame),
`backoff`, `stopped`. Time is in ticks; work that is ready takes no time. The
server is external: it may close a session, refuse one, or drop a client it has
not heard for `ServerIdle` ticks; a link may die silently, which only a failing
ping tells, or fall silent in the handshake (`HandshakeStalls`, `link =
"silent"`): `connect_async` has no timeout and pings start after it, so only
Ctrl-C or the server itself ends that wait. `MissedTickBehavior::Delay` is the
reset of `pingDue` at a late ping.

### Provenance

The reload task, when the settings ask for one (`reloads`), and the daily task
run `write_config_snapshot` file by file over files that operators edit and
delete. A file is the version it has, `Missing` when there is none, which is
copied and hashed as an empty one; a hash is the versions hashed. The versions
of `Corrupt` and a missing watchlist cannot be loaded: a reload then waits for
the next round, a start-up is refused. A directory is named for its second:
`MakeDir` takes an id that nothing names, `ReuseDir` the last one, when a second
snapshot starts within the same second. Start-up is the reload task's first
round, ending in `OpenSink`.

### Migration

The statements of `open` on a database of any age: the schema, the rename of a
column with the update that captures the rows again, the capture triggers, the
copy of `aprime_alerts` and the `DROP`. Each commits by itself, and a crash may
come after any. `older` are the rows a build without capture stored: a database may
hold them with or without triggers.

### Startup

A raw value is unset, unreadable, a word, or a number up to the limits it is
held against. `from_env` refuses unreadable values of one group of keys, the
other readers replace them by defaults; `validate` is next, and then the
openings in their order, each of which may refuse the start. `Restart` is the
supervisor's, after an operator changed a key or lost the volume. The thresholds
have two sets of defaults in the code, `PolicyDefault` and `HashDefault`, and two
in the model.

### Frames

A name is a sequence of labels, so every comparison of names is the one the code
makes at label boundaries. `parse_certstream_frame` keeps each early return and
error; `inspect_outcome` walks `host_suffixes`; `compact_all_domains` cuts a SAN
list. The loops are the recursive functions `under_any` and `fill`. The public
suffix list is a constant. The state is one frame, one watchlist and the outcome,
so that TLC enumerates the inputs.

## 3. Runs

| Run | Checks | Bounds and why they suffice |
|---|---|---|
| `batcher` | `NothingLost`, `BatchWithinLimits`, `TimerCoversOldest`, `ImplementsDelivery` with its fairness | events of 1, 2, 4 and 5 bytes against a byte budget of 4 and 3 messages: each limit is met alone and together, splits of two and three sends and leftovers occur, and an oversize event ends the batcher at every point; 4 events; channel of 2 |
| `pipeline` | `FramesAccounted`, `ArchiveTracksQueue`, `CrashCostsLastMatch`, `ExitAfterDrain`, `ImplementsBatcher` | channels of 1, 3 frames in total, each of any kind: enough for a full match channel, a blocked main task, a full frame channel and a frame in the ingress task's hand |
| `pipeline_live` | `ShutdownCompletes`, `BackpressureResolves`, `DeadBatcherEndsLoop` | 5 frames, batches of one, with oversize events: every slot on the way is filled and the batcher can die behind a blocked send |
| `novelty` | `SeenOnce`, `AnnouncedOnce`, `AckedIsCounted`, `HostAnnouncedOnce`, `HubStays`, `NoFactInBurnIn`, `ImplementsAlertFeed`, `BatchAcknowledged` | both tiers, three brands of which one is ignored, a routine pair, a mega-SAN cert, degree cap 2, df cap 4, burn-in of one second and one event; batches of up to 2, 3 events in all, 2 failures, 1 crash: a coalition can be met in burn-in, after it, as high-df, and again in a retry and after a restart |
| `archive` | `CountedRowsAccounted`, `ImplementsRowLog`, `NewestChunkSurvives` | 5 rows of 1 or 2 bytes, files of 2 and so up to 3 bytes, gzipped files of 1 or 3, a `BufWriter` of 2, budget of 10 (the least that is `RoomForNewest`), one snapshot, one crash: rows that are buffered and that are not, four rotations, so pruning starts, with plain and gzipped chunks; three disks, so that every operation fails in one of them |
| `archive_reopen` | `EveryHitArchived`, violated | 6 rows and a disk on which only the reopening fails |
| `alerts_file` | `AckedLinesFound`, `ImplementsRowLog` | 6 lines, files of 2, budget of 3, 2 crashes; three disks, with and without gzip |
| `ingress` | `IdleDropMeansWaited`, `SleepWithinPolicy`, `SessionRestored` | delays from 2 to a maximum of 7, which is no power of two; ping interval of 2 below an idle limit of 4; channel of 1; 4 faults, so that the delay reaches its maximum |
| `provenance` | `RowMatchesSnapshot`, `ProvenanceCatchesUp` | with and without a reload task; 2 mishaps (edits, deletions and failed copies together), one edited version that cannot be loaded; 1 row; 3 ids: the provenance, a row and both tasks can name up to four, so here a task that finds none free reuses the last; theorem `RowsMatch` covers any number |
| `migration` | `CapturedOnce`, `AlertsKept` | 3 rows, in every database an older build can have left, captured or not; 2 crashes |
| `startup` | `HashCoversThresholds`, `RequireDbCreatesNothing` | environments that differ from an empty one in one key, or in two that are held against one another; 3 starts, the key or the volume changing in between |
| `frames` | `MatchesAreSuffixes`, `EvidenceFits`, `OneRegistrantPerKey`, `RowKeepsEvidence` | SAN lists of up to 2 and some of 4 out of 9 names, watchlists of up to 2 lines out of 9, a suffix list with an entry below an unlisted name, a cap of 2, every malformed field |

Every bound is a CONSTANT named for what it bounds: `MaxSent`, `MaxFrames`,
`MaxItems`, `MaxRows`, `MaxFaults`, `MaxMishaps`, `MaxCrashes`, `MaxSnapshots`,
`MaxStall`, `MaxStarts`, `MaxLines`, `MaxClock`. No symmetry is used,
and no run turns the deadlock check off: a state the program may rest in has a
stuttering action of its own (`Terminated`, `Halted`, `Idle`, `Rest`, `Ended`,
`Done`). A type invariant stands in every module that has theorems, where it is
proved, and is not run beside the properties.

### Disagreements found

One is checked by a run: when the live archive file cannot be reopened after a
rotation (`archive.rs:468`), rows are counted as written and go to an unlinked
file, against `src/README.md:17` (run `archive_reopen`). After a rename
that fails, rows are refused with an error until a rotation, tried again with each,
succeeds. `CrashCostsLastMatch` and `ArchiveTracksQueue` therefore promise nothing
once `record_enqueued` has reported an error.

The others were read off the code while the modules were written, and the
modules do what the code does:

* A leftover of a split by the byte budget keeps the start time of the batch
  that was sent (`batch.rs:107`), so its deadline fires early, against the
  comment at `batch.rs:77`. It never fires late (`TimerCoversOldest`).
* A match is archived before it is enqueued and may be dropped in between
  (`pipeline.rs:235`), so the archive can hold one match that was not enqueued;
  `ArchiveTracksQueue` says by how little the two differ.
* An archive write that fails is only logged, so an alert may have no archive
  row, against `src/README.md:49`.
* A batch that fails after an event was counted is counted again when it is sent
  again, so `brand_degree.events` is not the document frequency `novelty.rs:241`
  calls it; it is never too small (`AckedIsCounted`).
* A rotation of the alerts file that fails after the rename leaves the writer on
  the renamed file (`alerts_file.rs:210`). With gzip on that file is unlinked,
  with a budget below one chunk it is pruned, and acknowledged lines go with it.
  `AckedLinesFound` holds where `WriterKeepsFile` rules this out.
* A line longer than the 8 KiB of a `BufWriter` bypasses it (`archive.rs:374`,
  `alerts_file.rs:204`): when the write fails part-way, half a line stays in the
  file and nothing keeps the rest.
* A crash between the end of the gzip and the removal of the plain chunk
  (`archive.rs:563`) leaves the same rows in two files.
* A crash between the column rename and the update that captures the rows again
  (`novelty.rs:195`) leaves the outbox with the old key for good: the next open
  sees the new column.
* While `frame_tx.send` waits, no ping is sent (`ingress.rs:180`): the server may
  drop the client as idle. Only that can cause such a drop
  (`IdleDropMeansWaited`).
* `connect_async` has no timeout (`ingress.rs:146`) and pings start after it: a
  server that falls silent in the handshake leaves the ingress task waiting until
  Ctrl-C. `SessionRestored` excepts that case.
* Rows written between the swap of a new watchlist and the store of its
  provenance carry the old one; the daily snapshot records the files as they are
  on disk; the ignore files are loaded only at start; a second snapshot within
  one second rewrites the directory of the first. A reload does not apply
  `WATCHLIST_MIN_LEN`.
* Without a reload task, which is the default (`config.rs:132`), or while every
  reload fails (`main.rs:136`), the daily task goes on to store the hash of files
  that were never loaded; a missing file is copied and hashed as an empty one
  (`archive.rs:732`). `ProvenanceCatchesUp` holds with a reload task once the files
  rest with a watchlist that can be loaded.
* `NOVELTY_SKIP_ROUTINE` and `NOVELTY_CANDIDATES`, which sets
  `NoveltyPolicy.emit_candidates` (`novelty_sink.rs:113`), are not in the
  configuration hash, so policies that differ in them share one; the defaults of
  the thresholds are written twice (`archive.rs:658`, `novelty_alert.rs:100`), and
  only their agreement makes `HashCoversThresholds` hold; a threshold that does
  not parse falls back to its default in silence.
* `etld1` refuses a line that is a registry, but a name that is no entry of the
  suffix list and has entries below it (`kobe.jp`, under `*.kobe.jp`) becomes a key
  that covers those registries; so does a private suffix of three labels or more
  cover its customers. `OneRegistrantPerKey` excepts exactly these.
* Rows that a database without capture triggers already held are captured by no
  later open, unless the column rename updates them (`novelty.rs:134`); `CapturedOnce`
  is about the others.

## 4. Fairness

* Tasks are polled while they are ready: weak fairness of the batcher's own
  steps, of the main task's, of `FrameSent` and `StopIngress` (tokio wakes a
  task whose await has become ready), of the sink's sequential steps, of the
  steps of `Ingress` and of each task of `Provenance`, whose timers fire again.
  `Connect` gets it only while the handshake has not gone silent, and `Build`,
  which needs a reload task and a loadable file, is not assumed to be enabled.
* The clock runs: weak fairness of `Tick`.
* The sink eventually accepts: strong fairness of `SinkOk`, which is disabled
  between attempts by the retry sleep. This is an assumption about the sink. The
  code retries for ever, so without it nothing can be promised, shutdown
  included; that is listed as a hazard. `Novelty` shows what the assumption
  rests on: `BatchAcknowledged` holds with failures bounded by `MaxFaults`.
* In `Ingress`, strong fairness where two ready arms of a `select` compete and
  tokio picks one at random: the end of a session, the ping and its failure; and
  of the main task's `TakeFrame`, which the channel enables again and again.
* Nothing makes an event or a frame arrive, Ctrl-C be pressed, an edit be made or
  a crash happen.

## 5. Proofs

Proved with TLAPS for every value of the constants, from the assumptions each
module names. Each module of proofs has `TypeCorrect`, the base of the others.

`BatcherProofs`:

* `BatchNeverEmpty`: `BatchInv` says that every buffered event is within the byte
  budget and that a send under way has between one event and the whole buffer.
  The first half is what makes it inductive: `prefix_len` of a buffer whose first
  event fits is at least 1 (`PrefixNotEmpty`).
* `BatchesWithinLimits`: `FitsInv` says that the prefix being sent got past
  `prefix_len`. That the recursive function `Bytes` is defined, and adds one event
  at a time, is shown by an induction written out: a set of naturals that misses
  one misses a least one (`Least`). The loops of `Frames` use the same argument
  (`Turns`, `LoopDefined`).
* `NoLoss` and `CleanReturn`: one invariant, `OrderInv`, gives both. It adds to
  the two properties that the final flush runs only with the channel closed and
  empty, and that a result is set only when the task has ended; the work is the
  algebra of `SubSeq` and concatenation in `SinkOk`.
* `TimerIsNeverLate`: `TimerInv` says that no buffered event, not just the
  oldest, is older than `batchAge`; that is what survives a partial drain.
* `DeliveryImplemented`: each action maps to an action of `Delivery` or a
  stutter, using `NothingLost` to read a batch as the next slice of `accepted`.

`PipelineProofs`:

* `BatcherImplemented`: the main task is a producer the batcher allows. It sends
  matches only and never after it dropped the sender, which is `HandInv`. With
  it, `BatcherProofs` holds of the composed program: the module is instantiated
  (`BP`) and its invariants carried through the refinement (`QueueInv`).
* `CrashCostsLittle`: `WriterInv` says that until an error at most one row is in
  memory and the writer has its file; with `ArchiveInv`, the rows then are the
  matches sent and at most one more, so all but the last are in the file.
* `EveryFrameAccounted`: `CountInv` says the same of each place of the main task:
  a match in hand is counted as seen and not yet as anything else.
* `ArchiveTracks`: `ArchiveInv` says at which places the match in hand has a row.
* `ExitDrains`: the main task exits only behind a batcher that has ended
  (`ExitInv`), which then has a result (`EndedInv`), and by `CleanReturn` a result
  of Ok means that everything was delivered.

`NoveltyProofs`:

* `SeenOnceHolds`, inductive by itself.
* `AnnouncedOnceHolds`: needs `PendingInv`, that the alert in hand names a fact
  and no line holds that alert yet, those in the `BufWriter` included.
* `HostsAnnouncedOnce`: needs `GatherInv`, that the hosts gathered for the brand
  in hand have rows and are in no alert of it; a host is gathered only when it
  had no row, and only for a lone brand.
* `AckedCounted`: `CountedInv` counts, beside what is acknowledged, the events of
  the batch that this attempt has passed; a failure or a crash forgets them and
  keeps their counts.
* `FeedImplemented`: maps `lines` to the set of coalitions they name.
* `HubsStay`, `BurnInEnds`, `NoFactBeforeBurnIn`: action properties. The last
  needs `GateInv`: a gate read as open is still open when the event is
  classified, because clock and counter only grow and the start is never reset.

`IngressProofs`: `DelayWithinPolicy` from the range of `with_jitter`;
`IdleDropNeedsWait` from `PingInv`, which adds the two timers of a session that
has not waited: their sum stays within the ping interval, which the property
takes to be below the server's limit.

`ProvenanceProofs`: `RowsMatch`. `SnapshotInv` follows a directory from its
creation: what has been copied agrees with the hash so far (`CopyInv`), nothing
else names the directory while it is written unless it was reused (`OwnInv`),
and the stored provenance fits (`StoredInv`) when a row takes it.

`StartupProofs`, of `Startup`: `NoDbIsMade`, from `Checked` (whoever opens the
database has passed the check); `HashTellsPolicies`, from `HashDecidesPolicy`: two
environments with one hash and the same two unhashed switches have one policy,
however many keys they differ in, because the two sets of defaults agree
(`ThresholdDefaults`). Of `Migration`:
`NoAlertDropped`, from `StoreProgress`, which says at each statement what the
database already holds; `EachRowCapturedOnce`, inductive with `StoreProgress`,
from a lemma on how `Append` changes the inserts of a sequence.

`ArchiveProofs`, of the disk under every fault:

* `TypeCorrect` carries `WriterInv` (where the writer points at each step of a
  rotation) and `ChunkInv` (a name is one file; during `gzip_seal` the chunk is
  there, and its copy is absent, empty or full).
* `CountedRowsAreAccounted`: `LossInv` counts the rows lost so far and the one
  that a torn last line is about to cost (`Pending`); their sum stays within
  crashes and torn lines.
* `LogImplemented`: `Orderly` orders the rows of chunks, live file and memory. A
  write is `Accept` of `RowLog`, a flush `Persist`, a deletion `Expire`, and every
  step of a rotation leaves the log as it is.
* `NewestSurvives`: `FitInv` bounds every plain file by `LargestFile`, the row in
  memory included, and its copy by `GzipExtra` more; `QueueInv` says that pruning still has every chunk before it. When it
  comes to the newest, only its copy is left, and `RoomForNewest` is enough.

`AlertsFileProofs`, likewise:

* `AckedLinesAreFound`: `LossInv` again, with the lines of a flush in flight and
  the torn ones in the buffer; `FinishInv` and `WholeInv` are the two ways in
  which `WriterKeepsFile` keeps the writer on a file that has a name.
* `LogImplemented`: every line is flushed, so `WriteLine` is `Accept` and `Prune`
  is `Expire`.

`IngressProofs`, of `Frames`, for any frames, files, suffix list and cap:
`MatchesAreExact` (the walk over suffixes finds what the reference definition
`Under` finds), `EvidenceIsComplete`, `KeyIsOneRegistrant` (a key is one label
longer than a listed suffix; a host under it without a listed suffix below the key
has that suffix too, so `KeyOfHost` gives it the same key) and
`RowsKeepEvidence` (`FillIs`: after each turn the loop has at most the cap, only
domains it has seen, and all of those while there is room). `InspectIs` shows on
the way that the second early return of `inspect_outcome`
(`watchlist.rs:171`) is never taken.

The assumptions on constants are those the modules state: sizes and counts are
naturals, a limit the code requires to be positive is, `Missing` is no file.

Only model-checked: every liveness property, because the prover has no rule for
fairness here (`BatchAcknowledged`, `ShutdownCompletes`, `BackpressureResolves`,
`DeadBatcherEndsLoop`, `SessionRestored`, `ProvenanceCatchesUp`, and the
fairness in `ImplementsDelivery`, whose safety part is `DeliveryImplemented`).
Every other property of a passing run is proved. Proved and not run:
`OkMeansDrained` (`CleanReturn`), `BurnInEndsOnce` (`BurnInEnds`), `BatchInv`
and the type invariants.

## 6. Plan and limits

What would come next: the hand-over of `Pipeline` replaced by `Ingress`, its row
buffer by `Archive` and its sink by `Novelty`, so that an alert can be followed
from frame to file, with the theorems of each carried through its instance the way
`PipelineProofs` carries those of `BatcherProofs`; and the liveness properties as
soon as a prover takes fairness.

Not modelled, and why:

* The status server (`status.rs`): it reads the counters, the clock and the disk
  and changes nothing but its own rate sample and its `keep_up` hint. The
  product hint, `alerts_file_stats` and `archive_disk_warn` with `statvfs` only
  report; so does the progress logger.
* `dates.rs` and the optional metadata of a frame: formatting.
* The stdout and recording sinks: to the batcher they are the sink of `Batcher`.
* The certstream server and the capture collector: external programs, present
  as the environment of `Ingress` and as the reader of the outbox.
* `examples/`, `scripts/` and `deploy/`: they share no state with the running
  service.
