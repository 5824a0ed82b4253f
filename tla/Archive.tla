------------------------------- MODULE Archive -------------------------------
(***************************************************************************)
(* MatchArchive (src/archive.rs): rows are appended through a BufWriter to *)
(* matches.jsonl; a live file of MaxBytes is sealed under a timestamped    *)
(* name, gzipped, and the oldest sealed chunks are deleted until the       *)
(* directory fits its budget.  The main task is the only writer, but every *)
(* file operation may fail, the process may crash between any two, and     *)
(* config snapshots written by other tasks grow the same directory.        *)
(*                                                                         *)
(* Rows are numbered in the order record_enqueued is called; a row may     *)
(* have any size, so a file is rotated once it has MaxBytes and may be     *)
(* longer.  A torn line is one of which only a part is in the file: it and *)
(* the row appended right after it are one unreadable line.  Nanosecond    *)
(* timestamps are numbered and increase.                                   *)
(***************************************************************************)
EXTENDS Integers, Sequences, FiniteSets, FiniteSetsExt

CONSTANTS
    MaxBytes,      \* ARCHIVE_MAX_BYTES
    Budget,        \* ARCHIVE_MAX_TOTAL_BYTES, 0 for unlimited
    RowBytes,      \* the sizes a row may have,
    MaxRowBytes,   \*   up to the largest
    BufBytes,      \* the BufWriter's capacity
    SessionBytes,  \* bytes between two session flushes (64 KiB)
    GzipBytes,     \* the sizes a gzipped file may have,
    GzipExtra,     \*   up to what gzip adds to a file it cannot shrink
    SnapshotBytes, \* size of one config snapshot
    Scenarios,     \* sets of file operations that may fail, and "crash"
    Missing,       \* no file
    MaxRows,       \* bounds of the model: calls of record_enqueued,
    MaxSnapshots,  \*   config snapshots,
    MaxCrashes     \*   crashes

Operation == {"flush", "placeholder", "rename", "gzip", "unlink", "list",
              "remove", "open", "crash"}

ASSUME ArchiveAssumption ==
    /\ MaxBytes \in Nat \ {0} /\ Budget \in Nat
    /\ MaxRowBytes \in Nat /\ RowBytes \subseteq 1..MaxRowBytes
    /\ BufBytes \in Nat \ {0} /\ SessionBytes \in Nat
    /\ GzipBytes \subseteq Nat /\ GzipExtra \in Nat /\ SnapshotBytes \in Nat
    /\ Scenarios \subseteq SUBSET Operation
    /\ MaxRows \in Nat /\ MaxSnapshots \in Nat /\ Missing \notin Seq(Nat)

VARIABLES
    live,     \* the lines of matches.jsonl, or Missing
    len,      \* its length in bytes
    sealed,   \* the sealed files: [stamp, gz, lines, bytes]
    writer,   \* what the BufWriter writes to: "live" or an "unlinked" file
    buf,      \* rows in the BufWriter
    left,     \* bytes in the BufWriter
    half,     \* a part of Head(buf) is already in the file
    session,  \* bytes_written_session
    pc,       \* what the main task does next; "down" after a crash
    row,      \* the row being recorded
    queue,    \* prune_sealed_to_budget: siblings not yet visited
    stamp,    \* the last timestamp taken
    snapshots,
    counted,  \* rows in archive_events_written
    pruned,   \* rows of the files pruning deleted
    crashes, tears,  \* crashes and torn lines so far
    faulty    \* the operations that may fail on this disk

fileVars == <<live, len, sealed, writer>>
bufVars == <<buf, left, half, session>>
history == <<counted, pruned, crashes, tears>>
vars == <<fileVars, bufVars, pc, row, queue, stamp, snapshots, history,
          faulty>>

Torn == 0

Lines(file) == IF file = Missing THEN <<>> ELSE file

\* The rows of a file that parse.
Readable(file) ==
    {file[i] : i \in {j \in DOMAIN file :
                        file[j] # Torn /\ (j > 1 => file[j - 1] # Torn)}}

Chunk(last) == [stamp : 1..last, gz : BOOLEAN, lines : Seq(0..MaxRows), bytes : Nat]

TypeOK ==
    /\ live \in Seq(0..MaxRows) \cup {Missing} /\ len \in Nat
    /\ sealed \in SUBSET Chunk(stamp)
    /\ writer \in {"live", "unlinked"}
    /\ buf \in Seq(1..MaxRows) /\ Len(buf) <= 1
    /\ left \in Nat /\ half \in BOOLEAN /\ session \in Nat
    /\ pc \in {"idle", "write", "rename", "gzip", "copy", "unlink", "prune", "reopen", "down"}
    /\ row \in 0..MaxRows
    /\ queue \in SUBSET [stamp : 1..stamp, gz : BOOLEAN]
    /\ stamp \in Nat /\ snapshots \in Nat
    /\ counted \in SUBSET (1..row) /\ pruned \in SUBSET (1..MaxRows)
    /\ crashes \in Nat /\ tears \in Nat
    /\ faulty \in SUBSET Operation

Size(c) == c.bytes
Name(c) == [stamp |-> c.stamp, gz |-> c.gz]
Newest == CHOOSE c \in sealed : ~c.gz /\ c.stamp = stamp

\* Every file of the directory counts, the snapshots' included.
dir_byte_total ==
    MapThenSumSet(Size, sealed) + len + SnapshotBytes * snapshots

Init ==
    /\ live = <<>> /\ len = 0 /\ sealed = {} /\ writer = "live"
    /\ buf = <<>> /\ left = 0 /\ half = FALSE /\ session = 0
    /\ pc = "idle" /\ row = 0 /\ queue = {} /\ stamp = 0 /\ snapshots = 0
    /\ counted = {} /\ pruned = {} /\ crashes = 0 /\ tears = 0
    /\ faulty \in Scenarios

Fails(op) == op \in faulty

\* Lines and bytes go where the writer points; an unlinked file has no reader.
WriteLines(lines) ==
    live' = IF writer = "live" THEN live \o lines ELSE live
WriteBytes(n) ==
    len' = IF writer = "live" THEN len + n ELSE len

FlushBuffer ==
    /\ WriteLines(buf) /\ WriteBytes(left)
    /\ buf' = <<>> /\ left' = 0 /\ half' = FALSE

\* An error ends record_enqueued: the caller warns, the row is forgotten.
Return == pc' = "idle"

-----------------------------------------------------------------------------
(* record_enqueued: flush, check the length, write *)

\* A part of the n bytes in the BufWriter reaches the file before a flush
\* fails; the rest stays.
PartlyFlushed(n) ==
    \E k \in 0..(n - 1) :
        /\ WriteBytes(k)
        /\ left' = n - k
        /\ half' = (half \/ k > 0)

\* The flush at the head of rotate_live_if_needed fails.
FlushFails ==
    /\ pc = "idle" /\ row < MaxRows /\ Fails("flush") /\ buf # <<>>
    /\ row' = row + 1
    /\ PartlyFlushed(left)
    /\ UNCHANGED <<live, sealed, writer, buf, session, pc, queue, stamp, snapshots, history, faulty>>

\* Mutant of Record: a live file with room is not flushed first.
RecordUnflushed ==
    /\ pc = "idle" /\ row < MaxRows
    /\ row' = row + 1
    /\ IF len < MaxBytes
          THEN pc' = "write" /\ UNCHANGED <<live, len, writer, buf, left, half>>
          ELSE pc' = "rename" /\ writer' = "unlinked" /\ FlushBuffer
    /\ UNCHANGED <<sealed, session, queue, stamp, snapshots, history, faulty>>

\* The buffer is flushed; a full live file is rotated before the write: the
\* writer is replaced by one to a placeholder that is unlinked at once.
Record ==
    /\ pc = "idle" /\ row < MaxRows
    /\ row' = row + 1
    /\ FlushBuffer
    /\ IF len' < MaxBytes
          THEN pc' = "write" /\ UNCHANGED writer
          ELSE \/ pc' = "rename" /\ writer' = "unlinked"
               \/ Fails("placeholder") /\ Return /\ UNCHANGED writer
    /\ UNCHANGED <<sealed, session, queue, stamp, snapshots, history, faulty>>

\* A row that fits stays in the BufWriter.
WriteBuffered ==
    /\ pc = "write"
    /\ \E n \in RowBytes :
         /\ n < BufBytes /\ session + n < SessionBytes
         /\ left' = left + n /\ session' = session + n
    /\ buf' = Append(buf, row) /\ counted' = counted \cup {row}
    /\ Return
    /\ UNCHANGED <<fileVars, half, row, queue, stamp, snapshots,
                   pruned, crashes, tears, faulty>>

\* The row reaches the file: it does not fit the BufWriter, or the session
\* flush is due.
WriteThrough ==
    /\ pc = "write"
    /\ \E n \in RowBytes :
         /\ n >= BufBytes \/ session + n >= SessionBytes
         /\ WriteBytes(left + n)
         /\ session' = IF session + n >= SessionBytes THEN 0 ELSE session + n
    /\ WriteLines(Append(buf, row)) /\ buf' = <<>> /\ left' = 0
    /\ counted' = counted \cup {row}
    /\ Return
    /\ UNCHANGED <<sealed, writer, half, row, queue, stamp, snapshots,
                   pruned, crashes, tears, faulty>>

\* The session flush fails: the row stays in the BufWriter, uncounted, and the
\* next call flushes again.
SessionFlushFails ==
    /\ pc = "write" /\ Fails("flush")
    /\ \E n \in RowBytes :
         /\ n < BufBytes /\ session + n >= SessionBytes
         /\ session' = session + n
         /\ PartlyFlushed(left + n)
    /\ buf' = Append(buf, row)
    /\ Return
    /\ UNCHANGED <<live, sealed, writer, row, queue, stamp, snapshots, history, faulty>>

\* A row that does not fit the BufWriter fails part way through, and nothing
\* keeps the rest.
WriteTorn ==
    /\ pc = "write" /\ Fails("flush")
    /\ \E n \in RowBytes : \E k \in 0..(n - 1) :
         /\ n >= BufBytes
         /\ WriteBytes(k)
         /\ IF k > 0 THEN WriteLines(<<Torn>>) /\ tears' = tears + 1
                     ELSE UNCHANGED <<live, tears>>
    /\ Return
    /\ UNCHANGED <<sealed, writer, bufVars, row, queue, stamp, snapshots,
                   counted, pruned, crashes, faulty>>

-----------------------------------------------------------------------------
(* rotate_live_if_needed: seal, gzip, prune, reopen *)

Rename ==
    /\ pc = "rename"
    /\ sealed' = sealed \cup {[stamp |-> stamp + 1, gz |-> FALSE, lines |-> live, bytes |-> len]}
    /\ stamp' = stamp + 1
    /\ live' = Missing /\ len' = 0
    /\ pc' = "gzip"
    /\ UNCHANGED <<writer, bufVars, row, queue, snapshots, history, faulty>>

\* The writer stays on the unlinked placeholder, the full file in place: the
\* next call tries again.
RenameFails ==
    /\ pc = "rename" /\ Fails("rename")
    /\ Return
    /\ UNCHANGED <<fileVars, bufVars, row, queue, stamp, snapshots, history, faulty>>

StartPrune ==
    /\ pc' = "prune"
    /\ queue' = {Name(c) : c \in sealed'}

\* How large gzip may make a file of n bytes.
Gzipped(n) == {m \in GzipBytes : m <= n + GzipExtra}

\* gzip_seal: the .gz file is created and written to, how far only a failure or
\* a crash tells; it is unreadable until it is complete, ...
GzipCreate ==
    /\ pc = "gzip"
    /\ \E n \in {0} \cup Gzipped(Newest.bytes) :
         sealed' = sealed \cup {[stamp |-> stamp, gz |-> TRUE, lines |-> <<>>, bytes |-> n]}
    /\ pc' = "copy"
    /\ UNCHANGED <<live, len, writer, bufVars, row, queue, stamp, snapshots, history, faulty>>

Filled(c, n) ==
    IF c.stamp = stamp /\ c.gz THEN [c EXCEPT !.lines = Newest.lines, !.bytes = n] ELSE c

\* ... finished, ...
GzipFinish ==
    /\ pc = "copy"
    /\ \E n \in Gzipped(Newest.bytes) : sealed' = {Filled(c, n) : c \in sealed}
    /\ pc' = "unlink"
    /\ UNCHANGED <<live, len, writer, bufVars, row, queue, stamp, snapshots, history, faulty>>

\* ... and the plain file removed.
GzipUnlink ==
    /\ pc = "unlink"
    /\ sealed' = sealed \ {Newest}
    /\ StartPrune
    /\ UNCHANGED <<live, len, writer, bufVars, row, stamp, snapshots, history, faulty>>

\* An error in any of the three is a warning; what is there stays.
GzipFails ==
    /\ \/ pc \in {"gzip", "copy"} /\ Fails("gzip")
       \/ pc = "unlink" /\ Fails("unlink")
    /\ sealed' = sealed
    /\ StartPrune
    /\ UNCHANGED <<live, len, writer, bufVars, row, stamp, snapshots, history, faulty>>

OverBudget == Budget > 0 /\ dir_byte_total > Budget

\* Mutant of oldest: siblings are visited newest first.
newest(q) == {n \in q : \A m \in q : m.stamp <= n.stamp}

\* The order list_sealed gives: by timestamp, a chunk and its .gz in any order.
oldest(q) == {n \in q : \A m \in q : n.stamp <= m.stamp}

\* The oldest sealed file not yet visited is deleted; a failure is a warning.
Prune ==
    /\ pc = "prune" /\ OverBudget /\ queue # {}
    /\ \E n \in oldest(queue) :
         /\ queue' = queue \ {n}
         /\ \/ sealed' = {c \in sealed : Name(c) # n}
            \/ Fails("remove") /\ sealed' = sealed
         /\ pruned' = pruned \cup UNION {Readable(c.lines) : c \in sealed \ sealed'}
    /\ UNCHANGED <<live, len, writer, bufVars, pc, row, stamp, snapshots,
                   counted, crashes, tears, faulty>>

\* Pruning ends within the budget, with nothing left to delete, or because the
\* directory cannot be listed.
PruneEnds ==
    /\ pc = "prune"
    /\ ~OverBudget \/ queue = {} \/ Fails("list")
    /\ queue' = {}
    /\ pc' = IF live = Missing THEN "reopen" ELSE "idle"
    /\ UNCHANGED <<fileVars, bufVars, row, stamp, snapshots, history, faulty>>

Reopen ==
    /\ pc = "reopen"
    /\ live' = <<>> /\ writer' = "live"
    /\ pc' = "write"
    /\ UNCHANGED <<len, sealed, bufVars, row, queue, stamp, snapshots, history, faulty>>

\* The live file is gone and the writer still on the unlinked placeholder: the
\* next call finds no file of MaxBytes and writes to it.
ReopenFails ==
    /\ pc = "reopen" /\ Fails("open")
    /\ Return
    /\ UNCHANGED <<fileVars, bufVars, row, queue, stamp, snapshots, history, faulty>>

-----------------------------------------------------------------------------
(* Other tasks, crash and restart *)

\* write_config_snapshot, by a reload or by the daily task.
Snapshot ==
    /\ pc # "down" /\ snapshots < MaxSnapshots
    /\ snapshots' = snapshots + 1
    /\ UNCHANGED <<fileVars, bufVars, pc, row, queue, stamp, history, faulty>>

Crash ==
    /\ pc # "down" /\ Fails("crash") /\ crashes < MaxCrashes
    /\ crashes' = crashes + 1
    /\ IF half /\ writer = "live"
          THEN live' = Append(live, Torn) /\ tears' = tears + 1
          ELSE UNCHANGED <<live, tears>>
    /\ buf' = <<>> /\ left' = 0 /\ half' = FALSE /\ session' = 0
    /\ pc' = "down" /\ queue' = {}
    /\ UNCHANGED <<len, sealed, writer, row, stamp, snapshots, counted, pruned, faulty>>

\* open: the live file is opened or created and the sealed ones pruned.
Open ==
    /\ pc = "down"
    /\ live' = Lines(live) /\ writer' = "live" /\ sealed' = sealed
    /\ StartPrune
    /\ UNCHANGED <<len, bufVars, row, stamp, snapshots, history, faulty>>

\* The bound on rows is reached; nothing else stops the program.
Rest == pc = "idle" /\ row = MaxRows /\ UNCHANGED vars

Next ==
    \/ FlushFails \/ Record
    \/ WriteBuffered \/ WriteThrough \/ SessionFlushFails \/ WriteTorn
    \/ Rename \/ RenameFails
    \/ GzipCreate \/ GzipFinish \/ GzipUnlink \/ GzipFails
    \/ Prune \/ PruneEnds \/ Reopen \/ ReopenFails
    \/ Snapshot \/ Crash \/ Open \/ Rest

Spec == Init /\ [][Next]_vars

-----------------------------------------------------------------------------
(* Properties *)

\* The rows a reader of the directory finds.
Found == Readable(Lines(live)) \cup UNION {Readable(c.lines) : c \in sealed}

InMemory == IF writer = "live" THEN {buf[i] : i \in DOMAIN buf} ELSE {}

\* The archive is an append-only log with a budget: no fault of rotation, no
\* crash and no order of file operations makes a row leave the disk unless all
\* older rows have left it, or loses one that has reached it.  Torn lines and
\* chunks that cannot be deleted are beyond it.
Sound == ~Fails("flush") /\ ~Fails("remove")
Log == INSTANCE RowLog WITH pending <- IF Sound THEN InMemory ELSE {},
                            kept <- IF Sound THEN Found ELSE {}
ImplementsRowLog == Log!Spec

\* As long as the live file can be reopened, what record_enqueued has counted
\* can be read back, is in memory, or was deleted for the budget, but for one
\* row in memory per crash and one row per torn line it was appended to.
CountedRowsAccounted ==
    ~Fails("open") =>
        Cardinality(counted \ (Found \cup InMemory \cup pruned)) <= crashes + tears

\* What README.md:17 says of archive/matches.jsonl, "EVERY hit, per cert": a
\* row counted as written is in the archive, in memory or pruned, as long as
\* the process lives.
EveryHitArchived == counted \subseteq (Found \cup InMemory \cup pruned)

\* A file is rotated before the first row it gets beyond MaxBytes.
LargestFile == MaxBytes - 1 + MaxRowBytes

\* The budget holds a full live file, a sealed one twice, once plain and once
\* gzipped, and the snapshots.
RoomForNewest ==
    \/ Budget = 0
    \/ Budget >= 3 * LargestFile + GzipExtra + SnapshotBytes * MaxSnapshots

\* Such a budget never costs the chunk sealed last, unless an older chunk cannot
\* be deleted.
NewestChunkSurvives ==
    [][RoomForNewest =>
         \A c \in sealed : ~Fails("remove") /\ c.stamp = stamp /\ stamp' = stamp =>
           Readable(c.lines) \subseteq UNION {Readable(d.lines) : d \in sealed'}]_vars
=============================================================================
