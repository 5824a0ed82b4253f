----------------------------- MODULE AlertsFile -----------------------------
(***************************************************************************)
(* The alerts file (src/alerts_file.rs): write_line appends a line,        *)
(* flushes, and when the live file has MaxBytes renames it under the open  *)
(* writer, gzips it, prunes the oldest chunks and only then opens a new    *)
(* live file.  Every file operation may fail and the process may crash     *)
(* between any two.  The caller (module Novelty) fails its batch on an     *)
(* error and never issues that line again.                                 *)
(*                                                                         *)
(* Lines are numbered in the order of the calls, sizes are in lines, a     *)
(* gzipped chunk takes half.  A torn line is one that lacks its newline:   *)
(* it and the line right after it in the file are one unreadable line.     *)
(***************************************************************************)
EXTENDS Integers, Sequences, FiniteSets, FiniteSetsExt

CONSTANTS
    MaxBytes,     \* NOVELTY_ALERTS_MAX_BYTES
    Budget,       \* NOVELTY_ALERTS_MAX_TOTAL_BYTES
    Scenarios,    \* [gzip: NOVELTY_ALERTS_GZIP, faulty: the file operations
                  \*   that may fail, and "crash"]
    Missing,      \* no file
    MaxRows,      \* bounds of the model: calls of write_line,
    MaxCrashes    \*   crashes

Operation == {"flush", "rename", "gzip", "unlink", "prune", "remove", "open", "crash"}

ASSUME AlertsFileAssumption ==
    /\ MaxBytes \in Nat \ {0} /\ Budget \in Nat \ {0}
    /\ Scenarios \subseteq [gzip : BOOLEAN, faulty : SUBSET Operation]
    /\ MaxRows \in Nat /\ Missing \notin Seq(Nat)

VARIABLES
    live,     \* the lines of alerts.jsonl, or Missing
    sealed,   \* the sealed files: [stamp, gz, lines]
    writer,   \* Live, NoWriter, or the stamp its file was renamed to
    buf,      \* lines in the BufWriter
    half,     \* a part of Head(buf) is already in the file
    pc,       \* what the caller's thread does next; "down" after a crash
    row,      \* the line being written
    queue,    \* prune_to_budget: siblings not yet visited
    stamp,    \* the last timestamp taken
    acked,    \* lines write_line returned Ok for
    pruned,   \* lines of the files pruning deleted
    crashes, tears,   \* crashes and torn lines so far
    disk      \* the scenario

fileVars == <<live, sealed, writer>>
bufVars == <<buf, half>>
history == <<acked, pruned, crashes, tears>>
vars == <<fileVars, bufVars, pc, row, queue, stamp, history, disk>>

Torn == 0
Live == 0
NoWriter == -1

Lines(file) == IF file = Missing THEN <<>> ELSE file

Readable(file) ==
    {file[i] : i \in {j \in DOMAIN file :
                        file[j] # Torn /\ (j > 1 => file[j - 1] # Torn)}}

Chunk(last) == [stamp : 1..last, gz : BOOLEAN, lines : Seq(0..MaxRows)]

TypeOK ==
    /\ live \in Seq(0..MaxRows) \cup {Missing}
    /\ sealed \in SUBSET Chunk(stamp)
    /\ writer \in {NoWriter, Live} \cup 1..stamp
    /\ buf \in Seq(0..MaxRows) /\ half \in BOOLEAN
    /\ pc \in {"idle", "check", "rename", "gzip", "copy", "unlink", "prune", "open", "down"}
    /\ row \in 0..MaxRows
    /\ queue \in SUBSET [stamp : 1..stamp, gz : BOOLEAN]
    /\ stamp \in Nat
    /\ acked \in SUBSET (1..row) /\ pruned \in SUBSET (1..MaxRows)
    /\ crashes \in Nat /\ tears \in Nat
    /\ disk \in Scenarios

Size(c) == IF c.gz THEN (Len(c.lines) + 1) \div 2 ELSE Len(c.lines)
Name(c) == [stamp |-> c.stamp, gz |-> c.gz]
Newest == CHOOSE c \in sealed : ~c.gz /\ c.stamp = stamp

total_alerts_bytes == Len(Lines(live)) + MapThenSumSet(Size, sealed)

Init ==
    /\ live = <<>> /\ sealed = {} /\ writer = Live
    /\ buf = <<>> /\ half = FALSE
    /\ pc = "idle" /\ row = 0 /\ queue = {} /\ stamp = 0
    /\ acked = {} /\ pruned = {} /\ crashes = 0 /\ tears = 0
    /\ disk \in Scenarios

Fails(op) == op \in disk.faulty

\* The lines go to the file the writer has open, whatever its name is now.
WriteLines(lines) ==
    /\ live' = IF writer = Live THEN live \o lines ELSE live
    /\ sealed' = {IF c.stamp = writer /\ ~c.gz THEN [c EXCEPT !.lines = @ \o lines]
                                               ELSE c : c \in sealed}

\* write_line returns Ok, or an error; an error of open_append at start ends
\* the process.
Ok == pc' = "idle" /\ acked' = acked \cup {row}
Err == pc' = IF writer = NoWriter THEN "down" ELSE "idle"

-----------------------------------------------------------------------------
(* write_line *)

\* What an error leaves in the BufWriter once k lines are in the file.
Remainder(lines, k) == SubSeq(lines, k + 1, Len(lines))

WriteLine ==
    /\ pc = "idle" /\ row < MaxRows
    /\ row' = row + 1
    /\ LET lines == Append(buf, row + 1)
       IN  \/ /\ WriteLines(lines) /\ buf' = <<>> /\ half' = FALSE
              /\ pc' = "check"
           \/ \E k \in 0..Len(buf) :
                 /\ Fails("flush")
                 /\ WriteLines(SubSeq(lines, 1, k)) /\ buf' = Remainder(lines, k)
                 /\ half' \in IF k = 0 THEN {half, TRUE} ELSE BOOLEAN
                 /\ Err
    /\ UNCHANGED <<writer, queue, stamp, history, disk>>

\* The BufWriter is full and cannot be emptied: the line is not taken, or taken
\* without its newline.
WriteRefused ==
    /\ pc = "idle" /\ row < MaxRows /\ Fails("flush") /\ buf # <<>>
    /\ row' = row + 1
    /\ \/ UNCHANGED <<buf, tears>>
       \/ buf' = Append(buf, Torn) /\ tears' = tears + 1
    /\ Err
    /\ UNCHANGED <<fileVars, half, queue, stamp, acked, pruned, crashes, disk>>

\* A line that does not fit the BufWriter (8 KiB) goes straight to the file once
\* the buffer is empty, and may stop part-way with nothing kept in memory.
WriteTorn ==
    /\ pc = "idle" /\ row < MaxRows /\ Fails("flush")
    /\ row' = row + 1
    /\ buf' = <<>> /\ half' = FALSE
    /\ \/ WriteLines(buf) /\ UNCHANGED tears
       \/ WriteLines(Append(buf, Torn)) /\ tears' = tears + 1
    /\ Err
    /\ UNCHANGED <<writer, queue, stamp, acked, pruned, crashes, disk>>

\* fs::metadata of the path: a file that is not there needs no rotation.
CheckLength ==
    /\ pc = "check"
    /\ IF Len(Lines(live)) < MaxBytes
          THEN Ok
          ELSE pc' = "rename" /\ UNCHANGED acked
    /\ UNCHANGED <<fileVars, bufVars, row, queue, stamp, pruned, crashes, tears, disk>>

-----------------------------------------------------------------------------
(* rotate_if_needed: seal, gzip, prune *)

StartPrune ==
    /\ pc' = "prune"
    /\ queue' = {Name(c) : c \in sealed'}

\* The open writer follows its file to the new name.
Rename ==
    /\ pc = "rename"
    /\ stamp' = stamp + 1
    /\ sealed' = sealed \cup {[stamp |-> stamp', gz |-> FALSE, lines |-> live]}
    /\ live' = Missing
    /\ writer' = IF writer = Live THEN stamp' ELSE writer
    /\ IF disk.gzip THEN pc' = "gzip" /\ UNCHANGED queue ELSE StartPrune
    /\ UNCHANGED <<bufVars, row, history, disk>>

RenameFails ==
    /\ pc = "rename" /\ Fails("rename")
    /\ Err
    /\ UNCHANGED <<fileVars, bufVars, row, queue, stamp, history, disk>>

GzipCreate ==
    /\ pc = "gzip"
    /\ sealed' = sealed \cup {[stamp |-> stamp, gz |-> TRUE, lines |-> <<>>]}
    /\ pc' = "copy"
    /\ UNCHANGED <<live, writer, bufVars, row, queue, stamp, history, disk>>

GzipFinish ==
    /\ pc = "copy"
    /\ sealed' = {IF c.stamp = stamp /\ c.gz THEN [c EXCEPT !.lines = Newest.lines]
                                             ELSE c : c \in sealed}
    /\ pc' = "unlink"
    /\ UNCHANGED <<live, writer, bufVars, row, queue, stamp, history, disk>>

GzipUnlink ==
    /\ pc = "unlink"
    /\ sealed' = sealed \ {Newest}
    /\ StartPrune
    /\ UNCHANGED <<live, writer, bufVars, row, stamp, history, disk>>

\* An error is a warning: the chunk stays uncompressed, beside what there is
\* of the .gz.
GzipFails ==
    /\ \/ pc \in {"gzip", "copy"} /\ Fails("gzip")
       \/ pc = "unlink" /\ Fails("unlink")
    /\ sealed' = sealed
    /\ StartPrune
    /\ UNCHANGED <<live, writer, bufVars, row, stamp, history, disk>>

\* Mutant of oldest: siblings sorted by name without the .gz chunks first.
unordered(q) == q

\* list_rotated sorts by timestamp, a chunk and its .gz in any order.
oldest(q) == {n \in q : \A m \in q : n.stamp <= m.stamp}

\* The result of remove_file is ignored.
Prune ==
    /\ pc = "prune" /\ total_alerts_bytes > Budget /\ queue # {}
    /\ \E n \in oldest(queue) :
         /\ queue' = queue \ {n}
         /\ \/ sealed' = {c \in sealed : Name(c) # n}
            \/ Fails("remove") /\ sealed' = sealed
         /\ pruned' = pruned \cup UNION {Readable(c.lines) : c \in sealed \ sealed'}
    /\ UNCHANGED <<live, writer, bufVars, pc, row, stamp, acked, crashes, tears, disk>>

PruneEnds ==
    /\ pc = "prune"
    /\ total_alerts_bytes <= Budget \/ queue = {}
    /\ queue' = {} /\ pc' = "open"
    /\ UNCHANGED <<fileVars, bufVars, row, stamp, history, disk>>

\* The directory or a file's length cannot be read.
PruneFails ==
    /\ pc = "prune" /\ Fails("prune")
    /\ queue' = {} /\ Err
    /\ UNCHANGED <<fileVars, bufVars, row, stamp, history, disk>>

-----------------------------------------------------------------------------
(* open_append, crash and restart *)

\* Mutant of OpenAppend: the file is opened with truncate for append.
OpenTruncated ==
    /\ pc = "open"
    /\ live' = <<>> /\ writer' = Live
    /\ IF writer = NoWriter THEN pc' = "idle" /\ UNCHANGED acked ELSE Ok
    /\ UNCHANGED <<sealed, bufVars, row, queue, stamp, pruned, crashes, tears, disk>>

OpenAppend ==
    /\ pc = "open"
    /\ live' = Lines(live) /\ writer' = Live
    /\ IF writer = NoWriter THEN pc' = "idle" /\ UNCHANGED acked ELSE Ok
    /\ UNCHANGED <<sealed, bufVars, row, queue, stamp, pruned, crashes, tears, disk>>

\* The writer still has the renamed file, with a name or without one.
OpenFails ==
    /\ pc = "open" /\ Fails("open")
    /\ Err
    /\ UNCHANGED <<fileVars, bufVars, row, queue, stamp, history, disk>>

\* A line half in the file becomes a torn one.
Crash ==
    /\ pc # "down" /\ Fails("crash") /\ crashes < MaxCrashes
    /\ crashes' = crashes + 1
    /\ IF half THEN WriteLines(<<Torn>>) /\ tears' = tears + 1
               ELSE UNCHANGED <<live, sealed, tears>>
    /\ buf' = <<>> /\ half' = FALSE
    /\ pc' = "down" /\ writer' = NoWriter /\ queue' = {}
    /\ UNCHANGED <<row, stamp, acked, pruned, disk>>

\* NoveltySink::open calls open_append, which rotates first.
Start ==
    /\ pc = "down"
    /\ pc' = IF Len(Lines(live)) < MaxBytes THEN "open" ELSE "rename"
    /\ UNCHANGED <<fileVars, bufVars, row, queue, stamp, history, disk>>

\* The bound on lines is reached; nothing else stops the program.
Rest == pc = "idle" /\ row = MaxRows /\ UNCHANGED vars

Next ==
    \/ WriteLine \/ WriteRefused \/ WriteTorn \/ CheckLength
    \/ Rename \/ RenameFails
    \/ GzipCreate \/ GzipFinish \/ GzipUnlink \/ GzipFails
    \/ Prune \/ PruneEnds \/ PruneFails
    \/ OpenAppend \/ OpenFails
    \/ Crash \/ Start \/ Rest

Spec == Init /\ [][Next]_vars

-----------------------------------------------------------------------------
(* Properties *)

\* The lines a reader of the directory finds.
Found == Readable(Lines(live)) \cup UNION {Readable(c.lines) : c \in sealed}

HasFile == writer = Live \/ \E c \in sealed : c.stamp = writer /\ ~c.gz

InMemory == IF HasFile THEN {buf[i] : i \in DOMAIN buf} ELSE {}

\* The alerts file is an append-only log with a budget, whatever fails in a
\* rotation before its last two steps; torn lines are beyond it.
Sound == \A op \in {"flush", "remove", "prune", "open"} : ~Fails(op)
Log == INSTANCE RowLog WITH pending <- IF Sound THEN InMemory ELSE {},
                            kept <- IF Sound THEN Found ELSE {}
ImplementsRowLog == Log!Spec

\* No fault leaves the writer on a file without a name: a rotation that has
\* renamed the live file goes on to its end or, without gzip, leaves a chunk
\* the budget can hold.
WriterKeepsFile ==
    \/ ~Fails("prune") /\ ~Fails("open")
    \/ /\ ~disk.gzip /\ MaxBytes <= Budget
       /\ \A op \in {"flush", "rename", "remove"} : ~Fails(op)

\* A line write_line returned Ok for is on disk, at once and after any crash,
\* until the budget takes it; a torn line costs at most the one after it.
AckedLinesFound ==
    WriterKeepsFile => Cardinality(acked \ (Found \cup pruned)) <= tears
=============================================================================
