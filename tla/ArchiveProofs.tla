---------------------------- MODULE ArchiveProofs ----------------------------
(***************************************************************************)
(* Proofs about module Archive, for any sizes, any budget, any faults and  *)
(* any number of rows and crashes.                                         *)
(***************************************************************************)
EXTENDS Archive, SequenceTheorems, FiniteSetTheorems, TLAPS

-----------------------------------------------------------------------------
(* What a reader of a file finds *)

\* The file ends in a torn line, which swallows the line appended next.
EndsTorn(file) == file # <<>> /\ file[Len(file)] = Torn

Rows(file) == {file[i] : i \in DOMAIN file}

LEMMA EmptyFile == Readable(<<>>) = {} /\ Rows(<<>>) = {} /\ ~EndsTorn(<<>>)
<1>1. DOMAIN <<>> = {}
  OBVIOUS
<1> QED BY <1>1 DEF Readable, Rows, EndsTorn

\* Appending a line never hides one that was readable; the line itself is
\* readable unless it is torn or comes after a torn one.
LEMMA AppendedLine ==
    ASSUME NEW S, NEW f \in Seq(S), NEW x \in S
    PROVE  /\ Readable(f) \subseteq Readable(Append(f, x))
           /\ Readable(Append(f, x)) \subseteq Readable(f) \cup ({x} \ {Torn})
           /\ x # Torn /\ ~EndsTorn(f) => x \in Readable(Append(f, x))
           /\ EndsTorn(Append(f, x)) <=> x = Torn
           /\ Rows(Append(f, x)) = Rows(f) \cup {x}
<1> DEFINE g == Append(f, x)
           n == Len(f)
<1>1. /\ n \in Nat /\ DOMAIN f = 1..n /\ DOMAIN g = 1..(n + 1) /\ Len(g) = n + 1
      /\ g[n + 1] = x /\ \A i \in 1..n : g[i] = f[i]
      /\ g # <<>> /\ (f = <<>> <=> n = 0)
  BY AppendProperties, LenProperties, EmptySeq
<1> HIDE DEF g, n
<1>2. Readable(f) \subseteq Readable(g)
  <2> SUFFICES ASSUME NEW i \in DOMAIN f, f[i] # Torn, i > 1 => f[i - 1] # Torn
               PROVE  f[i] \in Readable(g)
    BY DEF Readable
  <2>1. i \in DOMAIN g /\ g[i] = f[i] /\ (i > 1 => g[i - 1] = f[i - 1])
    BY <1>1
  <2> QED BY <2>1 DEF Readable
<1>3. Readable(g) \subseteq Readable(f) \cup ({x} \ {Torn})
  <2> SUFFICES ASSUME NEW i \in DOMAIN g, g[i] # Torn, i > 1 => g[i - 1] # Torn
               PROVE  g[i] \in Readable(f) \cup ({x} \ {Torn})
    BY DEF Readable
  <2>1. CASE i = n + 1
    BY <1>1, <2>1
  <2>2. CASE i \in 1..n
    <3>1. i \in DOMAIN f /\ f[i] = g[i] /\ (i > 1 => f[i - 1] = g[i - 1])
      BY <1>1, <2>2
    <3> QED BY <3>1 DEF Readable
  <2> QED BY <1>1, <2>1, <2>2
<1>4. ASSUME x # Torn, ~EndsTorn(f) PROVE x \in Readable(g)
  <2>1. n + 1 \in DOMAIN g /\ g[n + 1] = x
    BY <1>1
  <2>2. n + 1 > 1 => g[(n + 1) - 1] # Torn
    BY <1>1, <1>4 DEF EndsTorn, n
  <2> QED BY <1>4, <2>1, <2>2 DEF Readable
<1>5. EndsTorn(g) <=> x = Torn
  BY <1>1 DEF EndsTorn
<1>6. Rows(g) = Rows(f) \cup {x}
  BY <1>1 DEF Rows
<1> QED BY <1>2, <1>3, <1>4, <1>5, <1>6 DEF g

LEMMA RowsAreLines ==
    ASSUME NEW S, NEW f \in Seq(S)
    PROVE  Rows(f) \subseteq S
<1>1. DOMAIN f = 1..Len(f) /\ \A i \in 1..Len(f) : f[i] \in S
  BY LenProperties, ElementOfSeq
<1> QED BY <1>1 DEF Rows

\* Without torn lines every line is readable.
LEMMA WholeFile ==
    ASSUME NEW S, NEW f \in Seq(S)
    PROVE  /\ Readable(f) \subseteq Rows(f) \ {Torn}
           /\ Torn \notin Rows(f) => Readable(f) = Rows(f)
<1>1. DOMAIN f = 1..Len(f) /\ Len(f) \in Nat
  BY LenProperties
<1>2. Readable(f) \subseteq Rows(f) \ {Torn}
  BY DEF Readable, Rows
<1>3. ASSUME Torn \notin Rows(f) PROVE Rows(f) \subseteq Readable(f)
  <2> SUFFICES ASSUME NEW i \in DOMAIN f PROVE f[i] \in Readable(f)
    BY DEF Rows
  <2>1. f[i] # Torn /\ (i > 1 => f[i - 1] # Torn)
    BY <1>1, <1>3 DEF Rows
  <2> QED BY <2>1 DEF Readable
<1> QED BY <1>2, <1>3

\* The BufWriter holds at most one row.
LEMMA OneBuffered ==
    ASSUME NEW S, NEW b \in Seq(S), Len(b) <= 1
    PROVE  b = <<>> \/ \E x \in S : b = Append(<<>>, x)
<1>1. Len(b) \in Nat /\ DOMAIN b = 1..Len(b)
  BY LenProperties
<1>2. CASE Len(b) = 0
  BY <1>2, EmptySeq
<1>3. CASE Len(b) = 1
  <2>1. b[1] \in S
    BY <1>1, <1>3, ElementOfSeq
  <2>2. Append(<<>>, b[1]) = <<b[1]>>
    OBVIOUS
  <2>3. b = <<b[1]>>
    BY <1>1, <1>3, <2>1
  <2> QED BY <2>1, <2>2, <2>3
<1> QED BY <1>1, <1>2, <1>3

\* Flushing an empty buffer changes nothing, flushing one row appends it.
LEMMA FlushedBuffer ==
    ASSUME NEW S, NEW f \in Seq(S)
    PROVE  f \o <<>> = f /\ \A x \in S : f \o Append(<<>>, x) = Append(f, x)
<1>1. f \o <<>> = f
  BY ConcatEmptySeq
<1>2. ASSUME NEW x \in S PROVE f \o Append(<<>>, x) = Append(f, x)
  <2>1. Append(<<>>, x) = <<x>>
    OBVIOUS
  <2> QED BY <2>1, AppendIsConcat
<1> QED BY <1>1, <1>2

-----------------------------------------------------------------------------
(* The state of a rotation *)

\* Where the writer points: away from the live file from the moment a rotation
\* begins to its last step, and for good when the file cannot be reopened.
WriterInv ==
    /\ writer = "live" => live # Missing
    /\ pc # "idle" => buf = <<>>
    /\ pc \in {"rename", "gzip", "copy", "unlink", "reopen"} => writer = "unlinked"
    /\ live = Missing => len = 0
    /\ pc = "rename" => live # Missing /\ len >= MaxBytes
    /\ pc \in {"gzip", "copy", "unlink", "reopen"} => live = Missing
    /\ pc = "prune" => (writer = "unlinked" <=> live = Missing)
    /\ pc \in {"write", "rename"} \/ live = Missing => row > 0
    /\ ~Fails("open") =>
         /\ pc = "write" => writer = "live"
         /\ pc = "idle" /\ writer = "unlinked" =>
               live # Missing /\ len >= MaxBytes /\ buf = <<>>

IsPlain(c) == ~c.gz /\ c.stamp = stamp
IsGz(c) == c.gz /\ c.stamp = stamp

\* A name is one file.  During gzip_seal the chunk just sealed is there, and its
\* .gz is not yet, is empty, or is a full copy.
ChunkInv ==
    /\ \A c, d \in sealed : Name(c) = Name(d) => c = d
    /\ pc \in {"gzip", "copy", "unlink"} => \E c \in sealed : IsPlain(c)
    /\ pc = "gzip" => \A c \in sealed : ~IsGz(c)
    /\ pc = "copy" => /\ \E c \in sealed : IsGz(c)
                      /\ \A c \in sealed : IsGz(c) => c.lines = <<>>
    /\ pc = "unlink" =>
          \E c, d \in sealed : IsPlain(c) /\ IsGz(d) /\ d.lines = c.lines

Inv == TypeOK /\ WriterInv /\ ChunkInv

LEMMA SameName ==
    \A c, d : Name(c) = Name(d) <=> c.stamp = d.stamp /\ c.gz = d.gz
BY DEF Name

LEMMA NewestIsPlain ==
    ASSUME ChunkInv, TypeOK, NEW c \in sealed, IsPlain(c)
    PROVE  Newest = c
<1>1. \A d \in sealed : IsPlain(d) => d = c
  <2> SUFFICES ASSUME NEW d \in sealed, IsPlain(d) PROVE d = c
    OBVIOUS
  <2>1. c \in Chunk(stamp) /\ d \in Chunk(stamp)
    BY DEF TypeOK
  <2>2. c.gz = FALSE /\ d.gz = FALSE
    BY <2>1 DEF Chunk, IsPlain
  <2>3. Name(c) = Name(d)
    BY <2>2 DEF Name, IsPlain
  <2> QED BY <2>3 DEF ChunkInv
<1>2. Newest \in sealed /\ ~Newest.gz /\ Newest.stamp = stamp
  BY DEF Newest, IsPlain
<1> QED BY <1>1, <1>2 DEF IsPlain

LEMMA MissingIsNoFile == Missing \notin Seq(0..MaxRows)
<1>1. 0..MaxRows \subseteq Nat
  BY ArchiveAssumption
<1> QED BY <1>1, SeqMonotonic, ArchiveAssumption

\* Flushing a buffer of at most one row.
LEMMA FlushedLive ==
    ASSUME TypeOK, WriterInv, NEW b, Len(b) <= 1, b \in Seq(0..MaxRows), WriteLines(b)
    PROVE  /\ live' \in Seq(0..MaxRows) \cup {Missing}
           /\ live' = Missing <=> live = Missing
           /\ writer # "live" => live' = live
           /\ b = <<>> => live' = live
           /\ \A x \in 0..MaxRows : b = Append(<<>>, x) /\ writer = "live" =>
                                      live' = Append(live, x)
<1>1. CASE writer = "live"
  <2>1. live \in Seq(0..MaxRows)
    BY <1>1 DEF TypeOK, WriterInv
  <2>2. live' = live \o b
    BY <1>1 DEF WriteLines
  <2>3. live \o b \in Seq(0..MaxRows)
    BY <2>1, ConcatProperties
  <2> QED BY <1>1, <2>1, <2>2, <2>3, MissingIsNoFile, FlushedBuffer
<1>2. CASE writer # "live"
  BY <1>2 DEF WriteLines, TypeOK
<1> QED BY <1>1, <1>2

\* The BufWriter as lines of a file.
LEMMA BufferedLines == TypeOK => buf \in Seq(0..MaxRows)
<1> SUFFICES ASSUME TypeOK PROVE buf \in Seq(0..MaxRows)
  OBVIOUS
<1>1. buf \in Seq(1..MaxRows) /\ 1..MaxRows \subseteq 0..MaxRows
  BY DEF TypeOK
<1> QED BY <1>1, SeqMonotonic

\* A row to be recorded, in an empty buffer.
LEMMA RowBuffered ==
    ASSUME TypeOK, WriterInv, pc = "write"
    PROVE  /\ buf = <<>> /\ row \in 1..MaxRows
           /\ Append(buf, row) \in Seq(1..MaxRows) /\ Append(buf, row) \in Seq(0..MaxRows)
           /\ Len(Append(buf, row)) = 1
<1>1. buf = <<>> /\ row \in 1..MaxRows
  BY ArchiveAssumption DEF TypeOK, WriterInv
<1>2. <<>> \in Seq(1..MaxRows) /\ <<>> \in Seq(0..MaxRows) /\ Len(<<>>) = 0
  OBVIOUS
<1>3. row \in 0..MaxRows
  BY DEF TypeOK
<1> QED BY <1>1, <1>2, <1>3, AppendProperties

LEMMA RowSize == \A n \in RowBytes : n \in Nat /\ n >= 1 /\ n <= MaxRowBytes
BY ArchiveAssumption

\* Bytes that are written.
LEMMA WrittenBytes ==
    ASSUME TypeOK, NEW n \in Nat, WriteBytes(n)
    PROVE  /\ len' \in Nat
           /\ writer # "live" => len' = len
           /\ writer = "live" => len' = len + n
<1>1. len \in Nat
  BY DEF TypeOK
<1> QED BY <1>1 DEF WriteBytes

\* A flush that fails moves some of the bytes in the BufWriter.
LEMMA PartFlushed ==
    ASSUME TypeOK, NEW n \in Nat, PartlyFlushed(n)
    PROVE  /\ len' \in Nat /\ left' \in Nat /\ half' \in BOOLEAN
           /\ left' <= n
           /\ writer # "live" => len' = len
           /\ writer = "live" => len' + left' = len + n
<1>1. PICK k \in 0..(n - 1) : WriteBytes(k) /\ left' = n - k /\ half' = (half \/ k > 0)
  BY DEF PartlyFlushed
<1>2. k \in Nat /\ len \in Nat /\ half \in BOOLEAN /\ k <= n
  BY <1>1 DEF TypeOK
<1>3. len' \in Nat /\ (writer # "live" => len' = len) /\ (writer = "live" => len' = len + k)
  BY <1>1, <1>2, WrittenBytes
<1>4. \A a, b, c \in Nat : b <= c => c - b \in Nat /\ c - b <= c /\ (a + b) + (c - b) = a + c
  OBVIOUS
<1>5. left' \in Nat /\ left' <= n
  BY <1>1, <1>2, <1>4
<1>6. half' \in BOOLEAN
  BY <1>1, <1>2
<1>7. writer = "live" => len' + left' = len + n
  BY <1>1, <1>2, <1>3, <1>4
<1> QED BY <1>3, <1>5, <1>6, <1>7

\* A row that fails part way leaves a torn line, or nothing.
LEMMA TornRow ==
    ASSUME TypeOK, WriteTorn
    PROVE  /\ \/ WriteLines(<<Torn>>) /\ tears' = tears + 1
              \/ UNCHANGED <<live, tears>>
           /\ \E k \in Nat : k <= MaxRowBytes /\ WriteBytes(k)
<1>1. PICK n \in RowBytes :
        \E k \in 0..(n - 1) :
          /\ n >= BufBytes
          /\ WriteBytes(k)
          /\ IF k > 0 THEN WriteLines(<<Torn>>) /\ tears' = tears + 1 ELSE UNCHANGED <<live, tears>>
  BY DEF WriteTorn
<1>2. PICK k \in 0..(n - 1) :
        /\ WriteBytes(k)
        /\ IF k > 0 THEN WriteLines(<<Torn>>) /\ tears' = tears + 1 ELSE UNCHANGED <<live, tears>>
  BY <1>1
<1>3. k \in Nat /\ k <= MaxRowBytes
  BY <1>2, RowSize, ArchiveAssumption
<1> QED BY <1>2, <1>3

\* What gzip_seal writes keeps the names and fills the .gz.
LEMMA FilledChunk ==
    ASSUME Inv, pc = "copy", NEW c \in sealed, NEW m \in Nat
    PROVE  /\ Filled(c, m) \in Chunk(stamp) /\ Name(Filled(c, m)) = Name(c)
           /\ Filled(c, m).lines = IF IsGz(c) THEN Newest.lines ELSE c.lines
           /\ Filled(c, m).bytes = IF IsGz(c) THEN m ELSE c.bytes
<1>1. c \in Chunk(stamp)
  BY DEF Inv, TypeOK
<1>2. Newest.lines \in Seq(0..MaxRows)
  <2>1. PICK d \in sealed : IsPlain(d)
    BY DEF Inv, ChunkInv
  <2>2. Newest \in Chunk(stamp)
    BY <2>1, NewestIsPlain DEF Inv, TypeOK
  <2> QED BY <2>2 DEF Chunk
<1>3. CASE IsGz(c)
  <2>1. Filled(c, m) = [c EXCEPT !.lines = Newest.lines, !.bytes = m]
    BY <1>3 DEF Filled, IsGz
  <2> QED BY <1>1, <1>2, <1>3, <2>1 DEF Chunk, Name
<1>4. CASE ~IsGz(c)
  <2>1. Filled(c, m) = c
    BY <1>4 DEF Filled, IsGz
  <2> QED BY <1>1, <1>4, <2>1
<1> QED BY <1>3, <1>4

LEMMA FilledIs ==
    ASSUME GzipFinish
    PROVE  \E m \in Nat : /\ m \in Gzipped(Newest.bytes)
                          /\ sealed' = {Filled(c, m) : c \in sealed}
BY ArchiveAssumption DEF GzipFinish, Gzipped

\* The .gz gzip_seal creates.
LEMMA CreatedIs ==
    ASSUME GzipCreate
    PROVE  \E m \in Nat :
             /\ m = 0 \/ m \in Gzipped(Newest.bytes)
             /\ sealed' = sealed \cup {[stamp |-> stamp, gz |-> TRUE, lines |-> <<>>, bytes |-> m]}
BY ArchiveAssumption DEF GzipCreate, Gzipped

LEMMA TypeStep == Inv /\ [Next]_vars => TypeOK'
<1> SUFFICES ASSUME Inv, [Next]_vars PROVE TypeOK'
  OBVIOUS
<1>0. TypeOK /\ WriterInv /\ ChunkInv /\ stamp \in Nat
  BY DEF Inv, TypeOK
<1>a. ASSUME row < MaxRows, row' = row + 1
      PROVE  row' \in 0..MaxRows /\ \A S \in SUBSET (1..row) : S \in SUBSET (1..row')
  BY <1>0, <1>a, ArchiveAssumption DEF TypeOK
<1>b. \A c : c \in sealed => Name(c) \in [stamp : 1..stamp, gz : BOOLEAN]
  <2> SUFFICES ASSUME NEW c \in sealed PROVE Name(c) \in [stamp : 1..stamp, gz : BOOLEAN]
    OBVIOUS
  <2>1. c \in Chunk(stamp)
    BY <1>0 DEF TypeOK
  <2> QED BY <2>1 DEF Chunk, Name
<1>n. ASSUME NEW n \in RowBytes PROVE left + n \in Nat /\ session + n \in Nat /\ n \in Nat
  BY <1>0, RowSize DEF TypeOK
<1>1. CASE FlushFails
  <2>1. len' \in Nat /\ left' \in Nat /\ half' \in BOOLEAN
    BY <1>0, <1>1, PartFlushed DEF FlushFails, TypeOK
  <2> QED BY <1>0, <1>1, <1>a, <2>1 DEF TypeOK, FlushFails, history
<1>2. CASE Record
  <2>5. len' \in Nat /\ left' \in Nat /\ half' \in BOOLEAN
    <3>1. WriteBytes(left) /\ left' = 0 /\ half' = FALSE
      BY <1>2 DEF Record, FlushBuffer
    <3> QED BY <1>0, <3>1, WrittenBytes DEF TypeOK
  <2>1. live' \in Seq(0..MaxRows) \cup {Missing}
    <3>1. WriteLines(buf) /\ Len(buf) <= 1
      BY <1>0, <1>2 DEF Record, TypeOK, FlushBuffer
    <3> QED BY <1>0, <3>1, BufferedLines, FlushedLive
  <2>2. writer' \in {"live", "unlinked"} /\ pc' \in {"write", "rename", "idle"}
    BY <1>0, <1>2 DEF Record, Return, TypeOK, FlushBuffer
  <2>3. buf' = <<>> /\ buf' \in Seq(1..MaxRows) /\ Len(buf') <= 1
    BY <1>2 DEF Record, FlushBuffer
  <2>4. row' \in 0..MaxRows /\ counted' \in SUBSET (1..row')
    BY <1>0, <1>2, <1>a DEF Record, history, TypeOK, FlushBuffer
  <2> QED BY <1>0, <1>2, <2>1, <2>2, <2>3, <2>4, <2>5 DEF Record, TypeOK, history
<1>3. CASE WriteBuffered
  <2>1. /\ buf' \in Seq(1..MaxRows) /\ Len(buf') <= 1 /\ row \in 1..MaxRows
    BY <1>0, <1>3, RowBuffered DEF WriteBuffered
  <2>2. counted' \in SUBSET (1..row') /\ session' \in Nat /\ left' \in Nat
    BY <1>0, <1>3, <1>n, <2>1 DEF WriteBuffered, TypeOK
  <2> QED BY <1>0, <1>3, <2>1, <2>2 DEF WriteBuffered, Return, TypeOK, fileVars
<1>4. CASE WriteThrough
  <2>1. live' \in Seq(0..MaxRows) \cup {Missing}
    <3>1. WriteLines(Append(buf, row)) /\ pc = "write"
      BY <1>4 DEF WriteThrough
    <3>2. Append(buf, row) \in Seq(0..MaxRows) /\ Len(Append(buf, row)) <= 1
      BY <1>0, <3>1, RowBuffered
    <3> QED BY <1>0, <3>1, <3>2, FlushedLive
  <2>2. row \in 1..MaxRows
    BY <1>0, <1>4, RowBuffered DEF WriteThrough
  <2>3. counted' \in SUBSET (1..row') /\ session' \in Nat
    BY <1>0, <1>4, <1>n, <2>2 DEF WriteThrough, TypeOK
  <2>5. len' \in Nat
    <3>1. PICK n \in RowBytes : WriteBytes(left + n)
      BY <1>4 DEF WriteThrough
    <3> QED BY <1>0, <1>n, <3>1, WrittenBytes
  <2>4. buf' = <<>> /\ buf' \in Seq(1..MaxRows) /\ Len(buf') <= 1
    BY <1>4 DEF WriteThrough
  <2> QED BY <1>0, <1>4, <2>1, <2>3, <2>4, <2>5 DEF WriteThrough, Return, TypeOK
<1>5. CASE SessionFlushFails
  <2>1. buf' \in Seq(1..MaxRows) /\ Len(buf') <= 1
    BY <1>0, <1>5, RowBuffered DEF SessionFlushFails
  <2>2. session' \in Nat /\ len' \in Nat /\ left' \in Nat /\ half' \in BOOLEAN
    <3>1. PICK n \in RowBytes : session' = session + n /\ PartlyFlushed(left + n)
      BY <1>5 DEF SessionFlushFails
    <3> QED BY <1>0, <1>n, <3>1, PartFlushed
  <2> QED BY <1>0, <1>5, <2>1, <2>2 DEF SessionFlushFails, Return, TypeOK, history
<1>6. CASE WriteTorn
  <2>1. live' \in Seq(0..MaxRows) \cup {Missing}
    <3>1. Torn \in 0..MaxRows
      BY ArchiveAssumption DEF Torn
    <3>2. <<Torn>> \in Seq(0..MaxRows) /\ Len(<<Torn>>) <= 1
      BY <3>1
    <3>3. CASE WriteLines(<<Torn>>)
      BY <1>0, <3>2, <3>3, FlushedLive
    <3>4. CASE live' = live
      BY <1>0, <3>4 DEF TypeOK
    <3> QED BY <1>0, <1>6, <3>3, <3>4, TornRow
  <2>2. len' \in Nat /\ tears' \in Nat
    BY <1>0, <1>6, TornRow, WrittenBytes DEF TypeOK
  <2>3. /\ pc' = "idle"
        /\ UNCHANGED <<sealed, writer, buf, left, half, session, row, queue, stamp, snapshots,
                       counted, pruned, crashes, faulty>>
    BY <1>6 DEF WriteTorn, Return, bufVars
  <2> QED BY <1>0, <2>1, <2>2, <2>3 DEF TypeOK
<1>7. CASE Rename
  <2>1. live \in Seq(0..MaxRows) /\ stamp' = stamp + 1 /\ stamp' \in Nat
    BY <1>0, <1>7 DEF Rename, TypeOK, WriterInv
  <2>2. Chunk(stamp) \subseteq Chunk(stamp')
    BY <1>0, <2>1 DEF Chunk
  <2>3. [stamp |-> stamp + 1, gz |-> FALSE, lines |-> live, bytes |-> len] \in Chunk(stamp')
    BY <1>0, <2>1 DEF Chunk, TypeOK
  <2>4. sealed' \in SUBSET Chunk(stamp')
    BY <1>0, <1>7, <2>2, <2>3 DEF Rename, TypeOK
  <2>5. queue' \in SUBSET [stamp : 1..stamp', gz : BOOLEAN]
    BY <1>0, <1>7, <2>1 DEF Rename, TypeOK
  <2> QED BY <1>0, <1>7, <2>1, <2>4, <2>5 DEF Rename, TypeOK, bufVars, history
<1>8. CASE RenameFails
  BY <1>0, <1>8 DEF RenameFails, Return, TypeOK, fileVars, bufVars, history
<1>9. CASE GzipCreate
  <2>m. PICK m \in Nat : /\ m = 0 \/ m \in Gzipped(Newest.bytes)
                       /\ sealed' = sealed \cup {[stamp |-> stamp, gz |-> TRUE, lines |-> <<>>, bytes |-> m]}
    BY <1>9, CreatedIs
  <2>1. stamp \in 1..stamp
    <3>1. PICK c \in sealed : IsPlain(c)
      BY <1>0, <1>9 DEF GzipCreate, ChunkInv
    <3>2. c \in Chunk(stamp)
      BY <1>0 DEF TypeOK
    <3> QED BY <3>1, <3>2 DEF Chunk, IsPlain
  <2>2. [stamp |-> stamp, gz |-> TRUE, lines |-> <<>>, bytes |-> m] \in Chunk(stamp)
    BY <2>1 DEF Chunk
  <2>3. sealed' \in SUBSET Chunk(stamp)
    BY <1>0, <2>m, <2>2 DEF TypeOK
  <2> QED BY <1>0, <1>9, <2>3 DEF GzipCreate, TypeOK, bufVars, history
<1>10. CASE GzipFinish
  <2>m. PICK m \in Nat : m \in Gzipped(Newest.bytes) /\ sealed' = {Filled(c, m) : c \in sealed}
    BY <1>10, FilledIs
  <2>1. sealed' = {Filled(c, m) : c \in sealed}
    BY <1>10, <2>m DEF GzipFinish
  <2>2. sealed' \in SUBSET Chunk(stamp)
    BY <1>10, <2>1, FilledChunk DEF GzipFinish
  <2> QED BY <1>0, <1>10, <2>2 DEF GzipFinish, TypeOK, bufVars, history
<1>c. ASSUME sealed' \subseteq sealed, StartPrune, UNCHANGED stamp
      PROVE  /\ sealed' \in SUBSET Chunk(stamp')
             /\ queue' \in SUBSET [stamp : 1..stamp', gz : BOOLEAN] /\ pc' = "prune"
  <2>1. sealed' \in SUBSET Chunk(stamp')
    BY <1>0, <1>c DEF TypeOK
  <2>2. queue' = {Name(c) : c \in sealed'}
    BY <1>c DEF StartPrune
  <2>3. \A c \in sealed' : Name(c) \in [stamp : 1..stamp, gz : BOOLEAN]
    BY <1>b, <1>c
  <2>4. pc' = "prune" /\ stamp' = stamp
    BY <1>c DEF StartPrune
  <2> QED BY <2>1, <2>2, <2>3, <2>4
<1>11. CASE GzipUnlink
  <2>1. sealed' \subseteq sealed /\ StartPrune /\ UNCHANGED stamp
    BY <1>11 DEF GzipUnlink
  <2> QED BY <1>0, <1>11, <1>c, <2>1 DEF GzipUnlink, TypeOK, bufVars, history
<1>12. CASE GzipFails
  <2>1. sealed' \subseteq sealed /\ StartPrune /\ UNCHANGED stamp
    BY <1>12 DEF GzipFails
  <2> QED BY <1>0, <1>12, <1>c, <2>1 DEF GzipFails, TypeOK, bufVars, history
<1>13. CASE Prune
  <2>1. sealed' \subseteq sealed /\ queue' \subseteq queue
    BY <1>13 DEF Prune
  <2>2. UNION {Readable(c.lines) : c \in sealed \ sealed'} \subseteq 1..MaxRows
    <3> SUFFICES ASSUME NEW c \in sealed PROVE Readable(c.lines) \subseteq 1..MaxRows
      OBVIOUS
    <3>1. c.lines \in Seq(0..MaxRows)
      BY <1>0 DEF TypeOK, Chunk
    <3>2. Rows(c.lines) \subseteq 0..MaxRows
      BY <3>1, RowsAreLines
    <3>3. Readable(c.lines) \subseteq Rows(c.lines) \ {Torn}
      BY <3>1, WholeFile
    <3>4. (0..MaxRows) \ {Torn} \subseteq 1..MaxRows
      BY ArchiveAssumption DEF Torn
    <3> QED BY <3>2, <3>3, <3>4
  <2>3. pruned' = pruned \cup UNION {Readable(c.lines) : c \in sealed \ sealed'}
    BY <1>13 DEF Prune
  <2>4. pruned' \in SUBSET (1..MaxRows)
    BY <1>0, <2>2, <2>3 DEF TypeOK
  <2> QED BY <1>0, <1>13, <2>1, <2>4 DEF Prune, TypeOK, bufVars
<1>14. CASE PruneEnds
  BY <1>0, <1>14 DEF PruneEnds, TypeOK, fileVars, bufVars, history
<1>15. CASE Reopen
  BY <1>0, <1>15 DEF Reopen, TypeOK, bufVars, history
<1>16. CASE ReopenFails
  BY <1>0, <1>16 DEF ReopenFails, Return, TypeOK, fileVars, bufVars, history
<1>17. CASE Snapshot
  BY <1>0, <1>17 DEF Snapshot, TypeOK, fileVars, bufVars, history
<1>18. CASE Crash
  <2>1. live' \in Seq(0..MaxRows) \cup {Missing} /\ tears' \in Nat
    <3>1. CASE half /\ writer = "live"
      <4>1. live \in Seq(0..MaxRows)
        BY <1>0, <3>1 DEF TypeOK, WriterInv
      <4>2. Torn \in 0..MaxRows
        BY ArchiveAssumption DEF Torn
      <4>3. live' = Append(live, Torn) /\ tears' = tears + 1
        BY <1>18, <3>1 DEF Crash
      <4> QED BY <1>0, <4>1, <4>2, <4>3, AppendProperties DEF TypeOK
    <3>2. CASE ~(half /\ writer = "live")
      BY <1>0, <1>18, <3>2 DEF Crash, TypeOK
    <3> QED BY <3>1, <3>2
  <2>2. /\ buf' = <<>> /\ buf' \in Seq(1..MaxRows) /\ Len(buf') <= 1
        /\ left' = 0 /\ left' \in Nat /\ len' = len /\ len' \in Nat
    BY <1>0, <1>18 DEF Crash, TypeOK
  <2>3. queue' = {} /\ pc' = "down" /\ half' = FALSE /\ session' = 0 /\ crashes' = crashes + 1
    BY <1>18 DEF Crash
  <2>4. UNCHANGED <<sealed, writer, row, stamp, snapshots, counted, pruned, faulty>>
    BY <1>18 DEF Crash
  <2>5. queue' \in SUBSET [stamp : 1..stamp', gz : BOOLEAN] /\ crashes' \in Nat
    BY <1>0, <2>3 DEF TypeOK
  <2>6. /\ sealed' \in SUBSET Chunk(stamp') /\ stamp' \in Nat
        /\ counted' \in SUBSET (1..row') /\ pruned' \in SUBSET (1..MaxRows)
    BY <1>0, <2>4 DEF TypeOK
  <2> QED BY <1>0, <2>1, <2>2, <2>3, <2>4, <2>5, <2>6 DEF TypeOK
<1>19. CASE Open
  <2>1. sealed' \subseteq sealed /\ StartPrune /\ UNCHANGED stamp
    BY <1>19 DEF Open
  <2>2. live' \in Seq(0..MaxRows) \cup {Missing}
    <3>1. <<>> \in Seq(0..MaxRows)
      OBVIOUS
    <3> QED BY <1>0, <1>19, <3>1 DEF Open, Lines, TypeOK
  <2> QED BY <1>0, <1>19, <1>c, <2>1, <2>2 DEF Open, TypeOK, bufVars, history
<1>20. CASE Rest \/ UNCHANGED vars
  BY <1>0, <1>20 DEF Rest, vars, fileVars, bufVars, history, TypeOK
<1> QED
  BY <1>1, <1>2, <1>3, <1>4, <1>5, <1>6, <1>7, <1>8, <1>9, <1>10, <1>11, <1>12,
     <1>13, <1>14, <1>15, <1>16, <1>17, <1>18, <1>19, <1>20 DEF Next

LEMMA AFile == \A f \in Seq(0..MaxRows) \cup {Missing} :
                 /\ Lines(f) \in Seq(0..MaxRows) /\ Lines(f) # Missing
                 /\ f # Missing => Lines(f) = f
<1>1. <<>> \in Seq(0..MaxRows)
  OBVIOUS
<1> QED BY <1>1, MissingIsNoFile DEF Lines

LEMMA WriterStep == Inv /\ TypeOK' /\ [Next]_vars => WriterInv'
<1> SUFFICES ASSUME Inv, TypeOK', [Next]_vars PROVE WriterInv'
  OBVIOUS
<1>t. WriterInv /\ TypeOK
  BY DEF Inv
<1>r. row \in Nat
  BY <1>t DEF TypeOK
<1>f. live \in Seq(0..MaxRows) \cup {Missing} /\ live' \in Seq(0..MaxRows) \cup {Missing}
  BY <1>t DEF TypeOK
<1>0. /\ WriterInv /\ TypeOK /\ row \in Nat
      /\ live \in Seq(0..MaxRows) \cup {Missing}
      /\ live' \in Seq(0..MaxRows) \cup {Missing}
  BY <1>t, <1>r, <1>f
<1> USE DEF WriterInv, Fails
<1>l. len \in Nat /\ len' \in Nat /\ MaxBytes \in Nat \ {0}
  BY <1>0, ArchiveAssumption DEF TypeOK
\* Bytes go to the file the writer points at, or nowhere.
<1>w. ASSUME NEW n \in Nat, WriteBytes(n) \/ PartlyFlushed(n), writer # "live"
      PROVE  len' = len
  <2> HIDE DEF WriterInv
  <2> QED BY <1>0, <1>w, WrittenBytes, PartFlushed
<1>n. ASSUME NEW n \in RowBytes PROVE left + n \in Nat
  <2>1. left \in Nat
    BY <1>0 DEF TypeOK
  <2> QED BY <2>1, <1>n, RowSize
<1>1. CASE FlushFails
  <2>1. writer # "live" => len' = len
    BY <1>0, <1>1, <1>w DEF FlushFails, TypeOK
  <2> QED BY <1>0, <1>1, <2>1 DEF FlushFails, history
<1>2. CASE Record
  <2>1. /\ WriteLines(buf) /\ row' = row + 1 /\ buf' = <<>> /\ pc = "idle"
        /\ UNCHANGED faulty /\ WriteBytes(left)
    BY <1>2 DEF Record, FlushBuffer
  <2>a. writer # "live" => len' = len
    BY <1>0, <1>w, <2>1 DEF TypeOK
  <2>2. (live' = Missing <=> live = Missing) /\ (writer # "live" => live' = live)
    <3>1. Len(buf) <= 1
      BY <1>0 DEF TypeOK
    <3> HIDE DEF WriterInv
    <3> QED BY <1>0, <2>1, <3>1, BufferedLines, FlushedLive
  <2>3. CASE len' < MaxBytes
    <3>1. pc' = "write" /\ writer' = writer
      BY <1>2, <2>3 DEF Record
    <3>2. ~Fails("open") => writer = "live"
      <4> SUFFICES ASSUME ~Fails("open"), writer # "live" PROVE FALSE
        OBVIOUS
      <4>1. len' = len /\ len >= MaxBytes
        BY <1>0, <2>1, <2>a DEF TypeOK
      <4> QED BY <1>l, <2>3, <4>1
    <3> QED BY <1>0, <2>1, <2>2, <2>a, <3>1, <3>2
  <2>4. CASE ~(len' < MaxBytes)
    <3>1. live' # Missing /\ len' >= MaxBytes
      <4>1. len' >= MaxBytes
        BY <1>l, <2>4
      <4>2. live = Missing => len' = 0
        BY <1>0, <2>a
      <4> QED BY <1>l, <2>2, <4>1, <4>2
    <3>2. \/ pc' = "rename" /\ writer' = "unlinked"
          \/ pc' = "idle" /\ writer' = writer
      BY <1>2, <2>4 DEF Record, Return
    <3> QED BY <1>0, <2>1, <2>2, <2>a, <3>1, <3>2
  <2> QED BY <2>3, <2>4
<1>3. CASE WriteBuffered
  BY <1>0, <1>3 DEF WriteBuffered, Return, fileVars
<1>a. ASSUME pc = "write", NEW b \in Seq(0..MaxRows), Len(b) <= 1, WriteLines(b), writer' = writer
      PROVE  writer' = "live" => live' # Missing
  <2> HIDE DEF WriterInv
  <2>1. live' = Missing <=> live = Missing
    BY <1>0, <1>a, FlushedLive
  <2> QED BY <1>0, <1>a, <2>1 DEF WriterInv
<1>b. ASSUME pc = "write", NEW b \in Seq(0..MaxRows), Len(b) <= 1, WriteLines(b), writer' = writer
      PROVE  live' = Missing => live = Missing
  <2> HIDE DEF WriterInv
  <2> QED BY <1>0, <1>b, FlushedLive
<1>4. CASE WriteThrough
  <2>1. /\ pc = "write" /\ WriteLines(Append(buf, row)) /\ pc' = "idle" /\ buf' = <<>>
        /\ writer' = writer /\ row' = row /\ faulty' = faulty
    BY <1>4 DEF WriteThrough, Return
  <2>a. writer # "live" => len' = len
    BY <1>4, <1>n, <1>w DEF WriteThrough
  <2>2. Append(buf, row) \in Seq(0..MaxRows) /\ Len(Append(buf, row)) <= 1
    <3> HIDE DEF WriterInv
    <3> QED BY <1>0, <2>1, RowBuffered
  <2>3. (writer' = "live" => live' # Missing) /\ (live' = Missing => live = Missing)
    BY <1>a, <1>b, <2>1, <2>2
  <2> QED BY <1>0, <2>1, <2>3, <2>a
<1>5. CASE SessionFlushFails
  <2>1. writer # "live" => len' = len
    BY <1>5, <1>n, <1>w DEF SessionFlushFails
  <2> QED BY <1>0, <1>5, <2>1 DEF SessionFlushFails, Return, history
<1>6. CASE WriteTorn
  <2>1. /\ pc = "write" /\ pc' = "idle" /\ buf' = buf
        /\ writer' = writer /\ row' = row /\ faulty' = faulty
    BY <1>6 DEF WriteTorn, Return, bufVars
  <2>a. WriteLines(<<Torn>>) \/ live' = live
    <3> HIDE DEF WriterInv
    <3> QED BY <1>0, <1>6, TornRow
  <2>b. writer # "live" => len' = len
    <3>1. \E k \in Nat : WriteBytes(k)
      <4> HIDE DEF WriterInv
      <4> QED BY <1>0, <1>6, TornRow
    <3> QED BY <1>w, <3>1
  <2>2. <<Torn>> \in Seq(0..MaxRows) /\ Len(<<Torn>>) <= 1
    <3>1. Torn \in 0..MaxRows
      BY ArchiveAssumption DEF Torn
    <3> QED BY <3>1
  <2>3. (writer' = "live" => live' # Missing) /\ (live' = Missing => live = Missing)
    BY <1>0, <1>a, <1>b, <2>1, <2>2, <2>a
  <2> QED BY <1>0, <2>1, <2>3, <2>b
<1>7. CASE Rename
  BY <1>0, <1>7 DEF Rename, bufVars, history
<1>8. CASE RenameFails
  BY <1>0, <1>8 DEF RenameFails, Return, fileVars, bufVars, history
<1>9. CASE GzipCreate \/ GzipFinish \/ GzipFails
  BY <1>0, <1>9 DEF GzipCreate, GzipFinish, GzipFails, StartPrune, bufVars, history
<1>11. CASE GzipUnlink
  BY <1>0, <1>11 DEF GzipUnlink, StartPrune, bufVars, history
<1>13. CASE Prune
  BY <1>0, <1>13 DEF Prune, bufVars, history
<1>14. CASE PruneEnds
  BY <1>0, <1>14 DEF PruneEnds, fileVars, bufVars, history, TypeOK
<1>15. CASE Reopen
  <2>1. <<>> # Missing
    <3>1. <<>> \in Seq(0..MaxRows)
      OBVIOUS
    <3> QED BY <3>1, MissingIsNoFile
  <2> QED BY <1>0, <1>15, <2>1 DEF Reopen, bufVars, history
<1>16. CASE ReopenFails
  BY <1>0, <1>16 DEF ReopenFails, Return, fileVars, bufVars, history
<1>17. CASE Snapshot
  BY <1>0, <1>17 DEF Snapshot, fileVars, bufVars, history
<1>18. CASE Crash
  <2>1. live' = Missing <=> live = Missing
    <3>1. CASE half /\ writer = "live"
      <4>1. live \in Seq(0..MaxRows) /\ Torn \in 0..MaxRows
        BY <1>0, <3>1, ArchiveAssumption DEF Torn
      <4>2. Append(live, Torn) \in Seq(0..MaxRows)
        BY <4>1, AppendProperties
      <4> QED BY <1>0, <1>18, <3>1, <4>1, <4>2, MissingIsNoFile DEF Crash
    <3>2. CASE ~(half /\ writer = "live")
      BY <1>18, <3>2 DEF Crash
    <3> QED BY <3>1, <3>2
  <2> QED BY <1>0, <1>18, <2>1 DEF Crash
<1>19. CASE Open
  <2>1. live' # Missing
    BY <1>0, <1>19, AFile DEF Open
  <2> QED BY <1>0, <1>19, <2>1 DEF Open, StartPrune, bufVars, history
<1>20. CASE Rest \/ UNCHANGED vars
  BY <1>0, <1>20 DEF Rest, vars, fileVars, bufVars, history
<1> QED
  BY <1>1, <1>2, <1>3, <1>4, <1>5, <1>6, <1>7, <1>8, <1>9, <1>11,
     <1>13, <1>14, <1>15, <1>16, <1>17, <1>18, <1>19, <1>20 DEF Next

LEMMA ChunkStep == Inv /\ [Next]_vars => ChunkInv'
<1> SUFFICES ASSUME Inv, [Next]_vars PROVE ChunkInv'
  OBVIOUS
<1>0. /\ ChunkInv /\ TypeOK /\ stamp \in Nat
      /\ \A c \in sealed : c \in Chunk(stamp) /\ c.stamp \in 1..stamp /\ c.gz \in BOOLEAN
  BY DEF Inv, TypeOK, Chunk
<1>a. ASSUME sealed' \subseteq sealed, pc' \notin {"gzip", "copy", "unlink"} PROVE ChunkInv'
  BY <1>0, <1>a DEF ChunkInv
<1>b. ASSUME UNCHANGED <<sealed, stamp, pc>> PROVE ChunkInv'
  BY <1>0, <1>b DEF ChunkInv, IsPlain, IsGz
<1>1. CASE FlushFails \/ Snapshot \/ Rest \/ UNCHANGED vars
  <2>1. UNCHANGED <<sealed, stamp, pc>>
    BY <1>1 DEF FlushFails, Snapshot, Rest, vars, fileVars, PartlyFlushed
  <2> QED BY <1>b, <2>1
<1>2. CASE Record \/ WriteBuffered \/ WriteThrough \/ SessionFlushFails \/ WriteTorn
           \/ RenameFails \/ PruneEnds \/ Reopen \/ ReopenFails \/ Crash
  <2>1. sealed' = sealed /\ pc' \in {"write", "rename", "idle", "reopen", "down"}
    BY <1>2 DEF Record, WriteBuffered, WriteThrough, SessionFlushFails, WriteTorn,
                RenameFails, PruneEnds, Reopen, ReopenFails, Crash, Return, fileVars, FlushBuffer, PartlyFlushed
  <2> QED BY <1>a, <2>1
<1>3. CASE GzipUnlink \/ GzipFails \/ Prune \/ Open
  <2>1. sealed' \subseteq sealed /\ pc' = "prune"
    BY <1>3 DEF GzipUnlink, GzipFails, Prune, Open, StartPrune
  <2> QED BY <1>a, <2>1
<1>4. CASE Rename
  <2> DEFINE new == [stamp |-> stamp + 1, gz |-> FALSE, lines |-> live, bytes |-> len]
  <2>1. sealed' = sealed \cup {new} /\ stamp' = stamp + 1 /\ pc' = "gzip"
    BY <1>4 DEF Rename
  <2>2. new.stamp = stamp + 1 /\ new.gz = FALSE
    OBVIOUS
  <2>3. \A c \in sealed : c.stamp # stamp + 1
    BY <1>0
  <2> HIDE DEF new
  <2>4. \A c, d \in sealed' : Name(c) = Name(d) => c = d
    BY <1>0, <2>1, <2>2, <2>3, SameName DEF ChunkInv
  <2>5. \E c \in sealed' : ~c.gz /\ c.stamp = stamp'
    BY <2>1, <2>2
  <2>6. \A c \in sealed' : ~(c.gz /\ c.stamp = stamp')
    BY <2>1, <2>2, <2>3
  <2> QED BY <2>1, <2>4, <2>5, <2>6 DEF ChunkInv, IsGz, IsPlain
<1>5. CASE GzipCreate
  <2>m. PICK m \in Nat : /\ m = 0 \/ m \in Gzipped(Newest.bytes)
                       /\ sealed' = sealed \cup {[stamp |-> stamp, gz |-> TRUE, lines |-> <<>>, bytes |-> m]}
    BY <1>5, CreatedIs
  <2> DEFINE new == [stamp |-> stamp, gz |-> TRUE, lines |-> <<>>, bytes |-> m]
  <2>1. sealed' = sealed \cup {new} /\ stamp' = stamp /\ pc = "gzip" /\ pc' = "copy"
    BY <1>5, <2>m DEF GzipCreate
  <2>2. new.stamp = stamp /\ new.gz = TRUE /\ new.lines = <<>>
    OBVIOUS
  <2>3. \A c \in sealed : ~(c.gz /\ c.stamp = stamp)
    BY <1>0, <2>1 DEF ChunkInv, IsGz
  <2> HIDE DEF new
  <2>4. \A c \in sealed : Name(c) # Name(new)
    BY <2>2, <2>3, SameName
  <2>5. \A c, d \in sealed' : Name(c) = Name(d) => c = d
    BY <1>0, <2>1, <2>4 DEF ChunkInv
  <2>6. \E c \in sealed' : ~c.gz /\ c.stamp = stamp
    BY <1>0, <2>1 DEF ChunkInv, IsPlain
  <2>7. new \in sealed' /\ \A c \in sealed' : c.gz /\ c.stamp = stamp => c.lines = <<>>
    BY <2>1, <2>2, <2>3
  <2> QED BY <2>1, <2>2, <2>5, <2>6, <2>7 DEF ChunkInv, IsGz, IsPlain
<1>6. CASE GzipFinish
  <2>m. PICK m \in Nat : m \in Gzipped(Newest.bytes) /\ sealed' = {Filled(c, m) : c \in sealed}
    BY <1>6, FilledIs
  <2>1. sealed' = {Filled(c, m) : c \in sealed} /\ stamp' = stamp /\ pc = "copy" /\ pc' = "unlink"
    BY <1>6, <2>m DEF GzipFinish
  <2>2. \A c \in sealed : /\ Name(Filled(c, m)) = Name(c)
                          /\ Filled(c, m).lines = IF IsGz(c) THEN Newest.lines ELSE c.lines
                          /\ Filled(c, m).stamp = c.stamp /\ Filled(c, m).gz = c.gz
    BY <2>1, FilledChunk, SameName
  <2>3. \A c, d \in sealed' : Name(c) = Name(d) => c = d
    <3> SUFFICES ASSUME NEW c \in sealed, NEW d \in sealed, Name(Filled(c, m)) = Name(Filled(d, m))
                 PROVE  Filled(c, m) = Filled(d, m)
      BY <2>1
    <3>1. Name(c) = Name(d)
      BY <2>2
    <3> QED BY <1>0, <3>1 DEF ChunkInv
  <2>4. PICK c \in sealed, d \in sealed : IsPlain(c) /\ IsGz(d)
    BY <1>0, <2>1 DEF ChunkInv
  <2>5. Newest = c /\ ~IsGz(c)
    BY <1>0, <2>4, NewestIsPlain DEF IsPlain, IsGz
  <2>6. /\ Filled(c, m) \in sealed' /\ ~Filled(c, m).gz /\ Filled(c, m).stamp = stamp
        /\ Filled(d, m) \in sealed' /\ Filled(d, m).gz /\ Filled(d, m).stamp = stamp
        /\ Filled(d, m).lines = Filled(c, m).lines
    BY <2>1, <2>2, <2>4, <2>5 DEF IsPlain, IsGz
  <2> QED BY <2>1, <2>3, <2>6 DEF ChunkInv, IsGz, IsPlain
<1> QED BY <1>1, <1>2, <1>3, <1>4, <1>5, <1>6 DEF Next

LEMMA InvInit == Init => Inv
<1> SUFFICES ASSUME Init PROVE Inv
  OBVIOUS
<1>1. <<>> \in Seq(0..MaxRows) /\ <<>> \in Seq(1..MaxRows) /\ Len(<<>>) = 0
  OBVIOUS
<1>2. TypeOK
  <2>1. faulty \in SUBSET Operation /\ row \in 0..MaxRows
    BY ArchiveAssumption DEF Init
  <2>2. sealed \in SUBSET Chunk(stamp) /\ queue \in SUBSET [stamp : 1..stamp, gz : BOOLEAN]
    BY DEF Init
  <2>3. counted \in SUBSET (1..row) /\ pruned \in SUBSET (1..MaxRows)
    BY DEF Init
  <2>4. /\ live \in Seq(0..MaxRows) \cup {Missing}
        /\ buf \in Seq(1..MaxRows) /\ Len(buf) <= 1
    BY <1>1 DEF Init
  <2>5. /\ stamp \in Nat /\ snapshots \in Nat /\ crashes \in Nat /\ tears \in Nat
        /\ session \in Nat /\ half \in BOOLEAN /\ len \in Nat /\ left \in Nat
        /\ writer \in {"live", "unlinked"} /\ pc = "idle"
    BY DEF Init
  <2> QED BY <2>1, <2>2, <2>3, <2>4, <2>5 DEF TypeOK
<1>3. WriterInv
  BY <1>1, MissingIsNoFile DEF Init, WriterInv
<1>4. ChunkInv
  BY DEF Init, ChunkInv
<1> QED BY <1>2, <1>3, <1>4 DEF Inv

LEMMA Invariant == Spec => []Inv
<1>1. Inv /\ [Next]_vars => Inv'
  BY TypeStep, WriterStep, ChunkStep DEF Inv
<1> QED BY <1>1, InvInit, PTL DEF Spec

\* Every variable has its type: whatever file operation fails or is cut short by
\* a crash, the BufWriter holds at most one row and what is written is lines.
THEOREM TypeCorrect == Spec => []TypeOK
BY Invariant, PTL DEF Inv

-----------------------------------------------------------------------------
(* Where the rows are *)

SealedRows == UNION {Readable(c.lines) : c \in sealed}

LEMMA FoundIs ==
    /\ Found = Readable(Lines(live)) \cup SealedRows
    /\ Found' = Readable(Lines(live')) \cup SealedRows'
BY DEF Found, SealedRows

\* Every step of a rotation, and the start, leaves a reader what it found: the
\* sealed chunk is a file before the live one is gone, and its .gz is full
\* before the chunk is removed.
LEMMA RotationKeepsRows ==
    ASSUME Inv, \/ Rename \/ GzipCreate \/ GzipFinish \/ GzipUnlink \/ GzipFails
                \/ Reopen \/ Open
    PROVE  Found' = Found
<1>0. TypeOK /\ WriterInv /\ ChunkInv
  BY DEF Inv
<1>1. CASE Rename
  <2> DEFINE new == [stamp |-> stamp + 1, gz |-> FALSE, lines |-> live, bytes |-> len]
  <2>1. sealed' = sealed \cup {new} /\ live' = Missing /\ live # Missing
    BY <1>0, <1>1 DEF Rename, WriterInv
  <2>2. new.lines = live
    OBVIOUS
  <2> HIDE DEF new
  <2>3. SealedRows' = SealedRows \cup Readable(live)
    BY <2>1, <2>2 DEF SealedRows
  <2>4. Lines(live') = <<>> /\ Lines(live) = live
    BY <2>1 DEF Lines
  <2> QED BY <2>3, <2>4, FoundIs, EmptyFile
<1>2. CASE GzipCreate
  <2>m. PICK m \in Nat : /\ m = 0 \/ m \in Gzipped(Newest.bytes)
                       /\ sealed' = sealed \cup {[stamp |-> stamp, gz |-> TRUE, lines |-> <<>>, bytes |-> m]}
    BY <1>2, CreatedIs
  <2> DEFINE new == [stamp |-> stamp, gz |-> TRUE, lines |-> <<>>, bytes |-> m]
  <2>1. sealed' = sealed \cup {new} /\ live' = live
    BY <1>2, <2>m DEF GzipCreate
  <2>2. new.lines = <<>>
    OBVIOUS
  <2> HIDE DEF new
  <2>3. SealedRows' = SealedRows
    BY <2>1, <2>2, EmptyFile DEF SealedRows
  <2> QED BY <2>1, <2>3, FoundIs
<1>3. CASE GzipFinish
  <2>m. PICK m \in Nat : m \in Gzipped(Newest.bytes) /\ sealed' = {Filled(c, m) : c \in sealed}
    BY <1>3, FilledIs
  <2>1. sealed' = {Filled(c, m) : c \in sealed} /\ live' = live /\ pc = "copy"
    BY <1>3, <2>m DEF GzipFinish
  <2>2. PICK n \in sealed : IsPlain(n) /\ Newest = n
    BY <1>0, <2>1, NewestIsPlain DEF ChunkInv
  <2>3. \A c \in sealed : Filled(c, m).lines = IF IsGz(c) THEN n.lines ELSE c.lines
    BY <2>1, <2>2, FilledChunk
  <2>4. \A c \in sealed : IsGz(c) => Readable(c.lines) = {}
    BY <1>0, <2>1, EmptyFile DEF ChunkInv
  <2>5. SealedRows' \subseteq SealedRows
    <3> SUFFICES ASSUME NEW c \in sealed PROVE Readable(Filled(c, m).lines) \subseteq SealedRows
      BY <2>1 DEF SealedRows
    <3> QED BY <2>2, <2>3 DEF SealedRows
  <2>6. SealedRows \subseteq SealedRows'
    <3> SUFFICES ASSUME NEW c \in sealed PROVE Readable(c.lines) \subseteq SealedRows'
      BY DEF SealedRows
    <3>1. CASE IsGz(c)
      BY <2>4, <3>1
    <3>2. CASE ~IsGz(c)
      <4>1. Readable(Filled(c, m).lines) = Readable(c.lines) /\ Filled(c, m) \in sealed'
        BY <2>1, <2>3, <3>2
      <4> QED BY <4>1 DEF SealedRows
    <3> QED BY <3>1, <3>2
  <2> QED BY <2>1, <2>5, <2>6, FoundIs
<1>4. CASE GzipUnlink
  <2>1. sealed' = sealed \ {Newest} /\ live' = live /\ pc = "unlink"
    BY <1>4 DEF GzipUnlink
  <2>2. PICK c \in sealed, d \in sealed : IsPlain(c) /\ IsGz(d) /\ d.lines = c.lines
    BY <1>0, <2>1 DEF ChunkInv
  <2>3. Newest = c /\ d \in sealed'
    BY <1>0, <2>1, <2>2, NewestIsPlain DEF IsPlain, IsGz
  <2>4. SealedRows' = SealedRows
    BY <2>1, <2>2, <2>3 DEF SealedRows
  <2> QED BY <2>1, <2>4, FoundIs
<1>5. CASE GzipFails
  BY <1>5, FoundIs DEF GzipFails, SealedRows
<1>6. CASE Reopen
  <2>1. live = Missing /\ live' = <<>> /\ sealed' = sealed
    BY <1>0, <1>6 DEF Reopen, WriterInv
  <2>2. <<>> # Missing
    <3>1. <<>> \in Seq(0..MaxRows)
      OBVIOUS
    <3> QED BY <3>1, MissingIsNoFile
  <2>3. Lines(live') = Lines(live)
    BY <2>1, <2>2 DEF Lines
  <2> QED BY <2>1, <2>3, FoundIs DEF SealedRows
<1>7. CASE Open
  <2>1. live' = Lines(live) /\ sealed' = sealed
    BY <1>7 DEF Open
  <2>2. Lines(live') = Lines(live)
    <3>1. live \in Seq(0..MaxRows) \cup {Missing}
      BY <1>0 DEF TypeOK
    <3> QED BY <2>1, <3>1, AFile
  <2> QED BY <2>1, <2>2, FoundIs DEF SealedRows
<1> QED BY <1>1, <1>2, <1>3, <1>4, <1>5, <1>6, <1>7

\* A line that reaches the live file is found there, unless it is torn or comes
\* after a torn one; what was found still is.
LEMMA LineReaches ==
    ASSUME Inv, writer = "live", NEW x \in 0..MaxRows, live' = Append(live, x),
           sealed' = sealed
    PROVE  /\ Found \subseteq Found' /\ Found' \subseteq Found \cup ({x} \ {Torn})
           /\ x # Torn /\ ~EndsTorn(Lines(live)) => x \in Found'
           /\ EndsTorn(Lines(live')) <=> x = Torn
<1>1. live \in Seq(0..MaxRows)
  BY DEF Inv, TypeOK, WriterInv
<1>2. live' \in Seq(0..MaxRows)
  BY <1>1, AppendProperties
<1>3. Lines(live) = live /\ Lines(live') = live'
  BY <1>1, <1>2, MissingIsNoFile DEF Lines
<1>4. SealedRows' = SealedRows
  BY DEF SealedRows
<1>5. /\ Readable(live) \subseteq Readable(live')
      /\ Readable(live') \subseteq Readable(live) \cup ({x} \ {Torn})
      /\ x # Torn /\ ~EndsTorn(live) => x \in Readable(live')
      /\ EndsTorn(live') <=> x = Torn
  <2> DEFINE f == live
             g == Append(f, x)
  <2>1. /\ Readable(f) \subseteq Readable(g)
        /\ Readable(g) \subseteq Readable(f) \cup ({x} \ {Torn})
        /\ x # Torn /\ ~EndsTorn(f) => x \in Readable(g)
        /\ EndsTorn(g) <=> x = Torn
    BY <1>1, AppendedLine
  <2>2. g = live'
    OBVIOUS
  <2> HIDE DEF g
  <2> QED BY <2>1, <2>2
<1> QED BY <1>3, <1>4, <1>5, FoundIs

\* What a flush of the buffer does, writer and buffer as they may be.
LEMMA FlushReaches ==
    ASSUME Inv, WriteLines(buf), sealed' = sealed
    PROVE  \/ /\ live' = live /\ Found' = Found
              /\ buf = <<>> \/ writer # "live"
           \/ /\ writer = "live"
              /\ \E x \in 1..MaxRows : buf = Append(<<>>, x) /\ live' = Append(live, x)
<1>0. TypeOK /\ WriterInv /\ Len(buf) <= 1 /\ buf \in Seq(1..MaxRows)
  BY DEF Inv, TypeOK
<1>1. /\ writer # "live" => live' = live
      /\ buf = <<>> => live' = live
      /\ \A x \in 0..MaxRows : buf = Append(<<>>, x) /\ writer = "live" =>
                                 live' = Append(live, x)
  BY <1>0, BufferedLines, FlushedLive
<1>2. live' = live => Found' = Found
  BY FoundIs DEF SealedRows
<1>3. buf = <<>> \/ \E x \in 1..MaxRows : buf = Append(<<>>, x)
  BY <1>0, OneBuffered
<1>4. writer \in {"live", "unlinked"}
  BY <1>0 DEF TypeOK
<1> QED BY <1>1, <1>2, <1>3, <1>4

-----------------------------------------------------------------------------
(* Counted rows are accounted for *)

\* Counted, and neither readable nor in memory nor given to the budget.
LostRows == counted \ (Found \cup InMemory \cup pruned)

\* A torn line at the end has yet to cost the line after it.
Pending == IF EndsTorn(Lines(live)) THEN 1 ELSE 0

\* CountedRowsAccounted with the loss that is already certain.
LossInv == ~Fails("open") => Cardinality(LostRows) + Pending <= crashes + tears

LEMMA FiniteLoss ==
    ASSUME NEW n \in 0..MaxRows, NEW C \in SUBSET (1..n), NEW X
    PROVE  IsFiniteSet(C \ X) /\ Cardinality(C \ X) \in Nat
<1>1. n \in Int
  BY ArchiveAssumption
<1>2. IsFiniteSet(1..n)
  BY <1>1, FS_Interval
<1>3. IsFiniteSet(C \ X)
  BY <1>2, FS_Subset
<1> QED BY <1>3, FS_CardinalityType

\* One more row costs one.
LEMMA OneMoreLost ==
    ASSUME NEW A, IsFiniteSet(A), NEW B, NEW x, B \subseteq A \cup {x}
    PROVE  Cardinality(B) <= Cardinality(A) + 1
<1>1. /\ IsFiniteSet(A \cup {x}) /\ Cardinality(A) \in Nat
      /\ Cardinality(A \cup {x}) \in {Cardinality(A), Cardinality(A) + 1}
  BY FS_AddElement, FS_CardinalityType
<1>2. Cardinality(B) <= Cardinality(A \cup {x}) /\ Cardinality(B) \in Nat
  BY <1>1, FS_Subset, FS_CardinalityType
<1> QED BY <1>1, <1>2

LEMMA NoneLost ==
    ASSUME NEW A, IsFiniteSet(A), NEW B, B \subseteq A
    PROVE  Cardinality(B) <= Cardinality(A)
BY FS_Subset

LEMMA LostIsFinite ==
    /\ Inv => IsFiniteSet(LostRows) /\ Cardinality(LostRows) \in Nat
    /\ Inv' => IsFiniteSet(LostRows') /\ Cardinality(LostRows') \in Nat
BY FiniteLoss DEF Inv, TypeOK, LostRows

\* The allowance: a step may lose a row when it crashes, when it tears a line,
\* or when it appends to a torn one.
LEMMA Allowance ==
    ASSUME NEW l \in Nat, NEW m \in Nat, NEW p \in {0, 1}, NEW q \in {0, 1},
           NEW a \in Nat, NEW b \in Nat, l + p <= a,
           \/ m <= l /\ q <= p /\ b >= a
           \/ m <= l /\ b >= a + 1
           \/ m <= l + 1 /\ p = 1 /\ q = 0 /\ b >= a
           \/ m <= l + 1 /\ q <= p /\ b >= a + 1
           \/ m <= l + 1 /\ b >= a + 2
    PROVE  m + q <= b
OBVIOUS

LEMMA LossWithinAllowance ==
    ASSUME Inv, Inv', LossInv, UNCHANGED faulty,
           LET spent == crashes' + tears'
               had == crashes + tears
           IN  \/ /\ ~Fails("open") => LostRows' \subseteq LostRows
                  /\ \/ Pending' <= Pending /\ spent >= had
                     \/ spent >= had + 1
               \/ \E x : /\ ~Fails("open") => LostRows' \subseteq LostRows \cup {x}
                         /\ \/ Pending = 1 /\ Pending' = 0 /\ spent >= had
                            \/ Pending' <= Pending /\ spent >= had + 1
                            \/ spent >= had + 2
    PROVE  LossInv'
<1> SUFFICES ASSUME ~Fails("open") PROVE Cardinality(LostRows') + Pending' <= crashes' + tears'
  BY DEF LossInv, Fails
<1> DEFINE l == Cardinality(LostRows)
           m == Cardinality(LostRows')
           a == crashes + tears
           b == crashes' + tears'
<1>1. l \in Nat /\ m \in Nat /\ IsFiniteSet(LostRows)
  BY LostIsFinite
<1>2. a \in Nat /\ b \in Nat
  <2>1. crashes \in Nat /\ tears \in Nat
    BY DEF Inv, TypeOK
  <2>2. crashes' \in Nat /\ tears' \in Nat
    BY DEF Inv, TypeOK
  <2>3. \A i, j \in Nat : i + j \in Nat
    OBVIOUS
  <2> QED BY <2>1, <2>2, <2>3, Zenon
<1>0. PICK x \in {0, 1}, y \in {0, 1} : Pending = x /\ Pending' = y
  BY DEF Pending
<1>3. l + Pending <= a
  BY DEF LossInv
<1>4. \/ /\ m <= l
         /\ (Pending' <= Pending /\ b >= a) \/ b >= a + 1
      \/ /\ m <= l + 1
         /\ \/ Pending = 1 /\ Pending' = 0 /\ b >= a
            \/ Pending' <= Pending /\ b >= a + 1
            \/ b >= a + 2
  BY <1>1, NoneLost, OneMoreLost
<1> HIDE DEF l, m, a, b
<1>5. l + x <= a
  BY <1>0, <1>3
<1>6. \/ /\ m <= l
         /\ (y <= x /\ b >= a) \/ b >= a + 1
      \/ /\ m <= l + 1
         /\ \/ x = 1 /\ y = 0 /\ b >= a
            \/ y <= x /\ b >= a + 1
            \/ b >= a + 2
  BY <1>0, <1>4
<1>7. m + y <= b
  BY <1>1, <1>2, <1>5, <1>6, Allowance
<1> QED BY <1>0, <1>7 DEF m, b

LEMMA BufferedRows ==
    /\ \A b : b = <<>> => {b[i] : i \in DOMAIN b} = {}
    /\ \A b : \A x \in 1..MaxRows : b = Append(<<>>, x) => {b[i] : i \in DOMAIN b} = {x}
<1>1. {<<>>[i] : i \in DOMAIN <<>>} = {}
  OBVIOUS
<1>2. ASSUME NEW x \in 1..MaxRows PROVE {Append(<<>>, x)[i] : i \in DOMAIN Append(<<>>, x)} = {x}
  <2>1. Append(<<>>, x) = <<x>> /\ DOMAIN <<x>> = {1} /\ <<x>>[1] = x
    OBVIOUS
  <2> QED BY <2>1
<1> QED BY <1>1, <1>2

LEMMA LossStep == Inv /\ Inv' /\ LossInv /\ [Next]_vars => LossInv'
<1> SUFFICES ASSUME Inv, Inv', LossInv, [Next]_vars PROVE LossInv'
  OBVIOUS
<1>0. /\ WriterInv /\ ChunkInv /\ TypeOK
      /\ crashes \in Nat /\ tears \in Nat
  BY DEF Inv, TypeOK
<1>a. ASSUME UNCHANGED faulty, LostRows' \subseteq LostRows, UNCHANGED <<crashes, tears>>,
             Lines(live') \in {Lines(live), <<>>}
      PROVE  LossInv'
  <2>1. Pending' <= Pending
    BY <1>a, EmptyFile DEF Pending
  <2>2. crashes' + tears' >= crashes + tears
    BY <1>0, <1>a
  <2> QED BY <1>a, <2>1, <2>2, LossWithinAllowance
<1>1. CASE FlushFails \/ RenameFails \/ PruneEnds \/ ReopenFails \/ Snapshot \/ Rest
           \/ UNCHANGED vars
  <2>1. UNCHANGED <<live, sealed, writer, buf, counted, pruned, crashes, tears, faulty>>
    BY <1>1 DEF FlushFails, RenameFails, PruneEnds, ReopenFails, Snapshot, Rest, vars,
                fileVars, bufVars, history, PartlyFlushed
  <2>2. LostRows' = LostRows /\ Lines(live') = Lines(live)
    BY <2>1 DEF LostRows, Found, InMemory
  <2> QED BY <1>a, <2>1, <2>2
<1>2. CASE Rename \/ GzipCreate \/ GzipFinish \/ GzipUnlink \/ GzipFails \/ Reopen \/ Open
  <2>1. Found' = Found
    BY <1>2, RotationKeepsRows
  <2>2. UNCHANGED <<counted, pruned, crashes, tears, faulty>> /\ pc # "idle"
    BY <1>2 DEF Rename, GzipCreate, GzipFinish, GzipUnlink, GzipFails, Reopen, Open, history
  <2>3. InMemory = {}
    BY <1>0, <2>2, BufferedRows DEF WriterInv, InMemory
  <2>4. LostRows' \subseteq LostRows
    BY <2>1, <2>2, <2>3 DEF LostRows
  <2>5. Lines(live') \in {Lines(live), <<>>}
    <3>1. \/ live' = live \/ live' = Missing \/ live' = <<>> \/ live' = Lines(live)
      BY <1>2 DEF Rename, GzipCreate, GzipFinish, GzipUnlink, GzipFails, Reopen, Open
    <3> QED BY <3>1 DEF Lines
  <2> QED BY <1>a, <2>2, <2>4, <2>5
<1>3. CASE SessionFlushFails
  <2>1. UNCHANGED <<live, sealed, writer, counted, pruned, crashes, tears, faulty>> /\ pc # "idle"
    BY <1>3 DEF SessionFlushFails, fileVars, history, PartlyFlushed
  <2>2. InMemory = {} /\ Found' = Found
    BY <1>0, <2>1, BufferedRows DEF WriterInv, InMemory, Found
  <2>3. LostRows' \subseteq LostRows /\ Lines(live') = Lines(live)
    BY <2>1, <2>2 DEF LostRows
  <2> QED BY <1>a, <2>1, <2>3
<1>4. CASE Prune
  <2>1. /\ sealed' \subseteq sealed
        /\ pruned' = pruned \cup UNION {Readable(c.lines) : c \in sealed \ sealed'}
        /\ UNCHANGED <<live, writer, buf, counted, crashes, tears, faulty>>
    BY <1>4 DEF Prune, bufVars
  <2>2. Found \cup pruned \subseteq Found' \cup pruned' /\ InMemory' = InMemory
    BY <2>1 DEF Found, InMemory
  <2>3. LostRows' \subseteq LostRows /\ Lines(live') = Lines(live)
    BY <2>1, <2>2 DEF LostRows
  <2> QED BY <1>a, <2>1, <2>3
<1>5. CASE Record
  <2>1. /\ WriteLines(buf) /\ buf' = <<>>
        /\ UNCHANGED <<sealed, counted, pruned, crashes, tears, faulty>>
    BY <1>5 DEF Record, history, FlushBuffer
  <2>2. InMemory' = {}
    BY <2>1, BufferedRows DEF InMemory
  <2>3. CASE live' = live /\ Found' = Found /\ (buf = <<>> \/ writer # "live")
    <3>1. InMemory = {}
      BY <2>3, BufferedRows DEF InMemory
    <3>2. LostRows' \subseteq LostRows /\ Lines(live') = Lines(live)
      BY <2>1, <2>2, <2>3, <3>1 DEF LostRows
    <3> QED BY <1>a, <2>1, <3>2
  <2>4. ASSUME writer = "live", NEW x \in 1..MaxRows, buf = Append(<<>>, x), live' = Append(live, x)
        PROVE  LossInv'
    <3>1. x \in 0..MaxRows /\ x # Torn
      BY ArchiveAssumption DEF Torn
    <3>2. /\ Found \subseteq Found' /\ (~EndsTorn(Lines(live)) => x \in Found')
          /\ ~EndsTorn(Lines(live'))
      BY <2>1, <2>4, <3>1, LineReaches
    <3>3. InMemory = {x}
      BY <2>4, BufferedRows DEF InMemory
    <3>4. Pending' = 0 /\ (EndsTorn(Lines(live)) <=> Pending = 1) /\ Pending \in {0, 1}
      BY <3>2 DEF Pending
    <3>5. LostRows' \subseteq LostRows \cup {x}
      BY <2>1, <3>2, <3>3 DEF LostRows
    <3>6. crashes' + tears' >= crashes + tears
      BY <1>0, <2>1
    <3>7. CASE Pending = 1
      BY <2>1, <3>4, <3>5, <3>6, <3>7, LossWithinAllowance
    <3>8. CASE Pending = 0
      <4>1. LostRows' \subseteq LostRows /\ Pending' <= Pending
        BY <2>1, <3>2, <3>3, <3>4, <3>8 DEF LostRows
      <4> QED BY <2>1, <3>6, <4>1, LossWithinAllowance
    <3> QED BY <3>4, <3>7, <3>8
  <2> QED BY <2>1, <2>3, <2>4, FlushReaches
<1>6. CASE WriteBuffered
  <2>1. /\ pc = "write" /\ buf' = Append(buf, row) /\ counted' = counted \cup {row}
        /\ UNCHANGED <<live, sealed, writer, pruned, crashes, tears, faulty>>
    BY <1>6 DEF WriteBuffered, fileVars
  <2>2. buf = <<>> /\ row \in 1..MaxRows
    BY <1>0, <2>1, RowBuffered
  <2>3. Found' = Found /\ InMemory = {}
    BY <2>1, <2>2, BufferedRows DEF Found, InMemory
  <2>4. ~Fails("open") => LostRows' \subseteq LostRows
    <3> SUFFICES ASSUME ~Fails("open") PROVE LostRows' \subseteq LostRows
      OBVIOUS
    <3>1. writer = "live"
      BY <1>0, <2>1 DEF WriterInv
    <3>2. InMemory' = {row}
      BY <2>1, <2>2, <3>1, BufferedRows DEF InMemory
    <3> QED BY <2>1, <2>3, <3>2 DEF LostRows
  <2>5. Pending' <= Pending /\ crashes' + tears' >= crashes + tears
    BY <1>0, <2>1 DEF Pending
  <2> QED BY <2>1, <2>4, <2>5, LossWithinAllowance
<1>7. CASE WriteThrough
  <2>1. /\ pc = "write" /\ WriteLines(Append(buf, row)) /\ buf' = <<>>
        /\ counted' = counted \cup {row}
        /\ UNCHANGED <<sealed, writer, pruned, crashes, tears, faulty>>
    BY <1>7 DEF WriteThrough
  <2>2. buf = <<>> /\ row \in 1..MaxRows /\ row \in 0..MaxRows /\ row # Torn
    <3>1. buf = <<>> /\ row \in 1..MaxRows
      BY <1>0, <2>1, RowBuffered
    <3> QED BY <3>1, ArchiveAssumption DEF Torn
  <2>3. InMemory = {} /\ InMemory' = {}
    BY <2>1, <2>2, BufferedRows DEF InMemory
  <2>4. ASSUME ~Fails("open") PROVE LossInv'
    <3>1. writer = "live" /\ live \in Seq(0..MaxRows)
      BY <1>0, <2>1, <2>4 DEF WriterInv, TypeOK
    <3>2. live' = Append(live, row)
      BY <2>1, <2>2, <3>1, FlushedBuffer DEF WriteLines
    <3>3. /\ Found \subseteq Found' /\ (~EndsTorn(Lines(live)) => row \in Found')
          /\ ~EndsTorn(Lines(live'))
      BY <2>1, <2>2, <3>1, <3>2, LineReaches
    <3>4. Pending' = 0 /\ (EndsTorn(Lines(live)) <=> Pending = 1) /\ Pending \in {0, 1}
      BY <3>3 DEF Pending
    <3>5. LostRows' \subseteq LostRows \cup {row}
      BY <2>1, <2>3, <3>3 DEF LostRows
    <3>6. crashes' + tears' >= crashes + tears
      BY <1>0, <2>1
    <3>7. CASE Pending = 1
      BY <2>1, <3>4, <3>5, <3>6, <3>7, LossWithinAllowance
    <3>8. CASE Pending = 0
      <4>1. LostRows' \subseteq LostRows /\ Pending' <= Pending
        BY <2>1, <2>3, <3>3, <3>4, <3>8 DEF LostRows
      <4> QED BY <2>1, <3>6, <4>1, LossWithinAllowance
    <3> QED BY <3>4, <3>7, <3>8
  <2> QED BY <2>1, <2>4 DEF LossInv, Fails
<1>8. CASE WriteTorn
  <2>1. /\ pc = "write"
        /\ UNCHANGED <<sealed, writer, buf, counted, pruned, crashes, faulty>>
    BY <1>8 DEF WriteTorn, bufVars
  <2>a. CASE UNCHANGED <<live, tears>>
    <3>1. LostRows' \subseteq LostRows /\ Pending' = Pending /\ crashes' + tears' = crashes + tears
      BY <2>1, <2>a DEF LostRows, Found, InMemory, Pending
    <3>2. Pending \in {0, 1}
      BY DEF Pending
    <3>3. \A a \in Nat : a <= a /\ a >= a
      OBVIOUS
    <3>4. Pending' <= Pending /\ crashes' + tears' >= crashes + tears
      BY <1>0, <3>1, <3>2, <3>3 DEF TypeOK
    <3> QED BY <2>1, <3>1, <3>4, LossWithinAllowance
  <2>b. CASE WriteLines(<<Torn>>) /\ tears' = tears + 1
    <3>2. Found \subseteq Found' /\ InMemory' = InMemory
      <4>1. CASE writer = "live"
        <5>1. live \in Seq(0..MaxRows) /\ Torn \in 0..MaxRows
          BY <1>0, <4>1, ArchiveAssumption DEF WriterInv, TypeOK, Torn
        <5>2. <<Torn>> = Append(<<>>, Torn)
          OBVIOUS
        <5>3. live' = Append(live, Torn)
          BY <2>1, <2>b, <4>1, <5>1, <5>2, FlushedBuffer DEF WriteLines
        <5> QED BY <2>1, <2>b, <4>1, <5>1, <5>3, LineReaches DEF InMemory
      <4>2. CASE writer # "live"
        BY <2>1, <2>b, <4>2 DEF WriteLines, Found, InMemory
      <4> QED BY <4>1, <4>2
    <3>3. LostRows' \subseteq LostRows
      BY <2>1, <2>b, <3>2 DEF LostRows
    <3>4. crashes' + tears' >= crashes + tears + 1
      BY <1>0, <2>1, <2>b
    <3> QED BY <2>1, <2>b, <3>3, <3>4, LossWithinAllowance
  <2> QED BY <1>0, <1>8, <2>a, <2>b, TornRow
<1>9. CASE Crash
  <2>1. /\ crashes' = crashes + 1 /\ buf' = <<>>
        /\ UNCHANGED <<sealed, writer, counted, pruned, faulty>>
    BY <1>9 DEF Crash
  <2>2. \E x : InMemory \subseteq {x}
    <3>1. buf = <<>> \/ \E x \in 1..MaxRows : buf = Append(<<>>, x)
      BY <1>0, OneBuffered DEF TypeOK
    <3>2. {buf[i] : i \in DOMAIN buf} = {} \/ \E x : {buf[i] : i \in DOMAIN buf} = {x}
      <4>1. CASE buf = <<>>
        BY <4>1, BufferedRows
      <4>2. CASE \E x \in 1..MaxRows : buf = Append(<<>>, x)
        <5>1. PICK x \in 1..MaxRows : buf = Append(<<>>, x)
          BY <4>2
        <5> QED BY <5>1, BufferedRows
      <4> QED BY <3>1, <4>1, <4>2
    <3>3. InMemory = {} \/ InMemory = {buf[i] : i \in DOMAIN buf}
      BY DEF InMemory
    <3>4. InMemory = {} \/ \E x : InMemory = {x}
      BY <3>2, <3>3
    <3> QED BY <3>4
  <2>3. CASE half /\ writer = "live"
    <3>1. live \in Seq(0..MaxRows) /\ Torn \in 0..MaxRows
      BY <1>0, <2>3, ArchiveAssumption DEF WriterInv, TypeOK, Torn
    <3>2. live' = Append(live, Torn) /\ tears' = tears + 1
      BY <1>9, <2>3 DEF Crash
    <3>3. Found \subseteq Found'
      BY <2>1, <2>3, <3>1, <3>2, LineReaches
    <3>4. \E x : LostRows' \subseteq LostRows \cup {x}
      BY <2>1, <2>2, <3>3 DEF LostRows
    <3>5. crashes' + tears' >= crashes + tears + 2
      BY <1>0, <2>1, <3>2
    <3> QED BY <2>1, <3>4, <3>5, LossWithinAllowance
  <2>4. CASE ~(half /\ writer = "live")
    <3>1. live' = live /\ tears' = tears
      BY <1>9, <2>4 DEF Crash
    <3>2. Found' = Found /\ Pending' <= Pending
      BY <2>1, <3>1 DEF Found, Pending
    <3>3. \E x : LostRows' \subseteq LostRows \cup {x}
      BY <2>1, <2>2, <3>2 DEF LostRows
    <3>4. crashes' + tears' >= crashes + tears + 1
      BY <1>0, <2>1, <3>1
    <3> QED BY <2>1, <3>2, <3>3, <3>4, LossWithinAllowance
  <2> QED BY <2>3, <2>4
<1> QED BY <1>1, <1>2, <1>3, <1>4, <1>5, <1>6, <1>7, <1>8, <1>9 DEF Next

\* As long as the live file can be reopened, every row record_enqueued counted
\* can be read back, is in memory or was given to the budget, but for one per
\* crash and one per torn line: for any sizes, any faults and any number of
\* crashes, at any step of a rotation.
THEOREM CountedRowsAreAccounted == Spec => []CountedRowsAccounted
<1>1. Init => LossInv
  <2> SUFFICES ASSUME Init PROVE Cardinality(LostRows) + Pending <= crashes + tears
    BY DEF LossInv
  <2>1. LostRows = {} /\ Lines(live) \in {live, <<>>} /\ live = <<>>
    BY DEF Init, LostRows, Lines
  <2>2. Cardinality(LostRows) = 0 /\ Pending = 0
    BY <2>1, EmptyFile, FS_EmptySet DEF Pending
  <2> QED BY <2>2 DEF Init
<1>2. Inv /\ LossInv => CountedRowsAccounted
  <2> SUFFICES ASSUME Inv, LossInv, ~Fails("open")
               PROVE  Cardinality(LostRows) <= crashes + tears
    BY DEF CountedRowsAccounted, LostRows
  <2>1. PICK x \in {0, 1} : Pending = x
    BY DEF Pending
  <2>2. Cardinality(LostRows) + x <= crashes + tears
    BY <2>1 DEF LossInv
  <2>3. Cardinality(LostRows) \in Nat /\ crashes \in Nat /\ tears \in Nat
    BY LostIsFinite DEF Inv, TypeOK
  <2> QED BY <2>1, <2>2, <2>3
<1> QED BY <1>1, <1>2, Invariant, LossStep, PTL DEF Spec

-----------------------------------------------------------------------------
(* The archive is an append-only log *)

Old(S, T) == \A r \in S, s \in T : r < s

AllRows(S) == UNION {Rows(c.lines) : c \in S}

\* Chunks S and a live file of rows L hold whole lines in the order they were
\* recorded; two files of one timestamp are the chunk and its .gz.
InOrder(S, L) ==
    /\ Torn \notin L /\ Torn \notin AllRows(S)
    /\ Old(AllRows(S), L)
    /\ \A c, d \in S : c.stamp < d.stamp => Old(Rows(c.lines), Rows(d.lines))
    /\ \A c, d \in S : c.stamp = d.stamp =>
          Rows(c.lines) = Rows(d.lines) \/ Rows(c.lines) = {} \/ Rows(d.lines) = {}

LiveRows == Rows(Lines(live))
OnDisk == LiveRows \cup AllRows(sealed)

\* The row of record_enqueued is yet to be written.
Recording == \/ pc \in {"write", "rename", "gzip", "copy", "unlink", "reopen"}
             \/ pc = "prune" /\ live = Missing

\* What is on disk is in order and older than what is in memory and than the
\* row being recorded; pruning has all chunks ahead of it.
Orderly ==
    /\ ~half
    /\ InOrder(sealed, LiveRows)
    /\ Old(OnDisk, InMemory)
    /\ \A r \in OnDisk \cup InMemory : r <= row
    /\ Recording => \A r \in OnDisk : r < row
    /\ pc = "prune" => {Name(c) : c \in sealed} \subseteq queue

OrderInv == Sound => Orderly

LEMMA FewerInOrder ==
    ASSUME NEW S, NEW L, NEW T \in SUBSET S, NEW M \in SUBSET L, InOrder(S, L)
    PROVE  InOrder(T, M) /\ AllRows(T) \subseteq AllRows(S)
<1>1. AllRows(T) \subseteq AllRows(S)
  BY DEF AllRows
<1> QED BY <1>1 DEF InOrder, Old

LEMMA OneMoreInOrder ==
    ASSUME NEW S, NEW L, NEW x, InOrder(S, L), x # Torn, Old(AllRows(S), {x})
    PROVE  InOrder(S, L \cup {x})
BY DEF InOrder, Old

\* In order, every row is readable.
LEMMA RowsInOrder ==
    ASSUME NEW f \in Seq(0..MaxRows) \cup {Missing}, NEW n, NEW S \in SUBSET Chunk(n),
           InOrder(S, Rows(Lines(f)))
    PROVE  /\ Readable(Lines(f)) \cup UNION {Readable(c.lines) : c \in S} =
                Rows(Lines(f)) \cup AllRows(S)
           /\ Rows(Lines(f)) \cup AllRows(S) \subseteq 1..MaxRows
<1>1. \A g \in Seq(0..MaxRows) : Torn \notin Rows(g) =>
          Readable(g) = Rows(g) /\ Rows(g) \subseteq 1..MaxRows
  <2> SUFFICES ASSUME NEW g \in Seq(0..MaxRows), Torn \notin Rows(g)
               PROVE  Readable(g) = Rows(g) /\ Rows(g) \subseteq 1..MaxRows
    OBVIOUS
  <2>1. Readable(g) = Rows(g) /\ Rows(g) \subseteq 0..MaxRows
    BY WholeFile, RowsAreLines
  <2> QED BY <2>1, ArchiveAssumption DEF Torn
<1>2. Lines(f) \in Seq(0..MaxRows) /\ Torn \notin Rows(Lines(f))
  BY AFile DEF InOrder
<1>3. \A c \in S : c.lines \in Seq(0..MaxRows) /\ Torn \notin Rows(c.lines)
  BY DEF Chunk, InOrder, AllRows
<1>4. \A c \in S : Readable(c.lines) = Rows(c.lines) /\ Rows(c.lines) \subseteq 1..MaxRows
  BY <1>1, <1>3
<1> QED BY <1>1, <1>2, <1>4 DEF AllRows

LEMMA OrderlyFound ==
    /\ Inv /\ Orderly => Found = OnDisk /\ OnDisk \subseteq 1..MaxRows
    /\ Inv' /\ Orderly' => Found' = OnDisk' /\ OnDisk' \subseteq 1..MaxRows
BY RowsInOrder DEF Inv, TypeOK, Orderly, OnDisk, LiveRows, Found

\* A step that brings no row and no file.
LEMMA OrderlyKept ==
    ASSUME Orderly, sealed' \subseteq sealed, LiveRows' \subseteq LiveRows,
           InMemory' \subseteq InMemory, row' = row, half' = half \/ half' = FALSE,
           Recording' => Recording, pc' = "prune" => {Name(c) : c \in sealed'} \subseteq queue'
    PROVE  Orderly'
<1>1. InOrder(sealed', LiveRows') /\ OnDisk' \subseteq OnDisk
  BY FewerInOrder DEF Orderly, OnDisk
<1> QED BY <1>1 DEF Orderly, Old

LEMMA NoRowBuffered ==
    /\ WriterInv /\ pc # "idle" => InMemory = {}
    /\ buf' = <<>> => InMemory' = {}
    /\ writer # "live" => InMemory = {}
    /\ writer' # "live" => InMemory' = {}
BY BufferedRows DEF WriterInv, InMemory

LEMMA MemoryRows == TypeOK => InMemory \subseteq 1..MaxRows
<1> SUFFICES ASSUME TypeOK PROVE InMemory \subseteq 1..MaxRows
  OBVIOUS
<1>1. buf \in Seq(1..MaxRows)
  BY DEF TypeOK
<1>2. Rows(buf) \subseteq 1..MaxRows
  BY <1>1, RowsAreLines
<1> QED BY <1>2 DEF InMemory, Rows

\* A line that reaches the live file adds its row.
LEMMA RowReaches ==
    ASSUME Inv, writer = "live", NEW x \in 0..MaxRows, live' = Append(live, x)
    PROVE  LiveRows' = LiveRows \cup {x}
<1>1. live \in Seq(0..MaxRows)
  BY DEF Inv, TypeOK, WriterInv
<1>2. live' \in Seq(0..MaxRows)
  BY <1>1, AppendProperties
<1>3. Lines(live) = live /\ Lines(live') = live'
  BY <1>1, <1>2, MissingIsNoFile DEF Lines
<1>4. Rows(live') = Rows(live) \cup {x}
  <2> DEFINE f == live
             g == Append(f, x)
  <2>1. Rows(g) = Rows(f) \cup {x}
    BY <1>1, AppendedLine
  <2>2. g = live'
    OBVIOUS
  <2> HIDE DEF g
  <2> QED BY <2>1, <2>2
<1> QED BY <1>3, <1>4 DEF LiveRows

LEMMA OrderStep == Inv /\ Inv' /\ OrderInv /\ [Next]_vars => OrderInv'
<1> SUFFICES ASSUME Inv, Inv', OrderInv, [Next]_vars, Sound' PROVE Orderly'
  BY DEF OrderInv
<1>f. UNCHANGED faulty
  BY DEF Next, vars, history, bufVars, fileVars, FlushFails, Record, WriteBuffered, WriteThrough,
     SessionFlushFails, WriteTorn, Rename, RenameFails, GzipCreate, GzipFinish, GzipUnlink,
     GzipFails, Prune, PruneEnds, Reopen, ReopenFails, Snapshot, Crash, Open, Rest, FlushBuffer, PartlyFlushed
<1>s. Sound
  BY <1>f DEF Sound, Fails
<1>t. Orderly /\ WriterInv /\ ChunkInv /\ TypeOK
  BY <1>s DEF OrderInv, Inv
<1>u. row \in Nat
  BY <1>t DEF TypeOK
<1>0. /\ Orderly /\ WriterInv /\ ChunkInv /\ TypeOK /\ row \in Nat
      /\ ~Fails("flush") /\ ~Fails("remove")
  BY <1>s, <1>t, <1>u DEF Sound
<1>r. OnDisk \subseteq 1..MaxRows
  BY <1>0, OrderlyFound
<1>1. CASE RenameFails \/ ReopenFails \/ PruneEnds \/ Snapshot \/ Rest \/ UNCHANGED vars
  <2>1. UNCHANGED <<live, sealed, writer, buf, half, row>>
    BY <1>1 DEF RenameFails, ReopenFails, PruneEnds, Snapshot, Rest, vars, fileVars, bufVars
  <2>2. LiveRows' = LiveRows /\ InMemory' = InMemory
    BY <2>1 DEF LiveRows, InMemory
  <2>3. /\ Recording' => Recording
        /\ pc' = "prune" => pc = "prune" /\ queue' = queue
    BY <1>1, <2>1 DEF RenameFails, ReopenFails, PruneEnds, Snapshot, Rest, vars, fileVars, bufVars,
                      Return, Recording
  <2>4. pc' = "prune" => {Name(c) : c \in sealed'} \subseteq queue'
    BY <1>0, <2>1, <2>3 DEF Orderly
  <2> QED BY <1>0, <2>1, <2>2, <2>3, <2>4, OrderlyKept
<1>2. CASE GzipUnlink \/ GzipFails \/ Open \/ Reopen
  <2>1. /\ sealed' \subseteq sealed /\ UNCHANGED <<buf, half, row>> /\ pc # "idle"
        /\ pc' # "idle"
    BY <1>2 DEF GzipUnlink, GzipFails, Open, Reopen, StartPrune, bufVars
  <2>2. InMemory' = {}
    BY <1>0, <2>1, NoRowBuffered DEF WriterInv
  <2>3. LiveRows' = LiveRows
    <3>1. CASE GzipUnlink \/ GzipFails
      BY <3>1 DEF GzipUnlink, GzipFails, LiveRows
    <3>2. CASE Open
      <4>1. Lines(live') = Lines(live)
        BY <1>0, <3>2, AFile DEF Open, TypeOK
      <4> QED BY <4>1 DEF LiveRows
    <3>3. CASE Reopen
      <4>1. live = Missing /\ live' = <<>>
        BY <1>0, <3>3 DEF Reopen, WriterInv
      <4>2. Lines(live) = <<>> /\ Lines(live') = <<>>
        BY <4>1 DEF Lines
      <4> QED BY <4>2 DEF LiveRows
    <3> QED BY <1>2, <3>1, <3>2, <3>3
  <2>4. Recording' => Recording
    <3>1. CASE GzipUnlink \/ GzipFails \/ Reopen
      BY <3>1 DEF GzipUnlink, GzipFails, Reopen, Recording
    <3>2. CASE Open
      <4>1. live' # Missing
        BY <1>0, <3>2, AFile DEF Open, TypeOK
      <4> QED BY <3>2, <4>1 DEF Open, StartPrune, Recording
    <3> QED BY <1>2, <3>1, <3>2
  <2>5. pc' = "prune" => {Name(c) : c \in sealed'} \subseteq queue'
    BY <1>2 DEF GzipUnlink, GzipFails, Open, Reopen, StartPrune
  <2> QED BY <1>0, <2>1, <2>2, <2>3, <2>4, <2>5, OrderlyKept
<1>3. CASE Prune
  <2>1. PICK n \in oldest(queue) : /\ queue' = queue \ {n}
                                   /\ sealed' = {c \in sealed : Name(c) # n}
    BY <1>0, <1>3 DEF Prune
  <2>2. UNCHANGED <<live, writer, buf, half, row, pc>> /\ pc = "prune"
    BY <1>3 DEF Prune, bufVars
  <2>3. {Name(c) : c \in sealed'} \subseteq queue'
    BY <1>0, <2>1, <2>2 DEF Orderly
  <2>4. LiveRows' = LiveRows /\ InMemory' = InMemory /\ (Recording' => Recording)
    BY <2>2 DEF LiveRows, InMemory, Recording
  <2> QED BY <1>0, <2>1, <2>2, <2>3, <2>4, OrderlyKept
<1>4. CASE Crash
  <2>1. /\ UNCHANGED <<live, sealed, row>> /\ buf' = <<>> /\ half' = FALSE /\ pc' = "down"
    BY <1>0, <1>4 DEF Crash, Orderly
  <2>2. LiveRows' = LiveRows /\ InMemory' = {} /\ ~Recording'
    BY <2>1, NoRowBuffered DEF LiveRows, Recording
  <2> QED BY <1>0, <2>1, <2>2, OrderlyKept
<1>5. CASE Record
  <2>1. /\ WriteLines(buf) /\ buf' = <<>> /\ half' = FALSE /\ row' = row + 1
        /\ sealed' = sealed /\ pc' \in {"write", "rename", "idle"}
    BY <1>5 DEF Record, Return, FlushBuffer
  <2>2. InMemory' = {}
    BY <2>1, NoRowBuffered
  <2>3. InOrder(sealed, LiveRows') /\ LiveRows' \subseteq LiveRows \cup InMemory
    <3>1. CASE live' = live
      BY <1>0, <3>1 DEF Orderly, LiveRows
    <3>2. ASSUME writer = "live", NEW x \in 1..MaxRows, buf = Append(<<>>, x),
                 live' = Append(live, x)
          PROVE  InOrder(sealed, LiveRows') /\ LiveRows' \subseteq LiveRows \cup InMemory
      <4>1. x \in 0..MaxRows /\ x # Torn /\ InMemory = {x}
        BY <3>2, BufferedRows, ArchiveAssumption DEF Torn, InMemory
      <4>2. LiveRows' = LiveRows \cup {x}
        BY <3>2, <4>1, RowReaches
      <4>3. Old(AllRows(sealed), {x}) /\ InOrder(sealed, LiveRows)
        BY <1>0, <4>1 DEF Orderly, Old, OnDisk
      <4> QED BY <4>1, <4>2, <4>3, OneMoreInOrder
    <3> QED BY <2>1, <3>1, <3>2, FlushReaches
  <2>4. \A r \in OnDisk' : r < row'
    <3>1. OnDisk' \subseteq OnDisk \cup InMemory
      BY <2>1, <2>3 DEF OnDisk
    <3>2. InMemory \subseteq Int
      BY <1>0, MemoryRows
    <3>3. \A r \in OnDisk \cup InMemory : r \in Int /\ r <= row
      BY <1>0, <1>r, <3>2 DEF Orderly
    <3>4. \A r \in Int : r <= row => r < row + 1
      BY <1>0
    <3> QED BY <2>1, <3>1, <3>3, <3>4
  <2>5. \A r \in OnDisk' : r <= row'
    <3>1. OnDisk' \subseteq OnDisk \cup InMemory
      BY <2>1, <2>3 DEF OnDisk
    <3>2. InMemory \subseteq Int
      BY <1>0, MemoryRows
    <3>3. \A r \in OnDisk \cup InMemory : r \in Int /\ r <= row
      BY <1>0, <1>r, <3>2 DEF Orderly
    <3>4. \A r \in Int : r <= row => r <= row + 1
      BY <1>0
    <3> QED BY <2>1, <3>1, <3>3, <3>4
  <2> QED BY <2>1, <2>2, <2>3, <2>4, <2>5 DEF Orderly, Old
<1>6. CASE WriteBuffered
  <2>1. /\ pc = "write" /\ buf' = Append(buf, row) /\ pc' = "idle"
        /\ UNCHANGED <<live, sealed, half, row, writer>>
    BY <1>6 DEF WriteBuffered, Return, fileVars
  <2>2. buf = <<>> /\ row \in 1..MaxRows
    BY <1>0, <2>1, RowBuffered
  <2>3. InMemory' \subseteq {row}
    BY <2>1, <2>2, BufferedRows DEF InMemory
  <2>4. LiveRows' = LiveRows /\ OnDisk' = OnDisk /\ ~Recording' /\ Recording
    BY <2>1 DEF LiveRows, OnDisk, Recording
  <2>5. Old(OnDisk', InMemory') /\ \A r \in OnDisk' : r <= row'
    BY <1>0, <2>1, <2>3, <2>4 DEF Orderly, Old
  <2>6. \A r \in InMemory' : r <= row'
    BY <1>0, <2>1, <2>3
  <2> QED BY <1>0, <2>1, <2>4, <2>5, <2>6 DEF Orderly
<1>7. CASE WriteThrough
  <2>1. /\ pc = "write" /\ WriteLines(Append(buf, row)) /\ buf' = <<>> /\ pc' = "idle"
        /\ UNCHANGED <<sealed, half, row, writer>>
    BY <1>7 DEF WriteThrough, Return
  <2>2. /\ buf = <<>> /\ row \in 1..MaxRows /\ row \in 0..MaxRows /\ row # Torn
    BY <1>0, <2>1, RowBuffered, ArchiveAssumption DEF Torn, TypeOK
  <2>3. InMemory' = {} /\ ~Recording' /\ Recording
    BY <2>1, NoRowBuffered DEF Recording
  <2>4. InOrder(sealed, LiveRows') /\ LiveRows' \subseteq LiveRows \cup {row}
    <3>1. CASE writer # "live"
      <4>1. live' = live
        BY <2>1, <3>1 DEF WriteLines
      <4> QED BY <1>0, <4>1 DEF Orderly, LiveRows
    <3>2. CASE writer = "live"
      <4>1. live \in Seq(0..MaxRows)
        BY <1>0, <3>2 DEF WriterInv, TypeOK
      <4>2. live' = Append(live, row)
        BY <2>1, <2>2, <3>2, <4>1, FlushedBuffer DEF WriteLines
      <4>3. LiveRows' = LiveRows \cup {row}
        BY <2>2, <3>2, <4>2, RowReaches
      <4>4. Old(AllRows(sealed), {row}) /\ InOrder(sealed, LiveRows)
        BY <1>0, <2>3 DEF Orderly, Old, OnDisk
      <4> QED BY <2>2, <4>3, <4>4, OneMoreInOrder
    <3> QED BY <3>1, <3>2
  <2>5. OnDisk' \subseteq OnDisk \cup {row}
    BY <2>1, <2>4 DEF OnDisk
  <2>6. \A r \in OnDisk' : r <= row'
    BY <1>0, <2>1, <2>5 DEF Orderly
  <2> QED BY <1>0, <2>1, <2>3, <2>4, <2>6 DEF Orderly, Old
<1>8. CASE FlushFails \/ SessionFlushFails \/ WriteTorn
  BY <1>0, <1>8 DEF FlushFails, SessionFlushFails, WriteTorn, PartlyFlushed

<1>9. CASE Rename
  <2> DEFINE new == [stamp |-> stamp + 1, gz |-> FALSE, lines |-> live, bytes |-> len]
  <2>1. /\ sealed' = sealed \cup {new} /\ live' = Missing /\ live # Missing
        /\ pc = "rename" /\ pc' = "gzip" /\ UNCHANGED <<buf, half, row, writer>>
    BY <1>0, <1>9 DEF Rename, WriterInv, bufVars
  <2>2. new.stamp = stamp + 1 /\ new.lines = live
    OBVIOUS
  <2>3. \A c \in sealed : c.stamp < new.stamp /\ ~(new.stamp <= c.stamp)
    <3>1. \A c \in sealed : c.stamp \in 1..stamp /\ stamp \in Nat
      BY <1>0 DEF TypeOK, Chunk
    <3> QED BY <2>2, <3>1
  <2> HIDE DEF new
  <2>4. Rows(new.lines) = LiveRows /\ LiveRows' = {}
    <3>1. Lines(live) = live /\ Lines(live') = <<>>
      BY <2>1 DEF Lines
    <3> QED BY <2>2, <3>1, EmptyFile DEF LiveRows
  <2>5. AllRows(sealed') = OnDisk /\ OnDisk' = OnDisk
    BY <2>1, <2>4 DEF AllRows, OnDisk
  <2>6. InOrder(sealed', {})
    <3>1. \A c, d \in sealed' : c.stamp < d.stamp => Old(Rows(c.lines), Rows(d.lines))
      <4> SUFFICES ASSUME NEW c \in sealed', NEW d \in sealed', c.stamp < d.stamp
                   PROVE  Old(Rows(c.lines), Rows(d.lines))
        OBVIOUS
      <4>1. CASE d = new
        <5>1. c \in sealed
          <6>1. ~(new.stamp < new.stamp)
            BY <1>0, <2>2 DEF TypeOK
          <6> QED BY <2>1, <4>1, <6>1
        <5>2. Rows(c.lines) \subseteq AllRows(sealed) /\ Old(AllRows(sealed), LiveRows)
          BY <1>0, <5>1 DEF AllRows, Orderly, InOrder
        <5> QED BY <2>4, <4>1, <5>2 DEF Old
      <4>2. CASE d \in sealed
        <5>1. c \in sealed
          <6>1. ~(new.stamp < d.stamp)
            <7>1. d.stamp \in 1..stamp /\ stamp \in Nat
              BY <1>0, <4>2 DEF TypeOK, Chunk
            <7> QED BY <2>2, <7>1
          <6> QED BY <2>1, <6>1
        <5> QED BY <1>0, <4>2, <5>1 DEF Orderly, InOrder
      <4> QED BY <2>1, <4>1, <4>2
    <3>2. \A c, d \in sealed' : c.stamp = d.stamp =>
             Rows(c.lines) = Rows(d.lines) \/ Rows(c.lines) = {} \/ Rows(d.lines) = {}
      <4>1. \A c \in sealed : c.stamp # new.stamp
        <5>1. \A c \in sealed : c.stamp \in 1..stamp /\ stamp \in Nat
          BY <1>0 DEF TypeOK, Chunk
        <5> QED BY <2>2, <5>1
      <4> QED BY <1>0, <2>1, <4>1 DEF Orderly, InOrder
    <3>3. Torn \notin AllRows(sealed')
      BY <1>0, <2>5 DEF Orderly, InOrder, OnDisk
    <3> QED BY <3>1, <3>2, <3>3 DEF InOrder, Old
  <2>7. InMemory' = {}
    <3>1. buf' = <<>>
      BY <1>0, <2>1 DEF WriterInv
    <3> QED BY <3>1, NoRowBuffered
  <2>8. Recording
    BY <2>1 DEF Recording
  <2> QED BY <1>0, <2>1, <2>4, <2>5, <2>6, <2>7, <2>8 DEF Orderly, Old
<1>10. CASE GzipCreate
  <2>m. PICK m \in Nat : /\ m = 0 \/ m \in Gzipped(Newest.bytes)
                       /\ sealed' = sealed \cup {[stamp |-> stamp, gz |-> TRUE, lines |-> <<>>, bytes |-> m]}
    BY <1>10, CreatedIs
  <2> DEFINE new == [stamp |-> stamp, gz |-> TRUE, lines |-> <<>>, bytes |-> m]
  <2>1. /\ sealed' = sealed \cup {new} /\ pc = "gzip" /\ pc' = "copy"
        /\ UNCHANGED <<live, buf, half, row, writer>>
    BY <1>10, <2>m DEF GzipCreate, bufVars
  <2>2. Rows(new.lines) = {}
    BY EmptyFile
  <2> HIDE DEF new
  <2>3. AllRows(sealed') = AllRows(sealed) /\ LiveRows' = LiveRows /\ InMemory' = InMemory
    BY <2>1, <2>2 DEF AllRows, LiveRows, InMemory
  <2>4. InOrder(sealed', LiveRows')
    BY <1>0, <2>1, <2>2, <2>3 DEF Orderly, InOrder, Old
  <2>5. OnDisk' = OnDisk /\ Recording
    BY <2>1, <2>3 DEF OnDisk, Recording
  <2> QED BY <1>0, <2>1, <2>3, <2>4, <2>5 DEF Orderly
<1>11. CASE GzipFinish
  <2>m. PICK m \in Nat : m \in Gzipped(Newest.bytes) /\ sealed' = {Filled(c, m) : c \in sealed}
    BY <1>11, FilledIs
  <2>1. /\ sealed' = {Filled(c, m) : c \in sealed} /\ pc = "copy" /\ pc' = "unlink"
        /\ UNCHANGED <<live, buf, half, row, writer>>
    BY <1>11, <2>m DEF GzipFinish, bufVars
  <2>2. PICK n \in sealed : IsPlain(n) /\ Newest = n
    BY <1>0, <2>1, NewestIsPlain DEF ChunkInv
  <2>3. \A c \in sealed : /\ Filled(c, m).stamp = c.stamp
                          /\ Filled(c, m).lines = IF IsGz(c) THEN n.lines ELSE c.lines
    BY <2>1, <2>2, FilledChunk, SameName
  <2>4. \A c \in sealed : \E d \in sealed : /\ Filled(c, m).stamp = d.stamp
                                            /\ Rows(Filled(c, m).lines) = Rows(d.lines)
    <3> SUFFICES ASSUME NEW c \in sealed
                 PROVE  \E d \in sealed : /\ Filled(c, m).stamp = d.stamp
                                          /\ Rows(Filled(c, m).lines) = Rows(d.lines)
      OBVIOUS
    <3>1. CASE IsGz(c)
      BY <2>2, <2>3, <3>1 DEF IsGz, IsPlain
    <3>2. CASE ~IsGz(c)
      BY <2>3, <3>2
    <3> QED BY <3>1, <3>2
  <2>5. AllRows(sealed') \subseteq AllRows(sealed) /\ LiveRows' = LiveRows /\ InMemory' = InMemory
    BY <2>1, <2>4 DEF AllRows, LiveRows, InMemory
  <2>6. \A c \in sealed' : \E d \in sealed : c.stamp = d.stamp /\ Rows(c.lines) = Rows(d.lines)
    BY <2>1, <2>4
  <2>7. InOrder(sealed', LiveRows')
    BY <1>0, <2>5, <2>6 DEF Orderly, InOrder, Old
  <2>8. OnDisk' \subseteq OnDisk /\ Recording
    BY <2>1, <2>5 DEF OnDisk, Recording
  <2> QED BY <1>0, <2>1, <2>5, <2>7, <2>8 DEF Orderly, Old
<1> QED BY <1>1, <1>2, <1>3, <1>4, <1>5, <1>6, <1>7, <1>8, <1>9, <1>10, <1>11 DEF Next

\* The log's variables, as the archive has them.
LEMMA LogState ==
    ASSUME UNCHANGED faulty
    PROVE  /\ ~Sound => UNCHANGED Log!vars
           /\ Sound /\ Found' = Found /\ InMemory' = InMemory => UNCHANGED Log!vars
BY DEF Log!vars, Sound, Fails

\* A step under a sound disk is a step of the log: a flush is Persist, a write
\* is Accept, a deletion Expire, and every step of a rotation leaves the log as
\* it is.
LEMMA LogStep ==
    Inv /\ Inv' /\ OrderInv /\ OrderInv' /\ [Next]_vars => [Log!Next]_(Log!vars)
<1> SUFFICES ASSUME Inv, Inv', OrderInv, OrderInv', [Next]_vars
             PROVE  [Log!Next]_(Log!vars)
  OBVIOUS
<1>f. UNCHANGED faulty
  BY DEF Next, vars, history, bufVars, fileVars, FlushFails, Record, WriteBuffered, WriteThrough,
     SessionFlushFails, WriteTorn, Rename, RenameFails, GzipCreate, GzipFinish, GzipUnlink,
     GzipFails, Prune, PruneEnds, Reopen, ReopenFails, Snapshot, Crash, Open, Rest, FlushBuffer, PartlyFlushed
<1>s. SUFFICES ASSUME Sound PROVE [Log!Next]_(Log!vars)
  BY <1>f, LogState
<1>t. Sound'
  BY <1>f, <1>s DEF Sound, Fails
<1>0. /\ Orderly /\ Orderly' /\ WriterInv /\ ChunkInv /\ TypeOK
      /\ ~Fails("flush") /\ ~Fails("remove")
  BY <1>s, <1>t DEF OrderInv, Inv, Sound
<1>r. /\ Found = OnDisk /\ OnDisk \subseteq 1..MaxRows
      /\ Found' = OnDisk' /\ InMemory \subseteq 1..MaxRows
  BY <1>0, OrderlyFound, MemoryRows
<1>a. ASSUME Found' = Found, InMemory' = InMemory PROVE [Log!Next]_(Log!vars)
  BY <1>f, <1>a, LogState
<1>1. CASE FlushFails \/ SessionFlushFails \/ WriteTorn
  BY <1>0, <1>1 DEF FlushFails, SessionFlushFails, WriteTorn, PartlyFlushed
<1>2. CASE RenameFails \/ ReopenFails \/ PruneEnds \/ Snapshot \/ Rest \/ UNCHANGED vars
  <2>1. UNCHANGED <<live, sealed, writer, buf>>
    BY <1>2 DEF RenameFails, ReopenFails, PruneEnds, Snapshot, Rest, vars, fileVars, bufVars
  <2>2. Found' = Found /\ InMemory' = InMemory
    BY <2>1 DEF Found, InMemory
  <2> QED BY <1>a, <2>2
<1>3. CASE Rename \/ GzipCreate \/ GzipFinish \/ GzipUnlink \/ GzipFails \/ Reopen \/ Open
  <2>1. Found' = Found
    BY <1>3, RotationKeepsRows
  <2>2. buf' = buf /\ buf = <<>>
    BY <1>0, <1>3 DEF Rename, GzipCreate, GzipFinish, GzipUnlink, GzipFails, Reopen, Open,
                      bufVars, WriterInv
  <2>3. InMemory' = {} /\ InMemory = {}
    BY <2>2, BufferedRows, NoRowBuffered DEF InMemory
  <2> QED BY <1>a, <2>1, <2>3
<1>4. CASE Record
  <2>1. WriteLines(buf) /\ buf' = <<>> /\ sealed' = sealed
    BY <1>4 DEF Record, FlushBuffer
  <2>2. InMemory' = {}
    BY <2>1, NoRowBuffered
  <2>3. CASE live' = live /\ Found' = Found /\ (buf = <<>> \/ writer # "live")
    <3>1. InMemory = {}
      BY <2>3, BufferedRows DEF InMemory
    <3> QED BY <1>a, <2>2, <2>3, <3>1
  <2>4. ASSUME writer = "live", NEW x \in 1..MaxRows, buf = Append(<<>>, x), live' = Append(live, x)
        PROVE  [Log!Next]_(Log!vars)
    <3>1. x \in 0..MaxRows /\ x # Torn /\ InMemory = {x}
      BY <2>4, BufferedRows, ArchiveAssumption DEF Torn, InMemory
    <3>2. LiveRows' = LiveRows \cup {x}
      BY <2>4, <3>1, RowReaches
    <3>3. Found' = Found \cup {x}
      BY <1>r, <2>1, <3>2 DEF OnDisk
    <3>4. Log!Persist({x})
      BY <1>s, <1>t, <2>2, <3>1, <3>3 DEF Log!Persist, Log!Older
    <3>5. {x} \in SUBSET Log!Row
      BY DEF Log!Row
    <3> QED BY <3>4, <3>5 DEF Log!Next
  <2> QED BY <2>1, <2>3, <2>4, FlushReaches
<1>5. CASE WriteBuffered
  <2>1. /\ pc = "write" /\ buf' = Append(buf, row)
        /\ UNCHANGED <<live, sealed, writer>>
    BY <1>5 DEF WriteBuffered, fileVars
  <2>2. buf = <<>> /\ row \in 1..MaxRows /\ InMemory = {} /\ Found' = Found
    BY <1>0, <2>1, RowBuffered, NoRowBuffered DEF Found
  <2>3. CASE writer # "live"
    <3>1. InMemory' = {}
      BY <2>1, <2>3, NoRowBuffered
    <3> QED BY <1>a, <2>2, <3>1
  <2>4. CASE writer = "live"
    <3>1. InMemory' = {row}
      BY <2>1, <2>2, <2>4, BufferedRows DEF InMemory
    <3>2. \A r \in Found : r < row
      BY <1>0, <1>r, <2>1 DEF Orderly, Recording
    <3>3. Log!Accept(row)
      BY <1>s, <1>t, <2>2, <3>1, <3>2 DEF Log!Accept, Log!Older
    <3> QED BY <2>2, <3>3 DEF Log!Next, Log!Row
  <2> QED BY <2>3, <2>4
<1>6. CASE WriteThrough
  <2>1. /\ pc = "write" /\ WriteLines(Append(buf, row)) /\ buf' = <<>>
        /\ UNCHANGED <<sealed, writer>>
    BY <1>6 DEF WriteThrough
  <2>2. /\ buf = <<>> /\ row \in 1..MaxRows /\ row \in 0..MaxRows
        /\ InMemory = {} /\ InMemory' = {}
    BY <1>0, <2>1, RowBuffered, NoRowBuffered DEF TypeOK
  <2>3. CASE writer # "live"
    <3>1. Found' = Found
      BY <2>1, <2>3 DEF WriteLines, Found
    <3> QED BY <1>a, <2>2, <3>1
  <2>4. CASE writer = "live"
    <3>1. live \in Seq(0..MaxRows)
      BY <1>0, <2>4 DEF WriterInv, TypeOK
    <3>2. live' = Append(live, row)
      BY <2>1, <2>2, <2>4, <3>1, FlushedBuffer DEF WriteLines
    <3>3. LiveRows' = LiveRows \cup {row}
      BY <2>2, <2>4, <3>2, RowReaches
    <3>4. Found' = Found \cup {row}
      BY <1>r, <2>1, <3>3 DEF OnDisk
    <3>5. \A r \in Found : r < row
      BY <1>0, <1>r, <2>1 DEF Orderly, Recording
    <3>6. Log!Accept(row)
      BY <1>s, <1>t, <2>2, <3>4, <3>5 DEF Log!Accept, Log!Older
    <3> QED BY <2>2, <3>6 DEF Log!Next, Log!Row
  <2> QED BY <2>3, <2>4
<1>7. CASE Prune
  <2>1. PICK n \in oldest(queue) : sealed' = {c \in sealed : Name(c) # n}
    BY <1>0, <1>7 DEF Prune
  <2>2. UNCHANGED <<live, writer, buf>> /\ pc = "prune"
    BY <1>7 DEF Prune, bufVars
  <2>3. LiveRows' = LiveRows /\ InMemory' = InMemory
    BY <2>2 DEF LiveRows, InMemory
  <2> DEFINE gone == Found \ Found'
  <2>4. gone \in SUBSET Log!Row /\ Found' = Found \ gone
    BY <1>r, <2>1, <2>3 DEF OnDisk, AllRows, Log!Row
  <2>5. Old(gone, Found')
    <3> SUFFICES ASSUME NEW r \in gone, NEW s \in Found' PROVE r < s
      BY DEF Old
    <3>1. r \notin LiveRows /\ \A d \in sealed : Name(d) # n => r \notin Rows(d.lines)
      BY <1>r, <2>1, <2>3 DEF OnDisk, AllRows
    <3>2. PICK c \in sealed : r \in Rows(c.lines) /\ Name(c) = n
      BY <1>r, <3>1 DEF OnDisk, AllRows
    <3>3. CASE s \in LiveRows
      <4>1. Old(AllRows(sealed), LiveRows) /\ r \in AllRows(sealed)
        BY <1>0, <3>2 DEF Orderly, InOrder, AllRows
      <4> QED BY <3>3, <4>1 DEF Old
    <3>4. CASE s \in AllRows(sealed')
      <4>1. PICK d \in sealed : s \in Rows(d.lines) /\ Name(d) # n
        BY <2>1, <3>4 DEF AllRows
      <4>2. c.stamp <= d.stamp
        <5>1. Name(d) \in queue /\ n.stamp = c.stamp /\ Name(d).stamp = d.stamp
          BY <1>0, <2>2, <3>2 DEF Orderly, Name
        <5> QED BY <2>1, <5>1 DEF oldest
      <4>3. CASE c.stamp < d.stamp
        BY <1>0, <3>2, <4>1, <4>3 DEF Orderly, InOrder, Old
      <4>4. CASE c.stamp = d.stamp
        BY <1>0, <3>1, <3>2, <4>1, <4>4 DEF Orderly, InOrder
      <4>5. c.stamp \in Nat /\ d.stamp \in Nat
        BY <1>0 DEF TypeOK, Chunk
      <4> QED BY <4>2, <4>3, <4>4, <4>5
    <3> QED BY <1>r, <2>3, <3>3, <3>4 DEF OnDisk
  <2>6. Log!Expire(gone)
    <3> HIDE DEF gone
    <3>1. gone \subseteq Found
      BY DEF gone
    <3> QED BY <1>s, <1>t, <2>3, <2>4, <2>5, <3>1 DEF Log!Expire, Log!Older, Old
  <2> QED BY <2>4, <2>6 DEF Log!Next
<1>8. CASE Crash
  <2>1. UNCHANGED <<live, sealed>> /\ buf' = <<>>
    BY <1>0, <1>8 DEF Crash, Orderly
  <2>2. Found' = Found /\ InMemory' = {}
    BY <2>1, NoRowBuffered DEF Found
  <2>3. Log!Crash
    BY <1>s, <1>t, <2>2 DEF Log!Crash
  <2> QED BY <2>3 DEF Log!Next
<1> QED BY <1>1, <1>2, <1>3, <1>4, <1>5, <1>6, <1>7, <1>8 DEF Next

\* On a disk that can be written and deleted from, the archive is an append-only
\* log whatever else fails, in whatever order the rotation, the snapshots, the
\* pruning and the crashes take: no row leaves it before an older one, and none
\* that reached the disk is lost but for the budget.
THEOREM LogImplemented == Spec => ImplementsRowLog
<1>1. Init => Log!Init
  <2> SUFFICES ASSUME Init PROVE Log!Init
    OBVIOUS
  <2>1. InMemory = {}
    BY BufferedRows DEF Init, InMemory
  <2>2. Found = {}
    <3>1. Lines(live) = <<>>
      BY DEF Init, Lines
    <3> QED BY <3>1, EmptyFile DEF Init, Found
  <2> QED BY <2>1, <2>2 DEF Log!Init
<1>2. Init => OrderInv
  <2> SUFFICES ASSUME Init PROVE Orderly
    BY DEF OrderInv
  <2>1. InMemory = {} /\ OnDisk = {} /\ LiveRows = {} /\ AllRows(sealed) = {}
    <3>1. Lines(live) = <<>> /\ buf = <<>> /\ sealed = {}
      BY DEF Init, Lines
    <3> QED BY <3>1, EmptyFile, BufferedRows DEF OnDisk, LiveRows, AllRows, InMemory
  <2>2. InOrder(sealed, LiveRows)
    BY <2>1 DEF Init, InOrder, Old
  <2> QED BY <2>1, <2>2 DEF Init, Orderly, Old
<1> QED BY <1>1, <1>2, Invariant, OrderStep, LogStep, PTL DEF Spec, ImplementsRowLog, Log!Spec

-----------------------------------------------------------------------------
(* The chunk sealed last *)

\* The sizes of one or two files add up.
LEMMA TwoChunks ==
    ASSUME NEW c, NEW d, Size(c) \in Nat, Size(d) \in Nat
    PROVE  MapThenSumSet(Size, {c, d}) = Size(c) + (IF d = c THEN 0 ELSE Size(d))
<1> DEFINE pick(s) == CHOOSE x \in s : TRUE
           F(h) == [s \in SUBSET {c, d} |-> IF s = {} THEN 0
                                            ELSE Size(pick(s)) + h[s \ {pick(s)}]]
           sum == CHOOSE h : h = F(h)
           m == Size(c)
           n == IF d = c THEN 0 ELSE Size(d)
           f == [s \in SUBSET {c, d} |-> (IF c \in s THEN m ELSE 0) + (IF d \in s THEN n ELSE 0)]
<1>1. MapThenSumSet(Size, {c, d}) = sum[{c, d}]
  BY DEF MapThenSumSet, MapThenFoldSet
<1>2. m \in Nat /\ n \in Nat
  OBVIOUS
<1>3. ASSUME NEW s \in SUBSET {c, d}, s # {}
      PROVE  Size(pick(s)) + f[s \ {pick(s)}] = f[s]
  <2> DEFINE x == pick(s)
             t == s \ {x}
  <2>1. x \in s /\ t \in SUBSET {c, d} /\ x \notin t
    BY <1>3
  <2>2. /\ f[s] = (IF c \in s THEN m ELSE 0) + (IF d \in s THEN n ELSE 0)
        /\ f[t] = (IF c \in t THEN m ELSE 0) + (IF d \in t THEN n ELSE 0)
    BY <2>1
  <2>3. \A y : y \in t <=> y \in s /\ y # x
    OBVIOUS
  <2>4. CASE x = c
    <3>1. d = c => n = 0
      OBVIOUS
    <3>2. Size(x) = m
      BY <2>4
    <3> HIDE DEF x, t, f, m, n
    <3>3. f[t] = IF d \in s /\ d # c THEN n ELSE 0
      BY <1>2, <2>2, <2>3, <2>4
    <3>4. f[s] = m + (IF d \in s THEN n ELSE 0)
      BY <1>2, <2>1, <2>2, <2>4
    <3>5. f[t] = IF d \in s THEN n ELSE 0
      BY <3>1, <3>3
    <3> QED BY <3>2, <3>4, <3>5 DEF x, t
  <2>5. CASE x = d /\ d # c
    <3>1. n = Size(d) /\ x = d
      BY <2>5
    <3>2. Size(x) = n
      <4> HIDE DEF x, n
      <4> QED BY <3>1
    <3> HIDE DEF x, t, f, m, n
    <3>3. f[t] = IF c \in s THEN m ELSE 0
      BY <1>2, <2>2, <2>3, <2>5
    <3>4. f[s] = (IF c \in s THEN m ELSE 0) + n
      BY <1>2, <2>1, <2>2, <2>5
    <3>5. n + f[t] = f[s]
      BY <1>2, <3>3, <3>4
    <3> QED BY <3>2, <3>5 DEF x, t
  <2>6. x = c \/ (x = d /\ d # c)
    BY <2>1
  <2> QED BY <2>4, <2>5, <2>6
<1>4. f = F(f)
  <2> HIDE DEF pick
  <2>1. f[{}] = 0 /\ {} \in SUBSET {c, d}
    BY <1>2
  <2>2. \A s \in SUBSET {c, d} : f[s] = IF s = {} THEN 0 ELSE Size(pick(s)) + f[s \ {pick(s)}]
    <3> HIDE DEF f
    <3> QED BY <1>3, <2>1
  <2>3. f = [s \in SUBSET {c, d} |-> f[s]]
    <3> DEFINE e(s) == (IF c \in s THEN m ELSE 0) + (IF d \in s THEN n ELSE 0)
    <3>1. f = [s \in SUBSET {c, d} |-> e(s)]
      OBVIOUS
    <3> HIDE DEF e
    <3> QED BY <3>1
  <2> HIDE DEF f
  <2>4. [s \in SUBSET {c, d} |-> f[s]] = F(f)
    BY <2>2
  <2> QED BY <2>3, <2>4
<1>5. sum = F(sum)
  <2> HIDE DEF f, F
  <2> QED BY <1>4
<1> HIDE DEF sum, pick, f
<1>6. sum[{}] = 0 /\ \A s \in SUBSET {c, d} : s # {} => sum[s] = Size(pick(s)) + sum[s \ {pick(s)}]
  BY <1>5
<1>7. \A x : sum[{x} \ {x}] = 0 /\ pick({x}) = x
  <2>1. \A x : {x} \ {x} = {}
    OBVIOUS
  <2> QED BY <1>6, <2>1 DEF pick
<1>8. sum[{c}] = m /\ sum[{d}] = Size(d)
  <2>1. sum[{c}] = Size(pick({c})) + sum[{c} \ {pick({c})}]
    BY <1>6
  <2>2. sum[{d}] = Size(pick({d})) + sum[{d} \ {pick({d})}]
    BY <1>6
  <2>3. pick({c}) = c /\ pick({d}) = d /\ sum[{c} \ {c}] = 0 /\ sum[{d} \ {d}] = 0
    BY <1>7
  <2>4. sum[{c}] = Size(c) + 0 /\ sum[{d}] = Size(d) + 0
    BY <2>1, <2>2, <2>3
  <2> QED BY <2>4
<1>9. sum[{c, d}] = m + n
  <2>1. CASE d = c
    BY <1>8, <2>1
  <2>2. CASE d # c
    <3>1. sum[{c, d}] = Size(pick({c, d})) + sum[{c, d} \ {pick({c, d})}]
      BY <1>6
    <3>2. pick({c, d}) \in {c, d}
      BY DEF pick
    <3>3. {c, d} \ {c} = {d} /\ {c, d} \ {d} = {c}
      BY <2>2
    <3>4. CASE pick({c, d}) = c
      <4>1. sum[{c, d}] = Size(c) + Size(d)
        BY <1>8, <3>1, <3>3, <3>4
      <4> QED BY <2>2, <4>1
    <3>5. CASE pick({c, d}) = d
      <4>1. sum[{c, d}] = Size(d) + Size(c)
        BY <1>8, <3>1, <3>3, <3>5
      <4>2. Size(d) + Size(c) = Size(c) + Size(d)
        OBVIOUS
      <4> QED BY <2>2, <4>1, <4>2
    <3> QED BY <3>2, <3>4, <3>5
  <2> QED BY <2>1, <2>2
<1> QED BY <1>1, <1>9

\* No file outgrows LargestFile, the row in memory included: the length is tested
\* before every write, and a rotation that fails writes nothing to the full file.
ChunkFits(c) == c.bytes <= LargestFile + IF c.gz THEN GzipExtra ELSE 0

FitInv ==
    /\ buf = <<>> => left = 0
    /\ len <= LargestFile
    /\ writer = "live" => len + left <= LargestFile
    /\ pc = "write" => len < MaxBytes
    /\ \A c \in sealed : ChunkFits(c)
    /\ snapshots <= MaxSnapshots

\* Pruning visits every chunk, the oldest first, until the budget is met.
QueueInv == ~Fails("remove") /\ pc = "prune" => \A c \in sealed : Name(c) \in queue

LEMMA OneRowMore ==
    /\ LargestFile \in Nat /\ LargestFile + GzipExtra \in Nat
    /\ \A l, n \in Nat : l < MaxBytes /\ n <= MaxRowBytes => l + n <= LargestFile
<1>1. \A m, r, g \in Nat : m # 0 => m - 1 + r \in Nat /\ (m - 1 + r) + g \in Nat
  OBVIOUS
<1>2. \A l, n, m, r \in Nat : l < m /\ n <= r => l + n <= m - 1 + r
  OBVIOUS
<1>3. MaxBytes \in Nat /\ MaxBytes # 0 /\ MaxRowBytes \in Nat /\ GzipExtra \in Nat
  BY ArchiveAssumption
<1> QED BY <1>1, <1>2, <1>3 DEF LargestFile

\* The chunk being gzipped is no longer than the live file was.
LEMMA NewestFits ==
    ASSUME Inv, FitInv, pc \in {"gzip", "copy"}
    PROVE  Newest.bytes \in Nat /\ Newest.bytes <= LargestFile
<1>1. PICK c \in sealed : IsPlain(c)
  BY DEF Inv, ChunkInv
<1>2. Newest = c /\ c \in Chunk(stamp) /\ ChunkFits(c) /\ ~c.gz
  BY <1>1, NewestIsPlain DEF Inv, TypeOK, FitInv, IsPlain
<1>3. c.bytes \in Nat /\ c.bytes <= LargestFile + 0
  BY <1>2 DEF Chunk, ChunkFits
<1>4. LargestFile + 0 = LargestFile
  BY OneRowMore
<1> QED BY <1>2, <1>3, <1>4

LEMMA FitStep == Inv /\ Inv' /\ FitInv /\ [Next]_vars => FitInv'
<1> SUFFICES ASSUME Inv, Inv', FitInv, [Next]_vars PROVE FitInv'
  OBVIOUS
<1>0. TypeOK /\ WriterInv /\ ChunkInv /\ MaxBytes \in Nat \ {0} /\ MaxSnapshots \in Nat
      /\ GzipExtra \in Nat
  BY ArchiveAssumption DEF Inv
<1>l. /\ len \in Nat /\ left \in Nat /\ LargestFile \in Nat
      /\ len' \in Nat /\ left' \in Nat
  BY <1>0, OneRowMore DEF Inv, TypeOK
<1>s. \A a, b, m \in Nat : a + b <= m => a <= m
  OBVIOUS
<1>z. \A a \in Nat : a + 0 = a /\ 0 + a = a
  OBVIOUS
\* What a write leaves that begins with an empty BufWriter.
<1>w. ASSUME pc = "write", NEW n \in Nat, n <= MaxRowBytes
      PROVE  left = 0 /\ left + n = n /\ len + n <= LargestFile
  <2>1. left = 0
    BY <1>0, <1>w, RowBuffered DEF FitInv
  <2> QED BY <1>l, <1>w, <2>1, OneRowMore DEF FitInv
<1>1. CASE FlushFails
  <2>1. PartlyFlushed(left) /\ UNCHANGED <<sealed, writer, buf, pc, snapshots>> /\ buf # <<>> /\ pc = "idle"
    BY <1>1 DEF FlushFails
  <2>2. /\ writer # "live" => len' = len
        /\ writer = "live" => len' + left' = len + left
    BY <1>0, <1>l, <2>1, PartFlushed
  <2>3. writer = "live" => len' + left' <= LargestFile
    BY <2>2 DEF FitInv
  <2>4. len' <= LargestFile
    <3>1. CASE writer = "live"
      BY <1>l, <1>s, <2>3, <3>1
    <3> QED BY <2>2, <3>1 DEF FitInv
  <2> QED BY <2>1, <2>3, <2>4 DEF FitInv, ChunkFits
<1>2. CASE Record
  <2>1. /\ WriteBytes(left) /\ left' = 0
        /\ UNCHANGED <<sealed, snapshots>>
        /\ pc' = "write" => len' < MaxBytes
    BY <1>2 DEF Record, Return, FlushBuffer
  <2>2. len' <= LargestFile
    <3>1. CASE writer = "live"
      BY <1>0, <1>l, <2>1, <3>1, WrittenBytes DEF FitInv
    <3>2. CASE writer # "live"
      BY <1>0, <1>l, <2>1, <3>2, WrittenBytes DEF FitInv
    <3> QED BY <3>1, <3>2
  <2>3. len' + left' <= LargestFile
    BY <1>l, <1>z, <2>1, <2>2
  <2> QED BY <2>1, <2>2, <2>3 DEF FitInv, ChunkFits
<1>3. CASE WriteBuffered
  <2>1. PICK n \in RowBytes : left' = left + n
    BY <1>3 DEF WriteBuffered
  <2>2. /\ pc = "write" /\ pc' = "idle" /\ buf' = Append(buf, row)
        /\ UNCHANGED <<len, sealed, writer, snapshots>>
    BY <1>3 DEF WriteBuffered, Return, fileVars
  <2>3. buf' # <<>>
    BY <1>0, <2>2, RowBuffered, EmptySeq
  <2>4. n \in Nat /\ n <= MaxRowBytes
    BY RowSize
  <2>5. len' + left' <= LargestFile
    BY <1>w, <2>1, <2>2, <2>4
  <2> QED BY <2>2, <2>3, <2>5 DEF FitInv, ChunkFits
<1>4. CASE SessionFlushFails
  <2>1. PICK n \in RowBytes : PartlyFlushed(left + n)
    BY <1>4 DEF SessionFlushFails
  <2>2. /\ pc = "write" /\ pc' = "idle" /\ buf' = Append(buf, row)
        /\ UNCHANGED <<sealed, writer, snapshots>>
    BY <1>4 DEF SessionFlushFails, Return
  <2>3. buf' # <<>>
    BY <1>0, <2>2, RowBuffered, EmptySeq
  <2>4. n \in Nat /\ n <= MaxRowBytes /\ PartlyFlushed(n) /\ len + n <= LargestFile
    BY <1>w, <2>1, <2>2, RowSize
  <2>5. /\ writer # "live" => len' = len
        /\ writer = "live" => len' + left' = len + n
    BY <1>0, <2>4, PartFlushed
  <2>6. writer = "live" => len' + left' <= LargestFile
    BY <2>4, <2>5
  <2>7. len' <= LargestFile
    <3>1. CASE writer = "live"
      BY <1>l, <1>s, <2>6, <3>1
    <3> QED BY <2>5, <3>1 DEF FitInv
  <2> QED BY <2>2, <2>3, <2>6, <2>7 DEF FitInv, ChunkFits
<1>5. CASE WriteThrough \/ WriteTorn
  <2>1. PICK n \in Nat : n <= MaxRowBytes /\ WriteBytes(n)
    <3>1. CASE WriteThrough
      <4>1. PICK n \in RowBytes : WriteBytes(left + n)
        BY <3>1 DEF WriteThrough
      <4>2. n \in Nat /\ n <= MaxRowBytes /\ left + n = n
        BY <1>w, <3>1, RowSize DEF WriteThrough
      <4> QED BY <4>1, <4>2
    <3>2. CASE WriteTorn
      BY <1>0, <3>2, TornRow
    <3> QED BY <1>5, <3>1, <3>2
  <2>2. pc = "write" /\ pc' = "idle" /\ UNCHANGED <<sealed, writer, snapshots>>
    BY <1>5 DEF WriteThrough, WriteTorn, Return
  <2>3. left' = 0
    BY <1>0, <1>5, <1>w, <2>1, <2>2 DEF WriteThrough, WriteTorn, bufVars
  <2>4. len' <= LargestFile
    <3>1. CASE writer = "live"
      <4>1. len' = len + n
        BY <1>0, <2>1, <3>1, WrittenBytes
      <4> QED BY <1>w, <2>1, <2>2, <4>1
    <3>2. CASE writer # "live"
      BY <1>0, <2>1, <3>2, WrittenBytes DEF FitInv
    <3> QED BY <3>1, <3>2
  <2>5. len' + left' <= LargestFile
    BY <1>l, <1>z, <2>3, <2>4
  <2> QED BY <2>2, <2>3, <2>4, <2>5 DEF FitInv, ChunkFits
<1>6. CASE Rename
  <2>1. /\ sealed' = sealed \cup {[stamp |-> stamp + 1, gz |-> FALSE, lines |-> live, bytes |-> len]}
        /\ len' = 0 /\ pc' = "gzip"
        /\ UNCHANGED <<writer, buf, left, snapshots>> /\ buf = <<>>
    BY <1>0, <1>6 DEF Rename, bufVars, WriterInv
  <2>2. ChunkFits([stamp |-> stamp + 1, gz |-> FALSE, lines |-> live, bytes |-> len])
    BY <1>l, <1>z DEF FitInv, ChunkFits
  <2>3. len' + left' <= LargestFile /\ len' <= LargestFile /\ left' = 0
    BY <1>l, <2>1 DEF FitInv
  <2> QED BY <2>1, <2>2, <2>3 DEF FitInv
<1>7. CASE GzipCreate
  <2>m. PICK m \in Nat : /\ m = 0 \/ m \in Gzipped(Newest.bytes)
                       /\ sealed' = sealed \cup {[stamp |-> stamp, gz |-> TRUE, lines |-> <<>>, bytes |-> m]}
    BY <1>7, CreatedIs
  <2>1. pc = "gzip" /\ pc' = "copy" /\ UNCHANGED <<len, left, writer, buf, snapshots>>
    BY <1>7 DEF GzipCreate, bufVars
  <2>2. m <= LargestFile + GzipExtra
    <3>1. CASE m = 0
      BY <1>0, <1>l, <3>1
    <3>2. CASE m \in Gzipped(Newest.bytes)
      <4>1. Newest.bytes \in Nat /\ Newest.bytes <= LargestFile
        BY <2>1, NewestFits
      <4> QED BY <1>0, <1>l, <3>2, <4>1 DEF Gzipped
    <3> QED BY <2>m, <3>1, <3>2
  <2>3. ChunkFits([stamp |-> stamp, gz |-> TRUE, lines |-> <<>>, bytes |-> m])
    BY <2>2 DEF ChunkFits
  <2> QED BY <2>m, <2>1, <2>3 DEF FitInv
<1>8. CASE GzipFinish
  <2>m. PICK m \in Nat : m \in Gzipped(Newest.bytes) /\ sealed' = {Filled(c, m) : c \in sealed}
    BY <1>8, FilledIs
  <2>1. pc = "copy" /\ pc' = "unlink" /\ UNCHANGED <<len, left, writer, buf, snapshots>>
    BY <1>8 DEF GzipFinish, bufVars
  <2>2. m <= LargestFile + GzipExtra
    <3>1. Newest.bytes \in Nat /\ Newest.bytes <= LargestFile
      BY <2>1, NewestFits
    <3> QED BY <1>0, <1>l, <2>m, <3>1 DEF Gzipped
  <2>3. ASSUME NEW c \in sealed PROVE ChunkFits(Filled(c, m))
    <3>1. /\ Name(Filled(c, m)) = Name(c)
          /\ Filled(c, m).bytes = IF IsGz(c) THEN m ELSE c.bytes
      BY <2>1, FilledChunk
    <3>2. Filled(c, m).gz = c.gz
      BY <3>1 DEF Name
    <3>3. CASE IsGz(c)
      BY <2>2, <3>1, <3>2, <3>3 DEF ChunkFits, IsGz
    <3>4. CASE ~IsGz(c)
      BY <3>1, <3>2, <3>4 DEF ChunkFits, FitInv
    <3> QED BY <3>3, <3>4
  <2> QED BY <2>m, <2>1, <2>3 DEF FitInv
<1>9. CASE Prune \/ GzipUnlink \/ GzipFails
  <2>1. sealed' \subseteq sealed /\ pc' = "prune" /\ UNCHANGED <<len, left, writer, buf, snapshots>>
    BY <1>9 DEF Prune, GzipUnlink, GzipFails, StartPrune, bufVars
  <2> QED BY <2>1 DEF FitInv
<1>10. CASE RenameFails \/ PruneEnds \/ ReopenFails
  <2>1. UNCHANGED <<sealed, len, left, writer, buf, snapshots>> /\ pc' # "write"
    BY <1>10 DEF RenameFails, PruneEnds, ReopenFails, Return, fileVars, bufVars
  <2> QED BY <2>1 DEF FitInv
<1>11. CASE Reopen
  <2>1. buf = <<>> /\ live = Missing /\ UNCHANGED <<len, left, sealed, buf, snapshots>>
    BY <1>0, <1>11 DEF Reopen, bufVars, WriterInv
  <2>2. len = 0 /\ left = 0
    BY <1>0, <2>1 DEF WriterInv, FitInv
  <2>3. len + left <= LargestFile /\ len < MaxBytes
    BY <1>0, <1>l, <2>2
  <2> QED BY <2>1, <2>2, <2>3 DEF FitInv
<1>12. CASE Snapshot
  <2>1. snapshots' <= MaxSnapshots
    BY <1>0, <1>12 DEF Snapshot, TypeOK
  <2> QED BY <1>12, <2>1 DEF Snapshot, fileVars, bufVars, FitInv
<1>13. CASE Crash
  <2>1. left' = 0 /\ pc' = "down" /\ UNCHANGED <<len, sealed, writer, snapshots>>
    BY <1>13 DEF Crash
  <2>2. len' + left' <= LargestFile
    BY <1>l, <1>z, <2>1 DEF FitInv
  <2> QED BY <2>1, <2>2 DEF FitInv
<1>14. CASE Open
  <2>1. buf = <<>> /\ pc' = "prune" /\ UNCHANGED <<len, left, sealed, buf, snapshots>>
    BY <1>0, <1>14 DEF Open, StartPrune, bufVars, WriterInv
  <2>2. left = 0
    BY <2>1 DEF FitInv
  <2>3. len + left <= LargestFile
    BY <1>l, <1>z, <2>2 DEF FitInv
  <2> QED BY <2>1, <2>2, <2>3 DEF FitInv
<1>15. CASE Rest \/ UNCHANGED vars
  BY <1>15 DEF Rest, vars, fileVars, bufVars, FitInv
<1> QED BY <1>1, <1>2, <1>3, <1>4, <1>5, <1>6, <1>7, <1>8, <1>9, <1>10, <1>11, <1>12, <1>13,
           <1>14, <1>15 DEF Next

LEMMA QueueStep == QueueInv /\ [Next]_vars => QueueInv'
<1> SUFFICES ASSUME QueueInv, [Next]_vars, ~Fails("remove")', pc' = "prune"
             PROVE  \A c \in sealed' : Name(c) \in queue'
  BY DEF QueueInv, Name
<1>f. ~Fails("remove")
  BY DEF Next, vars, history, bufVars, fileVars, FlushFails, Record, WriteBuffered, WriteThrough,
     SessionFlushFails, WriteTorn, Rename, RenameFails, GzipCreate, GzipFinish, GzipUnlink,
     GzipFails, Prune, PruneEnds, Reopen, ReopenFails, Snapshot, Crash, Open, Rest, Fails, FlushBuffer, PartlyFlushed
<1>1. CASE GzipUnlink \/ GzipFails \/ Open
  BY <1>1 DEF GzipUnlink, GzipFails, Open, StartPrune
<1>2. CASE Prune
  <2>1. PICK n \in oldest(queue) : /\ queue' = queue \ {n} /\ pc = "prune"
                                   /\ sealed' = {c \in sealed : Name(c) # n}
    BY <1>2, <1>f DEF Prune
  <2> QED BY <1>f, <2>1 DEF QueueInv
<1>3. CASE Snapshot \/ Rest \/ UNCHANGED vars
  BY <1>3, <1>f DEF Snapshot, Rest, vars, fileVars, QueueInv
<1>4. CASE FlushFails \/ Crash \/ PruneEnds \/ Reopen \/ ReopenFails \/ RenameFails
  BY <1>4 DEF FlushFails, Crash, PruneEnds, Reopen, ReopenFails, RenameFails, Return, PartlyFlushed
<1>5. CASE Record \/ WriteBuffered \/ WriteThrough \/ SessionFlushFails \/ WriteTorn \/ Rename
           \/ GzipCreate \/ GzipFinish
  BY <1>5 DEF Record, WriteBuffered, WriteThrough, SessionFlushFails, WriteTorn, Rename,
              GzipCreate, GzipFinish, Return, FlushBuffer, PartlyFlushed
<1> QED BY <1>1, <1>2, <1>3, <1>4, <1>5 DEF Next

\* What the newest chunk, its copy, the live file and the snapshots take.
LEMMA Fits ==
    \A a, b, l, m, x, s, t \in Nat :
      a <= m + x /\ b <= m + x /\ (b = 0 \/ a <= m) /\ l <= m /\ s <= t =>
        a + b + l + s <= 3 * m + x + t
OBVIOUS

LEMMA SnapshotRoom ==
    ASSUME NEW b \in Nat, NEW i \in Nat, NEW j \in Nat, i <= j
    PROVE  b * i \in Nat /\ b * j \in Nat /\ b * i <= b * j
OBVIOUS

\* Pruning that comes to the newest chunk finds nothing else but its copy, and
\* is within the budget.
LEMMA NewestStays ==
    ASSUME Inv, FitInv, QueueInv, Prune, RoomForNewest, ~Fails("remove"),
           NEW c \in sealed, c.stamp = stamp
    PROVE  c \in sealed'
<1>1. PICK n \in oldest(queue) : sealed' = {d \in sealed : Name(d) # n}
  BY DEF Prune
<1>2. SUFFICES ASSUME n = Name(c) PROVE FALSE
  BY <1>1
<1>3. \A d \in sealed : /\ Name(d) \in queue /\ d \in Chunk(stamp) /\ d.stamp \in 1..stamp
                        /\ d.gz \in BOOLEAN /\ d.bytes \in Nat /\ ChunkFits(d)
  <2>1. \A d \in sealed : Name(d) \in queue /\ d \in Chunk(stamp) /\ ChunkFits(d)
    BY DEF Inv, QueueInv, FitInv, Prune, TypeOK
  <2> QED BY <2>1 DEF Chunk
<1>4. stamp \in Nat /\ LargestFile \in Nat /\ GzipExtra \in Nat
  BY ArchiveAssumption, OneRowMore DEF Inv, TypeOK
<1>5. \A d \in sealed : d.stamp = stamp
  <2> SUFFICES ASSUME NEW d \in sealed PROVE d.stamp = stamp
    OBVIOUS
  <2>1. Name(c).stamp <= Name(d).stamp
    BY <1>2, <1>3 DEF oldest
  <2>2. c.stamp <= d.stamp
    BY <2>1 DEF Name
  <2> QED BY <1>3, <1>4, <2>2
<1>6. \A d, e \in sealed : d.gz = e.gz => d = e
  BY <1>5, SameName DEF Inv, ChunkInv
<1>7. \A d \in sealed : Size(d) \in Nat /\ Size(d) <= LargestFile + GzipExtra /\
                          (~d.gz => Size(d) <= LargestFile)
  <2> SUFFICES ASSUME NEW d \in sealed
               PROVE  Size(d) \in Nat /\ Size(d) <= LargestFile + GzipExtra /\
                        (~d.gz => Size(d) <= LargestFile)
    OBVIOUS
  <2>1. \A k, m, x \in Nat : k <= m + 0 => k <= m + x /\ k <= m
    OBVIOUS
  <2>2. CASE d.gz
    BY <1>3, <2>2 DEF ChunkFits, Size
  <2>3. CASE ~d.gz
    <3>1. d.bytes <= LargestFile + 0
      BY <1>3, <2>3 DEF ChunkFits
    <3> QED BY <1>3, <1>4, <2>1, <2>3, <3>1 DEF Size
  <2> QED BY <2>2, <2>3
<1>8. PICK p, g \in sealed : sealed = {p, g} /\ (p # g => ~p.gz /\ g.gz)
  <2>1. CASE \A d \in sealed : d = c
    BY <2>1
  <2>2. ASSUME NEW d \in sealed, d # c PROVE \E p, g \in sealed : sealed = {p, g} /\ (p # g => ~p.gz /\ g.gz)
    <3>1. d.gz # c.gz /\ \A e \in sealed : e = c \/ e = d
      BY <1>3, <1>6, <2>2
    <3>2. sealed = {c, d} /\ sealed = {d, c}
      BY <3>1
    <3>3. (~c.gz /\ d.gz) \/ (~d.gz /\ c.gz)
      BY <1>3, <3>1
    <3> QED BY <3>2, <3>3
  <2> QED BY <2>1, <2>2
<1> DEFINE a == Size(p)
           b == IF g = p THEN 0 ELSE Size(g)
           l == len
           s == SnapshotBytes * snapshots
           t == SnapshotBytes * MaxSnapshots
<1>9. MapThenSumSet(Size, sealed) = a + b
  BY <1>7, <1>8, TwoChunks
<1>10. /\ a \in Nat /\ b \in Nat
       /\ a <= LargestFile + GzipExtra /\ b <= LargestFile + GzipExtra
       /\ b = 0 \/ a <= LargestFile
  <2>1. CASE g = p
    <3>1. 0 <= LargestFile + GzipExtra
      BY <1>4
    <3> QED BY <1>7, <2>1, <3>1
  <2>2. CASE g # p
    BY <1>7, <1>8, <2>2
  <2> QED BY <2>1, <2>2
<1>11. l \in Nat /\ l <= LargestFile
  BY DEF Inv, TypeOK, FitInv
<1>12. s \in Nat /\ t \in Nat /\ s <= t
  <2>1. SnapshotBytes \in Nat /\ snapshots \in Nat /\ MaxSnapshots \in Nat /\ snapshots <= MaxSnapshots
    BY ArchiveAssumption DEF Inv, TypeOK, FitInv
  <2> QED BY <2>1, SnapshotRoom
<1>13. dir_byte_total = a + b + l + s
  BY <1>9 DEF dir_byte_total
<1>14. Budget \in Nat /\ Budget > 0 /\ dir_byte_total > Budget
  BY ArchiveAssumption DEF Prune, OverBudget
<1>15. Budget >= 3 * LargestFile + GzipExtra + t
  BY <1>14 DEF RoomForNewest
<1> HIDE DEF a, b, l, s, t
<1>16. a + b + l + s <= 3 * LargestFile + GzipExtra + t
  BY <1>4, <1>10, <1>11, <1>12, Fits
<1>17. \A x, y, z \in Nat : x <= y /\ z >= y => ~(x > z)
  OBVIOUS
<1>18. a + b + l + s \in Nat /\ 3 * LargestFile + GzipExtra + t \in Nat
  BY <1>4, <1>10, <1>11, <1>12
<1> QED BY <1>13, <1>14, <1>15, <1>16, <1>17, <1>18

\* With room in the budget no step of gzip_seal, of pruning or of a restart costs
\* the chunk sealed last, whatever operation fails but the deletion of an older one.
THEOREM NewestSurvives == Spec => NewestChunkSurvives
<1>1. ASSUME Inv, FitInv, QueueInv, [Next]_vars, RoomForNewest, ~Fails("remove"),
             NEW c \in sealed, c.stamp = stamp, stamp' = stamp
      PROVE  Readable(c.lines) \subseteq UNION {Readable(d.lines) : d \in sealed'}
  <2>0. TypeOK /\ ChunkInv /\ stamp \in Nat
    BY <1>1 DEF Inv, TypeOK
  <2>a. ASSUME c \in sealed' PROVE Readable(c.lines) \subseteq UNION {Readable(d.lines) : d \in sealed'}
    BY <2>a
  <2>1. CASE Prune
    BY <1>1, <2>1, <2>a, NewestStays
  <2>2. CASE Rename
    BY <1>1, <2>0, <2>2 DEF Rename
  <2>3. CASE GzipCreate
    BY <2>3, <2>a DEF GzipCreate
  <2>4. CASE GzipFinish
    <3>m. PICK m \in Nat : m \in Gzipped(Newest.bytes) /\ sealed' = {Filled(d, m) : d \in sealed}
      BY <2>4, FilledIs
    <3>1. sealed' = {Filled(d, m) : d \in sealed} /\ pc = "copy"
      BY <2>4, <3>m DEF GzipFinish
    <3>2. Filled(c, m) \in sealed' /\ Filled(c, m).lines = IF IsGz(c) THEN Newest.lines ELSE c.lines
      BY <1>1, <3>1, FilledChunk
    <3>3. CASE IsGz(c)
      <4>1. Readable(c.lines) = {}
        BY <2>0, <3>1, <3>3, EmptyFile DEF ChunkInv
      <4> QED BY <4>1
    <3>4. CASE ~IsGz(c)
      BY <3>2, <3>4
    <3> QED BY <3>3, <3>4
  <2>5. CASE GzipUnlink
    <3>1. pc = "unlink" /\ sealed' = sealed \ {Newest}
      BY <2>5 DEF GzipUnlink
    <3>2. PICK p, g \in sealed : IsPlain(p) /\ IsGz(g) /\ g.lines = p.lines
      BY <2>0, <3>1 DEF ChunkInv
    <3>3. Newest = p /\ g # p
      BY <2>0, <3>2, NewestIsPlain DEF IsPlain, IsGz
    <3>4. CASE c = p
      <4>1. g \in sealed' /\ Readable(g.lines) = Readable(c.lines)
        BY <3>1, <3>2, <3>3, <3>4
      <4> QED BY <4>1
    <3>5. CASE c # p
      BY <2>a, <3>1, <3>3, <3>5
    <3> QED BY <3>4, <3>5
  <2>6. CASE ~(Prune \/ Rename \/ GzipCreate \/ GzipFinish \/ GzipUnlink)
    <3>1. sealed' = sealed
      BY <1>1, <2>6 DEF Next, vars, bufVars, fileVars, FlushFails, Record, WriteBuffered,
         WriteThrough, SessionFlushFails, WriteTorn, RenameFails, GzipFails, PruneEnds, Reopen,
         ReopenFails, Snapshot, Crash, Open, Rest, FlushBuffer, PartlyFlushed
    <3> QED BY <2>a, <3>1
  <2> QED BY <2>1, <2>2, <2>3, <2>4, <2>5, <2>6
<1>2. Inv /\ FitInv /\ QueueInv /\ [Next]_vars =>
        [RoomForNewest =>
           \A c \in sealed : ~Fails("remove") /\ c.stamp = stamp /\ stamp' = stamp =>
             Readable(c.lines) \subseteq UNION {Readable(d.lines) : d \in sealed'}]_vars
  BY <1>1
<1>3. Init => FitInv /\ QueueInv
  <2> SUFFICES ASSUME Init PROVE FitInv /\ QueueInv
    OBVIOUS
  <2>1. 0 + 0 <= LargestFile /\ 0 <= LargestFile /\ 0 <= MaxSnapshots
    BY ArchiveAssumption, OneRowMore
  <2> QED BY <2>1 DEF Init, FitInv, QueueInv
<1> QED BY <1>2, <1>3, Invariant, FitStep, QueueStep, PTL DEF Spec, NewestChunkSurvives

=============================================================================
