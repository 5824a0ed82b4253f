-------------------------- MODULE AlertsFileProofs --------------------------
(***************************************************************************)
(* Proofs about module AlertsFile, for any sizes, any budget, any faults   *)
(* and any number of lines and crashes.                                    *)
(***************************************************************************)
EXTENDS AlertsFile, SequenceTheorems, FiniteSetTheorems, TLAPS

-----------------------------------------------------------------------------
(* What a reader of a file finds *)

\* The file ends in a torn line, which swallows the line appended next.
EndsTorn(file) == file # <<>> /\ file[Len(file)] = Torn

Rows(file) == {file[i] : i \in DOMAIN file}

LEMMA EmptyFile == Readable(<<>>) = {} /\ Rows(<<>>) = {} /\ ~EndsTorn(<<>>)
<1>1. DOMAIN <<>> = {}
  OBVIOUS
<1> QED BY <1>1 DEF Readable, Rows, EndsTorn

\* Appending lines never hides one that was readable; whether the file ends in
\* a torn line is up to the last of them.
LEMMA AppendedLines ==
    ASSUME NEW S, NEW f \in Seq(S), NEW g \in Seq(S)
    PROVE  /\ f \o g \in Seq(S)
           /\ Readable(f) \subseteq Readable(f \o g)
           /\ Rows(f \o g) = Rows(f) \cup Rows(g)
           /\ g = <<>> => f \o g = f
           /\ g # <<>> => (EndsTorn(f \o g) <=> g[Len(g)] = Torn)
<1> DEFINE h == f \o g
           m == Len(f)
           n == Len(g)
<1>1. /\ m \in Nat /\ n \in Nat /\ DOMAIN f = 1..m /\ DOMAIN g = 1..n /\ DOMAIN h = 1..(m + n)
      /\ Len(h) = m + n /\ h \in Seq(S)
      /\ \A i \in 1..m : h[i] = f[i]
      /\ \A i \in 1..n : h[m + i] = g[i]
      /\ \A i \in (m + 1)..(m + n) : h[i] = g[i - m]
      /\ (g = <<>> <=> n = 0) /\ (h = <<>> <=> m + n = 0)
  BY ConcatProperties, LenProperties, EmptySeq
<1>2. g = <<>> => h = f
  BY ConcatEmptySeq
<1> HIDE DEF h, m, n
<1>3. Readable(f) \subseteq Readable(h)
  <2> SUFFICES ASSUME NEW i \in DOMAIN f, f[i] # Torn, i > 1 => f[i - 1] # Torn
               PROVE  f[i] \in Readable(h)
    BY DEF Readable
  <2>1. i \in DOMAIN h /\ h[i] = f[i] /\ (i > 1 => h[i - 1] = f[i - 1])
    BY <1>1
  <2> QED BY <2>1 DEF Readable
<1>4. Rows(h) = Rows(f) \cup Rows(g)
  <2>1. Rows(h) \subseteq Rows(f) \cup Rows(g)
    <3> SUFFICES ASSUME NEW i \in 1..(m + n) PROVE h[i] \in Rows(f) \cup Rows(g)
      BY <1>1 DEF Rows
    <3>1. CASE i <= m
      <4>1. i \in 1..m /\ h[i] = f[i]
        BY <1>1, <3>1
      <4> QED BY <1>1, <4>1 DEF Rows
    <3>2. CASE i > m
      <4>1. i - m \in 1..n /\ h[i] = g[i - m]
        BY <1>1, <3>2
      <4> QED BY <1>1, <4>1 DEF Rows
    <3> QED BY <1>1, <3>1, <3>2
  <2>2. Rows(f) \subseteq Rows(h)
    BY <1>1 DEF Rows
  <2>3. Rows(g) \subseteq Rows(h)
    <3> SUFFICES ASSUME NEW i \in 1..n PROVE g[i] \in Rows(h)
      BY <1>1 DEF Rows
    <3>1. m + i \in 1..(m + n) /\ h[m + i] = g[i]
      BY <1>1
    <3> QED BY <1>1, <3>1 DEF Rows
  <2> QED BY <2>1, <2>2, <2>3
<1>5. g # <<>> => (EndsTorn(h) <=> g[n] = Torn)
  <2> SUFFICES ASSUME g # <<>> PROVE EndsTorn(h) <=> g[n] = Torn
    OBVIOUS
  <2>1. n \in 1..n /\ h[m + n] = g[n] /\ h # <<>>
    BY <1>1
  <2> QED BY <1>1, <2>1 DEF EndsTorn
<1> QED BY <1>1, <1>2, <1>3, <1>4, <1>5 DEF h, n

\* A line is readable unless it is torn or comes after a torn one.
LEMMA AppendedLine ==
    ASSUME NEW S, NEW f \in Seq(S), NEW x \in S
    PROVE  /\ Readable(f) \subseteq Readable(Append(f, x))
           /\ x # Torn /\ ~EndsTorn(f) => x \in Readable(Append(f, x))
           /\ EndsTorn(Append(f, x)) <=> x = Torn
           /\ Rows(Append(f, x)) = Rows(f) \cup {x}
<1> DEFINE g == Append(f, x)
           n == Len(f)
<1>1. /\ n \in Nat /\ DOMAIN f = 1..n /\ DOMAIN g = 1..(n + 1) /\ Len(g) = n + 1
      /\ g[n + 1] = x /\ \A i \in 1..n : g[i] = f[i]
      /\ g # <<>> /\ (f = <<>> <=> n = 0)
  BY AppendProperties, LenProperties, EmptySeq
<1> HIDE DEF g, n
<1>2. Readable(f) \subseteq Readable(g)
  <2> SUFFICES ASSUME NEW i \in DOMAIN f, f[i] # Torn, i > 1 => f[i - 1] # Torn
               PROVE  f[i] \in Readable(g)
    BY DEF Readable
  <2>1. i \in DOMAIN g /\ g[i] = f[i] /\ (i > 1 => g[i - 1] = f[i - 1])
    BY <1>1
  <2> QED BY <2>1 DEF Readable
<1>3. ASSUME x # Torn, ~EndsTorn(f) PROVE x \in Readable(g)
  <2>1. n + 1 \in DOMAIN g /\ g[n + 1] = x
    BY <1>1
  <2>2. n + 1 > 1 => g[(n + 1) - 1] # Torn
    BY <1>1, <1>3 DEF EndsTorn, n
  <2> QED BY <1>3, <2>1, <2>2 DEF Readable
<1>4. EndsTorn(g) <=> x = Torn
  BY <1>1 DEF EndsTorn
<1>5. Rows(g) = Rows(f) \cup {x}
  BY <1>1 DEF Rows
<1> QED BY <1>2, <1>3, <1>4, <1>5 DEF g

LEMMA RowsAreLines ==
    ASSUME NEW S, NEW f \in Seq(S)
    PROVE  Rows(f) \subseteq S
<1>1. DOMAIN f = 1..Len(f) /\ \A i \in 1..Len(f) : f[i] \in S
  BY LenProperties, ElementOfSeq
<1> QED BY <1>1 DEF Rows

\* Without torn lines every line is readable.
LEMMA WholeFile ==
    ASSUME NEW S, NEW f \in Seq(S)
    PROVE  /\ Readable(f) \subseteq Rows(f) \ {Torn}
           /\ Torn \notin Rows(f) => Readable(f) = Rows(f) /\ ~EndsTorn(f)
<1>1. DOMAIN f = 1..Len(f) /\ Len(f) \in Nat /\ (f = <<>> <=> Len(f) = 0)
  BY LenProperties, EmptySeq
<1>2. Readable(f) \subseteq Rows(f) \ {Torn}
  BY DEF Readable, Rows
<1>3. ASSUME Torn \notin Rows(f) PROVE Rows(f) \subseteq Readable(f) /\ ~EndsTorn(f)
  <2>1. ASSUME NEW i \in DOMAIN f PROVE f[i] \in Readable(f)
    <3>1. f[i] # Torn /\ (i > 1 => f[i - 1] # Torn)
      BY <1>1, <1>3 DEF Rows
    <3> QED BY <3>1 DEF Readable
  <2>2. ~EndsTorn(f)
    BY <1>1, <1>3 DEF EndsTorn, Rows
  <2> QED BY <2>1, <2>2 DEF Rows
<1> QED BY <1>2, <1>3

-----------------------------------------------------------------------------
(* The state of a rotation *)

\* The writer has the live file, the file a rotation has renamed, or, in a
\* start, none; whatever is in its buffer stays there only between two calls.
WriterInv ==
    /\ writer = Live => live # Missing
    /\ writer \notin {Live, NoWriter} => live = Missing
    /\ pc # "idle" => buf = <<>> /\ ~half
    /\ pc \in {"idle", "check"} => writer # NoWriter
    /\ pc = "down" => writer = NoWriter
    /\ pc = "rename" => live # Missing /\ Len(live) >= MaxBytes
    /\ pc \in {"gzip", "copy", "unlink", "prune"} => live = Missing
    /\ pc = "open" => writer # Live
    /\ pc \notin {"idle", "down"} /\ writer # NoWriter => row > 0

IsPlain(c) == ~c.gz /\ c.stamp = stamp
IsGz(c) == c.gz /\ c.stamp = stamp

\* A name is one file.  During the gzip the chunk just sealed is there, and its
\* .gz is not yet, is empty, or is a full copy.  Pruning has all chunks ahead of
\* it unless some cannot be removed.
ChunkInv ==
    /\ \A c, d \in sealed : Name(c) = Name(d) => c = d
    /\ pc \in {"gzip", "copy", "unlink"} => \E c \in sealed : IsPlain(c)
    /\ pc = "gzip" => \A c \in sealed : ~IsGz(c)
    /\ pc = "copy" => /\ \E c \in sealed : IsGz(c)
                      /\ \A c \in sealed : IsGz(c) => c.lines = <<>>
    /\ pc = "unlink" =>
          \E c, d \in sealed : IsPlain(c) /\ IsGz(d) /\ d.lines = c.lines
    /\ ~Fails("remove") /\ pc = "prune" => {Name(c) : c \in sealed} \subseteq queue

Inv == TypeOK /\ WriterInv /\ ChunkInv

LEMMA SameName ==
    \A c, d : Name(c) = Name(d) <=> c.stamp = d.stamp /\ c.gz = d.gz
BY DEF Name

LEMMA MissingIsNoFile == Missing \notin Seq(0..MaxRows)
<1>1. 0..MaxRows \subseteq Nat
  BY AlertsFileAssumption
<1> QED BY <1>1, SeqMonotonic, AlertsFileAssumption

LEMMA AFile == \A f \in Seq(0..MaxRows) \cup {Missing} :
                 /\ Lines(f) \in Seq(0..MaxRows) /\ Lines(f) # Missing
                 /\ Len(Lines(f)) >= MaxBytes => f # Missing
                 /\ f # Missing => Lines(f) = f
                 /\ Lines(Lines(f)) = Lines(f)
<1>1. <<>> \in Seq(0..MaxRows) /\ Len(<<>>) = 0 /\ ~(0 >= MaxBytes)
  BY AlertsFileAssumption
<1> QED BY <1>1, MissingIsNoFile DEF Lines

LEMMA DiskType ==
    TypeOK => disk.gzip \in BOOLEAN /\ disk.faulty \in SUBSET Operation
BY AlertsFileAssumption DEF TypeOK

LEMMA NewestIsPlain ==
    ASSUME ChunkInv, TypeOK, NEW c \in sealed, IsPlain(c)
    PROVE  Newest = c
<1>1. \A d \in sealed : IsPlain(d) => d = c
  <2> SUFFICES ASSUME NEW d \in sealed, IsPlain(d) PROVE d = c
    OBVIOUS
  <2>1. c \in Chunk(stamp) /\ d \in Chunk(stamp)
    BY DEF TypeOK
  <2>2. c.gz = FALSE /\ d.gz = FALSE
    BY <2>1 DEF Chunk, IsPlain
  <2>3. Name(c) = Name(d)
    BY <2>2 DEF Name, IsPlain
  <2> QED BY <2>3 DEF ChunkInv
<1>2. Newest \in sealed /\ ~Newest.gz /\ Newest.stamp = stamp
  BY DEF Newest, IsPlain
<1> QED BY <1>1, <1>2 DEF IsPlain

\* The chunk the writer still has open, with more lines.
Grown(c, lines) ==
    IF c.stamp = writer /\ ~c.gz THEN [c EXCEPT !.lines = @ \o lines] ELSE c

LEMMA GrownChunk ==
    ASSUME TypeOK, NEW c \in sealed, NEW g \in Seq(0..MaxRows)
    PROVE  /\ Grown(c, g) \in Chunk(stamp) /\ Name(Grown(c, g)) = Name(c)
           /\ Grown(c, g).stamp = c.stamp /\ Grown(c, g).gz = c.gz
           /\ Grown(c, g).lines = IF c.stamp = writer /\ ~c.gz THEN c.lines \o g ELSE c.lines
<1>1. c \in Chunk(stamp)
  BY DEF TypeOK
<1>2. CASE c.stamp = writer /\ ~c.gz
  <2>1. Grown(c, g) = [c EXCEPT !.lines = c.lines \o g]
    BY <1>2 DEF Grown
  <2>2. c.lines \o g \in Seq(0..MaxRows)
    BY <1>1, AppendedLines DEF Chunk
  <2> QED BY <1>1, <1>2, <2>1, <2>2 DEF Chunk, Name
<1>3. CASE ~(c.stamp = writer /\ ~c.gz)
  <2>1. Grown(c, g) = c
    BY <1>3 DEF Grown
  <2> QED BY <1>1, <1>3, <2>1
<1> QED BY <1>2, <1>3

\* Lines that are written go to the one file the writer has open.
LEMMA LinesReach ==
    ASSUME TypeOK, WriterInv, NEW g \in Seq(0..MaxRows), WriteLines(g)
    PROVE  /\ live' \in Seq(0..MaxRows) \cup {Missing} /\ (live' = Missing <=> live = Missing)
           /\ sealed' \in SUBSET Chunk(stamp) /\ sealed' = {Grown(c, g) : c \in sealed}
           /\ writer = Live => live' = live \o g /\ live \in Seq(0..MaxRows) /\ sealed' = sealed
           /\ writer # Live => live' = live
<1>1. sealed' = {Grown(c, g) : c \in sealed}
  BY DEF WriteLines, Grown
<1>2. sealed' \in SUBSET Chunk(stamp)
  BY <1>1, GrownChunk
<1>3. CASE writer = Live
  <2>1. live \in Seq(0..MaxRows)
    BY <1>3 DEF TypeOK, WriterInv
  <2>2. live' = live \o g /\ live \o g \in Seq(0..MaxRows)
    BY <1>3, <2>1, AppendedLines DEF WriteLines
  <2>3. \A c \in sealed : Grown(c, g) = c
    <3>1. \A c \in sealed : c.stamp # Live
      BY DEF TypeOK, Chunk, Live
    <3> QED BY <1>3, <3>1 DEF Grown
  <2>4. sealed' = sealed
    BY <1>1, <2>3
  <2> QED BY <1>1, <1>2, <1>3, <2>1, <2>2, <2>4, MissingIsNoFile
<1>4. CASE writer # Live
  <2>1. live' = live
    BY <1>4 DEF WriteLines
  <2> QED BY <1>1, <1>2, <1>4, <2>1 DEF TypeOK
<1> QED BY <1>3, <1>4

\* A line to be written, behind what is left in the buffer.
LEMMA LinesToWrite ==
    ASSUME TypeOK, row < MaxRows
    PROVE  LET lines == Append(buf, row + 1) IN
           /\ row + 1 \in 1..MaxRows /\ row + 1 # Torn
           /\ lines \in Seq(0..MaxRows) /\ Len(lines) = Len(buf) + 1
           /\ Len(buf) \in Nat
           /\ \A k \in 0..Len(buf) : /\ SubSeq(lines, 1, k) \in Seq(0..MaxRows)
                                     /\ Remainder(lines, k) \in Seq(0..MaxRows)
<1> DEFINE lines == Append(buf, row + 1)
<1>1. row \in 0..MaxRows /\ buf \in Seq(0..MaxRows)
  BY DEF TypeOK
<1>2. row + 1 \in 1..MaxRows /\ row + 1 \in 0..MaxRows /\ row + 1 # Torn
  BY <1>1, AlertsFileAssumption DEF Torn
<1>3. lines \in Seq(0..MaxRows) /\ Len(lines) = Len(buf) + 1 /\ Len(buf) \in Nat
  BY <1>1, <1>2, AppendProperties, LenProperties
<1> HIDE DEF lines
<1>4. ASSUME NEW k \in 0..Len(buf)
      PROVE  /\ SubSeq(lines, 1, k) \in Seq(0..MaxRows)
             /\ Remainder(lines, k) \in Seq(0..MaxRows)
  <2>1. \A i \in 1..Len(lines) : lines[i] \in 0..MaxRows
    BY <1>3, ElementOfSeq
  <2>2. \A i \in 1..k : lines[i] \in 0..MaxRows
    BY <1>3, <2>1
  <2>3. \A i \in (k + 1)..Len(lines) : lines[i] \in 0..MaxRows
    BY <1>3, <2>1
  <2> QED BY <1>3, <2>2, <2>3, SubSeqProperties DEF Remainder
<1> QED BY <1>2, <1>3, <1>4 DEF lines

\* What a write that stops part-way puts into the file.
LEMMA TornWritten ==
    ASSUME TypeOK, WriterInv, WriteTorn
    PROVE  /\ buf' = <<>> /\ half' = FALSE /\ row < MaxRows /\ row' = row + 1
           /\ pc = "idle" /\ pc' = "idle" /\ writer # NoWriter /\ Fails("flush")
           /\ UNCHANGED <<writer, queue, stamp, acked, pruned, crashes, disk>>
           /\ Torn \in 0..MaxRows /\ buf \in Seq(0..MaxRows) /\ tears' \in Nat
           /\ \E g \in Seq(0..MaxRows) :
                 /\ WriteLines(g)
                 /\ \/ g = buf /\ tears' = tears
                    \/ g = Append(buf, Torn) /\ tears' = tears + 1
<1>1. /\ buf' = <<>> /\ half' = FALSE /\ row < MaxRows /\ row' = row + 1
      /\ pc = "idle" /\ pc' = "idle" /\ writer # NoWriter /\ Fails("flush")
      /\ UNCHANGED <<writer, queue, stamp, acked, pruned, crashes, disk>>
  BY DEF WriteTorn, Err, WriterInv
<1>2. Torn \in 0..MaxRows /\ buf \in Seq(0..MaxRows) /\ tears \in Nat
  BY AlertsFileAssumption DEF Torn, TypeOK
<1>3. Append(buf, Torn) \in Seq(0..MaxRows)
  BY <1>2, AppendProperties
<1>4. /\ tears' \in Nat
      /\ \/ WriteLines(buf) /\ tears' = tears
         \/ WriteLines(Append(buf, Torn)) /\ tears' = tears + 1
  BY <1>2 DEF WriteTorn
<1>5. \E g \in Seq(0..MaxRows) :
        /\ WriteLines(g)
        /\ \/ g = buf /\ tears' = tears
           \/ g = Append(buf, Torn) /\ tears' = tears + 1
  <2> DEFINE h == Append(buf, Torn)
             b == buf
  <2>1. h \in Seq(0..MaxRows) /\ b \in Seq(0..MaxRows)
    BY <1>2, <1>3
  <2>2. \/ WriteLines(b) /\ tears' = tears
        \/ WriteLines(h) /\ tears' = tears + 1
    BY <1>4
  <2> HIDE DEF h, b
  <2>3. \E g \in Seq(0..MaxRows) :
          /\ WriteLines(g)
          /\ \/ g = b /\ tears' = tears
             \/ g = h /\ tears' = tears + 1
    BY <2>1, <2>2, Zenon
  <2> QED BY <2>3 DEF h, b
<1> QED BY <1>1, <1>2, <1>4, <1>5

\* What the gzip writes keeps the names and fills the .gz.
Filled(c) == IF c.stamp = stamp /\ c.gz THEN [c EXCEPT !.lines = Newest.lines] ELSE c

LEMMA FilledChunk ==
    ASSUME Inv, pc = "copy", NEW c \in sealed
    PROVE  /\ Filled(c) \in Chunk(stamp) /\ Name(Filled(c)) = Name(c)
           /\ Filled(c).lines = IF IsGz(c) THEN Newest.lines ELSE c.lines
<1>1. c \in Chunk(stamp)
  BY DEF Inv, TypeOK
<1>2. Newest.lines \in Seq(0..MaxRows)
  <2>1. PICK d \in sealed : IsPlain(d)
    BY DEF Inv, ChunkInv
  <2>2. Newest \in Chunk(stamp)
    BY <2>1, NewestIsPlain DEF Inv, TypeOK
  <2> QED BY <2>2 DEF Chunk
<1>3. CASE IsGz(c)
  <2>1. Filled(c) = [c EXCEPT !.lines = Newest.lines]
    BY <1>3 DEF Filled, IsGz
  <2> QED BY <1>1, <1>2, <1>3, <2>1 DEF Chunk, Name
<1>4. CASE ~IsGz(c)
  <2>1. Filled(c) = c
    BY <1>4 DEF Filled, IsGz
  <2> QED BY <1>1, <1>4, <2>1
<1> QED BY <1>3, <1>4

LEMMA TypeStep == Inv /\ [Next]_vars => TypeOK'
<1> SUFFICES ASSUME Inv, [Next]_vars PROVE TypeOK'
  OBVIOUS
<1>0. TypeOK /\ WriterInv /\ ChunkInv /\ stamp \in Nat
  BY DEF Inv, TypeOK
<1>a. ASSUME row < MaxRows, row' = row + 1
      PROVE  row' \in 0..MaxRows /\ \A S \in SUBSET (1..row) : S \in SUBSET (1..row')
  BY <1>0, <1>a, AlertsFileAssumption DEF TypeOK
<1>b. \A c : c \in sealed => Name(c) \in [stamp : 1..stamp, gz : BOOLEAN]
  <2> SUFFICES ASSUME NEW c \in sealed PROVE Name(c) \in [stamp : 1..stamp, gz : BOOLEAN]
    OBVIOUS
  <2>1. c \in Chunk(stamp)
    BY <1>0 DEF TypeOK
  <2> QED BY <2>1 DEF Chunk, Name
<1>c. ASSUME sealed' \subseteq sealed, StartPrune, UNCHANGED stamp
      PROVE  /\ sealed' \in SUBSET Chunk(stamp')
             /\ queue' \in SUBSET [stamp : 1..stamp', gz : BOOLEAN] /\ pc' = "prune"
  <2>1. sealed' \in SUBSET Chunk(stamp')
    BY <1>0, <1>c DEF TypeOK
  <2>2. queue' = {Name(c) : c \in sealed'}
    BY <1>c DEF StartPrune
  <2>3. \A c \in sealed' : Name(c) \in [stamp : 1..stamp, gz : BOOLEAN]
    BY <1>b, <1>c
  <2>4. pc' = "prune" /\ stamp' = stamp
    BY <1>c DEF StartPrune
  <2> QED BY <2>1, <2>2, <2>3, <2>4
<1>d. <<>> \in Seq(0..MaxRows)
  OBVIOUS
<1>e. Err => pc' \in {"idle", "down"}
  BY DEF Err
<1>1. CASE WriteLine
  <2>1. /\ row' = row + 1 /\ row < MaxRows
        /\ UNCHANGED <<writer, queue, stamp, acked, pruned, crashes, tears, disk>>
    BY <1>1 DEF WriteLine, history
  <2>2. row' \in 0..MaxRows /\ acked' \in SUBSET (1..row')
    BY <1>0, <1>a, <2>1 DEF TypeOK
  <2> DEFINE lines == Append(buf, row + 1)
  <2>3. lines \in Seq(0..MaxRows)
    BY <1>0, <2>1, LinesToWrite
  <2>4. CASE WriteLines(lines) /\ buf' = <<>> /\ half' = FALSE /\ pc' = "check"
    <3>1. /\ live' \in Seq(0..MaxRows) \cup {Missing} /\ sealed' \in SUBSET Chunk(stamp)
      BY <1>0, <2>3, <2>4, LinesReach
    <3> QED BY <1>0, <1>d, <2>1, <2>2, <2>4, <3>1 DEF TypeOK
  <2>5. ASSUME NEW k \in 0..Len(buf), WriteLines(SubSeq(lines, 1, k)),
               buf' = Remainder(lines, k),
               half' \in IF k = 0 THEN {half, TRUE} ELSE BOOLEAN, Err
        PROVE  TypeOK'
    <3>1. SubSeq(lines, 1, k) \in Seq(0..MaxRows) /\ buf' \in Seq(0..MaxRows)
      BY <1>0, <2>1, <2>5, LinesToWrite
    <3>2. /\ live' \in Seq(0..MaxRows) \cup {Missing} /\ sealed' \in SUBSET Chunk(stamp)
      BY <1>0, <2>5, <3>1, LinesReach
    <3>3. half' \in BOOLEAN /\ pc' \in {"idle", "down"}
      BY <1>0, <1>e, <2>5 DEF TypeOK
    <3> QED BY <1>0, <2>1, <2>2, <3>1, <3>2, <3>3 DEF TypeOK
  <2> QED BY <1>1, <2>4, <2>5 DEF WriteLine
<1>2. CASE WriteRefused
  <2>1. /\ row' = row + 1 /\ row < MaxRows /\ pc' \in {"idle", "down"}
        /\ UNCHANGED <<live, sealed, writer, half, queue, stamp, acked, pruned, crashes, disk>>
    BY <1>2, <1>e DEF WriteRefused, fileVars
  <2>2. row' \in 0..MaxRows /\ acked' \in SUBSET (1..row')
    BY <1>0, <1>a, <2>1 DEF TypeOK
  <2>3. buf' \in Seq(0..MaxRows) /\ tears' \in Nat
    <3>1. Torn \in 0..MaxRows
      BY AlertsFileAssumption DEF Torn
    <3>2. Append(buf, Torn) \in Seq(0..MaxRows)
      BY <1>0, <3>1, AppendProperties DEF TypeOK
    <3>3. tears \in Nat /\ tears + 1 \in Nat /\ buf \in Seq(0..MaxRows)
      BY <1>0 DEF TypeOK
    <3> QED BY <1>2, <3>2, <3>3 DEF WriteRefused
  <2> QED BY <1>0, <2>1, <2>2, <2>3 DEF TypeOK
<1>t. CASE WriteTorn
  <2>1. /\ buf' = <<>> /\ half' = FALSE /\ row < MaxRows /\ row' = row + 1
        /\ pc' = "idle" /\ tears' \in Nat
        /\ UNCHANGED <<writer, queue, stamp, acked, pruned, crashes, disk>>
    BY <1>0, <1>t, TornWritten
  <2>2. row' \in 0..MaxRows /\ acked' \in SUBSET (1..row')
    BY <1>0, <1>a, <2>1 DEF TypeOK
  <2>3. live' \in Seq(0..MaxRows) \cup {Missing} /\ sealed' \in SUBSET Chunk(stamp)
    <3>1. PICK g \in Seq(0..MaxRows) : WriteLines(g)
      BY <1>0, <1>t, TornWritten
    <3> QED BY <1>0, <3>1, LinesReach
  <2> QED BY <1>0, <1>d, <2>1, <2>2, <2>3 DEF TypeOK
<1>g. ASSUME pc \notin {"idle", "down"}, writer # NoWriter, Ok
      PROVE  acked' \in SUBSET (1..row) /\ pc' = "idle"
  <2>1. row \in 1..row
    BY <1>0, <1>g DEF TypeOK, WriterInv
  <2> QED BY <1>0, <1>g, <2>1 DEF Ok, TypeOK
<1>3. CASE CheckLength
  <2>1. acked' \in SUBSET (1..row) /\ pc' \in {"idle", "rename"}
    <3>1. pc = "check" /\ writer # NoWriter
      BY <1>0, <1>3 DEF CheckLength, WriterInv
    <3>2. Ok \/ (pc' = "rename" /\ acked' = acked)
      BY <1>3 DEF CheckLength
    <3> QED BY <1>0, <1>g, <3>1, <3>2 DEF TypeOK
  <2> QED BY <1>0, <1>3, <2>1 DEF CheckLength, TypeOK, fileVars, bufVars
<1>4. CASE Rename
  <2>1. live \in Seq(0..MaxRows) /\ stamp' = stamp + 1 /\ stamp' \in Nat
    BY <1>0, <1>4 DEF Rename, TypeOK, WriterInv
  <2>2. Chunk(stamp) \subseteq Chunk(stamp') /\ 1..stamp \subseteq 1..stamp' /\ stamp' \in 1..stamp'
    BY <1>0, <2>1 DEF Chunk
  <2> DEFINE new == [stamp |-> stamp', gz |-> FALSE, lines |-> live]
  <2>3. new \in Chunk(stamp')
    BY <1>0, <2>1 DEF Chunk
  <2>4. sealed' \in SUBSET Chunk(stamp') /\ sealed' = sealed \cup {new}
    BY <1>0, <1>4, <2>2, <2>3 DEF Rename, TypeOK
  <2>5. queue' \in SUBSET [stamp : 1..stamp', gz : BOOLEAN] /\ pc' \in {"gzip", "prune"}
    <3>1. \A c \in sealed' : Name(c) \in [stamp : 1..stamp', gz : BOOLEAN]
      BY <2>4 DEF Chunk, Name
    <3>2. queue \in SUBSET [stamp : 1..stamp', gz : BOOLEAN]
      BY <1>0, <2>2 DEF TypeOK
    <3>3. \/ pc' = "gzip" /\ queue' = queue
          \/ pc' = "prune" /\ queue' = {Name(c) : c \in sealed'}
      BY <1>4 DEF Rename, StartPrune
    <3> QED BY <3>1, <3>2, <3>3
  <2>6. writer' \in {NoWriter, Live} \cup 1..stamp'
    BY <1>0, <1>4, <2>2 DEF Rename, TypeOK
  <2>7. live' = Missing /\ UNCHANGED <<buf, half, row, acked, pruned, crashes, tears, disk>>
    BY <1>4 DEF Rename, bufVars, history
  <2> QED BY <1>0, <2>1, <2>4, <2>5, <2>6, <2>7 DEF TypeOK
<1>5. CASE RenameFails
  BY <1>0, <1>5, <1>e DEF RenameFails, TypeOK, fileVars, bufVars, history
<1>6. CASE GzipCreate
  <2>1. stamp \in 1..stamp
    <3>1. PICK c \in sealed : IsPlain(c)
      BY <1>0, <1>6 DEF GzipCreate, ChunkInv
    <3>2. c \in Chunk(stamp)
      BY <1>0 DEF TypeOK
    <3> QED BY <3>1, <3>2 DEF Chunk, IsPlain
  <2>2. [stamp |-> stamp, gz |-> TRUE, lines |-> <<>>] \in Chunk(stamp)
    BY <2>1 DEF Chunk
  <2>3. sealed' \in SUBSET Chunk(stamp)
    BY <1>0, <1>6, <2>2 DEF GzipCreate, TypeOK
  <2> QED BY <1>0, <1>6, <2>3 DEF GzipCreate, TypeOK, bufVars, history
<1>7. CASE GzipFinish
  <2>1. sealed' = {Filled(c) : c \in sealed}
    BY <1>7 DEF GzipFinish, Filled
  <2>2. sealed' \in SUBSET Chunk(stamp)
    BY <1>7, <2>1, FilledChunk DEF GzipFinish
  <2> QED BY <1>0, <1>7, <2>2 DEF GzipFinish, TypeOK, bufVars, history
<1>8. CASE GzipUnlink
  <2>1. sealed' \subseteq sealed /\ StartPrune /\ UNCHANGED stamp
    BY <1>8 DEF GzipUnlink
  <2> QED BY <1>0, <1>8, <1>c, <2>1 DEF GzipUnlink, TypeOK, bufVars, history
<1>9. CASE GzipFails
  <2>1. sealed' \subseteq sealed /\ StartPrune /\ UNCHANGED stamp
    BY <1>9 DEF GzipFails
  <2> QED BY <1>0, <1>9, <1>c, <2>1 DEF GzipFails, TypeOK, bufVars, history
<1>10. CASE Prune
  <2>1. sealed' \subseteq sealed /\ queue' \subseteq queue
    BY <1>10 DEF Prune
  <2>2. UNION {Readable(c.lines) : c \in sealed \ sealed'} \subseteq 1..MaxRows
    <3> SUFFICES ASSUME NEW c \in sealed PROVE Readable(c.lines) \subseteq 1..MaxRows
      OBVIOUS
    <3>1. c.lines \in Seq(0..MaxRows)
      BY <1>0 DEF TypeOK, Chunk
    <3>2. Rows(c.lines) \subseteq 0..MaxRows
      BY <3>1, RowsAreLines
    <3>3. Readable(c.lines) \subseteq Rows(c.lines) \ {Torn}
      BY <3>1, WholeFile
    <3>4. (0..MaxRows) \ {Torn} \subseteq 1..MaxRows
      BY AlertsFileAssumption DEF Torn
    <3> QED BY <3>2, <3>3, <3>4
  <2>3. pruned' = pruned \cup UNION {Readable(c.lines) : c \in sealed \ sealed'}
    BY <1>10 DEF Prune
  <2>4. pruned' \in SUBSET (1..MaxRows)
    BY <1>0, <2>2, <2>3 DEF TypeOK
  <2> QED BY <1>0, <1>10, <2>1, <2>4 DEF Prune, TypeOK, bufVars
<1>11. CASE PruneEnds
  BY <1>0, <1>11 DEF PruneEnds, TypeOK, fileVars, bufVars, history
<1>12. CASE PruneFails
  BY <1>0, <1>12, <1>e DEF PruneFails, TypeOK, fileVars, bufVars, history
<1>13. CASE OpenAppend
  <2>1. live' \in Seq(0..MaxRows)
    BY <1>0, <1>13, AFile DEF OpenAppend, TypeOK
  <2>2. acked' \in SUBSET (1..row) /\ pc' = "idle"
    <3>1. \/ writer = NoWriter /\ pc' = "idle" /\ acked' = acked
          \/ writer # NoWriter /\ Ok
      BY <1>13 DEF OpenAppend
    <3> QED BY <1>0, <1>13, <1>g, <3>1 DEF OpenAppend, TypeOK
  <2> QED BY <1>0, <1>13, <2>1, <2>2 DEF OpenAppend, TypeOK, bufVars
<1>14. CASE OpenFails
  BY <1>0, <1>14, <1>e DEF OpenFails, TypeOK, fileVars, bufVars, history
<1>15. CASE Crash
  <2>1. /\ live' \in Seq(0..MaxRows) \cup {Missing} /\ sealed' \in SUBSET Chunk(stamp)
        /\ tears' \in Nat
    <3>1. CASE half
      <4>1. Torn \in 0..MaxRows
        BY AlertsFileAssumption DEF Torn
      <4>2. <<Torn>> \in Seq(0..MaxRows)
        BY <4>1
      <4>3. WriteLines(<<Torn>>) /\ tears' = tears + 1
        BY <1>15, <3>1 DEF Crash
      <4>4. tears' \in Nat
        BY <1>0, <4>3 DEF TypeOK
      <4> QED BY <1>0, <4>2, <4>3, <4>4, LinesReach
    <3>2. CASE ~half
      BY <1>0, <1>15, <3>2 DEF Crash, TypeOK
    <3> QED BY <3>1, <3>2
  <2>2. /\ queue' = {} /\ pc' = "down" /\ half' = FALSE /\ buf' = <<>>
        /\ writer' = NoWriter /\ crashes' = crashes + 1
        /\ UNCHANGED <<row, stamp, acked, pruned, disk>>
    BY <1>15 DEF Crash
  <2>3. queue' \in SUBSET [stamp : 1..stamp', gz : BOOLEAN] /\ crashes' \in Nat
    BY <1>0, <2>2 DEF TypeOK
  <2> QED BY <1>0, <1>d, <2>1, <2>2, <2>3 DEF TypeOK
<1>16. CASE Start
  BY <1>0, <1>16 DEF Start, TypeOK, fileVars, bufVars, history
<1>17. CASE Rest \/ UNCHANGED vars
  BY <1>0, <1>17 DEF Rest, vars, fileVars, bufVars, history, TypeOK
<1> QED
  BY <1>1, <1>2, <1>t, <1>3, <1>4, <1>5, <1>6, <1>7, <1>8, <1>9, <1>10, <1>11, <1>12,
     <1>13, <1>14, <1>15, <1>16, <1>17 DEF Next

LEMMA WriterStep == Inv /\ TypeOK' /\ [Next]_vars => WriterInv'
<1> SUFFICES ASSUME Inv, TypeOK', [Next]_vars PROVE WriterInv'
  OBVIOUS
<1>0. /\ WriterInv /\ TypeOK /\ row \in Nat
      /\ live \in Seq(0..MaxRows) \cup {Missing}
  BY DEF Inv, TypeOK
<1>a. ASSUME Err, pc # "down", UNCHANGED <<live, writer>>
      PROVE  \/ pc' = "idle" /\ writer' # NoWriter
             \/ pc' = "down" /\ writer' = NoWriter
  BY <1>0, <1>a DEF Err
<1>b. <<>> # Missing
  <2>1. <<>> \in Seq(0..MaxRows)
    OBVIOUS
  <2> QED BY <2>1, MissingIsNoFile
<1>1. CASE WriteLine
  <2>1. row < MaxRows /\ row' = row + 1 /\ row' > 0 /\ pc = "idle" /\ writer' = writer
    BY <1>0, <1>1 DEF WriteLine
  <2> DEFINE lines == Append(buf, row + 1)
  <2>2. CASE WriteLines(lines) /\ buf' = <<>> /\ half' = FALSE /\ pc' = "check"
    <3>1. live' = Missing <=> live = Missing
      BY <1>0, <2>1, <2>2, LinesToWrite, LinesReach
    <3> QED BY <1>0, <2>1, <2>2, <3>1 DEF WriterInv
  <2>3. ASSUME NEW k \in 0..Len(buf), WriteLines(SubSeq(lines, 1, k)), Err
        PROVE  WriterInv'
    <3>1. live' = Missing <=> live = Missing
      BY <1>0, <2>1, <2>3, LinesToWrite, LinesReach
    <3>2. pc' = "idle" /\ writer # NoWriter
      BY <1>0, <2>1, <2>3 DEF Err, WriterInv
    <3> QED BY <1>0, <2>1, <3>1, <3>2 DEF WriterInv
  <2> QED BY <1>1, <2>2, <2>3 DEF WriteLine
<1>2. CASE WriteRefused
  BY <1>0, <1>2 DEF WriteRefused, Err, WriterInv, fileVars
<1>t. CASE WriteTorn
  <2>1. /\ pc' = "idle" /\ writer # NoWriter /\ writer' = writer
        /\ buf' = <<>> /\ half' = FALSE
    BY <1>0, <1>t, TornWritten
  <2>2. live' = Missing <=> live = Missing
    <3>1. PICK g \in Seq(0..MaxRows) : WriteLines(g)
      BY <1>0, <1>t, TornWritten
    <3> QED BY <1>0, <3>1, LinesReach
  <2> QED BY <1>0, <2>1, <2>2 DEF WriterInv
<1>3. CASE CheckLength
  <2>1. CASE Len(Lines(live)) < MaxBytes
    <3>1. pc' = "idle" /\ UNCHANGED <<live, writer, buf, half, row>> /\ pc = "check"
      BY <1>3, <2>1 DEF CheckLength, Ok, fileVars, bufVars
    <3> QED BY <1>0, <3>1 DEF WriterInv
  <2>2. CASE ~(Len(Lines(live)) < MaxBytes)
    <3>1. pc' = "rename" /\ UNCHANGED <<live, writer, buf, half, row>> /\ pc = "check"
      BY <1>3, <2>2 DEF CheckLength, fileVars, bufVars
    <3>2. live # Missing /\ Lines(live) = live /\ Len(live) >= MaxBytes
      <4>1. Len(Lines(live)) \in Nat
        BY <1>0, AFile, LenProperties
      <4>2. Len(Lines(live)) >= MaxBytes
        BY <2>2, <4>1, AlertsFileAssumption
      <4> QED BY <1>0, <4>2, AFile
    <3> QED BY <1>0, <3>1, <3>2 DEF WriterInv
  <2> QED BY <2>1, <2>2
<1>4. CASE Rename
  <2>1. /\ live # Missing /\ live' = Missing /\ pc' \in {"gzip", "prune"} /\ pc = "rename"
        /\ UNCHANGED <<buf, half, row>> /\ stamp' = stamp + 1
        /\ writer' = IF writer = Live THEN stamp' ELSE writer
    BY <1>0, <1>4 DEF Rename, WriterInv, StartPrune, bufVars
  <2>2. stamp' # Live /\ stamp' # NoWriter
    BY <2>1 DEF TypeOK, Live, NoWriter, Inv
  <2> QED BY <1>0, <2>1, <2>2 DEF WriterInv, Live, NoWriter
<1>5. CASE RenameFails \/ OpenFails \/ PruneFails
  <2>1. Err /\ pc \in {"rename", "open", "prune"} /\ UNCHANGED <<live, writer, buf, half, row>>
    BY <1>5 DEF RenameFails, OpenFails, PruneFails, fileVars, bufVars
  <2> QED BY <1>0, <1>a, <2>1 DEF WriterInv
<1>6. CASE GzipCreate \/ GzipFinish
  BY <1>0, <1>6 DEF GzipCreate, GzipFinish, WriterInv, bufVars, history
<1>7. CASE GzipUnlink \/ GzipFails
  <2>1. /\ pc \in {"gzip", "copy", "unlink"} /\ pc' = "prune"
        /\ UNCHANGED <<live, writer, buf, half, row>>
    BY <1>7 DEF GzipUnlink, GzipFails, StartPrune, bufVars
  <2> QED BY <1>0, <2>1 DEF WriterInv
<1>8. CASE Prune \/ PruneEnds
  BY <1>0, <1>8 DEF Prune, PruneEnds, WriterInv, fileVars, bufVars, history
<1>9. CASE OpenAppend
  <2>1. /\ live' # Missing /\ writer' = Live /\ pc' = "idle" /\ UNCHANGED <<buf, half, row>>
    BY <1>0, <1>9, AFile DEF OpenAppend, Ok, bufVars
  <2> QED BY <2>1 DEF WriterInv, Live, NoWriter
<1>10. CASE Crash
  BY <1>10 DEF Crash, WriterInv, Live, NoWriter
<1>11. CASE Start
  <2>1. pc = "down" /\ UNCHANGED <<live, writer, buf, half, row>> /\ writer = NoWriter
    BY <1>0, <1>11 DEF Start, WriterInv, fileVars, bufVars
  <2>2. pc' = "rename" => live # Missing /\ Len(live) >= MaxBytes
    <3> SUFFICES ASSUME pc' = "rename" PROVE live # Missing /\ Len(live) >= MaxBytes
      OBVIOUS
    <3>1. ~(Len(Lines(live)) < MaxBytes) /\ Len(Lines(live)) \in Nat
      BY <1>0, <1>11, AFile, LenProperties DEF Start
    <3>2. Len(Lines(live)) >= MaxBytes
      BY <3>1, AlertsFileAssumption
    <3> QED BY <1>0, <3>2, AFile
  <2>3. pc' \in {"open", "rename"}
    BY <1>11 DEF Start
  <2> QED BY <1>0, <2>1, <2>2, <2>3 DEF WriterInv, Live, NoWriter
<1>12. CASE Rest \/ UNCHANGED vars
  BY <1>0, <1>12 DEF Rest, vars, fileVars, bufVars, history, WriterInv
<1> QED
  BY <1>1, <1>2, <1>t, <1>3, <1>4, <1>5, <1>6, <1>7, <1>8, <1>9, <1>10, <1>11, <1>12 DEF Next

LEMMA DiskIsFixed == [Next]_vars => UNCHANGED disk
BY DEF Next, vars, history, bufVars, fileVars, WriteLine, WriteRefused, WriteTorn, CheckLength,
   Rename, RenameFails, GzipCreate, GzipFinish, GzipUnlink, GzipFails, Prune, PruneEnds, PruneFails,
   OpenAppend, OpenFails, Crash, Start, Rest

LEMMA ChunkStep == Inv /\ TypeOK' /\ [Next]_vars => ChunkInv'
<1> SUFFICES ASSUME Inv, TypeOK', [Next]_vars PROVE ChunkInv'
  OBVIOUS
<1>f. UNCHANGED disk
  BY DiskIsFixed
<1>0. /\ ChunkInv /\ TypeOK /\ WriterInv /\ stamp \in Nat
      /\ \A c \in sealed : c \in Chunk(stamp) /\ c.stamp \in 1..stamp /\ c.gz \in BOOLEAN
  BY DEF Inv, TypeOK, Chunk
<1>a. ASSUME sealed' \subseteq sealed, pc' \notin {"gzip", "copy", "unlink"},
             pc' = "prune" => {Name(c) : c \in sealed'} \subseteq queue'
      PROVE  ChunkInv'
  BY <1>0, <1>a DEF ChunkInv
<1>b. ASSUME NEW g \in Seq(0..MaxRows), WriteLines(g), pc' \in {"idle", "check", "down"}
      PROVE  ChunkInv'
  <2>1. sealed' = {Grown(c, g) : c \in sealed}
    BY <1>0, <1>b, LinesReach
  <2>2. \A c \in sealed : Name(Grown(c, g)) = Name(c)
    BY <1>0, <1>b, GrownChunk
  <2>3. \A c, d \in sealed' : Name(c) = Name(d) => c = d
    <3> SUFFICES ASSUME NEW c \in sealed, NEW d \in sealed, Name(Grown(c, g)) = Name(Grown(d, g))
                 PROVE  Grown(c, g) = Grown(d, g)
      BY <2>1
    <3>1. c = d
      BY <1>0, <2>2 DEF ChunkInv
    <3> QED BY <3>1
  <2> QED BY <1>b, <2>3 DEF ChunkInv
<1>1. CASE WriteLine
  <2>1. row < MaxRows
    BY <1>1 DEF WriteLine
  <2>2. \/ WriteLines(Append(buf, row + 1)) /\ pc' = "check"
        \/ \E k \in 0..Len(buf) : WriteLines(SubSeq(Append(buf, row + 1), 1, k)) /\ Err
    BY <1>1 DEF WriteLine
  <2> QED BY <1>0, <1>b, <2>1, <2>2, LinesToWrite DEF Err
<1>t. CASE WriteTorn
  BY <1>0, <1>b, <1>t, TornWritten
<1>2. CASE WriteRefused \/ CheckLength \/ RenameFails \/ PruneEnds \/ PruneFails \/ OpenAppend
           \/ OpenFails \/ Start
  <2>1. sealed' = sealed /\ pc' \in {"idle", "rename", "open", "down"}
    BY <1>2 DEF WriteRefused, CheckLength, RenameFails, PruneEnds, PruneFails, OpenAppend,
                OpenFails, Start, Ok, Err, fileVars
  <2> QED BY <1>a, <2>1
<1>3. CASE Rename
  <2> DEFINE new == [stamp |-> stamp', gz |-> FALSE, lines |-> live]
  <2>1. sealed' = sealed \cup {new} /\ stamp' = stamp + 1
    BY <1>3 DEF Rename
  <2>2. \/ pc' = "gzip"
        \/ pc' = "prune" /\ queue' = {Name(c) : c \in sealed'}
    BY <1>3 DEF Rename, StartPrune
  <2>3. new.stamp = stamp + 1 /\ new.gz = FALSE
    BY <2>1
  <2>4. \A c \in sealed : c.stamp # stamp + 1
    BY <1>0
  <2> HIDE DEF new
  <2>5. \A c, d \in sealed' : Name(c) = Name(d) => c = d
    BY <1>0, <2>1, <2>3, <2>4, SameName DEF ChunkInv
  <2>6. \E c \in sealed' : ~c.gz /\ c.stamp = stamp'
    BY <2>1, <2>3
  <2>7. \A c \in sealed' : ~(c.gz /\ c.stamp = stamp')
    BY <2>1, <2>3, <2>4
  <2> QED BY <2>2, <2>5, <2>6, <2>7 DEF ChunkInv, IsGz, IsPlain
<1>4. CASE GzipCreate
  <2> DEFINE new == [stamp |-> stamp, gz |-> TRUE, lines |-> <<>>]
  <2>1. sealed' = sealed \cup {new} /\ stamp' = stamp /\ pc = "gzip" /\ pc' = "copy"
    BY <1>4 DEF GzipCreate
  <2>2. new.stamp = stamp /\ new.gz = TRUE /\ new.lines = <<>>
    OBVIOUS
  <2>3. \A c \in sealed : ~(c.gz /\ c.stamp = stamp)
    BY <1>0, <2>1 DEF ChunkInv, IsGz
  <2> HIDE DEF new
  <2>4. \A c \in sealed : Name(c) # Name(new)
    BY <2>2, <2>3, SameName
  <2>5. \A c, d \in sealed' : Name(c) = Name(d) => c = d
    BY <1>0, <2>1, <2>4 DEF ChunkInv
  <2>6. \E c \in sealed' : ~c.gz /\ c.stamp = stamp
    BY <1>0, <2>1 DEF ChunkInv, IsPlain
  <2>7. new \in sealed' /\ \A c \in sealed' : c.gz /\ c.stamp = stamp => c.lines = <<>>
    BY <2>1, <2>2, <2>3
  <2> QED BY <2>1, <2>2, <2>5, <2>6, <2>7 DEF ChunkInv, IsGz, IsPlain
<1>5. CASE GzipFinish
  <2>1. sealed' = {Filled(c) : c \in sealed} /\ stamp' = stamp /\ pc = "copy" /\ pc' = "unlink"
    BY <1>5 DEF GzipFinish, Filled
  <2>2. \A c \in sealed : /\ Name(Filled(c)) = Name(c)
                          /\ Filled(c).lines = IF IsGz(c) THEN Newest.lines ELSE c.lines
                          /\ Filled(c).stamp = c.stamp /\ Filled(c).gz = c.gz
    BY <2>1, FilledChunk, SameName
  <2>3. \A c, d \in sealed' : Name(c) = Name(d) => c = d
    <3> SUFFICES ASSUME NEW c \in sealed, NEW d \in sealed, Name(Filled(c)) = Name(Filled(d))
                 PROVE  Filled(c) = Filled(d)
      BY <2>1
    <3>1. Name(c) = Name(d)
      BY <2>2
    <3> QED BY <1>0, <3>1 DEF ChunkInv
  <2>4. PICK c \in sealed, d \in sealed : IsPlain(c) /\ IsGz(d)
    BY <1>0, <2>1 DEF ChunkInv
  <2>5. Newest = c /\ ~IsGz(c)
    BY <1>0, <2>4, NewestIsPlain DEF IsPlain, IsGz
  <2>6. /\ Filled(c) \in sealed' /\ ~Filled(c).gz /\ Filled(c).stamp = stamp
        /\ Filled(d) \in sealed' /\ Filled(d).gz /\ Filled(d).stamp = stamp
        /\ Filled(d).lines = Filled(c).lines
    BY <2>1, <2>2, <2>4, <2>5 DEF IsPlain, IsGz
  <2> QED BY <2>1, <2>3, <2>6 DEF ChunkInv, IsGz, IsPlain
<1>6. CASE GzipUnlink \/ GzipFails
  <2>1. sealed' \subseteq sealed /\ pc' = "prune" /\ queue' = {Name(c) : c \in sealed'}
    BY <1>6 DEF GzipUnlink, GzipFails, StartPrune
  <2> QED BY <1>a, <2>1
<1>7. CASE Prune
  <2>1. PICK n \in oldest(queue) : /\ queue' = queue \ {n}
                                   /\ \/ sealed' = {c \in sealed : Name(c) # n}
                                      \/ Fails("remove") /\ sealed' = sealed
    BY <1>7 DEF Prune
  <2>2. pc = "prune" /\ pc' = "prune"
    BY <1>7 DEF Prune
  <2>3. ~Fails("remove")' => {Name(c) : c \in sealed'} \subseteq queue'
    BY <1>0, <1>f, <2>1, <2>2 DEF ChunkInv, Fails
  <2> QED BY <1>0, <2>1, <2>2, <2>3 DEF ChunkInv
<1>8. CASE Crash
  <2>1. pc' = "down"
    BY <1>8 DEF Crash
  <2>2. CASE half
    <3>1. Torn \in 0..MaxRows
      BY AlertsFileAssumption DEF Torn
    <3>2. <<Torn>> \in Seq(0..MaxRows) /\ WriteLines(<<Torn>>)
      BY <1>8, <2>2, <3>1 DEF Crash
    <3> QED BY <1>b, <2>1, <3>2
  <2>3. CASE ~half
    BY <1>8, <1>a, <2>1, <2>3 DEF Crash
  <2> QED BY <2>2, <2>3
<1>9. CASE Rest \/ UNCHANGED vars
  <2>1. UNCHANGED <<sealed, stamp, pc, queue>>
    BY <1>9 DEF Rest, vars, fileVars
  <2> QED BY <1>0, <1>f, <2>1 DEF ChunkInv, IsPlain, IsGz, Fails
<1> QED BY <1>1, <1>2, <1>t, <1>3, <1>4, <1>5, <1>6, <1>7, <1>8, <1>9 DEF Next

LEMMA InvInit == Init => Inv
<1> SUFFICES ASSUME Init PROVE Inv
  OBVIOUS
<1>1. <<>> \in Seq(0..MaxRows)
  OBVIOUS
<1>2. TypeOK
  <2>1. row \in 0..MaxRows /\ row = 0
    BY AlertsFileAssumption DEF Init
  <2>2. sealed \in SUBSET Chunk(stamp) /\ queue \in SUBSET [stamp : 1..stamp, gz : BOOLEAN]
    BY DEF Init
  <2>3. acked \in SUBSET (1..row) /\ pruned \in SUBSET (1..MaxRows)
    BY DEF Init
  <2>4. live \in Seq(0..MaxRows) \cup {Missing} /\ buf \in Seq(0..MaxRows)
    BY <1>1 DEF Init
  <2>5. /\ stamp \in Nat /\ crashes \in Nat /\ tears \in Nat /\ half \in BOOLEAN
        /\ writer \in {NoWriter, Live} \cup 1..stamp /\ pc = "idle" /\ disk \in Scenarios
    BY DEF Init
  <2> QED BY <2>1, <2>2, <2>3, <2>4, <2>5 DEF TypeOK
<1>3. WriterInv
  <2>1. <<>> # Missing
    BY <1>1, MissingIsNoFile
  <2> QED BY <2>1 DEF Init, WriterInv, Live, NoWriter
<1>4. ChunkInv
  BY DEF Init, ChunkInv
<1> QED BY <1>2, <1>3, <1>4 DEF Inv

LEMMA Invariant == Spec => []Inv
<1>1. Inv /\ [Next]_vars => Inv'
  BY TypeStep, WriterStep, ChunkStep DEF Inv
<1> QED BY <1>1, InvInit, PTL DEF Spec

\* Every variable has its type: whatever file operation fails or is cut short by
\* a crash, what is written is lines, and the writer has the live file, one that
\* a rotation renamed, or none.
THEOREM TypeCorrect == Spec => []TypeOK
BY Invariant, PTL DEF Inv


-----------------------------------------------------------------------------
(* The file the writer has *)

\* A rotation that cannot fail after the rename ends with a new live file.
Finishes == ~Fails("prune") /\ ~Fails("open")

FinishInv == Finishes => (pc \in {"idle", "check"} => writer = Live)

\* Otherwise nothing is torn, no chunk is longer than MaxBytes when it is
\* sealed, and pruning leaves the one the writer has open.
Whole == /\ ~disk.gzip /\ MaxBytes <= Budget
         /\ \A op \in {"flush", "rename", "remove"} : ~Fails(op)

Untorn ==
    /\ buf = <<>> /\ ~half
    /\ Torn \notin Rows(Lines(live))
    /\ \A c \in sealed : ~c.gz /\ Torn \notin Rows(c.lines)

Fitting ==
    /\ Len(Lines(live)) <= MaxBytes
    /\ pc = "idle" /\ writer = Live => Len(live) < MaxBytes
    /\ pc = "open" => Len(Lines(live)) < MaxBytes
    /\ pc = "prune" => \E c \in sealed : c.stamp = stamp /\ Len(c.lines) <= MaxBytes
    /\ writer \notin {Live, NoWriter} => writer = stamp /\ \E c \in sealed : c.stamp = stamp
    /\ pc \notin {"gzip", "copy", "unlink"}

WholeInv == Whole => Untorn /\ Fitting

LEMMA FinishStep == Inv /\ FinishInv /\ [Next]_vars => FinishInv'
<1> SUFFICES ASSUME Inv, FinishInv, [Next]_vars, Finishes', pc' \in {"idle", "check"}
             PROVE  writer' = Live
  BY DEF FinishInv
<1>1. Finishes /\ WriterInv
  BY DiskIsFixed DEF Finishes, Fails, Inv
<1>2. CASE WriteLine \/ WriteRefused \/ WriteTorn \/ CheckLength
  <2>1. pc \in {"idle", "check"} /\ writer' = writer
    BY <1>2 DEF WriteLine, WriteRefused, WriteTorn, CheckLength, fileVars
  <2> QED BY <1>1, <2>1 DEF FinishInv
<1>3. CASE RenameFails
  <2>1. pc = "rename" /\ Err /\ writer' = writer
    BY <1>3 DEF RenameFails, fileVars
  <2>2. writer # NoWriter
    BY <2>1 DEF Err
  <2> QED BY <1>1, <2>1, <2>2 DEF WriterInv
<1>4. CASE PruneFails \/ OpenFails
  BY <1>1, <1>4 DEF PruneFails, OpenFails, Finishes
<1>5. CASE OpenAppend
  BY <1>5 DEF OpenAppend
<1>6. CASE Rename \/ GzipCreate \/ GzipFinish \/ GzipUnlink \/ GzipFails \/ Prune \/ PruneEnds
           \/ Crash \/ Start
  BY <1>6 DEF Rename, GzipCreate, GzipFinish, GzipUnlink, GzipFails, Prune, PruneEnds, Crash,
              Start, StartPrune
<1>7. CASE Rest \/ UNCHANGED vars
  BY <1>1, <1>7 DEF Rest, vars, fileVars, FinishInv
<1> QED BY <1>2, <1>3, <1>4, <1>5, <1>6, <1>7 DEF Next

\* The sizes of one file add up to its size.
LEMMA OneChunk ==
    ASSUME NEW c, Size(c) \in Nat
    PROVE  MapThenSumSet(Size, {c}) = Size(c)
<1> DEFINE pick(s) == CHOOSE x \in s : TRUE
           F(f) == [s \in SUBSET {c} |-> IF s = {} THEN 0 ELSE Size(pick(s)) + f[s \ {pick(s)}]]
           sum == CHOOSE f : f = F(f)
<1>1. MapThenSumSet(Size, {c}) = sum[{c}]
  BY DEF MapThenSumSet, MapThenFoldSet
<1>2. pick({c}) = c /\ {c} \ {c} = {}
  OBVIOUS
<1>3. \E f : f = F(f)
  <2> DEFINE f == [s \in SUBSET {c} |-> IF s = {} THEN 0 ELSE Size(c)]
  <2>1. \A s \in SUBSET {c} : s = {} \/ s = {c}
    OBVIOUS
  <2>2. f[{}] = 0 /\ {} \in SUBSET {c}
    OBVIOUS
  <2> HIDE DEF f
  <2>3. ASSUME NEW s \in SUBSET {c}, s # {}
        PROVE  Size(pick(s)) + f[s \ {pick(s)}] = Size(c)
    <3>1. s = {c}
      BY <2>1, <2>3
    <3>2. pick(s) = c
      BY <3>1, <1>2
    <3>3. s \ {pick(s)} = {}
      BY <3>1, <3>2
    <3> HIDE DEF pick
    <3> QED BY <2>2, <3>2, <3>3
  <2>4. \A s \in SUBSET {c} : (IF s = {} THEN 0 ELSE Size(c)) =
                                 (IF s = {} THEN 0 ELSE Size(pick(s)) + f[s \ {pick(s)}])
    BY <2>3
  <2>5. f = F(f)
    BY <2>4 DEF f
  <2> QED BY <2>5
<1>4. sum = F(sum)
  BY <1>3
<1> HIDE DEF sum
<1>5. sum[{}] = 0
  BY <1>4
<1>6. sum[{c}] = Size(c) + sum[{}]
  <2>1. {c} \in SUBSET {c} /\ {c} # {}
    OBVIOUS
  <2>2. sum[{c}] = Size(pick({c})) + sum[{c} \ {pick({c})}]
    BY <1>4, <2>1
  <2> HIDE DEF pick
  <2> QED BY <1>2, <2>2
<1> QED BY <1>1, <1>5, <1>6

\* Pruning visits the chunk just sealed last, and one chunk is in the budget.
LEMMA NewestStays ==
    ASSUME Inv, Whole, Untorn, Prune, NEW c \in sealed, c.stamp = stamp, Len(c.lines) <= MaxBytes
    PROVE  c \in sealed'
<1>1. PICK n \in oldest(queue) : \/ sealed' = {d \in sealed : Name(d) # n}
                                 \/ sealed' = sealed
  BY DEF Prune
<1>2. SUFFICES ASSUME n = Name(c) PROVE FALSE
  BY <1>1
<1>3. \A d \in sealed : Name(d) \in queue /\ d.stamp \in 1..stamp /\ ~d.gz
  BY DEF Inv, ChunkInv, Whole, Prune, TypeOK, Chunk, Untorn
<1>4. c \in Chunk(stamp) /\ stamp \in Nat /\ c.gz = FALSE
  BY <1>3 DEF Inv, TypeOK, Chunk
<1>5. \A d \in sealed : d = c
  <2> SUFFICES ASSUME NEW d \in sealed PROVE d = c
    OBVIOUS
  <2>1. Name(c).stamp <= Name(d).stamp
    BY <1>2, <1>3 DEF oldest
  <2>2. d.stamp = c.stamp
    <3>1. c.stamp <= d.stamp
      BY <2>1 DEF Name
    <3>2. d.stamp \in 1..stamp /\ c.stamp = stamp /\ stamp \in Nat
      BY <1>3, <1>4
    <3> QED BY <3>1, <3>2
  <2>3. d \in Chunk(stamp) /\ d.gz = FALSE
    BY <1>3 DEF Inv, TypeOK, Chunk
  <2>4. Name(d) = Name(c)
    BY <1>4, <2>2, <2>3 DEF Name
  <2> QED BY <2>4 DEF Inv, ChunkInv
<1>6. sealed = {c}
  BY <1>5
<1>7. Size(c) = Len(c.lines) /\ Size(c) \in Nat
  BY <1>4, LenProperties DEF Size, Chunk
<1>8. Len(Lines(live)) = 0
  <2>1. live = Missing
    BY DEF Inv, WriterInv, Prune
  <2> QED BY <2>1 DEF Lines
<1>9. MapThenSumSet(Size, sealed) = Size(c)
  BY <1>6, <1>7, OneChunk
<1>10. total_alerts_bytes = Len(c.lines)
  BY <1>7, <1>8, <1>9 DEF total_alerts_bytes
<1> QED BY <1>7, <1>10, AlertsFileAssumption DEF Prune, Whole

LEMMA WholeStep == Inv /\ TypeOK' /\ WholeInv /\ [Next]_vars => WholeInv'
<1> SUFFICES ASSUME Inv, TypeOK', WholeInv, [Next]_vars, Whole' PROVE Untorn' /\ Fitting'
  BY DEF WholeInv
<1>0. /\ Whole /\ Untorn /\ Fitting /\ WriterInv /\ TypeOK
      /\ \A op \in {"flush", "rename", "remove"} : ~Fails(op)
  BY DiskIsFixed DEF Whole, Fails, Inv, WholeInv
<1>z. Lines(Missing) = <<>> /\ Len(<<>>) = 0 /\ Torn \notin Rows(<<>>) /\ 0 < MaxBytes /\ 0 <= MaxBytes
  BY EmptyFile, AlertsFileAssumption DEF Lines
<1>l. Lines(live) \in Seq(0..MaxRows) /\ Len(Lines(live)) \in Nat /\ MaxBytes \in Nat
  BY <1>0, AFile, LenProperties, AlertsFileAssumption DEF TypeOK
<1>1. CASE WriteLine
  <2>1. /\ row < MaxRows /\ pc = "idle" /\ pc' = "check" /\ UNCHANGED <<writer, stamp>>
        /\ WriteLines(Append(buf, row + 1)) /\ buf' = <<>> /\ half' = FALSE
    BY <1>0, <1>1 DEF WriteLine
  <2> DEFINE g == Append(buf, row + 1)
  <2>2. /\ g \in Seq(0..MaxRows) /\ Len(g) = 1 /\ Torn \notin Rows(g)
    <3>1. row + 1 # Torn /\ row + 1 \in 0..MaxRows
      BY <1>0, <2>1, LinesToWrite, AlertsFileAssumption
    <3>2. <<>> \in Seq(0..MaxRows) /\ g = Append(<<>>, row + 1)
      BY <1>0 DEF Untorn
    <3>3. Rows(g) = Rows(<<>>) \cup {row + 1}
      BY <3>1, <3>2, AppendedLine
    <3>4. g \in Seq(0..MaxRows) /\ Len(g) = Len(<<>>) + 1
      BY <3>1, <3>2, AppendProperties
    <3> QED BY <1>z, <3>1, <3>3, <3>4
  <2> HIDE DEF g
  <2>3. /\ sealed' = {Grown(c, g) : c \in sealed}
        /\ writer = Live => live' = live \o g /\ live \in Seq(0..MaxRows)
        /\ writer # Live => live' = live
    BY <1>0, <2>1, <2>2, LinesReach DEF g
  <2>4. \A c \in sealed : /\ ~Grown(c, g).gz /\ Grown(c, g).stamp = c.stamp
                          /\ Torn \notin Rows(Grown(c, g).lines)
    <3> SUFFICES ASSUME NEW c \in sealed
                 PROVE  /\ ~Grown(c, g).gz /\ Grown(c, g).stamp = c.stamp
                        /\ Torn \notin Rows(Grown(c, g).lines)
      OBVIOUS
    <3>1. c.lines \in Seq(0..MaxRows)
      BY <1>0 DEF TypeOK, Chunk
    <3>2. Rows(c.lines \o g) = Rows(c.lines) \cup Rows(g)
      BY <2>2, <3>1, AppendedLines
    <3>3. /\ Grown(c, g).gz = c.gz /\ Grown(c, g).stamp = c.stamp
          /\ Grown(c, g).lines \in {c.lines, c.lines \o g}
      BY <1>0, <2>2, GrownChunk
    <3> QED BY <1>0, <2>2, <3>2, <3>3 DEF Untorn
  <2>5. Torn \notin Rows(Lines(live')) /\ Len(Lines(live')) <= MaxBytes
    <3>1. CASE writer = Live
      <4>1. live' \in Seq(0..MaxRows) /\ Len(live') = Len(live) + 1
            /\ Rows(live') = Rows(live) \cup Rows(g) /\ Lines(live) = live
        <5>1. live' = live \o g /\ live \in Seq(0..MaxRows) /\ g \in Seq(0..MaxRows) /\ Len(g) = 1
          BY <2>2, <2>3, <3>1
        <5>2. Lines(live) = live
          BY <5>1, MissingIsNoFile DEF Lines
        <5>3. Rows(live') = Rows(live) \cup Rows(g)
          BY <5>1, AppendedLines
        <5>4. live \o g \in Seq(0..MaxRows) /\ Len(live \o g) = Len(live) + Len(g)
          BY <5>1, ConcatProperties
        <5> QED BY <5>1, <5>2, <5>3, <5>4
      <4>2. Lines(live') = live'
        BY <4>1, MissingIsNoFile DEF Lines
      <4>3. Len(live) < MaxBytes /\ Len(live) \in Nat
        BY <1>0, <1>l, <2>1, <3>1, <4>1 DEF Fitting
      <4>4. Len(live') <= MaxBytes
        BY <1>l, <4>1, <4>3
      <4> QED BY <1>0, <2>2, <4>1, <4>2, <4>4 DEF Untorn
    <3>2. CASE writer # Live
      BY <1>0, <2>3, <3>2 DEF Untorn, Fitting
    <3> QED BY <3>1, <3>2
  <2>6. Untorn'
    BY <2>1, <2>3, <2>4, <2>5 DEF Untorn
  <2>7. writer' \notin {Live, NoWriter} => writer' = stamp' /\ \E c \in sealed' : c.stamp = stamp'
    <3> SUFFICES ASSUME writer \notin {Live, NoWriter}
                 PROVE  writer = stamp /\ \E c \in sealed' : c.stamp = stamp
      BY <2>1
    <3>1. PICK c \in sealed : writer = stamp /\ c.stamp = stamp
      BY <1>0 DEF Fitting
    <3>2. Grown(c, g) \in sealed' /\ Grown(c, g).stamp = stamp
      BY <2>3, <2>4, <3>1
    <3> QED BY <3>1, <3>2
  <2> QED BY <2>1, <2>5, <2>6, <2>7 DEF Fitting
<1>2. CASE WriteRefused \/ WriteTorn \/ RenameFails
  BY <1>0, <1>2 DEF WriteRefused, WriteTorn, RenameFails
<1>3. CASE CheckLength
  <2>1. /\ UNCHANGED <<live, sealed, writer, buf, half, stamp>> /\ pc' \in {"idle", "rename"}
        /\ pc' = "idle" => Len(Lines(live)) < MaxBytes
    BY <1>3 DEF CheckLength, Ok, fileVars, bufVars
  <2>2. writer = Live => Lines(live) = live
    BY <1>0, AFile DEF WriterInv, TypeOK
  <2> QED BY <1>0, <2>1, <2>2 DEF Untorn, Fitting
<1>4. CASE Rename
  <2> DEFINE new == [stamp |-> stamp', gz |-> FALSE, lines |-> live]
  <2>1. /\ sealed' = sealed \cup {new} /\ live' = Missing /\ pc' = "prune"
        /\ UNCHANGED <<buf, half>> /\ writer' = IF writer = Live THEN stamp' ELSE writer
        /\ live # Missing /\ Lines(live) = live /\ writer \in {Live, NoWriter}
    BY <1>0, <1>4, AFile DEF Rename, StartPrune, bufVars, WriterInv, Whole, TypeOK
  <2>2. new.stamp = stamp' /\ new.gz = FALSE /\ new.lines = live
    OBVIOUS
  <2> HIDE DEF new
  <2>3. Untorn'
    BY <1>0, <1>z, <2>1, <2>2 DEF Untorn
  <2>4. new \in sealed' /\ Len(new.lines) <= MaxBytes
    BY <1>0, <2>1, <2>2 DEF Fitting
  <2> QED BY <1>z, <2>1, <2>2, <2>3, <2>4 DEF Fitting
<1>5. CASE GzipCreate \/ GzipFinish \/ GzipUnlink \/ GzipFails
  BY <1>0, <1>5 DEF GzipCreate, GzipFinish, GzipUnlink, GzipFails, Fitting
<1>6. CASE Prune
  <2>1. /\ UNCHANGED <<live, writer, buf, half, pc, stamp>> /\ sealed' \subseteq sealed /\ pc = "prune"
    BY <1>6 DEF Prune, bufVars
  <2>2. PICK c \in sealed : c.stamp = stamp /\ Len(c.lines) <= MaxBytes
    BY <1>0, <2>1 DEF Fitting
  <2>3. c \in sealed'
    BY <1>0, <1>6, <2>2, NewestStays
  <2>4. Untorn'
    BY <1>0, <2>1 DEF Untorn
  <2> QED BY <1>0, <2>1, <2>2, <2>3, <2>4 DEF Fitting
<1>7. CASE PruneEnds
  <2>1. UNCHANGED <<live, writer, buf, half, sealed, stamp>> /\ pc' = "open" /\ live = Missing
    BY <1>0, <1>7 DEF PruneEnds, fileVars, bufVars, WriterInv
  <2> QED BY <1>0, <1>z, <2>1 DEF Untorn, Fitting
<1>8. CASE PruneFails \/ OpenFails
  <2>1. UNCHANGED <<live, writer, buf, half, sealed, stamp>> /\ pc' \in {"idle", "down"} /\ writer # Live
    BY <1>0, <1>8 DEF PruneFails, OpenFails, Err, fileVars, bufVars, WriterInv
  <2> QED BY <1>0, <2>1 DEF Untorn, Fitting
<1>9. CASE OpenAppend
  <2>1. UNCHANGED <<sealed, buf, half, stamp>> /\ pc' = "idle" /\ pc = "open" /\ writer' = Live
        /\ live' = Lines(live)
    BY <1>9 DEF OpenAppend, Ok, bufVars
  <2>2. Lines(live') = live'
    BY <1>0, <2>1, AFile DEF TypeOK
  <2>3. Len(live') < MaxBytes
    BY <1>0, <2>1 DEF Fitting
  <2> QED BY <1>0, <2>1, <2>2, <2>3 DEF Untorn, Fitting
<1>10. CASE Crash \/ Start
  <2>1. UNCHANGED <<live, sealed, stamp>>
    BY <1>0, <1>10 DEF Crash, Start, Untorn, fileVars
  <2>2. /\ pc' \in {"down", "open", "rename"} /\ writer' = NoWriter
        /\ pc' = "open" => Len(Lines(live)) < MaxBytes
        /\ buf' = <<>> /\ half' = FALSE
    BY <1>0, <1>10 DEF Crash, Start, Untorn, fileVars, bufVars, WriterInv
  <2> QED BY <1>0, <2>1, <2>2 DEF Untorn, Fitting
<1>11. CASE Rest \/ UNCHANGED vars
  BY <1>0, <1>11 DEF Rest, vars, fileVars, bufVars, Untorn, Fitting
<1> QED
  BY <1>1, <1>2, <1>3, <1>4, <1>5, <1>6, <1>7, <1>8, <1>9, <1>10, <1>11 DEF Next

\* The writer has a file, so what it writes can be found.
LEMMA KeptFile ==
    ASSUME Inv, FinishInv, WholeInv, WriterKeepsFile, pc = "idle"
    PROVE  \/ writer = Live
           \/ Whole /\ Untorn /\ \E c \in sealed : c.stamp = writer /\ ~c.gz
<1>1. CASE Finishes
  BY <1>1 DEF FinishInv
<1>2. CASE ~Finishes
  <2>1. Whole
    BY <1>2 DEF WriterKeepsFile, Finishes, Whole
  <2>2. writer # NoWriter
    BY DEF Inv, WriterInv
  <2> QED BY <2>1, <2>2 DEF WholeInv, Fitting, Untorn
<1> QED BY <1>1, <1>2

-----------------------------------------------------------------------------
(* No acknowledged line is lost *)

\* Between the append and the return of write_line its line is written and not
\* yet acknowledged.
InFlight == pc \notin {"idle", "down"} /\ writer # NoWriter
Written == acked \cup (IF InFlight THEN {row} ELSE {})

LostLines == Written \ (Found \cup pruned)

\* A torn line at the end of the file, or in the buffer, may still cost the line
\* that comes after it.
TornIn(b) == Cardinality({i \in DOMAIN b : b[i] = Torn})
TornAtEnd(file) == IF EndsTorn(file) THEN 1 ELSE 0
Pending == TornAtEnd(Lines(live)) + TornIn(buf)

LossInv == WriterKeepsFile => Cardinality(LostLines) + Pending <= tears

LossIInv == Inv /\ FinishInv /\ WholeInv /\ LossInv

LEMMA TornCount ==
    ASSUME NEW S, NEW b \in Seq(S)
    PROVE  /\ IsFiniteSet({i \in DOMAIN b : b[i] = Torn}) /\ TornIn(b) \in Nat
           /\ EndsTorn(b) => TornIn(b) >= 1
           /\ TornIn(<<>>) = 0
<1> DEFINE T == {i \in DOMAIN b : b[i] = Torn}
<1>1. Len(b) \in Nat /\ DOMAIN b = 1..Len(b) /\ (b = <<>> <=> Len(b) = 0)
  BY LenProperties, EmptySeq
<1>2. IsFiniteSet(T)
  <2>1. IsFiniteSet(1..Len(b))
    BY <1>1, FS_Interval
  <2> QED BY <1>1, <2>1, FS_Subset
<1>3. Cardinality(T) \in Nat /\ (Cardinality(T) = 0 => T = {})
  BY <1>2, FS_CardinalityType, FS_EmptySet
<1>4. EndsTorn(b) => Cardinality(T) >= 1
  <2>1. EndsTorn(b) => Len(b) \in T
    BY <1>1 DEF EndsTorn
  <2> QED BY <1>3, <2>1
<1>5. TornIn(<<>>) = 0
  <2>1. {i \in DOMAIN <<>> : <<>>[i] = Torn} = {}
    OBVIOUS
  <2> QED BY <2>1, FS_EmptySet DEF TornIn
<1> QED BY <1>2, <1>3, <1>4, <1>5 DEF TornIn

\* A torn line more in the buffer.
LEMMA TornAppended ==
    ASSUME NEW S, NEW b \in Seq(S), Torn \in S
    PROVE  TornIn(Append(b, Torn)) <= TornIn(b) + 1
<1> DEFINE c == Append(b, Torn)
           T == {i \in DOMAIN b : b[i] = Torn}
           U == {i \in DOMAIN c : c[i] = Torn}
           n == Len(b)
<1>1. /\ n \in Nat /\ DOMAIN b = 1..n /\ DOMAIN c = 1..(n + 1)
      /\ \A i \in 1..n : c[i] = b[i]
  BY AppendProperties, LenProperties
<1> HIDE DEF c, n
<1>2. U \subseteq T \cup {n + 1}
  <2> SUFFICES ASSUME NEW i \in 1..(n + 1), c[i] = Torn, i # n + 1 PROVE i \in T
    BY <1>1
  <2>1. i \in 1..n
    BY <1>1
  <2> QED BY <1>1, <2>1
<1>3. IsFiniteSet(T)
  BY TornCount
<1> HIDE DEF T, U
<1>4. IsFiniteSet(T \cup {n + 1}) /\ Cardinality(T) \in Nat
      /\ Cardinality(T \cup {n + 1}) \in {Cardinality(T), Cardinality(T) + 1}
  BY <1>3, FS_AddElement, FS_CardinalityType
<1>5. Cardinality(U) <= Cardinality(T \cup {n + 1}) /\ IsFiniteSet(U)
  BY <1>2, <1>4, FS_Subset
<1>6. Cardinality(U) \in Nat
  BY <1>5, FS_CardinalityType
<1>7. Cardinality(U) <= Cardinality(T) + 1
  BY <1>4, <1>5, <1>6
<1> QED BY <1>7 DEF TornIn, T, U, c

\* Of the torn lines in the buffer the first k lines take the last one with
\* them, if it is the kth.
LEMMA TornFlushed ==
    ASSUME NEW S, NEW b \in Seq(S), NEW x \in S, x # Torn, NEW k \in 0..Len(b),
           Remainder(Append(b, x), k) \in Seq(S)
    PROVE  TornIn(Remainder(Append(b, x), k)) + (IF k > 0 /\ b[k] = Torn THEN 1 ELSE 0)
              <= TornIn(b)
<1> DEFINE n == Len(b)
           c == Append(b, x)
           d == Remainder(c, k)
           T == {i \in DOMAIN b : b[i] = Torn}
           U == {i \in DOMAIN d : d[i] = Torn}
<1>1. /\ n \in Nat /\ k \in Nat /\ k <= n /\ DOMAIN b = 1..n /\ Len(c) = n + 1
      /\ \A i \in 1..n : c[i] = b[i]
      /\ c[n + 1] = x /\ c \in Seq(S)
  BY AppendProperties, LenProperties
<1>2. /\ DOMAIN d = 1..(n + 1 - k) /\ \A i \in 1..(n + 1 - k) : d[i] = c[k + i]
  <2>1. \A i \in (k + 1)..(n + 1) : c[i] \in S
    <3>1. \A i \in 1..(n + 1) : c[i] \in S
      BY <1>1, ElementOfSeq
    <3> QED BY <1>1, <3>1
  <2>2. k + 1 \in Int /\ n + 1 \in Int
    BY <1>1
  <2>3. d = SubSeq(c, k + 1, n + 1)
    BY <1>1 DEF Remainder
  <2> HIDE DEF d, c, n
  <2>4. /\ Len(d) = IF k + 1 <= n + 1 THEN (n + 1) - (k + 1) + 1 ELSE 0
        /\ \A i \in 1..((n + 1) - (k + 1) + 1) : d[i] = c[(k + 1) + i - 1]
        /\ d \in Seq(S)
    BY <2>1, <2>2, <2>3, SubSeqProperties
  <2>5. Len(d) = n + 1 - k /\ (n + 1) - (k + 1) + 1 = n + 1 - k
    BY <1>1, <2>4
  <2>6. DOMAIN d = 1..(n + 1 - k)
    BY <2>4, <2>5, LenProperties
  <2>7. \A i \in 1..(n + 1 - k) : (k + 1) + i - 1 = k + i
    BY <1>1
  <2> QED BY <2>4, <2>5, <2>6, <2>7
<1>3. IsFiniteSet(T)
  BY TornCount
<1> HIDE DEF n, c, d
<1> DEFINE V == T \ {k}
           f == [i \in U |-> k + i]
<1>4. \A i \in U : k + i \in V
  <2> SUFFICES ASSUME NEW i \in 1..(n + 1 - k), d[i] = Torn PROVE k + i \in V
    BY <1>2
  <2>1. c[k + i] = Torn
    BY <1>2
  <2>2. k + i \in 1..(n + 1) /\ k + i # n + 1
    BY <1>1, <2>1
  <2>3. k + i \in 1..n /\ k + i # k
    BY <1>1, <2>2
  <2> QED BY <1>1, <2>1, <2>3
<1>5. \A i, j \in U : k + i = k + j => i = j
  <2>1. U \subseteq Nat
    BY <1>1, <1>2
  <2> QED BY <1>1, <2>1
<1> HIDE DEF T, U
<1>6. f \in Injection(U, V)
  <2>1. f \in [U -> V]
    BY <1>4
  <2>2. \A i, j \in U : f[i] = f[j] => i = j
    BY <1>5
  <2> QED BY <2>1, <2>2 DEF Injection, IsInjective
<1>7. IsFiniteSet(V) /\ Cardinality(T) \in Nat
      /\ Cardinality(V) = IF k \in T THEN Cardinality(T) - 1 ELSE Cardinality(T)
  BY <1>3, FS_RemoveElement, FS_CardinalityType
<1>8. Cardinality(U) <= Cardinality(V) /\ IsFiniteSet(U)
  BY <1>6, <1>7, FS_Injection
<1>9. Cardinality(U) \in Nat
  BY <1>8, FS_CardinalityType
<1>10. k > 0 /\ b[k] = Torn <=> k \in T
  BY <1>1 DEF T
<1>11. Cardinality(U) + (IF k > 0 /\ b[k] = Torn THEN 1 ELSE 0) <= Cardinality(T)
  BY <1>7, <1>8, <1>9, <1>10
<1> QED BY <1>11 DEF TornIn, T, U, d, c

LEMMA LossType ==
    ASSUME Inv
    PROVE  /\ IsFiniteSet(LostLines) /\ Cardinality(LostLines) \in Nat
           /\ TornAtEnd(Lines(live)) \in {0, 1} /\ TornIn(buf) \in Nat
           /\ Pending \in Nat /\ tears \in Nat
<1>1. IsFiniteSet(1..MaxRows)
  BY AlertsFileAssumption, FS_Interval
<1>2. acked \subseteq 1..MaxRows /\ (InFlight => row \in 1..MaxRows)
  <2>1. row \in 0..MaxRows /\ acked \subseteq 1..row /\ MaxRows \in Nat
    BY AlertsFileAssumption DEF Inv, TypeOK
  <2>2. InFlight => row > 0
    BY DEF InFlight, Inv, WriterInv
  <2> QED BY <2>1, <2>2
<1>3. LostLines \subseteq 1..MaxRows
  BY <1>2 DEF LostLines, Written
<1>4. IsFiniteSet(LostLines) /\ Cardinality(LostLines) \in Nat
  BY <1>1, <1>3, FS_Subset, FS_CardinalityType
<1>5. TornAtEnd(Lines(live)) \in {0, 1}
  BY DEF TornAtEnd
<1>6. TornIn(buf) \in Nat /\ tears \in Nat
  BY TornCount DEF Inv, TypeOK
<1>7. \A i \in {0, 1}, j \in Nat : i + j \in Nat
  OBVIOUS
<1>8. Pending \in Nat
  BY <1>5, <1>6, <1>7, Zenon DEF Pending
<1> QED BY <1>4, <1>5, <1>6, <1>8

LEMMA PendingNext == TypeOK' => Pending' \in Nat /\ TornIn(buf') \in Nat
<1> SUFFICES ASSUME TypeOK' PROVE Pending' \in Nat /\ TornIn(buf') \in Nat
  OBVIOUS
<1>1. buf' \in Seq(0..MaxRows)
  BY DEF TypeOK
<1>2. TornIn(buf') \in Nat
  BY <1>1, TornCount
<1>3. Pending' = TornAtEnd(Lines(live')) + TornIn(buf')
  BY DEF Pending
<1>4. TornAtEnd(Lines(live')) \in {0, 1}
  BY DEF TornAtEnd
<1>5. \A i \in {0, 1}, j \in Nat : i + j \in Nat
  OBVIOUS
<1>6. TornAtEnd(Lines(live')) + TornIn(buf') \in Nat
  BY <1>2, <1>4, <1>5, Zenon
<1> QED BY <1>2, <1>3, <1>6

LEMMA FewerLost ==
    ASSUME Inv, NEW X, IsFiniteSet(X),
           Written' \subseteq Written \cup X, Found \subseteq Found' \cup pruned',
           pruned \subseteq pruned'
    PROVE  /\ Cardinality(LostLines') \in Nat /\ Cardinality(LostLines) \in Nat
           /\ Cardinality(X) \in Nat
           /\ Cardinality(LostLines') <= Cardinality(LostLines) + Cardinality(X)
<1>1. LostLines' \in SUBSET (LostLines \cup X)
  BY DEF LostLines
<1>2. /\ IsFiniteSet(LostLines) /\ Cardinality(LostLines) \in Nat /\ Cardinality(X) \in Nat
      /\ IsFiniteSet(LostLines \cap X) /\ Cardinality(LostLines \cap X) \in Nat
  BY LossType, FS_CardinalityType, FS_Intersection
<1>3. /\ IsFiniteSet(LostLines \cup X)
      /\ Cardinality(LostLines \cup X)
            = Cardinality(LostLines) + Cardinality(X) - Cardinality(LostLines \cap X)
  BY <1>2, FS_Union
<1>4. Cardinality(LostLines \cup X) <= Cardinality(LostLines) + Cardinality(X)
  BY <1>2, <1>3
<1>5. IsFiniteSet(LostLines') /\ Cardinality(LostLines') <= Cardinality(LostLines \cup X)
  BY <1>1, <1>3, FS_Subset
<1>6. Cardinality(LostLines') \in Nat /\ Cardinality(LostLines \cup X) \in Nat
  BY <1>3, <1>5, FS_CardinalityType
<1> QED BY <1>2, <1>4, <1>5, <1>6

\* A step that loses nothing and leaves no more torn lines.
LEMMA NothingLost ==
    ASSUME Inv, TypeOK', LossInv, WriterKeepsFile,
           Written' \subseteq Written, Found \subseteq Found' \cup pruned',
           pruned \subseteq pruned', Pending' <= Pending, tears' = tears
    PROVE  Cardinality(LostLines') + Pending' <= tears'
<1>1. IsFiniteSet({}) /\ Cardinality({}) = 0
  BY FS_EmptySet
<1>2. /\ Cardinality(LostLines') <= Cardinality(LostLines)
      /\ Cardinality(LostLines') \in Nat /\ Cardinality(LostLines) \in Nat
  <2>1. /\ Cardinality(LostLines') \in Nat /\ Cardinality(LostLines) \in Nat
        /\ Cardinality(LostLines') <= Cardinality(LostLines) + Cardinality({})
    BY <1>1, FewerLost
  <2> QED BY <1>1, <2>1
<1>3. Pending' \in Nat /\ Pending \in Nat /\ tears \in Nat
  BY LossType, PendingNext
<1>4. Cardinality(LostLines) + Pending <= tears
  BY DEF LossInv
<1> QED BY <1>2, <1>3, <1>4

\* A step that tears a line.
LEMMA LineTorn ==
    ASSUME Inv, TypeOK', LossInv, WriterKeepsFile,
           Written' \subseteq Written, Found \subseteq Found' \cup pruned',
           pruned \subseteq pruned', Pending' <= Pending + 1, tears' = tears + 1
    PROVE  Cardinality(LostLines') + Pending' <= tears'
<1>1. IsFiniteSet({}) /\ Cardinality({}) = 0
  BY FS_EmptySet
<1>2. /\ Cardinality(LostLines') <= Cardinality(LostLines)
      /\ Cardinality(LostLines') \in Nat /\ Cardinality(LostLines) \in Nat
  <2>1. /\ Cardinality(LostLines') \in Nat /\ Cardinality(LostLines) \in Nat
        /\ Cardinality(LostLines') <= Cardinality(LostLines) + Cardinality({})
    BY <1>1, FewerLost
  <2> QED BY <1>1, <2>1
<1>3. Pending' \in Nat /\ Pending \in Nat /\ tears \in Nat
  BY LossType, PendingNext
<1>4. Cardinality(LostLines) + Pending <= tears
  BY DEF LossInv
<1> QED BY <1>2, <1>3, <1>4

\* A step that loses a line to a torn one.
LEMMA LineLost ==
    ASSUME Inv, TypeOK', LossInv, WriterKeepsFile, NEW r,
           Written' \subseteq Written \cup {r}, Found \subseteq Found' \cup pruned',
           pruned \subseteq pruned', Pending >= 1, Pending' = 0, tears' = tears
    PROVE  Cardinality(LostLines') + Pending' <= tears'
<1>1. IsFiniteSet({r}) /\ Cardinality({r}) = 1
  BY FS_Singleton
<1>2. /\ Cardinality(LostLines') <= Cardinality(LostLines) + 1
      /\ Cardinality(LostLines') \in Nat /\ Cardinality(LostLines) \in Nat
  <2>1. /\ Cardinality(LostLines') \in Nat /\ Cardinality(LostLines) \in Nat
        /\ Cardinality(LostLines') <= Cardinality(LostLines) + Cardinality({r})
    BY <1>1, FewerLost
  <2> QED BY <1>1, <2>1
<1>3. Pending \in Nat /\ tears \in Nat
  BY LossType
<1>4. Cardinality(LostLines) + Pending <= tears
  BY DEF LossInv
<1> QED BY <1>2, <1>3, <1>4

\* A rotation moves lines and copies them, and loses none.
LEMMA RotationKeepsFound ==
    ASSUME Inv, \/ Rename \/ GzipCreate \/ GzipFinish \/ GzipUnlink \/ GzipFails
                \/ PruneEnds \/ PruneFails \/ OpenAppend \/ OpenFails \/ RenameFails
    PROVE  Found' = Found
<1>0. /\ TypeOK /\ WriterInv /\ ChunkInv /\ Lines(Missing) = <<>> /\ Readable(<<>>) = {}
      /\ \A c \in sealed : c.gz \in BOOLEAN
  BY EmptyFile DEF Inv, Lines, TypeOK, Chunk
<1>1. CASE Rename
  <2> DEFINE new == [stamp |-> stamp', gz |-> FALSE, lines |-> live]
  <2>1. sealed' = sealed \cup {new} /\ live' = Missing /\ Lines(live) = live
    BY <1>0, <1>1, AFile DEF Rename, WriterInv, TypeOK
  <2>2. new.lines = live
    OBVIOUS
  <2> HIDE DEF new
  <2> QED BY <1>0, <2>1, <2>2 DEF Found
<1>2. CASE GzipCreate
  <2> DEFINE new == [stamp |-> stamp, gz |-> TRUE, lines |-> <<>>]
  <2>1. sealed' = sealed \cup {new} /\ live' = live /\ new.lines = <<>>
    BY <1>2 DEF GzipCreate
  <2> HIDE DEF new
  <2> QED BY <1>0, <2>1 DEF Found
<1>3. CASE GzipFinish
  <2>1. sealed' = {Filled(c) : c \in sealed} /\ live' = live /\ pc = "copy"
    BY <1>3 DEF GzipFinish, Filled
  <2>2. PICK p \in sealed : IsPlain(p)
    BY <1>0, <2>1 DEF ChunkInv
  <2>3. Newest = p /\ ~IsGz(p)
    BY <1>0, <2>2, NewestIsPlain DEF IsPlain, IsGz
  <2>4. \A c \in sealed : /\ IsGz(c) => Readable(c.lines) = {} /\ Filled(c).lines = p.lines
                          /\ ~IsGz(c) => Filled(c).lines = c.lines
    BY <1>0, <2>1, <2>3, FilledChunk DEF ChunkInv
  <2>5. \A c \in sealed : Readable(Filled(c).lines) \subseteq UNION {Readable(d.lines) : d \in sealed}
    BY <2>2, <2>4
  <2>6. \A c \in sealed : Readable(c.lines) \subseteq UNION {Readable(d.lines) : d \in sealed'}
    BY <2>1, <2>4
  <2> QED BY <2>1, <2>5, <2>6 DEF Found
<1>4. CASE GzipUnlink
  <2>1. sealed' = sealed \ {Newest} /\ live' = live /\ pc = "unlink"
    BY <1>4 DEF GzipUnlink
  <2>2. PICK c \in sealed, d \in sealed : IsPlain(c) /\ IsGz(d) /\ d.lines = c.lines
    BY <1>0, <2>1 DEF ChunkInv
  <2>3. Newest = c /\ d # c
    BY <1>0, <2>2, NewestIsPlain DEF IsPlain, IsGz
  <2>4. d \in sealed' /\ sealed = sealed' \cup {c} /\ Readable(c.lines) = Readable(d.lines)
    BY <2>1, <2>2, <2>3
  <2>5. UNION {Readable(e.lines) : e \in sealed'} = UNION {Readable(e.lines) : e \in sealed}
    BY <2>4
  <2> QED BY <2>1, <2>5 DEF Found
<1>5. CASE OpenAppend
  <2>1. sealed' = sealed /\ Lines(live') = Lines(live)
    BY <1>0, <1>5, AFile DEF OpenAppend, TypeOK
  <2> QED BY <2>1 DEF Found
<1>6. CASE GzipFails \/ PruneEnds \/ PruneFails \/ OpenFails \/ RenameFails
  BY <1>6 DEF GzipFails, PruneEnds, PruneFails, OpenFails, RenameFails, fileVars, Found
<1> QED BY <1>1, <1>2, <1>3, <1>4, <1>5, <1>6

\* What is written stays found, and a full line becomes readable unless the
\* file it is appended to ends in a torn one.
LEMMA WritingKeepsFound ==
    ASSUME Inv, NEW g \in Seq(0..MaxRows), WriteLines(g)
    PROVE  Found \subseteq Found'
<1>1. \A f \in Seq(0..MaxRows) : Readable(f) \subseteq Readable(f \o g)
  BY AppendedLines
<1>2. Readable(Lines(live)) \subseteq Readable(Lines(live'))
  <2>1. CASE writer = Live
    <3>1. /\ live' = live \o g /\ live \in Seq(0..MaxRows) /\ live' \in Seq(0..MaxRows)
      BY <2>1, LinesReach, AppendedLines DEF Inv
    <3>2. Lines(live) = live /\ Lines(live') = live'
      BY <3>1, MissingIsNoFile DEF Lines
    <3> QED BY <1>1, <3>1, <3>2
  <2>2. CASE writer # Live
    BY <2>2, LinesReach DEF Inv
  <2> QED BY <2>1, <2>2
<1>3. \A c \in sealed : Readable(c.lines) \subseteq Readable(Grown(c, g).lines)
  <2> SUFFICES ASSUME NEW c \in sealed PROVE Readable(c.lines) \subseteq Readable(Grown(c, g).lines)
    OBVIOUS
  <2>1. c.lines \in Seq(0..MaxRows)
    BY DEF Inv, TypeOK, Chunk
  <2>2. Grown(c, g).lines \in {c.lines, c.lines \o g}
    BY GrownChunk DEF Inv
  <2> QED BY <1>1, <2>1, <2>2
<1>4. sealed' = {Grown(c, g) : c \in sealed}
  BY LinesReach DEF Inv
<1> QED BY <1>2, <1>3, <1>4 DEF Found

LEMMA LineReadable ==
    ASSUME NEW S, NEW f \in Seq(S), NEW b \in Seq(S), NEW x \in S, x # Torn
    PROVE  /\ ~EndsTorn(f \o Append(b, x))
           /\ ~EndsTorn(f \o b) => x \in Readable(f \o Append(b, x))
           /\ EndsTorn(f \o b) => TornAtEnd(f) + TornIn(b) >= 1
<1>1. Append(b, x) = b \o <<x>> /\ <<x>> \in Seq(S)
  BY AppendIsConcat
<1>2. f \o b \in Seq(S)
  BY ConcatProperties
<1>3. f \o Append(b, x) = Append(f \o b, x)
  BY <1>1, <1>2, AppendIsConcat, ConcatAssociative
<1>4. /\ ~EndsTorn(f \o Append(b, x))
      /\ ~EndsTorn(f \o b) => x \in Readable(f \o Append(b, x))
  <2> DEFINE h == f \o b
  <2>1. h \in Seq(S) /\ f \o Append(b, x) = Append(h, x)
    BY <1>2, <1>3
  <2> HIDE DEF h
  <2>2. /\ x # Torn /\ ~EndsTorn(h) => x \in Readable(Append(h, x))
        /\ EndsTorn(Append(h, x)) <=> x = Torn
    BY <2>1, AppendedLine
  <2> QED BY <2>1, <2>2 DEF h
<1>5. ASSUME EndsTorn(f \o b) PROVE TornAtEnd(f) + TornIn(b) >= 1
  <2>1. TornAtEnd(f) \in {0, 1} /\ TornIn(b) \in Nat
    BY TornCount DEF TornAtEnd
  <2>2. CASE b = <<>>
    <3>1. TornAtEnd(f) = 1
      BY <1>5, <2>2, AppendedLines DEF TornAtEnd
    <3> QED BY <2>1, <3>1
  <2>3. CASE b # <<>>
    <3>1. EndsTorn(b)
      BY <1>5, <2>3, AppendedLines DEF EndsTorn
    <3>2. TornIn(b) >= 1
      BY <3>1, TornCount
    <3> QED BY <2>1, <3>2
  <2> QED BY <2>2, <2>3
<1> QED BY <1>4, <1>5

\* write_line appends its line.
LEMMA LossWriteLine ==
    ASSUME LossIInv, TypeOK', WriterKeepsFile, row < MaxRows, pc = "idle", row' = row + 1,
           WriteLines(Append(buf, row + 1)), buf' = <<>>, pc' = "check",
           UNCHANGED <<writer, acked, pruned, tears>>
    PROVE  Cardinality(LostLines') + Pending' <= tears'
<1> DEFINE g == Append(buf, row + 1)
<1>1. /\ g \in Seq(0..MaxRows) /\ row + 1 \in 0..MaxRows /\ row + 1 # Torn
      /\ buf \in Seq(0..MaxRows) /\ Inv /\ LossInv
  <2>1. row + 1 \in 1..MaxRows /\ row + 1 # Torn /\ g \in Seq(0..MaxRows)
    BY LinesToWrite DEF LossIInv, Inv
  <2>2. row + 1 \in 0..MaxRows
    BY <2>1, AlertsFileAssumption
  <2> QED BY <2>1, <2>2 DEF LossIInv, Inv, TypeOK
<1>2. Found \subseteq Found' /\ pruned' = pruned
  BY <1>1, WritingKeepsFound
<1>3. Written' = acked \cup {row + 1} /\ Written = acked
  <2>1. writer' # NoWriter
    BY <1>1 DEF Inv, WriterInv
  <2> QED BY <2>1 DEF Written, InFlight
<1>4. /\ sealed' = {Grown(c, g) : c \in sealed}
      /\ writer = Live => live' = live \o g /\ live \in Seq(0..MaxRows)
      /\ writer # Live => live' = live
  BY <1>1, LinesReach DEF Inv
<1>5. Pending' = TornAtEnd(Lines(live'))
  <2>1. TornIn(buf') = 0
    BY <1>1, TornCount
  <2>2. TornAtEnd(Lines(live')) + 0 = TornAtEnd(Lines(live'))
    BY DEF TornAtEnd
  <2> QED BY <2>1, <2>2 DEF Pending
<1> HIDE DEF g
<1>6. CASE writer = Live
  <2>1. Lines(live) = live /\ Lines(live') = live \o g
    <3>1. live \in Seq(0..MaxRows) /\ live' = live \o g /\ live' \in Seq(0..MaxRows)
      BY <1>1, <1>4, <1>6, ConcatProperties
    <3> QED BY <3>1, MissingIsNoFile DEF Lines
  <2>2. /\ ~EndsTorn(live \o g)
        /\ ~EndsTorn(live \o buf) => row + 1 \in Readable(live \o g)
        /\ EndsTorn(live \o buf) => Pending >= 1
    BY <1>1, <1>4, <1>6, <2>1, LineReadable DEF g, Pending
  <2>3. Pending' = 0
    BY <1>5, <2>1, <2>2 DEF TornAtEnd
  <2>4. CASE EndsTorn(live \o buf)
    BY <1>1, <1>2, <1>3, <2>2, <2>3, <2>4, LineLost
  <2>5. CASE ~EndsTorn(live \o buf)
    <3>1. row + 1 \in Found'
      BY <2>1, <2>2, <2>5 DEF Found
    <3>2. LostLines' \in SUBSET LostLines
      BY <1>2, <1>3, <3>1 DEF LostLines
    <3>3. /\ Cardinality(LostLines') <= Cardinality(LostLines) /\ Cardinality(LostLines') \in Nat
      BY <1>1, <3>2, LossType, FS_Subset, FS_CardinalityType
    <3>4. Cardinality(LostLines) \in Nat /\ Pending \in Nat /\ tears \in Nat
      BY <1>1, LossType
    <3>5. Cardinality(LostLines) + Pending <= tears
      BY <1>1 DEF LossInv
    <3> QED BY <2>3, <3>3, <3>4, <3>5
  <2> QED BY <2>4, <2>5
<1>7. CASE writer # Live
  <2>1. PICK c \in sealed : c.stamp = writer /\ ~c.gz /\ Torn \notin Rows(c.lines) /\ buf = <<>>
    BY <1>1, <1>7, KeptFile DEF LossIInv, Untorn
  <2>2. c.lines \in Seq(0..MaxRows)
    BY <1>1 DEF Inv, TypeOK, Chunk
  <2>3. Grown(c, g).lines = c.lines \o g /\ Grown(c, g) \in sealed'
    BY <1>1, <1>4, <2>1, GrownChunk DEF Inv
  <2>4. ~EndsTorn(c.lines) /\ c.lines \o buf = c.lines
    BY <1>1, <2>1, <2>2, WholeFile, AppendedLines
  <2>5. row + 1 \in Readable(c.lines \o g)
    BY <1>1, <2>2, <2>4, LineReadable DEF g
  <2>6. row + 1 \in Found'
    BY <2>3, <2>5 DEF Found
  <2>7. LostLines' \in SUBSET LostLines
    BY <1>2, <1>3, <2>6 DEF LostLines
  <2>8. /\ Cardinality(LostLines') <= Cardinality(LostLines) /\ Cardinality(LostLines') \in Nat
    BY <1>1, <2>7, LossType, FS_Subset, FS_CardinalityType
  <2>9. Cardinality(LostLines) \in Nat /\ Pending \in Nat /\ tears \in Nat
    BY <1>1, LossType
  <2>10. Pending' <= Pending
    <3>1. Pending' = TornAtEnd(Lines(live)) /\ Pending = TornAtEnd(Lines(live)) + TornIn(buf)
      BY <1>4, <1>5, <1>7 DEF Pending
    <3>2. TornAtEnd(Lines(live)) \in {0, 1} /\ TornIn(buf) \in Nat
      BY <1>1, LossType
    <3>3. \A i \in {0, 1}, j \in Nat : i <= i + j
      OBVIOUS
    <3> QED BY <3>1, <3>2, <3>3, Zenon
  <2>11. Pending' \in Nat
    BY PendingNext
  <2>12. Cardinality(LostLines) + Pending <= tears
    BY <1>1 DEF LossInv
  <2> QED BY <2>8, <2>9, <2>10, <2>11, <2>12
<1> QED BY <1>6, <1>7

\* A flush fails with k of the lines that were in the buffer in the file.
LEMMA LossFlush ==
    ASSUME LossIInv, TypeOK', WriterKeepsFile, row < MaxRows, pc = "idle", Fails("flush"),
           NEW k \in 0..Len(buf), WriteLines(SubSeq(Append(buf, row + 1), 1, k)),
           buf' = Remainder(Append(buf, row + 1), k), pc' \in {"idle", "down"},
           UNCHANGED <<writer, acked, pruned, tears>>
    PROVE  Cardinality(LostLines') + Pending' <= tears'
<1> DEFINE c == Append(buf, row + 1)
           g == SubSeq(c, 1, k)
<1>1. /\ g \in Seq(0..MaxRows) /\ buf' \in Seq(0..MaxRows) /\ buf \in Seq(0..MaxRows)
      /\ row + 1 \in 0..MaxRows /\ row + 1 # Torn /\ Inv /\ LossInv
  <2>1. row + 1 \in 1..MaxRows /\ row + 1 # Torn /\ g \in Seq(0..MaxRows)
    BY LinesToWrite DEF LossIInv, Inv
  <2>2. row + 1 \in 0..MaxRows
    BY <2>1, AlertsFileAssumption
  <2> QED BY <2>1, <2>2 DEF LossIInv, Inv, TypeOK
<1>2. Found \subseteq Found' /\ Written' = Written
  BY <1>1, WritingKeepsFound DEF Written, InFlight
<1>3. writer = Live
  <2>1. ~Whole
    BY DEF Whole
  <2> QED BY <2>1, KeptFile DEF LossIInv
<1>4. live' = live \o g /\ live \in Seq(0..MaxRows) /\ Lines(live) = live /\ Lines(live') = live'
  <2>1. live' = live \o g /\ live \in Seq(0..MaxRows) /\ live' \in Seq(0..MaxRows)
    BY <1>1, <1>3, LinesReach, ConcatProperties DEF Inv
  <2> QED BY <2>1, MissingIsNoFile DEF Lines
<1>5. /\ Len(g) = k /\ k \in Nat /\ Len(buf) \in Nat
      /\ k > 0 => g[k] = buf[k]
  <2>1. Len(buf) \in Nat /\ k \in Nat /\ k <= Len(buf)
    BY <1>1, LenProperties
  <2>2. /\ c \in Seq(0..MaxRows) /\ Len(c) = Len(buf) + 1
        /\ \A i \in 1..Len(buf) : c[i] = buf[i]
    BY <1>1, AppendProperties
  <2>3. \A i \in 1..k : c[i] \in 0..MaxRows
    <3>1. \A i \in 1..Len(c) : c[i] \in 0..MaxRows
      BY <2>2, ElementOfSeq
    <3> QED BY <2>1, <2>2, <3>1
  <2> HIDE DEF c
  <2>4. /\ Len(g) = IF 1 <= k THEN k - 1 + 1 ELSE 0
        /\ \A i \in 1..(k - 1 + 1) : g[i] = c[1 + i - 1]
    BY <2>1, <2>3, SubSeqProperties
  <2>5. Len(g) = k
    BY <2>1, <2>4
  <2>6. k > 0 => g[k] = c[1 + k - 1] /\ 1 + k - 1 = k
    BY <2>1, <2>4
  <2> QED BY <2>1, <2>2, <2>5, <2>6
<1> HIDE DEF g
<1>6. TornAtEnd(live') <= TornAtEnd(live) + (IF k > 0 /\ buf[k] = Torn THEN 1 ELSE 0)
  <2>1. CASE k = 0
    <3>1. g = <<>>
      BY <1>1, <1>5, <2>1, EmptySeq
    <3>2. live' = live
      BY <1>1, <1>4, <3>1, AppendedLines
    <3> QED BY <2>1, <3>2 DEF TornAtEnd
  <2>2. CASE k > 0
    <3>1. g # <<>>
      BY <1>1, <1>5, <2>2, EmptySeq
    <3>2. EndsTorn(live') <=> buf[k] = Torn
      BY <1>1, <1>4, <1>5, <2>2, <3>1, AppendedLines
    <3> QED BY <2>2, <3>2 DEF TornAtEnd
  <2> QED BY <1>5, <2>1, <2>2
<1>7. TornIn(buf') + (IF k > 0 /\ buf[k] = Torn THEN 1 ELSE 0) <= TornIn(buf)
  BY <1>1, TornFlushed
<1>8. Pending' <= Pending
  <2>1. PICK x \in {0, 1} : x = IF k > 0 /\ buf[k] = Torn THEN 1 ELSE 0
    OBVIOUS
  <2>2. /\ TornAtEnd(live') \in {0, 1} /\ TornAtEnd(live) \in {0, 1}
        /\ TornIn(buf) \in Nat /\ TornIn(buf') \in Nat
    BY <1>1, TornCount DEF TornAtEnd
  <2>3. Pending' = TornAtEnd(live') + TornIn(buf') /\ Pending = TornAtEnd(live) + TornIn(buf)
    BY <1>4 DEF Pending
  <2>4. \A s, t, y \in {0, 1}, m, n \in Nat : s <= t + y /\ m + y <= n => s + m <= t + n
    OBVIOUS
  <2>5. TornAtEnd(live') <= TornAtEnd(live) + x /\ TornIn(buf') + x <= TornIn(buf)
    BY <1>6, <1>7, <2>1
  <2> QED BY <2>2, <2>3, <2>4, <2>5, Zenon
<1> QED BY <1>1, <1>2, <1>8, NothingLost

\* A write stops part-way: the buffer is in the file, and perhaps a torn line.
LEMMA LossTorn ==
    ASSUME LossIInv, TypeOK', WriterKeepsFile, WriteTorn
    PROVE  Cardinality(LostLines') + Pending' <= tears'
<1>1. /\ Inv /\ LossInv /\ TypeOK /\ WriterInv
      /\ Torn \in 0..MaxRows /\ buf \in Seq(0..MaxRows) /\ buf' = <<>>
      /\ pc = "idle" /\ pc' = "idle" /\ Fails("flush")
      /\ UNCHANGED <<writer, acked, pruned>>
  BY TornWritten DEF LossIInv, Inv
<1>2. PICK g \in Seq(0..MaxRows) : /\ WriteLines(g)
                                  /\ \/ g = buf /\ tears' = tears
                                     \/ g = Append(buf, Torn) /\ tears' = tears + 1
  BY <1>1, TornWritten
<1>3. Found \subseteq Found' /\ Written' = Written
  BY <1>1, <1>2, WritingKeepsFound DEF Written, InFlight
<1>4. writer = Live
  <2>1. ~Whole
    BY <1>1 DEF Whole
  <2> QED BY <1>1, <2>1, KeptFile DEF LossIInv
<1>5. live' = live \o g /\ live \in Seq(0..MaxRows) /\ Lines(live) = live /\ Lines(live') = live'
  <2>1. live' = live \o g /\ live \in Seq(0..MaxRows) /\ live' \in Seq(0..MaxRows)
    BY <1>1, <1>2, <1>4, LinesReach, ConcatProperties
  <2> QED BY <2>1, MissingIsNoFile DEF Lines
<1>6. /\ Pending' = TornAtEnd(live') /\ TornAtEnd(live') \in {0, 1}
      /\ Pending = TornAtEnd(live) + TornIn(buf) /\ Pending \in Nat
      /\ TornAtEnd(live) \in {0, 1} /\ TornIn(buf) \in Nat
  <2>1. TornIn(buf') = 0
    BY <1>1, TornCount
  <2>2. TornAtEnd(live') + 0 = TornAtEnd(live')
    BY DEF TornAtEnd
  <2> QED BY <1>1, <1>5, <2>1, <2>2, LossType DEF Pending, TornAtEnd
<1>7. CASE g = buf /\ tears' = tears
  <2>1. CASE EndsTorn(live \o buf)
    <3>1. TornAtEnd(live) + TornIn(buf) >= 1
      <4>1. 1 \in Nat \cup (0..MaxRows) /\ 1 # Torn
        BY DEF Torn
      <4>2. live \in Seq(Nat \cup (0..MaxRows)) /\ buf \in Seq(Nat \cup (0..MaxRows))
        BY <1>1, <1>5, SeqMonotonic
      <4> QED BY <2>1, <4>1, <4>2, LineReadable
    <3>2. Pending' <= Pending
      BY <1>6, <3>1
    <3> QED BY <1>1, <1>3, <1>7, <3>2, NothingLost
  <2>2. CASE ~EndsTorn(live \o buf)
    <3>1. Pending' = 0
      BY <1>5, <1>6, <1>7, <2>2 DEF TornAtEnd
    <3>2. Pending' <= Pending
      BY <1>6, <3>1
    <3> QED BY <1>1, <1>3, <1>7, <3>2, NothingLost
  <2> QED BY <2>1, <2>2
<1>8. CASE g = Append(buf, Torn) /\ tears' = tears + 1
  <2>1. Pending' <= Pending + 1
    BY <1>6
  <2> QED BY <1>1, <1>3, <1>8, <2>1, LineTorn
<1> QED BY <1>2, <1>7, <1>8

LEMMA LossCrash ==
    ASSUME LossIInv, TypeOK', WriterKeepsFile, Crash
    PROVE  Cardinality(LostLines') + Pending' <= tears'
<1>1. /\ Inv /\ LossInv /\ buf \in Seq(0..MaxRows)
      /\ Written' \subseteq Written /\ pruned' = pruned
  BY DEF LossIInv, Inv, TypeOK, Crash, Written, InFlight
<1>2. Pending' = TornAtEnd(Lines(live'))
  <2>1. TornIn(buf') = 0
    BY <1>1, TornCount DEF Crash
  <2>2. TornAtEnd(Lines(live')) + 0 = TornAtEnd(Lines(live'))
    BY DEF TornAtEnd
  <2> QED BY <2>1, <2>2 DEF Pending
<1>3. TornAtEnd(Lines(live')) \in {0, 1} /\ TornAtEnd(Lines(live)) \in {0, 1} /\ Pending \in Nat
  BY <1>1, LossType DEF TornAtEnd
<1>4. CASE half
  <2>1. Torn \in 0..MaxRows
    BY AlertsFileAssumption DEF Torn
  <2>2. <<Torn>> \in Seq(0..MaxRows) /\ WriteLines(<<Torn>>) /\ tears' = tears + 1
    BY <1>4, <2>1 DEF Crash
  <2>3. Found \subseteq Found'
    BY <1>1, <2>2, WritingKeepsFound
  <2>4. Pending' <= Pending + 1
    BY <1>2, <1>3
  <2> QED BY <1>1, <2>2, <2>3, <2>4, LineTorn
<1>5. CASE ~half
  <2>1. UNCHANGED <<live, sealed, tears>>
    BY <1>5 DEF Crash
  <2>2. Found' = Found
    BY <2>1 DEF Found
  <2>3. Pending = TornAtEnd(Lines(live')) + TornIn(buf) /\ TornIn(buf) \in Nat
    BY <1>1, <2>1, LossType DEF Pending
  <2>4. \A i \in {0, 1}, j \in Nat : i <= i + j
    OBVIOUS
  <2>5. Pending' <= Pending
    BY <1>2, <1>3, <2>3, <2>4, Zenon
  <2> QED BY <1>1, <2>1, <2>2, <2>5, NothingLost
<1> QED BY <1>4, <1>5

LEMMA LossStep == LossIInv /\ TypeOK' /\ [Next]_vars => LossInv'
<1> SUFFICES ASSUME LossIInv, TypeOK', [Next]_vars, WriterKeepsFile'
             PROVE  Cardinality(LostLines') + Pending' <= tears'
  BY DEF LossInv
<1>0. /\ Inv /\ LossInv /\ WriterKeepsFile /\ WriterInv /\ TypeOK
      /\ Pending \in Nat
  BY DiskIsFixed, LossType DEF WriterKeepsFile, Fails, LossIInv, Inv
<1>a. ASSUME Found' = Found, Written' \subseteq Written, UNCHANGED <<live, buf, pruned, tears>>
      PROVE  Cardinality(LostLines') + Pending' <= tears'
  <2>1. Pending' = Pending
    BY <1>a DEF Pending
  <2>2. Pending' <= Pending
    BY <1>0, <2>1
  <2> QED BY <1>0, <1>a, <2>2, NothingLost
<1>1. CASE WriteLine
  <2>1. /\ row < MaxRows /\ pc = "idle" /\ row' = row + 1
        /\ UNCHANGED <<writer, acked, pruned, tears>>
    BY <1>1 DEF WriteLine, history
  <2>2. CASE WriteLines(Append(buf, row + 1)) /\ buf' = <<>> /\ pc' = "check"
    BY <1>0, <2>1, <2>2, LossWriteLine
  <2>3. ASSUME NEW k \in 0..Len(buf), Fails("flush"), WriteLines(SubSeq(Append(buf, row + 1), 1, k)),
               buf' = Remainder(Append(buf, row + 1), k), Err
        PROVE  Cardinality(LostLines') + Pending' <= tears'
    <3>1. pc' \in {"idle", "down"}
      BY <2>3 DEF Err
    <3> QED BY <1>0, <2>1, <2>3, <3>1, LossFlush
  <2> QED BY <1>1, <2>2, <2>3 DEF WriteLine
<1>2. CASE WriteRefused
  <2>1. /\ UNCHANGED <<live, sealed, acked, pruned>> /\ pc = "idle" /\ pc' \in {"idle", "down"}
        /\ \/ UNCHANGED <<buf, tears>>
           \/ buf' = Append(buf, Torn) /\ tears' = tears + 1
    BY <1>2 DEF WriteRefused, Err, fileVars
  <2>2. Found' = Found /\ Written' = Written
    BY <2>1 DEF Found, Written, InFlight
  <2>3. CASE UNCHANGED <<buf, tears>>
    BY <1>a, <2>1, <2>2, <2>3
  <2>4. CASE buf' = Append(buf, Torn) /\ tears' = tears + 1
    <3>1. buf \in Seq(0..MaxRows) /\ buf' \in Seq(0..MaxRows) /\ Torn \in 0..MaxRows
      BY <1>0, AlertsFileAssumption DEF TypeOK, Torn
    <3>2. TornIn(buf') <= TornIn(buf) + 1 /\ TornIn(buf) \in Nat /\ TornIn(buf') \in Nat
      BY <2>4, <3>1, TornAppended, TornCount
    <3>3. TornAtEnd(Lines(live)) \in {0, 1}
      BY DEF TornAtEnd
    <3>4. Pending' = TornAtEnd(Lines(live)) + TornIn(buf')
      BY <2>1 DEF Pending
    <3>5. \A t \in {0, 1}, m, n \in Nat : m <= n + 1 => t + m <= t + n + 1
      OBVIOUS
    <3>6. Pending' <= Pending + 1
      BY <3>2, <3>3, <3>4, <3>5, Zenon DEF Pending
    <3> QED BY <1>0, <2>1, <2>2, <2>4, <3>6, LineTorn
  <2> QED BY <2>1, <2>3, <2>4
<1>t. CASE WriteTorn
  BY <1>0, <1>t, LossTorn
<1>3. CASE CheckLength
  <2>1. UNCHANGED <<live, sealed, writer, row, buf, pruned, tears>> /\ pc = "check"
    BY <1>3 DEF CheckLength, fileVars, bufVars
  <2>2. \/ pc' = "idle" /\ acked' = acked \cup {row}
        \/ pc' = "rename" /\ acked' = acked
    BY <1>3 DEF CheckLength, Ok
  <2>3. Found' = Found /\ Written' \subseteq Written
    BY <1>0, <2>1, <2>2 DEF Found, Written, InFlight, WriterInv
  <2> QED BY <1>a, <2>1, <2>3
<1>4. CASE Rename
  <2>1. /\ UNCHANGED <<row, buf, acked, pruned, tears>> /\ live' = Missing
        /\ pc = "rename" /\ writer' = IF writer = Live THEN stamp' ELSE writer
    BY <1>4 DEF Rename, bufVars, history
  <2>2. Found' = Found /\ Written' \subseteq Written
    BY <1>0, <1>4, <2>1, RotationKeepsFound DEF Written, InFlight, Live, NoWriter
  <2>3. Pending' = TornIn(buf)
    <3>1. TornAtEnd(Lines(live')) = 0
      BY <2>1, EmptyFile DEF Lines, TornAtEnd
    <3>2. TornIn(buf) \in Nat /\ Pending' = TornAtEnd(Lines(live')) + TornIn(buf)
      BY <1>0, <2>1, LossType DEF Pending
    <3> QED BY <3>1, <3>2
  <2>4. Pending' <= Pending
    <3>1. TornAtEnd(Lines(live)) \in {0, 1} /\ TornIn(buf) \in Nat
      BY <1>0, LossType
    <3>2. \A i \in {0, 1}, j \in Nat : j <= i + j
      OBVIOUS
    <3> QED BY <2>3, <3>1, <3>2, Zenon DEF Pending
  <2> QED BY <1>0, <2>1, <2>2, <2>4, NothingLost
<1>5. CASE GzipCreate \/ GzipFinish \/ GzipUnlink \/ GzipFails \/ PruneEnds
  <2>1. /\ UNCHANGED <<live, writer, row, buf, acked, pruned, tears>> /\ pc \notin {"idle", "down"}
    BY <1>5 DEF GzipCreate, GzipFinish, GzipUnlink, GzipFails, PruneEnds, fileVars, bufVars, history
  <2>2. Found' = Found /\ Written' \subseteq Written
    BY <1>0, <1>5, <2>1, RotationKeepsFound DEF Written, InFlight
  <2> QED BY <1>a, <2>1, <2>2
<1>6. CASE RenameFails \/ PruneFails \/ OpenFails
  <2>1. UNCHANGED <<live, sealed, writer, row, buf, acked, pruned, tears>> /\ pc' \in {"idle", "down"}
    BY <1>6 DEF RenameFails, PruneFails, OpenFails, Err, fileVars, bufVars, history
  <2>2. Found' = Found /\ Written' \subseteq Written
    BY <2>1 DEF Found, Written, InFlight
  <2> QED BY <1>a, <2>1, <2>2
<1>7. CASE Prune
  <2>1. /\ UNCHANGED <<live, writer, buf, pc, row, acked, tears>>
        /\ pruned' = pruned \cup UNION {Readable(c.lines) : c \in sealed \ sealed'}
    BY <1>7 DEF Prune, bufVars
  <2>2. Found \subseteq Found' \cup pruned' /\ Written' = Written /\ Pending' = Pending
    BY <2>1 DEF Found, Written, InFlight, Pending
  <2>3. Pending' <= Pending
    BY <1>0, <2>2
  <2> QED BY <1>0, <2>1, <2>2, <2>3, NothingLost
<1>8. CASE OpenAppend
  <2>1. UNCHANGED <<row, buf, pruned, tears>> /\ pc = "open" /\ Lines(live') = Lines(live)
    BY <1>0, <1>8, AFile DEF OpenAppend, bufVars, TypeOK
  <2>2. \/ writer = NoWriter /\ pc' = "idle" /\ acked' = acked
        \/ writer # NoWriter /\ pc' = "idle" /\ acked' = acked \cup {row}
    BY <1>8 DEF OpenAppend, Ok
  <2>3. Found' = Found /\ Written' \subseteq Written
    BY <1>0, <1>8, <2>1, <2>2, RotationKeepsFound DEF Written, InFlight
  <2>4. Pending' = Pending
    BY <2>1 DEF Pending
  <2>5. Pending' <= Pending
    BY <1>0, <2>4
  <2> QED BY <1>0, <2>1, <2>3, <2>5, NothingLost
<1>9. CASE Crash
  BY <1>0, <1>9, LossCrash
<1>10. CASE Start
  <2>1. UNCHANGED <<live, sealed, writer, row, buf, acked, pruned, tears>> /\ writer = NoWriter
    BY <1>0, <1>10 DEF Start, fileVars, bufVars, history, WriterInv
  <2>2. Found' = Found /\ Written' \subseteq Written
    BY <2>1 DEF Found, Written, InFlight
  <2> QED BY <1>a, <2>1, <2>2
<1>11. CASE Rest \/ UNCHANGED vars
  <2>1. UNCHANGED <<live, sealed, writer, pc, row, buf, acked, pruned, tears>>
    BY <1>11 DEF Rest, vars, fileVars, bufVars, history
  <2>2. Found' = Found /\ Written' \subseteq Written
    BY <2>1 DEF Found, Written, InFlight
  <2> QED BY <1>a, <2>1, <2>2
<1> QED
  BY <1>1, <1>2, <1>t, <1>3, <1>4, <1>5, <1>6, <1>7, <1>8, <1>9, <1>10, <1>11 DEF Next

LEMMA LossInit == Init => LossIInv
<1> SUFFICES ASSUME Init PROVE LossIInv
  OBVIOUS
<1>1. Inv /\ <<>> \in Seq(0..MaxRows) /\ Lines(<<>>) = <<>>
  BY InvInit, MissingIsNoFile DEF Lines
<1>2. FinishInv
  BY DEF Init, FinishInv
<1>3. WholeInv
  <2>1. Len(Lines(live)) = 0 /\ 0 <= MaxBytes /\ 0 < MaxBytes /\ Len(live) = 0
    BY <1>1, AlertsFileAssumption DEF Init
  <2>2. Torn \notin Rows(Lines(live))
    BY <1>1, EmptyFile DEF Init
  <2> QED BY <2>1, <2>2 DEF Init, WholeInv, Untorn, Fitting
<1>4. LossInv
  <2>1. LostLines = {}
    BY DEF Init, LostLines, Written, InFlight
  <2>2. Cardinality(LostLines) = 0
    BY <2>1, FS_EmptySet
  <2>3. TornAtEnd(Lines(live)) = 0 /\ TornIn(buf) = 0
    BY <1>1, EmptyFile, TornCount DEF Init, TornAtEnd
  <2> QED BY <2>2, <2>3 DEF Init, LossInv, Pending
<1> QED BY <1>1, <1>2, <1>3, <1>4 DEF LossIInv

LEMMA LossInvariant == Spec => []LossIInv
<1>1. LossIInv /\ [Next]_vars => LossIInv'
  BY TypeStep, WriterStep, ChunkStep, FinishStep, WholeStep, LossStep DEF LossIInv, Inv
<1> QED BY <1>1, LossInit, PTL DEF Spec

\* No line write_line acknowledged is lost, beyond one for every line that was
\* torn and the files the budget has taken: write_line, rotate_if_needed and the
\* restart of open_append keep every one where a reader finds it.
THEOREM AckedLinesAreFound == Spec => []AckedLinesFound
<1>1. LossIInv => AckedLinesFound
  <2> SUFFICES ASSUME LossIInv, WriterKeepsFile
               PROVE  Cardinality(acked \ (Found \cup pruned)) <= tears
    BY DEF AckedLinesFound
  <2> DEFINE A == acked \ (Found \cup pruned)
  <2>1. Inv /\ Cardinality(LostLines) + Pending <= tears
    BY DEF LossIInv, LossInv
  <2>2. A \in SUBSET LostLines
    BY DEF LostLines, Written
  <2> HIDE DEF A
  <2>3. IsFiniteSet(LostLines) /\ Cardinality(LostLines) \in Nat /\ Pending \in Nat /\ tears \in Nat
    BY <2>1, LossType
  <2>4. Cardinality(A) <= Cardinality(LostLines) /\ Cardinality(A) \in Nat
    BY <2>2, <2>3, FS_Subset, FS_CardinalityType
  <2>5. Cardinality(A) <= tears
    BY <2>1, <2>3, <2>4
  <2> QED BY <2>5 DEF A
<1> QED BY <1>1, LossInvariant, PTL

-----------------------------------------------------------------------------
(* The alerts file is an append-only log *)

Old(S, T) == \A r \in S, s \in T : r < s

AllRows(S) == UNION {Rows(c.lines) : c \in S}

\* Chunks S and a live file of rows L hold whole lines in the order of the
\* calls; two files of one timestamp are the chunk and its .gz.
InOrder(S, L) ==
    /\ Torn \notin L /\ Torn \notin AllRows(S)
    /\ Old(AllRows(S), L)
    /\ \A c, d \in S : c.stamp < d.stamp => Old(Rows(c.lines), Rows(d.lines))
    /\ \A c, d \in S : c.stamp = d.stamp =>
          Rows(c.lines) = Rows(d.lines) \/ Rows(c.lines) = {} \/ Rows(d.lines) = {}

LiveRows == Rows(Lines(live))
OnDisk == LiveRows \cup AllRows(sealed)

Orderly ==
    /\ buf = <<>> /\ ~half
    /\ InOrder(sealed, LiveRows)
    /\ \A r \in OnDisk : r <= row

OrderInv == Sound => Orderly

OrderIInv == Inv /\ FinishInv /\ OrderInv

LEMMA FewerInOrder ==
    ASSUME NEW S, NEW L, NEW T \in SUBSET S, InOrder(S, L)
    PROVE  InOrder(T, L) /\ AllRows(T) \subseteq AllRows(S)
<1>1. AllRows(T) \subseteq AllRows(S)
  BY DEF AllRows
<1> QED BY <1>1 DEF InOrder, Old

LEMMA OneMoreInOrder ==
    ASSUME NEW S, NEW L, NEW x, InOrder(S, L), x # Torn, Old(AllRows(S), {x})
    PROVE  InOrder(S, L \cup {x})
BY DEF InOrder, Old

\* In order, every line is readable.
LEMMA RowsInOrder ==
    ASSUME NEW f \in Seq(0..MaxRows) \cup {Missing}, NEW n, NEW S \in SUBSET Chunk(n),
           InOrder(S, Rows(Lines(f)))
    PROVE  /\ Readable(Lines(f)) \cup UNION {Readable(c.lines) : c \in S} =
                Rows(Lines(f)) \cup AllRows(S)
           /\ Rows(Lines(f)) \cup AllRows(S) \subseteq 1..MaxRows
<1>1. \A g \in Seq(0..MaxRows) : Torn \notin Rows(g) =>
          Readable(g) = Rows(g) /\ Rows(g) \subseteq 1..MaxRows
  <2> SUFFICES ASSUME NEW g \in Seq(0..MaxRows), Torn \notin Rows(g)
               PROVE  Readable(g) = Rows(g) /\ Rows(g) \subseteq 1..MaxRows
    OBVIOUS
  <2>1. Readable(g) = Rows(g) /\ Rows(g) \subseteq 0..MaxRows
    BY WholeFile, RowsAreLines
  <2> QED BY <2>1, AlertsFileAssumption DEF Torn
<1>2. Lines(f) \in Seq(0..MaxRows) /\ Torn \notin Rows(Lines(f))
  BY AFile DEF InOrder
<1>3. \A c \in S : c.lines \in Seq(0..MaxRows) /\ Torn \notin Rows(c.lines)
  BY DEF Chunk, InOrder, AllRows
<1>4. \A c \in S : Readable(c.lines) = Rows(c.lines) /\ Rows(c.lines) \subseteq 1..MaxRows
  BY <1>1, <1>3
<1> QED BY <1>1, <1>2, <1>4 DEF AllRows

LEMMA OrderlyFound ==
    /\ Inv /\ Orderly => Found = OnDisk /\ OnDisk \subseteq 1..MaxRows
    /\ Inv' /\ Orderly' => Found' = OnDisk' /\ OnDisk' \subseteq 1..MaxRows
BY RowsInOrder DEF Inv, TypeOK, Orderly, OnDisk, LiveRows, Found

\* A step that brings no line and no file.
LEMMA OrderlyKept ==
    ASSUME Orderly, sealed' \subseteq sealed, LiveRows' = LiveRows, row' = row,
           buf' = <<>>, half' = FALSE
    PROVE  Orderly'
<1>1. InOrder(sealed', LiveRows') /\ OnDisk' \subseteq OnDisk
  BY FewerInOrder DEF Orderly, OnDisk
<1> QED BY <1>1 DEF Orderly

\* On a sound disk a line goes to the live file, and nothing else changes.
LEMMA LineWritten ==
    ASSUME OrderIInv, Sound, WriteLine
    PROVE  /\ LiveRows' = LiveRows \cup {row + 1} /\ sealed' = sealed
           /\ buf' = <<>> /\ half' = FALSE /\ row' = row + 1
           /\ row + 1 \in 1..MaxRows /\ row + 1 # Torn
<1>1. /\ Inv /\ TypeOK /\ WriterInv /\ buf = <<>> /\ pc = "idle" /\ writer = Live
      /\ ~Fails("flush")
  BY DEF OrderIInv, OrderInv, Orderly, Inv, FinishInv, Finishes, Sound, WriteLine
<1>2. /\ WriteLines(Append(buf, row + 1)) /\ buf' = <<>> /\ half' = FALSE
      /\ row' = row + 1 /\ row < MaxRows
  BY <1>1 DEF WriteLine
<1>3. row + 1 \in 1..MaxRows /\ row + 1 # Torn /\ row + 1 \in 0..MaxRows
  BY <1>1, <1>2, LinesToWrite, AlertsFileAssumption
<1> DEFINE g == Append(buf, row + 1)
<1>4. g \in Seq(0..MaxRows) /\ Rows(g) = {row + 1}
  <2>1. <<>> \in Seq(0..MaxRows) /\ g = Append(<<>>, row + 1)
    BY <1>1
  <2>2. Rows(g) = Rows(<<>>) \cup {row + 1}
    BY <1>3, <2>1, AppendedLine
  <2> QED BY <1>3, <2>1, <2>2, EmptyFile, AppendProperties
<1>5. live' = live \o g /\ live \in Seq(0..MaxRows) /\ sealed' = sealed
  BY <1>1, <1>2, <1>4, LinesReach
<1> HIDE DEF g
<1>6. live' \in Seq(0..MaxRows) /\ Rows(live') = Rows(live) \cup {row + 1}
  BY <1>4, <1>5, AppendedLines
<1>7. Lines(live) = live /\ Lines(live') = live'
  BY <1>5, <1>6, MissingIsNoFile DEF Lines
<1> QED BY <1>2, <1>3, <1>5, <1>6, <1>7 DEF LiveRows

LEMMA OrderStep == OrderIInv /\ Inv' /\ [Next]_vars => OrderInv'
<1> SUFFICES ASSUME OrderIInv, Inv', [Next]_vars, Sound' PROVE Orderly'
  BY DEF OrderInv
<1>0. /\ Sound /\ Orderly /\ WriterInv /\ ChunkInv /\ TypeOK /\ Inv /\ row \in Nat
      /\ ~Fails("flush") /\ ~Fails("remove") /\ ~Fails("prune") /\ ~Fails("open")
  BY DiskIsFixed DEF OrderIInv, OrderInv, Inv, Sound, Fails, TypeOK
<1>r. OnDisk \subseteq 1..MaxRows
  BY <1>0, OrderlyFound
<1>o. buf = <<>> /\ half = FALSE
  BY <1>0 DEF Orderly, TypeOK
<1>1. CASE CheckLength \/ RenameFails \/ PruneEnds \/ Start \/ Rest \/ UNCHANGED vars
  <2>1. UNCHANGED <<live, sealed, buf, half, row>>
    BY <1>1 DEF CheckLength, RenameFails, PruneEnds, Start, Rest, vars, fileVars, bufVars
  <2>2. LiveRows' = LiveRows
    BY <2>1 DEF LiveRows
  <2> QED BY <1>0, <1>o, <2>1, <2>2, OrderlyKept
<1>2. CASE WriteRefused \/ WriteTorn \/ PruneFails \/ OpenFails
  BY <1>0, <1>2 DEF WriteRefused, WriteTorn, PruneFails, OpenFails
<1>3. CASE GzipUnlink \/ GzipFails \/ Prune \/ OpenAppend
  <2>1. sealed' \subseteq sealed /\ UNCHANGED <<buf, half, row>>
    BY <1>3 DEF GzipUnlink, GzipFails, Prune, OpenAppend, bufVars
  <2>2. Lines(live') = Lines(live)
    <3>1. CASE OpenAppend
      BY <1>0, <3>1, AFile DEF OpenAppend, TypeOK
    <3>2. CASE GzipUnlink \/ GzipFails \/ Prune
      BY <3>2 DEF GzipUnlink, GzipFails, Prune
    <3> QED BY <1>3, <3>1, <3>2
  <2>3. LiveRows' = LiveRows
    BY <2>2 DEF LiveRows
  <2> QED BY <1>0, <1>o, <2>1, <2>3, OrderlyKept
<1>4. CASE Crash
  <2>1. UNCHANGED <<live, sealed, row>> /\ buf' = <<>> /\ half' = FALSE
    BY <1>0, <1>4 DEF Crash, Orderly
  <2>2. LiveRows' = LiveRows
    BY <2>1 DEF LiveRows
  <2> QED BY <1>0, <2>1, <2>2, OrderlyKept
<1>5. CASE WriteLine
  <2>1. /\ LiveRows' = LiveRows \cup {row + 1} /\ sealed' = sealed
        /\ buf' = <<>> /\ half' = FALSE /\ row' = row + 1 /\ row + 1 # Torn
    BY <1>0, <1>5, LineWritten
  <2>2. \A r \in OnDisk : r \in Int /\ r <= row
    BY <1>0, <1>r DEF Orderly
  <2>3. \A r \in Int : r <= row => r < row + 1 /\ r <= row + 1
    BY <1>0
  <2>4. Old(AllRows(sealed), {row + 1})
    BY <2>2, <2>3 DEF Old, OnDisk
  <2>5. InOrder(sealed', LiveRows')
    BY <1>0, <2>1, <2>4, OneMoreInOrder DEF Orderly
  <2>6. OnDisk' = OnDisk \cup {row + 1}
    BY <2>1 DEF OnDisk
  <2>7. row + 1 <= row + 1
    BY <1>0
  <2>8. \A r \in OnDisk' : r <= row'
    BY <2>1, <2>2, <2>3, <2>6, <2>7
  <2> QED BY <2>1, <2>5, <2>8 DEF Orderly
<1>6. CASE Rename
  <2> DEFINE new == [stamp |-> stamp', gz |-> FALSE, lines |-> live]
  <2>1. /\ sealed' = sealed \cup {new} /\ live' = Missing /\ live # Missing
        /\ UNCHANGED <<buf, half, row>> /\ stamp' = stamp + 1
    BY <1>0, <1>6 DEF Rename, WriterInv, bufVars
  <2>2. new.stamp = stamp + 1 /\ new.lines = live
    BY <2>1
  <2>3. \A c \in sealed : c.stamp < new.stamp /\ ~(new.stamp <= c.stamp)
    <3>1. \A c \in sealed : c.stamp \in 1..stamp /\ stamp \in Nat
      BY <1>0 DEF TypeOK, Chunk
    <3> QED BY <2>2, <3>1
  <2> HIDE DEF new
  <2>4. Rows(new.lines) = LiveRows /\ LiveRows' = {}
    <3>1. Lines(live) = live /\ Lines(live') = <<>>
      BY <2>1 DEF Lines
    <3> QED BY <2>2, <3>1, EmptyFile DEF LiveRows
  <2>5. AllRows(sealed') = OnDisk /\ OnDisk' = OnDisk
    BY <2>1, <2>4 DEF AllRows, OnDisk
  <2>6. InOrder(sealed', {})
    <3>1. \A c, d \in sealed' : c.stamp < d.stamp => Old(Rows(c.lines), Rows(d.lines))
      <4> SUFFICES ASSUME NEW c \in sealed', NEW d \in sealed', c.stamp < d.stamp
                   PROVE  Old(Rows(c.lines), Rows(d.lines))
        OBVIOUS
      <4>1. CASE d = new
        <5>1. c \in sealed
          <6>1. ~(new.stamp < new.stamp)
            BY <1>0, <2>2 DEF TypeOK
          <6> QED BY <2>1, <4>1, <6>1
        <5>2. Rows(c.lines) \subseteq AllRows(sealed) /\ Old(AllRows(sealed), LiveRows)
          BY <1>0, <5>1 DEF AllRows, Orderly, InOrder
        <5> QED BY <2>4, <4>1, <5>2 DEF Old
      <4>2. CASE d \in sealed
        <5>1. c \in sealed
          <6>1. ~(new.stamp < d.stamp)
            <7>1. d.stamp \in 1..stamp /\ stamp \in Nat
              BY <1>0, <4>2 DEF TypeOK, Chunk
            <7> QED BY <2>2, <7>1
          <6> QED BY <2>1, <6>1
        <5> QED BY <1>0, <4>2, <5>1 DEF Orderly, InOrder
      <4> QED BY <2>1, <4>1, <4>2
    <3>2. \A c, d \in sealed' : c.stamp = d.stamp =>
             Rows(c.lines) = Rows(d.lines) \/ Rows(c.lines) = {} \/ Rows(d.lines) = {}
      <4>1. \A c \in sealed : c.stamp # new.stamp
        <5>1. \A c \in sealed : c.stamp \in 1..stamp /\ stamp \in Nat
          BY <1>0 DEF TypeOK, Chunk
        <5> QED BY <2>2, <5>1
      <4> QED BY <1>0, <2>1, <4>1 DEF Orderly, InOrder
    <3>3. Torn \notin AllRows(sealed')
      BY <1>0, <2>5 DEF Orderly, InOrder, OnDisk
    <3> QED BY <3>1, <3>2, <3>3 DEF InOrder, Old
  <2> QED BY <1>0, <2>1, <2>4, <2>5, <2>6 DEF Orderly
<1>7. CASE GzipCreate
  <2> DEFINE new == [stamp |-> stamp, gz |-> TRUE, lines |-> <<>>]
  <2>1. sealed' = sealed \cup {new} /\ UNCHANGED <<live, buf, half, row>>
    BY <1>7 DEF GzipCreate, bufVars
  <2>2. Rows(new.lines) = {}
    BY EmptyFile
  <2> HIDE DEF new
  <2>3. AllRows(sealed') = AllRows(sealed) /\ LiveRows' = LiveRows
    BY <2>1, <2>2 DEF AllRows, LiveRows
  <2>4. InOrder(sealed', LiveRows')
    BY <1>0, <2>1, <2>2, <2>3 DEF Orderly, InOrder, Old
  <2> QED BY <1>0, <2>1, <2>3, <2>4 DEF Orderly, OnDisk
<1>8. CASE GzipFinish
  <2>1. /\ sealed' = {Filled(c) : c \in sealed} /\ pc = "copy" /\ UNCHANGED <<live, buf, half, row>>
    BY <1>8 DEF GzipFinish, Filled, bufVars
  <2>2. PICK n \in sealed : IsPlain(n) /\ Newest = n
    BY <1>0, <2>1, NewestIsPlain DEF ChunkInv
  <2>3. \A c \in sealed : /\ Filled(c).stamp = c.stamp
                          /\ Filled(c).lines = IF IsGz(c) THEN n.lines ELSE c.lines
    BY <1>0, <2>1, <2>2, FilledChunk, SameName
  <2>4. \A c \in sealed : \E d \in sealed : /\ Filled(c).stamp = d.stamp
                                            /\ Rows(Filled(c).lines) = Rows(d.lines)
    <3> SUFFICES ASSUME NEW c \in sealed
                 PROVE  \E d \in sealed : /\ Filled(c).stamp = d.stamp
                                          /\ Rows(Filled(c).lines) = Rows(d.lines)
      OBVIOUS
    <3>1. CASE IsGz(c)
      BY <2>2, <2>3, <3>1 DEF IsGz, IsPlain
    <3>2. CASE ~IsGz(c)
      BY <2>3, <3>2
    <3> QED BY <3>1, <3>2
  <2>5. AllRows(sealed') \subseteq AllRows(sealed) /\ LiveRows' = LiveRows
    BY <2>1, <2>4 DEF AllRows, LiveRows
  <2>6. \A c \in sealed' : \E d \in sealed : c.stamp = d.stamp /\ Rows(c.lines) = Rows(d.lines)
    BY <2>1, <2>4
  <2>7. InOrder(sealed', LiveRows')
    <3>1. InOrder(sealed, LiveRows)
      BY <1>0 DEF Orderly
    <3>2. \A c, d \in sealed' : c.stamp < d.stamp => Old(Rows(c.lines), Rows(d.lines))
      <4> SUFFICES ASSUME NEW c \in sealed', NEW d \in sealed', c.stamp < d.stamp
                   PROVE  Old(Rows(c.lines), Rows(d.lines))
        OBVIOUS
      <4>1. PICK a \in sealed : c.stamp = a.stamp /\ Rows(c.lines) = Rows(a.lines)
        BY <2>6
      <4>2. PICK b \in sealed : d.stamp = b.stamp /\ Rows(d.lines) = Rows(b.lines)
        BY <2>6
      <4>3. Old(Rows(a.lines), Rows(b.lines))
        BY <3>1, <4>1, <4>2 DEF InOrder
      <4> QED BY <4>1, <4>2, <4>3
    <3>3. \A c, d \in sealed' : c.stamp = d.stamp =>
             Rows(c.lines) = Rows(d.lines) \/ Rows(c.lines) = {} \/ Rows(d.lines) = {}
      BY <2>6, <3>1 DEF InOrder
    <3>4. Torn \notin LiveRows' /\ Torn \notin AllRows(sealed') /\ Old(AllRows(sealed'), LiveRows')
      BY <2>5, <3>1 DEF InOrder, Old
    <3> QED BY <3>2, <3>3, <3>4 DEF InOrder
  <2>8. OnDisk' \subseteq OnDisk
    BY <2>5 DEF OnDisk
  <2> QED BY <1>0, <2>1, <2>7, <2>8 DEF Orderly
<1> QED BY <1>1, <1>2, <1>3, <1>4, <1>5, <1>6, <1>7, <1>8 DEF Next

LEMMA EmptyMemory ==
    /\ buf = <<>> => InMemory = {}
    /\ buf' = <<>> => InMemory' = {}
<1>1. DOMAIN <<>> = {}
  OBVIOUS
<1> QED BY <1>1 DEF InMemory

\* The log's variables, as the alerts file has them.
LEMMA LogState ==
    ASSUME UNCHANGED disk
    PROVE  /\ ~Sound => UNCHANGED Log!vars
           /\ Sound /\ Found' = Found /\ InMemory' = InMemory => UNCHANGED Log!vars
BY DEF Log!vars, Sound, Fails

\* On a sound disk a line is Accept, a deletion Expire, and every other step
\* leaves the log as it is.
LEMMA LogStep ==
    OrderIInv /\ OrderIInv' /\ [Next]_vars => [Log!Next]_(Log!vars)
<1> SUFFICES ASSUME OrderIInv, OrderIInv', [Next]_vars PROVE [Log!Next]_(Log!vars)
  OBVIOUS
<1>f. UNCHANGED disk
  BY DiskIsFixed
<1>s. SUFFICES ASSUME Sound PROVE [Log!Next]_(Log!vars)
  BY <1>f, LogState
<1>t. Sound'
  BY <1>f, <1>s DEF Sound, Fails
<1>0. /\ Orderly /\ Orderly' /\ Inv /\ Inv' /\ WriterInv /\ ChunkInv /\ TypeOK
      /\ ~Fails("flush") /\ ~Fails("remove") /\ ~Fails("prune") /\ ~Fails("open")
  BY <1>s, <1>t DEF OrderIInv, OrderInv, Inv, Sound
<1>r. /\ Found = OnDisk /\ OnDisk \subseteq 1..MaxRows /\ Found' = OnDisk'
      /\ InMemory = {} /\ InMemory' = {}
  BY <1>0, OrderlyFound, EmptyMemory DEF Orderly
<1>a. ASSUME Found' = Found PROVE [Log!Next]_(Log!vars)
  BY <1>f, <1>r, <1>s, <1>a, LogState
<1>1. CASE CheckLength \/ Start \/ Crash \/ Rest \/ UNCHANGED vars
  <2>1. UNCHANGED <<live, sealed>>
    BY <1>0, <1>1 DEF CheckLength, Start, Crash, Rest, vars, fileVars, Orderly
  <2> QED BY <1>a, <2>1 DEF Found
<1>2. CASE \/ Rename \/ GzipCreate \/ GzipFinish \/ GzipUnlink \/ GzipFails \/ PruneEnds
           \/ PruneFails \/ OpenAppend \/ OpenFails \/ RenameFails
  BY <1>0, <1>a, <1>2, RotationKeepsFound
<1>3. CASE WriteRefused \/ WriteTorn
  BY <1>0, <1>3 DEF WriteRefused, WriteTorn
<1>4. CASE WriteLine
  <2>1. /\ LiveRows' = LiveRows \cup {row + 1} /\ sealed' = sealed
        /\ row + 1 \in 1..MaxRows /\ row \in Nat
    BY <1>s, <1>0, <1>4, LineWritten DEF TypeOK
  <2>2. Found' = Found \cup {row + 1}
    BY <1>r, <2>1 DEF OnDisk
  <2>3. \A r \in Found : r \in Int /\ r <= row
    BY <1>0, <1>r DEF Orderly
  <2>4. \A r \in Int : r <= row => r < row + 1
    BY <2>1
  <2>5. Log!Accept(row + 1)
    BY <1>s, <1>t, <1>r, <2>2, <2>3, <2>4 DEF Log!Accept, Log!Older
  <2> QED BY <2>1, <2>5 DEF Log!Next, Log!Row
<1>5. CASE Prune
  <2>1. PICK n \in oldest(queue) : sealed' = {c \in sealed : Name(c) # n}
    BY <1>0, <1>5 DEF Prune
  <2>2. live' = live /\ pc = "prune"
    BY <1>5 DEF Prune
  <2>3. LiveRows' = LiveRows
    BY <2>2 DEF LiveRows
  <2> DEFINE gone == Found \ Found'
  <2>4. gone \in SUBSET Log!Row /\ Found' = Found \ gone
    BY <1>r, <2>1, <2>3 DEF OnDisk, AllRows, Log!Row
  <2>5. Old(gone, Found')
    <3> SUFFICES ASSUME NEW r \in gone, NEW s \in Found' PROVE r < s
      BY DEF Old
    <3>1. r \notin LiveRows /\ \A d \in sealed : Name(d) # n => r \notin Rows(d.lines)
      BY <1>r, <2>1, <2>3 DEF OnDisk, AllRows
    <3>2. PICK c \in sealed : r \in Rows(c.lines) /\ Name(c) = n
      BY <1>r, <3>1 DEF OnDisk, AllRows
    <3>3. CASE s \in LiveRows
      <4>1. Old(AllRows(sealed), LiveRows) /\ r \in AllRows(sealed)
        BY <1>0, <3>2 DEF Orderly, InOrder, AllRows
      <4> QED BY <3>3, <4>1 DEF Old
    <3>4. CASE s \in AllRows(sealed')
      <4>1. PICK d \in sealed : s \in Rows(d.lines) /\ Name(d) # n
        BY <2>1, <3>4 DEF AllRows
      <4>2. c.stamp <= d.stamp
        <5>1. Name(d) \in queue /\ n.stamp = c.stamp /\ Name(d).stamp = d.stamp
          BY <1>0, <2>2, <3>2 DEF ChunkInv, Name
        <5> QED BY <2>1, <5>1 DEF oldest
      <4>3. CASE c.stamp < d.stamp
        BY <1>0, <3>2, <4>1, <4>3 DEF Orderly, InOrder, Old
      <4>4. CASE c.stamp = d.stamp
        BY <1>0, <3>1, <3>2, <4>1, <4>4 DEF Orderly, InOrder
      <4>5. c.stamp \in Nat /\ d.stamp \in Nat
        BY <1>0 DEF TypeOK, Chunk
      <4> QED BY <4>2, <4>3, <4>4, <4>5
    <3> QED BY <1>r, <2>3, <3>3, <3>4 DEF OnDisk
  <2>6. Log!Expire(gone)
    <3> HIDE DEF gone
    <3>1. gone \subseteq Found
      BY DEF gone
    <3> QED BY <1>s, <1>t, <1>r, <2>4, <2>5, <3>1 DEF Log!Expire, Log!Older, Old
  <2> QED BY <2>4, <2>6 DEF Log!Next
<1> QED BY <1>1, <1>2, <1>3, <1>4, <1>5 DEF Next

\* Whatever fails in a rotation before its last two steps, and wherever a crash
\* falls, the alerts file is an append-only log: write_line adds its line at the
\* end, pruning takes the oldest lines, and nothing else changes what a reader
\* finds.
THEOREM LogImplemented == Spec => ImplementsRowLog
<1>1. Init => Log!Init /\ OrderIInv
  <2> SUFFICES ASSUME Init PROVE Log!Init /\ OrderIInv
    OBVIOUS
  <2>1. Inv /\ FinishInv /\ buf = <<>> /\ ~half /\ sealed = {}
    BY LossInit DEF LossIInv, Init
  <2>2. Lines(live) = <<>>
    BY DEF Init, Lines
  <2>3. Found = {} /\ InMemory = {} /\ OnDisk = {} /\ LiveRows = {} /\ AllRows(sealed) = {}
    BY <2>1, <2>2, EmptyFile, EmptyMemory DEF Found, OnDisk, LiveRows, AllRows
  <2>4. InOrder(sealed, LiveRows)
    BY <2>1, <2>3 DEF InOrder, Old
  <2>5. OrderIInv
    BY <2>1, <2>3, <2>4 DEF OrderIInv, OrderInv, Orderly
  <2> QED BY <2>3, <2>5 DEF Log!Init
<1>2. OrderIInv /\ [Next]_vars => OrderIInv'
  BY TypeStep, WriterStep, ChunkStep, FinishStep, OrderStep DEF OrderIInv, Inv
<1> QED BY <1>1, <1>2, LogStep, PTL DEF Spec, ImplementsRowLog, Log!Spec
=============================================================================
