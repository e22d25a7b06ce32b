---------------------------- MODULE ReaderProofs ----------------------------
(***************************************************************************)
(* Proofs about the two modules that read bytes.  LogReader, for every     *)
(* chunk size, line limit and page, and a file of any size that grows and  *)
(* is truncated at will: what the reader keeps in memory is bounded by a   *)
(* chunk, a line and a page, and the page it returns is the page of the    *)
(* file that was opened.  Protobuf, for any fields and sizes: a message is *)
(* read as the fields it was made of.                                      *)
(***************************************************************************)
EXTENDS LogReader, Protobuf, SequenceTheorems, FiniteSetTheorems, WellFoundedInduction, TLAPS

-----------------------------------------------------------------------------
(***************************************************************************)
(* The inductive invariant.                                                *)
(***************************************************************************)

\* The lines kept are among those that were passed since the page began.
PageFills ==
  /\ FirstResultIndex \in Nat
  /\ Len(lines) <= pageSize
  /\ total <= FirstResultIndex => Len(lines) = 0
  /\ total > FirstResultIndex => Len(lines) <= total - FirstResultIndex

IInv == TypeOK /\ PageFills

-----------------------------------------------------------------------------
(***************************************************************************)
(* Lemmas on parts of sequences.                                           *)
(***************************************************************************)

LEMMA UptoFacts ==
  ASSUME NEW S, NEW s \in Seq(S), NEW n \in Nat
  PROVE  Upto(s, n) \in Seq(S) /\ Len(Upto(s, n)) = Least(n, Len(s))
<1>1. Least(n, Len(s)) \in Nat /\ Least(n, Len(s)) <= Len(s)
  BY DEF Least
<1>2. \A i \in 1 .. Least(n, Len(s)) : s[i] \in S
  BY <1>1
<1> QED
  BY <1>1, <1>2, SubSeqProperties DEF Upto

LEMMA PartFacts ==
  ASSUME NEW S, NEW s \in Seq(S), NEW m \in Nat \ {0}, NEW n \in Nat, n <= Len(s)
  PROVE  SubSeq(s, m, n) \in Seq(S) /\ Len(SubSeq(s, m, n)) = (IF m <= n THEN n - m + 1 ELSE 0)
<1>1. \A i \in m .. n : s[i] \in S
  OBVIOUS
<1> QED
  BY <1>1, SubSeqProperties

LEMMA PrependBoundedFacts ==
  ASSUME ReaderSizes, TypeOK, NEW prefix \in Seq(Byte)
  PROVE  /\ PrependBounded(prefix).bytes \in Seq(Byte)
         /\ Len(PrependBounded(prefix).bytes) <= MaximumLineBytes
         /\ PrependBounded(prefix).truncated \in BOOLEAN
<1>1. pending \in Seq(Byte) /\ pendingTruncated \in BOOLEAN /\ MaximumLineBytes \in Nat
  BY DEF ReaderSizes, TypeOK
<1>2. prefix \o pending \in Seq(Byte)
  BY <1>1, ConcatProperties
<1>3. /\ Upto(prefix \o pending, MaximumLineBytes) \in Seq(Byte)
      /\ Len(Upto(prefix \o pending, MaximumLineBytes)) <= MaximumLineBytes
  <2>1. Least(MaximumLineBytes, Len(prefix \o pending)) <= MaximumLineBytes
    BY <1>1, <1>2 DEF Least
  <2> QED
    BY <1>1, <1>2, <2>1, UptoFacts
<1> QED
  BY <1>1, <1>3 DEF PrependBounded

LEMMA ShownIsALine ==
  ASSUME NEW bytes \in Seq(Byte), NEW cut \in BOOLEAN
  PROVE  Shown(bytes, cut) \in Line
<1>1. StripCR(bytes) \in Seq(Byte)
  <2>1. CASE bytes # <<>> /\ bytes[Len(bytes)] = CR
    <3>1. Len(bytes) - 1 \in Nat
      BY <2>1
    <3> QED
      BY <2>1, <3>1, UptoFacts DEF StripCR
  <2>2. CASE ~(bytes # <<>> /\ bytes[Len(bytes)] = CR)
    BY <2>2 DEF StripCR
  <2> QED
    BY <2>1, <2>2
<1> QED
  BY <1>1 DEF Shown, Line

\* A line is kept only while the page has room for it.
LEMMA ConsumeFillsThePage ==
  ASSUME ReaderSizes, IInv, UNCHANGED request, NEW line,
         line.bytes \in Seq(Byte), line.truncated \in BOOLEAN, Consume(line)
  PROVE  /\ lines' \in Seq(Line) /\ total' \in Nat /\ firstCandidate' \in BOOLEAN
         /\ PageFills'
<1>1. /\ total \in Nat /\ lines \in Seq(Line) /\ pageSize \in Nat /\ FirstResultIndex \in Nat
      /\ Len(lines) \in Nat
  BY DEF ReaderSizes, IInv, TypeOK, PageFills
<1>2. /\ firstCandidate' \in BOOLEAN /\ pageSize' = pageSize
      /\ FirstResultIndex' = FirstResultIndex
  BY DEF Consume, FirstResultIndex, request
<1>3. CASE UNCHANGED <<total, lines>>
  BY <1>1, <1>2, <1>3 DEF IInv, PageFills
<1>4. CASE /\ total' = total + 1
           /\ InPage(total)
           /\ lines' = Append(lines, Shown(line.bytes, line.truncated))
  <2>1. lines' \in Seq(Line) /\ Len(lines') = Len(lines) + 1
    BY <1>1, <1>4, ShownIsALine, AppendProperties
  <2>2. FirstResultIndex <= total /\ total < FirstResultIndex + pageSize
    BY <1>4 DEF InPage
  <2>3. Len(lines) <= total - FirstResultIndex
    BY <1>1, <2>2 DEF IInv, PageFills
  <2> QED
    BY <1>1, <1>2, <1>4, <2>1, <2>2, <2>3 DEF PageFills
<1>5. CASE total' = total + 1 /\ lines' = lines
  BY <1>1, <1>2, <1>5 DEF IInv, PageFills
<1> QED
  BY <1>3, <1>4, <1>5 DEF Consume

-----------------------------------------------------------------------------
(***************************************************************************)
(* The steps.                                                              *)
(***************************************************************************)

LEMMA InitEstablishes ==
  ASSUME ReaderSizes, ReaderInit
  PROVE  IInv
<1>1. file \in Seq(Byte)
  <2>1. PICK n \in 0 .. MaxSize : file \in [1 .. n -> Byte]
    BY DEF ReaderInit
  <2> QED
    BY <2>1
<1>2. /\ page \in Nat \ {0} /\ pageSize \in Nat \ {0}
      /\ {pendingTruncated, firstCandidate, truncated, mixed} \subseteq BOOLEAN
  BY DEF ReaderSizes, ReaderInit
<1>3. TypeOK
  BY <1>1, <1>2 DEF ReaderSizes, ReaderInit, TypeOK
<1>4. FirstResultIndex \in Nat
  BY <1>2 DEF FirstResultIndex
<1>5. PageFills
  BY <1>2, <1>4 DEF ReaderInit, PageFills
<1> QED
  BY <1>3, <1>5 DEF IInv

\* A step that passes no line keeps the page as it is.
LEMMA PageStays ==
  ASSUME IInv, UNCHANGED <<request, total, lines>>
  PROVE  PageFills'
BY DEF IInv, PageFills, FirstResultIndex, request

LEMMA StartChunkFacts ==
  ASSUME ReaderSizes, NEW end \in Nat, StartChunk(end)
  PROVE  /\ reader' = "reading" /\ length' \in Nat /\ length' <= ChunkSize /\ position' \in Nat
         /\ chunk' \in Seq(Byte) /\ Len(chunk') <= length'
<1>1. /\ reader' = "reading" /\ length' \in Nat /\ length' <= ChunkSize /\ position' \in Nat
  BY DEF ReaderSizes, StartChunk, Least
<1>2. chunk' = <<>> /\ Len(<<>>) = 0
  BY DEF StartChunk
<1> QED
  BY <1>1, <1>2

LEMMA OpenPreserves ==
  ASSUME ReaderSizes, IInv, Open
  PROVE  IInv'
<1>1. /\ opened' = file
      /\ UNCHANGED <<file, edits, request, scan, truncated, mixed>>
  BY DEF Open
<1>2. /\ reader' \in {"reading", "done"} /\ length' \in Nat /\ length' <= ChunkSize
      /\ position' \in Nat /\ chunk' \in Seq(Byte) /\ Len(chunk') <= length'
  <2>1. CASE reader' = "done" /\ UNCHANGED <<position, length, chunk>>
    BY <2>1 DEF IInv, TypeOK
  <2>2. CASE StartChunk(Len(file))
    <3>1. Len(file) \in Nat
      BY DEF IInv, TypeOK
    <3> QED
      BY <2>2, <3>1, StartChunkFacts
  <2> QED
    BY <2>1, <2>2 DEF Open
<1>3. TypeOK'
  BY <1>1, <1>2 DEF IInv, TypeOK, request, scan
<1> QED
  BY <1>1, <1>3, PageStays DEF IInv, scan

LEMMA ReadPreserves ==
  ASSUME ReaderSizes, IInv, NEW count \in 1 .. ChunkSize, Read(count)
  PROVE  IInv'
<1> DEFINE from == position + Len(chunk)
           part == SubSeq(file, from + 1, from + count)
<1>1. /\ from \in Nat /\ count \in Nat /\ from + count <= Len(file) /\ file \in Seq(Byte)
      /\ chunk \in Seq(Byte) /\ length \in Nat /\ count <= length - Len(chunk)
  BY DEF ReaderSizes, IInv, TypeOK, Read
<1>2. part \in Seq(Byte) /\ Len(part) = count
  BY <1>1, PartFacts
<1>3. chunk' = chunk \o part
  BY DEF Read
<1>4. chunk' \in Seq(Byte) /\ Len(chunk') <= length
  <2> HIDE DEF from, part
  <2>1. chunk \o part \in Seq(Byte) /\ Len(chunk \o part) = Len(chunk) + count
    BY <1>1, <1>2, ConcatProperties
  <2> QED
    BY <1>1, <1>3, <2>1
<1>5. /\ reader' \in {"scanning", "reading"} /\ mixed' \in BOOLEAN
      /\ UNCHANGED <<file, edits, request, position, length, scan, opened, truncated>>
  BY DEF IInv, TypeOK, Read
<1>6. TypeOK'
  BY <1>4, <1>5 DEF IInv, TypeOK, request, scan
<1> QED
  BY <1>5, <1>6, PageStays DEF IInv, scan

LEMMA TakeLinePreserves ==
  ASSUME ReaderSizes, IInv, TakeLine
  PROVE  IInv'
<1>1. PICK index \in Feeds(chunk) :
        /\ Consume(PrependBounded(SubSeq(chunk, index + 1, Len(chunk))))
        /\ chunk' = Upto(chunk, index - 1)
  BY DEF TakeLine
<1>2. /\ index \in 1 .. Len(chunk) /\ chunk \in Seq(Byte) /\ Len(chunk) \in Nat
      /\ length \in Nat /\ Len(chunk) <= length
  BY DEF IInv, TypeOK, Feeds
<1>3. SubSeq(chunk, index + 1, Len(chunk)) \in Seq(Byte)
  BY <1>2, PartFacts
<1>4. chunk' \in Seq(Byte) /\ Len(chunk') <= length
  <2>1. index - 1 \in Nat /\ Least(index - 1, Len(chunk)) <= Len(chunk)
    BY <1>2 DEF Least
  <2>2. /\ Upto(chunk, index - 1) \in Seq(Byte)
        /\ Len(Upto(chunk, index - 1)) = Least(index - 1, Len(chunk))
    BY <1>2, <2>1, UptoFacts
  <2>3. chunk' = Upto(chunk, index - 1)
    BY <1>1
  <2> QED
    BY <1>2, <2>1, <2>2, <2>3
<1>5. /\ pending' = <<>> /\ pendingTruncated' = FALSE
      /\ UNCHANGED <<file, edits, reader, request, position, length, history>>
  BY DEF TakeLine
<1>6. /\ lines' \in Seq(Line) /\ total' \in Nat /\ firstCandidate' \in BOOLEAN /\ PageFills'
  BY <1>1, <1>3, <1>5, PrependBoundedFacts, ConsumeFillsThePage DEF IInv
<1>7. Len(lines') <= pageSize
  BY <1>5, <1>6 DEF PageFills, request
<1>8. pending' \in Seq(Byte) /\ Len(pending') <= MaximumLineBytes
  BY <1>5 DEF ReaderSizes
<1>9. TypeOK'
  BY <1>4, <1>5, <1>6, <1>7, <1>8 DEF IInv, TypeOK, request, history
<1> QED
  BY <1>6, <1>9 DEF IInv

LEMMA FinishChunkPreserves ==
  ASSUME ReaderSizes, IInv, FinishChunk
  PROVE  IInv'
<1>1. /\ pending' = PrependBounded(chunk).bytes
      /\ pendingTruncated' = PrependBounded(chunk).truncated
      /\ UNCHANGED <<file, edits, request, firstCandidate, total, lines, history>>
  BY DEF FinishChunk
<1>2. pending' \in Seq(Byte) /\ Len(pending') <= MaximumLineBytes /\ pendingTruncated' \in BOOLEAN
  BY <1>1, PrependBoundedFacts DEF IInv, TypeOK
<1>3. /\ reader' \in {"reading", "last"} /\ length' \in Nat /\ length' <= ChunkSize
      /\ position' \in Nat /\ chunk' \in Seq(Byte) /\ Len(chunk') <= length'
  <2>1. CASE reader' = "last" /\ UNCHANGED <<position, length, chunk>>
    BY <2>1 DEF IInv, TypeOK
  <2>2. CASE StartChunk(position)
    <3>1. position \in Nat
      BY DEF IInv, TypeOK
    <3> QED
      BY <2>2, <3>1, StartChunkFacts
  <2> QED
    BY <2>1, <2>2 DEF FinishChunk
<1>4. TypeOK'
  BY <1>1, <1>2, <1>3 DEF IInv, TypeOK, request, history
<1> QED
  BY <1>1, <1>4, PageStays DEF IInv

LEMMA TakeLastLinePreserves ==
  ASSUME ReaderSizes, IInv, TakeLastLine
  PROVE  IInv'
<1> DEFINE line == [bytes |-> pending, truncated |-> pendingTruncated]
<1>1. /\ Consume(line) /\ reader' = "done"
      /\ UNCHANGED <<file, edits, request, position, length, chunk,
                     pending, pendingTruncated, history>>
  BY DEF TakeLastLine
<1>2. line.bytes \in Seq(Byte) /\ line.truncated \in BOOLEAN
  BY DEF IInv, TypeOK
<1>3. /\ lines' \in Seq(Line) /\ total' \in Nat /\ firstCandidate' \in BOOLEAN /\ PageFills'
  BY <1>1, <1>2, ConsumeFillsThePage
<1>4. Len(lines') <= pageSize
  BY <1>1, <1>3 DEF PageFills, request
<1>5. TypeOK'
  BY <1>1, <1>3, <1>4 DEF IInv, TypeOK, request, history
<1> QED
  BY <1>3, <1>5 DEF IInv

\* The file changes under the reader.
LEMMA EditsPreserve ==
  ASSUME ReaderSizes, IInv, (\E byte \in Byte : Write(byte)) \/ Truncate
  PROVE  IInv'
<1>1. UNCHANGED <<reader, request, position, length, chunk, scan, opened, mixed>>
  BY DEF Write, Truncate, Edit
<1>2. file' \in Seq(Byte) /\ truncated' \in BOOLEAN
  <2>1. CASE \E byte \in Byte : Write(byte)
    BY <2>1, AppendProperties DEF Write, IInv, TypeOK
  <2>2. CASE Truncate
    BY <2>2 DEF Truncate
  <2> QED
    BY <2>1, <2>2
<1>3. TypeOK'
  BY <1>1, <1>2 DEF IInv, TypeOK, request, scan
<1> QED
  BY <1>1, <1>3, PageStays DEF IInv, scan

LEMMA NextPreserves ==
  ASSUME ReaderSizes, IInv, [ReaderNext]_readerVars
  PROVE  IInv'
<1>1. CASE ReadsNothing \/ UNCHANGED readerVars
  <2>1. /\ UNCHANGED <<file, request, position, length, chunk, scan, history>>
        /\ reader' \in {reader, "failed"}
    BY <1>1 DEF ReadsNothing, readerVars
  <2>2. TypeOK'
    BY <2>1 DEF IInv, TypeOK, request, scan, history
  <2> QED
    BY <2>1, <2>2, PageStays DEF IInv, scan
<1> QED
  BY <1>1, OpenPreserves, ReadPreserves, TakeLinePreserves, FinishChunkPreserves,
     TakeLastLinePreserves, EditsPreserve
  DEF ReaderNext

\* Whatever the size of the log and whatever happens to it meanwhile, the
\* reader keeps at most a chunk, MaximumLineBytes of a line, and the lines of
\* a page (log-reader.service.ts).
THEOREM MemoryIsBounded ==
  ASSUME ReaderSizes
  PROVE  ReaderSpec => []TypeOK
<1>1. ReaderInit => IInv
  BY InitEstablishes
<1>2. IInv /\ [ReaderNext]_readerVars => IInv'
  BY NextPreserves
<1>3. IInv => TypeOK
  BY DEF IInv
<1> QED
  BY <1>1, <1>2, <1>3, PTL DEF ReaderSpec

-----------------------------------------------------------------------------
(***************************************************************************)
(* The page that is returned: the invariant of a scan whose bytes are all  *)
(* of the file that was opened.                                            *)
(***************************************************************************)

\* The bytes in front of this place have not been passed yet.
Place ==
  CASE reader = "reading" -> position + length
    [] reader = "scanning" -> position + Len(chunk)
    [] OTHER -> 0

\* `bytes` is the part of the file behind `from`, up to `to`, as far as it
\* is kept of a line.
Holds(bytes, from, to) ==
  /\ Len(bytes) = Least(MaximumLineBytes, to - from)
  /\ \A i \in 1 .. Len(bytes) : bytes[i] = opened[from + i]

EndsBehind(place) == {end \in Ends(opened) : end > place}

\* The scan is in the middle of the line that ends at `end`.
Scans(end) ==
  /\ Place < end /\ end <= Len(opened) + 1
  /\ IF firstCandidate THEN end = Len(opened) + 1 ELSE end \in Feeds(opened)
  /\ \A i \in Place + 1 .. end - 1 : opened[i] # LF
  /\ Holds(pending, Place, end - 1)
  /\ pendingTruncated <=> end - 1 - Place > MaximumLineBytes
  /\ total = Cardinality(EndsBehind(end))

\* Of `n` lines counted from the end, those of the page.
Kept(n) == IF n <= FirstResultIndex THEN 0 ELSE Least(pageSize, n - FirstResultIndex)

PageMatches ==
  /\ Len(lines) = Kept(total)
  /\ \A i \in 1 .. Len(lines) : lines[i] = FromEnd(opened, FirstResultIndex + i - 1)

NothingScanned ==
  /\ pending = <<>> /\ ~pendingTruncated /\ firstCandidate
  /\ total = 0 /\ lines = <<>> /\ ~truncated

\* What was read is what the file held when its size was taken, and the file
\* still begins with it unless it was truncated.
FileMatches ==
  /\ ~truncated => /\ Len(opened) <= Len(file)
                   /\ \A i \in 1 .. Len(opened) : file[i] = opened[i]
  /\ reader \in {"reading", "scanning"} =>
       /\ position + length <= Len(opened)
       /\ \A i \in 1 .. Len(chunk) : chunk[i] = opened[position + i]

ScanMatches ==
  ~mixed =>
    /\ reader = "closed" => NothingScanned
    /\ reader \in {"reading", "scanning", "last"} =>
         /\ FileMatches /\ opened # <<>>
         /\ \E end \in 1 .. Len(opened) + 1 : Scans(end)
    /\ reader \in {"reading", "scanning", "last", "done"} => PageMatches
    /\ reader = "done" => total = Cardinality(Ends(opened))

-----------------------------------------------------------------------------
(***************************************************************************)
(* Lines and their ends.                                                   *)
(***************************************************************************)

LEMMA EndsFacts ==
  ASSUME NEW s \in Seq(Byte)
  PROVE  /\ Ends(s) \subseteq 1 .. Len(s) + 1
         /\ \A T \in SUBSET Ends(s) : IsFiniteSet(T) /\ Cardinality(T) \in Nat
<1>1. Ends(s) \subseteq 1 .. Len(s) + 1
  BY DEF Ends, Feeds
<1>2. IsFiniteSet(1 .. Len(s) + 1)
  BY FS_Interval
<1>3. \A T \in SUBSET (1 .. Len(s) + 1) : IsFiniteSet(T)
  BY <1>2, FS_Subset
<1> QED
  BY <1>1, <1>3, FS_CardinalityType

\* Counting from the end finds the line that has this many behind it.
LEMMA CountedFromEnd ==
  ASSUME NEW s \in Seq(Byte), NEW end \in Ends(s)
  PROVE  FromEnd(s, Cardinality({e \in Ends(s) : e > end})) = LineAt(s, end)
<1> DEFINE Behind(x) == {e \in Ends(s) : e > x}
<1>1. ASSUME NEW x \in Ends(s), NEW y \in Ends(s), x < y
      PROVE  Cardinality(Behind(x)) # Cardinality(Behind(y))
  <2>1. Behind(y) \subseteq Behind(x) /\ y \in Behind(x) /\ y \notin Behind(y)
    BY <1>1, EndsFacts
  <2>2. IsFiniteSet(Behind(x))
    BY EndsFacts
  <2> HIDE DEF Behind
  <2> QED
    BY <2>1, <2>2, FS_Subset
<1>2. \A x \in Ends(s) : Cardinality(Behind(x)) = Cardinality(Behind(end)) => x = end
  <2>1. \A x \in Ends(s) : x \in Int
    BY EndsFacts
  <2> HIDE DEF Behind
  <2> QED
    BY <1>1, <2>1
<1>3. end = CHOOSE x \in Ends(s) : Cardinality(Behind(x)) = Cardinality(Behind(end))
  <2> HIDE DEF Behind
  <2> QED
    BY <1>2
<1> QED
  BY <1>3 DEF FromEnd

LEMMA SamePart ==
  ASSUME ReaderSizes, opened \in Seq(Byte), NEW from \in Nat, NEW to \in Nat, from <= to,
         to <= Len(opened), NEW bytes \in Seq(Byte), Holds(bytes, from, to)
  PROVE  /\ Len(SubSeq(opened, from + 1, to)) = to - from
         /\ Upto(SubSeq(opened, from + 1, to), MaximumLineBytes) = bytes
<1> DEFINE part == SubSeq(opened, from + 1, to)
           kept == Upto(part, MaximumLineBytes)
           size == Least(MaximumLineBytes, to - from)
<1>1. /\ part \in Seq(Byte) /\ Len(part) = to - from
      /\ \A i \in 1 .. to - from : part[i] = opened[from + i]
  <2>1. \A i \in from + 1 .. to : opened[i] \in Byte
    OBVIOUS
  <2>2. /\ part \in Seq(Byte)
        /\ Len(part) = IF from + 1 <= to THEN to - (from + 1) + 1 ELSE 0
        /\ \A i \in 1 .. to - (from + 1) + 1 : part[i] = opened[from + 1 + i - 1]
    BY <2>1, SubSeqProperties
  <2> QED
    BY <2>2
<1> HIDE DEF part
<1>2. size \in Nat /\ size <= to - from
  BY DEF ReaderSizes, Least
<1>3. kept = SubSeq(part, 1, size)
  BY <1>1 DEF Upto
<1>4. /\ kept \in Seq(Byte) /\ Len(kept) = size
      /\ \A i \in 1 .. size : kept[i] = part[i]
  <2>1. \A i \in 1 .. size : part[i] \in Byte
    BY <1>1, <1>2
  <2>2. /\ SubSeq(part, 1, size) \in Seq(Byte)
        /\ Len(SubSeq(part, 1, size)) = IF 1 <= size THEN size - 1 + 1 ELSE 0
        /\ \A i \in 1 .. size - 1 + 1 : SubSeq(part, 1, size)[i] = part[1 + i - 1]
    BY <1>2, <2>1, SubSeqProperties
  <2> HIDE DEF kept, size
  <2> QED
    BY <1>2, <1>3, <2>2
<1>5. Len(bytes) = size /\ \A i \in 1 .. size : bytes[i] = opened[from + i]
  BY DEF Holds
<1> HIDE DEF kept, size
<1>6. \A i \in 1 .. Len(kept) : kept[i] = bytes[i]
  <2>1. \A i \in 1 .. size : i \in 1 .. to - from
    BY <1>2
  <2>2. \A i \in 1 .. size : kept[i] = opened[from + i]
    BY <1>1, <1>4, <2>1
  <2> QED
    BY <1>4, <1>5, <2>2
<1>7. kept = bytes
  BY <1>4, <1>5, <1>6, SeqEqual
<1> QED
  BY <1>1, <1>7 DEF part, kept

\* Bytes kept of a line from its first on are that line.
LEMMA LineIs ==
  ASSUME ReaderSizes, opened \in Seq(Byte), NEW from \in Nat, NEW to \in Nat,
         from <= to, to <= Len(opened),
         \A i \in from + 1 .. to : opened[i] # LF,
         from = 0 \/ opened[from] = LF,
         NEW bytes \in Seq(Byte), Holds(bytes, from, to),
         NEW cut \in BOOLEAN, cut <=> to - from > MaximumLineBytes
  PROVE  LineAt(opened, to + 1) = Shown(bytes, cut)
<1> PICK begin \in Nat \ {0}, end \in Nat :
         /\ begin = from + 1 /\ end = to + 1 /\ from = begin - 1 /\ to = end - 1
         /\ begin <= end /\ end - begin = to - from
  OBVIOUS
<1> DEFINE begins == {i \in 1 .. end : \A j \in i .. end - 1 : opened[j] # LF}
<1>1. begin \in begins /\ \A j \in begins : begin <= j
  <2>1. begin \in begins
    OBVIOUS
  <2>2. ASSUME NEW j \in begins, j < begin
        PROVE  FALSE
    <3>1. begin - 1 \in j .. end - 1 /\ begin # 1
      BY <2>2
    <3> QED
      BY <2>2, <3>1
  <2> QED
    BY <2>1, <2>2
<1>2. \A i \in begins : (\A j \in begins : i <= j) => i = begin
  BY <1>1
<1> DEFINE first == CHOOSE i \in begins : \A j \in begins : i <= j
<1>3. first = begin
  <2> HIDE DEF begins
  <2> QED
    BY <1>1, <1>2
<1>4. /\ Len(SubSeq(opened, begin, end - 1)) = end - begin
      /\ Upto(SubSeq(opened, begin, end - 1), MaximumLineBytes) = bytes
  <2>1. /\ Len(SubSeq(opened, from + 1, to)) = to - from
        /\ Upto(SubSeq(opened, from + 1, to), MaximumLineBytes) = bytes
    BY SamePart
  <2> QED
    BY <2>1
<1>5. LineAt(opened, end) =
        Shown(Upto(SubSeq(opened, first, end - 1), MaximumLineBytes),
              Len(SubSeq(opened, first, end - 1)) > MaximumLineBytes)
  BY DEF LineAt
<1>6. (end - begin > MaximumLineBytes) = cut
  OBVIOUS
<1> HIDE DEF first
<1> QED
  BY <1>3, <1>4, <1>5, <1>6

\* A part put in front of what is kept of a line.
LEMMA PrependHolds ==
  ASSUME ReaderSizes, TypeOK, NEW prefix \in Seq(Byte), NEW from \in Nat, NEW to \in Nat,
         from + Len(prefix) <= to, to <= Len(opened),
         \A i \in 1 .. Len(prefix) : prefix[i] = opened[from + i],
         Holds(pending, from + Len(prefix), to),
         pendingTruncated <=> to - (from + Len(prefix)) > MaximumLineBytes
  PROVE  /\ Holds(PrependBounded(prefix).bytes, from, to)
         /\ PrependBounded(prefix).truncated <=> to - from > MaximumLineBytes
<1> DEFINE joined == prefix \o pending
           kept == Upto(joined, MaximumLineBytes)
           size == Least(MaximumLineBytes, Len(joined))
<1>1. /\ pending \in Seq(Byte) /\ pendingTruncated \in BOOLEAN
      /\ MaximumLineBytes \in Nat /\ Len(prefix) \in Nat /\ Len(pending) \in Nat
  BY DEF ReaderSizes, TypeOK
<1>2. /\ joined \in Seq(Byte) /\ Len(joined) = Len(prefix) + Len(pending)
      /\ \A i \in 1 .. Len(prefix) + Len(pending) :
           joined[i] = IF i <= Len(prefix) THEN prefix[i] ELSE pending[i - Len(prefix)]
  BY <1>1, ConcatProperties
<1>3. /\ Len(pending) = Least(MaximumLineBytes, to - (from + Len(prefix)))
      /\ \A i \in 1 .. Len(pending) : pending[i] = opened[from + Len(prefix) + i]
  BY DEF Holds
<1> HIDE DEF joined
<1>4. \A i \in 1 .. Len(joined) : joined[i] = opened[from + i]
  <2> SUFFICES ASSUME NEW i \in 1 .. Len(joined) PROVE joined[i] = opened[from + i]
    OBVIOUS
  <2>1. CASE i <= Len(prefix)
    <3>1. i \in 1 .. Len(prefix) /\ i \in 1 .. Len(prefix) + Len(pending)
      BY <1>1, <1>2, <2>1
    <3>2. joined[i] = prefix[i]
      BY <1>2, <2>1, <3>1
    <3> QED
      BY <3>1, <3>2
  <2>2. CASE i > Len(prefix)
    <3>1. i - Len(prefix) \in 1 .. Len(pending)
      BY <1>1, <1>2, <2>2
    <3>2. joined[i] = pending[i - Len(prefix)]
      BY <1>1, <1>2, <2>2
    <3>3. pending[i - Len(prefix)] = opened[from + Len(prefix) + (i - Len(prefix))]
      BY <1>3, <3>1
    <3>4. from + Len(prefix) + (i - Len(prefix)) = from + i
      BY <1>1, <1>2
    <3> QED
      BY <3>2, <3>3, <3>4
  <2> QED
    BY <1>1, <1>2, <2>1, <2>2
<1>5. size = Least(MaximumLineBytes, to - from) /\ size \in Nat /\ size <= Len(joined)
  BY <1>1, <1>2, <1>3 DEF Least
<1>6. /\ kept \in Seq(Byte) /\ Len(kept) = size
      /\ \A i \in 1 .. size : kept[i] = joined[i]
  <2>1. \A i \in 1 .. size : joined[i] \in Byte
    BY <1>2, <1>5
  <2>2. /\ SubSeq(joined, 1, size) \in Seq(Byte)
        /\ Len(SubSeq(joined, 1, size)) = IF 1 <= size THEN size - 1 + 1 ELSE 0
        /\ \A i \in 1 .. size - 1 + 1 : SubSeq(joined, 1, size)[i] = joined[1 + i - 1]
    BY <1>5, <2>1, SubSeqProperties
  <2>3. kept = SubSeq(joined, 1, size)
    BY DEF Upto
  <2> HIDE DEF kept, size
  <2> QED
    BY <1>5, <2>2, <2>3
<1>7. PrependBounded(prefix).bytes = kept
  BY DEF PrependBounded, joined
<1>8. PrependBounded(prefix).truncated
        <=> pendingTruncated \/ Len(prefix) + Len(pending) > MaximumLineBytes
  BY DEF PrependBounded
<1>9. PrependBounded(prefix).truncated <=> to - from > MaximumLineBytes
  BY <1>1, <1>3, <1>8 DEF Least
<1> HIDE DEF kept, size
<1>10. Holds(kept, from, to)
  <2>1. \A i \in 1 .. size : kept[i] = opened[from + i]
    <3> SUFFICES ASSUME NEW i \in 1 .. size PROVE kept[i] = opened[from + i]
      OBVIOUS
    <3>1. i \in 1 .. Len(joined)
      BY <1>1, <1>2, <1>5
    <3> QED
      BY <1>4, <1>6, <3>1
  <2> QED
    BY <1>5, <1>6, <2>1 DEF Holds
<1> QED
  BY <1>7, <1>9, <1>10

\* Which lines of the page were taken changes with the number of lines that
\* were passed.
LEMMA KeptFacts ==
  ASSUME ReaderSizes, TypeOK
  PROVE  /\ page \in Nat \ {0} /\ pageSize \in Nat \ {0} /\ FirstResultIndex \in Nat
         /\ \A n \in Nat :
              /\ Kept(n) \in Nat
              /\ InPage(n) => Kept(n) = n - FirstResultIndex /\ Kept(n + 1) = Kept(n) + 1
              /\ ~InPage(n) => Kept(n + 1) = Kept(n)
<1>1. page \in Nat \ {0} /\ pageSize \in Nat \ {0}
  BY DEF ReaderSizes, TypeOK
<1>2. FirstResultIndex \in Nat
  BY <1>1 DEF FirstResultIndex
<1> QED
  BY <1>1, <1>2 DEF Kept, InPage, Least

\* A line that is taken is the next of the page, or not on it.
LEMMA ConsumeMatches ==
  ASSUME ReaderSizes, TypeOK, PageMatches, UNCHANGED <<request, opened>>, opened # <<>>,
         NEW end \in 1 .. Len(opened) + 1, total = Cardinality(EndsBehind(end)),
         IF firstCandidate THEN end = Len(opened) + 1 ELSE end \in Feeds(opened),
         NEW line, line.bytes \in Seq(Byte), line.truncated \in BOOLEAN,
         Shown(line.bytes, line.truncated) = LineAt(opened, end),
         firstCandidate => (line.bytes = <<>> <=> opened[Len(opened)] = LF),
         Consume(line)
  PROVE  /\ PageMatches'
         /\ firstCandidate' = FALSE
         /\ total' = Cardinality({e \in Ends(opened) : e >= end})
<1>1. /\ opened \in Seq(Byte) /\ Len(opened) \in Nat /\ total \in Nat
      /\ lines \in Seq(Line)
      /\ opened' = opened /\ FirstResultIndex' = FirstResultIndex
      /\ \A n : Kept(n)' = Kept(n)
  BY DEF TypeOK, request, FirstResultIndex, Kept
<1>2. firstCandidate' = FALSE
  BY DEF Consume
<1>3. /\ EndsBehind(end) \in SUBSET Ends(opened)
      /\ IsFiniteSet(EndsBehind(end)) /\ end \notin EndsBehind(end)
      /\ \A e \in Ends(opened) : e \in Int
  BY <1>1, EndsFacts DEF EndsBehind
<1>4. CASE firstCandidate /\ line.bytes = <<>>
  <2>1. UNCHANGED <<total, lines>>
    BY <1>4 DEF Consume
  <2>2. end \notin Ends(opened)
    BY <1>1, <1>4 DEF Ends, Feeds
  <2>3. {e \in Ends(opened) : e >= end} = EndsBehind(end)
    BY <1>3, <2>2 DEF EndsBehind
  <2>4. PageMatches'
    BY <1>1, <2>1 DEF PageMatches
  <2> QED
    BY <1>2, <2>1, <2>3, <2>4
<1>5. CASE ~(firstCandidate /\ line.bytes = <<>>)
  <2>1. /\ total' = total + 1
        /\ lines' = IF InPage(total)
                    THEN Append(lines, Shown(line.bytes, line.truncated)) ELSE lines
    BY <1>5 DEF Consume
  <2>2. end \in Ends(opened)
    BY <1>1, <1>5 DEF Ends
  <2>3. {e \in Ends(opened) : e >= end} = EndsBehind(end) \cup {end}
    <3>1. \A e \in Ends(opened) : e >= end <=> e > end \/ e = end
      BY <1>3
    <3>2. \A e : e \in {x \in Ends(opened) : x >= end} <=> e \in EndsBehind(end) \/ e = end
      BY <2>2, <3>1 DEF EndsBehind
    <3> QED
      BY <3>2, ZenonT(30)
  <2>4. total' = Cardinality({e \in Ends(opened) : e >= end})
    BY <1>3, <2>1, <2>3, FS_AddElement
  <2>5. FromEnd(opened, total) = LineAt(opened, end)
    BY <1>1, <2>2, CountedFromEnd DEF EndsBehind
  <2>6. PageMatches'
    <3>1. CASE InPage(total)
      <4> DEFINE shown == Shown(line.bytes, line.truncated)
      <4>1. lines' = Append(lines, shown) /\ shown \in Line
        BY <2>1, <3>1, ShownIsALine
      <4> HIDE DEF shown
      <4>2. /\ Len(lines') = Len(lines) + 1 /\ Len(lines) \in Nat
            /\ \A i \in 1 .. Len(lines) : lines'[i] = lines[i]
            /\ lines'[Len(lines) + 1] = shown
        BY <1>1, <4>1, AppendProperties
      <4>3. /\ Len(lines) = total - FirstResultIndex
            /\ Kept(total + 1) = Len(lines) + 1 /\ FirstResultIndex \in Nat
        BY <1>1, <3>1, KeptFacts DEF PageMatches
      <4>4. Len(lines') = Kept(total)'
        BY <1>1, <2>1, <4>2, <4>3
      <4>5. FirstResultIndex + (Len(lines) + 1) - 1 = total
        BY <1>1, <4>3
      <4>6. lines'[Len(lines) + 1] =
              FromEnd(opened, FirstResultIndex + (Len(lines) + 1) - 1)
        BY <2>5, <4>2, <4>5 DEF shown
      <4>7. \A i \in 1 .. Len(lines') :
              lines'[i] = FromEnd(opened, FirstResultIndex + i - 1)
        <5> SUFFICES ASSUME NEW i \in 1 .. Len(lines')
                     PROVE  lines'[i] = FromEnd(opened, FirstResultIndex + i - 1)
          OBVIOUS
        <5>1. CASE i = Len(lines) + 1
          BY <4>6, <5>1
        <5>2. CASE i # Len(lines) + 1
          <6>1. i \in 1 .. Len(lines)
            BY <4>2, <5>2
          <6> QED
            BY <4>2, <6>1 DEF PageMatches
        <5> QED
          BY <5>1, <5>2
      <4> QED
        BY <1>1, <4>4, <4>7 DEF PageMatches
    <3>2. CASE ~InPage(total)
      <4>1. lines' = lines /\ Kept(total + 1) = Kept(total)
        BY <1>1, <2>1, <3>2, KeptFacts
      <4> QED
        BY <1>1, <2>1, <4>1 DEF PageMatches
    <3> QED
      BY <3>1, <3>2
  <2> QED
    BY <1>2, <2>4, <2>6
<1> QED
  BY <1>4, <1>5

\* A step that passes no line of the file that was opened.
LEMMA PageMatchesStays ==
  ASSUME PageMatches, UNCHANGED <<request, opened, total, lines>>
  PROVE  PageMatches'
<1>1. FirstResultIndex' = FirstResultIndex /\ \A n : Kept(n)' = Kept(n)
  BY DEF FirstResultIndex, Kept, request
<1> QED
  BY <1>1 DEF PageMatches

\* A step that leaves the place of the scan where it is.
LEMMA ScansStays ==
  ASSUME NEW end, Scans(end), Place' = Place, UNCHANGED <<scan, opened>>
  PROVE  Scans(end)'
BY DEF Scans, Holds, EndsBehind, scan

-----------------------------------------------------------------------------
(***************************************************************************)
(* The steps of the scan.                                                  *)
(***************************************************************************)

LEMMA InitMatches ==
  ASSUME ReaderInit
  PROVE  ScanMatches
BY DEF ReaderInit, ScanMatches, NothingScanned

LEMMA StartChunkPlace ==
  ASSUME ReaderSizes, NEW end \in Nat, StartChunk(end)
  PROVE  reader' = "reading" /\ position' + length' = end /\ chunk' = <<>> /\ Place' = end
BY DEF ReaderSizes, StartChunk, Least, Place

LEMMA OpenMatches ==
  ASSUME ReaderSizes, IInv, ScanMatches, Open
  PROVE  ScanMatches'
<1>1. /\ reader = "closed" /\ opened' = file
      /\ UNCHANGED <<file, edits, request, scan, truncated, mixed>>
  BY DEF Open
<1> SUFFICES ASSUME ~mixed
             PROVE  ScanMatches'
  BY <1>1 DEF ScanMatches
<1>2. NothingScanned /\ file \in Seq(Byte) /\ Len(file) \in Nat
  BY <1>1 DEF ScanMatches, IInv, TypeOK
<1>3. /\ pending' = <<>> /\ ~pendingTruncated' /\ firstCandidate'
      /\ total' = 0 /\ lines' = <<>> /\ ~truncated'
  BY <1>1, <1>2 DEF NothingScanned, scan
<1>4. PageMatches'
  <2>1. FirstResultIndex' = FirstResultIndex /\ FirstResultIndex \in Nat
    BY <1>1, KeptFacts DEF FirstResultIndex, request, IInv
  <2>2. Kept(total)' = 0
    BY <1>3, <2>1 DEF Kept
  <2>3. Len(lines') = 0
    BY <1>3
  <2> QED
    BY <2>2, <2>3 DEF PageMatches
<1>5. CASE file = <<>>
  <2>1. reader' = "done"
    BY <1>5 DEF Open
  <2>2. Ends(opened') = {}
    BY <1>1, <1>5 DEF Ends, Feeds
  <2>3. total' = Cardinality(Ends(opened'))
    BY <1>3, <2>2, FS_EmptySet
  <2> QED
    BY <1>4, <2>1, <2>3 DEF ScanMatches
<1>6. CASE file # <<>>
  <2> PICK size \in Nat : size = Len(file)
    BY <1>2
  <2> PICK end \in Nat : end = size + 1
    OBVIOUS
  <2>1. /\ reader' = "reading" /\ position' + length' = size /\ chunk' = <<>> /\ Place' = size
    BY <1>2, <1>6, StartChunkPlace DEF Open
  <2>2. FileMatches'
    BY <1>1, <1>2, <2>1 DEF FileMatches
  <2>3. Scans(end)'
    <3>1. EndsBehind(end)' = {}
      BY <1>1, <1>2, EndsFacts DEF EndsBehind
    <3>2. total' = Cardinality(EndsBehind(end)')
      BY <1>3, <3>1, FS_EmptySet
    <3>3. Holds(pending, Place, end - 1)'
      <4>1. Len(pending') = 0 /\ end - 1 - Place' = 0
        BY <1>3, <2>1
      <4>2. Least(MaximumLineBytes, 0) = 0
        BY DEF ReaderSizes, Least
      <4>3. Len(pending') = Least(MaximumLineBytes, end - 1 - Place')
        BY <4>1, <4>2
      <4>4. \A i \in 1 .. Len(pending') : pending'[i] = opened'[Place' + i]
        BY <4>1
      <4> QED
        BY <4>3, <4>4 DEF Holds
    <3>4. pendingTruncated' <=> end - 1 - Place' > MaximumLineBytes
      BY <1>2, <1>3, <2>1 DEF ReaderSizes
    <3> QED
      BY <1>1, <1>2, <1>3, <2>1, <3>2, <3>3, <3>4 DEF Scans
  <2>4. end \in 1 .. Len(opened') + 1 /\ opened' # <<>>
    BY <1>1, <1>2, <1>6
  <2> QED
    BY <1>4, <2>1, <2>2, <2>3, <2>4 DEF ScanMatches
<1> QED
  BY <1>5, <1>6

LEMMA ReadMatches ==
  ASSUME ReaderSizes, IInv, ScanMatches, NEW count \in 1 .. ChunkSize, Read(count)
  PROVE  ScanMatches'
<1> DEFINE from == position + Len(chunk)
           part == SubSeq(file, from + 1, from + count)
<1>1. /\ reader = "reading" /\ from \in Nat /\ count \in Nat /\ from + count <= Len(file)
      /\ file \in Seq(Byte) /\ opened \in Seq(Byte) /\ chunk \in Seq(Byte) /\ length \in Nat
      /\ position \in Nat /\ count <= length - Len(chunk) /\ Len(chunk) \in Nat
  BY DEF ReaderSizes, IInv, TypeOK, Read
<1>2. /\ chunk' = chunk \o part /\ mixed' = (mixed \/ truncated)
      /\ reader' = IF Len(chunk') = length THEN "scanning" ELSE "reading"
      /\ UNCHANGED <<file, edits, request, position, length, scan, opened, truncated>>
  BY DEF Read
<1> SUFFICES ASSUME ~mixed, ~truncated
             PROVE  ScanMatches'
  BY <1>2 DEF ScanMatches
<1>3. /\ part \in Seq(Byte) /\ Len(part) = count
      /\ \A i \in 1 .. count : part[i] = file[from + i]
  <2>1. \A i \in from + 1 .. from + count : file[i] \in Byte
    BY <1>1
  <2>2. /\ part \in Seq(Byte)
        /\ Len(part) = IF from + 1 <= from + count THEN from + count - (from + 1) + 1 ELSE 0
        /\ \A i \in 1 .. from + count - (from + 1) + 1 : part[i] = file[from + 1 + i - 1]
    BY <1>1, <2>1, SubSeqProperties
  <2>3. from + count - (from + 1) + 1 = count /\ from + 1 <= from + count
    BY <1>1
  <2>4. \A i \in 1 .. count : from + 1 + i - 1 = from + i
    BY <1>1
  <2> HIDE DEF from, part
  <2>5. Len(part) = count
    BY <2>2, <2>3
  <2>6. \A i \in 1 .. count : part[i] = file[from + 1 + i - 1]
    BY <2>2, <2>3
  <2> QED
    BY <2>2, <2>4, <2>5, <2>6
<1>4. FileMatches /\ opened # <<>> /\ PageMatches
  BY <1>1 DEF ScanMatches
<1>5. /\ Len(chunk') = Len(chunk) + count
      /\ \A i \in 1 .. Len(chunk) + count :
           chunk'[i] = IF i <= Len(chunk) THEN chunk[i] ELSE part[i - Len(chunk)]
  BY <1>1, <1>2, <1>3, ConcatProperties
<1>6. FileMatches'
  <2>1. /\ position + length <= Len(opened)
        /\ \A i \in 1 .. Len(chunk) : chunk[i] = opened[position + i]
        /\ \A i \in 1 .. Len(opened) : file[i] = opened[i]
    BY <1>1, <1>4 DEF FileMatches
  <2>2. \A i \in 1 .. Len(chunk') : chunk'[i] = opened[position + i]
    <3> SUFFICES ASSUME NEW i \in 1 .. Len(chunk')
                 PROVE  chunk'[i] = opened[position + i]
      OBVIOUS
    <3>1. i \in 1 .. Len(chunk) + count
      BY <1>5
    <3>2. CASE i <= Len(chunk)
      BY <1>1, <1>5, <2>1, <3>1, <3>2
    <3>3. CASE i > Len(chunk)
      <4>1. i - Len(chunk) \in 1 .. count /\ from + (i - Len(chunk)) = position + i
        BY <1>1, <3>1, <3>3
      <4>2. position + i \in 1 .. Len(opened)
        BY <1>1, <2>1, <3>1
      <4>3. chunk'[i] = part[i - Len(chunk)]
        <5>1. chunk'[i] = IF i <= Len(chunk) THEN chunk[i] ELSE part[i - Len(chunk)]
          BY <1>5, <3>1
        <5>2. ~(i <= Len(chunk))
          BY <1>1, <3>1, <3>3
        <5> HIDE DEF part
        <5> QED
          BY <5>1, <5>2
      <4>4. part[i - Len(chunk)] = file[position + i]
        BY <1>3, <4>1
      <4> QED
        BY <2>1, <4>2, <4>3, <4>4
    <3> QED
      BY <1>1, <3>1, <3>2, <3>3
  <2> QED
    BY <1>2, <1>4, <2>1, <2>2 DEF FileMatches
<1>7. Place' = Place
  BY <1>1, <1>2 DEF Place
<1>8. \E end \in 1 .. Len(opened) + 1 : Scans(end)'
  BY <1>1, <1>2, <1>7, ScansStays DEF ScanMatches
<1>9. PageMatches'
  BY <1>2, <1>4, PageMatchesStays DEF scan
<1> QED
  BY <1>2, <1>4, <1>6, <1>8, <1>9 DEF ScanMatches

\* The end of the line becomes the line feed in front of it.
LEMMA TakeLineMatches ==
  ASSUME ReaderSizes, IInv, ScanMatches, TakeLine
  PROVE  ScanMatches'
<1>1. /\ reader = "scanning" /\ pending' = <<>> /\ pendingTruncated' = FALSE
      /\ UNCHANGED <<file, edits, reader, request, position, length, history>>
  BY DEF TakeLine
<1>2. UNCHANGED <<opened, truncated, mixed>>
  BY <1>1 DEF history
<1> SUFFICES ASSUME ~mixed
             PROVE  ScanMatches'
  BY <1>2 DEF ScanMatches
<1>3. /\ opened \in Seq(Byte) /\ chunk \in Seq(Byte) /\ position \in Nat
      /\ Len(chunk) \in Nat /\ Len(opened) \in Nat /\ TypeOK
      /\ MaximumLineBytes \in Nat \ {0}
  BY DEF ReaderSizes, IInv, TypeOK
<1>4. FileMatches /\ opened # <<>> /\ PageMatches
  BY <1>1 DEF ScanMatches
<1>5. PICK end \in 1 .. Len(opened) + 1 : Scans(end)
  BY <1>1 DEF ScanMatches
<1>6. PICK index \in Feeds(chunk) :
        /\ \A i \in Feeds(chunk) : i <= index
        /\ Consume(PrependBounded(SubSeq(chunk, index + 1, Len(chunk))))
        /\ chunk' = Upto(chunk, index - 1)
  BY DEF TakeLine
<1>7. index \in 1 .. Len(chunk) /\ chunk[index] = LF
  BY DEF Feeds
<1>8. /\ Place = position + Len(chunk)
      /\ position + length <= Len(opened) /\ length \in Nat /\ Len(chunk) <= length
      /\ \A i \in 1 .. Len(chunk) : chunk[i] = opened[position + i]
  BY <1>1, <1>4 DEF Place, FileMatches, IInv, TypeOK
<1>9. /\ Place < end
      /\ IF firstCandidate THEN end = Len(opened) + 1 ELSE end \in Feeds(opened)
      /\ \A i \in Place + 1 .. end - 1 : opened[i] # LF
      /\ Holds(pending, Place, end - 1)
      /\ pendingTruncated <=> end - 1 - Place > MaximumLineBytes
      /\ total = Cardinality(EndsBehind(end))
  BY <1>5 DEF Scans
<1> DEFINE part == SubSeq(chunk, index + 1, Len(chunk))
           line == PrependBounded(part)
<1> PICK from \in Nat \ {0} : from = position + index
  BY <1>3, <1>7
<1> PICK to \in Nat : to = end - 1
  OBVIOUS
<1>10. /\ part \in Seq(Byte) /\ Len(part) = Len(chunk) - index
       /\ \A i \in 1 .. Len(part) : part[i] = opened[from + i]
  <2>1. \A i \in index + 1 .. Len(chunk) : chunk[i] \in Byte
    BY <1>3, <1>7
  <2>2. /\ part \in Seq(Byte)
        /\ Len(part) = IF index + 1 <= Len(chunk) THEN Len(chunk) - (index + 1) + 1 ELSE 0
        /\ \A i \in 1 .. Len(chunk) - (index + 1) + 1 : part[i] = chunk[index + 1 + i - 1]
    BY <1>3, <1>7, <2>1, SubSeqProperties
  <2>3. Len(chunk) - (index + 1) + 1 = Len(chunk) - index
    BY <1>3, <1>7
  <2> HIDE DEF part
  <2>4. Len(part) = Len(chunk) - index
    BY <1>3, <1>7, <2>2
  <2>5. \A i \in 1 .. Len(part) : part[i] = opened[from + i]
    <3> SUFFICES ASSUME NEW i \in 1 .. Len(part) PROVE part[i] = opened[from + i]
      OBVIOUS
    <3>1. part[i] = chunk[index + 1 + i - 1]
      BY <2>2, <2>3, <2>4
    <3>2. index + 1 + i - 1 = index + i /\ index + i \in 1 .. Len(chunk)
      BY <1>3, <1>7, <2>4
    <3>3. chunk[index + i] = opened[position + (index + i)]
      BY <1>8, <3>2
    <3>4. position + (index + i) = from + i
      BY <1>3, <1>7
    <3> QED
      BY <3>1, <3>2, <3>3, <3>4
  <2> QED
    BY <2>2, <2>4, <2>5
<1> HIDE DEF part
<1>11. /\ from + Len(part) = Place /\ Place <= to /\ to <= Len(opened) /\ from <= to
       /\ opened[from] = LF
       /\ \A i \in from + 1 .. to : opened[i] # LF
  <2>1. from + Len(part) = Place /\ Place <= to /\ to <= Len(opened) /\ from <= to
    BY <1>3, <1>7, <1>8, <1>9, <1>10
  <2>2. opened[from] = LF
    BY <1>7, <1>8
  <2>3. ASSUME NEW i \in from + 1 .. to
        PROVE  opened[i] # LF
    <3>1. CASE i <= Place
      <4>1. i - position \in 1 .. Len(chunk) /\ i - position > index
        BY <1>3, <1>7, <1>8, <3>1
      <4>2. chunk[i - position] # LF
        BY <1>6, <1>7, <4>1 DEF Feeds
      <4>3. chunk[i - position] = opened[position + (i - position)]
        BY <1>8, <4>1
      <4>4. position + (i - position) = i
        BY <1>3
      <4> QED
        BY <4>2, <4>3, <4>4
    <3>2. CASE i > Place
      BY <1>3, <1>8, <1>9, <3>2
    <3> QED
      BY <1>3, <1>8, <3>1, <3>2
  <2> QED
    BY <2>1, <2>2, <2>3
<1>12. /\ line.bytes \in Seq(Byte) /\ line.truncated \in BOOLEAN
       /\ Holds(line.bytes, from, to)
       /\ line.truncated <=> to - from > MaximumLineBytes
  <2>1. line.bytes \in Seq(Byte) /\ line.truncated \in BOOLEAN
    BY <1>3, <1>10, PrependBoundedFacts
  <2>2. Holds(pending, from + Len(part), to)
    BY <1>9, <1>11
  <2>3. pendingTruncated <=> to - (from + Len(part)) > MaximumLineBytes
    BY <1>9, <1>11
  <2>4. from \in Nat /\ from + Len(part) <= to
    BY <1>11
  <2> QED
    BY <1>3, <1>10, <1>11, <2>1, <2>2, <2>3, <2>4, PrependHolds
<1> HIDE DEF line
<1>13. Shown(line.bytes, line.truncated) = LineAt(opened, end)
  <2>1. from <= to /\ to <= Len(opened) /\ to + 1 = end /\ from \in Nat /\ to \in Nat
    BY <1>3, <1>11
  <2>2. opened[from] = LF /\ \A i \in from + 1 .. to : opened[i] # LF
    BY <1>3, <1>11, <2>1
  <2>3. opened \in Seq(Byte)
    BY <1>3
  <2>4. LineAt(opened, to + 1) = Shown(line.bytes, line.truncated)
    BY <1>12, <2>1, <2>2, <2>3, LineIs
  <2> QED
    BY <2>1, <2>4
<1>14. firstCandidate => (line.bytes = <<>> <=> opened[Len(opened)] = LF)
  <2> SUFFICES ASSUME firstCandidate
               PROVE  line.bytes = <<>> <=> opened[Len(opened)] = LF
    OBVIOUS
  <2>1. to = Len(opened)
    BY <1>3, <1>9
  <2>2. Len(line.bytes) = Least(MaximumLineBytes, to - from)
    BY <1>12 DEF Holds
  <2>3. line.bytes = <<>> <=> from = to
    <3>1. line.bytes = <<>> <=> Len(line.bytes) = 0
      BY <1>12
    <3>2. Least(MaximumLineBytes, to - from) = 0 <=> from = to
      <4>1. MaximumLineBytes \in Nat \ {0} /\ from \in Nat /\ to \in Nat /\ from <= to
        BY <1>3, <1>11
      <4> QED
        BY <4>1 DEF Least
    <3> QED
      BY <2>2, <3>1, <3>2
  <2>4. from = to <=> opened[to] = LF
    BY <1>11
  <2> QED
    BY <2>1, <2>3, <2>4
<1>15. /\ PageMatches' /\ firstCandidate' = FALSE
       /\ total' = Cardinality({e \in Ends(opened) : e >= end})
  <2>1. Consume(line)
    BY <1>6 DEF line, part
  <2> QED
    BY <1>1, <1>2, <1>3, <1>4, <1>9, <1>12, <1>13, <1>14, <2>1, ConsumeMatches
<1>16. /\ Len(chunk') = index - 1
       /\ \A i \in 1 .. Len(chunk') : chunk'[i] = opened[position + i]
  <2>1. Least(index - 1, Len(chunk)) = index - 1 /\ index - 1 \in Nat
    BY <1>3, <1>7 DEF Least
  <2>2. chunk' = SubSeq(chunk, 1, index - 1)
    BY <1>6, <2>1 DEF Upto
  <2>3. \A i \in 1 .. index - 1 : chunk[i] \in Byte
    BY <1>3, <1>7
  <2>4. /\ Len(chunk') = IF 1 <= index - 1 THEN index - 1 - 1 + 1 ELSE 0
        /\ \A i \in 1 .. index - 1 - 1 + 1 : chunk'[i] = chunk[1 + i - 1]
    BY <2>1, <2>2, <2>3, SubSeqProperties
  <2>5. Len(chunk') = index - 1
    BY <2>1, <2>4
  <2>6. \A i \in 1 .. index - 1 : chunk'[i] = chunk[i]
    BY <2>1, <2>4
  <2>7. \A i \in 1 .. index - 1 : i \in 1 .. Len(chunk)
    BY <1>3, <1>7
  <2> QED
    BY <1>8, <2>5, <2>6, <2>7
<1>17. FileMatches'
  BY <1>1, <1>2, <1>4, <1>8, <1>16 DEF FileMatches
<1>18. Place' = from - 1
  BY <1>1, <1>3, <1>7, <1>16 DEF Place
<1>19. EndsBehind(from) = {e \in Ends(opened) : e >= end}
  <2>1. \A e \in Ends(opened) : e > from <=> e >= end
    <3> SUFFICES ASSUME NEW e \in Ends(opened)
                 PROVE  e > from <=> e >= end
      OBVIOUS
    <3>1. e \in 1 .. Len(opened) + 1
      BY <1>3, EndsFacts
    <3>2. e \notin from + 1 .. to
      BY <1>3, <1>11 DEF Ends, Feeds
    <3> QED
      BY <1>11, <3>1, <3>2
  <2> QED
    BY <2>1 DEF EndsBehind
<1>20. Scans(from)'
  <2>1. EndsBehind(from)' = EndsBehind(from)
    BY <1>2 DEF EndsBehind
  <2>2. from \in Feeds(opened') /\ from <= Len(opened') + 1
    BY <1>2, <1>3, <1>11 DEF Feeds
  <2>3. \A i \in Place' + 1 .. from - 1 : opened'[i] # LF
    BY <1>18
  <2>4. Holds(pending, Place, from - 1)'
    <3>1. Len(pending') = 0 /\ from - 1 - Place' = 0
      BY <1>1, <1>18
    <3>2. Least(MaximumLineBytes, 0) = 0
      BY DEF ReaderSizes, Least
    <3> QED
      BY <3>1, <3>2 DEF Holds
  <2>5. pendingTruncated' <=> from - 1 - Place' > MaximumLineBytes
    BY <1>1, <1>3, <1>18
  <2>6. Place' < from /\ total' = Cardinality(EndsBehind(from)') /\ ~firstCandidate'
    <3>1. Place' < from
      BY <1>18
    <3>2. total' = Cardinality(EndsBehind(from))
      BY <1>15, <1>19, Zenon
    <3> QED
      BY <1>15, <2>1, <3>1, <3>2
  <2> QED
    BY <2>2, <2>3, <2>4, <2>5, <2>6 DEF Scans
<1>21. from \in 1 .. Len(opened') + 1
  BY <1>2, <1>3, <1>11
<1> QED
  BY <1>1, <1>2, <1>4, <1>15, <1>17, <1>20, <1>21 DEF ScanMatches

\* The line goes on in front of the chunk.
LEMMA FinishChunkMatches ==
  ASSUME ReaderSizes, IInv, ScanMatches, FinishChunk
  PROVE  ScanMatches'
<1>1. /\ reader = "scanning" /\ Feeds(chunk) = {}
      /\ pending' = PrependBounded(chunk).bytes
      /\ pendingTruncated' = PrependBounded(chunk).truncated
      /\ UNCHANGED <<file, edits, request, firstCandidate, total, lines, history>>
  BY DEF FinishChunk
<1>2. UNCHANGED <<opened, truncated, mixed>>
  BY <1>1 DEF history
<1> SUFFICES ASSUME ~mixed
             PROVE  ScanMatches'
  BY <1>2 DEF ScanMatches
<1>3. /\ opened \in Seq(Byte) /\ chunk \in Seq(Byte) /\ position \in Nat
      /\ Len(chunk) \in Nat /\ Len(opened) \in Nat /\ TypeOK
      /\ MaximumLineBytes \in Nat \ {0}
  BY DEF ReaderSizes, IInv, TypeOK
<1>4. FileMatches /\ opened # <<>> /\ PageMatches
  BY <1>1 DEF ScanMatches
<1>5. PICK end \in 1 .. Len(opened) + 1 : Scans(end)
  BY <1>1 DEF ScanMatches
<1>6. /\ Place = position + Len(chunk)
      /\ position + length <= Len(opened) /\ length \in Nat /\ Len(chunk) <= length
      /\ \A i \in 1 .. Len(chunk) : chunk[i] = opened[position + i]
  BY <1>1, <1>4 DEF Place, FileMatches, IInv, TypeOK
<1>7. /\ Place < end
      /\ IF firstCandidate THEN end = Len(opened) + 1 ELSE end \in Feeds(opened)
      /\ \A i \in Place + 1 .. end - 1 : opened[i] # LF
      /\ Holds(pending, Place, end - 1)
      /\ pendingTruncated <=> end - 1 - Place > MaximumLineBytes
      /\ total = Cardinality(EndsBehind(end))
  BY <1>5 DEF Scans
<1> PICK to \in Nat : to = end - 1
  OBVIOUS
<1>8. /\ Holds(pending', position, to)
      /\ pendingTruncated' <=> to - position > MaximumLineBytes
  <2>1. position + Len(chunk) <= to /\ to <= Len(opened)
    BY <1>3, <1>6, <1>7
  <2>2. Holds(pending, position + Len(chunk), to)
    BY <1>6, <1>7
  <2>3. pendingTruncated <=> to - (position + Len(chunk)) > MaximumLineBytes
    BY <1>6, <1>7
  <2>4. /\ Holds(PrependBounded(chunk).bytes, position, to)
        /\ PrependBounded(chunk).truncated <=> to - position > MaximumLineBytes
    BY <1>3, <1>6, <2>1, <2>2, <2>3, PrependHolds
  <2> QED
    BY <1>1, <2>4
<1>9. \A i \in position + 1 .. end - 1 : opened[i] # LF
  <2> SUFFICES ASSUME NEW i \in position + 1 .. end - 1
               PROVE  opened[i] # LF
    OBVIOUS
  <2>1. CASE i <= Place
    <3>1. i - position \in 1 .. Len(chunk) /\ position + (i - position) = i
      BY <1>3, <1>6, <2>1
    <3>2. chunk[i - position] # LF
      BY <1>1, <3>1 DEF Feeds
    <3> QED
      BY <1>6, <3>1, <3>2
  <2>2. CASE i > Place
    BY <1>3, <1>6, <1>7, <2>2
  <2> QED
    BY <1>3, <1>6, <2>1, <2>2
<1>10. /\ reader' \in {"reading", "last"} /\ Place' = position
       /\ reader' = "reading" => position' + length' = position /\ chunk' = <<>>
  <2>1. CASE position > 0
    BY <1>3, <2>1, StartChunkPlace DEF FinishChunk
  <2>2. CASE ~(position > 0)
    <3>1. position = 0 /\ reader' = "last"
      BY <1>3, <2>2 DEF FinishChunk
    <3> QED
      BY <3>1 DEF Place
  <2> QED
    BY <2>1, <2>2
<1>11. FileMatches'
  <2>1. position <= Len(opened)
    BY <1>3, <1>6
  <2> QED
    BY <1>1, <1>2, <1>4, <1>10, <2>1 DEF FileMatches
<1>12. Scans(end)'
  <2>1. EndsBehind(end)' = EndsBehind(end)
    BY <1>2 DEF EndsBehind
  <2>2. position < end
    BY <1>3, <1>6, <1>7
  <2>3. Holds(pending, Place, end - 1)'
    BY <1>2, <1>8, <1>10 DEF Holds
  <2>4. pendingTruncated' <=> end - 1 - Place' > MaximumLineBytes
    BY <1>8, <1>10
  <2>5. IF firstCandidate' THEN end = Len(opened') + 1 ELSE end \in Feeds(opened')
    BY <1>1, <1>2, <1>7
  <2>6. total' = Cardinality(EndsBehind(end)')
    BY <1>1, <1>7, <2>1
  <2>7. \A i \in Place' + 1 .. end - 1 : opened'[i] # LF
    BY <1>2, <1>9, <1>10
  <2> QED
    BY <1>2, <1>10, <2>2, <2>3, <2>4, <2>5, <2>6, <2>7 DEF Scans
<1>13. PageMatches'
  BY <1>1, <1>2, <1>4, PageMatchesStays
<1> QED
  BY <1>2, <1>4, <1>10, <1>11, <1>12, <1>13 DEF ScanMatches

\* The first line of the file has nothing in front of it.
LEMMA TakeLastLineMatches ==
  ASSUME ReaderSizes, IInv, ScanMatches, TakeLastLine
  PROVE  ScanMatches'
<1> DEFINE line == [bytes |-> pending, truncated |-> pendingTruncated]
<1>1. /\ reader = "last" /\ Consume(line) /\ reader' = "done"
      /\ UNCHANGED <<file, edits, request, position, length, chunk,
                     pending, pendingTruncated, history>>
  BY DEF TakeLastLine
<1>2. UNCHANGED <<opened, truncated, mixed>>
  BY <1>1 DEF history
<1> SUFFICES ASSUME ~mixed
             PROVE  ScanMatches'
  BY <1>2 DEF ScanMatches
<1>3. /\ opened \in Seq(Byte) /\ Len(opened) \in Nat /\ TypeOK
      /\ MaximumLineBytes \in Nat \ {0}
      /\ line.bytes \in Seq(Byte) /\ line.truncated \in BOOLEAN
  BY DEF ReaderSizes, IInv, TypeOK
<1>4. opened # <<>> /\ PageMatches /\ Place = 0
  BY <1>1 DEF ScanMatches, Place
<1>5. PICK end \in 1 .. Len(opened) + 1 : Scans(end)
  BY <1>1 DEF ScanMatches
<1>6. /\ IF firstCandidate THEN end = Len(opened) + 1 ELSE end \in Feeds(opened)
      /\ \A i \in 1 .. end - 1 : opened[i] # LF
      /\ Holds(line.bytes, 0, end - 1)
      /\ line.truncated <=> end - 1 > MaximumLineBytes
      /\ total = Cardinality(EndsBehind(end))
  BY <1>4, <1>5 DEF Scans
<1> HIDE DEF line
<1>7. Shown(line.bytes, line.truncated) = LineAt(opened, end)
  <2> PICK from \in Nat, to \in Nat : from = 0 /\ to = end - 1
    BY <1>3
  <2>1. from <= to /\ to <= Len(opened) /\ to + 1 = end
    BY <1>3
  <2>2. /\ \A i \in from + 1 .. to : opened[i] # LF
        /\ Holds(line.bytes, from, to)
        /\ line.truncated <=> to - from > MaximumLineBytes
    BY <1>6
  <2>3. LineAt(opened, to + 1) = Shown(line.bytes, line.truncated)
    BY <1>3, <2>1, <2>2, LineIs
  <2> QED
    BY <2>1, <2>3
<1>8. firstCandidate => (line.bytes = <<>> <=> opened[Len(opened)] = LF)
  <2> SUFFICES ASSUME firstCandidate
               PROVE  line.bytes # <<>> /\ opened[Len(opened)] # LF
    OBVIOUS
  <2>1. Len(opened) > 0 /\ end - 1 = Len(opened)
    BY <1>3, <1>4, <1>6
  <2>2. Len(line.bytes) = Least(MaximumLineBytes, Len(opened))
    BY <2>1, <1>6 DEF Holds
  <2>3. Len(line.bytes) > 0
    BY <1>3, <2>1, <2>2 DEF Least
  <2> QED
    BY <1>3, <1>6, <2>1, <2>3
<1>9. /\ PageMatches' /\ firstCandidate' = FALSE
      /\ total' = Cardinality({e \in Ends(opened) : e >= end})
  BY <1>1, <1>2, <1>3, <1>4, <1>6, <1>7, <1>8, ConsumeMatches
<1>10. {e \in Ends(opened) : e >= end} = Ends(opened)
  <2>1. \A e \in Ends(opened) : e >= end
    <3> SUFFICES ASSUME NEW e \in Ends(opened)
                 PROVE  e >= end
      OBVIOUS
    <3>1. e \in 1 .. Len(opened) + 1
      BY <1>3, EndsFacts
    <3>2. e \notin 1 .. end - 1
      BY <1>3, <1>6 DEF Ends, Feeds
    <3> QED
      BY <3>1, <3>2
  <2> QED
    BY <2>1
<1>11. total' = Cardinality(Ends(opened'))
  BY <1>2, <1>9, <1>10
<1> QED
  BY <1>1, <1>9, <1>11 DEF ScanMatches

\* What Xray appends is behind what was opened; what is read after a
\* truncation is mixed.
LEMMA EditsMatch ==
  ASSUME ReaderSizes, IInv, ScanMatches, (\E byte \in Byte : Write(byte)) \/ Truncate
  PROVE  ScanMatches'
<1>1. /\ reader \in {"reading", "scanning"}
      /\ UNCHANGED <<reader, request, position, length, chunk, scan, opened, mixed>>
  BY DEF Write, Truncate, Edit
<1> SUFFICES ASSUME ~mixed
             PROVE  ScanMatches'
  BY <1>1 DEF ScanMatches
<1>2. FileMatches /\ opened # <<>> /\ PageMatches
  BY <1>1 DEF ScanMatches
<1>3. FileMatches'
  <2>1. CASE \E byte \in Byte : Write(byte)
    <3>1. PICK byte \in Byte : Write(byte)
      BY <2>1
    <3>2. /\ file' = Append(file, byte) /\ truncated' = truncated
          /\ file \in Seq(Byte) /\ Len(file) \in Nat /\ opened \in Seq(Byte)
          /\ Len(opened) \in Nat
      BY <3>1 DEF Write, IInv, TypeOK
    <3>3. /\ Len(file') = Len(file) + 1
          /\ \A i \in 1 .. Len(file) : file'[i] = file[i]
      BY <3>2, AppendProperties
    <3>4. ~truncated => /\ Len(opened) <= Len(file')
                        /\ \A i \in 1 .. Len(opened) : file'[i] = opened[i]
      BY <1>2, <3>2, <3>3 DEF FileMatches
    <3> QED
      BY <1>1, <1>2, <3>2, <3>4 DEF FileMatches
  <2>2. CASE Truncate
    <3>1. truncated' = TRUE
      BY <2>2 DEF Truncate
    <3> QED
      BY <1>1, <1>2, <3>1 DEF FileMatches
  <2> QED
    BY <2>1, <2>2
<1>4. Place' = Place
  BY <1>1 DEF Place
<1>5. \E end \in 1 .. Len(opened) + 1 : Scans(end)'
  BY <1>1, <1>4, ScansStays DEF ScanMatches
<1>6. PageMatches'
  BY <1>1, <1>2, PageMatchesStays DEF scan
<1> QED
  BY <1>1, <1>2, <1>3, <1>5, <1>6 DEF ScanMatches

LEMMA StutterMatches ==
  ASSUME ReaderSizes, IInv, ScanMatches, UNCHANGED readerVars
  PROVE  ScanMatches'
<1>1. UNCHANGED <<file, reader, request, position, length, chunk, scan, history>>
  BY DEF readerVars
<1>2. UNCHANGED <<opened, truncated, mixed, pending, pendingTruncated, firstCandidate,
                  total, lines>>
  BY <1>1 DEF scan, history
<1>3. Place' = Place /\ FileMatches' = FileMatches /\ NothingScanned' = NothingScanned
  BY <1>1, <1>2 DEF Place, FileMatches, NothingScanned
<1>4. \A end : Scans(end) => Scans(end)'
  BY <1>1, <1>2, <1>3, ScansStays
<1>5. PageMatches => PageMatches'
  BY <1>1, <1>2, PageMatchesStays
<1> QED
  BY <1>1, <1>2, <1>3, <1>4, <1>5 DEF ScanMatches

LEMMA StepMatches ==
  ASSUME ReaderSizes, IInv, ScanMatches, [ReaderNext]_readerVars
  PROVE  ScanMatches'
<1>1. CASE ReadsNothing
  <2>1. reader' = "failed"
    BY <1>1 DEF ReadsNothing
  <2> QED
    BY <2>1 DEF ScanMatches
<1> QED
  BY <1>1, OpenMatches, ReadMatches, TakeLineMatches, FinishChunkMatches,
     TakeLastLineMatches, EditsMatch, StutterMatches
  DEF ReaderNext

LEMMA MatchedIsExact ==
  ASSUME ReaderSizes, IInv, ScanMatches
  PROVE  PagesAreExact
<1> SUFFICES ASSUME reader = "done", ~mixed
             PROVE  total = Cardinality(Ends(opened)) /\ lines = PageOf(opened)
  BY DEF PagesAreExact
<1>1. PageMatches /\ total = Cardinality(Ends(opened))
  BY DEF ScanMatches
<1>2. /\ total \in Nat /\ lines \in Seq(Line) /\ FirstResultIndex \in Nat
      /\ pageSize \in Nat \ {0} /\ Len(lines) \in Nat
  BY KeptFacts DEF IInv, TypeOK
<1> DEFINE found == {n \in 0 .. Cardinality(Ends(opened)) - 1 : InPage(n)}
<1>3. Cardinality(found) = Len(lines)
  <2>1. PICK size \in Nat : size = Kept(total)
    BY <1>2, KeptFacts DEF IInv
  <2>2. PICK first \in Nat : first = FirstResultIndex
    BY <1>2
  <2>3. found = first .. first + size - 1
    BY <1>1, <1>2, <2>1, <2>2 DEF InPage, Kept, Least
  <2>4. first \in Int /\ first + size - 1 \in Int
    OBVIOUS
  <2>5. Cardinality(first .. first + size - 1) = size
    BY <2>4, FS_Interval
  <2> HIDE DEF found
  <2> QED
    BY <1>1, <2>1, <2>3, <2>5 DEF PageMatches
<1>4. PageOf(opened) =
        [i \in 1 .. Cardinality(found) |-> FromEnd(opened, FirstResultIndex + i - 1)]
  BY DEF PageOf
<1> HIDE DEF found
<1>5. lines = [i \in 1 .. Len(lines) |-> lines[i]]
  BY <1>2
<1>6. \A i \in 1 .. Len(lines) : lines[i] = FromEnd(opened, FirstResultIndex + i - 1)
  BY <1>1 DEF PageMatches
<1> QED
  BY <1>1, <1>3, <1>4, <1>5, <1>6

\* The page that readNewestLines returns (log-reader.service.ts) holds the
\* lines, and the total, of the file as it was when it was opened, whatever
\* the sizes of the file, of the chunks and of the page, wherever a chunk
\* breaks a line, and whatever is appended meanwhile; only what is read after
\* a truncation may be of another file.
THEOREM PagesAlwaysExact ==
  ASSUME ReaderSizes
  PROVE  ReaderSpec => []PagesAreExact
<1>1. ReaderInit => IInv /\ ScanMatches
  BY InitEstablishes, InitMatches
<1>2. IInv /\ ScanMatches /\ [ReaderNext]_readerVars => IInv' /\ ScanMatches'
  BY NextPreserves, StepMatches
<1>3. IInv /\ ScanMatches => PagesAreExact
  BY MatchedIsExact
<1> QED
  BY <1>1, <1>2, <1>3, PTL DEF ReaderSpec

-----------------------------------------------------------------------------
(***************************************************************************)
(* The codec.  Induction over the bytes and fields of a message is done    *)
(* with sets of numbers.                                                   *)
(***************************************************************************)

\* Every set of natural numbers that is not empty has a least element.
LEMMA LeastExists ==
  ASSUME NEW S \in SUBSET Nat, S # {}
  PROVE  \E x \in S : \A y \in S : x <= y
<1> DEFINE T == {0 .. n : n \in S}
<1>1. T \subseteq FiniteSubsetsOf(Nat) /\ T # {}
  <2>1. \A n \in S : 0 .. n \in SUBSET Nat /\ IsFiniteSet(0 .. n)
    BY FS_Interval
  <2> QED
    BY <2>1 DEF FiniteSubsetsOf
<1>2. PICK t \in T : \A u \in T : <<u, t>> \notin StrictSubsetOrdering(Nat)
  <2> HIDE DEF T
  <2> QED
    BY <1>1, WFMin, FS_StrictSubsetOrderingWellFounded
<1>3. PICK x \in S : t = 0 .. x
  OBVIOUS
<1>4. ASSUME NEW y \in S, y < x PROVE FALSE
  <2>1. x \in 0 .. x /\ x \notin 0 .. y
    BY <1>4
  <2>2. 0 .. y \in T /\ 0 .. y \subseteq t /\ 0 .. y # t /\ t \subseteq Nat
    BY <1>3, <1>4, <2>1
  <2>3. <<0 .. y, t>> \in StrictSubsetOrdering(Nat)
    BY <2>2 DEF StrictSubsetOrdering
  <2> QED
    BY <1>2, <2>2, <2>3
<1> QED
  BY <1>4

\* Course-of-values induction, with a set in the place of a predicate.
LEMMA AllNaturals ==
  ASSUME NEW S, \A n \in Nat : (\A m \in 0 .. n - 1 : m \in S) => n \in S
  PROVE  Nat \subseteq S
<1> SUFFICES ASSUME Nat \ S # {} PROVE FALSE
  OBVIOUS
<1>1. PICK x \in Nat \ S : \A y \in Nat \ S : x <= y
  BY LeastExists
<1>2. \A m \in 0 .. x - 1 : m \in S
  BY <1>1
<1> QED
  BY <1>1, <1>2

\* Primitive recursion, with a function in the place of an operator.
StepsOn(V) == [V \X Nat -> V]

Iterates(f, V, base, step) ==
  f \in [Nat -> V] /\ f[0] = base /\ \A i \in Nat : f[i + 1] = step[<<f[i], i + 1>>]

\* A recursion over the numbers defines a function.
LEMMA Iterated ==
  ASSUME NEW V, NEW base \in V, NEW step \in StepsOn(V)
  PROVE  \E f : Iterates(f, V, base, step)
<1> USE DEF StepsOn
<1> DEFINE Part(g, n) == /\ g \in [0 .. n -> V] /\ g[0] = base
                         /\ \A i \in 0 .. n - 1 : g[i + 1] = step[<<g[i], i + 1>>]
<1>1. ASSUME NEW m \in Nat, NEW n \in Nat, NEW g, NEW h, Part(g, m), Part(h, n)
      PROVE  \A i \in Nat : i <= m /\ i <= n => g[i] = h[i]
  <2> DEFINE S == {i \in Nat : i <= m /\ i <= n => g[i] = h[i]}
  <2>1. ASSUME NEW i \in Nat, \A j \in 0 .. i - 1 : j \in S
        PROVE  i \in S
    <3>1. CASE i = 0
      BY <1>1, <3>1
    <3>2. CASE i # 0 /\ i <= m /\ i <= n
      <4>1. i - 1 \in 0 .. i - 1 /\ i - 1 \in 0 .. m - 1 /\ i - 1 \in 0 .. n - 1
        BY <3>2
      <4>2. g[i - 1] = h[i - 1]
        BY <2>1, <3>2, <4>1
      <4>3. g[i - 1 + 1] = h[i - 1 + 1]
        BY <1>1, <4>1, <4>2
      <4> QED
        BY <4>3
    <3> QED
      BY <3>1, <3>2
  <2>2. Nat \subseteq S
    <3> HIDE DEF S
    <3> QED
      BY <2>1, AllNaturals
  <2> QED
    BY <2>2
<1>2. \A n \in Nat : \E g : Part(g, n)
  <2> DEFINE S == {n \in Nat : \E g : Part(g, n)}
  <2>1. ASSUME NEW n \in Nat, \A m \in 0 .. n - 1 : m \in S
        PROVE  n \in S
    <3>1. CASE n = 0
      <4>1. Part([i \in 0 .. 0 |-> base], 0)
        OBVIOUS
      <4> QED
        BY <3>1, <4>1
    <3>2. CASE n # 0
      <4>1. n - 1 \in S
        BY <2>1, <3>2
      <4>2. PICK h : Part(h, n - 1)
        BY <4>1
      <4> DEFINE g == [i \in 0 .. n |-> IF i = n THEN step[<<h[n - 1], n>>] ELSE h[i]]
      <4>3. g \in [0 .. n -> V] /\ g[0] = base
        BY <3>2, <4>2
      <4>4. ASSUME NEW i \in 0 .. n - 1
            PROVE  g[i + 1] = step[<<g[i], i + 1>>]
        <5>1. CASE i = n - 1
          <6>1. i \in 0 .. n /\ i + 1 \in 0 .. n /\ i # n /\ i + 1 = n
            BY <3>2, <5>1
          <6>2. g[i] = h[i] /\ g[i + 1] = step[<<h[n - 1], n>>]
            BY <6>1
          <6> QED
            BY <5>1, <6>1, <6>2
        <5>2. CASE i # n - 1
          <6>1. i \in 0 .. n - 1 - 1 /\ i \in 0 .. n /\ i + 1 \in 0 .. n /\ i # n /\ i + 1 # n
            BY <3>2, <5>2
          <6> QED
            BY <4>2, <6>1
        <5> QED
          BY <5>1, <5>2
      <4>5. Part(g, n)
        BY <4>3, <4>4
      <4> QED
        BY <4>5
    <3> QED
      BY <3>1, <3>2
  <2>2. Nat \subseteq S
    <3> HIDE DEF S
    <3> QED
      BY <2>1, AllNaturals
  <2> QED
    BY <2>2
<1> DEFINE G(n) == CHOOSE g : Part(g, n)
           f == [n \in Nat |-> G(n)[n]]
<1>3. \A n \in Nat : Part(G(n), n)
  <2> HIDE DEF Part
  <2> QED
    BY <1>2
<1>4. f \in [Nat -> V] /\ f[0] = base
  <2>1. \A n \in Nat : G(n)[n] \in V
    <3> SUFFICES ASSUME NEW n \in Nat PROVE G(n)[n] \in V
      OBVIOUS
    <3>1. Part(G(n), n)
      BY <1>3
    <3> HIDE DEF G
    <3> QED
      BY <3>1
  <2>2. Part(G(0), 0)
    BY <1>3
  <2> HIDE DEF G
  <2> QED
    BY <2>1, <2>2
<1>5. ASSUME NEW i \in Nat
      PROVE  f[i + 1] = step[<<f[i], i + 1>>]
  <2>1. Part(G(i + 1), i + 1) /\ Part(G(i), i) /\ i + 1 \in Nat
    <3> HIDE DEF Part, G
    <3> QED
      BY <1>3
  <2>2. G(i + 1)[i] = G(i)[i]
    <3> HIDE DEF Part, G
    <3> QED
      BY <1>1, <2>1
  <2> HIDE DEF G
  <2>3. G(i + 1)[i + 1] = step[<<G(i + 1)[i], i + 1>>]
    BY <2>1
  <2> QED
    BY <2>2, <2>3
<1>6. Iterates(f, V, base, step)
  <2> HIDE DEF f
  <2> QED
    BY <1>4, <1>5 DEF Iterates
<1> QED
  BY <1>6

-----------------------------------------------------------------------------
(***************************************************************************)
(* Varints.                                                                *)
(***************************************************************************)

\* A number is its groups above the lowest, and the lowest.
LEMMA DivisionFacts ==
  ASSUME NEW v \in Nat, NEW g \in Nat, g > 1
  PROVE  /\ v \div g \in Nat /\ v % g \in 0 .. g - 1
         /\ v = g * (v \div g) + (v % g)
         /\ v < g => v \div g = 0 /\ v % g = v
         /\ v >= g => v \div g < v
<1>1. v \div g \in Nat /\ v % g \in 0 .. g - 1
  OBVIOUS
<1>2. v = g * (v \div g) + (v % g)
  OBVIOUS
<1>3. v < g => v \div g = 0 /\ v % g = v
  OBVIOUS
<1>4. v >= g => v \div g < v
  <2> PICK q \in Nat : q = v \div g
    BY <1>1
  <2> PICK r \in Nat : r = v % g
    BY <1>1
  <2>1. v = g * q + r
    BY <1>2
  <2>2. q # 0 => q + q <= g * q
    OBVIOUS
  <2> QED
    BY <2>1, <2>2
<1> QED
  BY <1>1, <1>2, <1>3, <1>4

\* The byte of a group that others follow.
LEMMA ContinuedGroup ==
  ASSUME NEW r \in Nat, NEW g \in Nat, r < g
  PROVE  (g + r) % g = r
OBVIOUS

\* varint() is defined by its recursion: the rest of a number is smaller.
VarintStep(f, v) ==
  IF v < GroupSize THEN <<v>> ELSE <<GroupSize + (v % GroupSize)>> \o f[v \div GroupSize]

LEMMA VarintRecursion ==
  ASSUME CodecSizes
  PROVE  Varint = [v \in Nat |-> VarintStep(Varint, v)]
<1> DEFINE Part(g, n) == g = [i \in 0 .. n |-> VarintStep(g, i)]
<1>1. ASSUME NEW m \in Nat, NEW n \in Nat, NEW g, NEW h, Part(g, m), Part(h, n)
      PROVE  \A i \in Nat : i <= m /\ i <= n => g[i] = h[i]
  <2> DEFINE S == {i \in Nat : i <= m /\ i <= n => g[i] = h[i]}
  <2>1. ASSUME NEW i \in Nat, \A j \in 0 .. i - 1 : j \in S
        PROVE  i \in S
    <3> SUFFICES ASSUME i <= m, i <= n PROVE g[i] = h[i]
      OBVIOUS
    <3>1. g[i] = VarintStep(g, i) /\ h[i] = VarintStep(h, i)
      <4>1. i \in 0 .. m /\ i \in 0 .. n
        OBVIOUS
      <4> QED
        BY <1>1, <4>1
    <3>2. CASE i < GroupSize
      BY <3>1, <3>2 DEF VarintStep
    <3>3. CASE ~(i < GroupSize)
      <4>1. i \div GroupSize \in 0 .. i - 1
        <5>1. GroupSize \in Nat /\ GroupSize > 1 /\ i >= GroupSize
          BY <3>3 DEF CodecSizes
        <5>2. i \div GroupSize \in Nat /\ i \div GroupSize < i
          BY <5>1, DivisionFacts
        <5> QED
          BY <5>2
      <4>2. g[i \div GroupSize] = h[i \div GroupSize]
        BY <2>1, <4>1
      <4> QED
        BY <3>1, <3>3, <4>2 DEF VarintStep
    <3> QED
      BY <3>2, <3>3
  <2>2. Nat \subseteq S
    <3> HIDE DEF S
    <3> QED
      BY <2>1, AllNaturals
  <2> QED
    BY <2>2
<1>2. \A n \in Nat : \E g : Part(g, n)
  <2> DEFINE S == {n \in Nat : \E g : Part(g, n)}
  <2>1. ASSUME NEW n \in Nat, \A m \in 0 .. n - 1 : m \in S
        PROVE  n \in S
    <3>1. PICK h : n # 0 => Part(h, n - 1)
      <4>1. n # 0 => n - 1 \in S
        BY <2>1
      <4> QED
        BY <4>1
    <3> DEFINE g == [i \in 0 .. n |-> IF i = n THEN VarintStep(h, n) ELSE h[i]]
    <3>2. ASSUME NEW i \in 0 .. n
          PROVE  g[i] = VarintStep(g, i)
      <4>1. g[i] = VarintStep(h, i)
        <5>1. CASE i = n
          BY <5>1
        <5>2. CASE i # n
          <6>1. i \in 0 .. n - 1 /\ n # 0
            BY <5>2
          <6>2. h = [k \in 0 .. n - 1 |-> VarintStep(h, k)]
            BY <3>1, <6>1
          <6>3. h[i] = VarintStep(h, i)
            BY <6>1, <6>2
          <6> QED
            BY <5>2, <6>3
        <5> QED
          BY <5>1, <5>2
      <4>2. CASE i < GroupSize
        BY <4>1, <4>2 DEF VarintStep
      <4>3. CASE ~(i < GroupSize)
        <5>1. i \div GroupSize \in 0 .. n /\ i \div GroupSize # n
          BY <4>3, DivisionFacts DEF CodecSizes
        <5>2. g[i \div GroupSize] = h[i \div GroupSize]
          BY <5>1
        <5> HIDE DEF g
        <5> QED
          BY <4>1, <4>3, <5>2 DEF VarintStep
      <4> QED
        BY <4>2, <4>3
    <3>3. g = [i \in 0 .. n |-> g[i]]
      OBVIOUS
    <3>4. Part(g, n)
      <4> HIDE DEF g
      <4> QED
        BY <3>2, <3>3
    <3> QED
      BY <3>4
  <2>2. Nat \subseteq S
    <3> HIDE DEF S
    <3> QED
      BY <2>1, AllNaturals
  <2> QED
    BY <2>2
<1> DEFINE G(n) == CHOOSE g : Part(g, n)
           f == [n \in Nat |-> G(n)[n]]
<1>3. \A n \in Nat : Part(G(n), n)
  <2> HIDE DEF Part
  <2> QED
    BY <1>2
<1>4. ASSUME NEW i \in Nat
      PROVE  f[i] = VarintStep(f, i)
  <2>1. G(i)[i] = VarintStep(G(i), i)
    <3>1. Part(G(i), i)
      BY <1>3
    <3> HIDE DEF G
    <3> QED
      BY <3>1
  <2>2. CASE i < GroupSize
    BY <2>1, <2>2 DEF VarintStep
  <2>3. CASE ~(i < GroupSize)
    <3> PICK j \in Nat : j = i \div GroupSize
      BY DivisionFacts DEF CodecSizes
    <3>1. j < i
      BY <2>3, DivisionFacts DEF CodecSizes
    <3>2. Part(G(i), i) /\ Part(G(j), j)
      BY <1>3
    <3>3. G(i)[j] = G(j)[j]
      <4> HIDE DEF Part, G
      <4> QED
        BY <1>1, <3>1, <3>2
    <3> HIDE DEF G
    <3> QED
      BY <2>1, <2>3, <3>3 DEF VarintStep
  <2> QED
    BY <2>2, <2>3
<1>5. f = [v \in Nat |-> VarintStep(f, v)]
  <2>1. f = [v \in Nat |-> f[v]]
    OBVIOUS
  <2> HIDE DEF f
  <2> QED
    BY <1>4, <2>1
<1> HIDE DEF f
<1>6. \E g : g = [v \in Nat |-> VarintStep(g, v)]
  BY <1>5
<1> QED
  BY <1>6, Zenon DEF Varint, VarintStep

\* The numbers that are left when groups of a number have been written.
Splits(v, n, rest) ==
  /\ n \in Nat \ {0} /\ rest \in [0 .. n -> Nat]
  /\ rest[0] = v /\ rest[n] = 0
  /\ Len(Varint[v]) = n
  /\ \A i \in 1 .. n :
       /\ Varint[v][i] \in 0 .. 2 * GroupSize - 1
       /\ Varint[v][i] % GroupSize = rest[i - 1] % GroupSize
       /\ rest[i] = rest[i - 1] \div GroupSize
       /\ Varint[v][i] < GroupSize <=> i = n

\* Every number is written as groups of which all but the last are continued.
LEMMA VarintSplits ==
  ASSUME CodecSizes, NEW v \in Nat
  PROVE  Varint[v] \in Seq(0 .. 2 * GroupSize - 1) /\ \E n, rest : Splits(v, n, rest)
<1> DEFINE Row == Seq(0 .. 2 * GroupSize - 1)
           S == {w \in Nat : Varint[w] \in Row /\ \E n, rest : Splits(w, n, rest)}
<1>1. ASSUME NEW w \in Nat, \A m \in 0 .. w - 1 : m \in S
      PROVE  w \in S
  <2>1. GroupSize \in Nat /\ GroupSize > 1
    BY DEF CodecSizes
  <2>2. Varint[w] = VarintStep(Varint, w)
    <3>1. Varint = [x \in Nat |-> VarintStep(Varint, x)]
      BY VarintRecursion
    <3> QED
      BY <3>1
  <2>3. CASE w < GroupSize
    <3> DEFINE rest == [i \in 0 .. 1 |-> IF i = 0 THEN w ELSE 0]
    <3>1. Varint[w] = <<w>>
      BY <2>2, <2>3 DEF VarintStep
    <3>2. w % GroupSize = w /\ w \div GroupSize = 0
      BY <2>1, <2>3, DivisionFacts
    <3>3. w \in 0 .. 2 * GroupSize - 1
      BY <2>1, <2>3
    <3>4. Varint[w] \in Row
      BY <3>1, <3>3
    <3>5. Splits(w, 1, rest)
      BY <2>1, <2>3, <3>1, <3>2, <3>3 DEF Splits
    <3> QED
      BY <3>4, <3>5
  <2>4. CASE ~(w < GroupSize)
    <3> PICK q \in Nat : q = w \div GroupSize
      BY <2>1, DivisionFacts
    <3> PICK r \in Nat : r = w % GroupSize
      BY <2>1, DivisionFacts
    <3>1. q < w /\ r < GroupSize
      BY <2>1, <2>4, DivisionFacts
    <3>2. q \in S
      BY <1>1, <3>1
    <3>3. PICK n, rest : Splits(q, n, rest)
      BY <3>2
    <3> PICK b \in 0 .. 2 * GroupSize - 1 : b = GroupSize + r
      BY <2>1, <3>1
    <3>4. b % GroupSize = r /\ b >= GroupSize
      BY <2>1, <3>1, ContinuedGroup
    <3>5. Varint[w] = <<b>> \o Varint[q]
      BY <2>2, <2>4 DEF VarintStep
    <3>6. Varint[q] \in Row /\ n \in Nat \ {0} /\ Len(Varint[q]) = n
      BY <3>2, <3>3 DEF Splits
    <3>7. /\ Varint[w] \in Row /\ Len(Varint[w]) = n + 1
          /\ Varint[w][1] = b
          /\ \A i \in 2 .. n + 1 : Varint[w][i] = Varint[q][i - 1]
      <4>1. <<b>> \in Row
        OBVIOUS
      <4>2. /\ Varint[w] \in Row /\ Len(Varint[w]) = Len(<<b>>) + Len(Varint[q])
            /\ \A i \in 1 .. Len(<<b>>) + Len(Varint[q]) :
                 Varint[w][i] = IF i <= Len(<<b>>) THEN <<b>>[i]
                                ELSE Varint[q][i - Len(<<b>>)]
        BY <3>5, <3>6, <4>1, ConcatProperties
      <4>3. Len(<<b>>) = 1 /\ <<b>>[1] = b
        OBVIOUS
      <4> HIDE DEF Row
      <4> QED
        BY <3>6, <4>2, <4>3
    <3> DEFINE more == [i \in 0 .. n + 1 |-> IF i = 0 THEN w ELSE rest[i - 1]]
    <3>8. /\ more \in [0 .. n + 1 -> Nat] /\ more[0] = w /\ more[n + 1] = 0
          /\ more[1] = q
          /\ \A i \in 2 .. n + 1 : more[i] = rest[i - 1] /\ more[i - 1] = rest[i - 1 - 1]
      BY <3>3 DEF Splits
    <3> HIDE DEF more
    <3>9. ASSUME NEW i \in 1 .. n + 1
          PROVE  /\ Varint[w][i] \in 0 .. 2 * GroupSize - 1
                 /\ Varint[w][i] % GroupSize = more[i - 1] % GroupSize
                 /\ more[i] = more[i - 1] \div GroupSize
                 /\ Varint[w][i] < GroupSize <=> i = n + 1
      <4>1. CASE i = 1
        <5>1. Varint[w][i] = b /\ more[i - 1] = w /\ more[i] = q
          BY <3>7, <3>8, <4>1
        <5>2. b % GroupSize = w % GroupSize /\ q = w \div GroupSize
          BY <3>4
        <5>3. ~(b < GroupSize) /\ i # n + 1
          BY <2>1, <3>4, <3>6, <4>1
        <5> QED
          BY <5>1, <5>2, <5>3
      <4>2. CASE i # 1
        <5>1. i \in 2 .. n + 1 /\ i - 1 \in 1 .. n
          BY <3>6, <4>2
        <5>2. Varint[w][i] = Varint[q][i - 1]
          BY <3>7, <5>1
        <5>3. /\ Varint[q][i - 1] \in 0 .. 2 * GroupSize - 1
              /\ Varint[q][i - 1] % GroupSize = rest[i - 1 - 1] % GroupSize
              /\ rest[i - 1] = rest[i - 1 - 1] \div GroupSize
              /\ Varint[q][i - 1] < GroupSize <=> i - 1 = n
          BY <3>3, <5>1 DEF Splits
        <5>4. more[i] = rest[i - 1] /\ more[i - 1] = rest[i - 1 - 1]
          BY <3>8, <5>1
        <5>5. i - 1 = n <=> i = n + 1
          BY <3>6
        <5> QED
          BY <5>2, <5>3, <5>4, <5>5
      <4> QED
        BY <4>1, <4>2
    <3>10. Splits(w, n + 1, more)
      <4>1. n + 1 \in Nat \ {0} /\ Len(Varint[w]) = n + 1
        BY <3>6, <3>7
      <4> HIDE DEF Row
      <4> QED
        BY <3>8, <3>9, <4>1 DEF Splits
    <3> QED
      BY <3>7, <3>10
  <2> QED
    BY <2>3, <2>4
<1>2. Nat \subseteq S
  <2> HIDE DEF S
  <2> QED
    BY <1>1, AllNaturals
<1> QED
  BY <1>2

\* The weight of a group is GroupSize times that of the one below it.
LEMMA WeightRecursion ==
  ASSUME CodecSizes
  PROVE  /\ \A m \in Nat : Weight[m] \in Nat
         /\ Weight[0] = 1
         /\ \A m \in Nat : Weight[m + 1] = GroupSize * Weight[m]
<1> DEFINE step == [p \in Nat \X Nat |-> GroupSize * p[1]]
<1>1. PICK f : Iterates(f, Nat, 1, step)
  <2>1. step \in StepsOn(Nat)
    BY DEF CodecSizes, StepsOn
  <2> HIDE DEF step
  <2> QED
    BY <2>1, Iterated
<1> USE DEF Iterates
<1>2. \A m \in Nat : f[m] = IF m = 0 THEN 1 ELSE GroupSize * f[m - 1]
  <2> SUFFICES ASSUME NEW m \in Nat, m # 0 PROVE f[m] = GroupSize * f[m - 1]
    BY <1>1
  <2>1. m - 1 \in Nat /\ m - 1 + 1 = m
    OBVIOUS
  <2>2. f[m - 1 + 1] = step[<<f[m - 1], m - 1 + 1>>]
    BY <1>1, <2>1
  <2>3. step[<<f[m - 1], m>>] = GroupSize * f[m - 1]
    BY <1>1, <2>1
  <2> QED
    BY <2>1, <2>2, <2>3
<1>3. f = [m \in Nat |-> IF m = 0 THEN 1 ELSE GroupSize * f[m - 1]]
  BY <1>1, <1>2
<1>4. Weight = [m \in Nat |-> IF m = 0 THEN 1 ELSE GroupSize * Weight[m - 1]]
  <2>1. \E g : g = [m \in Nat |-> IF m = 0 THEN 1 ELSE GroupSize * g[m - 1]]
    BY <1>3
  <2> QED
    BY <2>1, Zenon DEF Weight
<1>5. Weight[0] = 1 /\ \A m \in Nat : Weight[m + 1] = GroupSize * Weight[m]
  BY <1>4
<1> DEFINE S == {m \in Nat : Weight[m] \in Nat}
<1>6. ASSUME NEW n \in Nat, \A m \in 0 .. n - 1 : m \in S
      PROVE  n \in S
  <2>1. CASE n = 0
    BY <1>5, <2>1
  <2>2. CASE n # 0
    <3>1. n - 1 \in Nat /\ n - 1 \in S /\ n - 1 + 1 = n
      BY <1>6, <2>2
    <3>2. Weight[n] = GroupSize * Weight[n - 1] /\ Weight[n - 1] \in Nat
      BY <1>5, <3>1
    <3> QED
      BY <3>2 DEF CodecSizes
  <2> QED
    BY <2>1, <2>2
<1>7. Nat \subseteq S
  <2> HIDE DEF S
  <2> QED
    BY <1>6, AllNaturals
<1> QED
  BY <1>5, <1>7

\* What the groups say is the number.
LEMMA ValueIsRead ==
  ASSUME CodecSizes, NEW v \in Nat, NEW n, NEW rest, Splits(v, n, rest), NEW start \in Nat,
         \A i \in 1 .. n : input[start + i] = Varint[v][i]
  PROVE  ValueOf(start, n) = v
<1> DEFINE Group(m) == input[start + m] % GroupSize
           Eq(f) == f = [m \in 0 .. n |->
                           IF m = 0 THEN 0 ELSE f[m - 1] + Group(m) * Weight[m - 1]]
<1>1. GroupSize \in Nat /\ GroupSize > 1 /\ n \in Nat \ {0}
  BY DEF CodecSizes, Splits
<1>2. \A m \in 1 .. n : Group(m) \in Nat /\ Group(m) = rest[m - 1] % GroupSize
  <2> SUFFICES ASSUME NEW m \in 1 .. n
               PROVE  Group(m) \in Nat /\ Group(m) = rest[m - 1] % GroupSize
    OBVIOUS
  <2>1. Group(m) = rest[m - 1] % GroupSize
    BY DEF Splits
  <2>2. m - 1 \in 0 .. n /\ rest[m - 1] \in Nat
    BY <1>1 DEF Splits
  <2> PICK x \in Nat : x = rest[m - 1]
    BY <2>2
  <2>3. x % GroupSize \in Nat
    BY <1>1
  <2> QED
    BY <2>1, <2>3
<1> HIDE DEF Group
<1>3. \E f : Eq(f)
  <2> DEFINE step == [p \in Nat \X Nat |->
                        IF p[2] \in 1 .. n THEN p[1] + Group(p[2]) * Weight[p[2] - 1] ELSE 0]
  <2>1. step \in StepsOn(Nat)
    <3> SUFFICES ASSUME NEW a \in Nat, NEW m \in 1 .. n
                 PROVE  a + Group(m) * Weight[m - 1] \in Nat
      BY DEF StepsOn
    <3>1. m - 1 \in Nat /\ Group(m) \in Nat
      BY <1>1, <1>2
    <3>2. Weight[m - 1] \in Nat
      BY <3>1, WeightRecursion
    <3> QED
      BY <3>1, <3>2
  <2>2. PICK f : Iterates(f, Nat, 0, step)
    <3> HIDE DEF step
    <3> QED
      BY <2>1, Iterated
  <2> USE DEF Iterates
  <2> DEFINE g == [m \in 0 .. n |-> f[m]]
  <2>3. ASSUME NEW m \in 0 .. n
        PROVE  g[m] = IF m = 0 THEN 0 ELSE g[m - 1] + Group(m) * Weight[m - 1]
    <3>1. CASE m = 0
      BY <2>2, <3>1
    <3>2. CASE m # 0
      <4>1. m - 1 \in Nat /\ m - 1 + 1 = m /\ m \in 1 .. n /\ m - 1 \in 0 .. n
        BY <1>1, <3>2
      <4>2. f[m] = step[<<f[m - 1], m>>]
        BY <2>2, <4>1
      <4>3. step[<<f[m - 1], m>>] = f[m - 1] + Group(m) * Weight[m - 1]
        BY <2>2, <4>1
      <4> QED
        BY <3>2, <4>1, <4>2, <4>3
    <3> QED
      BY <3>1, <3>2
  <2>4. g = [m \in 0 .. n |-> g[m]]
    OBVIOUS
  <2>5. Eq(g)
    <3> HIDE DEF g
    <3> QED
      BY <2>3, <2>4
  <2> QED
    BY <2>5
<1> DEFINE value == CHOOSE f : Eq(f)
<1>4. ValueOf(start, n) = value[n]
  BY DEF ValueOf, Group
<1>5. Eq(value)
  <2> HIDE DEF Eq
  <2> QED
    BY <1>3
<1> HIDE DEF value
<1> DEFINE S == {m \in Nat : m <= n => value[m] \in Nat /\ value[m] + Weight[m] * rest[m] = v}
<1>6. ASSUME NEW m \in Nat, \A k \in 0 .. m - 1 : k \in S
      PROVE  m \in S
  <2>1. CASE m = 0
    <3>1. value[0] = 0 /\ Weight[0] = 1 /\ rest[0] = v
      BY <1>1, <1>5, WeightRecursion DEF Splits
    <3> QED
      BY <2>1, <3>1
  <2>2. CASE m # 0 /\ m <= n
    <3>1. m - 1 \in Nat /\ m - 1 + 1 = m /\ m \in 1 .. n /\ m \in 0 .. n /\ m - 1 \in 0 .. n
      BY <1>1, <2>2
    <3> PICK a \in Nat : a = value[m - 1]
      BY <1>1, <1>6, <3>1
    <3> PICK weight \in Nat : weight = Weight[m - 1]
      BY <3>1, WeightRecursion
    <3> PICK x \in Nat : x = rest[m - 1]
      BY <3>1 DEF Splits
    <3> PICK q \in Nat : q = x \div GroupSize
      BY <1>1, DivisionFacts
    <3> PICK r \in Nat : r = x % GroupSize
      BY <1>1, DivisionFacts
    <3>2. a + weight * x = v
      BY <1>6, <3>1
    <3>3. Weight[m] = GroupSize * weight /\ rest[m] = q
      BY <3>1, WeightRecursion DEF Splits
    <3>4. value[m] = a + r * weight
      BY <1>2, <1>5, <2>2, <3>1
    <3>5. x = GroupSize * q + r
      <4>1. GroupSize \in Nat /\ GroupSize > 1
        BY <1>1
      <4>2. x = GroupSize * (x \div GroupSize) + (x % GroupSize)
        BY <4>1, DivisionFacts
      <4> QED
        BY <4>2
    <3>6. a + r * weight + (GroupSize * weight) * q = v
      <4>1. \A b, c, d, e \in Nat : e * b + (c * b) * d = b * (c * d + e)
        OBVIOUS
      <4>2. r * weight + (GroupSize * weight) * q = weight * x
        <5>1. r * weight + (GroupSize * weight) * q = weight * (GroupSize * q + r)
          BY <1>1, <4>1
        <5> QED
          BY <3>5, <5>1
      <4>3. r * weight \in Int /\ (GroupSize * weight) * q \in Int
        BY <1>1
      <4> QED
        BY <3>2, <4>2, <4>3
    <3>7. value[m] \in Nat
      BY <3>4
    <3> QED
      BY <3>3, <3>4, <3>6, <3>7
  <2>3. CASE m # 0 /\ ~(m <= n)
    BY <2>3
  <2> QED
    BY <2>1, <2>2, <2>3
<1>7. n \in S
  <2>1. Nat \subseteq S
    <3> HIDE DEF S
    <3> QED
      BY <1>6, AllNaturals
  <2> QED
    BY <1>1, <2>1
<1>8. value[n] \in Nat /\ value[n] + Weight[n] * 0 = v /\ Weight[n] \in Nat
  BY <1>1, <1>7, WeightRecursion DEF Splits
<1> QED
  BY <1>4, <1>8

\* These bytes come next, as far as the input goes.
Follows(bytes, start) ==
  \A i \in 1 .. Len(bytes) : start + i <= Len(input) => input[start + i] = bytes[i]

\* A varint is read as the number it was written for, and one that is cut
\* short is not read.
LEMMA VarintIsRead ==
  ASSUME CodecSizes, NEW v \in Nat, Fits(v), NEW start \in Nat, Len(input) \in Nat,
         Follows(Varint[v], start)
  PROVE  /\ Len(Varint[v]) \in Nat \ {0}
         /\ ReadVarint(start) =
              IF start + Len(Varint[v]) <= Len(input)
              THEN {[value |-> v, offset |-> start + Len(Varint[v])]} ELSE {}
<1> USE DEF Follows
<1>1. PICK n, rest : Splits(v, n, rest)
  BY VarintSplits
<1>2. n \in Nat \ {0} /\ n = Len(Varint[v]) /\ n <= MaxGroups /\ MaxGroups \in Nat
  BY <1>1 DEF Splits, Fits, CodecSizes
<1>3. \A i \in 1 .. n : Varint[v][i] < GroupSize <=> i = n
  BY <1>1 DEF Splits
<1>4. ASSUME NEW m \in 1 .. MaxGroups
      PROVE  Closes(start, m) <=> m = n /\ start + n <= Len(input)
  <2>1. CASE m < n
    <3>1. start + m <= Len(input) => ~(input[start + m] < GroupSize)
      <4>1. m \in 1 .. n /\ m # n
        BY <1>2, <2>1
      <4>2. ~(Varint[v][m] < GroupSize)
        BY <1>3, <4>1
      <4>3. start + m <= Len(input) => input[start + m] = Varint[v][m]
        BY <1>2, <4>1
      <4> QED
        BY <4>2, <4>3
    <3> QED
      BY <1>2, <2>1, <3>1 DEF Closes
  <2>2. CASE m > n
    <3>1. start + n <= Len(input) => input[start + n] < GroupSize
      BY <1>2, <1>3
    <3>2. start + m <= Len(input) => start + n <= Len(input)
      BY <1>2, <2>2
    <3>3. n \in 1 .. m - 1
      BY <1>2, <2>2
    <3>4. /\ Varint[v][n] \in Int
          /\ start + n <= Len(input) => Varint[v][n] = input[start + n]
      BY <1>1, <1>2 DEF Splits
    <3>5. Closes(start, m) => start + n <= Len(input) /\ input[start + n] >= GroupSize
      BY <3>2, <3>3 DEF Closes
    <3>6. ~Closes(start, m)
      BY <3>1, <3>4, <3>5 DEF CodecSizes
    <3> QED
      BY <1>2, <2>2, <3>6
  <2>3. CASE m = n
    <3>1. ASSUME start + n <= Len(input), NEW i \in 1 .. n - 1
          PROVE  input[start + i] >= GroupSize
      <4>1. i \in 1 .. n /\ i # n /\ start + i <= Len(input)
        BY <1>2, <3>1
      <4>2. Varint[v][i] \in Int /\ ~(Varint[v][i] < GroupSize)
        <5>1. Varint[v][i] \in 0 .. 2 * GroupSize - 1
          BY <1>1, <4>1 DEF Splits
        <5> QED
          BY <1>3, <4>1, <5>1
      <4> QED
        BY <1>2, <4>1, <4>2 DEF CodecSizes
    <3>2. start + n <= Len(input) => input[start + n] < GroupSize
      BY <1>2, <1>3
    <3> QED
      BY <2>3, <3>1, <3>2 DEF Closes
  <2> QED
    BY <1>2, <2>1, <2>2, <2>3
<1>5. CASE start + n <= Len(input)
  <2>1. ValueOf(start, n) = v
    <3>1. \A i \in 1 .. n : input[start + i] = Varint[v][i]
      BY <1>2, <1>5
    <3> QED
      BY <1>1, <3>1, ValueIsRead
  <2>2. {m \in 1 .. MaxGroups : Closes(start, m)} = {n}
    BY <1>2, <1>4, <1>5
  <2>3. ReadVarint(start) = {[value |-> ValueOf(start, n), offset |-> start + n]}
    BY <2>2 DEF ReadVarint
  <2> QED
    BY <1>2, <1>5, <2>1, <2>3
<1>6. CASE ~(start + n <= Len(input))
  <2>1. {m \in 1 .. MaxGroups : Closes(start, m)} = {}
    BY <1>4, <1>6
  <2>2. ReadVarint(start) = {}
    BY <2>1 DEF ReadVarint
  <2> QED
    BY <1>2, <1>6, <2>2
<1> QED
  BY <1>5, <1>6

-----------------------------------------------------------------------------
(***************************************************************************)
(* Messages: one field behind the other.                                   *)
(***************************************************************************)

\* FlattenSeq by its recursion.
Flattens(f, seqs) ==
  f = [i \in 1 .. Len(seqs) |-> IF i = 1 THEN seqs[i] ELSE f[i - 1] \o seqs[i]]

\* Of sequences that begin alike, what is flattened of them begins alike.
Begins(s, t) ==
  /\ Len(s) \in Nat /\ Len(t) \in Nat /\ Len(s) <= Len(t)
  /\ \A i \in 1 .. Len(s) : t[i] = s[i]

Alike(f, g, n) == \A i \in 1 .. n : f[i] = g[i]

\* Sequences of parts that begin alike flatten alike as far as they do.
LEMMA FlattensAlike ==
  ASSUME NEW s, NEW t, NEW f, NEW g, Flattens(f, s), Flattens(g, t), Begins(s, t)
  PROVE  Alike(f, g, Len(s))
<1> USE DEF Begins, Alike
<1> DEFINE S == {i \in Nat : i \in 1 .. Len(s) => f[i] = g[i]}
<1>1. ASSUME NEW i \in Nat, \A j \in 0 .. i - 1 : j \in S
      PROVE  i \in S
  <2> SUFFICES ASSUME i \in 1 .. Len(s) PROVE f[i] = g[i]
    OBVIOUS
  <2>1. /\ f[i] = IF i = 1 THEN s[i] ELSE f[i - 1] \o s[i]
        /\ g[i] = IF i = 1 THEN t[i] ELSE g[i - 1] \o t[i]
    <3>1. i \in 1 .. Len(t)
      OBVIOUS
    <3> QED
      BY <3>1 DEF Flattens
  <2>2. i # 1 => f[i - 1] = g[i - 1]
    BY <1>1
  <2> QED
    BY <2>1, <2>2
<1>2. Nat \subseteq S
  <2> HIDE DEF S
  <2> QED
    BY <1>1, AllNaturals
<1> QED
  BY <1>2

\* FlattenSeq puts the parts one behind the other.
LEMMA FlattenFacts ==
  ASSUME NEW D, NEW seqs \in Seq(Seq(D)), seqs # <<>>
  PROVE  \E f : /\ Flattens(f, seqs) /\ f \in [1 .. Len(seqs) -> Seq(D)]
                /\ FlattenSeq(seqs) = f[Len(seqs)]
<1> DEFINE n == Len(seqs)
           step == [p \in Seq(D) \X Nat |->
                      IF p[2] \in 1 .. n THEN p[1] \o seqs[p[2]] ELSE <<>>]
<1>1. n \in Nat \ {0} /\ \A i \in 1 .. n : seqs[i] \in Seq(D)
  OBVIOUS
<1>2. PICK f : Iterates(f, Seq(D), <<>>, step)
  <2>1. step \in StepsOn(Seq(D))
    <3>1. \A s, t \in Seq(D) : s \o t \in Seq(D)
      BY ConcatProperties
    <3>2. <<>> \in Seq(D)
      OBVIOUS
    <3> QED
      BY <1>1, <3>1, <3>2 DEF StepsOn
  <2>2. <<>> \in Seq(D)
    OBVIOUS
  <2> HIDE DEF step
  <2> QED
    BY <2>1, <2>2, Iterated
<1> DEFINE g == [i \in 1 .. n |-> f[i]]
<1>3. f \in [Nat -> Seq(D)] /\ f[0] = <<>>
  BY <1>2 DEF Iterates
<1>4. ASSUME NEW i \in 1 .. n
      PROVE  g[i] = IF i = 1 THEN seqs[i] ELSE g[i - 1] \o seqs[i]
  <2>1. i - 1 \in Nat /\ i - 1 + 1 = i
    OBVIOUS
  <2>2. f[i] = step[<<f[i - 1], i>>]
    BY <1>2, <2>1 DEF Iterates
  <2>3. f[i] = f[i - 1] \o seqs[i]
    <3>1. f[i - 1] \in Seq(D) /\ i \in Nat
      BY <1>3, <2>1
    <3>2. <<f[i - 1], i>> \in Seq(D) \X Nat
      BY <3>1
    <3>3. step[<<f[i - 1], i>>] = f[i - 1] \o seqs[i]
      BY <3>2
    <3> QED
      BY <2>2, <3>3
  <2>4. CASE i = 1
    <3>1. <<>> \o seqs[i] = seqs[i]
      BY <1>1, ConcatEmptySeq
    <3>2. i - 1 = 0 /\ g[i] = f[i]
      BY <2>4
    <3> HIDE DEF g
    <3> QED
      BY <1>3, <2>3, <2>4, <3>1, <3>2
  <2>5. CASE i # 1
    <3>1. g[i] = f[i] /\ g[i - 1] = f[i - 1]
      BY <1>1, <2>5
    <3> HIDE DEF g
    <3> QED
      BY <2>3, <2>5, <3>1
  <2> QED
    BY <2>4, <2>5
<1>5. g = [i \in 1 .. n |-> g[i]] /\ g \in [1 .. n -> Seq(D)]
  BY <1>3
<1>6. Flattens(g, seqs)
  <2> HIDE DEF g
  <2> QED
    BY <1>4, <1>5 DEF Flattens
<1> HIDE DEF g
<1> DEFINE F == CHOOSE h : Flattens(h, seqs)
<1>7. Flattens(F, seqs)
  BY <1>6, Zenon
<1>8. FlattenSeq(seqs) = F[n]
  BY <1>1 DEF FlattenSeq, Flattens
<1> HIDE DEF F
<1>9. \A i \in 1 .. n : F[i] = g[i]
  <2>1. Begins(seqs, seqs)
    BY DEF Begins
  <2>2. Alike(F, g, n)
    BY <1>6, <1>7, <2>1, FlattensAlike
  <2> QED
    BY <2>2 DEF Alike
<1>10. F = [i \in 1 .. n |-> F[i]]
  BY <1>7 DEF Flattens
<1>11. F = g
  BY <1>5, <1>9, <1>10
<1> QED
  BY <1>5, <1>6, <1>8, <1>11

\* One more part is put behind the others.
LEMMA FlattenAppend ==
  ASSUME NEW D, NEW seqs \in Seq(Seq(D)), NEW last \in Seq(D)
  PROVE  /\ FlattenSeq(seqs) \in Seq(D)
         /\ FlattenSeq(Append(seqs, last)) = FlattenSeq(seqs) \o last
<1> PICK n \in Nat : n = Len(seqs)
  OBVIOUS
<1> PICK more : more = Append(seqs, last)
  OBVIOUS
<1>1. /\ more \in Seq(Seq(D)) /\ Len(more) = n + 1 /\ more[n + 1] = last
      /\ \A i \in 1 .. n : more[i] = seqs[i]
      /\ more # <<>>
  <2>1. /\ more \in Seq(Seq(D)) /\ Len(more) = n + 1 /\ more[n + 1] = last
        /\ \A i \in 1 .. n : more[i] = seqs[i]
    BY AppendProperties
  <2> QED
    BY <2>1
<1>2. PICK g : /\ Flattens(g, more) /\ FlattenSeq(more) = g[n + 1]
  <2>1. PICK f : Flattens(f, more) /\ FlattenSeq(more) = f[Len(more)]
    BY <1>1, FlattenFacts
  <2> QED
    BY <1>1, <2>1
<1>3. CASE n = 0
  <2>1. seqs = <<>> /\ FlattenSeq(seqs) = seqs
    <3>1. Len(seqs) = 0
      BY <1>3
    <3>2. seqs = <<>>
      BY <3>1, EmptySeq
    <3>3. FlattenSeq(seqs) = seqs
      BY <3>1, Zenon DEF FlattenSeq
    <3> QED
      BY <3>2, <3>3
  <2>2. g[1] = last
    BY <1>1, <1>2, <1>3 DEF Flattens
  <2>3. <<>> \o last = last
    BY ConcatEmptySeq
  <2>4. <<>> \in Seq(D)
    OBVIOUS
  <2>5. FlattenSeq(more) = last
    BY <1>2, <1>3, <2>2
  <2> QED
    BY <2>1, <2>3, <2>4, <2>5
<1>4. CASE n # 0
  <2>1. PICK f : /\ Flattens(f, seqs) /\ f \in [1 .. n -> Seq(D)]
                 /\ FlattenSeq(seqs) = f[n]
    BY <1>4, FlattenFacts
  <2>2. \A i \in 1 .. n : f[i] = g[i]
    <3>1. Begins(seqs, more)
      BY <1>1 DEF Begins
    <3>2. Alike(f, g, Len(seqs))
      BY <1>2, <2>1, <3>1, FlattensAlike
    <3> QED
      BY <3>2 DEF Alike
  <2>3. g[n + 1] = g[n] \o last
    <3> PICK m \in 1 .. n + 1 : m = n + 1
      OBVIOUS
    <3>1. m # 1 /\ m - 1 = n
      BY <1>4
    <3>2. \A i \in 1 .. n + 1 : g[i] = IF i = 1 THEN more[i] ELSE g[i - 1] \o more[i]
      BY <1>1, <1>2 DEF Flattens
    <3>3. g[m] = g[m - 1] \o more[m]
      BY <3>1, <3>2, Zenon
    <3> QED
      BY <1>1, <3>1, <3>3
  <2>4. f[n] = g[n] /\ f[n] \in Seq(D)
    <3>1. n \in 1 .. n
      BY <1>4
    <3> QED
      BY <2>1, <2>2, <3>1
  <2> QED
    BY <1>2, <2>1, <2>3, <2>4
<1> QED
  BY <1>3, <1>4

Octets == 0 .. 2 * GroupSize - 1

\* A field is written as bytes, at least one.
LEMMA EncodedFacts ==
  ASSUME CodecSizes, NEW field \in Fields
  PROVE  /\ Encoded(field) \in Seq(Octets) /\ Len(Encoded(field)) \in Nat \ {0}
         /\ Key(field) \in Seq(Octets)
<1>1. Encodable(field)
  BY DEF CodecSizes
<1> PICK key \in Nat : key = field.number * 8 + field.wireType
  <2>1. field.number \in Nat /\ field.wireType \in Nat
    <3>1. field.number \in Nat /\ field.wireType \in {0, 2} \cup DOMAIN Widths
      BY <1>1 DEF Encodable
    <3>2. DOMAIN Widths \subseteq 0 .. 7
      BY DEF CodecSizes
    <3> QED
      BY <3>1, <3>2
  <2> QED
    BY <2>1
<1>2. Varint[key] \in Seq(Octets) /\ \E n, rest : Splits(key, n, rest)
  BY VarintSplits DEF Octets
<1>3. Key(field) \in Seq(Octets) /\ Len(Key(field)) \in Nat \ {0}
  BY <1>2 DEF Key, Splits
<1>4. \A s, t \in Seq(Octets) : s \o t \in Seq(Octets) /\ Len(s \o t) = Len(s) + Len(t)
  BY ConcatProperties
<1>5. CASE field.wireType = 0
  <2>1. Varint[field.value] \in Seq(Octets)
    BY <1>1, <1>5, VarintSplits DEF Encodable, Octets
  <2> QED
    BY <1>3, <1>4, <1>5, <2>1 DEF Encoded
<1>6. CASE field.wireType = 2
  <2>1. field.value \in Seq(Octets) /\ Varint[Len(field.value)] \in Seq(Octets)
    BY <1>1, <1>6, VarintSplits DEF Encodable, Octets
  <2>2. Encoded(field) = (Key(field) \o Varint[Len(field.value)]) \o field.value
    BY <1>6, 0 # 2 DEF Encoded
  <2>3. /\ Key(field) \o Varint[Len(field.value)] \in Seq(Octets)
        /\ Len(Key(field) \o Varint[Len(field.value)]) \in Nat \ {0}
    <3>1. Len(Varint[Len(field.value)]) \in Nat
      BY <2>1
    <3> QED
      BY <1>3, <1>4, <2>1, <3>1
  <2>4. PICK start \in Seq(Octets) : start = Key(field) \o Varint[Len(field.value)]
    BY <2>3
  <2>5. Encoded(field) = start \o field.value /\ Len(start) \in Nat \ {0}
    BY <2>2, <2>3, <2>4
  <2>6. PICK whole \in Seq(Octets) : /\ whole = start \o field.value
                                  /\ Len(whole) = Len(start) + Len(field.value)
    BY <1>4, <2>1
  <2>7. Encoded(field) = whole
    BY <2>5, <2>6
  <2>8. Len(whole) \in Nat \ {0}
    <3> PICK m \in Nat : m = Len(start) /\ m > 0
      BY <2>5
    <3> PICK n \in Nat : n = Len(field.value)
      BY <2>1
    <3>1. Len(whole) = m + n
      BY <2>6
    <3> QED
      BY <3>1
  <2> QED
    BY <1>3, <2>7, <2>8
<1>7. CASE field.wireType # 0 /\ field.wireType # 2
  <2>1. field.value \in Seq(Octets)
    BY <1>1, <1>7 DEF Encodable, Octets
  <2> QED
    BY <1>3, <1>4, <1>7, <2>1 DEF Encoded
<1> QED
  BY <1>3, <1>5, <1>6, <1>7

\* One more field is put behind the others.
LEMMA MessageAppend ==
  ASSUME CodecSizes, NEW list \in Seq(Fields), NEW field \in Fields
  PROVE  /\ Message(list) \in Seq(Octets)
         /\ Message(Append(list, field)) = Message(list) \o Encoded(field)
<1> DEFINE Parts(l) == [i \in DOMAIN l |-> Encoded(l[i])]
<1> PICK more : more = Append(list, field)
  OBVIOUS
<1>1. /\ more \in Seq(Fields) /\ Len(more) = Len(list) + 1 /\ more[Len(list) + 1] = field
      /\ \A i \in 1 .. Len(list) : more[i] = list[i]
  BY AppendProperties
<1>2. Parts(list) \in Seq(Seq(Octets)) /\ Len(Parts(list)) = Len(list)
  <2>1. \A i \in 1 .. Len(list) : list[i] \in Fields
    OBVIOUS
  <2>2. \A i \in 1 .. Len(list) : Encoded(list[i]) \in Seq(Octets)
    BY <2>1, EncodedFacts
  <2> QED
    BY <2>2
<1>3. Parts(more) \in Seq(Seq(Octets)) /\ Len(Parts(more)) = Len(more)
  BY <1>1, EncodedFacts
<1>4. Encoded(field) \in Seq(Octets)
  BY EncodedFacts
<1>5. Parts(more) = Append(Parts(list), Encoded(field))
  <2> PICK all : all = Append(Parts(list), Encoded(field))
    OBVIOUS
  <2>1. /\ all \in Seq(Seq(Octets)) /\ Len(all) = Len(list) + 1
        /\ all[Len(list) + 1] = Encoded(field)
        /\ \A i \in 1 .. Len(list) : all[i] = Parts(list)[i]
    <3> HIDE DEF Parts
    <3> QED
      BY <1>2, <1>4, AppendProperties
  <2>2. \A i \in 1 .. Len(list) : Parts(list)[i] = Encoded(list[i])
    OBVIOUS
  <2>3. \A i \in 1 .. Len(list) + 1 : Parts(more)[i] = Encoded(more[i])
    BY <1>1
  <2>4. \A i \in 1 .. Len(list) + 1 : all[i] = Parts(more)[i]
    <3> HIDE DEF Parts
    <3> QED
      BY <1>1, <2>1, <2>2, <2>3
  <2> HIDE DEF Parts
  <2> QED
    BY <1>1, <1>3, <2>1, <2>4, SeqEqual
<1> HIDE DEF Parts
<1>6. /\ FlattenSeq(Parts(list)) \in Seq(Octets)
      /\ FlattenSeq(Parts(more)) = FlattenSeq(Parts(list)) \o Encoded(field)
  BY <1>2, <1>4, <1>5, FlattenAppend
<1> QED
  BY <1>6 DEF Message, Parts

\* When two parts come next, the second does behind the first.
LEMMA FollowsParts ==
  ASSUME NEW s \in Seq(Octets), NEW t \in Seq(Octets), NEW start \in Nat, Follows(s \o t, start)
  PROVE  Follows(s, start) /\ Follows(t, start + Len(s)) /\ Len(s \o t) = Len(s) + Len(t)
<1>1. /\ Len(s) \in Nat /\ Len(t) \in Nat /\ Len(s \o t) = Len(s) + Len(t)
      /\ \A i \in 1 .. Len(s) + Len(t) :
           (s \o t)[i] = IF i <= Len(s) THEN s[i] ELSE t[i - Len(s)]
  BY ConcatProperties
<1> PICK u : u = s \o t
  OBVIOUS
<1>2. /\ Len(u) = Len(s) + Len(t) /\ Follows(u, start)
      /\ \A i \in 1 .. Len(s) + Len(t) : u[i] = IF i <= Len(s) THEN s[i] ELSE t[i - Len(s)]
  BY <1>1
<1>3. Follows(s, start)
  <2> SUFFICES ASSUME NEW i \in 1 .. Len(s), start + i <= Len(input)
               PROVE  input[start + i] = s[i]
    BY DEF Follows
  <2>1. i \in 1 .. Len(u)
    BY <1>1, <1>2
  <2> QED
    BY <1>1, <1>2, <2>1 DEF Follows
<1>4. Follows(t, start + Len(s))
  <2> SUFFICES ASSUME NEW i \in 1 .. Len(t), start + Len(s) + i <= Len(input)
               PROVE  input[start + Len(s) + i] = t[i]
    BY DEF Follows
  <2> PICK j \in Nat : j = Len(s) + i
    BY <1>1
  <2>1. j \in 1 .. Len(u) /\ ~(j <= Len(s)) /\ j - Len(s) = i /\ start + j = start + Len(s) + i
    BY <1>1, <1>2
  <2>2. u[j] = t[i]
    BY <1>1, <1>2, <2>1
  <2>3. input[start + j] = u[j]
    BY <1>2, <2>1 DEF Follows
  <2> QED
    BY <2>1, <2>2, <2>3
<1> QED
  BY <1>1, <1>3, <1>4

\* The bytes that come next are the slice that is taken of them.
LEMMA SliceIs ==
  ASSUME input \in Seq(Octets), NEW bytes \in Seq(Octets), NEW start \in Nat,
         Follows(bytes, start), start + Len(bytes) <= Len(input)
  PROVE  Slice(start, Len(bytes)) = bytes
<1> PICK n \in Nat : n = Len(bytes)
  OBVIOUS
<1> PICK part : part = SubSeq(input, start + 1, start + n)
  OBVIOUS
<1>1. /\ part \in Seq(Octets) /\ Len(part) = n
      /\ \A i \in 1 .. n : part[i] = input[start + i]
  <2>1. \A i \in start + 1 .. start + n : input[i] \in Octets
    OBVIOUS
  <2>2. /\ part \in Seq(Octets)
        /\ Len(part) = IF start + 1 <= start + n THEN start + n - (start + 1) + 1 ELSE 0
        /\ \A i \in 1 .. start + n - (start + 1) + 1 : part[i] = input[start + 1 + i - 1]
    BY <2>1, SubSeqProperties
  <2>3. start + n - (start + 1) + 1 = n
    OBVIOUS
  <2>4. \A i \in 1 .. n : start + 1 + i - 1 = start + i
    OBVIOUS
  <2>5. Len(part) = n
    BY <2>2, <2>3
  <2>6. \A i \in 1 .. n : part[i] = input[start + 1 + i - 1]
    BY <2>2, <2>3
  <2> QED
    BY <2>2, <2>4, <2>5, <2>6
<1>2. \A i \in 1 .. n : input[start + i] = bytes[i]
  <2> SUFFICES ASSUME NEW i \in 1 .. n PROVE input[start + i] = bytes[i]
    OBVIOUS
  <2>1. i \in 1 .. Len(bytes) /\ start + i <= Len(input)
    OBVIOUS
  <2> QED
    BY <2>1 DEF Follows
<1>3. part = bytes
  BY <1>1, <1>2, SeqEqual
<1> QED
  BY <1>3 DEF Slice

-----------------------------------------------------------------------------
(***************************************************************************)
(* One field.                                                              *)
(***************************************************************************)

KeyOf(field) ==
  [value |-> field.number * 8 + field.wireType, offset |-> offset + Len(Key(field))]

Whole(field) == offset + Len(Encoded(field)) <= Len(input)

\* A field is read as it is, and one that is cut short is refused.
Taken(field) ==
  /\ ReadValue \/ ReadBytes \/ ReadFixed =>
       /\ Whole(field)
       /\ fields' = Append(fields, field) /\ offset' = offset + Len(Encoded(field))
       /\ UNCHANGED <<sent, input, decoder>>
  /\ Refuse => ~Whole(field)

\* The key holds the number and the wire type of the field.
LEMMA KeyFacts ==
  ASSUME NEW number \in Nat, NEW wireType \in 0 .. 7
  PROVE  /\ (number * 8 + wireType) % 8 = wireType
         /\ (number * 8 + wireType) \div 8 = number
OBVIOUS

\* The key of a field that comes next is read, or was cut short.
LEMMA KeyIsRead ==
  ASSUME CodecSizes, Len(input) \in Nat, offset \in Nat, NEW field \in Fields,
         Follows(Key(field), offset)
  PROVE  /\ Encodable(field) /\ Key(field) \in Seq(Octets)
         /\ KeyOf(field).offset \in Nat
         /\ KeyOf(field).value % 8 = field.wireType /\ KeyOf(field).value \div 8 = field.number
         /\ ReadVarint(offset) =
              IF KeyOf(field).offset <= Len(input) THEN {KeyOf(field)} ELSE {}
<1>1. Encodable(field)
  BY DEF CodecSizes
<1>2. field.number \in Nat /\ field.wireType \in 0 .. 7
  <2>1. field.number \in Nat /\ field.wireType \in {0, 2} \cup DOMAIN Widths
    BY <1>1 DEF Encodable
  <2>2. DOMAIN Widths \subseteq 0 .. 7
    BY DEF CodecSizes
  <2> QED
    BY <2>1, <2>2
<1> PICK key \in Nat : key = field.number * 8 + field.wireType
  BY <1>2
<1>3. Fits(key) /\ Key(field) = Varint[key]
  BY <1>1 DEF Encodable, Key
<1>4. key % 8 = field.wireType /\ key \div 8 = field.number
  BY <1>2, KeyFacts
<1>5. Follows(Varint[key], offset)
  BY <1>3
<1>6. /\ Len(Varint[key]) \in Nat \ {0}
      /\ ReadVarint(offset) =
           IF offset + Len(Varint[key]) <= Len(input)
           THEN {[value |-> key, offset |-> offset + Len(Varint[key])]} ELSE {}
  BY <1>3, <1>5, VarintIsRead
<1>7. Varint[key] \in Seq(Octets)
  BY VarintSplits DEF Octets
<1>8. KeyOf(field) = [value |-> key, offset |-> offset + Len(Varint[key])]
  BY <1>3 DEF KeyOf
<1> QED
  BY <1>1, <1>3, <1>4, <1>6, <1>7, <1>8

\* A field with a number is read as it is.
LEMMA NumberIsRead ==
  ASSUME CodecSizes, input \in Seq(Octets), offset \in Nat, NEW field \in Fields,
         field.wireType = 0, Follows(Encoded(field), offset)
  PROVE  Taken(field)
<1>1. Encodable(field) /\ Len(input) \in Nat
  BY DEF CodecSizes
<1>2. PICK value \in Nat : value = field.value
  BY <1>1 DEF Encodable
<1>3. Encoded(field) = Key(field) \o Varint[value]
  BY <1>2 DEF Encoded
<1>4. Key(field) \in Seq(Octets) /\ Varint[value] \in Seq(Octets)
  BY EncodedFacts, VarintSplits DEF Octets
<1>5. /\ Follows(Key(field), offset)
      /\ Follows(Varint[value], offset + Len(Key(field)))
      /\ Len(Encoded(field)) = Len(Key(field)) + Len(Varint[value])
  BY <1>3, <1>4, FollowsParts
<1>6. PICK key : key = KeyOf(field)
  OBVIOUS
<1>7. /\ key.offset = offset + Len(Key(field)) /\ key.offset \in Nat
      /\ key.value % 8 = 0 /\ key.value \div 8 = field.number
      /\ ReadVarint(offset) = IF key.offset <= Len(input) THEN {key} ELSE {}
  BY <1>1, <1>5, <1>6, KeyIsRead DEF KeyOf
<1>8. /\ Len(Varint[value]) \in Nat \ {0}
      /\ ReadVarint(key.offset) =
           IF key.offset + Len(Varint[value]) <= Len(input)
           THEN {[value |-> value, offset |-> key.offset + Len(Varint[value])]} ELSE {}
  <2>1. Fits(value) /\ Follows(Varint[value], key.offset)
    BY <1>1, <1>2, <1>5, <1>7 DEF Encodable
  <2> QED
    BY <1>1, <1>7, <2>1, VarintIsRead
<1>9. PICK n \in Nat : n = Len(Varint[value])
  BY <1>8
<1>10. PICK end \in Nat : end = key.offset + n
  BY <1>7
<1>11. /\ LengthsAt(key) = {} /\ FixedAt(key) = {}
       /\ VarintsAt(key) = ReadVarint(key.offset)
  BY <1>7 DEF LengthsAt, FixedAt, VarintsAt, CodecSizes
<1>12. end = offset + Len(Encoded(field)) /\ end >= key.offset
  <2> PICK m \in Nat : m = Len(Key(field))
    BY <1>4
  <2>1. Len(Encoded(field)) = m + n /\ key.offset = offset + m /\ end = key.offset + n
    BY <1>5, <1>7, <1>9, <1>10
  <2> QED
    BY <2>1
<1>13. Refuse => ~Whole(field)
  <2> SUFFICES ASSUME Whole(field)
               PROVE  \E k \in ReadVarint(offset) : VarintsAt(k) # {}
    BY DEF Refuse
  <2>1. end <= Len(input)
    BY <1>12 DEF Whole
  <2>2. key.offset <= Len(input)
    BY <1>1, <1>7, <1>12, <2>1
  <2>3. key.offset + Len(Varint[value]) <= Len(input)
    BY <1>9, <1>10, <2>1
  <2>4. VarintsAt(key) = {[value |-> value, offset |-> key.offset + Len(Varint[value])]}
    BY <1>8, <1>11, <2>3
  <2> QED
    BY <1>7, <2>2, <2>4
<1>14. ~ReadBytes /\ ~ReadFixed
  BY <1>7, <1>11 DEF ReadBytes, ReadFixed
<1>15. ASSUME ReadValue
       PROVE  /\ Whole(field)
              /\ fields' = Append(fields, field) /\ offset' = offset + Len(Encoded(field))
              /\ UNCHANGED <<sent, input, decoder>>
  <2>1. PICK v \in VarintsAt(key) : Field(key, v.value, v.offset)
    BY <1>7, <1>15 DEF ReadValue
  <2>2. /\ Whole(field)
        /\ v = [value |-> value, offset |-> key.offset + Len(Varint[value])]
    BY <1>8, <1>9, <1>10, <1>11, <1>12, <2>1 DEF Whole
  <2>3. field = [number |-> key.value \div 8, wireType |-> key.value % 8, value |-> value]
    BY <1>1, <1>2, <1>7 DEF Encodable
  <2> QED
    BY <1>9, <1>10, <1>12, <2>1, <2>2, <2>3 DEF Field
<1> QED
  BY <1>13, <1>14, <1>15 DEF Taken

\* A field with bytes is read as it is: its length stands in front of them.
LEMMA BytesAreRead ==
  ASSUME CodecSizes, input \in Seq(Octets), offset \in Nat, NEW field \in Fields,
         field.wireType = 2, Follows(Encoded(field), offset)
  PROVE  Taken(field)
<1>1. Encodable(field) /\ Len(input) \in Nat
  BY DEF CodecSizes
<1>2. PICK bytes \in Seq(Octets) : bytes = field.value
  BY <1>1 DEF Encodable, Octets
<1>3. PICK size \in Nat : size = Len(bytes)
  OBVIOUS
<1>4. Key(field) \in Seq(Octets) /\ Varint[size] \in Seq(Octets)
  BY EncodedFacts, VarintSplits DEF Octets
<1>5. PICK start \in Seq(Octets) : start = Key(field) \o Varint[size]
  BY <1>4, ConcatProperties
<1>6. Encoded(field) = start \o bytes
  BY <1>2, <1>3, <1>5, 0 # 2 DEF Encoded
<1>7. /\ Follows(start, offset) /\ Follows(bytes, offset + Len(start))
      /\ Len(Encoded(field)) = Len(start) + size
  <2>1. Follows(start \o bytes, offset)
    BY <1>6
  <2> QED
    BY <1>3, <1>6, <2>1, FollowsParts
<1>8. /\ Follows(Key(field), offset)
      /\ Follows(Varint[size], offset + Len(Key(field)))
      /\ Len(start) = Len(Key(field)) + Len(Varint[size])
  <2>1. Follows(Key(field) \o Varint[size], offset)
    BY <1>5, <1>7
  <2> QED
    BY <1>4, <1>5, <2>1, FollowsParts
<1>9. PICK key : key = KeyOf(field)
  OBVIOUS
<1>10. /\ key.offset = offset + Len(Key(field)) /\ key.offset \in Nat
       /\ key.value % 8 = 2 /\ key.value \div 8 = field.number
       /\ ReadVarint(offset) = IF key.offset <= Len(input) THEN {key} ELSE {}
  BY <1>1, <1>8, <1>9, KeyIsRead DEF KeyOf
<1>11. PICK n \in Nat : n = Len(Varint[size])
  BY <1>4
<1>12. PICK begin \in Nat : begin = key.offset + n
  BY <1>10
<1>13. ReadVarint(key.offset) =
        IF begin <= Len(input) THEN {[value |-> size, offset |-> begin]} ELSE {}
  <2>1. Fits(size) /\ Follows(Varint[size], key.offset)
    BY <1>1, <1>2, <1>3, <1>8, <1>10, 0 # 2 DEF Encodable
  <2> QED
    BY <1>1, <1>10, <1>11, <1>12, <2>1, VarintIsRead
<1>14. /\ VarintsAt(key) = {} /\ FixedAt(key) = {}
       /\ LengthsAt(key) =
            {v \in ReadVarint(key.offset) : v.offset + v.value <= Len(input)}
  BY <1>10 DEF LengthsAt, FixedAt, VarintsAt, CodecSizes
<1>15. /\ begin = offset + Len(start) /\ begin + size = offset + Len(Encoded(field))
       /\ begin >= key.offset
  <2> PICK m \in Nat : m = Len(Key(field))
    BY <1>4
  <2> PICK l \in Nat : l = Len(start)
    OBVIOUS
  <2>1. l = m + n /\ Len(Encoded(field)) = l + size /\ key.offset = offset + m
    BY <1>7, <1>8, <1>10, <1>11
  <2> QED
    BY <1>12, <2>1
<1>16. Refuse => ~Whole(field)
  <2> SUFFICES ASSUME Whole(field)
               PROVE  \E k \in ReadVarint(offset) : LengthsAt(k) # {}
    BY DEF Refuse
  <2>1. begin + size <= Len(input)
    BY <1>15 DEF Whole
  <2>2. key.offset <= Len(input) /\ begin <= Len(input)
    BY <1>1, <1>10, <1>15, <2>1
  <2>3. [value |-> size, offset |-> begin] \in LengthsAt(key)
    <3>1. ReadVarint(key.offset) = {[value |-> size, offset |-> begin]}
      BY <1>13, <2>2
    <3> QED
      BY <1>14, <2>1, <3>1
  <2> QED
    BY <1>10, <2>2, <2>3
<1>17. ~ReadValue /\ ~ReadFixed
  BY <1>10, <1>14 DEF ReadValue, ReadFixed
<1>18. ASSUME ReadBytes
       PROVE  /\ Whole(field)
              /\ fields' = Append(fields, field) /\ offset' = offset + Len(Encoded(field))
              /\ UNCHANGED <<sent, input, decoder>>
  <2>1. PICK v \in LengthsAt(key) :
          Field(key, Slice(v.offset, v.value), v.offset + v.value)
    BY <1>10, <1>18 DEF ReadBytes
  <2>2. v.offset = begin /\ v.value = size /\ begin + size <= Len(input)
    BY <1>13, <1>14, <2>1
  <2>3. Slice(begin, size) = bytes
    <3>1. Follows(bytes, begin) /\ begin + Len(bytes) <= Len(input)
      BY <1>3, <1>7, <1>15, <2>2
    <3> QED
      BY <1>3, <3>1, SliceIs
  <2>4. field = [number |-> key.value \div 8, wireType |-> key.value % 8, value |-> bytes]
    BY <1>1, <1>2, <1>10 DEF Encodable
  <2>5. Field(key, bytes, begin + size)
    BY <2>1, <2>2, <2>3
  <2> QED
    BY <1>15, <2>2, <2>4, <2>5 DEF Field, Whole
<1> QED
  BY <1>16, <1>17, <1>18 DEF Taken

\* A field of a fixed width is read as it is.
LEMMA WidthIsRead ==
  ASSUME CodecSizes, input \in Seq(Octets), offset \in Nat, NEW field \in Fields,
         field.wireType \in DOMAIN Widths, Follows(Encoded(field), offset)
  PROVE  Taken(field)
<1>1. Encodable(field) /\ Len(input) \in Nat
  BY DEF CodecSizes
<1> PICK wireType \in DOMAIN Widths : wireType = field.wireType
  OBVIOUS
<1>2. wireType # 0 /\ wireType # 2
  BY DEF CodecSizes
<1> PICK bytes \in Seq(Octets) : bytes = field.value /\ Len(bytes) = Widths[wireType]
  BY <1>1, <1>2 DEF Encodable, Octets
<1> PICK size \in Nat : size = Len(bytes)
  OBVIOUS
<1>3. Key(field) \in Seq(Octets)
  BY EncodedFacts
<1>4. Encoded(field) = Key(field) \o bytes
  BY <1>2 DEF Encoded
<1>5. /\ Follows(Key(field), offset) /\ Follows(bytes, offset + Len(Key(field)))
      /\ Len(Encoded(field)) = Len(Key(field)) + size
  <2>1. Follows(Key(field) \o bytes, offset)
    BY <1>4
  <2>2. /\ Follows(Key(field), offset) /\ Follows(bytes, offset + Len(Key(field)))
        /\ Len(Key(field) \o bytes) = Len(Key(field)) + Len(bytes)
    BY <1>3, <2>1, FollowsParts
  <2> QED
    BY <1>4, <2>2
<1> PICK key : key = KeyOf(field)
  OBVIOUS
<1>6. /\ key.offset = offset + Len(Key(field)) /\ key.offset \in Nat
      /\ key.value % 8 = wireType /\ key.value \div 8 = field.number
      /\ ReadVarint(offset) = IF key.offset <= Len(input) THEN {key} ELSE {}
  BY <1>1, <1>5, KeyIsRead DEF KeyOf
<1>7. /\ VarintsAt(key) = {} /\ LengthsAt(key) = {}
      /\ FixedAt(key) = {w \in {wireType} : key.offset + size <= Len(input)}
  BY <1>2, <1>6 DEF LengthsAt, FixedAt, VarintsAt
<1>8. key.offset + size = offset + Len(Encoded(field))
  <2>1. Len(Key(field)) \in Nat
    BY <1>3
  <2> QED
    BY <1>5, <1>6, <2>1
<1>9. Refuse => ~Whole(field)
  <2> SUFFICES ASSUME Whole(field)
               PROVE  \E k \in ReadVarint(offset) : FixedAt(k) # {}
    BY DEF Refuse
  <2>1. key.offset + size <= Len(input)
    BY <1>8 DEF Whole
  <2>2. key.offset <= Len(input)
    BY <1>1, <1>6, <2>1
  <2> QED
    BY <1>6, <1>7, <2>1, <2>2
<1>10. ~ReadValue /\ ~ReadBytes
  BY <1>6, <1>7 DEF ReadValue, ReadBytes
<1>11. ASSUME ReadFixed
       PROVE  /\ Whole(field)
              /\ fields' = Append(fields, field) /\ offset' = offset + Len(Encoded(field))
              /\ UNCHANGED <<sent, input, decoder>>
  <2>1. /\ key.offset + size <= Len(input)
        /\ Field(key, Slice(key.offset, size), key.offset + size)
    BY <1>6, <1>7, <1>11 DEF ReadFixed
  <2>2. Slice(key.offset, size) = bytes
    <3>1. Follows(bytes, key.offset) /\ key.offset + Len(bytes) <= Len(input)
      BY <1>5, <1>6, <2>1
    <3> QED
      BY <1>6, <3>1, SliceIs
  <2>3. field = [number |-> key.value \div 8, wireType |-> key.value % 8, value |-> bytes]
    BY <1>1, <1>6 DEF Encodable
  <2>4. Field(key, bytes, key.offset + size)
    BY <2>1, <2>2
  <2> QED
    BY <1>8, <2>1, <2>3, <2>4 DEF Field, Whole
<1> QED
  BY <1>9, <1>10, <1>11 DEF Taken

\* A field that comes next is read as it is, or refused when it was cut short.
LEMMA FieldIsRead ==
  ASSUME CodecSizes, input \in Seq(Octets), offset \in Nat, NEW field \in Fields,
         Follows(Encoded(field), offset)
  PROVE  Taken(field)
<1>1. field.wireType \in {0, 2} \cup DOMAIN Widths
  BY DEF CodecSizes, Encodable
<1> QED
  BY <1>1, NumberIsRead, BytesAreRead, WidthIsRead

-----------------------------------------------------------------------------
(***************************************************************************)
(* Field by field.                                                         *)
(***************************************************************************)

\* The first fields of the message, and their bytes.
First(k) == SubSeq(sent, 1, k)
BytesOf(k) == Message(First(k))

\* The message is its fields, one behind the other.
LEMMA FirstFields ==
  ASSUME CodecSizes, sent \in Seq(Fields)
  PROVE  /\ First(0) = <<>> /\ First(Len(sent)) = sent /\ BytesOf(0) = <<>>
         /\ \A k \in 0 .. Len(sent) : /\ First(k) \in Seq(Fields) /\ Len(First(k)) = k
                                      /\ BytesOf(k) \in Seq(Octets)
         /\ \A k \in 0 .. Len(sent) - 1 :
              /\ sent[k + 1] \in Fields
              /\ First(k + 1) = Append(First(k), sent[k + 1])
              /\ BytesOf(k + 1) = BytesOf(k) \o Encoded(sent[k + 1])
<1>1. ASSUME NEW k \in 0 .. Len(sent)
      PROVE  /\ First(k) \in Seq(Fields) /\ Len(First(k)) = k
             /\ \A i \in 1 .. k : First(k)[i] = sent[i]
  <2>1. \A i \in 1 .. k : sent[i] \in Fields
    OBVIOUS
  <2>2. /\ First(k) \in Seq(Fields)
        /\ Len(First(k)) = IF 1 <= k THEN k - 1 + 1 ELSE 0
        /\ \A i \in 1 .. k - 1 + 1 : First(k)[i] = sent[1 + i - 1]
    BY <2>1, SubSeqProperties DEF First
  <2>3. k - 1 + 1 = k /\ \A i \in 1 .. k : 1 + i - 1 = i
    OBVIOUS
  <2>4. \A i \in 1 .. k : First(k)[i] = sent[1 + i - 1]
    BY <2>2, <2>3
  <2> QED
    BY <2>2, <2>3, <2>4
<1>2. First(0) = <<>> /\ First(Len(sent)) = sent
  <2>1. 0 \in 0 .. Len(sent) /\ Len(sent) \in 0 .. Len(sent) /\ Len(sent) \in Nat
    OBVIOUS
  <2>2. First(0) = <<>>
    BY <1>1, <2>1, EmptySeq
  <2>3. First(Len(sent)) = sent
    BY <1>1, <2>1, SeqEqual
  <2> QED
    BY <2>2, <2>3
<1>3. BytesOf(0) = <<>>
  <2> DEFINE none == [i \in DOMAIN <<>> |-> Encoded(<<>>[i])]
  <2>1. none = <<>>
    <3>1. DOMAIN <<>> = {}
      OBVIOUS
    <3>2. none \in Seq(Octets) /\ Len(none) = 0
      BY <3>1
    <3> HIDE DEF none
    <3> QED
      BY <3>2, EmptySeq
  <2>2. FlattenSeq(<<>>) = <<>>
    BY DEF FlattenSeq
  <2>3. Message(<<>>) = <<>>
    BY <2>1, <2>2 DEF Message
  <2> QED
    BY <1>2, <2>3 DEF BytesOf
<1>4. ASSUME NEW k \in 0 .. Len(sent) - 1
      PROVE  /\ sent[k + 1] \in Fields
             /\ First(k + 1) = Append(First(k), sent[k + 1])
             /\ BytesOf(k + 1) = BytesOf(k) \o Encoded(sent[k + 1])
  <2>1. k \in 0 .. Len(sent) /\ k + 1 \in 0 .. Len(sent) /\ k + 1 \in 1 .. Len(sent)
    OBVIOUS
  <2>2. PICK field \in Fields : field = sent[k + 1]
    BY <2>1
  <2>3. PICK all : all = Append(First(k), field)
    OBVIOUS
  <2>4. /\ all \in Seq(Fields) /\ Len(all) = k + 1 /\ all[k + 1] = field
        /\ \A i \in 1 .. k : all[i] = First(k)[i]
    BY <1>1, <2>1, <2>3, AppendProperties
  <2>5. /\ First(k + 1) \in Seq(Fields) /\ Len(First(k + 1)) = k + 1
        /\ \A i \in 1 .. k + 1 : First(k + 1)[i] = sent[i]
    BY <1>1, <2>1
  <2>6. \A i \in 1 .. k + 1 : all[i] = First(k + 1)[i]
    <3> SUFFICES ASSUME NEW i \in 1 .. k + 1 PROVE all[i] = sent[i]
      BY <2>5
    <3>1. CASE i = k + 1
      BY <2>2, <2>4, <3>1
    <3>2. CASE i # k + 1
      <4>1. i \in 1 .. k
        BY <3>2
      <4> QED
        BY <1>1, <2>1, <2>4, <4>1
    <3> QED
      BY <3>1, <3>2
  <2>7. all = First(k + 1)
    BY <2>4, <2>5, <2>6, SeqEqual
  <2>8. First(k) \in Seq(Fields)
    BY <1>1, <2>1
  <2>9. Message(Append(First(k), field)) = Message(First(k)) \o Encoded(field)
    BY <2>8, MessageAppend
  <2> QED
    BY <2>2, <2>3, <2>7, <2>9 DEF BytesOf
<1>5. \A k \in 0 .. Len(sent) : BytesOf(k) \in Seq(Octets)
  <2> SUFFICES ASSUME NEW k \in 0 .. Len(sent) PROVE BytesOf(k) \in Seq(Octets)
    OBVIOUS
  <2>1. CASE k = 0
    <3>1. <<>> \in Seq(Octets)
      OBVIOUS
    <3> QED
      BY <1>3, <2>1, <3>1
  <2>2. CASE k # 0
    <3>1. sent[k] \in Fields /\ First(k) \in Seq(Fields)
      BY <1>1, <2>2
    <3> QED
      BY <3>1, MessageAppend DEF BytesOf
  <2> QED
    BY <2>1, <2>2
<1> QED
  BY <1>1, <1>2, <1>3, <1>4, <1>5

\* The bytes of some first fields are the first bytes of those of more.
LEMMA BytesNest ==
  ASSUME CodecSizes, sent \in Seq(Fields)
  PROVE  \A k \in 0 .. Len(sent) : \A j \in 0 .. k : Begins(BytesOf(j), BytesOf(k))
<1> DEFINE S == {k \in Nat : k <= Len(sent) => \A j \in 0 .. k : Begins(BytesOf(j), BytesOf(k))}
<1>1. ASSUME NEW k \in Nat, \A m \in 0 .. k - 1 : m \in S
      PROVE  k \in S
  <2> SUFFICES ASSUME k <= Len(sent), NEW j \in 0 .. k
               PROVE  Begins(BytesOf(j), BytesOf(k))
    OBVIOUS
  <2>1. k \in 0 .. Len(sent) /\ j \in 0 .. Len(sent)
    OBVIOUS
  <2>2. BytesOf(k) \in Seq(Octets) /\ BytesOf(j) \in Seq(Octets)
    BY <2>1, FirstFields
  <2>3. CASE j = k
    BY <2>2, <2>3 DEF Begins
  <2>4. CASE j # k
    <3>1. k - 1 \in 0 .. k - 1 /\ k - 1 <= Len(sent) /\ j \in 0 .. k - 1
      BY <2>4
    <3>2. Begins(BytesOf(j), BytesOf(k - 1))
      BY <1>1, <3>1
    <3>3. k - 1 \in 0 .. Len(sent) - 1 /\ k - 1 \in 0 .. Len(sent) /\ k - 1 + 1 = k
      BY <2>1, <3>1
    <3>4. PICK e \in Seq(Octets) : BytesOf(k) = BytesOf(k - 1) \o e
      BY <3>3, FirstFields, EncodedFacts
    <3>5. BytesOf(k - 1) \in Seq(Octets)
      BY <3>3, FirstFields
    <3>6. Begins(BytesOf(k - 1), BytesOf(k))
      <4>1. /\ Len(BytesOf(k)) = Len(BytesOf(k - 1)) + Len(e)
            /\ \A i \in 1 .. Len(BytesOf(k - 1)) + Len(e) :
                 BytesOf(k)[i] = IF i <= Len(BytesOf(k - 1)) THEN BytesOf(k - 1)[i]
                               ELSE e[i - Len(BytesOf(k - 1))]
        BY <3>4, <3>5, ConcatProperties
      <4>2. Len(BytesOf(k - 1)) \in Nat /\ Len(e) \in Nat
        BY <3>5
      <4> QED
        BY <2>2, <4>1, <4>2 DEF Begins
    <3> QED
      BY <3>2, <3>6 DEF Begins
  <2> QED
    BY <2>3, <2>4
<1>2. Nat \subseteq S
  <2> HIDE DEF S
  <2> QED
    BY <1>1, AllNaturals
<1> QED
  BY <1>2

\* Behind the first fields comes the next one, as far as the input goes.
LEMMA NextFieldFollows ==
  ASSUME CodecSizes, sent \in Seq(Fields), Begins(input, Message(sent)),
         NEW k \in 0 .. Len(sent) - 1
  PROVE  /\ Follows(Encoded(sent[k + 1]), Len(BytesOf(k)))
         /\ Len(BytesOf(k)) + Len(Encoded(sent[k + 1])) = Len(BytesOf(k + 1))
         /\ Len(BytesOf(k + 1)) <= Len(Message(sent))
         /\ Len(BytesOf(k)) < Len(BytesOf(k + 1)) /\ Len(BytesOf(k)) \in Nat
<1>1. k \in 0 .. Len(sent) /\ k + 1 \in 0 .. Len(sent) /\ Len(sent) \in 0 .. Len(sent)
  OBVIOUS
<1>2. PICK e : e = Encoded(sent[k + 1])
  OBVIOUS
<1>3. e \in Seq(Octets) /\ Len(e) \in Nat \ {0} /\ BytesOf(k + 1) = BytesOf(k) \o e
  BY <1>2, FirstFields, EncodedFacts
<1>4. /\ BytesOf(k) \in Seq(Octets) /\ BytesOf(k + 1) \in Seq(Octets)
      /\ Message(sent) = BytesOf(Len(sent))
  BY <1>1, FirstFields DEF BytesOf
<1>5. Begins(BytesOf(k + 1), Message(sent))
  BY <1>1, <1>4, BytesNest
<1>6. PICK size \in Nat : size = Len(BytesOf(k))
  BY <1>4
<1>7. /\ Len(BytesOf(k + 1)) = size + Len(e)
      /\ \A i \in 1 .. size + Len(e) :
           BytesOf(k + 1)[i] = IF i <= size THEN BytesOf(k)[i] ELSE e[i - size]
  BY <1>3, <1>4, <1>6, ConcatProperties
<1>8. Follows(e, size)
  <2> SUFFICES ASSUME NEW i \in 1 .. Len(e), size + i <= Len(input)
               PROVE  input[size + i] = e[i]
    BY DEF Follows
  <2>1. size + i \in 1 .. size + Len(e) /\ ~(size + i <= size) /\ size + i - size = i
    BY <1>3
  <2>2. BytesOf(k + 1)[size + i] = e[i]
    BY <1>7, <2>1
  <2>3. size + i \in 1 .. Len(BytesOf(k + 1))
    BY <1>7, <2>1
  <2>4. Message(sent)[size + i] = BytesOf(k + 1)[size + i]
    BY <1>5, <2>3 DEF Begins
  <2>5. size + i \in 1 .. Len(input)
    BY <2>1 DEF Begins
  <2>6. Message(sent)[size + i] = input[size + i]
    BY <2>5 DEF Begins
  <2> QED
    BY <2>2, <2>4, <2>6
<1>9. Len(BytesOf(k + 1)) <= Len(Message(sent))
  BY <1>5 DEF Begins
<1>10. size < size + Len(e)
  BY <1>3
<1> QED
  BY <1>2, <1>6, <1>7, <1>8, <1>9, <1>10


-----------------------------------------------------------------------------
(***************************************************************************)
(* The inductive invariant of the codec.                                   *)
(***************************************************************************)

\* What was read are the first fields, up to where the reader is.
ReadUpTo(k) == fields = First(k) /\ offset = Len(BytesOf(k)) /\ offset <= Len(input)

CodecInv ==
  /\ sent \in Seq(Fields) /\ input \in Seq(Octets) /\ Begins(input, Message(sent))
  /\ decoder \in {"reading", "done", "failed"}
  /\ decoder # "failed" => \E k \in 0 .. Len(sent) : ReadUpTo(k)
  /\ decoder = "done" => offset = Len(input)
  /\ decoder = "failed" => fields = <<>> /\ input # Message(sent)

\* What arrives is the beginning of a message.
LEMMA CodecInitHolds ==
  ASSUME CodecSizes, CodecInit
  PROVE  CodecInv
<1>1. sent \in Seq(Fields)
  <2> PICK n \in 0 .. MaxFields : sent \in [1 .. n -> Fields]
    BY DEF CodecInit
  <2>1. n \in Nat
    BY DEF CodecSizes
  <2> QED
    BY <2>1
<1>2. /\ Len(sent) \in 0 .. Len(sent) /\ 0 \in 0 .. Len(sent)
      /\ Message(sent) \in Seq(Octets) /\ First(0) = <<>> /\ BytesOf(0) = <<>>
  <2>1. Len(sent) \in 0 .. Len(sent) /\ 0 \in 0 .. Len(sent)
    BY <1>1
  <2> QED
    BY <1>1, <2>1, FirstFields DEF BytesOf
<1>3. PICK whole \in Seq(Octets) : whole = Message(sent)
  BY <1>2
<1>4. PICK n \in 0 .. Len(whole) : input = SubSeq(whole, 1, n)
  BY <1>3, Zenon DEF CodecInit
<1>5. /\ input \in Seq(Octets) /\ Len(input) = n
      /\ \A i \in 1 .. n : input[i] = whole[i]
  <2>1. /\ input \in Seq(Octets)
        /\ Len(input) = IF 1 <= n THEN n - 1 + 1 ELSE 0
        /\ \A i \in 1 .. n - 1 + 1 : input[i] = whole[1 + i - 1]
    <3>1. \A i \in 1 .. n : whole[i] \in Octets
      BY <1>4
    <3> QED
      BY <1>4, <3>1, SubSeqProperties
  <2>2. n - 1 + 1 = n /\ \A i \in 1 .. n : 1 + i - 1 = i
    BY <1>4
  <2>3. \A i \in 1 .. n : input[i] = whole[1 + i - 1]
    BY <2>1, <2>2
  <2> QED
    BY <1>4, <2>1, <2>2, <2>3
<1>6. Begins(input, Message(sent))
  BY <1>3, <1>4, <1>5 DEF Begins
<1>7. ReadUpTo(0)
  BY <1>2, <1>5 DEF ReadUpTo, CodecInit
<1>8. decoder = "reading"
  BY DEF CodecInit
<1> QED
  BY <1>1, <1>2, <1>5, <1>6, <1>7, <1>8 DEF CodecInv

\* Where the reader is: in front of a field of the message.
LEMMA StandsBeforeAField ==
  ASSUME CodecSizes, CodecInv, Reading
  PROVE  \E k \in 0 .. Len(sent) - 1 : ReadUpTo(k) /\ offset \in Nat /\ Taken(sent[k + 1])
<1>1. PICK k \in 0 .. Len(sent) : ReadUpTo(k)
  BY DEF CodecInv, Reading
<1>2. k # Len(sent)
  <2>1. ASSUME k = Len(sent) PROVE FALSE
    <3>1. BytesOf(k) = Message(sent)
      BY <2>1, FirstFields DEF BytesOf, CodecInv
    <3>2. /\ Len(input) \in Nat /\ Len(Message(sent)) \in Nat
          /\ Len(input) <= Len(Message(sent))
      BY DEF CodecInv, Begins
    <3>3. offset = Len(Message(sent)) /\ offset < Len(input)
      BY <1>1, <3>1 DEF ReadUpTo, Reading
    <3> QED
      BY <3>2, <3>3
  <2> QED
    BY <2>1
<1>3. k \in 0 .. Len(sent) - 1
  BY <1>1, <1>2 DEF CodecInv
<1>4. Follows(Encoded(sent[k + 1]), offset) /\ offset \in Nat /\ sent[k + 1] \in Fields
  <2>1. Follows(Encoded(sent[k + 1]), Len(BytesOf(k))) /\ Len(BytesOf(k)) \in Nat
    BY <1>3, NextFieldFollows DEF CodecInv
  <2>2. offset = Len(BytesOf(k))
    BY <1>1 DEF ReadUpTo
  <2>3. sent[k + 1] \in Fields
    BY <1>3, FirstFields DEF CodecInv
  <2> QED
    BY <2>1, <2>2, <2>3
<1>5. Taken(sent[k + 1])
  BY <1>4, FieldIsRead DEF CodecInv
<1> QED
  BY <1>1, <1>3, <1>4, <1>5

\* What is read is the next field.
LEMMA FieldPreserves ==
  ASSUME CodecSizes, CodecInv, ReadValue \/ ReadBytes \/ ReadFixed
  PROVE  CodecInv'
<1>1. Reading
  BY DEF ReadValue, ReadBytes, ReadFixed
<1>2. PICK k \in 0 .. Len(sent) - 1 : ReadUpTo(k) /\ Taken(sent[k + 1])
  BY <1>1, StandsBeforeAField
<1>3. PICK field : field = sent[k + 1]
  OBVIOUS
<1>4. /\ Whole(field) /\ fields' = Append(fields, field)
      /\ offset' = offset + Len(Encoded(field)) /\ UNCHANGED <<sent, input, decoder>>
  BY <1>2, <1>3 DEF Taken
<1>5. First(k + 1) = Append(First(k), field)
  BY <1>2, <1>3, FirstFields DEF CodecInv
<1>6. Len(BytesOf(k)) + Len(Encoded(field)) = Len(BytesOf(k + 1))
  BY <1>2, <1>3, NextFieldFollows DEF CodecInv
<1>7. fields' = First(k + 1) /\ offset' = Len(BytesOf(k + 1)) /\ offset' <= Len(input)
  BY <1>2, <1>4, <1>5, <1>6 DEF ReadUpTo, Whole
<1>8. ReadUpTo(k + 1)'
  BY <1>4, <1>7 DEF ReadUpTo, First, BytesOf
<1>9. k + 1 \in 0 .. Len(sent')
  BY <1>2, <1>4 DEF CodecInv
<1>10. decoder' = "reading"
  BY <1>1, <1>4 DEF Reading
<1>11. (sent \in Seq(Fields) /\ input \in Seq(Octets) /\ Begins(input, Message(sent)))'
  BY <1>4 DEF CodecInv
<1> QED
  BY <1>8, <1>9, <1>10, <1>11 DEF CodecInv

\* A message that arrived whole is not refused.
LEMMA RefusePreserves ==
  ASSUME CodecSizes, CodecInv, Refuse
  PROVE  CodecInv'
<1>1. Reading /\ decoder' = "failed" /\ fields' = <<>> /\ UNCHANGED <<sent, input, offset>>
  BY DEF Refuse
<1>2. PICK k \in 0 .. Len(sent) - 1 : ReadUpTo(k) /\ offset \in Nat /\ Taken(sent[k + 1])
  BY <1>1, StandsBeforeAField
<1>3. ~Whole(sent[k + 1])
  BY <1>2 DEF Taken
<1>4. input # Message(sent)
  <2>1. ASSUME input = Message(sent) PROVE FALSE
    <3>1. offset + Len(Encoded(sent[k + 1])) <= Len(Message(sent))
      <4>1. /\ Len(BytesOf(k)) + Len(Encoded(sent[k + 1])) = Len(BytesOf(k + 1))
            /\ Len(BytesOf(k + 1)) <= Len(Message(sent))
        BY <1>2, NextFieldFollows DEF CodecInv
      <4> QED
        BY <1>2, <4>1 DEF ReadUpTo
    <3> QED
      BY <1>3, <2>1, <3>1 DEF Whole
  <2> QED
    BY <2>1
<1>5. (sent \in Seq(Fields) /\ input \in Seq(Octets) /\ Begins(input, Message(sent)))'
  BY <1>1 DEF CodecInv
<1> QED
  BY <1>1, <1>4, <1>5 DEF CodecInv

\* The invariant is inductive.
LEMMA CodecStepPreserves ==
  ASSUME CodecSizes, CodecInv, [CodecNext]_codecVars
  PROVE  CodecInv'
<1>1. CASE ReadValue \/ ReadBytes \/ ReadFixed
  BY <1>1, FieldPreserves
<1>2. CASE Refuse
  BY <1>2, RefusePreserves
<1>3. CASE Finish
  <2>1. /\ decoder = "reading" /\ offset = Len(input) /\ decoder' = "done"
        /\ UNCHANGED <<sent, input, offset, fields>>
    BY <1>3 DEF Finish
  <2>2. \E k \in 0 .. Len(sent) : ReadUpTo(k)
    BY <2>1 DEF CodecInv
  <2>3. (\E k \in 0 .. Len(sent) : ReadUpTo(k))'
    BY <2>1, <2>2 DEF ReadUpTo, First, BytesOf
  <2>4. (sent \in Seq(Fields) /\ input \in Seq(Octets) /\ Begins(input, Message(sent)))'
    BY <2>1 DEF CodecInv
  <2> QED
    BY <2>1, <2>3, <2>4 DEF CodecInv
<1>4. CASE UNCHANGED codecVars
  BY <1>4 DEF codecVars, CodecInv, ReadUpTo, First, BytesOf
<1> QED
  BY <1>1, <1>2, <1>3, <1>4 DEF CodecNext

\* The fields read are those of the message when its bytes are.
LEMMA ReadIsTheMessage ==
  ASSUME CodecSizes, CodecInv
  PROVE  MessagesSurvive
<1>1. sent \in Seq(Fields) /\ input \in Seq(Octets) /\ Begins(input, Message(sent))
  BY DEF CodecInv
<1>2. PICK k \in 0 .. Len(sent) :
        fields = First(k) /\ (decoder # "failed" => ReadUpTo(k))
  <2>1. CASE decoder = "failed"
    <3>1. fields = First(0) /\ 0 \in 0 .. Len(sent)
      BY <1>1, <2>1, FirstFields DEF CodecInv
    <3> QED
      BY <2>1, <3>1
  <2>2. CASE decoder # "failed"
    BY <2>2 DEF CodecInv, ReadUpTo
  <2> QED
    BY <2>1, <2>2
<1>3. /\ fields \in Seq(Fields) /\ Len(fields) = k /\ k <= Len(sent)
      /\ BytesOf(k) \in Seq(Octets) /\ BytesOf(k) = Message(fields)
  BY <1>1, <1>2, FirstFields DEF BytesOf
<1>4. IsPrefix(fields, sent)
  <2>1. SubSeq(fields, 1, Len(fields)) = fields
    BY <1>3, SubSeqFull
  <2>2. SubSeq(sent, 1, Len(fields)) = fields
    BY <1>2, <1>3 DEF First
  <2> QED
    BY <1>3, <2>1, <2>2 DEF IsPrefix
<1>5. ASSUME decoder = "done" PROVE input = BytesOf(k)
  <2>1. Len(BytesOf(k)) = Len(input)
    BY <1>2, <1>5 DEF ReadUpTo, CodecInv
  <2>2. /\ Len(sent) \in 0 .. Len(sent) /\ k \in 0 .. Len(sent)
        /\ Message(sent) = BytesOf(Len(sent))
    BY <1>1, FirstFields DEF BytesOf
  <2>3. Begins(BytesOf(k), Message(sent))
    BY <1>1, <2>2, BytesNest
  <2>4. \A i \in 1 .. Len(input) : input[i] = BytesOf(k)[i]
    BY <1>1, <2>1, <2>3 DEF Begins
  <2> QED
    BY <1>1, <1>3, <2>1, <2>4, SeqEqual
<1>6. ASSUME decoder = "done", input = Message(sent) PROVE fields = sent
  <2>1. CASE k = Len(sent)
    BY <1>1, <1>2, <2>1, FirstFields
  <2>2. CASE k # Len(sent)
    <3>1. k \in 0 .. Len(sent) - 1
      BY <1>1, <2>2
    <3>2. /\ Len(BytesOf(k)) < Len(BytesOf(k + 1))
          /\ Len(BytesOf(k + 1)) <= Len(Message(sent))
          /\ Len(BytesOf(k)) \in Nat
      BY <1>1, <3>1, NextFieldFollows
    <3>3. Len(BytesOf(k + 1)) \in Nat
      <4>1. k + 1 \in 0 .. Len(sent)
        BY <3>1
      <4>2. BytesOf(k + 1) \in Seq(Octets)
        BY <1>1, <4>1, FirstFields
      <4> QED
        BY <4>2
    <3>4. Len(Message(sent)) = Len(BytesOf(k))
      BY <1>5, <1>6
    <3> QED
      BY <3>2, <3>3, <3>4
  <2> QED
    BY <2>1, <2>2
<1>7. input = Message(sent) => decoder # "failed"
  BY DEF CodecInv
<1> QED
  BY <1>3, <1>4, <1>5, <1>6, <1>7 DEF MessagesSurvive

\* protobufFields reads a message as the fields protobufMessage made it of,
\* whatever their number, sizes and order; of a message that was cut short it
\* reads the fields in front of the cut when that is between two, and refuses
\* it otherwise.  The wire types are those of the reader, and it accepts as
\* many groups as the numbers of the fields have.
THEOREM MessagesAlwaysSurvive ==
  ASSUME CodecSizes
  PROVE  CodecSpec => []MessagesSurvive
<1>1. CodecInit => CodecInv
  BY CodecInitHolds
<1>2. CodecInv /\ [CodecNext]_codecVars => CodecInv'
  BY CodecStepPreserves
<1>3. CodecInv => MessagesSurvive
  BY ReadIsTheMessage
<1> QED
  BY <1>1, <1>2, <1>3, PTL DEF CodecSpec

=============================================================================
