------------------------------ MODULE LogReader ------------------------------
(***************************************************************************)
(* readNewestLines (log-reader.service.ts): one page of the lines of a log *)
(* file, counted from its end.  The file is read backwards in chunks, one  *)
(* readSync after the other, while Xray appends to it and the rotation may *)
(* truncate it.                                                            *)
(***************************************************************************)
EXTENDS Integers, Sequences, FiniteSets

CONSTANTS
  Letters,          \* model values: bytes that mean nothing to the reader
  CR, LF,           \* model values: carriage return and line feed
  ChunkSize,
  MaximumLineBytes,
  Pages,            \* values of `page`: 1, 2, ...
  PageSizes,
  MaxSize,          \* bound: bytes of the file when the reader starts
  MaxEdits          \* bound: bytes appended and truncations

Byte == Letters \cup {CR, LF}

\* What is assumed of the constants.
Bytes == CR # LF /\ CR \notin Letters /\ LF \notin Letters
ReaderSizes ==
  /\ ChunkSize \in Nat \ {0}
  /\ MaximumLineBytes \in Nat \ {0}
  /\ Pages \subseteq Nat \ {0}
  /\ PageSizes \subseteq Nat \ {0}

VARIABLES
  file,             \* the bytes of the log
  edits,
  reader,           \* closed, reading, scanning, last, done or failed
  page, pageSize,
  position,         \* bytes in front of the chunk
  length,           \* of the chunk
  chunk,            \* what was read of it; its unscanned part afterwards
  pending,          \* the line the scan is in the middle of: its end
  pendingTruncated,
  firstCandidate,
  total, lines,
  \* what only properties read
  opened,           \* the file when its size was taken
  truncated,        \* it was truncated since
  mixed             \* and bytes written after that were read

request == <<page, pageSize>>
scan == <<pending, pendingTruncated, firstCandidate, total, lines>>
history == <<opened, truncated, mixed>>
readerVars == <<file, edits, reader, request, position, length, chunk, scan, history>>

ReaderInit ==
  /\ \E n \in 0 .. MaxSize : file \in [1 .. n -> Byte]
  /\ edits = 0
  /\ reader = "closed"
  /\ page \in Pages
  /\ pageSize \in PageSizes
  /\ position = 0
  /\ length = 0
  /\ chunk = <<>>
  /\ pending = <<>>
  /\ pendingTruncated = FALSE
  /\ firstCandidate = TRUE
  /\ total = 0
  /\ lines = <<>>
  /\ opened = <<>>
  /\ truncated = FALSE
  /\ mixed = FALSE

-----------------------------------------------------------------------------

Least(m, n) == IF m <= n THEN m ELSE n
Upto(s, n) == SubSeq(s, 1, Least(n, Len(s)))

\* A chunk of the bytes in front of `end`.
StartChunk(end) ==
  /\ reader' = "reading"
  /\ length' = Least(ChunkSize, end)
  /\ position' = end - Least(ChunkSize, end)
  /\ chunk' = <<>>

\* openSync and fstatSync: the size is taken once.
Open ==
  /\ reader = "closed"
  /\ opened' = file
  /\ IF file = <<>>
     THEN reader' = "done" /\ UNCHANGED <<position, length, chunk>>
     ELSE StartChunk(Len(file))
  /\ UNCHANGED <<file, edits, request, scan, truncated, mixed>>

\* readSync may return fewer bytes than asked for.
Read(count) ==
  /\ reader = "reading"
  /\ count <= length - Len(chunk)
  /\ position + Len(chunk) + count <= Len(file)
  /\ LET from == position + Len(chunk)
         read == chunk \o SubSeq(file, from + 1, from + count)
     IN  /\ chunk' = read
         /\ reader' = IF Len(read) = length THEN "scanning" ELSE "reading"
  /\ mixed' = (mixed \/ truncated)
  /\ UNCHANGED <<file, edits, request, position, length, scan, opened, truncated>>

ReadsNothing ==
  /\ reader = "reading"
  /\ Len(file) <= position + Len(chunk)
  /\ reader' = "failed"
  /\ UNCHANGED <<file, edits, request, position, length, chunk, scan, history>>

\* Mutant: a line is cut at its end, not at its beginning.
PrependBoundedKeepingEnd(prefix) ==
  LET joined == prefix \o pending
  IN  [bytes |-> SubSeq(joined, Len(joined) - Least(MaximumLineBytes, Len(joined)) + 1,
                        Len(joined)),
       truncated |-> pendingTruncated \/ Len(joined) > MaximumLineBytes]

\* Of a line that is too long, the beginning is kept.
PrependBounded(prefix) ==
  [bytes |-> Upto(prefix \o pending, MaximumLineBytes),
   truncated |-> pendingTruncated \/ Len(prefix) + Len(pending) > MaximumLineBytes]

StripCR(bytes) ==
  IF bytes # <<>> /\ bytes[Len(bytes)] = CR THEN Upto(bytes, Len(bytes) - 1) ELSE bytes

Shown(bytes, cut) == [text |-> StripCR(bytes), truncated |-> cut]

FirstResultIndex == (page - 1) * pageSize
InPage(n) == FirstResultIndex <= n /\ n < FirstResultIndex + pageSize

\* What follows the last line feed of the file is a line only if there is
\* something.
Consume(line) ==
  /\ firstCandidate' = FALSE
  /\ IF firstCandidate /\ line.bytes = <<>>
     THEN UNCHANGED <<total, lines>>
     ELSE /\ lines' = IF InPage(total)
                      THEN Append(lines, Shown(line.bytes, line.truncated))
                      ELSE lines
          /\ total' = total + 1

Feeds(s) == {i \in 1 .. Len(s) : s[i] = LF}

\* The line feed nearest to the end of the chunk ends the line before it.
TakeLine ==
  /\ reader = "scanning"
  /\ \E index \in Feeds(chunk) :
       /\ \A i \in Feeds(chunk) : i <= index
       /\ Consume(PrependBounded(SubSeq(chunk, index + 1, Len(chunk))))
       /\ chunk' = Upto(chunk, index - 1)
  /\ pending' = <<>>
  /\ pendingTruncated' = FALSE
  /\ UNCHANGED <<file, edits, reader, request, position, length, history>>

FinishChunk ==
  /\ reader = "scanning"
  /\ Feeds(chunk) = {}
  /\ pending' = PrependBounded(chunk).bytes
  /\ pendingTruncated' = PrependBounded(chunk).truncated
  /\ IF position > 0
     THEN StartChunk(position)
     ELSE reader' = "last" /\ UNCHANGED <<position, length, chunk>>
  /\ UNCHANGED <<file, edits, request, firstCandidate, total, lines, history>>

TakeLastLine ==
  /\ reader = "last"
  /\ Consume([bytes |-> pending, truncated |-> pendingTruncated])
  /\ reader' = "done"
  /\ UNCHANGED <<file, edits, request, position, length, chunk,
                 pending, pendingTruncated, history>>

\* Xray writes to the log, the rotation truncates it.
Edit ==
  /\ edits < MaxEdits
  /\ edits' = edits + 1
  /\ reader \in {"reading", "scanning"}
  /\ UNCHANGED <<reader, request, position, length, chunk, scan, opened, mixed>>

Write(byte) ==
  /\ Edit
  /\ file' = Append(file, byte)
  /\ UNCHANGED truncated

Truncate ==
  /\ Edit
  /\ file' = <<>>
  /\ truncated' = TRUE

ReaderNext ==
  \/ Open \/ (\E count \in 1 .. ChunkSize : Read(count)) \/ ReadsNothing
  \/ TakeLine \/ FinishChunk \/ TakeLastLine
  \/ (\E byte \in Byte : Write(byte)) \/ Truncate

ReaderSpec == ReaderInit /\ [][ReaderNext]_readerVars

-----------------------------------------------------------------------------
(***************************************************************************)
(* Properties.                                                             *)
(***************************************************************************)

\* The reader keeps no more of a line than MaximumLineBytes and no more lines
\* than a page, however large the file is.
Line == [text : Seq(Byte), truncated : BOOLEAN]

TypeOK ==
  /\ file \in Seq(Byte) /\ opened \in Seq(Byte)
  /\ reader \in {"closed", "reading", "scanning", "last", "done", "failed"}
  /\ page \in Pages /\ pageSize \in PageSizes
  /\ position \in Nat /\ length \in Nat
  /\ chunk \in Seq(Byte) /\ Len(chunk) <= length /\ length <= ChunkSize
  /\ pending \in Seq(Byte) /\ Len(pending) <= MaximumLineBytes
  /\ {pendingTruncated, firstCandidate, truncated, mixed} \subseteq BOOLEAN
  /\ total \in Nat
  /\ lines \in Seq(Line) /\ Len(lines) <= pageSize

\* The lines of a text, by the place behind their last byte.
Ends(s) == Feeds(s) \cup (IF s # <<>> /\ s[Len(s)] # LF THEN {Len(s) + 1} ELSE {})

LineAt(s, end) ==
  LET begins == {i \in 1 .. end : \A j \in i .. end - 1 : s[j] # LF}
      begin == CHOOSE i \in begins : \A j \in begins : i <= j
      bytes == SubSeq(s, begin, end - 1)
  IN  Shown(Upto(bytes, MaximumLineBytes), Len(bytes) > MaximumLineBytes)

\* The line with `n` lines behind it.
FromEnd(s, n) ==
  LineAt(s, CHOOSE end \in Ends(s) : Cardinality({e \in Ends(s) : e > end}) = n)

PageOf(s) ==
  LET found == {n \in 0 .. Cardinality(Ends(s)) - 1 : InPage(n)}
  IN  [i \in 1 .. Cardinality(found) |-> FromEnd(s, FirstResultIndex + i - 1)]

\* A page that is returned holds the lines, cut where they are too long, and
\* the total of the file as it was when it was opened, wherever the chunks
\* break lines and whatever Xray writes meanwhile.  A truncation is noticed,
\* unless the log has grown over the place again (log-reader.service.ts:169).
PagesAreExact ==
  reader = "done" /\ ~mixed => total = Cardinality(Ends(opened)) /\ lines = PageOf(opened)

=============================================================================
