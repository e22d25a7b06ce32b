------------------------------- MODULE Protobuf -------------------------------
(***************************************************************************)
(* The protobuf codec of the gRPC client (protobuf.ts): what               *)
(* protobufMessage writes, and how protobufFields reads what Xray sent,    *)
(* field by field.  A varint is a row of groups, the lowest first; a byte  *)
(* holds one group and whether more follow.  Bit masks and shifts are      *)
(* written as arithmetic, and the sizes are parameters.                    *)
(***************************************************************************)
EXTENDS Integers, Sequences, SequencesExt

CONSTANTS
  GroupSize,        \* values of a group: 128
  MaxGroups,        \* groups the reader accepts: 10, the last at shift 63, 70 bits
                    \* for the 64 of a counter
  Widths,           \* bytes of a value by its wire type: 1 :> 8 @@ 5 :> 4
  Fields,           \* the fields that messages are made of
  MaxFields         \* bound: fields of a message

VARIABLES
  sent,             \* the fields of the message
  input,            \* what arrived: the message, or its beginning
  offset,           \* bytes read
  fields,           \* fields read
  decoder           \* reading, done or failed

codecVars == <<sent, input, offset, fields, decoder>>

\* varint()
Varint[value \in Nat] ==
  IF value < GroupSize THEN <<value>>
  ELSE <<GroupSize + (value % GroupSize)>> \o Varint[value \div GroupSize]

Key(field) == Varint[field.number * 8 + field.wireType]

Encoded(field) ==
  CASE field.wireType = 0 -> Key(field) \o Varint[field.value]
    [] field.wireType = 2 -> Key(field) \o Varint[Len(field.value)] \o field.value
    [] OTHER -> Key(field) \o field.value

\* protobufMessage(), and the fields of a fixed width that only Xray sends.
Message(list) == FlattenSeq([i \in DOMAIN list |-> Encoded(list[i])])

\* What is assumed of the constants: the reader accepts as many groups as the
\* numbers of the fields have.
Fits(number) == Len(Varint[number]) <= MaxGroups

Encodable(field) ==
  /\ field = [number |-> field.number, wireType |-> field.wireType, value |-> field.value]
  /\ field.number \in Nat /\ field.wireType \in {0, 2} \cup DOMAIN Widths
  /\ Fits(field.number * 8 + field.wireType)
  /\ field.wireType = 0 => field.value \in Nat /\ Fits(field.value)
  /\ field.wireType # 0 => field.value \in Seq(0 .. 2 * GroupSize - 1)
  /\ field.wireType = 2 => Fits(Len(field.value))
  /\ field.wireType \in DOMAIN Widths => Len(field.value) = Widths[field.wireType]

CodecSizes ==
  /\ GroupSize \in Nat /\ GroupSize > 1
  /\ MaxGroups \in Nat
  /\ MaxFields \in Nat
  /\ DOMAIN Widths \subseteq 0 .. 7 \ {0, 2} /\ \A w \in DOMAIN Widths : Widths[w] \in Nat
  /\ \A field \in Fields : Encodable(field)

CodecInit ==
  /\ sent \in UNION {[1 .. n -> Fields] : n \in 0 .. MaxFields}
  /\ input \in {SubSeq(Message(sent), 1, n) : n \in 0 .. Len(Message(sent))}
  /\ offset = 0
  /\ fields = <<>>
  /\ decoder = "reading"

-----------------------------------------------------------------------------

\* The groups behind `start` up to the first that no other follows.
Closes(start, n) ==
  /\ start + n <= Len(input)
  /\ input[start + n] < GroupSize
  /\ \A m \in 1 .. n - 1 : input[start + m] >= GroupSize

\* 1n << shift
Weight[m \in Nat] == IF m = 0 THEN 1 ELSE GroupSize * Weight[m - 1]

ValueOf(start, n) ==
  LET value[m \in 0 .. n] ==
        IF m = 0 THEN 0
        ELSE value[m - 1] + (input[start + m] % GroupSize) * Weight[m - 1]
  IN  value[n]

\* Mutant: the shift stops below 63.
ReadVarintShort(start) ==
  {[value |-> ValueOf(start, n), offset |-> start + n] :
     n \in {m \in 1 .. MaxGroups - 1 : Closes(start, m)}}

\* readVarint(): one result, or none for an error.
ReadVarint(start) ==
  {[value |-> ValueOf(start, n), offset |-> start + n] :
     n \in {m \in 1 .. MaxGroups : Closes(start, m)}}

Slice(start, size) == SubSeq(input, start + 1, start + size)

Reading == decoder = "reading" /\ offset < Len(input)

Field(key, value, end) ==
  /\ fields' = Append(fields, [number |-> key.value \div 8,
                               wireType |-> key.value % 8, value |-> value])
  /\ offset' = end
  /\ UNCHANGED <<sent, input, decoder>>

VarintsAt(key) == {v \in ReadVarint(key.offset) : key.value % 8 = 0}
LengthsAt(key) ==
  {v \in ReadVarint(key.offset) : key.value % 8 = 2 /\ v.offset + v.value <= Len(input)}
FixedAt(key) ==
  {w \in DOMAIN Widths : key.value % 8 = w /\ key.offset + Widths[w] <= Len(input)}

ReadValue ==
  /\ Reading
  /\ \E key \in ReadVarint(offset) : \E v \in VarintsAt(key) :
       Field(key, v.value, v.offset)

ReadBytes ==
  /\ Reading
  /\ \E key \in ReadVarint(offset) : \E v \in LengthsAt(key) :
       Field(key, Slice(v.offset, v.value), v.offset + v.value)

ReadFixed ==
  /\ Reading
  /\ \E key \in ReadVarint(offset) : \E w \in FixedAt(key) :
       Field(key, Slice(key.offset, Widths[w]), key.offset + Widths[w])

\* An error discards the fields read.
Refuse ==
  /\ Reading
  /\ \A key \in ReadVarint(offset) :
       VarintsAt(key) = {} /\ LengthsAt(key) = {} /\ FixedAt(key) = {}
  /\ decoder' = "failed"
  /\ fields' = <<>>
  /\ UNCHANGED <<sent, input, offset>>

Finish ==
  /\ decoder = "reading"
  /\ offset = Len(input)
  /\ decoder' = "done"
  /\ UNCHANGED <<sent, input, offset, fields>>

CodecNext == ReadValue \/ ReadBytes \/ ReadFixed \/ Refuse \/ Finish

CodecSpec == CodecInit /\ [][CodecNext]_codecVars

-----------------------------------------------------------------------------

\* A message is read as the fields it was made of, up to the largest counter;
\* what is cut short is refused, or was cut between two fields, and never
\* read as something else.
MessagesSurvive ==
  /\ IsPrefix(fields, sent)
  /\ input = Message(sent) => decoder # "failed" /\ (decoder = "done" => fields = sent)
  /\ decoder = "done" => input = Message(fields)

=============================================================================
