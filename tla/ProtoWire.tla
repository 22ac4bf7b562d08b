----------------------------- MODULE ProtoWire -----------------------------
(***************************************************************************)
(* The protobuf wire format as libprotobuf reads and writes it for the     *)
(* tables of SrsMessages: what the generated functions share.              *)
(*                                                                         *)
(* A buffer is a sequence of bytes.  A number is the number itself; a      *)
(* double is its eight bytes, which nothing here looks into.               *)
(***************************************************************************)
EXTENDS SrsMessages, SequencesExt

CONSTANT VarintBytes  \* the longest varint of a uint64

ASSUME VarintAssumption == VarintBytes \in Nat /\ 128^VarintBytes >= Modulus64

-----------------------------------------------------------------------------
(* Writing. *)
Varint[n \in Nat] ==
  IF n < 128 THEN <<n>> ELSE <<128 + (n % 128)>> \o Varint[n \div 128]

Tag(number, wireType) == Varint[8 * number + wireType]

Delimited(number, bytes, size) == Tag(number, 2) \o Varint[size] \o bytes

FixedBytes(word) == <<word.low % 256, word.low \div 256, word.high % 256, word.high \div 256>>

(* How many bytes a varint takes. *)
VarintSize(n) == Min({k \in 1..VarintBytes : n < 128^k})

DelimitedSize(size) == 1 + VarintSize(size) + size

SumOver(s, Size(_)) == FoldLeft(LAMBDA sum, e : sum + Size(e), 0, s)

(* A double that is neither above nor below zero, whatever its sign. *)
IsZero(double) == double[8] \in {0, 128} /\ \A i \in 1..7 : double[i] = 0

(* Is the field there to be written?  A number, a flag, a text or a double  *)
(* at its default is not; what is repeated or embedded is by its elements. *)
Present(value, kind) ==
  CASE kind \in {"uint32", "uint64", "enum"} -> value # 0
    [] kind = "bool"   -> value
    [] kind = "double" -> ~IsZero(value)
    [] OTHER           -> value # <<>>

(* ByteSizeLong, field by field; every tag of these messages takes a byte.  *)
RECURSIVE ByteSizeLong(_, _)
SizeOf(value, rule) ==
  CASE rule[2] \in {"uint32", "uint64", "enum"} -> 1 + VarintSize(value)
    [] rule[2] = "bool"           -> 2
    [] rule[2] = "double"         -> 9
    [] rule[2] = "string"         -> DelimitedSize(Len(value))
    [] rule[2] = "packed fixed32" -> DelimitedSize(4 * Len(value))
    [] rule[2] = "packed uint32"  -> DelimitedSize(SumOver(value, VarintSize))
    [] OTHER -> SumOver(value, LAMBDA m : DelimitedSize(ByteSizeLong(rule[3], m)))

ByteSizeLong(type, m) ==
  SumOver(SizeTable[type],
          LAMBDA rule : IF Present(m[rule[1]], rule[2]) THEN SizeOf(m[rule[1]], rule) ELSE 0)
  + Len(m.unknown)

(* _InternalSerialize: the fields in turn, then what is not known.  The     *)
(* lengths of embedded and packed fields are those ByteSizeLong has cached.*)
RECURSIVE Serialize(_, _)
Written(value, rule) ==
  CASE rule[3] \in {"uint32", "uint64", "enum"} -> Tag(rule[1], 0) \o Varint[value]
    [] rule[3] = "bool"           -> Tag(rule[1], 0) \o <<1>>
    [] rule[3] = "double"         -> Tag(rule[1], 1) \o value
    [] rule[3] = "string"         -> Delimited(rule[1], value, Len(value))
    [] rule[3] = "packed fixed32" ->
         Delimited(rule[1], FlattenSeq([i \in DOMAIN value |-> FixedBytes(value[i])]),
                   4 * Len(value))
    [] rule[3] = "packed uint32"  ->
         Delimited(rule[1], FlattenSeq([i \in DOMAIN value |-> Varint[value[i]]]),
                   SumOver(value, VarintSize))
    [] OTHER ->
         FlattenSeq([i \in DOMAIN value |->
           Delimited(rule[1], Serialize(rule[4], value[i]), ByteSizeLong(rule[4], value[i]))])

FieldWritten(m, rule) ==
  IF Present(m[rule[2]], rule[3]) THEN Written(m[rule[2]], rule) ELSE <<>>

AllWritten(m, rules) ==
  FlattenSeq([i \in DOMAIN rules |-> FieldWritten(m, rules[i])]) \o m.unknown

Serialize(type, m) == AllWritten(m, InternalSerialize[type])

-----------------------------------------------------------------------------
(* Reading.  A varint ends at its first byte below 128; one that does not   *)
(* end in the buffer is no varint, and neither is a longer one than a      *)
(* uint64 takes.                                                           *)
Unreadable == [ok |-> FALSE]

VarintOf(bytes) == FoldLeft(LAMBDA v, b : 128 * v + (b % 128), 0, Reverse(bytes))

VarintUpTo(bytes, first, last) ==
  [ok |-> TRUE, next |-> last + 1, value |-> VarintOf(SubSeq(bytes, first, last))]

ReadVarint(bytes, first) ==
  LET ends == {j \in first..Len(bytes) : j < first + VarintBytes /\ bytes[j] < 128}
  IN  IF ends = {} THEN Unreadable ELSE VarintUpTo(bytes, first, Min(ends))

(* The bytes from first on, n of them, if there are as many. *)
ReadBytes(bytes, first, n) ==
  IF first + n - 1 > Len(bytes) THEN Unreadable
  ELSE [ok |-> TRUE, next |-> first + n, value |-> SubSeq(bytes, first, first + n - 1)]

ReadDelimited(bytes, size) ==
  IF size.ok THEN ReadBytes(bytes, size.next, size.value) ELSE Unreadable

(* The value after a tag.  Groups are not used by proto3. *)
ReadValue(bytes, tag) ==
  CASE ~tag.ok \/ tag.value < 8 -> Unreadable
    [] tag.value % 8 = 0 -> ReadVarint(bytes, tag.next)
    [] tag.value % 8 = 1 -> ReadBytes(bytes, tag.next, 8)
    [] tag.value % 8 = 2 -> ReadDelimited(bytes, ReadVarint(bytes, tag.next))
    [] tag.value % 8 = 5 -> ReadBytes(bytes, tag.next, 4)
    [] OTHER             -> Unreadable

TaggedValue(bytes, first, tag, field) ==
  IF ~field.ok THEN Unreadable
  ELSE [ok |-> TRUE, tag |-> tag.value, value |-> field.value, next |-> field.next,
        raw |-> SubSeq(bytes, first, field.next - 1)]

FieldAfter(bytes, first, tag) == TaggedValue(bytes, first, tag, ReadValue(bytes, tag))

ReadField(bytes, first) == FieldAfter(bytes, first, ReadVarint(bytes, first))

(* The fields of a buffer, in order; the last one is the one not read. *)
FieldThen(field, from) == IF field.ok THEN <<field>> \o from[field.next] ELSE <<field>>

FieldsOf(bytes) ==
  LET from[i \in 1..(Len(bytes) + 1)] ==
        IF i > Len(bytes) THEN <<>> ELSE FieldThen(ReadField(bytes, i), from)
  IN  from[1]

Words(bytes) ==
  [i \in 1..(Len(bytes) \div 4) |->
     [low  |-> bytes[4 * i - 3] + 256 * bytes[4 * i - 2],
      high |-> bytes[4 * i - 1] + 256 * bytes[4 * i]]]

(* The varints of a packed field: each ends where the next one begins. *)
VarintsBetween(bytes, ends) ==
  [i \in 1..(Len(ends) - 1) |->
     VarintOf(SubSeq(bytes, ends[i] + 1, ends[i + 1])) % Modulus32]

Varints(bytes) ==
  VarintsBetween(bytes, SetToSortSeq({0} \cup {i \in DOMAIN bytes : bytes[i] < 128}, <))

EndsVarint(bytes) == bytes = <<>> \/ bytes[Len(bytes)] < 128

Good(value) == [ok |-> TRUE, value |-> value]
Bad(value)  == [ok |-> FALSE, value |-> value]

(* _InternalParse into a message that may have values already, which is     *)
(* how an embedded message that comes in two parts is merged.  "ok" is the *)
(* result; the value is the message, as far as it was read.                *)
RECURSIVE ParseInto(_, _, _)
Embedded(others, part) == [ok |-> part.ok, value |-> Append(others, part.value)]

Read(field, rule, old) ==
  CASE rule[3] \in {"uint32", "enum"} -> Good(field.value % Modulus32)
    [] rule[3] = "uint64"         -> Good(field.value % Modulus64)
    [] rule[3] = "bool"           -> Good(field.value # 0)
    [] rule[3] = "double"         -> Good(field.value)
    [] rule[3] = "string"         -> [ok |-> \A i \in DOMAIN field.value : field.value[i] < 128,
                                      value |-> field.value]
    [] rule[3] = "one fixed32"    -> Good(old \o Words(field.value))
    [] rule[3] = "packed fixed32" -> [ok |-> Len(field.value) % 4 = 0,
                                      value |-> old \o Words(field.value)]
    [] rule[3] = "one uint32"     -> Good(Append(old, field.value % Modulus32))
    [] rule[3] = "packed uint32"  -> [ok |-> EndsVarint(field.value),
                                      value |-> old \o Varints(field.value)]
    [] rule[3] = "message"        ->
         Embedded(<<>>, ParseInto(rule[4], field.value,
                                  IF old = <<>> THEN Clear[rule[4]] ELSE old[1]))
    [] rule[3] = "messages"       ->
         Embedded(old, ParseInto(rule[4], field.value, Clear[rule[4]]))

Stored(m, rule, read) == [ok |-> read.ok, value |-> [m EXCEPT ![rule[2]] = read.value]]

StoredBy(m, field, rule) == Stored(m, rule, Read(field, rule, m[rule[2]]))

ParseKnown(m, field, rules) ==
  IF rules = {} THEN Good([m EXCEPT !.unknown = @ \o field.raw])
  ELSE StoredBy(m, field, CHOOSE rule \in rules : TRUE)

ParseField(type, parsed, field) ==
  IF ~parsed.ok \/ ~field.ok THEN Bad(parsed.value)
  ELSE ParseKnown(parsed.value, field,
                  {rule \in ToSet(InternalParse[type]) : rule[1] = field.tag})

ParseInto(type, bytes, m) ==
  FoldLeft(LAMBDA parsed, field : ParseField(type, parsed, field), Good(m), FieldsOf(bytes))

(* ParseFromArray and ParseFromString: Clear, then _InternalParse. *)
Parse(type, bytes) == ParseInto(type, bytes, Clear[type])

-----------------------------------------------------------------------------
(* MergeFrom: what is repeated is appended, what is embedded is merged, and *)
(* of the rest the other message's values count where they are set.  The   *)
(* mutant replaces an embedded message instead of merging it.              *)
RECURSIVE MergeFrom(_, _, _)
MergedReplacing(old, new, rule) ==
  CASE rule[2] = "repeated"              -> old \o new
    [] rule[2] = "number"                -> IF new # 0 THEN new ELSE old
    [] rule[2] = "bool"                  -> new \/ old
    [] rule[2] = "double"                -> IF IsZero(new) THEN old ELSE new
    [] rule[2] \in {"string", "message"} -> IF new # <<>> THEN new ELSE old

Merged(old, new, rule) ==
  CASE rule[2] = "repeated" -> old \o new
    [] rule[2] = "number"   -> IF new # 0 THEN new ELSE old
    [] rule[2] = "bool"     -> new \/ old
    [] rule[2] = "double"   -> IF IsZero(new) THEN old ELSE new
    [] rule[2] = "string"   -> IF new # <<>> THEN new ELSE old
    [] rule[2] = "message"  ->
         IF new = <<>> THEN old
         ELSE <<MergeFrom(rule[3], IF old = <<>> THEN Clear[rule[3]] ELSE old[1], new[1])>>

MergeFrom(type, m, from) ==
  FoldLeft(LAMBDA merged, rule :
             [merged EXCEPT ![rule[1]] = Merged(m[rule[1]], from[rule[1]], rule)],
           [m EXCEPT !.unknown = @ \o from.unknown], MergeTable[type])
=============================================================================
