------------------------------- MODULE Codec -------------------------------
(***************************************************************************)
(* The binary codecs (codec_*.hpp) over reader and writer (reader.hpp,     *)
(* writer.hpp).  A byte is a number below Base and a 64-bit word is Width  *)
(* bytes, little end first (256 and 8 in the code).  A decoder is an       *)
(* operator of the bytes and a position; it answers [ok, at, val, reserve]:*)
(* whether it succeeded, the next position, the value, and the largest     *)
(* number of elements it reserved memory for.  The state machine stores an *)
(* encoded value and damages it.                                           *)
(***************************************************************************)
EXTENDS Integers, Sequences, SequencesExt, FiniteSets, FiniteSetsExt

CONSTANTS Base, Width,
          Typed,      \* the typed values stored: [type, val]
          MaxEdits    \* bound: damaged bytes

VARIABLES original, bytes, edits
cvars == <<original, bytes, edits>>

Byte == 0 .. Base - 1
Limit == Base ^ Width

(* The persistable types, and values of codec<value> by tag.               *)
IntegerType == [t |-> "integer"]
DoubleType == [t |-> "double"]
StringType == [t |-> "string"]
ValueType == [t |-> "value"]
VectorOf(type) == [t |-> "vector", of |-> type]
MapOf(key, type) == [t |-> "map", key |-> key, of |-> type]
ArrayType == VectorOf(ValueType)
ObjectType == MapOf(StringType, ValueType)

Tags == <<"null", "boolean", "integer", "number", "string", "array", "object">>
TagByte(tag) == (CHOOSE i \in DOMAIN Tags : Tags[i] = tag) - 1

-----------------------------------------------------------------------------
(* writer: scalar() and string().                                          *)

Word(n) == [k \in 1 .. Width |-> ((n % Limit) \div Base ^ (k - 1)) % Base]
Counted(n, text) == Word(n) \o text

RECURSIVE Encode(_, _)
EncodeVector(type, items) ==
    Counted(Len(items), FlattenSeq([i \in DOMAIN items |-> Encode(type, items[i])]))
EncodeMap(key, type, pairs) ==
    Counted(Len(pairs),
            FlattenSeq([i \in DOMAIN pairs |-> Encode(key, pairs[i][1])
                                               \o Encode(type, pairs[i][2])]))
EncodeValue(v) ==
    <<TagByte(v.tag)>> \o
    CASE v.tag = "null" -> << >>
      [] v.tag = "boolean" -> <<IF v.on THEN 1 ELSE 0>>
      [] v.tag = "integer" -> Encode(IntegerType, v.num)
      [] v.tag = "number" -> Encode(DoubleType, v.num)
      [] v.tag = "string" -> Encode(StringType, v.items)
      [] v.tag = "array" -> EncodeVector(ValueType, v.items)
      [] v.tag = "object" -> EncodeMap(StringType, ValueType, v.items)
Encode(type, v) ==
    CASE type.t \in {"integer", "double"} -> Word(v)
      [] type.t = "string" -> Counted(Len(v), v)
      [] type.t = "value" -> EncodeValue(v)
      [] type.t = "vector" -> EncodeVector(type.of, v)
      [] type.t = "map" -> EncodeMap(type.key, type.of, v)
      [] type.t = "property" -> Encode(type.of, v)

-----------------------------------------------------------------------------
(* reader: scalar() and string(), which throw where the bytes do not       *)
(* suffice.                                                                *)

Good(at, val) == [ok |-> TRUE, at |-> at, val |-> val, reserve |-> 0]
Bad == [ok |-> FALSE, at |-> 1, val |-> 0, reserve |-> 0]
Remaining(bs, at) == Len(bs) - at + 1

(* Seeded fault for Signed: the top bit is not a sign.                     *)
Unsigned(n) == n

(* A number whose top bit is set is negative in an integer, and a bit      *)
(* pattern in a double.                                                    *)
Signed(n) == IF 2 * n >= Limit THEN n - Limit ELSE n
ReadWord(bs, i) ==
    IF Width > Remaining(bs, i) THEN Bad
    ELSE Good(i + Width, MapThenSumSet(LAMBDA k : bs[i + k] * Base ^ k, 0 .. Width - 1))

ReadString(bs, i) ==
    LET count == ReadWord(bs, i)
    IN  IF ~ count.ok \/ count.val > Remaining(bs, count.at) THEN Bad
        ELSE Good(count.at + count.val, SubSeq(bs, count.at, count.at + count.val - 1))

(* Seeded fault for Implausible: any count is accepted.                    *)
NeverImplausible(bs, count) == FALSE

Implausible(bs, count) == count.val > Remaining(bs, count.at) + 1

Before(a, b) ==     \* the order of keys: numbers, or texts byte by byte
    \/ \E n \in DOMAIN b : /\ SubSeq(a, 1, n - 1) = SubSeq(b, 1, n - 1)
                           /\ n > Len(a) \/ a[n] < b[n]
                           /\ n - 1 <= Len(a)
KeyBefore(type, a, b) == IF type.t = "string" THEN Before(a, b) ELSE a < b

(* Seeded fault for Put: a second value for a key is added beside it.      *)
PutBeside(type, pairs, k, v) ==
    SelectSeq(pairs, LAMBDA p : KeyBefore(type, p[1], k) \/ p[1] = k) \o <<<<k, v>>>>
    \o SelectSeq(pairs, LAMBDA p : KeyBefore(type, k, p[1]))

(* try_emplace and assignment: the last value read for a key stays.        *)
Put(type, pairs, k, v) ==
    SelectSeq(pairs, LAMBDA p : KeyBefore(type, p[1], k)) \o <<<<k, v>>>>
    \o SelectSeq(pairs, LAMBDA p : KeyBefore(type, k, p[1]))

RECURSIVE Decode(_, _, _)

(* The n elements still to read, after the ones in done.                   *)
RECURSIVE DecodeItems(_, _, _, _, _)
DecodeItems(type, bs, at, n, done) ==
    IF n = 0 THEN Good(at, done)
    ELSE LET item == Decode(type, bs, at)
             rest == DecodeItems(type, bs, item.at, n - 1, Append(done, item.val))
         IN  IF ~ item.ok THEN item
             ELSE [rest EXCEPT !.reserve = Max({@, item.reserve})]

DecodeVector(type, bs, i) ==
    LET count == ReadWord(bs, i)
        items == DecodeItems(type, bs, count.at, count.val, << >>)
    IN  IF ~ count.ok \/ Implausible(bs, count) THEN Bad
        ELSE [items EXCEPT !.reserve = Max({@, count.val})]

RECURSIVE DecodePairs(_, _, _, _, _, _)
DecodePairs(key, type, bs, at, n, done) ==
    IF n = 0 THEN Good(at, done)
    ELSE LET k == Decode(key, bs, at)
             v == Decode(type, bs, k.at)
             rest == DecodePairs(key, type, bs, v.at, n - 1,
                                 Put(key, done, k.val, v.val))
         IN  IF ~ k.ok THEN k ELSE IF ~ v.ok THEN v
             ELSE [rest EXCEPT !.reserve = Max({@, v.reserve})]

DecodeMap(key, type, bs, i) ==
    LET count == ReadWord(bs, i)
    IN  IF ~ count.ok \/ Implausible(bs, count) THEN Bad
        ELSE DecodePairs(key, type, bs, count.at, count.val, << >>)

Tagged(tag, r) ==
    IF ~ r.ok THEN r
    ELSE [r EXCEPT !.val =
        IF tag \in {"integer", "number"} THEN [tag |-> tag, num |-> @]
        ELSE [tag |-> tag, items |-> @]]

DecodeValue(bs, i) ==
    IF i > Len(bs) \/ bs[i] >= Len(Tags) THEN Bad     \* unknown value tag
    ELSE LET tag == Tags[bs[i] + 1]
         IN  CASE tag = "null" -> Good(i + 1, [tag |-> tag])
               [] tag = "boolean" ->
                    IF i + 1 > Len(bs) THEN Bad
                    ELSE Good(i + 2, [tag |-> tag, on |-> bs[i + 1] # 0])
               [] tag = "integer" -> Tagged(tag, Decode(IntegerType, bs, i + 1))
               [] tag = "number" -> Tagged(tag, Decode(DoubleType, bs, i + 1))
               [] tag = "string" -> Tagged(tag, Decode(StringType, bs, i + 1))
               [] tag = "array" -> Tagged(tag, Decode(ArrayType, bs, i + 1))
               [] tag = "object" -> Tagged(tag, Decode(ObjectType, bs, i + 1))

Decode(type, bs, i) ==
    CASE type.t = "integer" -> LET r == ReadWord(bs, i)
                               IN  IF r.ok THEN [r EXCEPT !.val = Signed(@)] ELSE r
      [] type.t = "double" -> ReadWord(bs, i)
      [] type.t = "string" -> ReadString(bs, i)
      [] type.t = "value" -> DecodeValue(bs, i)
      [] type.t = "vector" -> DecodeVector(type.of, bs, i)
      [] type.t = "map" -> DecodeMap(type.key, type.of, bs, i)
      [] type.t = "property" -> Decode(type.of, bs, i)

(* Seeded fault for Load: bytes after the value are not looked at.         *)
LoadPrefix(type, bs) == Decode(type, bs, 1)

(* transaction::root(): the payload of a root holds one value and no more. *)
Load(type, bs) ==
    LET r == Decode(type, bs, 1)
    IN  IF r.ok /\ r.at # Len(bs) + 1 THEN [r EXCEPT !.ok = FALSE] ELSE r

-----------------------------------------------------------------------------
CodecInit == /\ original \in Typed /\ edits = 0
             /\ bytes = Encode(original.type, original.val)

(* A byte changes, the end is lost, or a byte follows.                     *)
Damage ==
    /\ edits < MaxEdits /\ edits' = edits + 1
    /\ \/ \E i \in DOMAIN bytes, b \in Byte : bytes' = [bytes EXCEPT ![i] = b]
       \/ \E n \in 0 .. Len(bytes) - 1 : bytes' = SubSeq(bytes, 1, n)
       \/ \E b \in Byte : bytes' = Append(bytes, b)
    /\ UNCHANGED original

CodecSpec == CodecInit /\ [][Damage]_cvars

-----------------------------------------------------------------------------
(* A value is read back as it was written, whatever its type.              *)
ReadsBack == edits = 0 => /\ Load(original.type, bytes).ok
                          /\ Load(original.type, bytes).val = original.val

(* An encoding is self-delimiting: cut short, or followed by anything, the *)
(* bytes of a value are refused.                                           *)
CutIsRefused ==
    LET whole == Encode(original.type, original.val)
    IN  IsStrictPrefix(bytes, whole) \/ IsStrictPrefix(whole, bytes)
            => ~ Load(original.type, bytes).ok

(* The values a program can hold: each key of a map once, in order.        *)
RECURSIVE WellFormed(_, _)
WellFormed(type, v) ==
    CASE type.t \in {"integer", "double"} -> v \in -Limit .. Limit
      [] type.t = "string" -> v \in Seq(Byte)
      [] type.t = "property" -> WellFormed(type.of, v)
      [] type.t = "vector" -> \A i \in DOMAIN v : WellFormed(type.of, v[i])
      [] type.t = "map" ->
            \A i \in DOMAIN v : /\ WellFormed(type.of, v[i][2])
                                /\ \A j \in 1 .. i - 1 :
                                      KeyBefore(type.key, v[j][1], v[i][1])
      [] type.t = "value" ->
            /\ v.tag = "array" => WellFormed(ArrayType, v.items)
            /\ v.tag = "object" => WellFormed(ObjectType, v.items)

(* Damaged bytes that are accepted stand for a value a program can hold,   *)
(* which is read back unchanged once it is written again: one commit       *)
(* settles repeated or disordered keys and flags that are not zero or one. *)
AcceptedSettles ==
    LET r == Load(original.type, bytes)
        again == Encode(original.type, r.val)
    IN  r.ok => /\ WellFormed(original.type, r.val)
                /\ Len(again) <= Len(bytes)
                /\ Load(original.type, again).val = r.val

(* Whatever the bytes say, a decoder reserves memory for no more elements  *)
(* than there are bytes.                                                   *)
ReserveBounded == Decode(original.type, bytes, 1).reserve <= Len(bytes)
=============================================================================
