--------------------------- MODULE JsonBinaryWriter ---------------------------
(***************************************************************************)
(* class binary_writer of json.hpp: the bytes that write_cbor,             *)
(* write_msgpack, write_ubjson and write_bson write for a value.  A value  *)
(* is a record with one field, named after its value_t; strings and keys   *)
(* are sequences of bytes, numbers those of JsonBinaryNumber.              *)
(***************************************************************************)
EXTENDS JsonBinaryNumber, JsonValue, FiniteSets

NoSubtype == -1

Size(s) == OfNat(Len(s), 8)
Concat(parts) == FlattenSeq(parts)

\* The bytes of all members or elements.
Members(object, Write(_, _)) ==
  LET keys == SortedKeys(object) IN
  Concat([i \in DOMAIN keys |-> Write(keys[i], object[keys[i]])])
AllOf(array, Write(_)) == Concat([i \in DOMAIN array |-> Write(array[i])])

-----------------------------------------------------------------------------
(* CBOR.                                                                   *)

\* The first byte of a type and its number, in the fewest bytes.
CborHead(type, n) ==
  CASE FitsIn(n, 1) /\ n[8] <= 23 -> <<32 * type + n[8]>>
    [] FitsIn(n, 1) /\ n[8] > 23 -> <<32 * type + 24>> \o Low(n, 1)
    [] FitsIn(n, 2) /\ ~FitsIn(n, 1) -> <<32 * type + 25>> \o Low(n, 2)
    [] FitsIn(n, 4) /\ ~FitsIn(n, 2) -> <<32 * type + 26>> \o Low(n, 4)
    [] OTHER -> <<32 * type + 27>> \o n

CborNegative(n) == CborHead(1, Complement(n))

\* A float where a float can hold the value, else a double.
CompactFloat(x, single, double) ==
  IF x.kind \in {"finite", "zero"} /\ Represents(Single, x)
  THEN <<single>> \o Encoded(Single, x)
  ELSE <<double>> \o Encoded(Double, x)

CborFloat(x) ==
  CASE x.kind = "nan" -> <<249, 126, 0>>
    [] x.kind = "infinite" -> <<249, IF x.minus THEN 252 ELSE 124, 0>>
    [] OTHER -> CompactFloat(x, 250, 251)

CborBinary(b) ==
  (IF b.subtype # NoSubtype THEN <<216, b.subtype>> ELSE <<>>)
    \o CborHead(2, Size(b.bytes)) \o b.bytes

RECURSIVE Cbor(_)
Cbor(value) ==
  LET t == TypeOf(value)
      String(s) == CborHead(3, Size(s)) \o s
      Member(k, v) == String(k) \o Cbor(v)
  IN  CASE t = "null" -> <<246>>
        [] t = "boolean" -> IF value.boolean THEN <<245>> ELSE <<244>>
        [] t = "integer" -> IF Negative(value.integer) THEN CborNegative(value.integer)
                            ELSE CborHead(0, value.integer)
        [] t = "unsigned" -> CborHead(0, value.unsigned)
        [] t = "float" -> CborFloat(value.float)
        [] t = "string" -> String(value.string)
        [] t = "binary" -> CborBinary(value.binary)
        [] t = "array" -> CborHead(4, Size(value.array)) \o AllOf(value.array, Cbor)
        [] t = "object" -> CborHead(5, OfNat(Cardinality(DOMAIN value.object), 8))
                             \o Members(value.object, Member)
        [] OTHER -> <<>>

-----------------------------------------------------------------------------
(* MessagePack.                                                            *)
MsgpackUnsigned(n) ==
  CASE FitsIn(n, 1) /\ n[8] < 128 -> Low(n, 1)
    [] FitsIn(n, 1) /\ n[8] >= 128 -> <<204>> \o Low(n, 1)
    [] FitsIn(n, 2) /\ ~FitsIn(n, 1) -> <<205>> \o Low(n, 2)
    [] FitsIn(n, 4) /\ ~FitsIn(n, 2) -> <<206>> \o Low(n, 4)
    [] OTHER -> <<207>> \o n

MsgpackNegative(n) ==
  CASE FitsSigned(n, 1) /\ n[8] >= 224 -> Low(n, 1)
    [] FitsSigned(n, 1) /\ n[8] < 224 -> <<208>> \o Low(n, 1)
    [] FitsSigned(n, 2) /\ ~FitsSigned(n, 1) -> <<209>> \o Low(n, 2)
    [] FitsSigned(n, 4) /\ ~FitsSigned(n, 2) -> <<210>> \o Low(n, 4)
    [] OTHER -> <<211>> \o n

\* The first byte of a size up to `few`, or the bytes that announce 1, 2 or 4
\* bytes of it; `one` is 0 where the format has no size of one byte.
MsgpackSize(n, first, few, one, two) ==
  CASE ToNat(n) <= few -> <<first + n[8]>>
    [] ToNat(n) > few /\ one # 0 /\ FitsIn(n, 1) -> <<one>> \o Low(n, 1)
    [] ToNat(n) > few /\ (one # 0 => ~FitsIn(n, 1)) /\ FitsIn(n, 2) -> <<two>> \o Low(n, 2)
    [] OTHER -> <<two + 1>> \o Low(n, 4)

\* bin and, with a subtype, fixext and ext.
MsgpackBinary(b) ==
  LET n == Size(b.bytes)
      fixed == CHOOSE p \in {<<1, 212>>, <<2, 213>>, <<4, 214>>, <<8, 215>>, <<16, 216>>} :
                 p[1] = Len(b.bytes)
      use_ext == b.subtype # NoSubtype
  IN  (IF use_ext /\ Len(b.bytes) \in {1, 2, 4, 8, 16} THEN <<fixed[2]>>
       ELSE LET one == IF use_ext THEN 199 ELSE 196 IN MsgpackSize(n, 0, -1, one, one + 1))
      \o (IF use_ext THEN <<b.subtype>> ELSE <<>>) \o b.bytes

RECURSIVE Msgpack(_)
Msgpack(value) ==
  LET t == TypeOf(value)
      String(s) == MsgpackSize(Size(s), 160, 31, 217, 218) \o s
      Member(k, v) == String(k) \o Msgpack(v)
  IN  CASE t = "null" -> <<192>>
        [] t = "boolean" -> IF value.boolean THEN <<195>> ELSE <<194>>
        [] t = "integer" -> IF Negative(value.integer) THEN MsgpackNegative(value.integer)
                            ELSE MsgpackUnsigned(value.integer)
        [] t = "unsigned" -> MsgpackUnsigned(value.unsigned)
        [] t = "float" -> CompactFloat(value.float, 202, 203)
        [] t = "string" -> String(value.string)
        [] t = "binary" -> MsgpackBinary(value.binary)
        [] t = "array" -> MsgpackSize(Size(value.array), 144, 15, 0, 220)
                            \o AllOf(value.array, Msgpack)
        [] t = "object" -> MsgpackSize(OfNat(Cardinality(DOMAIN value.object), 8), 128, 15, 0, 222)
                             \o Members(value.object, Member)
        [] OTHER -> <<>>

-----------------------------------------------------------------------------
(* UBJSON.  o.use_size and o.use_type ask for the optimized format.        *)
NumberPrefix(n, signed) ==
  CASE ~signed /\ Negative(n) -> "H"
    [] FitsSigned(n, 1) -> "i"
    [] FitsIn(n, 1) /\ ~FitsSigned(n, 1) -> "U"
    [] FitsSigned(n, 2) /\ ~FitsIn(n, 1) -> "I"
    [] FitsSigned(n, 4) /\ ~FitsSigned(n, 2) -> "l"
    [] OTHER -> "L"

\* ubjson_prefix: the marker of the value's type.
UbjsonPrefix(value) ==
  LET t == TypeOf(value) IN
  CASE t = "null" -> "Z"
    [] t = "boolean" -> IF value.boolean THEN "T" ELSE "F"
    [] t \in {"integer", "unsigned"} -> NumberPrefix(value[t], t = "integer")
    [] t = "float" -> "D"
    [] t = "string" -> "S"
    [] t \in {"array", "binary"} -> "["
    [] t = "object" -> "{"
    [] OTHER -> "N"

Marker == [Z |-> 90, T |-> 84, F |-> 70, i |-> 105, U |-> 85, I |-> 73, l |-> 108,
           L |-> 76, H |-> 72, D |-> 68, S |-> 83, N |-> 78]
           @@ ("[" :> 91) @@ ("{" :> 123)

\* write_number_with_ubjson_prefix, with the prefix, and its number alone.
NumberWidth == [i |-> 1, U |-> 1, I |-> 2, l |-> 4, L |-> 8]
UbjsonSize(n) ==
  LET p == NumberPrefix(OfNat(n, 8), FALSE) IN <<Marker[p]>> \o OfNat(n, NumberWidth[p])
UbjsonNumber(n, signed) ==
  LET p == NumberPrefix(n, signed)
      digits == Decimals(n)
  IN  IF p = "H" THEN UbjsonSize(Len(digits)) \o digits ELSE Low(n, NumberWidth[p])

\* '$' and the type, where all have one, and '#' and the size.
UbjsonType(values, o) ==
  IF o.use_type /\ Cardinality({UbjsonPrefix(v) : v \in values}) = 1
  THEN <<36, Marker[UbjsonPrefix(CHOOSE v \in values : TRUE)]>> ELSE <<>>
UbjsonCount(n, o) == IF o.use_size THEN <<35>> \o UbjsonSize(n) ELSE <<>>

UbjsonBinary(bytes, o) ==
  (IF o.use_type /\ bytes # <<>> THEN <<36, 85>> ELSE <<>>)
    \o UbjsonCount(Len(bytes), o)
    \o (IF o.use_type THEN bytes ELSE Concat([i \in DOMAIN bytes |-> <<85, bytes[i]>>]))
    \o (IF o.use_size THEN <<>> ELSE <<93>>)

\* The value without its marker, and with it where one is required.
RECURSIVE UbjsonBody(_, _)
UbjsonValue(value, o, prefix_required) ==
  (IF prefix_required THEN <<Marker[UbjsonPrefix(value)]>> ELSE <<>>) \o UbjsonBody(value, o)

UbjsonBody(value, o) ==
  LET t == TypeOf(value)
      values == IF t = "array" THEN Range(value.array)
                ELSE {value.object[k] : k \in DOMAIN value.object}
      type == UbjsonType(values, o)
      Element(v) == UbjsonValue(v, o, type = <<>>)
      Member(k, v) == UbjsonSize(Len(k)) \o k \o Element(v)
      Close(byte) == IF o.use_size THEN <<>> ELSE <<byte>>
  IN  CASE t \in {"integer", "unsigned"} -> UbjsonNumber(value[t], t = "integer")
        [] t = "float" -> Encoded(Double, value.float)
        [] t = "string" -> UbjsonSize(Len(value.string)) \o value.string
        [] t = "binary" -> UbjsonBinary(value.binary.bytes, o)
        [] t = "array" -> type \o UbjsonCount(Len(value.array), o)
                            \o AllOf(value.array, Element) \o Close(93)
        [] t = "object" -> type \o UbjsonCount(Cardinality(DOMAIN value.object), o)
                             \o Members(value.object, Member) \o Close(125)
        [] OTHER -> <<>>

Ubjson(value, o) == UbjsonValue(value, o, TRUE)

-----------------------------------------------------------------------------
(* BSON.  The sizes are computed before, and apart from, what they are the *)
(* sizes of.                                                               *)
Little32(n) == Reverse(OfNat(n, 4))
Name(array_index) == Decimals(OfNat(array_index - 1, 8))
BsonInt32(t, n) == FitsSigned(n, 4) /\ (t = "unsigned" => ~Negative(n))

RECURSIVE BsonSize(_)
\* Mutant: the size of a name without the null byte after it.
ElementSizeBare(name, value) ==
  LET t == TypeOf(value) IN
  1 + Len(name) + (IF t \in {"object", "array"} THEN BsonSize(value)
                   ELSE IF t = "boolean" THEN 1 ELSE 0)

\* calc_bson_object_size, calc_bson_array_size, calc_bson_element_size.
ElementSize(name, value) ==
  LET t == TypeOf(value) IN
  1 + Len(name) + 1 +
    CASE t \in {"object", "array"} -> BsonSize(value)
      [] t = "binary" -> 4 + Len(value.binary.bytes) + 1
      [] t = "boolean" -> 1
      [] t = "float" -> 8
      [] t \in {"integer", "unsigned"} -> IF BsonInt32(t, value[t]) THEN 4 ELSE 8
      [] t = "string" -> 4 + Len(value.string) + 1
      [] OTHER -> 0
SumOf(sizes) == FoldLeft(+, 0, sizes)
BsonSize(value) ==
  LET keys == SortedKeys(value.object)
      elements ==
        IF TypeOf(value) = "array"
        THEN [i \in DOMAIN value.array |-> ElementSize(Name(i), value.array[i])]
        ELSE [i \in DOMAIN keys |-> ElementSize(keys[i], value.object[keys[i]])]
  IN  4 + SumOf(elements) + 1

BsonString(s) == Little32(Len(s) + 1) \o s \o <<0>>
BsonBinary(b) ==
  Little32(Len(b.bytes)) \o <<IF b.subtype = NoSubtype THEN 0 ELSE b.subtype>> \o b.bytes
BsonType(value) ==
  LET t == TypeOf(value) IN
  CASE t = "float" -> 1 [] t = "string" -> 2 [] t = "object" -> 3 [] t = "array" -> 4
    [] t = "binary" -> 5 [] t = "boolean" -> 8 [] t = "null" -> 10
    [] OTHER -> IF BsonInt32(t, value[t]) THEN 16 ELSE 18

RECURSIVE BsonDocument(_)
BsonElement(name, value) ==
  LET t == TypeOf(value) IN
  <<BsonType(value)>> \o name \o <<0>> \o
    CASE t \in {"object", "array"} -> BsonDocument(value)
      [] t = "binary" -> BsonBinary(value.binary)
      [] t = "boolean" -> IF value.boolean THEN <<1>> ELSE <<0>>
      [] t = "float" -> Reverse(Encoded(Double, value.float))
      [] t \in {"integer", "unsigned"} ->
           Reverse(Low(value[t], IF BsonInt32(t, value[t]) THEN 4 ELSE 8))
      [] t = "string" -> BsonString(value.string)
      [] OTHER -> <<>>
BsonDocument(value) ==
  Little32(BsonSize(value))
    \o (IF TypeOf(value) = "array"
        THEN Concat([i \in DOMAIN value.array |-> BsonElement(Name(i), value.array[i])])
        ELSE Members(value.object, BsonElement))
    \o <<0>>

\* What stops write_bson: a value that is no object, a key with a null byte
\* (met when the sizes are computed), an integer above INT64_MAX.
RECURSIVE Below(_)
Below(value) ==
  {value} \cup UNION {Below(v) : v \in
    CASE TypeOf(value) = "array" -> Range(value.array)
      [] TypeOf(value) = "object" -> {value.object[k] : k \in DOMAIN value.object}
      [] OTHER -> {}}
BsonThrows(value) ==
  CASE TypeOf(value) # "object" -> 317
    [] \E v \in Below(value) : TypeOf(v) = "object" /\ \E k \in DOMAIN v.object : 0 \in Range(k) -> 409
    [] \E v \in Below(value) : TypeOf(v) = "unsigned" /\ Negative(v.unsigned) -> 407
    [] OTHER -> 0

-----------------------------------------------------------------------------
\* to_cbor, to_msgpack, to_ubjson, to_bson.
Written(value, o) ==
  LET t == IF o.format = "bson" THEN BsonThrows(value) ELSE 0 IN
  [throws |-> t,
   bytes |-> CASE t # 0 -> <<>>
               [] o.format = "cbor" -> Cbor(value)
               [] o.format = "msgpack" -> Msgpack(value)
               [] o.format = "ubjson" -> Ubjson(value, o)
               [] OTHER -> BsonDocument(value)]
=============================================================================
