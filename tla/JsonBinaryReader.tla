--------------------------- MODULE JsonBinaryReader ---------------------------
(***************************************************************************)
(* class binary_reader of json.hpp, with the handler that builds the value *)
(* (json_sax_dom_parser) and exceptions allowed: what from_cbor,           *)
(* from_msgpack, from_ubjson and from_bson give for a sequence of bytes.   *)
(*                                                                         *)
(* A function that reads takes the bytes and how many of them are read.    *)
(* What it gives is a record: `why` is "read", and then `value` and how    *)
(* many bytes are read `at` its end; or the exception; or "false", when    *)
(* the code returns false without one.                                     *)
(***************************************************************************)
EXTENDS JsonBinaryNumber, FiniteSets, TLC

CONSTANT MaxSize        \* max_size() of the containers, in 8 bytes
ASSUME MaxSizeAssumption == MaxSize \in [1 .. 8 -> 0 .. 255]

EOF == -1
Byte(b, at) == IF at < Len(b) THEN b[at + 1] ELSE EOF      \* get()
Read(value, at) == [why |-> "read", value |-> value, at |-> at]
Fail(why) == [why |-> why, value |-> <<>>, at |-> 0]
Ok(r) == r.why = "read"
InputEnds == Fail("110")           \* unexpect_eof

\* What is made of the value read, and what is read after it, if it is.
Then(r, Make(_)) == IF Ok(r) THEN Read(Make(r.value), r.at) ELSE r
AndThen(r, Go(_)) == IF Ok(r) THEN Go(r) ELSE r

\* get_number: k bytes, whatever number they are; get_string and get_binary.
GetNumber(b, at, k) ==
  IF at + k <= Len(b) THEN Read(SubSeq(b, at + 1, at + k), at + k) ELSE InputEnds
GetBytes(b, at, n) == GetNumber(b, at, ToNat(n))

\* get_string with the length of a type with sign: none, if it is negative.
GetSignedBytes(b, at, n) == IF Negative(n) THEN Read(<<>>, at) ELSE GetBytes(b, at, n)

Unsigned(bytes) == [unsigned |-> Extend(bytes)]
\* Mutant: the bytes of a number read as if it had no sign.
SignedZeroExtended(bytes) == [integer |-> Extend(bytes)]

Signed(bytes) == [integer |-> SignExtend(bytes)]
String(s) == [string |-> s]
Float(f, bytes) == [float |-> Decoded(f, bytes)]

\* A container still to be read: what it holds, how many, the type all its
\* elements have (UBJSON).
NoType == -2
Until == <<>>       \* not so many: up to the closing byte
Container(kind, n, type, at) ==
  IF n # Until /\ LessBytes(MaxSize, n) THEN Fail("408")      \* start_array, start_object
  ELSE Read([container |-> kind, n |-> n, type |-> type], at)

-----------------------------------------------------------------------------
(* CBOR.                                                                   *)

\* The number in the initial byte or in the bytes that follow it.
CborArgument(b, at) ==
  LET info == Byte(b, at) % 32 IN
  IF info <= 23 THEN Read(OfNat(info, 8), at + 1)
  ELSE Then(GetNumber(b, at + 1, 2 ^ (info - 24)), Extend)

\* get_cbor_string and get_cbor_binary: type 3 and type 2, in one piece or in
\* chunks.
RECURSIVE CborString(_, _, _), CborChunks(_, _, _)
CborString(b, at, type) ==
  LET c == Byte(b, at) IN
  IF c = EOF THEN InputEnds
  ELSE IF c \div 32 # type \/ c % 32 \in 28 .. 30 THEN Fail("113")
  ELSE IF c % 32 = 31 THEN CborChunks(b, at + 1, type)
  ELSE AndThen(CborArgument(b, at), LAMBDA n : GetBytes(b, n.at, n.value))
CborChunks(b, at, type) ==
  LET Rest(chunk) == Then(CborChunks(b, chunk.at, type), LAMBDA s : chunk.value \o s) IN
  IF Byte(b, at) = 255 THEN Read(<<>>, at + 1) ELSE AndThen(CborString(b, at, type), Rest)

\* The number of elements; SIZE_MAX stands for an indefinite length.
CborContainer(b, at, kind) ==
  IF Byte(b, at) % 32 = 31 THEN Container(kind, Until, NoType, at + 1)
  ELSE AndThen(CborArgument(b, at), LAMBDA n :
         Container(kind, IF n.value = Fill(255, 8) THEN Until ELSE n.value, NoType, n.at))

CborSimple(b, at) ==
  LET c == Byte(b, at)
      FloatOf(f, k) == Then(GetNumber(b, at + 1, k), LAMBDA bytes : Float(f, bytes))
  IN  CASE c = 244 -> Read([boolean |-> FALSE], at + 1)
        [] c = 245 -> Read([boolean |-> TRUE], at + 1)
        [] c = 246 -> Read([null |-> TRUE], at + 1)
        [] c = 249 -> FloatOf(Half, 2)
        [] c = 250 -> FloatOf(Single, 4)
        [] c = 251 -> FloatOf(Double, 8)
        [] OTHER -> Fail("112")

RECURSIVE CborItem(_, _, _)
\* A tag and the item it stands before, if tags are ignored.
CborTag(b, at, tag_handler) ==
  LET c == Byte(b, at)
      tag == IF c >= 216 THEN GetNumber(b, at + 1, 2 ^ ((c % 32) - 24)) ELSE Read(<<>>, at + 1)
  IN  IF c \notin (198 .. 212 \cup 216 .. 219) \/ tag_handler = "error" THEN Fail("112")
      ELSE AndThen(tag, LAMBDA n : CborItem(b, n.at, tag_handler))

\* parse_cbor_internal, up to the elements of a container.
CborItem(b, at, tag_handler) ==
  LET c == Byte(b, at)
      type == c \div 32
      reserved == c % 32 \in 28 .. 30
      Minus(n) == [integer |-> Complement(n)]
      Binary(s) == [binary |-> [bytes |-> s, subtype |-> -1]]
  IN  CASE c = EOF -> InputEnds
        [] type \in 0 .. 5 /\ (reserved \/ (type \in {0, 1} /\ c % 32 = 31)) -> Fail("112")
        [] type = 0 /\ c % 32 <= 27 -> Then(CborArgument(b, at), LAMBDA n : [unsigned |-> n])
        [] type = 1 /\ c % 32 <= 27 -> Then(CborArgument(b, at), Minus)
        [] type = 2 /\ ~reserved -> Then(CborString(b, at, 2), Binary)
        [] type = 3 /\ ~reserved -> Then(CborString(b, at, 3), String)
        [] type = 4 /\ ~reserved -> CborContainer(b, at, "array")
        [] type = 5 /\ ~reserved -> CborContainer(b, at, "object")
        [] type = 6 -> CborTag(b, at, tag_handler)
        [] type = 7 -> CborSimple(b, at)

-----------------------------------------------------------------------------
(* MessagePack.                                                            *)

\* The size of a string, in its first byte or after it.
MsgpackString(b, at) ==
  LET c == Byte(b, at) IN
  CASE c = EOF -> InputEnds
    [] c \in 160 .. 191 -> GetBytes(b, at + 1, OfNat(c % 32, 8))
    [] c \in 217 .. 219 -> AndThen(GetNumber(b, at + 1, 2 ^ (c - 217)), LAMBDA n :
                              GetBytes(b, n.at, Extend(n.value)))
    [] OTHER -> Fail("113")

\* bin, ext and fixext: the size, the subtype of the last two, the bytes.
MsgpackBinary(b, at) ==
  LET c == Byte(b, at)
      size == IF c >= 212 THEN Read(OfNat(2 ^ (c - 212), 8), at + 1)
              ELSE Then(GetNumber(b, at + 1, 2 ^ ((c - 196) % 3)), Extend)
      Subtype(n) == IF c >= 199 THEN GetNumber(b, n.at, 1) ELSE Read(<<-1>>, n.at)
      Binary(n, subtype) ==
        Then(GetBytes(b, subtype.at, n.value), LAMBDA s :
               [binary |-> [bytes |-> s, subtype |-> subtype.value[1]]])
  IN  AndThen(size, LAMBDA n : AndThen(Subtype(n), LAMBDA subtype : Binary(n, subtype)))

MsgpackContainer(b, at, kind, k) ==
  AndThen(GetNumber(b, at + 1, k), LAMBDA n : Container(kind, Extend(n.value), NoType, n.at))

\* The values whose first byte, of 192 .. 223, says their type.
MsgpackTyped(b, at, c) ==
  LET NumberOf(Make(_), k) == Then(GetNumber(b, at + 1, k), Make) IN
  CASE c = 192 -> Read([null |-> TRUE], at + 1)
    [] c \in {194, 195} -> Read([boolean |-> c = 195], at + 1)
    [] c \in 196 .. 201 \cup 212 .. 216 -> MsgpackBinary(b, at)
    [] c = 202 -> NumberOf(LAMBDA bytes : Float(Single, bytes), 4)
    [] c = 203 -> NumberOf(LAMBDA bytes : Float(Double, bytes), 8)
    [] c \in 204 .. 207 -> NumberOf(Unsigned, 2 ^ (c - 204))
    [] c \in 208 .. 211 -> NumberOf(Signed, 2 ^ (c - 208))
    [] c \in 217 .. 219 -> Then(MsgpackString(b, at), String)
    [] c \in {220, 221} -> MsgpackContainer(b, at, "array", 2 ^ (c - 219))
    [] c \in {222, 223} -> MsgpackContainer(b, at, "object", 2 ^ (c - 221))
    [] OTHER -> Fail("112")

\* parse_msgpack_internal, up to the elements of a container.
MsgpackItem(b, at) ==
  LET c == Byte(b, at)
      few(kind) == Container(kind, OfNat(c % 16, 8), NoType, at + 1)
  IN  CASE c = EOF -> InputEnds
        [] c \in 0 .. 127 -> Read(Unsigned(<<c>>), at + 1)
        [] c \in 128 .. 143 -> few("object")
        [] c \in 144 .. 159 -> few("array")
        [] c \in 160 .. 191 -> Then(MsgpackString(b, at), String)
        [] c \in 192 .. 223 -> MsgpackTyped(b, at, c)
        [] c \in 224 .. 255 -> Read(Signed(<<c>>), at + 1)

-----------------------------------------------------------------------------
(* UBJSON.                                                                 *)

\* get_ignore_noop: where the next byte that is no 'N' is.
RECURSIVE Noop(_, _)
Noop(b, at) == IF Byte(b, at) = 78 THEN Noop(b, at + 1) ELSE at

\* The width of the numbers of the types 'U', 'i', 'I', 'l', 'L'.
WidthOf(c) == CASE c \in {85, 105} -> 1 [] c = 73 -> 2 [] c = 108 -> 4 [] OTHER -> 8
IntegerTypes == {85, 105, 73, 108, 76}
IntegerOf(c, bytes) == IF c = 85 THEN Extend(bytes) ELSE SignExtend(bytes)

\* get_ubjson_string: the length and its type, and the bytes.
UbjsonString(b, at) ==
  LET c == Byte(b, at) IN
  IF c = EOF THEN InputEnds
  ELSE IF c \notin IntegerTypes THEN Fail("113")
  ELSE AndThen(GetNumber(b, at + 1, WidthOf(c)), LAMBDA n :
         GetSignedBytes(b, n.at, IntegerOf(c, n.value)))

\* get_ubjson_size_value.
UbjsonSizeValue(b, at) ==
  LET start == Noop(b, at)
      c == Byte(b, start)
  IN  IF c \in IntegerTypes
      THEN Then(GetNumber(b, start + 1, WidthOf(c)), LAMBDA bytes : IntegerOf(c, bytes))
      ELSE Fail("113")

\* get_ubjson_size_type: none, '#' and the size, or '$' and the type before it,
\* where 0 is no type.  SIZE_MAX, from a size of -1, stands for no size: its last byte, 255, is taken
\* for the first marker or key.
UbjsonContainer(b, at, kind) ==
  LET start == Noop(b, at)
      typed == Byte(b, start) = 36
      hash == IF typed THEN Noop(b, start + 2) ELSE start
      type == IF typed /\ Byte(b, start + 1) # 0 THEN Byte(b, start + 1) ELSE NoType
      Sized(n) ==
        IF n.value = Fill(255, 8) THEN Fail(IF kind = "array" THEN "112" ELSE "113")
        ELSE Container(kind, n.value, type, n.at)
  IN  IF typed /\ (Byte(b, start + 1) = EOF \/ Byte(b, hash) = EOF) THEN InputEnds
      ELSE IF Byte(b, hash) # 35
      THEN IF typed THEN Fail("112") ELSE Container(kind, Until, NoType, start)
      ELSE AndThen(UbjsonSizeValue(b, hash + 1), Sized)

\* Where scan_number ends: after a number, or nowhere.
Number == INSTANCE JsonNumber
Nowhere == -3
RECURSIVE NumberEnd(_, _, _)
NumberEnd(text, at, state) ==
  LET arcs == {arc \in Number!Arcs(state) : Byte(text, at) \in arc[1]} IN
  IF arcs # {} THEN NumberEnd(text, at + 1, (CHOOSE arc \in arcs : TRUE)[2])
  ELSE IF state \in Number!Complete THEN at ELSE Nowhere

\* scan_number_done: an integer that fits into 64 bits, or a float, which strtod
\* makes of the text: it is known here by that text only.
NumberOfText(text) ==
  LET minus == text[1] = 45
      digits == IF minus THEN Tail(text) ELSE text
      n == IF Range(digits) \subseteq Number!Digit THEN OfDecimals(digits) ELSE <<>>
      Negated(r) == [i \in 1 .. 8 |->
                       IF \A j \in i + 1 .. 8 : r[j] = 255 THEN (r[i] + 1) % 256 ELSE r[i]]
      negative == Negated(Complement(n))
  IN  CASE n # <<>> /\ ~minus -> [unsigned |-> n]
        [] n # <<>> /\ minus /\ (Negative(negative) \/ n = Fill(0, 8)) ->
             [integer |-> negative]
        [] OTHER -> [float |-> [decimal |-> text]]

\* get_ubjson_high_precision_number: the lexer scans the text twice, and must
\* return a number and then the end, which may be a zero byte.  So white space
\* and a byte order mark may surround the number.
HighPrecision(text, at) ==
  LET White(i) == Byte(text, i) \in {32, 9, 10, 13}
      SkipWhite(i) == CHOOSE k \in i .. Len(text) :
                        ~White(k) /\ \A l \in i .. k - 1 : White(l)
      start == SkipWhite(IF IsPrefix(<<239, 187, 191>>, text) THEN 3 ELSE 0)
      first == Byte(text, start)
      end == IF first \in Number!Digit \cup {45}
             THEN NumberEnd(text, start + 1, Number!NumberStart(first)) ELSE Nowhere
  IN  IF end = Nowhere \/ Byte(text, SkipWhite(end)) \notin {EOF, 0} THEN Fail("115")
      ELSE Read(NumberOfText(SubSeq(text, start + 1, end)), at)
UbjsonHighPrecision(b, at) ==
  AndThen(UbjsonSizeValue(b, at), LAMBDA n :
    AndThen(GetBytes(b, n.at, n.value), LAMBDA text : HighPrecision(text.value, text.at)))

\* get_ubjson_value, with the marker c read up to `at`.
UbjsonItem(b, at, c) ==
  LET char == Byte(b, at)
      NumberOf(Make(_), k) == Then(GetNumber(b, at, k), Make)
  IN  CASE c = EOF -> InputEnds
        [] c \in {84, 70} -> Read([boolean |-> c = 84], at)
        [] c = 90 -> Read([null |-> TRUE], at)
        [] c = 85 -> NumberOf(Unsigned, 1)
        [] c \in IntegerTypes \ {85} -> NumberOf(Signed, WidthOf(c))
        [] c = 100 -> NumberOf(LAMBDA bytes : Float(Single, bytes), 4)
        [] c = 68 -> NumberOf(LAMBDA bytes : Float(Double, bytes), 8)
        [] c = 72 -> UbjsonHighPrecision(b, at)
        [] c = 67 -> IF char = EOF THEN InputEnds
                     ELSE IF char > 127 THEN Fail("113") ELSE Read(String(<<char>>), at + 1)
        [] c = 83 -> Then(UbjsonString(b, at), String)
        [] c = 91 -> UbjsonContainer(b, at, "array")
        [] c = 123 -> UbjsonContainer(b, at, "object")
        [] OTHER -> Fail("112")

-----------------------------------------------------------------------------
(* The elements of a container and the value around them, in all of these  *)
(* formats.  o.tag_handler is for CBOR's tags.                             *)
Item(b, at, type, o) ==
  CASE o.format = "cbor" -> CborItem(b, at, o.tag_handler)
    [] o.format = "msgpack" -> MsgpackItem(b, at)
    [] OTHER -> IF type # NoType THEN UbjsonItem(b, at, type)
                ELSE LET start == Noop(b, at) IN UbjsonItem(b, start + 1, Byte(b, start))

GetKey(b, at, o) ==
  CASE o.format = "cbor" -> CborString(b, at, 3)
    [] o.format = "msgpack" -> MsgpackString(b, at)
    [] OTHER -> UbjsonString(b, at)

\* The closing byte of a container of indefinite length.
Closed(b, at, c, o) ==
  IF o.format = "cbor" THEN Byte(b, at) = 255
  ELSE Byte(b, at) = IF c.container = "array" THEN 93 ELSE 125

\* UBJSON's typed arrays of 'N' have no elements, whatever their size.
Elements(c) == IF c.container = "array" /\ c.type = 78 THEN 0 ELSE ToNat(c.n)

RECURSIVE Value(_, _, _, _), ReadElements(_, _, _, _, _)
Value(b, at, type, o) ==
  LET Inside(item) ==
        IF "container" \notin DOMAIN item.value THEN item
        ELSE ReadElements(b, item.at, item.value,
                          IF item.value.n = Until THEN -1 ELSE Elements(item.value), o)
  IN  AndThen(Item(b, at, type, o), Inside)

\* `left` elements of c are to come; a negative number when that is not known.
\* Gives the value of c with them.
Empty(c) == IF c.container = "array" THEN [array |-> <<>>] ELSE [object |-> <<>>]
With(c, element, rest) ==
  IF c.container = "array" THEN [array |-> <<element.value>> \o rest.array]
  ELSE [object |-> rest.object @@ (element.key :> element.value)]

ReadElements(b, at, c, left, o) ==
  LET start == IF left < 0 /\ o.format = "ubjson" THEN Noop(b, at) ELSE at
      Key == IF c.container = "object" THEN GetKey(b, start, o) ELSE Read(<<>>, start)
      Rest(key, value) ==
        Then(ReadElements(b, value.at, c, left - 1, o), LAMBDA r :
               With(c, [key |-> key.value, value |-> value.value], r))
  IN  IF left = 0 THEN Read(Empty(c), at)
      ELSE IF left < 0 /\ Closed(b, start, c, o) THEN Read(Empty(c), start + 1)
      ELSE AndThen(Key, LAMBDA key :
             AndThen(Value(b, key.at, c.type, o), LAMBDA value : Rest(key, value)))

-----------------------------------------------------------------------------
(* BSON.                                                                   *)

\* get_bson_cstr.
RECURSIVE BsonName(_, _)
BsonName(b, at) ==
  IF Byte(b, at) = EOF THEN InputEnds
  ELSE IF Byte(b, at) = 0 THEN Read(<<>>, at + 1)
  ELSE Then(BsonName(b, at + 1), LAMBDA r : <<b[at + 1]>> \o r)

Little(r) == Then(r, LAMBDA bytes : SignExtend(Reverse(bytes)))

\* get_bson_string: the byte after the string is read and may be any; without
\* it the function is false, and nothing is thrown.
BsonString(b, at) ==
  LET Terminated(s) ==
        IF Byte(b, s.at) = EOF THEN Fail("false") ELSE Read(String(s.value), s.at + 1)
      Sized(n) ==
        IF Negative(n.value) \/ ToNat(n.value) = 0 THEN Fail("112")
        ELSE AndThen(GetBytes(b, n.at, OfNat(ToNat(n.value) - 1, 8)), Terminated)
  IN  AndThen(Little(GetNumber(b, at, 4)), Sized)

\* get_bson_binary.
BsonBinary(b, at) ==
  LET Binary(n, subtype) ==
        Then(GetBytes(b, subtype.at, n.value), LAMBDA s :
               [binary |-> [bytes |-> s, subtype |-> subtype.value[1]]])
      Sized(n) ==
        IF Negative(n.value) THEN Fail("112")
        ELSE AndThen(GetNumber(b, n.at, 1), LAMBDA subtype : Binary(n, subtype))
  IN  AndThen(Little(GetNumber(b, at, 4)), Sized)

RECURSIVE BsonElements(_, _, _), BsonContainer(_, _, _)
\* parse_bson_element_internal.
BsonItem(b, at, element_type) ==
  CASE element_type = 1 ->
         Then(GetNumber(b, at, 8), LAMBDA bytes : Float(Double, Reverse(bytes)))
    [] element_type = 2 -> BsonString(b, at)
    [] element_type = 3 -> BsonContainer(b, at, "object")
    [] element_type = 4 -> BsonContainer(b, at, "array")
    [] element_type = 5 -> BsonBinary(b, at)
    [] element_type = 8 -> Read([boolean |-> Byte(b, at) # 0], at + 1)
    [] element_type = 10 -> Read([null |-> TRUE], at)
    [] element_type = 16 -> Then(Little(GetNumber(b, at, 4)), LAMBDA n : [integer |-> n])
    [] element_type = 18 -> Then(Little(GetNumber(b, at, 8)), LAMBDA n : [integer |-> n])
    [] OTHER -> Fail("114")

\* parse_bson_internal, parse_bson_array: the size of the document is read and
\* not used.
BsonContainer(b, at, kind) ==
  AndThen(GetNumber(b, at, 4), LAMBDA size : BsonElements(b, size.at, [container |-> kind]))

\* parse_bson_element_list: up to a type that is 0.
BsonElements(b, at, c) ==
  LET Rest(name, value) ==
        Then(BsonElements(b, value.at, c), LAMBDA r :
               With(c, [key |-> name.value, value |-> value.value], r))
  IN  IF Byte(b, at) = 0 THEN Read(Empty(c), at + 1)
      ELSE IF Byte(b, at) = EOF THEN InputEnds
      ELSE AndThen(BsonName(b, at + 1), LAMBDA name :
             AndThen(BsonItem(b, name.at, Byte(b, at)), LAMBDA value : Rest(name, value)))

-----------------------------------------------------------------------------
\* sax_parse: the value and, strict, the end of the input after it.
Document(b, o) ==
  IF o.format = "bson" THEN BsonContainer(b, 0, "object") ELSE Value(b, 0, NoType, o)

\* Mutant: the no-op byte is skipped at the end of every format.
ParsedAnyNoop(b, o) ==
  AndThen(Document(b, o), LAMBDA r : IF Byte(b, Noop(b, r.at)) # EOF THEN Fail("110") ELSE r)
Parsed(b, o) ==
  LET Strictly(r) ==
        LET next == IF o.format = "ubjson" THEN Noop(b, r.at) ELSE r.at IN
        IF Byte(b, next) # EOF THEN Fail("110") ELSE r
  IN  AndThen(Document(b, o), Strictly)
=============================================================================
