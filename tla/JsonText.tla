------------------------------ MODULE JsonText ------------------------------
(***************************************************************************)
(* The lexer of json.hpp on every short text over some bytes, on the texts *)
(* dump() writes, and on the wide strings the input adapters convert;      *)
(* what it returns is compared with the grammar of RFC 8259.               *)
(***************************************************************************)
EXTENDS JsonLexer, JsonSerializer, JsonGrisu

G == INSTANCE JsonGrammar
I == INSTANCE JsonInput

-----------------------------------------------------------------------------
(* Texts whose tokens are known.                                           *)

\* A float as its significant digits and their exponent.
RECURSIVE Normal(_, _)
Normal(digits, exponent) ==
  IF digits = <<>> THEN <<digits, 0>>
  ELSE IF Last(digits) = 48 THEN Normal(Front(digits), exponent + 1)
  ELSE IF Head(digits) = 48 THEN Normal(Tail(digits), exponent)
  ELSE <<digits, exponent>>

\* What the text of a float denotes.
FloatOf(text) ==
  LET minus == text[1] = 45
      e == CHOOSE i \in 1 .. Len(text) + 1 :
             /\ i = Len(text) + 1 \/ text[i] \in Exponent
             /\ \A j \in 1 .. i - 1 : text[j] \notin Exponent
      mantissa == SubSeq(text, IF minus THEN 2 ELSE 1, e - 1)
      dot == CHOOSE i \in 1 .. Len(mantissa) + 1 :
               /\ i = Len(mantissa) + 1 \/ mantissa[i] = 46
               /\ \A j \in 1 .. i - 1 : mantissa[j] # 46
      power == SubSeq(text, e + 1, Len(text))
      scale == IF power = <<>> THEN 0
               ELSE IF power[1] = 45 THEN -Decimal(Tail(power))
               ELSE IF power[1] = 43 THEN Decimal(Tail(power)) ELSE Decimal(power)
      fraction == SubSeq(mantissa, dot + 1, Len(mantissa))
  IN  <<minus, Normal(SubSeq(mantissa, 1, dot - 1) \o fraction,
                      scale - Len(fraction))>>

\* What a token is, without what is left over in the lexer's members.
Reading(token) ==
  [type |-> token.type,
   value |-> CASE token.type = "value_string" -> token.buffer
               [] token.type \in {"value_unsigned", "value_integer"} -> <<token.number>>
               [] token.type = "value_float" -> FloatOf(token.buffer)
               [] OTHER -> <<>>]

Sign(type) == [type |-> type, value |-> <<>>]
Between(seqs) ==
  FlattenSeq([i \in DOMAIN seqs |->
                IF i = 1 THEN seqs[i] ELSE <<Sign("value_separator")>> \o seqs[i]])
NumberReading(n) ==
  [type |-> IF n < 0 THEN "value_integer" ELSE "value_unsigned", value |-> <<n>>]

\* The tokens of a value, an object's members in the order of their keys.
RECURSIVE TokensOf(_)
TokensOf(value) ==
  LET t == TypeOf(value)
      Member(k, tokensOfValue) ==
        <<[type |-> "value_string", value |-> k], Sign("name_separator")>> \o tokensOfValue
      Array(seqs) == <<Sign("begin_array")>> \o Between(seqs) \o <<Sign("end_array")>>
      Object(seqs) == <<Sign("begin_object")>> \o Between(seqs) \o <<Sign("end_object")>>
  IN  CASE t = "null" -> <<Sign("literal_null")>>
        [] t = "boolean" -> <<Sign(IF value.boolean THEN "literal_true" ELSE "literal_false")>>
        [] t \in {"integer", "unsigned"} -> <<NumberReading(value[t])>>
        [] t = "float" /\ value.float = Infinite -> <<Sign("literal_null")>>
        [] t = "float" /\ value.float # Infinite ->
             <<[type |-> "value_float",
                value |-> <<value.float.minus,
                            Normal(DigitsOf(value.float.digits), value.float.exponent)>>]>>
        [] t = "string" -> <<[type |-> "value_string", value |-> value.string]>>
        [] t = "array" -> Array([i \in DOMAIN value.array |-> TokensOf(value.array[i])])
        [] t = "object" ->
             LET keys == SortedKeys(value.object) IN
             Object([i \in DOMAIN keys |-> Member(keys[i], TokensOf(value.object[keys[i]]))])
        [] t = "binary" ->
             Object(<<Member(<<98, 121, 116, 101, 115>>,
                        Array([i \in DOMAIN value.binary.bytes |->
                                 <<NumberReading(value.binary.bytes[i])>>])),
                      Member(<<115, 117, 98, 116, 121, 112, 101>>,
                        IF value.binary.subtype = NoSubtype THEN <<Sign("literal_null")>>
                        ELSE <<NumberReading(value.binary.subtype)>>)>>)

\* The source that is what dump() wrote for a value, with options o.
Dumped(value, o) ==
  LET Source(d) == [text |-> d.text, sound |-> ~d.thrown /\ ~d.overrun,
                    ignore_comments |-> FALSE,
                    reads |-> TokensOf(value) \o <<Sign("end_of_input")>>]
  IN  Source(Dump(value, 0, o))

\* The floats, in order: the number n, and n in multiples of 2^unit.
OfNumber(n) == [E |-> n \div kHiddenBit, F |-> n % kHiddenBit]
InUnits(n, unit) == LET v == FloatValue(OfNumber(n)) IN v.f * 2 ^ (v.e - unit)

\* Whether d * 10^x, rounded to the nearest, is float n: it lies between the
\* middles to both neighbours.
RoundsTo(d, x, n) ==
  LET unit == FloatValue(OfNumber(n)).e - 2
      Middle(a, b) == (InUnits(a, unit) + InUnits(b, unit)) \div 2
      Up(i) == IF i > 0 THEN i ELSE 0
      scaled == d * 10 ^ Up(x) * 2 ^ Up(-unit)
      Scaled(middle) == middle * 2 ^ Up(unit) * 10 ^ Up(-x)
  IN  Scaled(Middle(n - 1, n)) < scaled /\ scaled < Scaled(Middle(n, n + 1))

\* The source that is what dump() wrote for float n.
Printed(minus, n, o) ==
  LET Float(g) == [minus |-> minus, digits |-> g.buffer, exponent |-> g.exponent]
      Source(g) == [float |-> [number |-> n, asserted |-> g.asserted] @@ Float(g)]
                   @@ Dumped([float |-> Float(g)], o)
  IN  Source(Grisu2(OfNumber(n)))

\* The source that is what dump() wrote for a string of any bytes, and the
\* string with its invalid sequences replaced or left out.
Repaired(bytes, o) ==
  LET whole == IF o.handler = "replace" THEN G!Utf8(65533) ELSE <<>>
      Source(d, strict) ==
        [text |-> d.text, ignore_comments |-> FALSE,
         sound |-> ~d.overrun /\ ~d.thrown /\ (strict.thrown <=> ~G!WellFormedUtf8(bytes)),
         reads |-> <<[type |-> "value_string", value |-> G!Repair(bytes, whole)],
                     Sign("end_of_input")>>]
  IN  Source(Quoted(bytes, o), Quoted(bytes, [o EXCEPT !.handler = "strict"]))

\* The source that is a quoted string in UTF-16 or UTF-32.
Wide(width, points) ==
  LET units == FlattenSeq([i \in DOMAIN points |->
                             IF width = 2 THEN G!Utf16(points[i]) ELSE <<points[i]>>])
  IN  [text |-> I!WideInput(width, <<34>> \o units \o <<34>>), sound |-> TRUE,
       ignore_comments |-> FALSE,
       reads |-> <<[type |-> "value_string", value |-> G!Utf8All(points)],
                   Sign("end_of_input")>>]

-----------------------------------------------------------------------------
(* Properties.                                                             *)
Returned == pc = "returned" /\ tokens # <<>>
Scanned == SubSeq(read, begun + 1, Taken)

\* The expression of what a call may read for a token: a byte order mark in
\* the first call, what is skipped, the token.
Bom == G!Opt(G!Word(<<239, 187, 191>>))
Before == LET gap == G!Gap(source.ignore_comments) IN
          IF Len(tokens) = 1 THEN G!Cat(Bom, gap) ELSE gap

\* At the end of the input a null byte stands for it; a second one ends a
\* comment that the end of the input cuts off.
IsWhole(text, r) ==
  \/ G!Matches(text, r)
  \/ current = EOF /\ G!Matches(Append(text, 0), r)
  \/ current = EOF /\ G!Matches(text \o <<0, 0>>, r)

\* A call that returns a token has read a text the grammar gives that token,
\* and a number only where the next byte would not have belonged to it.  A
\* call that returns parse_error has read bytes with which no token begins; at
\* the end of the input, bytes that are no token.
RecognizesTokens ==
  Returned =>
    LET type == LastToken.type
        r == G!Cat(Before, IF type = "parse_error" THEN G!AnyToken ELSE G!TokenOf(type))
    IN  IF type = "parse_error"
        THEN IF current = EOF THEN ~IsWhole(Scanned, r) ELSE ~G!CanBecome(Scanned, r)
        ELSE /\ IsWhole(Scanned, r)
             /\ next_unget /\ current # EOF => ~G!CanBecome(Append(Scanned, current), r)

\* A string token is UTF-8, and in UTF-16 it is what its text spells, the
\* escapes of surrogate pairs included; the serializer does not throw for it.
StringsMeanTheirText ==
  Returned /\ LastToken.type = "value_string" =>
    LET text == Scanned
        first == CHOOSE i \in DOMAIN text : text[i] = 34 /\ 34 \notin Range(SubSeq(text, 1, i - 1))
        spelt == G!Spells(SubSeq(text, first + 1, Len(text) - 1))
    IN  /\ G!WellFormedUtf8(LastToken.buffer)
        /\ ~source.ignore_comments => G!UnitsOf(LastToken.buffer) = spelt
        /\ ~DumpEscaped(LastToken.buffer, "strict", FALSE).thrown

\* The lexer reads back what dump() wrote and what the adapters converted: no
\* error, the same tokens with the same values, to the end.  dump() itself
\* neither threw nor left its buffers.
SourceReadsBack ==
  "text" \in DOMAIN source =>
    LET readings == [i \in DOMAIN tokens |-> Reading(tokens[i])] IN
    /\ source.sound
    /\ IsPrefix(readings, source.reads)
    /\ Returned /\ LastToken.type = "end_of_input" => readings = source.reads

\* The digits Grisu2 finds for a float are read as that float, and none of its
\* assertions fails.
FloatsReadBack ==
  "float" \in DOMAIN source =>
    LET f == source.float IN f.asserted /\ RoundsTo(f.digits, f.exponent, f.number)

\* "The function is guaranteed to terminate" (6968-6970): every call of scan()
\* returns once the input has ended, whatever it was in.
FairSpec == Spec /\ WF_vars(Next)
ScanReturns == [](pc # "returned" => <>(pc = "returned"))
=============================================================================
