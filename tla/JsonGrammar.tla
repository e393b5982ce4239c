----------------------------- MODULE JsonGrammar -----------------------------
(***************************************************************************)
(* What the lexer of json.hpp is measured against, written from RFC 8259   *)
(* and RFC 3629 and not from the lexer: UTF-8 by arithmetic on code        *)
(* points, and the tokens of JSON as regular expressions over bytes, with  *)
(* Brzozowski's derivatives to ask whether a text can still become one.    *)
(* Nothing here models code.                                               *)
(***************************************************************************)
EXTENDS Integers, Sequences, SequencesExt

CodePoint == 0 .. 1114111
Surrogate == 55296 .. 57343

\* The least and the greatest code point that take n bytes in UTF-8, and the
\* leading byte's marker.
LeastOf(n) == <<0, 128, 2048, 65536>>[n]
MostOf(n)  == <<127, 2047, 65535, 1114111>>[n]
MarkOf(n)  == <<0, 192, 224, 240>>[n]

SizeOf(c) == CHOOSE n \in 1 .. 4 : LeastOf(n) <= c /\ c <= MostOf(n)

\* The UTF-8 form of a code point.
Utf8(c) ==
  LET n == SizeOf(c)
      digit(i) == (c \div 64 ^ (n - i)) % 64
  IN  [i \in 1 .. n |-> IF i = 1 THEN MarkOf(n) + c \div 64 ^ (n - 1)
                                 ELSE 128 + digit(i)]

Utf8All(points) == FlattenSeq([i \in DOMAIN points |-> Utf8(points[i])])

\* The bytes are the UTF-8 form of some sequence of Unicode scalar values:
\* cut before every byte that is no continuation, each piece is the form of
\* the number its bits spell.
WellFormedUtf8(bytes) ==
  LET starts == {i \in DOMAIN bytes : bytes[i] \div 64 # 2}
      Piece(i) == SubSeq(bytes, i, (CHOOSE j \in i .. Len(bytes) :
                     /\ j = Len(bytes) \/ j + 1 \in starts
                     /\ \A k \in i + 1 .. j : k \notin starts))
      Spelt(p) == FoldLeft(LAMBDA acc, b : acc * 64 + (b % 64),
                           p[1] - MarkOf(Len(p)), Tail(p))
  IN  /\ bytes # <<>> => 1 \in starts
      /\ \A i \in starts :
           LET p == Piece(i) IN
             /\ Len(p) \in 1 .. 4
             /\ MarkOf(Len(p)) <= p[1]
             /\ LET c == Spelt(p) IN
                  /\ c \in CodePoint /\ c \notin Surrogate
                  /\ LeastOf(Len(p)) <= c /\ c <= MostOf(Len(p))

\* The UTF-16 form of a code point, and of a UTF-8 string.
Utf16(c) ==
  IF c < 65536 THEN <<c>>
  ELSE <<55296 + (c - 65536) \div 1024, 56320 + ((c - 65536) % 1024)>>

\* The number of bytes a leading byte announces.
Announced(b) == CASE b < 128 -> 1 [] b \in 128 .. 223 -> 2 [] b \in 224 .. 239 -> 3 [] OTHER -> 4
RECURSIVE UnitsOf(_)
UnitsOf(bytes) ==
  IF bytes = <<>> THEN <<>>
  ELSE LET n == Announced(bytes[1])
           c == FoldLeft(LAMBDA acc, b : acc * 64 + (b % 64), bytes[1] - MarkOf(n),
                         SubSeq(bytes, 2, n))
       IN  Utf16(c) \o UnitsOf(SubSeq(bytes, n + 1, Len(bytes)))

\* The UTF-16 units that the text between two quotation marks spells, an
\* escape with four digits being a unit of its own (section 7 of RFC 8259).
HexValue(d) == CASE d < 58 -> d - 48 [] d \in 65 .. 70 -> d - 55 [] OTHER -> d - 87
RECURSIVE Spells(_)
Spells(text) ==
  IF text = <<>> THEN <<>>
  ELSE IF text[1] # 92
  THEN LET n == Announced(text[1]) IN
       UnitsOf(SubSeq(text, 1, n)) \o Spells(SubSeq(text, n + 1, Len(text)))
  ELSE IF text[2] = 117
  THEN <<4096 * HexValue(text[3]) + 256 * HexValue(text[4]) + 16 * HexValue(text[5])
         + HexValue(text[6])>> \o Spells(SubSeq(text, 7, Len(text)))
  ELSE <<CASE text[2] = 98 -> 8 [] text[2] = 102 -> 12 [] text[2] = 110 -> 10
           [] text[2] = 114 -> 13 [] text[2] = 116 -> 9 [] OTHER -> text[2]>>
       \o Spells(SubSeq(text, 3, Len(text)))

-----------------------------------------------------------------------------
(* Regular expressions over bytes.  None matches nothing, Empty the empty  *)
(* text.  The constructors keep None out of every other expression, so     *)
(* that an expression is None exactly when no text matches it.             *)
None == [none |-> TRUE]
Empty == [empty |-> TRUE]
In(bytes) == [in |-> bytes]
Alt(r, s) == IF r = None THEN s ELSE IF s = None \/ r = s THEN r ELSE [alt |-> <<r, s>>]
Cat(r, s) == IF r = None \/ s = None THEN None
             ELSE IF r = Empty THEN s ELSE IF s = Empty THEN r ELSE [cat |-> <<r, s>>]
Star(r) == [star |-> r]
Opt(r) == Alt(r, Empty)
Plus(r) == Cat(r, Star(r))
Word(bytes) == FoldRight(LAMBDA b, r : Cat(In({b}), r), bytes, Empty)
OneOf(rs) == FoldLeft(Alt, None, rs)
Then(rs) == FoldRight(Cat, rs, Empty)

RECURSIVE Nullable(_)
Nullable(r) ==
  CASE "empty" \in DOMAIN r -> TRUE
    [] "star" \in DOMAIN r -> TRUE
    [] "alt" \in DOMAIN r -> Nullable(r.alt[1]) \/ Nullable(r.alt[2])
    [] "cat" \in DOMAIN r -> Nullable(r.cat[1]) /\ Nullable(r.cat[2])
    [] OTHER -> FALSE

\* What may follow byte b in a text that matches r.
RECURSIVE After(_, _)
After(r, b) ==
  CASE "in" \in DOMAIN r -> IF b \in r.in THEN Empty ELSE None
    [] "alt" \in DOMAIN r -> Alt(After(r.alt[1], b), After(r.alt[2], b))
    [] "cat" \in DOMAIN r ->
         Alt(Cat(After(r.cat[1], b), r.cat[2]),
             IF Nullable(r.cat[1]) THEN After(r.cat[2], b) ELSE None)
    [] "star" \in DOMAIN r -> Cat(After(r.star, b), r)
    [] OTHER -> None

AfterAll(r, text) == FoldLeft(After, r, text)
Matches(text, r) == Nullable(AfterAll(r, text))
CanBecome(text, r) == AfterAll(r, text) # None

-----------------------------------------------------------------------------
(* RFC 8259.                                                               *)
Byte == 0 .. 255
OneDigit == In(48 .. 57)
HexDigit == In(48 .. 57 \cup 65 .. 70 \cup 97 .. 102)

Number ==
  Then(<<Opt(In({45})),
         Alt(In({48}), Cat(In(49 .. 57), Star(OneDigit))),
         Opt(Cat(In({46}), Plus(OneDigit))),
         Opt(Then(<<In({69, 101}), Opt(In({43, 45})), Plus(OneDigit)>>))>>)

Tail8(n) == Then([i \in 1 .. n |-> In(128 .. 191)])
\* Section 4 of RFC 3629.
Utf8Char ==
  OneOf(<<In((32 .. 127) \ {34, 92}),
          Cat(In(194 .. 223), Tail8(1)),
          Then(<<In({224}), In(160 .. 191), Tail8(1)>>),
          Cat(In(225 .. 236 \cup 238 .. 239), Tail8(2)),
          Then(<<In({237}), In(128 .. 159), Tail8(1)>>),
          Then(<<In({240}), In(144 .. 191), Tail8(2)>>),
          Cat(In(241 .. 243), Tail8(3)),
          Then(<<In({244}), In(128 .. 143), Tail8(2)>>)>>)

\* Section 7 of RFC 8259, with the surrogates it leaves to the implementation
\* allowed as a pair only.
Dd == In({68, 100})
Escaped ==
  Cat(In({92}),
      OneOf(<<In({34, 92, 47, 98, 102, 110, 114, 116}),
              Then(<<In({117}), In(HexDigit.in \ Dd.in), HexDigit, HexDigit, HexDigit>>),
              Then(<<In({117}), Dd, In(48 .. 55), HexDigit, HexDigit>>),
              Then(<<In({117}), Dd, In({56, 57, 65, 66, 97, 98}), HexDigit, HexDigit,
                     In({92}), In({117}), Dd, In(67 .. 70 \cup 99 .. 102),
                     HexDigit, HexDigit>>)>>))
String == Then(<<In({34}), Star(Alt(Utf8Char, Escaped)), In({34})>>)

\* A string of any bytes, each longest piece that begins a code point but is
\* none (or else its one byte) replaced: what Unicode's chapter 3 recommends.
Utf8Any == Alt(In({34, 92} \cup 0 .. 31), Utf8Char)
RECURSIVE Repair(_, _)
Repair(bytes, replacement) ==
  LET begun == {n \in 1 .. Len(bytes) : CanBecome(SubSeq(bytes, 1, n), Utf8Any)}
      Rest(n) == Repair(SubSeq(bytes, n + 1, Len(bytes)), replacement)
      From(n) == (IF Matches(SubSeq(bytes, 1, n), Utf8Any) THEN SubSeq(bytes, 1, n)
                  ELSE replacement) \o Rest(n)
  IN  IF bytes = <<>> THEN <<>> ELSE From(Max(begun \cup {1}))

White == {32, 9, 10, 13}
\* The comments json.hpp may be asked to skip: to the end of a line, or
\* between the usual brackets.
LineComment == Then(<<Word(<<47, 47>>), Star(In(Byte \ {0, 10, 13})), In({0, 10, 13})>>)
BlockComment ==
  Then(<<Word(<<47, 42>>),
         Star(Alt(In(Byte \ {0, 42}), Cat(Plus(In({42})), In(Byte \ {0, 42, 47})))),
         Plus(In({42})), In({47})>>)
Gap(comments) ==
  Star(IF comments THEN OneOf(<<In(White), LineComment, BlockComment>>) ELSE In(White))

\* The expression of each token; the end of the input is a null byte here.
TokenOf(type) ==
  CASE type = "begin_array" -> Word(<<91>>)
    [] type = "end_array" -> Word(<<93>>)
    [] type = "begin_object" -> Word(<<123>>)
    [] type = "end_object" -> Word(<<125>>)
    [] type = "name_separator" -> Word(<<58>>)
    [] type = "value_separator" -> Word(<<44>>)
    [] type = "literal_true" -> Word(<<116, 114, 117, 101>>)
    [] type = "literal_false" -> Word(<<102, 97, 108, 115, 101>>)
    [] type = "literal_null" -> Word(<<110, 117, 108, 108>>)
    [] type = "value_string" -> String
    [] type \in {"value_unsigned", "value_integer", "value_float"} -> Number
    [] type = "end_of_input" -> Word(<<0>>)

AnyToken ==
  OneOf(<<In({91, 93, 123, 125, 58, 44, 0}), Word(<<116, 114, 117, 101>>),
          Word(<<102, 97, 108, 115, 101>>), Word(<<110, 117, 108, 108>>),
          String, Number>>)
=============================================================================
