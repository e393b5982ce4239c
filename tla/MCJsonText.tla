----------------------------- MODULE MCJsonText -----------------------------
(* Sources for JsonText: bytes at the edges of every case of the scanner.   *)
EXTENDS JsonText

\* White space, brackets, literals cut short, comments, a byte order mark.
Blank == [bytes |-> {0, 10, 32, 34, 42, 47, 49, 91, 44}, length |-> 5, buffer |-> 1,
          first |-> {0, 10, 32, 34, 42, 47, 49, 91, 44}, calls |-> 2]
Mark == [bytes |-> {239, 187, 191, 10, 49, 91}, length |-> 4, buffer |-> 1,
         first |-> {239, 10, 49}, calls |-> 2]
Literals == [bytes |-> {116, 114, 117, 101, 102, 97, 108, 115, 110, 32}, length |-> 6,
             buffer |-> 1, first |-> {116, 102, 110, 117}, calls |-> 1]
Numbers == [bytes |-> {45, 43, 46, 48, 49, 57, 101, 44, 10}, length |-> 5, buffer |-> 9,
            first |-> {45, 48, 49, 57}, calls |-> 2]
\* Strings of bytes at the borders of the UTF-8 table.
Utf8Bytes == {34, 32, 65, 127, 128, 143, 144, 159, 160, 191, 192, 193, 194, 223, 224, 225,
              236, 237, 238, 239, 240, 241, 243, 244, 245, 255, 31, 0, 10}
Strings == [bytes |-> Utf8Bytes, length |-> 6, buffer |-> 1,
            first |-> {34}, calls |-> 1]
Escapes == [bytes |-> {34, 92, 47, 98, 102, 110, 114, 116, 120}, length |-> 4, buffer |-> 1,
            first |-> {34}, calls |-> 1]
\* \u escapes with the digits 0, 8, D and c: code points of each length, and
\* surrogates of both kinds, alone and in pairs.
Unicodes == [bytes |-> {34, 92, 117, 48, 56, 68, 99}, length |-> 14, buffer |-> 1,
             first |-> {34}, calls |-> 1]

\* Code points at the borders of the lengths and of the escapes.
Points == {0, 8, 10, 31, 34, 47, 92, 127, 128, 2047, 2048, 55295, 57344, 65535, 65536, 1114111}
PointStrings == {<<>>} \cup {<<a>> : a \in Points} \cup {<<a, b>> : a, b \in Points}
Utf8Strings == {G!Utf8All(p) : p \in PointStrings}

Options(pretty, ascii, step, char) ==
  [pretty_print |-> pretty, ensure_ascii |-> ascii, indent_step |-> step,
   indent_char |-> char, handler |-> "strict"]
Compact == {Options(FALSE, ascii, 0, 32) : ascii \in BOOLEAN}
Pretty == {Options(TRUE, FALSE, step, char) : step \in {0, 1, 3, 4}, char \in {9, 32}}

Integers8 == {[integer |-> n] : n \in {-128, -127, -100, -99, -10, -9, -1}}
             \cup {[unsigned |-> n] : n \in {0, 9, 10, 99, 100, 255}}
Floats == {[float |-> [minus |-> m, digits |-> d, exponent |-> e]] :
             m \in BOOLEAN, d \in {1, 7, 12, 105}, e \in {-8, -7, -5, -4, -2, -1, 0, 1, 12, 13, 15}}
          \cup {[float |-> [minus |-> m, digits |-> 0, exponent |-> 0]] : m \in BOOLEAN}
          \cup {[float |-> Infinite]}
Binaries == {[binary |-> [bytes |-> b, subtype |-> s]] :
               b \in {<<>>, <<0>>, <<255, 7>>}, s \in {NoSubtype, 0, 128}}
Leaves == {Null, [boolean |-> TRUE], [boolean |-> FALSE], [unsigned |-> 7]}
Nested1 == {[array |-> <<>>], [object |-> <<>>]}
           \cup {[array |-> <<a>>] : a \in Leaves}
           \cup {[array |-> <<a, b>>] : a \in Leaves, b \in {Null}}
           \cup {[object |-> (<<98>> :> a @@ <<97>> :> Null)] : a \in Leaves}
Nested2 == {[array |-> <<a, b>>] : a \in Nested1, b \in {[unsigned |-> 1]}}
           \cup {[object |-> (<<>> :> a @@ <<34>> :> b)] : a \in Nested1, b \in {Null}}
Nested == Leaves \cup Nested1 \cup Nested2 \cup Binaries

DumpSources ==
  {Dumped(d[1], d[2]) :
     d \in {[string |-> s] : s \in Utf8Strings} \X Compact
           \cup Nested \X (Compact \cup Pretty)
           \cup (Integers8 \cup Floats) \X Compact}
WideSources ==
  {Wide(width, p) : width \in {2, 4},
                    p \in {q \in PointStrings : \A i \in DOMAIN q : q[i] \notin {0, 8, 10, 31, 34, 92}}}

\* Strings of any bytes.
Loose == {65, 128, 159, 160, 191, 194, 224, 237, 240, 244, 245}
RepairSources ==
  {Repaired(bytes, [o EXCEPT !.handler = h]) :
     bytes \in {<<a, b, c>> : a, b, c \in Loose} \cup {<<240, 159, a, b>> : a, b \in Loose},
     o \in Compact, h \in {"replace", "ignore"}}

\* Floats of six bits; words of fourteen, powers of ten in steps of a
\* hundred.
MCkAlpha == 4 - kPrecision
MCkGamma == -4
MCkCachedPowersMinDecExp == -4
FloatSources ==
  {Printed(n % 2 = 0, n, CHOOSE o \in Compact : TRUE) :
     n \in 1 .. (2 * MaxExponent - 1) * kHiddenBit - 1}

ByteSources == {Blank, Mark, Literals, Numbers, Strings, Escapes, Unicodes}
MCSources ==
  {[ignore_comments |-> b] @@ s : s \in ByteSources, b \in BOOLEAN}
  \cup DumpSources \cup WideSources \cup RepairSources \cup FloatSources
MCMinInteger == -128
=============================================================================
