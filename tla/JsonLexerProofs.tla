--------------------------- MODULE JsonLexerProofs ---------------------------
(***************************************************************************)
(* Proofs about the lexer of json.hpp, for every input and any number of   *)
(* tokens: what it reads from bytes and from escapes is UTF-8.             *)
(***************************************************************************)
EXTENDS JsonLexer, SequenceTheorems, TLAPS

Byte == 0 .. 255
Surrogate == HighSurrogate \cup LowSurrogate

\* The code points that take so many bytes; no surrogate is one of them.
Take1 == 0 .. 127
Take2 == {u \in Nat : 128 <= u /\ u <= 2047}
Take3 == {u \in Nat : 2048 <= u /\ u <= 65535 /\ u \notin Surrogate}
Take4 == {u \in Nat : 65536 <= u /\ u <= 1114111}
CodePoint == UNION {Take1, Take2, Take3, Take4}

Value2(x, y)       == 64 * x + y
Value3(x, y, z)    == 4096 * x + 64 * y + z
Value4(x, y, z, w) == 262144 * x + 4096 * y + 64 * z + w

\* The bytes are the UTF-8 form of code point u: section 3 of RFC 3629.
Spells(p, u) ==
  \/ u \in Take1 /\ p = <<u>>
  \/ /\ u \in Take2
     /\ \E x \in 0 .. 31, y \in 0 .. 63 :
          u = Value2(x, y) /\ p = <<192 + x, 128 + y>>
  \/ /\ u \in Take3
     /\ \E x \in 0 .. 15, y, z \in 0 .. 63 :
          u = Value3(x, y, z) /\ p = <<224 + x, 128 + y, 128 + z>>
  \/ /\ u \in Take4
     /\ \E x \in 0 .. 7, y, z, w \in 0 .. 63 :
          u = Value4(x, y, z, w) /\ p = <<240 + x, 128 + y, 128 + z, 128 + w>>

IsChar(p) == \E u \in CodePoint : Spells(p, u)

\* The least set of texts that has the empty one and, with a text, what it
\* becomes by one more code point.
Closed(P) == << >> \in P /\ \A s \in P : \A p \in Seq(Byte) : IsChar(p) => s \o p \in P
Utf8Strings == {s \in Seq(Byte) : \A P \in SUBSET Seq(Byte) : Closed(P) => s \in P}

-----------------------------------------------------------------------------
(* UTF-8 *)

\* "Translate codepoint into bytes" is the UTF-8 form of every code point that
\* is no surrogate.
THEOREM TranslatedSpells ==
  ASSUME NEW u \in CodePoint
  PROVE  Translated(u) \in Seq(Byte) /\ Spells(Translated(u), u)
<1>0. u \in Nat
  BY SMT DEF CodePoint, Take1, Take2, Take3, Take4
<1> DEFINE low == u % 64
           mid == (u \div 64) % 64
           upper == (u \div 4096) % 64
           top == u \div 262144
<1>1. low \in 0 .. 63 /\ mid \in 0 .. 63 /\ upper \in 0 .. 63
  BY <1>0, SMT
<1>2. u = 64 * (u \div 64) + low
  BY <1>0, SMT
<1>3. u \div 64 = 64 * (u \div 4096) + mid
  BY <1>0, SMT
<1>4. u \div 4096 = 64 * top + upper
  BY <1>0, SMT
<1>5. u \div 64 \in Nat /\ u \div 4096 \in Nat /\ top \in Nat
  BY <1>0, SMT
<1> HIDE DEF low, mid, upper, top
<1>6. CASE u \in Take1
  <2>1. Translated(u) = <<u>>
    BY <1>6, SMT DEF Translated, Take1
  <2>2. QED
    BY <1>6, <2>1, SMT DEF Spells, Byte, Take1
<1>7. CASE u \in Take2
  <2>1. Translated(u) = <<192 + u \div 64, 128 + low>>
    BY <1>7, SMT DEF Translated, Take2, low
  <2>2. u \div 64 \in 0 .. 31
    BY <1>1, <1>2, <1>5, <1>7, SMT DEF Take2
  <2>3. u = Value2(u \div 64, low)
    BY <1>2 DEF Value2
  <2>4. Spells(Translated(u), u)
    BY <1>1, <1>7, <2>1, <2>2, <2>3, SMT DEF Spells
  <2>5. QED
    BY <1>1, <2>1, <2>2, <2>4, SMT DEF Byte
<1>8. CASE u \in Take3
  <2> DEFINE lead == u \div 4096
  <2>1. Translated(u) = <<224 + lead, 128 + mid, 128 + low>>
    BY <1>8, SMT DEF Translated, Take3, low, mid
  <2>2. u = 4096 * lead + 64 * mid + low
    BY <1>0, <1>1, <1>2, <1>3, <1>5, SMT
  <2>3. lead \in 0 .. 15
    BY <1>1, <1>5, <1>8, <2>2, SMT DEF Take3
  <2> HIDE DEF lead
  <2>4. u = Value3(lead, mid, low)
    BY <2>2, SMT DEF Value3
  <2>5. Spells(Translated(u), u)
    BY <1>1, <1>8, <2>1, <2>3, <2>4, Zenon DEF Spells
  <2>6. QED
    BY <1>1, <2>1, <2>3, <2>5, SMT DEF Byte
<1>9. CASE u \in Take4
  <2>1. Translated(u) = <<240 + top, 128 + upper, 128 + mid, 128 + low>>
    BY <1>9, SMT DEF Translated, Take4, low, mid, upper, top
  <2>2. u = 262144 * top + 4096 * upper + 64 * mid + low
    BY <1>0, <1>1, <1>2, <1>3, <1>4, <1>5, SMT
  <2>3. top \in 0 .. 7
    BY <1>1, <1>5, <1>9, <2>2, SMT DEF Take4
  <2>4. u = Value4(top, upper, mid, low)
    BY <2>2, SMT DEF Value4
  <2>5. Spells(Translated(u), u)
    BY <1>1, <1>9, <2>1, <2>3, <2>4, Zenon DEF Spells
  <2>6. QED
    BY <1>1, <2>1, <2>3, <2>5, SMT DEF Byte
<1>10. QED
  BY <1>6, <1>7, <1>8, <1>9, SMT DEF CodePoint

\* Which leading bits leave a value in its range: the shortest form, and no
\* surrogate.
LEMMA ValueOfTwo ==
  ASSUME NEW x \in 0 .. 31, NEW y \in 0 .. 63
  PROVE  Value2(x, y) \in Take2 <=> x >= 2
  BY SMT DEF Take2, Value2

LEMMA ValueOfThree ==
  ASSUME NEW x \in 0 .. 15, NEW y \in 0 .. 63, NEW z \in 0 .. 63
  PROVE  Value3(x, y, z) \in Take3 <=> (x > 0 \/ y >= 32) /\ ~(x = 13 /\ y >= 32)
<1> DEFINE u == 4096 * x + 64 * y + z
<1>1. u \in Nat
  BY SMT
<1>2. u <= 65535
  BY SMT
<1>3. u >= 2048 <=> x > 0 \/ y >= 32
  BY SMT
<1>4. (55296 <= u /\ u <= 57343) <=> (x = 13 /\ y >= 32)
  BY SMT
<1> HIDE DEF u
<1>5. (55296 <= u /\ u <= 57343) <=> u \in Surrogate
  BY <1>1, SMT DEF Surrogate, HighSurrogate, LowSurrogate
<1>6. u \in Take3 <=> u >= 2048 /\ u \notin Surrogate
  BY <1>1, <1>2, SMT DEF Take3
<1>7. u \in Take3 <=> (x > 0 \/ y >= 32) /\ ~(x = 13 /\ y >= 32)
  BY <1>3, <1>4, <1>5, <1>6, SMT
<1>8. QED
  BY <1>7, SMT DEF u, Value3

LEMMA ValueOfFour ==
  ASSUME NEW x \in 0 .. 7, NEW y \in 0 .. 63, NEW z \in 0 .. 63, NEW w \in 0 .. 63
  PROVE  Value4(x, y, z, w) \in Take4
           <=> (x > 0 \/ y >= 16) /\ (x < 4 \/ (x = 4 /\ y <= 15))
<1> DEFINE u == 262144 * x + 4096 * y + 64 * z + w
<1>1. u \in Nat
  BY SMT
<1>2. u >= 65536 <=> x > 0 \/ y >= 16
  BY SMT
<1>3. u <= 1114111 <=> x < 4 \/ (x = 4 /\ y <= 15)
  BY SMT
<1> HIDE DEF u
<1>4. u \in Take4 <=> u >= 65536 /\ u <= 1114111
  BY <1>1, SMT DEF Take4
<1>5. u \in Take4 <=> (x > 0 \/ y >= 16) /\ (x < 4 \/ (x = 4 /\ y <= 15))
  BY <1>2, <1>3, <1>4, SMT
<1>6. QED
  BY <1>5, SMT DEF u, Value4

\* The rows of the table: the leading bytes of two, three and four, and what
\* may come second; all that follows is in Any8.
Leads2(a, second) == a \in 194 .. 223 /\ second = Any8
Leads3(a, second) ==
  \/ a = 224 /\ second = 160 .. 191
  \/ (a \in 225 .. 236 \/ a \in 238 .. 239) /\ second = Any8
  \/ a = 237 /\ second = 128 .. 159
Leads4(a, second) ==
  \/ a = 240 /\ second = 144 .. 191
  \/ a \in 241 .. 243 /\ second = Any8
  \/ a = 244 /\ second = 128 .. 143

\* Which bytes are a code point: the arithmetic agrees with these rows.
LEMMA TwoBytes ==
  ASSUME NEW a \in Byte, NEW b \in Byte
  PROVE  IsChar(<<a, b>>) <=> \E S : Leads2(a, S) /\ b \in S
<1>1. ASSUME IsChar(<<a, b>>)
      PROVE  a \in 194 .. 223 /\ b \in Any8
  <2>1. PICK u \in Take2, x \in 0 .. 31, y \in 0 .. 63 :
               u = Value2(x, y) /\ <<a, b>> = <<192 + x, 128 + y>>
    BY <1>1, SMT DEF IsChar, Spells
  <2>2. x >= 2
    BY <2>1, ValueOfTwo, SMT
  <2>3. QED
    BY <2>1, <2>2, SMT DEF Any8
<1>2. ASSUME a \in 194 .. 223, b \in Any8
      PROVE  IsChar(<<a, b>>)
  <2>1. PICK x \in 0 .. 31, y \in 0 .. 63 : a = 192 + x /\ b = 128 + y /\ x >= 2
    <3>1. a - 192 \in 0 .. 31 /\ b - 128 \in 0 .. 63
      BY <1>2, SMT DEF Any8
    <3>2. a = 192 + (a - 192) /\ b = 128 + (b - 128) /\ a - 192 >= 2
      BY <1>2, SMT DEF Any8
    <3>3. QED
      BY <3>1, <3>2, Zenon
  <2>2. Value2(x, y) \in Take2
    BY <2>1, ValueOfTwo, SMT
  <2>3. Spells(<<a, b>>, Value2(x, y))
    BY <2>1, <2>2, Zenon DEF Spells
  <2>4. QED
    BY <2>2, <2>3, SMT DEF IsChar, CodePoint
<1>3. QED
  BY <1>1, <1>2, Zenon DEF Leads2

LEMMA ThreeBytes ==
  ASSUME NEW a \in Byte, NEW b \in Byte, NEW c \in Byte
  PROVE  IsChar(<<a, b, c>>) <=> c \in Any8 /\ \E S : Leads3(a, S) /\ b \in S
<1>1. ASSUME IsChar(<<a, b, c>>)
      PROVE  /\ c \in Any8
             /\ \/ a = 224 /\ b \in 160 .. 191
                \/ (a \in 225 .. 236 \/ a \in 238 .. 239) /\ b \in Any8
                \/ a = 237 /\ b \in 128 .. 159
  <2>1. PICK u \in Take3, x \in 0 .. 15, y \in 0 .. 63, z \in 0 .. 63 :
               u = Value3(x, y, z) /\ <<a, b, c>> = <<224 + x, 128 + y, 128 + z>>
    <3>1. PICK u \in CodePoint : Spells(<<a, b, c>>, u)
      BY <1>1 DEF IsChar
    <3>2. \A x, y, z, w : /\ <<a, b, c>> # <<x>> /\ <<a, b, c>> # <<x, y>>
                          /\ <<a, b, c>> # <<x, y, z, w>>
      BY SMT
    <3>3. QED
      BY <3>1, <3>2, Zenon DEF Spells
  <2>2. (x > 0 \/ y >= 32) /\ ~(x = 13 /\ y >= 32)
    BY <2>1, ValueOfThree, SMT
  <2>3. QED
    BY <2>1, <2>2, SMT DEF Any8
<1>2. ASSUME c \in Any8,
             \/ a = 224 /\ b \in 160 .. 191
             \/ (a \in 225 .. 236 \/ a \in 238 .. 239) /\ b \in Any8
             \/ a = 237 /\ b \in 128 .. 159
      PROVE  IsChar(<<a, b, c>>)
  <2>1. PICK x \in 0 .. 15, y \in 0 .. 63, z \in 0 .. 63 :
               /\ a = 224 + x /\ b = 128 + y /\ c = 128 + z
               /\ x > 0 \/ y >= 32
               /\ ~(x = 13 /\ y >= 32)
    <3> DEFINE x == a - 224
               y == b - 128
               z == c - 128
    <3>1. x \in 0 .. 15 /\ y \in 0 .. 63 /\ z \in 0 .. 63
      BY <1>2, SMT DEF Any8
    <3>2. /\ a = 224 + x /\ b = 128 + y /\ c = 128 + z
          /\ x > 0 \/ y >= 32
          /\ ~(x = 13 /\ y >= 32)
      BY <1>2, SMT DEF Any8
    <3>3. QED
      BY <3>1, <3>2, Zenon
  <2>2. Value3(x, y, z) \in Take3
    BY <2>1, ValueOfThree, SMT
  <2>3. Spells(<<a, b, c>>, Value3(x, y, z))
    BY <2>1, <2>2, Zenon DEF Spells
  <2>4. QED
    BY <2>2, <2>3, SMT DEF IsChar, CodePoint
<1>3. ASSUME NEW S, Leads3(a, S), b \in S
      PROVE  \/ a = 224 /\ b \in 160 .. 191
             \/ (a \in 225 .. 236 \/ a \in 238 .. 239) /\ b \in Any8
             \/ a = 237 /\ b \in 128 .. 159
  <2>1. CASE a = 224 /\ S = 160 .. 191
    BY <1>3, <2>1
  <2>2. CASE (a \in 225 .. 236 \/ a \in 238 .. 239) /\ S = Any8
    BY <1>3, <2>2
  <2>3. CASE a = 237 /\ S = 128 .. 159
    BY <1>3, <2>3
  <2>4. QED
    BY <1>3, <2>1, <2>2, <2>3, Zenon DEF Leads3
<1>4. a = 224 => Leads3(a, 160 .. 191)
  BY Zenon DEF Leads3
<1>5. (a \in 225 .. 236 \/ a \in 238 .. 239) => Leads3(a, Any8)
  BY Zenon DEF Leads3
<1>6. a = 237 => Leads3(a, 128 .. 159)
  BY Zenon DEF Leads3
<1>7. QED
  BY <1>1, <1>2, <1>3, <1>4, <1>5, <1>6, Zenon

LEMMA FourBytes ==
  ASSUME NEW a \in Byte, NEW b \in Byte, NEW c \in Byte, NEW d \in Byte
  PROVE  IsChar(<<a, b, c, d>>) <=>
           c \in Any8 /\ d \in Any8 /\ \E S : Leads4(a, S) /\ b \in S
<1>1. ASSUME IsChar(<<a, b, c, d>>)
      PROVE  /\ c \in Any8 /\ d \in Any8
             /\ \/ a = 240 /\ b \in 144 .. 191
                \/ a \in 241 .. 243 /\ b \in Any8
                \/ a = 244 /\ b \in 128 .. 143
  <2>1. PICK u \in Take4, x \in 0 .. 7, y \in 0 .. 63, z \in 0 .. 63, w \in 0 .. 63 :
               /\ u = Value4(x, y, z, w)
               /\ <<a, b, c, d>> = <<240 + x, 128 + y, 128 + z, 128 + w>>
    <3>1. PICK u \in CodePoint : Spells(<<a, b, c, d>>, u)
      BY <1>1 DEF IsChar
    <3>2. \A x, y, z : /\ <<a, b, c, d>> # <<x>> /\ <<a, b, c, d>> # <<x, y>>
                       /\ <<a, b, c, d>> # <<x, y, z>>
      BY SMT
    <3>3. QED
      BY <3>1, <3>2, Zenon DEF Spells
  <2>2. (x > 0 \/ y >= 16) /\ (x < 4 \/ (x = 4 /\ y <= 15))
    BY <2>1, ValueOfFour, Zenon
  <2>3. QED
    BY <2>1, <2>2, SMT DEF Any8
<1>2. ASSUME c \in Any8, d \in Any8,
             \/ a = 240 /\ b \in 144 .. 191
             \/ a \in 241 .. 243 /\ b \in Any8
             \/ a = 244 /\ b \in 128 .. 143
      PROVE  IsChar(<<a, b, c, d>>)
  <2>1. PICK x \in 0 .. 7, y \in 0 .. 63, z \in 0 .. 63, w \in 0 .. 63 :
               /\ a = 240 + x /\ b = 128 + y /\ c = 128 + z /\ d = 128 + w
               /\ x > 0 \/ y >= 16
               /\ x < 4 \/ (x = 4 /\ y <= 15)
    <3> DEFINE x == a - 240
               y == b - 128
               z == c - 128
               w == d - 128
    <3>1. x \in 0 .. 7 /\ y \in 0 .. 63 /\ z \in 0 .. 63 /\ w \in 0 .. 63
      BY <1>2, SMT DEF Any8
    <3>2. /\ a = 240 + x /\ b = 128 + y /\ c = 128 + z /\ d = 128 + w
          /\ x > 0 \/ y >= 16
          /\ x < 4 \/ (x = 4 /\ y <= 15)
      BY <1>2, SMT DEF Any8
    <3> HIDE DEF x, y, z, w
    <3>3. QED
      BY <3>1, <3>2, Zenon
  <2>2. Value4(x, y, z, w) \in Take4
    BY <2>1, ValueOfFour, Zenon
  <2>3. Spells(<<a, b, c, d>>, Value4(x, y, z, w))
    BY <2>1, <2>2, Zenon DEF Spells
  <2>4. QED
    BY <2>2, <2>3, SMT DEF IsChar, CodePoint
<1>3. ASSUME NEW S, Leads4(a, S), b \in S
      PROVE  \/ a = 240 /\ b \in 144 .. 191
             \/ a \in 241 .. 243 /\ b \in Any8
             \/ a = 244 /\ b \in 128 .. 143
  <2>1. CASE a = 240 /\ S = 144 .. 191
    BY <1>3, <2>1
  <2>2. CASE a \in 241 .. 243 /\ S = Any8
    BY <1>3, <2>2
  <2>3. CASE a = 244 /\ S = 128 .. 143
    BY <1>3, <2>3
  <2>4. QED
    BY <1>3, <2>1, <2>2, <2>3, Zenon DEF Leads4
<1>4. a = 240 => Leads4(a, 144 .. 191)
  BY Zenon DEF Leads4
<1>5. a \in 241 .. 243 => Leads4(a, Any8)
  BY Zenon DEF Leads4
<1>6. a = 244 => Leads4(a, 128 .. 143)
  BY Zenon DEF Leads4
<1>7. QED
  BY <1>1, <1>2, <1>3, <1>4, <1>5, <1>6, Zenon

\* The lexer's table has these rows.
Row(c, d) ==
  \/ Len(d) = 1 /\ Leads2(c, d[1])
  \/ Len(d) = 2 /\ Leads3(c, d[1]) /\ d[2] = Any8
  \/ Len(d) = 3 /\ Leads4(c, d[1]) /\ d[2] = Any8 /\ d[3] = Any8

LEMMA Rows ==
  ASSUME NEW c, LeadingByte(c), NEW d, d = Continuations(c)
  PROVE  c \in Byte /\ d \in Seq(SUBSET Byte) /\ Row(c, d)
<1>1. c \in 194 .. 244
  BY DEF LeadingByte
<1>2. c \in Byte
  BY <1>1, SMT DEF Byte
<1>3. /\ Any8 \in SUBSET Byte /\ (160 .. 191) \in SUBSET Byte /\ (128 .. 159) \in SUBSET Byte
      /\ (144 .. 191) \in SUBSET Byte /\ (128 .. 143) \in SUBSET Byte
  BY SMT DEF Any8, Byte
<1>4. CASE c \in 194 .. 223
  <2>1. d = <<Any8>>
    BY <1>2, <1>4, SMT DEF Continuations
  <2>2. Leads2(c, Any8)
    BY <1>4 DEF Leads2
  <2>3. QED
    BY <1>2, <1>3, <2>1, <2>2 DEF Row
<1>5. CASE c \in 224 .. 239
  <2>1. PICK x : d = <<x, Any8>> /\ Leads3(c, x)
    BY <1>2, <1>5, SMT DEF Continuations, Leads3
  <2>2. x \in SUBSET Byte
    <3>1. CASE x = 160 .. 191
      BY <1>3, <3>1
    <3>2. CASE x = Any8
      BY <1>3, <3>2
    <3>3. CASE x = 128 .. 159
      BY <1>3, <3>3
    <3>4. QED
      BY <2>1, <3>1, <3>2, <3>3, Zenon DEF Leads3
  <2>3. QED
    BY <1>2, <1>3, <2>1, <2>2 DEF Row
<1>6. CASE c \in 240 .. 244
  <2>1. PICK x : d = <<x, Any8, Any8>> /\ Leads4(c, x)
    BY <1>2, <1>6, SMT DEF Continuations, Leads4
  <2>2. x \in SUBSET Byte
    <3>1. x = 144 .. 191 \/ x = Any8 \/ x = 128 .. 143
      BY <2>1, Zenon DEF Leads4
    <3>2. QED
      BY <1>3, <3>1, Zenon
  <2>3. QED
    BY <1>2, <1>3, <2>1, <2>2 DEF Row
<1>7. QED
  BY <1>1, <1>4, <1>5, <1>6, SMT

\* The bytes r are some that the lexer asks for.
AsDue(r, d) == Len(r) = Len(d) /\ \A i \in 1 .. Len(d) : r[i] \in d[i]

\* A byte and one to three more, one by one.
LEMMA Together ==
  ASSUME NEW a \in Byte, NEW r \in Seq(Byte)
  PROVE  /\ Len(r) = 1 => r[1] \in Byte /\ <<a>> \o r = <<a, r[1]>>
         /\ Len(r) = 2 => {r[1], r[2]} \subseteq Byte /\ <<a>> \o r = <<a, r[1], r[2]>>
         /\ Len(r) = 3 => {r[1], r[2], r[3]} \subseteq Byte /\ <<a>> \o r = <<a, r[1], r[2], r[3]>>
<1> DEFINE s == <<a>> \o r
<1>1. <<a>> \in Seq(Byte) /\ Len(<<a>>) = 1 /\ <<a>>[1] = a
  OBVIOUS
<1>2. /\ s \in Seq(Byte) /\ Len(s) = 1 + Len(r)
      /\ \A i \in 1 .. 1 + Len(r) : s[i] = IF i <= 1 THEN <<a>>[i] ELSE r[i - 1]
  BY <1>1, ConcatProperties
<1>3. Len(r) \in Nat /\ \A i \in 1 .. Len(r) : r[i] \in Byte
  BY ElementOfSeq, LenProperties
<1> HIDE DEF s
<1>4. ASSUME Len(r) = 1
      PROVE  r[1] \in Byte /\ s = <<a, r[1]>>
  <2>1. r[1] \in Byte /\ s[1] = a /\ s[2] = r[1]
    BY <1>1, <1>2, <1>3, <1>4
  <2>2. QED
    BY <1>2, <1>4, <2>1
<1>5. ASSUME Len(r) = 2
      PROVE  {r[1], r[2]} \subseteq Byte /\ s = <<a, r[1], r[2]>>
  <2>1. r[1] \in Byte /\ r[2] \in Byte /\ s[1] = a /\ s[2] = r[1] /\ s[3] = r[2]
    BY <1>1, <1>2, <1>3, <1>5
  <2>2. QED
    BY <1>2, <1>5, <2>1
<1>6. ASSUME Len(r) = 3
      PROVE  {r[1], r[2], r[3]} \subseteq Byte /\ s = <<a, r[1], r[2], r[3]>>
  <2>1. /\ r[1] \in Byte /\ r[2] \in Byte /\ r[3] \in Byte
        /\ s[1] = a /\ s[2] = r[1] /\ s[3] = r[2] /\ s[4] = r[3]
    BY <1>1, <1>2, <1>3, <1>6
  <2>2. QED
    BY <1>2, <1>6, <2>1
<1>7. QED
  BY <1>4, <1>5, <1>6 DEF s

\* The leading byte and what the lexer accepts after it are a code point.
LEMMA AcceptedIsChar ==
  ASSUME NEW a, LeadingByte(a), NEW r \in Seq(Byte), AsDue(r, Continuations(a))
  PROVE  IsChar(<<a>> \o r)
<1> DEFINE d == Continuations(a)
<1>1. a \in Byte /\ Row(a, d)
  BY Rows
<1>2. Len(r) = Len(d) /\ \A i \in 1 .. Len(d) : r[i] \in d[i]
  BY DEF AsDue
<1> HIDE DEF d
<1>3. CASE Len(d) = 1 /\ Leads2(a, d[1])
  <2>1. r[1] \in d[1] /\ Len(r) = 1
    BY <1>2, <1>3
  <2>2. r[1] \in Byte /\ <<a>> \o r = <<a, r[1]>>
    BY <1>1, <2>1, Together
  <2>3. IsChar(<<a, r[1]>>)
    BY <1>1, <1>3, <2>1, <2>2, TwoBytes
  <2>4. QED
    BY <2>2, <2>3
<1>4. CASE Len(d) = 2 /\ Leads3(a, d[1]) /\ d[2] = Any8
  <2>1. r[1] \in d[1] /\ r[2] \in Any8 /\ Len(r) = 2
    BY <1>2, <1>4
  <2>2. {r[1], r[2]} \subseteq Byte /\ <<a>> \o r = <<a, r[1], r[2]>>
    BY <1>1, <2>1, Together
  <2>3. IsChar(<<a, r[1], r[2]>>)
    BY <1>1, <1>4, <2>1, <2>2, ThreeBytes
  <2>4. QED
    BY <2>2, <2>3
<1>5. CASE Len(d) = 3 /\ Leads4(a, d[1]) /\ d[2] = Any8 /\ d[3] = Any8
  <2>1. r[1] \in d[1] /\ r[2] \in Any8 /\ r[3] \in Any8 /\ Len(r) = 3
    BY <1>2, <1>5
  <2>2. {r[1], r[2], r[3]} \subseteq Byte /\ <<a>> \o r = <<a, r[1], r[2], r[3]>>
    BY <1>1, <2>1, Together
  <2>3. IsChar(<<a, r[1], r[2], r[3]>>)
    BY <1>1, <1>5, <2>1, <2>2, FourBytes
  <2>4. QED
    BY <2>2, <2>3
<1>6. QED
  BY <1>1, <1>3, <1>4, <1>5 DEF Row

\* A leading byte is in one row.
LEMMA RowRange ==
  ASSUME NEW a, NEW S
  PROVE  /\ Leads2(a, S) => a \in 194 .. 223
         /\ Leads3(a, S) => a \in 224 .. 239
         /\ Leads4(a, S) => a \in 240 .. 244
<1>1. Leads2(a, S) => a \in 194 .. 223
  BY Zenon DEF Leads2
<1>2. Leads3(a, S) => a \in 224 .. 239
  BY SMT DEF Leads3
<1>3. Leads4(a, S) => a \in 240 .. 244
  BY SMT DEF Leads4
<1>4. QED
  BY <1>1, <1>2, <1>3, Zenon

LEMMA RowsApart ==
  ASSUME NEW a, NEW S, NEW T
  PROVE  /\ ~ (Leads2(a, S) /\ Leads3(a, T))
         /\ ~ (Leads2(a, S) /\ Leads4(a, T))
         /\ ~ (Leads3(a, S) /\ Leads4(a, T))
<1>1. ASSUME Leads2(a, S), Leads3(a, T)
      PROVE  FALSE
  <2>1. a \in 194 .. 223
    BY <1>1, RowRange
  <2>2. a \in 224 .. 239
    BY <1>1, RowRange
  <2>3. QED
    BY <2>1, <2>2, SMT
<1>2. ASSUME Leads2(a, S), Leads4(a, T)
      PROVE  FALSE
  <2>1. a \in 194 .. 223
    BY <1>2, RowRange
  <2>2. a \in 240 .. 244
    BY <1>2, RowRange
  <2>3. QED
    BY <2>1, <2>2, SMT
<1>3. ASSUME Leads3(a, S), Leads4(a, T)
      PROVE  FALSE
  <2>1. a \in 224 .. 239
    BY <1>3, RowRange
  <2>2. a \in 240 .. 244
    BY <1>3, RowRange
  <2>3. QED
    BY <2>1, <2>2, SMT
<1>4. QED
  BY <1>1, <1>2, <1>3, Zenon

LEMMA OneRow ==
  ASSUME NEW a, NEW S, NEW T,
         \/ Leads2(a, S) /\ Leads2(a, T)
         \/ Leads3(a, S) /\ Leads3(a, T)
         \/ Leads4(a, S) /\ Leads4(a, T)
  PROVE  S = T
<1>1. CASE Leads2(a, S) /\ Leads2(a, T)
  BY <1>1, Zenon DEF Leads2
<1>2. CASE Leads3(a, S) /\ Leads3(a, T)
  <2>1. CASE a = 224
    BY <1>2, <2>1, SMT DEF Leads3
  <2>2. CASE a = 237
    BY <1>2, <2>2, SMT DEF Leads3
  <2>3. CASE a # 224 /\ a # 237
    BY <1>2, <2>3, Zenon DEF Leads3
  <2>4. QED
    BY <2>1, <2>2, <2>3, Zenon
<1>3. CASE Leads4(a, S) /\ Leads4(a, T)
  <2>1. CASE a = 240
    BY <1>3, <2>1, SMT DEF Leads4
  <2>2. CASE a = 244
    BY <1>3, <2>2, SMT DEF Leads4
  <2>3. CASE a # 240 /\ a # 244
    BY <1>3, <2>3, Zenon DEF Leads4
  <2>4. QED
    BY <2>1, <2>2, <2>3, Zenon
<1>4. QED
  BY <1>1, <1>2, <1>3, Zenon

\* The bytes that scan_string accepts after a first byte are those that make
\* it a code point, and all of them: RFC 3629 gives the ranges as a table
\* (its section 4), and the code points as arithmetic (its section 3).
THEOREM AcceptsUtf8 ==
  ASSUME NEW a \in Byte, NEW r \in Seq(Byte), Len(r) > 0
  PROVE  IsChar(<<a>> \o r) <=> LeadingByte(a) /\ AsDue(r, Continuations(a))
<1> DEFINE d == Continuations(a)
<1>1. ASSUME LeadingByte(a), AsDue(r, d)
      PROVE  IsChar(<<a>> \o r)
  BY <1>1, AcceptedIsChar
<1>2. ASSUME LeadingByte(a)
      PROVE  Row(a, d)
  BY <1>2, Rows
<1> HIDE DEF d
<1>3. ASSUME LeadingByte(a), NEW S, Leads2(a, S), Len(r) = 1, r[1] \in S
      PROVE  AsDue(r, d)
  <2>1. Len(d) = 1 /\ d[1] = S
    <3>1. Row(a, d) /\ ~ (\E T : Leads3(a, T) \/ Leads4(a, T))
      BY <1>2, <1>3, RowsApart, Zenon
    <3>2. QED
      BY <1>3, <3>1, OneRow, Zenon DEF Row
  <2>2. QED
    BY <1>3, <2>1 DEF AsDue
<1>4. ASSUME LeadingByte(a), NEW S, Leads3(a, S), Len(r) = 2, r[1] \in S, r[2] \in Any8
      PROVE  AsDue(r, d)
  <2>1. Len(d) = 2 /\ d[1] = S /\ d[2] = Any8
    <3>1. Row(a, d) /\ ~ (\E T : Leads2(a, T) \/ Leads4(a, T))
      BY <1>2, <1>4, RowsApart, Zenon
    <3>2. QED
      BY <1>4, <3>1, OneRow, Zenon DEF Row
  <2>2. QED
    BY <1>4, <2>1 DEF AsDue
<1>5. ASSUME LeadingByte(a), NEW S, Leads4(a, S), Len(r) = 3, r[1] \in S, r[2] \in Any8,
             r[3] \in Any8
      PROVE  AsDue(r, d)
  <2>1. Len(d) = 3 /\ d[1] = S /\ d[2] = Any8 /\ d[3] = Any8
    <3>1. Row(a, d) /\ ~ (\E T : Leads2(a, T) \/ Leads3(a, T))
      BY <1>2, <1>5, RowsApart, Zenon
    <3>2. QED
      BY <1>5, <3>1, OneRow, Zenon DEF Row
  <2>2. QED
    BY <1>5, <2>1 DEF AsDue
<1>6. ASSUME IsChar(<<a>> \o r)
      PROVE  LeadingByte(a) /\ AsDue(r, d)
  <2>1. Len(<<a>> \o r) = Len(r) + 1
    BY ConcatProperties
  <2>2. Len(<<a>> \o r) \in 1 .. 4
    <3>1. PICK u : Spells(<<a>> \o r, u)
      BY <1>6 DEF IsChar
    <3> DEFINE s == <<a>> \o r
    <3> HIDE DEF s
    <3>2. \/ \E x : s = <<x>>
          \/ \E x, y : s = <<x, y>>
          \/ \E x, y, z : s = <<x, y, z>>
          \/ \E x, y, z, w : s = <<x, y, z, w>>
      <4>1. Spells(s, u)
        BY <3>1 DEF s
      <4>2. QED
        BY <4>1, Zenon DEF Spells
    <3>3. Len(s) \in 1 .. 4
      BY <3>2
    <3>4. QED
      BY <3>3 DEF s
  <2>3. Len(r) = 1 \/ Len(r) = 2 \/ Len(r) = 3
    <3> DEFINE n == Len(r)
    <3>1. n \in Nat /\ n > 0 /\ n + 1 \in 1 .. 4
      BY <2>1, <2>2
    <3> HIDE DEF n
    <3>2. n = 1 \/ n = 2 \/ n = 3
      BY <3>1, SMT
    <3>3. QED
      BY <3>2 DEF n
  <2>4. \E S : /\ r[1] \in S
               /\ \/ Leads2(a, S) /\ Len(r) = 1
                  \/ Leads3(a, S) /\ Len(r) = 2 /\ r[2] \in Any8
                  \/ Leads4(a, S) /\ Len(r) = 3 /\ r[2] \in Any8 /\ r[3] \in Any8
    <3>1. CASE Len(r) = 1
      <4>1. r[1] \in Byte /\ IsChar(<<a, r[1]>>)
        BY <1>6, <3>1, Together, Zenon
      <4>2. QED
        BY <3>1, <4>1, TwoBytes, Zenon
    <3>2. CASE Len(r) = 2
      <4>1. {r[1], r[2]} \subseteq Byte /\ IsChar(<<a, r[1], r[2]>>)
        BY <1>6, <3>2, Together, Zenon
      <4>2. QED
        BY <3>2, <4>1, ThreeBytes, Zenon
    <3>3. CASE Len(r) = 3
      <4>1. {r[1], r[2], r[3]} \subseteq Byte /\ IsChar(<<a, r[1], r[2], r[3]>>)
        BY <1>6, <3>3, Together, Zenon
      <4>2. r[1] \in Byte /\ r[2] \in Byte /\ r[3] \in Byte
        BY <4>1
      <4>3. r[2] \in Any8 /\ r[3] \in Any8 /\ \E S : Leads4(a, S) /\ r[1] \in S
        BY <4>1, <4>2, FourBytes, Zenon
      <4>4. QED
        BY <3>3, <4>3, Zenon
    <3>4. QED
      BY <2>3, <3>1, <3>2, <3>3
  <2>5. LeadingByte(a)
    <3>1. a \in 194 .. 223 \/ a \in 224 .. 239 \/ a \in 240 .. 244
      BY <2>4, RowRange, Zenon
    <3>2. QED
      BY <3>1, SMT DEF LeadingByte
  <2>6. QED
    BY <1>3, <1>4, <1>5, <2>4, <2>5, Zenon
<1>7. QED
  BY <1>1, <1>6 DEF d

-----------------------------------------------------------------------------
(* The invariant *)

\* The bytes p are the beginning of a code point: any bytes that are due
\* complete it.
Begins(p, d) ==
  /\ p \in Seq(Byte) /\ d \in Seq(SUBSET Byte) /\ d # << >>
  /\ \A r \in Seq(Byte) : AsDue(r, d) => IsChar(p \o r)

\* The string so far is UTF-8, and where a code point is under way it is one
\* with any of the bytes that are due.
StringSoFar ==
  /\ pc \in {"string", "escape", "hex", "pair"} => token_buffer \in Utf8Strings
  /\ pc = "continue" => \E s \in Utf8Strings, p \in Seq(Byte) :
                          token_buffer = s \o p /\ Begins(p, due)

\* The largest value of the digits that were read when n are due.
MostSoFar(n) == 65536 - 16 ^ n

\* A \u escape is worth less than 2^16 by the digits that are still due, and
\* comes first or after a high surrogate.
EscapeSoFar ==
  /\ pc = "hex" =>
       /\ high = NoHigh \/ high \in HighSurrogate
       /\ \E n \in 1 .. 4 : /\ due = [i \in 1 .. n |-> HexDigit]
                           /\ codepoint \in Nat /\ codepoint <= MostSoFar(n)
  /\ pc = "pair" => high \in HighSurrogate

\* Every string token is UTF-8.
StringTokensAreUtf8 ==
  \A i \in DOMAIN tokens : tokens[i].type = "value_string" => tokens[i].buffer \in Utf8Strings

LexerInv ==
  /\ token_buffer \in Seq(Byte)
  /\ number_type \in {"value_unsigned", "value_integer", "value_float"}
  /\ \E S : tokens \in Seq(S)
  /\ StringSoFar
  /\ EscapeSoFar
  /\ StringTokensAreUtf8

\* The empty text is UTF-8, and so is UTF-8 with one more code point.
LEMMA EmptyIsUtf8 == << >> \in Utf8Strings
BY EmptySeq DEF Utf8Strings, Closed

LEMMA OneMoreChar ==
  ASSUME NEW s \in Utf8Strings, NEW p \in Seq(Byte), IsChar(p)
  PROVE  s \o p \in Utf8Strings
<1>1. s \in Seq(Byte) /\ \A P \in SUBSET Seq(Byte) : Closed(P) => s \in P
  BY DEF Utf8Strings
<1>2. s \o p \in Seq(Byte)
  BY <1>1, ConcatProperties
<1>3. ASSUME NEW P \in SUBSET Seq(Byte), Closed(P)
      PROVE  s \o p \in P
  BY <1>1, <1>3 DEF Closed
<1>4. QED
  BY <1>2, <1>3 DEF Utf8Strings

\* A code point of one byte.
LEMMA OneByte ==
  ASSUME NEW c \in 0 .. 127
  PROVE  <<c>> \in Seq(Byte) /\ IsChar(<<c>>)
<1>1. c \in Byte
  BY SMT DEF Byte
<1>2. Spells(<<c>>, c) /\ c \in CodePoint
  BY SMT DEF Spells, CodePoint, Take1
<1>3. QED
  BY <1>1, <1>2 DEF IsChar

\* A leading byte begins a code point.
LEMMA LeadingByteBegins ==
  ASSUME NEW c, LeadingByte(c)
  PROVE  Begins(<<c>>, Continuations(c))
<1> DEFINE d == Continuations(c)
<1>1. c \in Byte /\ d \in Seq(SUBSET Byte) /\ Row(c, d)
  BY Rows
<1>2. \A r \in Seq(Byte) : AsDue(r, d) => IsChar(<<c>> \o r)
  BY AcceptedIsChar
<1> HIDE DEF d
<1>3. d # << >>
  <2>1. Len(d) # 0
    BY <1>1, SMT DEF Row
  <2>2. QED
    BY <2>1
<1>4. QED
  BY <1>1, <1>2, <1>3 DEF Begins, d

\* A byte that is due goes on with it, or completes it.
LEMMA ByteDue ==
  ASSUME NEW p, NEW d, Begins(p, d), NEW c, c \in d[1]
  PROVE  /\ Append(p, c) \in Seq(Byte)
         /\ Len(d) = 1 => IsChar(Append(p, c))
         /\ Len(d) # 1 => Begins(Append(p, c), Tail(d))
<1>1. /\ p \in Seq(Byte) /\ d \in Seq(SUBSET Byte) /\ d # << >>
      /\ \A r \in Seq(Byte) : AsDue(r, d) => IsChar(p \o r)
  BY DEF Begins
<1>2. Len(d) \in Nat /\ Len(d) >= 1 /\ d[1] \in SUBSET Byte
  BY <1>1
<1>3. c \in Byte
  BY <1>2
<1>4. Append(p, c) \in Seq(Byte) /\ Append(p, c) = p \o <<c>>
  BY <1>1, <1>3, AppendProperties, AppendIsConcat
<1>5. <<c>> \in Seq(Byte) /\ Len(<<c>>) = 1 /\ <<c>>[1] = c
  BY <1>3
<1>6. ASSUME Len(d) = 1
      PROVE  IsChar(Append(p, c))
  <2>1. AsDue(<<c>>, d)
    BY <1>5, <1>6 DEF AsDue
  <2>2. QED
    BY <1>1, <1>4, <1>5, <2>1
<1>7. ASSUME Len(d) # 1
      PROVE  Begins(Append(p, c), Tail(d))
  <2>1. /\ Tail(d) \in Seq(SUBSET Byte) /\ Len(Tail(d)) = Len(d) - 1
        /\ \A i \in 1 .. Len(Tail(d)) : Tail(d)[i] = d[i + 1]
    BY <1>1, HeadTailProperties
  <2>2. Tail(d) # << >>
    <3>1. Len(Tail(d)) # 0
      BY <1>2, <1>7, <2>1
    <3>2. Len(<< >>) = 0
      BY EmptySeq
    <3>3. QED
      BY <3>1, <3>2, Zenon
  <2>3. ASSUME NEW r \in Seq(Byte), AsDue(r, Tail(d))
        PROVE  IsChar(Append(p, c) \o r)
    <3> DEFINE more == <<c>> \o r
    <3>1. Len(r) = Len(d) - 1 /\ \A i \in 1 .. Len(d) - 1 : r[i] \in d[i + 1]
      BY <2>1, <2>3 DEF AsDue
    <3>2. /\ more \in Seq(Byte) /\ Len(more) = 1 + Len(r)
          /\ \A i \in 1 .. 1 + Len(r) : more[i] = IF i <= 1 THEN <<c>>[i] ELSE r[i - 1]
      BY <1>5, ConcatProperties
    <3>3. Append(p, c) \o r = p \o more
      BY <1>1, <1>4, <1>5, ConcatAssociative
    <3> HIDE DEF more
    <3>4. ASSUME NEW i \in 1 .. Len(d)
          PROVE  more[i] \in d[i]
      <4>1. CASE i = 1
        BY <1>2, <1>5, <3>1, <3>2, <4>1
      <4>2. CASE i # 1
        <5>1. i - 1 \in 1 .. Len(d) - 1 /\ (i - 1) + 1 = i
          BY <1>2, <4>2
        <5>2. r[i - 1] \in d[i]
          BY <3>1, <5>1
        <5>3. QED
          BY <1>2, <3>1, <3>2, <4>2, <5>2
      <4>3. QED
        BY <4>1, <4>2
    <3>5. AsDue(more, d)
      BY <1>2, <3>1, <3>2, <3>4 DEF AsDue
    <3>6. QED
      BY <1>1, <3>2, <3>3, <3>5
  <2>4. QED
    BY <1>4, <2>1, <2>2, <2>3 DEF Begins
<1>8. QED
  BY <1>4, <1>6, <1>7

-----------------------------------------------------------------------------
(* The steps *)

StringPlace == {"string", "escape", "hex", "pair", "continue"}
NumberType == {"value_unsigned", "value_integer", "value_float"}

\* A step that returns no token.
LEMMA MovesOn ==
  ASSUME LexerInv, tokens' = tokens, number_type' \in NumberType,
         token_buffer' \in Seq(Byte), StringSoFar', EscapeSoFar'
  PROVE  LexerInv'
BY DEF LexerInv, StringTokensAreUtf8, NumberType

\* A step that leads out of the string, or happens outside it.
LEMMA Elsewhere ==
  ASSUME pc' \notin StringPlace
  PROVE  StringSoFar' /\ EscapeSoFar'
BY DEF StringSoFar, EscapeSoFar, StringPlace

LEMMA GoesElsewhere ==
  ASSUME LexerInv, tokens' = tokens, number_type' = number_type,
         token_buffer' = token_buffer, pc' \notin StringPlace
  PROVE  LexerInv'
BY MovesOn, Elsewhere DEF LexerInv, NumberType

\* A step that returns a token.
LEMMA TokenReturned ==
  ASSUME LexerInv, NEW t, tokens' = Append(tokens, t), pc' = "returned",
         number_type' = number_type, token_buffer' = token_buffer,
         t.type = "value_string" => t.buffer \in Utf8Strings
  PROVE  LexerInv'
<1>1. PICK S : tokens \in Seq(S)
  BY DEF LexerInv
<1>2. tokens \in Seq(S \cup {t})
  BY <1>1
<1>3. /\ tokens' \in Seq(S \cup {t}) /\ Len(tokens') = Len(tokens) + 1
      /\ \A i \in 1 .. Len(tokens) + 1 :
           tokens'[i] = IF i <= Len(tokens) THEN tokens[i] ELSE t
  BY <1>2, AppendProperties
<1>4. StringTokensAreUtf8'
  <2> SUFFICES ASSUME NEW i \in 1 .. Len(tokens) + 1, tokens'[i].type = "value_string"
               PROVE  tokens'[i].buffer \in Utf8Strings
    BY <1>3 DEF StringTokensAreUtf8
  <2>1. CASE i <= Len(tokens)
    <3>1. i \in DOMAIN tokens /\ tokens'[i] = tokens[i]
      BY <1>2, <1>3, <2>1
    <3>2. QED
      BY <3>1 DEF LexerInv, StringTokensAreUtf8
  <2>2. CASE ~ (i <= Len(tokens))
    BY <1>3, <2>2
  <2>3. QED
    BY <2>1, <2>2
<1>5. StringSoFar' /\ EscapeSoFar'
  BY Elsewhere DEF StringPlace
<1>6. QED
  BY <1>3, <1>4, <1>5 DEF LexerInv

LEMMA Returns ==
  ASSUME LexerInv, NEW type, Return(type),
         type = "value_string" => token_buffer \in Utf8Strings
  PROVE  LexerInv'
<1> DEFINE t == [type |-> type, buffer |-> token_buffer, number |-> 0]
<1>1. t.type = "value_string" => t.buffer \in Utf8Strings
  OBVIOUS
<1>2. /\ tokens' = Append(tokens, t) /\ pc' = "returned"
      /\ number_type' = number_type /\ token_buffer' = token_buffer
  BY DEF Return
<1> HIDE DEF t
<1>3. QED
  BY <1>1, <1>2, TokenReturned

LEMMA Fails ==
  ASSUME LexerInv, Fail
  PROVE  LexerInv'
BY Returns DEF Fail

LEMMA LexInit == Init => LexerInv
<1> SUFFICES ASSUME Init
             PROVE  LexerInv
  OBVIOUS
<1>1. /\ tokens = << >> /\ token_buffer = << >> /\ pc = "returned"
      /\ number_type = "value_unsigned"
  BY DEF Init
<1>2. StringSoFar /\ EscapeSoFar
  BY <1>1 DEF StringSoFar, EscapeSoFar
<1>3. tokens \in Seq({}) /\ StringTokensAreUtf8
  BY <1>1 DEF StringTokensAreUtf8
<1>4. QED
  BY <1>1, <1>2, <1>3 DEF LexerInv

LEMMA ScanKeeps ==
  ASSUME LexerInv, Scan
  PROVE  LexerInv'
BY GoesElsewhere DEF Scan, StringPlace

\* scan() goes on outside the strings.
LEMMA WentTo ==
  ASSUME LexerInv, NEW l, l \notin StringPlace,
         GoTo(l) \/ \E d : GoToFor(l, d)
  PROVE  LexerInv'
BY GoesElsewhere DEF GoTo, GoToFor

LEMMA SkipBomKeeps ==
  ASSUME LexerInv, SkipBom
  PROVE  LexerInv'
<1>1. PICK c \in Offered :
        \/ GoToFor("skip", <<>>)
        \/ Fail
        \/ GoToFor("bom", Tail(due))
  BY DEF SkipBom
<1>2. "skip" \notin StringPlace /\ "bom" \notin StringPlace
  BY DEF StringPlace
<1>3. QED
  BY <1>1, <1>2, WentTo, Fails

\* What a token begins with: no string is among the tokens of one byte and
\* the literals.
LEMMA Tables ==
  /\ \A c \in DOMAIN Structural : Structural[c] # "value_string"
  /\ \A c \in DOMAIN Literal : Literal[c].type \in {"literal_true", "literal_false", "literal_null"}
<1>1. ASSUME NEW c \in {91, 93, 123, 125, 58, 44, 0, EOF}
      PROVE  Structural[c] # "value_string"
  BY <1>1 DEF Structural
<1>2. ASSUME NEW c \in {116, 102, 110}
      PROVE  Literal[c].type \in {"literal_true", "literal_false", "literal_null"}
  BY <1>2 DEF Literal
<1>3. DOMAIN Structural = {91, 93, 123, 125, 58, 44, 0, EOF} /\ DOMAIN Literal = {116, 102, 110}
  BY DEF Structural, Literal
<1>4. QED
  BY <1>1, <1>2, <1>3

LEMMA DispatchKeeps ==
  ASSUME LexerInv, NEW c, Dispatch(c)
  PROVE  LexerInv'
<1>1. \/ c \in DOMAIN Structural /\ Return(Structural[c])
      \/ c \in DOMAIN Literal /\ GoToFor(Literal[c].type, Literal[c].rest)
      \/ /\ pc' = "string" /\ token_buffer' = <<>>
         /\ number_type' = number_type /\ tokens' = tokens
      \/ /\ c \in Digit \cup {45}
         /\ pc' = NumberStart(c) /\ token_buffer' = <<c>>
         /\ number_type' = IF c = 45 THEN "value_integer" ELSE "value_unsigned"
         /\ tokens' = tokens
      \/ Fail
  BY DEF Dispatch
<1>2. CASE c \in DOMAIN Structural /\ Return(Structural[c])
  BY <1>2, Tables, Returns
<1>3. CASE c \in DOMAIN Literal /\ GoToFor(Literal[c].type, Literal[c].rest)
  <2>1. Literal[c].type \notin StringPlace
    BY <1>3, Tables DEF StringPlace
  <2>2. QED
    BY <1>3, <2>1, WentTo
<1>4. CASE /\ pc' = "string" /\ token_buffer' = <<>>
           /\ number_type' = number_type /\ tokens' = tokens
  <2>1. StringSoFar' /\ EscapeSoFar'
    BY <1>4, EmptyIsUtf8 DEF StringSoFar, EscapeSoFar
  <2>2. token_buffer' \in Seq(Byte)
    BY <1>4
  <2>3. QED
    BY <1>4, <2>1, <2>2, MovesOn DEF LexerInv, NumberType
<1>5. CASE /\ c \in Digit \cup {45}
           /\ pc' = NumberStart(c) /\ token_buffer' = <<c>>
           /\ number_type' = IF c = 45 THEN "value_integer" ELSE "value_unsigned"
           /\ tokens' = tokens
  <2>1. c \in Byte
    BY <1>5, SMT DEF Digit, Byte
  <2>2. pc' \notin StringPlace
    BY <1>5 DEF NumberStart, StringPlace
  <2>3. token_buffer' \in Seq(Byte) /\ number_type' \in NumberType
    BY <1>5, <2>1 DEF NumberType
  <2>4. QED
    BY <1>5, <2>2, <2>3, MovesOn, Elsewhere
<1>6. QED
  BY <1>1, <1>2, <1>3, <1>4, <1>5, Fails

LEMMA SkipWhitespaceKeeps ==
  ASSUME LexerInv, SkipWhitespace
  PROVE  LexerInv'
<1>1. PICK c \in Offered : GoTo("skip") \/ GoTo("comment") \/ Dispatch(c)
  BY DEF SkipWhitespace
<1>2. "skip" \notin StringPlace /\ "comment" \notin StringPlace
  BY DEF StringPlace
<1>3. QED
  BY <1>1, <1>2, WentTo, DispatchKeeps

LEMMA ScanCommentKeeps ==
  ASSUME LexerInv, ScanComment
  PROVE  LexerInv'
<1>1. PICK c \in Offered :
        GoTo("skip") \/ GoTo("line") \/ GoTo("block") \/ GoTo("star") \/ Fail
  BY DEF ScanComment, AfterStar
<1>2. {"skip", "line", "block", "star"} \cap StringPlace = {}
  BY DEF StringPlace
<1>3. QED
  BY <1>1, <1>2, WentTo, Fails

LEMMA ScanLiteralKeeps ==
  ASSUME LexerInv, ScanLiteral
  PROVE  LexerInv'
<1>1. pc \in {"literal_true", "literal_false", "literal_null"}
  BY Tables DEF ScanLiteral
<1>2. pc \notin StringPlace /\ pc # "value_string"
  BY <1>1 DEF StringPlace
<1>3. Fail \/ GoToFor(pc, Tail(due)) \/ Return(pc)
  BY DEF ScanLiteral
<1>4. QED
  BY <1>2, <1>3, WentTo, Returns, Fails

\* A code point is added to the string.
LEMMA CharAdded ==
  ASSUME LexerInv, token_buffer \in Utf8Strings, NEW p \in Seq(Byte), IsChar(p), Add(p, "string")
  PROVE  LexerInv'
<1>1. /\ pc' = "string" /\ token_buffer' = token_buffer \o p
      /\ number_type' = number_type /\ tokens' = tokens
  BY DEF Add
<1>2. token_buffer' \in Utf8Strings
  BY <1>1, OneMoreChar
<1>3. token_buffer' \in Seq(Byte)
  BY <1>2 DEF Utf8Strings
<1>4. StringSoFar' /\ EscapeSoFar'
  BY <1>1, <1>2 DEF StringSoFar, EscapeSoFar
<1>5. QED
  BY <1>1, <1>3, <1>4, MovesOn DEF LexerInv, NumberType

LEMMA ScanStringKeeps ==
  ASSUME LexerInv, ScanString
  PROVE  LexerInv'
<1>1. token_buffer \in Utf8Strings /\ token_buffer \in Seq(Byte)
  BY DEF LexerInv, StringSoFar, ScanString
<1>2. PICK c :
        \/ Fail
        \/ Return("value_string")
        \/ GoTo("escape")
        \/ PlainCharacter(c) /\ Add(<<c>>, "string")
        \/ /\ LeadingByte(c)
           /\ pc' = "continue" /\ due' = Continuations(c)
           /\ token_buffer' = Append(token_buffer, c)
           /\ number_type' = number_type /\ tokens' = tokens
  BY DEF ScanString
<1>3. CASE GoTo("escape")
  <2>1. /\ pc' = "escape" /\ tokens' = tokens /\ number_type' = number_type
        /\ token_buffer' = token_buffer
    BY <1>3 DEF GoTo
  <2>2. StringSoFar' /\ EscapeSoFar'
    BY <1>1, <2>1 DEF StringSoFar, EscapeSoFar
  <2>3. QED
    BY <1>1, <2>1, <2>2, MovesOn DEF LexerInv, NumberType
<1>4. CASE PlainCharacter(c) /\ Add(<<c>>, "string")
  <2>1. c \in 0 .. 127
    BY <1>4, SMT DEF PlainCharacter
  <2>2. QED
    BY <1>1, <1>4, <2>1, OneByte, CharAdded
<1>5. CASE /\ LeadingByte(c)
           /\ pc' = "continue" /\ due' = Continuations(c)
           /\ token_buffer' = Append(token_buffer, c)
           /\ number_type' = number_type /\ tokens' = tokens
  <2>1. Begins(<<c>>, due')
    BY <1>5, LeadingByteBegins
  <2>2. <<c>> \in Seq(Byte) /\ c \in Byte
    <3>1. <<c>> \in Seq(Byte)
      BY <2>1 DEF Begins
    <3>2. QED
      BY <3>1
  <2>3. token_buffer' = token_buffer \o <<c>> /\ token_buffer' \in Seq(Byte)
    BY <1>1, <1>5, <2>2, AppendProperties, AppendIsConcat
  <2>4. StringSoFar'
    BY <1>1, <1>5, <2>1, <2>2, <2>3 DEF StringSoFar
  <2>5. EscapeSoFar'
    BY <1>5 DEF EscapeSoFar
  <2>6. QED
    BY <1>5, <2>3, <2>4, <2>5, MovesOn DEF LexerInv, NumberType
<1>6. QED
  BY <1>1, <1>2, <1>3, <1>4, <1>5, Returns, Fails

LEMMA NextByteInRangeKeeps ==
  ASSUME LexerInv, NextByteInRange
  PROVE  LexerInv'
<1>1. PICK s \in Utf8Strings, p \in Seq(Byte) : token_buffer = s \o p /\ Begins(p, due)
  BY DEF LexerInv, StringSoFar, NextByteInRange
<1>2. PICK c :
        \/ Fail
        \/ /\ c \in due[1]
           /\ token_buffer' = Append(token_buffer, c)
           /\ due' = Tail(due)
           /\ pc' = IF Len(due) = 1 THEN "string" ELSE "continue"
           /\ number_type' = number_type /\ tokens' = tokens
  BY DEF NextByteInRange
<1>3. CASE /\ c \in due[1]
           /\ token_buffer' = Append(token_buffer, c)
           /\ due' = Tail(due)
           /\ pc' = IF Len(due) = 1 THEN "string" ELSE "continue"
           /\ number_type' = number_type /\ tokens' = tokens
  <2> DEFINE q == Append(p, c)
  <2>1. /\ q \in Seq(Byte)
        /\ Len(due) = 1 => IsChar(q)
        /\ Len(due) # 1 => Begins(q, due')
    BY <1>1, <1>3, ByteDue
  <2>2. c \in Byte /\ s \in Seq(Byte)
    <3>1. due \in Seq(SUBSET Byte) /\ due # << >>
      BY <1>1 DEF Begins
    <3>2. due[1] \in SUBSET Byte
      BY <3>1
    <3>3. QED
      BY <1>3, <3>2 DEF Utf8Strings
  <2>3. token_buffer' = s \o q
    <3>1. s \o p \in Seq(Byte) /\ <<c>> \in Seq(Byte)
      BY <1>1, <2>2, ConcatProperties
    <3>2. token_buffer' = (s \o p) \o <<c>> /\ q = p \o <<c>>
      BY <1>1, <1>3, <2>2, <3>1, AppendIsConcat
    <3>3. QED
      BY <1>1, <2>2, <3>1, <3>2, ConcatAssociative
  <2>4. token_buffer' \in Seq(Byte)
    BY <2>1, <2>2, <2>3, ConcatProperties
  <2> HIDE DEF q
  <2>5. StringSoFar'
    <3>1. CASE Len(due) = 1
      <4>1. token_buffer' \in Utf8Strings
        BY <2>1, <2>3, <3>1, OneMoreChar
      <4>2. QED
        BY <1>3, <3>1, <4>1 DEF StringSoFar
    <3>2. CASE Len(due) # 1
      BY <1>3, <2>1, <2>3, <3>2 DEF StringSoFar
    <3>3. QED
      BY <3>1, <3>2
  <2>6. EscapeSoFar'
    BY <1>3 DEF EscapeSoFar
  <2>7. QED
    BY <1>3, <2>4, <2>5, <2>6, MovesOn DEF LexerInv, NumberType
<1>4. QED
  BY <1>2, <1>3, Fails

\* get_codepoint begins in the string, or after the first half of a pair.
LEMMA CodepointBegins ==
  ASSUME LexerInv, token_buffer \in Utf8Strings, NEW h, BeginCodepoint(h),
         h = NoHigh \/ h \in HighSurrogate
  PROVE  LexerInv'
<1>1. /\ pc' = "hex" /\ due' = [i \in 1 .. 4 |-> HexDigit] /\ codepoint' = 0 /\ high' = h
      /\ number_type' = number_type /\ tokens' = tokens /\ token_buffer' = token_buffer
  BY DEF BeginCodepoint
<1>2. StringSoFar'
  BY <1>1 DEF StringSoFar
<1>3. codepoint' \in Nat /\ codepoint' <= MostSoFar(4) /\ 4 \in 1 .. 4
  BY <1>1, SMT DEF MostSoFar
<1>4. \E n \in 1 .. 4 : /\ due' = [i \in 1 .. n |-> HexDigit]
                        /\ codepoint' \in Nat /\ codepoint' <= MostSoFar(n)
  BY <1>1, <1>3, Zenon
<1>5. EscapeSoFar'
  BY <1>1, <1>4 DEF EscapeSoFar
<1>6. QED
  BY <1>1, <1>2, <1>5, MovesOn DEF LexerInv, NumberType

LEMMA ScanEscapeKeeps ==
  ASSUME LexerInv, ScanEscape
  PROVE  LexerInv'
<1>1. token_buffer \in Utf8Strings
  BY DEF LexerInv, StringSoFar, ScanEscape
<1>2. PICK c :
        \/ c \in DOMAIN Escape /\ Add(<<Escape[c]>>, "string")
        \/ BeginCodepoint(NoHigh)
        \/ Fail
  BY DEF ScanEscape
<1>3. CASE c \in DOMAIN Escape /\ Add(<<Escape[c]>>, "string")
  <2>1. Escape[c] \in 0 .. 127
    BY <1>3, SMT DEF Escape
  <2>2. QED
    BY <1>1, <1>3, <2>1, OneByte, CharAdded
<1>4. QED
  BY <1>1, <1>2, <1>3, CodepointBegins, Fails

LEMMA ScanPairKeeps ==
  ASSUME LexerInv, ScanPair
  PROVE  LexerInv'
<1>1. token_buffer \in Utf8Strings /\ high \in HighSurrogate
  BY DEF LexerInv, StringSoFar, EscapeSoFar, ScanPair
<1>2. GoToFor("pair", Tail(due)) \/ BeginCodepoint(high) \/ Fail
  BY DEF ScanPair
<1>3. CASE GoToFor("pair", Tail(due))
  <2>1. /\ pc' = "pair" /\ high' = high /\ tokens' = tokens /\ number_type' = number_type
        /\ token_buffer' = token_buffer
    BY <1>3 DEF GoToFor
  <2>2. StringSoFar' /\ EscapeSoFar'
    BY <1>1, <2>1 DEF StringSoFar, EscapeSoFar
  <2>3. QED
    BY <2>1, <2>2, MovesOn DEF LexerInv, NumberType
<1>4. QED
  BY <1>1, <1>2, <1>3, CodepointBegins, Fails

\* The escape of a code point is read to the end.
LEMMA EndCodepointKeeps ==
  ASSUME LexerInv, token_buffer \in Utf8Strings,
         high = NoHigh \/ high \in HighSurrogate,
         NEW last \in Nat, last <= MostSoFar(0), EndCodepoint(last)
  PROVE  LexerInv'
<1>1. ASSUME NEW u \in CodePoint, Add(Translated(u), "string")
      PROVE  LexerInv'
  <2>1. Translated(u) \in Seq(Byte) /\ Spells(Translated(u), u)
    BY TranslatedSpells
  <2>2. IsChar(Translated(u))
    BY <2>1 DEF IsChar
  <2>3. QED
    BY <1>1, <2>1, <2>2, CharAdded
<1>2. \/ /\ high # NoHigh /\ last \in LowSurrogate
         /\ Add(Translated(OfPair(high, last)), "string")
      \/ /\ last \in HighSurrogate
         /\ pc' = "pair" /\ high' = last
         /\ number_type' = number_type /\ tokens' = tokens /\ token_buffer' = token_buffer
      \/ last \notin Surrogate /\ Add(Translated(last), "string")
      \/ Fail
  BY Zenon DEF EndCodepoint, Surrogate
<1>3. CASE /\ high # NoHigh /\ last \in LowSurrogate
           /\ Add(Translated(OfPair(high, last)), "string")
  <2>1. OfPair(high, last) \in Take4
    <3>1. high \in HighSurrogate
      BY <1>3
    <3>2. /\ high \in Nat /\ 55296 <= high /\ high <= 56319
          /\ 56320 <= last /\ last <= 57343
      BY <1>3, <3>1, SMT DEF HighSurrogate, LowSurrogate
    <3>3. QED
      BY <3>2, SMT DEF Take4, OfPair
  <2>2. OfPair(high, last) \in CodePoint
    BY <2>1, Zenon DEF CodePoint
  <2>3. QED
    BY <1>1, <1>3, <2>2, Zenon
<1>4. CASE /\ last \in HighSurrogate
           /\ pc' = "pair" /\ high' = last
           /\ number_type' = number_type /\ tokens' = tokens /\ token_buffer' = token_buffer
  <2>1. StringSoFar' /\ EscapeSoFar'
    BY <1>4 DEF StringSoFar, EscapeSoFar
  <2>2. QED
    BY <1>4, <2>1, MovesOn DEF LexerInv, NumberType
<1>5. CASE last \notin Surrogate /\ Add(Translated(last), "string")
  <2>1. last \in Take1 \/ last \in Take2 \/ last \in Take3
    BY <1>5, SMT DEF Take1, Take2, Take3, MostSoFar
  <2>2. last \in CodePoint
    BY <2>1 DEF CodePoint
  <2>3. QED
    BY <1>1, <1>5, <2>2, Zenon
<1>6. QED
  BY <1>2, <1>3, <1>4, <1>5, Fails, Zenon

\* A hexadecimal digit is worth at most 15.
LEMMA HexValue ==
  ASSUME NEW c \in HexDigit
  PROVE  c - HexOffset(c) \in 0 .. 15
BY SMT DEF HexDigit, HexOffset

\* The next digit, when n are due.
LEMMA OneMoreDigit ==
  ASSUME NEW n \in 1 .. 4, NEW k \in 0 .. 15,
         NEW sum \in Nat, sum <= MostSoFar(n)
  PROVE  /\ sum + k * 16 ^ (n - 1) \in Nat
         /\ sum + k * 16 ^ (n - 1) <= MostSoFar(n - 1)
<1>1. CASE n = 1
  <2>1. n - 1 = 0
    BY <1>1
  <2>2. 16 ^ (n - 1) = 16 ^ 0
    BY <2>1, Zenon
  <2>3. 16 ^ 0 = 1
    BY SMT
  <2>4. sum <= MostSoFar(1) /\ MostSoFar(n - 1) = MostSoFar(0)
    BY <1>1, <2>1, Zenon
  <2>5. /\ sum + k * 1 \in Nat
        /\ sum + k * 1 <= MostSoFar(0)
    BY <2>4, SMT DEF MostSoFar
  <2>6. QED
    BY <2>2, <2>3, <2>4, <2>5, SMT
<1>2. CASE n = 2
  <2>1. n - 1 = 1
    BY <1>2
  <2>2. 16 ^ (n - 1) = 16 ^ 1
    BY <2>1, Zenon
  <2>3. 16 ^ 1 = 16
    BY SMT
  <2>4. sum <= MostSoFar(2) /\ MostSoFar(n - 1) = MostSoFar(1)
    BY <1>2, <2>1, Zenon
  <2>5. /\ sum + k * 16 \in Nat
        /\ sum + k * 16 <= MostSoFar(1)
    BY <2>4, SMT DEF MostSoFar
  <2>6. QED
    BY <2>2, <2>3, <2>4, <2>5, SMT
<1>3. CASE n = 3
  <2>1. n - 1 = 2
    BY <1>3
  <2>2. 16 ^ (n - 1) = 16 ^ 2
    BY <2>1, Zenon
  <2>3. 16 ^ 2 = 256
    BY SMT
  <2>4. sum <= MostSoFar(3) /\ MostSoFar(n - 1) = MostSoFar(2)
    BY <1>3, <2>1, Zenon
  <2>5. /\ sum + k * 256 \in Nat
        /\ sum + k * 256 <= MostSoFar(2)
    BY <2>4, SMT DEF MostSoFar
  <2>6. QED
    BY <2>2, <2>3, <2>4, <2>5, SMT
<1>4. CASE n = 4
  <2>1. n - 1 = 3
    BY <1>4
  <2>2. 16 ^ (n - 1) = 16 ^ 3
    BY <2>1, Zenon
  <2>3. 16 ^ 3 = 4096
    BY SMT
  <2>4. sum <= MostSoFar(4) /\ MostSoFar(n - 1) = MostSoFar(3)
    BY <1>4, <2>1, Zenon
  <2>5. /\ sum + k * 4096 \in Nat
        /\ sum + k * 4096 <= MostSoFar(3)
    BY <2>4, SMT DEF MostSoFar
  <2>6. QED
    BY <2>2, <2>3, <2>4, <2>5, SMT
<1>5. QED
  BY <1>1, <1>2, <1>3, <1>4

LEMMA GetCodepointKeeps ==
  ASSUME LexerInv, GetCodepoint
  PROVE  LexerInv'
<1>1. token_buffer \in Utf8Strings /\ (high = NoHigh \/ high \in HighSurrogate)
  BY DEF LexerInv, StringSoFar, EscapeSoFar, GetCodepoint
<1>2. PICK n \in 1 .. 4 : /\ due = [i \in 1 .. n |-> HexDigit]
                          /\ codepoint \in Nat /\ codepoint <= MostSoFar(n)
  BY DEF LexerInv, EscapeSoFar, GetCodepoint
<1>3. Len(due) = n /\ due[1] = HexDigit
  BY <1>2
<1> DEFINE worth(c) == codepoint + (c - HexOffset(c)) * 16 ^ (n - 1)
<1>4. PICK c :
        \/ Fail
        \/ c \in HexDigit /\ n = 1 /\ EndCodepoint(worth(c))
        \/ /\ c \in HexDigit /\ n # 1
           /\ codepoint' = worth(c) /\ due' = Tail(due) /\ pc' = "hex" /\ high' = high
           /\ number_type' = number_type /\ tokens' = tokens /\ token_buffer' = token_buffer
  BY <1>3, Zenon DEF GetCodepoint
<1>5. ASSUME c \in HexDigit
      PROVE  worth(c) \in Nat /\ worth(c) <= MostSoFar(n - 1)
  BY <1>2, <1>5, HexValue, OneMoreDigit, Zenon
<1> HIDE DEF worth
<1>6. CASE c \in HexDigit /\ n = 1 /\ EndCodepoint(worth(c))
  <2>1. n - 1 = 0
    BY <1>6
  <2>2. QED
    BY <1>1, <1>5, <1>6, <2>1, EndCodepointKeeps, Zenon
<1>7. CASE /\ c \in HexDigit /\ n # 1
           /\ codepoint' = worth(c) /\ due' = Tail(due) /\ pc' = "hex" /\ high' = high
           /\ number_type' = number_type /\ tokens' = tokens /\ token_buffer' = token_buffer
  <2>1. n - 1 \in 1 .. 4 /\ due' = [i \in 1 .. n - 1 |-> HexDigit]
    BY <1>2, <1>7
  <2>2. \E m \in 1 .. 4 : /\ due' = [i \in 1 .. m |-> HexDigit]
                          /\ codepoint' \in Nat /\ codepoint' <= MostSoFar(m)
    BY <1>5, <1>7, <2>1, Zenon
  <2>3. StringSoFar' /\ EscapeSoFar'
    BY <1>1, <1>7, <2>2 DEF StringSoFar, EscapeSoFar
  <2>4. QED
    BY <1>7, <2>3, MovesOn DEF LexerInv, NumberType
<1>8. QED
  BY <1>4, <1>6, <1>7, Fails, Zenon

\* The states of the automaton are no places in a string, and its arcs are on
\* bytes and lead to its states.
LEMMA ArcsStay ==
  ASSUME NEW state \in NumberState, NEW arc \in Arcs(state)
  PROVE  arc[1] \subseteq Byte /\ arc[2] \in NumberState
<1>1. \E S \in {{48}, 49 .. 57, {46}, Exponent, Digit, {43, 45}}, t \in NumberState :
        arc = <<S, t>>
  BY DEF Arcs, NumberState
<1>2. QED
  BY <1>1, SMT DEF Byte, Exponent, Digit

LEMMA ScanNumberKeeps ==
  ASSUME LexerInv, ScanNumber
  PROVE  LexerInv'
<1>1. pc \in NumberState /\ NumberState \cap StringPlace = {}
  BY DEF ScanNumber, NumberState, StringPlace
<1>2. PICK c :
        \/ \E arc \in Arcs(pc) :
             /\ c \in arc[1] /\ pc' = arc[2]
             /\ token_buffer' = Append(token_buffer, c)
             /\ number_type' = IF pc' \in {"decimal1", "exponent"} THEN "value_float"
                               ELSE number_type
             /\ tokens' = tokens
        \/ NumberDone
        \/ Fail
  BY DEF ScanNumber
<1>3. ASSUME NEW arc \in Arcs(pc), c \in arc[1], pc' = arc[2],
             token_buffer' = Append(token_buffer, c),
             number_type' = IF pc' \in {"decimal1", "exponent"} THEN "value_float"
                            ELSE number_type,
             tokens' = tokens
      PROVE  LexerInv'
  <2>1. c \in Byte /\ pc' \notin StringPlace
    BY <1>1, <1>3, ArcsStay
  <2>2. token_buffer' \in Seq(Byte) /\ number_type' \in NumberType
    BY <1>3, <2>1 DEF LexerInv, NumberType
  <2>3. QED
    BY <1>3, <2>1, <2>2, MovesOn, Elsewhere
<1>4. CASE NumberDone
  <2> DEFINE t == [type   |-> IF Fits THEN number_type ELSE "value_float",
                   buffer |-> token_buffer,
                   number |-> IF Fits THEN Converted ELSE 0]
  <2>1. /\ tokens' = Append(tokens, t) /\ pc' = "returned"
        /\ number_type' = number_type /\ token_buffer' = token_buffer
    BY <1>4 DEF NumberDone
  <2>2. t.type # "value_string"
    BY DEF LexerInv
  <2> HIDE DEF t
  <2>3. QED
    BY <2>1, <2>2, TokenReturned
<1>5. QED
  BY <1>2, <1>3, <1>4, Fails

LEMMA LexerStepInv == LexerInv /\ [Next]_vars => LexerInv'
<1>1. ASSUME LexerInv, Next
      PROVE  LexerInv'
  BY <1>1, ScanKeeps, SkipBomKeeps, SkipWhitespaceKeeps, ScanCommentKeeps, ScanLiteralKeeps,
     ScanStringKeeps, NextByteInRangeKeeps, ScanEscapeKeeps, GetCodepointKeeps, ScanPairKeeps,
     ScanNumberKeeps, Zenon DEF Next
<1>2. ASSUME LexerInv, UNCHANGED vars
      PROVE  LexerInv'
  BY <1>2 DEF vars, scanner, LexerInv, StringSoFar, EscapeSoFar, StringTokensAreUtf8
<1>3. QED
  BY <1>1, <1>2

-----------------------------------------------------------------------------
(* The theorems *)

\* The inductive invariant holds for every input.
THEOREM LexerInvariant == Spec => []LexerInv
<1>1. QED
  BY LexInit, LexerStepInv, PTL DEF Spec

\* Every string that scan() returns is UTF-8, whatever bytes and escapes it
\* was read from: no surrogate, no overlong form, no half of a code point.
THEOREM StringsAreUtf8 == Spec => []StringTokensAreUtf8
<1>1. LexerInv => StringTokensAreUtf8
  BY DEF LexerInv
<1>2. QED
  BY <1>1, LexerInvariant, PTL

==============================================================================
