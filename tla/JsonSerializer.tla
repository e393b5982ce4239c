--------------------------- MODULE JsonSerializer ---------------------------
(***************************************************************************)
(* class serializer of json.hpp: the text dump() writes for a value.       *)
(*                                                                         *)
(* A value is a function with one field, named after its value_t:          *)
(*   [null |-> TRUE]      [boolean |-> b]     [discarded |-> TRUE]         *)
(*   [unsigned |-> n]     [integer |-> n]     [float |-> f]                *)
(*   [string |-> bytes]   [array |-> values]                               *)
(*   [object |-> function from keys (strings of bytes) to values]          *)
(*   [binary |-> [bytes |-> bytes, subtype |-> n or NoSubtype]]            *)
(* A float f is Infinite or the digits and the decimal exponent Grisu2     *)
(* finds for it, [minus, digits, exponent]: the value digits * 10^exponent.*)
(*                                                                         *)
(* The text is written through string_buffer, of StringBuffer bytes, and   *)
(* indented out of indent_string, of IndentString characters at first.     *)
(* A write or a read past the end of one is `overrun`, undefined behaviour.*)
(***************************************************************************)
EXTENDS JsonValue

CONSTANTS StringBuffer, IndentString

ASSUME BufferAssumption == StringBuffer \in Nat /\ IndentString \in Nat \ {0}

NoSubtype == -1
Infinite == [infinite |-> TRUE]

-----------------------------------------------------------------------------
(* decode: Hoehrmann's automaton.  A state is a number as in the table,    *)
(* UTF8_ACCEPT and UTF8_REJECT the two it is asked about.                  *)
UTF8_ACCEPT == 0
UTF8_REJECT == 1

\* The first 256 entries of utf8d: the class of a byte.
ByteClass(b) ==
  CASE b < 128 -> 0
    [] b \in 128 .. 143 -> 1
    [] b \in 144 .. 159 -> 9
    [] b \in 160 .. 191 -> 7
    [] b \in 192 .. 193 \cup 245 .. 255 -> 8
    [] b \in 194 .. 223 -> 2
    [] b = 224 -> 10
    [] b = 237 -> 4
    [] b \in 225 .. 239 \ {237} -> 3
    [] b = 240 -> 11
    [] b \in 241 .. 243 -> 6
    [] b = 244 -> 5

\* The rest of utf8d: the rows of UTF8_ACCEPT and of the seven states inside
\* a code point, each with the classes it goes on from and where it goes.
FirstState(class) == <<0, 1, 2, 3, 5, 8, 7, 1, 1, 1, 4, 6>>[class + 1]
InnerRow(state) ==
  CASE state = 2 -> [classes |-> {1, 7, 9}, next |-> 0]
    [] state = 3 -> [classes |-> {1, 7, 9}, next |-> 2]
    [] state = 4 -> [classes |-> {7}, next |-> 2]
    [] state = 5 -> [classes |-> {1, 9}, next |-> 2]
    [] state = 6 -> [classes |-> {7, 9}, next |-> 3]
    [] state = 7 -> [classes |-> {1, 7, 9}, next |-> 3]
    [] state = 8 -> [classes |-> {1}, next |-> 3]

Decode(state, codepoint, byte) ==
  LET class == ByteClass(byte) IN
  IF state = UTF8_ACCEPT
  THEN [state |-> FirstState(class),
        codepoint |-> IF class <= 8 THEN byte % 2 ^ (8 - class) ELSE 0]
  ELSE [state |-> IF class \in InnerRow(state).classes
                  THEN InnerRow(state).next ELSE UTF8_REJECT,
        codepoint |-> codepoint * 64 + (byte % 64)]

-----------------------------------------------------------------------------
(* dump_escaped.  `buffer` is string_buffer[0 .. bytes - 1], `accepted`    *)
(* bytes_after_last_accept, `undumped` undumped_chars, `out` what was      *)
(* written, `thrown` that type_error 316 left the function.                *)
HexDigits(n) ==
  [i \in 1 .. 4 |-> LET d == (n \div 16 ^ (4 - i)) % 16
                    IN  IF d < 10 THEN 48 + d ELSE 87 + d]
Unicode(n) == <<92, 117>> \o HexDigits(n)

\* What an accepted code point puts into the buffer; `byte` is its last byte.
ShortEscape == 8 :> 98 @@ 9 :> 116 @@ 10 :> 110 @@ 12 :> 102 @@ 13 :> 114
               @@ 34 :> 34 @@ 92 :> 92
EscapeOf(codepoint, ensure_ascii, byte) ==
  CASE codepoint \in DOMAIN ShortEscape -> <<92, ShortEscape[codepoint]>>
    [] codepoint \notin DOMAIN ShortEscape
       /\ (codepoint <= 31 \/ (ensure_ascii /\ codepoint >= 127)) ->
         IF codepoint <= 65535 THEN Unicode(codepoint)
         ELSE Unicode(55232 + codepoint \div 1024) \o Unicode(56320 + (codepoint % 1024))
    [] OTHER -> <<byte>>

Replacement(ensure_ascii) ==
  IF ensure_ascii THEN Unicode(65533) ELSE <<239, 191, 189>>

\* string_buffer after more bytes; snprintf, which writes the escapes, ends
\* them with a null byte.
Put(d, more) ==
  [d EXCEPT !.buffer = @ \o more,
            !.overrun = @ \/ Len(d.buffer) + Len(more) > StringBuffer]
Print0(d, more) ==
  [Put(d, more) EXCEPT
     !.overrun = @ \/ (Len(more) > 2 /\ Len(d.buffer) + Len(more) = StringBuffer)]
Flush(d) ==
  LET full == StringBuffer - Len(d.buffer) < 13
      e == IF full THEN [d EXCEPT !.out = @ \o d.buffer, !.buffer = <<>>] ELSE d
  IN  [e EXCEPT !.accepted = Len(e.buffer), !.undumped = 0]

RejectKeeps(d, handler, ensure_ascii) ==
  IF handler = "strict" THEN [d EXCEPT !.thrown = TRUE]
  ELSE IF handler = "replace"
  THEN Flush(Put([d EXCEPT !.state = UTF8_ACCEPT], Replacement(ensure_ascii)))
  ELSE [d EXCEPT !.undumped = 0, !.state = UTF8_ACCEPT]
\* An invalid byte: give up, or drop what the code point wrote so far.
Reject(d, handler, ensure_ascii) ==
  LET cut == [d EXCEPT !.buffer = SubSeq(@, 1, d.accepted), !.undumped = 0,
                       !.state = UTF8_ACCEPT]
  IN  IF handler = "strict" THEN [d EXCEPT !.thrown = TRUE]
      ELSE IF handler = "replace" THEN Flush(Put(cut, Replacement(ensure_ascii)))
      ELSE cut

DumpDecoded(d, handler, ensure_ascii, byte) ==
  CASE d.state = UTF8_ACCEPT -> Flush(Print0(d, EscapeOf(d.codepoint, ensure_ascii, byte)))
    [] d.state = UTF8_REJECT -> Reject(d, handler, ensure_ascii)
    [] OTHER -> [(IF ensure_ascii THEN d ELSE Put(d, <<byte>>)) EXCEPT !.undumped = @ + 1]
DumpByte(d, handler, ensure_ascii, byte) ==
  LET Now(r) == [d EXCEPT !.state = r.state, !.codepoint = r.codepoint] IN
  DumpDecoded(Now(Decode(d.state, d.codepoint, byte)), handler, ensure_ascii, byte)

\* The loop's body; a byte that ended a code point too early is read again.
DumpNext(d, handler, ensure_ascii, byte) ==
  LET again == d.undumped > 0
               /\ Decode(d.state, d.codepoint, byte).state = UTF8_REJECT
      After(e) == IF again /\ ~e.thrown THEN DumpByte(e, handler, ensure_ascii, byte) ELSE e
  IN  IF d.thrown THEN d ELSE After(DumpByte(d, handler, ensure_ascii, byte))

\* After the last byte: the buffer, or what of it was accepted.
DumpEnd(d, handler, ensure_ascii) ==
  IF d.thrown THEN d
  ELSE IF d.state = UTF8_ACCEPT THEN [d EXCEPT !.out = @ \o d.buffer]
  ELSE IF handler = "strict" THEN [d EXCEPT !.thrown = TRUE]
  ELSE [d EXCEPT !.out = @ \o SubSeq(d.buffer, 1, d.accepted)
                 \o (IF handler = "replace" THEN Replacement(ensure_ascii) ELSE <<>>)]

DumpEscaped(s, handler, ensure_ascii) ==
  LET start == [state |-> UTF8_ACCEPT, codepoint |-> 0, buffer |-> <<>>, accepted |-> 0,
                undumped |-> 0, out |-> <<>>, thrown |-> FALSE, overrun |-> FALSE]
  IN  DumpEnd(FoldLeft(LAMBDA d, b : DumpNext(d, handler, ensure_ascii, b), start, s),
              handler, ensure_ascii)

-----------------------------------------------------------------------------
(* dump_integer: the digits two at a time from the right, as many as       *)
(* count_digits says; remove_sign, so that the least integer has one too.  *)
RECURSIVE CountDigits(_)
CountDigits(x) ==
  CASE x < 10 -> 1
    [] x \in 10 .. 99 -> 2
    [] x \in 100 .. 999 -> 3
    [] x \in 1000 .. 9999 -> 4
    [] OTHER -> 4 + CountDigits(x \div 10000)

RECURSIVE DigitsOf(_)
DigitsOf(x) ==
  IF x >= 100 THEN DigitsOf(x \div 100) \o <<48 + (x % 100) \div 10, 48 + (x % 10)>>
  ELSE IF x >= 10 THEN <<48 + x \div 10, 48 + (x % 10)>>
  ELSE <<48 + x>>

RemoveSign(x) == -(x + 1) + 1

\* The last n_chars bytes of number_buffer, which the digits filled.
DumpInteger(x) ==
  LET abs_value == IF x < 0 THEN RemoveSign(x) ELSE x
      digits == DigitsOf(abs_value)
      n == CountDigits(abs_value)
  IN  IF x = 0 THEN <<48>>
      ELSE (IF x < 0 THEN <<45>> ELSE <<>>)
           \o SubSeq(digits, Len(digits) - n + 1, Len(digits))

-----------------------------------------------------------------------------
(* to_chars and format_buffer: the digits and the exponent of a float, laid *)
(* out; -4 and 15 are kMinExp and kMaxExp of to_chars.                     *)
Zeros(n) == [i \in 1 .. n |-> 48]

AppendExponent(e) ==
  LET k == IF e < 0 THEN -e ELSE e IN
  (IF e < 0 THEN <<45>> ELSE <<43>>)
  \o (IF k < 100 THEN <<48 + k \div 10, 48 + (k % 10)>>
      ELSE <<48 + k \div 100, 48 + (k % 100) \div 10, 48 + (k % 10)>>)

FormatBuffer(digits, decimal_exponent, min_exp, max_exp) ==
  LET k == Len(digits)
      n == k + decimal_exponent
      From(i) == SubSeq(digits, i, k)
  IN  CASE k <= n /\ n <= max_exp -> digits \o Zeros(n - k) \o <<46, 48>>
        [] k > n /\ 0 < n /\ n <= max_exp -> SubSeq(digits, 1, n) \o <<46>> \o From(n + 1)
        [] min_exp < n /\ n <= 0 -> <<48, 46>> \o Zeros(-n) \o digits
        [] OTHER -> (IF k = 1 THEN digits ELSE <<digits[1], 46>> \o From(2))
                    \o <<101>> \o AppendExponent(n - 1)

ToChars(f) ==
  LET digits == DigitsOf(f.digits) IN
  (IF f.minus THEN <<45>> ELSE <<>>)
  \o (IF f.digits = 0 THEN <<48, 46, 48>>
      ELSE FormatBuffer(digits, f.exponent, -4, 15))

DumpFloat(f) == IF f = Infinite THEN <<110, 117, 108, 108>> ELSE ToChars(f)

-----------------------------------------------------------------------------
(* dump.  Its options `o`: pretty_print, ensure_ascii, indent_step,         *)
(* indent_char and the error handler.  What a call writes is a part: the    *)
(* text, and whether it threw or read past the end of indent_string.        *)
Text(bytes) == [text |-> bytes, thrown |-> FALSE, overrun |-> FALSE]
Parts(parts) ==
  [text |-> FlattenSeq([i \in DOMAIN parts |-> parts[i].text]),
   thrown |-> \E i \in DOMAIN parts : parts[i].thrown,
   overrun |-> \E i \in DOMAIN parts : parts[i].overrun]

DumpedString(s, o) ==
  LET Part(d) == [text |-> d.out, thrown |-> d.thrown, overrun |-> d.overrun] IN
  Part(DumpEscaped(s, o.handler, o.ensure_ascii))
Quoted(s, o) == Parts(<<Text(<<34>>), DumpedString(s, o), Text(<<34>>)>>)

\* The size of indent_string once the containers around an indentation of n
\* have each doubled it, filling up with blanks, where it was too short.
RECURSIVE IndentSize(_, _)
IndentSize(n, step) ==
  IF n <= 0 THEN IndentString
  ELSE LET before == IndentSize(n - step, step) IN
       IF before < n THEN 2 * before ELSE before
Indent(n, o) ==
  [text |-> [i \in 1 .. n |-> IF i <= IndentString THEN o.indent_char ELSE 32],
   thrown |-> FALSE,
   overrun |-> n > IndentSize(n, o.indent_step)]

\* The elements of a container, each after the indentation, with a comma and
\* a new line between them.
Elements(parts, open, close, current, o) ==
  LET new_indent == current + o.indent_step
      before == IF o.pretty_print THEN Indent(new_indent, o) ELSE Text(<<>>)
      between == IF o.pretty_print THEN Text(<<44, 10>>) ELSE Text(<<44>>)
      newline == IF o.pretty_print THEN Text(<<10>>) ELSE Text(<<>>)
      body == [i \in DOMAIN parts |->
                 Parts(<<before, parts[i], IF i = Len(parts) THEN newline ELSE between>>)]
  IN  IF parts = <<>> THEN Text(<<open, close>>)
      ELSE Parts(<<Text(<<open>>), newline, Parts(body),
                   IF o.pretty_print THEN Indent(current, o) ELSE Text(<<>>),
                   Text(<<close>>)>>)

Colon(o) == IF o.pretty_print THEN Text(<<58, 32>>) ELSE Text(<<58>>)

\* A binary value as the object {"bytes": [...], "subtype": ...}; its bytes
\* stay on one line.
DumpBinary(b, current, o) ==
  LET comma == IF o.pretty_print THEN <<44, 32>> ELSE <<44>>
      numbers == [i \in DOMAIN b.bytes |->
                    DumpInteger(b.bytes[i]) \o (IF i = Len(b.bytes) THEN <<>> ELSE comma)]
      subtype == IF b.subtype = NoSubtype THEN <<110, 117, 108, 108>>
                 ELSE DumpInteger(b.subtype)
  IN  Elements(<<Parts(<<Text(<<34, 98, 121, 116, 101, 115, 34>>), Colon(o),
                         Text(<<91>> \o FlattenSeq(numbers) \o <<93>>)>>),
                 Parts(<<Text(<<34, 115, 117, 98, 116, 121, 112, 101, 34>>), Colon(o),
                         Text(subtype)>>)>>, 123, 125, current, o)

RECURSIVE Dump(_, _, _)
Dump(value, current, o) ==
  LET t == TypeOf(value)
      new_indent == current + (IF o.pretty_print THEN o.indent_step ELSE 0)
  IN  CASE t = "object" ->
             LET keys == SortedKeys(value.object) IN
             Elements([i \in DOMAIN keys |->
                         Parts(<<Quoted(keys[i], o), Colon(o),
                                 Dump(value.object[keys[i]], new_indent, o)>>)],
                      123, 125, current, o)
        [] t = "array" ->
             Elements([i \in DOMAIN value.array |-> Dump(value.array[i], new_indent, o)],
                      91, 93, current, o)
        [] t = "string" -> Quoted(value.string, o)
        [] t = "binary" -> DumpBinary(value.binary, current, o)
        [] t = "boolean" -> Text(IF value.boolean THEN <<116, 114, 117, 101>>
                                 ELSE <<102, 97, 108, 115, 101>>)
        [] t \in {"integer", "unsigned"} -> Text(DumpInteger(value[t]))
        [] t = "float" -> Text(DumpFloat(value.float))
        [] t = "null" -> Text(<<110, 117, 108, 108>>)
        [] t = "discarded" ->
             Text(<<60, 100, 105, 115, 99, 97, 114, 100, 101, 100, 62>>)
=============================================================================
