------------------------------ MODULE JsonLexer ------------------------------
(***************************************************************************)
(* class lexer of json.hpp: scan() reads bytes through get() and unget()   *)
(* and returns one token after another.  Every step is one call of get(),  *)
(* with what scan() and the functions it calls do until they call it       *)
(* again; `pc` is where that call is.                                      *)
(*                                                                         *)
(* The input is chosen as it is read.  A source says what may come:        *)
(*   [bytes, first, length, buffer, calls]: any bytes of `bytes`, the      *)
(*      first one of `first`, at most `length` of them and about `buffer`  *)
(*      in one string, read by at most `calls` calls of scan();            *)
(*   [text, reads, sound]: that text, whose tokens should be `reads`.      *)
(* Both say whether the lexer was told to ignore comments.                 *)
(* The widths of the number types are MaxUnsigned and MinInteger, for      *)
(* 2^64 - 1 and -2^63.                                                     *)
(***************************************************************************)
EXTENDS JsonNumber, SequencesExt

CONSTANTS Sources,          \* the inputs to be read
          MaxUnsigned, MinInteger

ASSUME LexerAssumption == MaxUnsigned \in Nat /\ -MinInteger \in Nat

VARIABLES source,                  \* the input, fixed at the start
          read,                    \* the bytes taken from the input adapter
          pc,                      \* where scan() is, "returned" outside it
          due,                     \* the sets of bytes it asks for next, if any
          high,                    \* codepoint1 of a surrogate pair, or NoHigh
          codepoint,               \* the digits of a \u escape so far
          number_type,             \* scan_number's local
          tokens,                  \* what the calls returned
          begun,                   \* Len(read) when this call began, less an unget
          current, next_unget, position, token_string, token_buffer \* members

scanner == <<pc, due, high, codepoint, number_type, tokens, begun>>
vars == <<source, read, scanner, current, next_unget, position, token_string, token_buffer>>

EOF == -1
NoHigh == -1
White == {32, 9, 10, 13}

-----------------------------------------------------------------------------
(* get() and unget().                                                      *)
FromAdapter ==
  IF current = EOF /\ position.total > 0 THEN {EOF}
  ELSE IF "text" \in DOMAIN source
  THEN {IF Len(read) < Len(source.text) THEN source.text[Len(read) + 1] ELSE EOF}
  ELSE {EOF} \cup
       (IF Len(read) >= source.length THEN {}
        ELSE IF read = <<>> THEN source.first
        ELSE IF Len(token_buffer) >= source.buffer /\ pc = "string" THEN {34}
        ELSE source.bytes)

AfterGet(p, c) ==
  IF c = 10 THEN [total |-> p.total + 1, line |-> 0, lines |-> p.lines + 1]
  ELSE [total |-> p.total + 1, line |-> p.line + 1, lines |-> p.lines]

AfterUnget(p) ==
  [total |-> p.total - 1,
   line  |-> IF p.line = 0 THEN 0 ELSE p.line - 1,
   lines |-> IF p.line = 0 /\ p.lines > 0 THEN p.lines - 1 ELSE p.lines]

\* get() returns c.  `unget` says that the caller then calls unget(), `reset`
\* that it calls reset().
Get(c, unget, reset) ==
  /\ c \in IF next_unget THEN {current} ELSE FromAdapter
  /\ current' = c
  /\ read' = IF next_unget \/ c = EOF THEN read ELSE Append(read, c)
  /\ next_unget' = unget
  /\ position' = IF unget THEN AfterUnget(AfterGet(position, c)) ELSE AfterGet(position, c)
  /\ token_string' = IF reset THEN <<c>>
                     ELSE IF unget \/ c = EOF THEN token_string ELSE Append(token_string, c)
  /\ UNCHANGED source

Offered == IF next_unget THEN {current} ELSE FromAdapter

Keep(c) == Get(c, FALSE, FALSE)

\* scan() goes on at l; the call it is in changes nothing else.
GoTo(l) == pc' = l /\ UNCHANGED <<due, high, codepoint, number_type, tokens, begun, token_buffer>>
GoToFor(l, d) ==
  pc' = l /\ due' = d /\ UNCHANGED <<high, codepoint, number_type, tokens, begun, token_buffer>>

Return(type) ==
  /\ pc' = "returned"
  /\ tokens' = Append(tokens, [type |-> type, buffer |-> token_buffer, number |-> 0])
  /\ UNCHANGED <<due, high, codepoint, number_type, begun, token_buffer>>

Fail == Return("parse_error")

-----------------------------------------------------------------------------
(* scan: the byte order mark, white space, comments, the token's first     *)
(* byte.                                                                   *)
Exactly(bytes) == [i \in DOMAIN bytes |-> {bytes[i]}]
ByteOrderMark == Exactly(<<239, 187, 191>>)

SkipBom ==
  /\ pc = "bom"
  /\ \E c \in Offered :
       IF due = ByteOrderMark /\ c \notin due[1]
       THEN Get(c, TRUE, FALSE) /\ GoToFor("skip", <<>>)
       ELSE /\ Keep(c)
            /\ CASE c \notin due[1] -> Fail
                 [] c \in due[1] /\ Len(due) = 1 -> GoToFor("skip", <<>>)
                 [] OTHER -> GoToFor("bom", Tail(due))

Structural ==
  [c \in {91, 93, 123, 125, 58, 44, 0, EOF} |->
     CASE c = 91 -> "begin_array" [] c = 93 -> "end_array" [] c = 123 -> "begin_object"
       [] c = 125 -> "end_object" [] c = 58 -> "name_separator" [] c = 44 -> "value_separator"
       [] OTHER -> "end_of_input"]

Literal ==
  [c \in {116, 102, 110} |->
     CASE c = 116 -> [type |-> "literal_true", rest |-> Exactly(<<114, 117, 101>>)]
       [] c = 102 -> [type |-> "literal_false", rest |-> Exactly(<<97, 108, 115, 101>>)]
       [] c = 110 -> [type |-> "literal_null", rest |-> Exactly(<<117, 108, 108>>)]]

Dispatch(c) ==
  CASE c \in DOMAIN Structural -> Keep(c) /\ Return(Structural[c])
    [] c \in DOMAIN Literal -> Keep(c) /\ GoToFor(Literal[c].type, Literal[c].rest)
    [] c = 34 -> /\ Get(c, FALSE, TRUE)
                 /\ pc' = "string" /\ token_buffer' = <<>>
                 /\ UNCHANGED <<due, high, codepoint, number_type, tokens, begun>>
    [] c \in Digit \cup {45} ->
         /\ Get(c, FALSE, TRUE)
         /\ pc' = NumberStart(c) /\ token_buffer' = <<c>>
         /\ number_type' = IF c = 45 THEN "value_integer" ELSE "value_unsigned"
         /\ UNCHANGED <<due, high, codepoint, tokens, begun>>
    [] OTHER -> Keep(c) /\ Fail

SkipWhitespace ==
  /\ pc = "skip"
  /\ \E c \in Offered :
       CASE c \in White -> Keep(c) /\ GoTo("skip")
         [] c = 47 /\ source.ignore_comments -> Keep(c) /\ GoTo("comment")
         [] OTHER -> Dispatch(c)

\* What ends a // comment.
EndsLine(c) == c \in {10, 13, EOF, 0}
\* What follows an asterisk is put back unless it ends the comment.
AfterStarAgain(c) ==
  IF c = 47 THEN Keep(c) /\ GoTo("skip") ELSE Get(c, TRUE, FALSE) /\ GoTo("star")
AfterStar(c) ==
  IF c = 47 THEN Keep(c) /\ GoTo("skip") ELSE Get(c, TRUE, FALSE) /\ GoTo("block")

\* scan_comment.
ScanComment ==
  /\ pc \in {"comment", "line", "block", "star"}
  /\ \E c \in Offered :
       CASE pc = "comment" ->
              Keep(c) /\ (IF c = 47 THEN GoTo("line")
                          ELSE IF c = 42 THEN GoTo("block") ELSE Fail)
         [] pc = "line" ->
              Keep(c) /\ (IF EndsLine(c) THEN GoTo("skip") ELSE GoTo("line"))
         [] pc = "block" ->
              Keep(c) /\ (IF c \in {EOF, 0} THEN Fail
                          ELSE IF c = 42 THEN GoTo("star") ELSE GoTo("block"))
         [] pc = "star" -> AfterStar(c)

\* char_traits<char>::to_char_type: what an input adapter gives that is no byte
\* loses its high bits.
ToCharType(c) == c % 256

\* scan_literal compares characters, where the others compare what get() gives.
ScanLiteral ==
  /\ pc \in {Literal[c].type : c \in DOMAIN Literal}
  /\ \E c \in Offered :
       /\ Keep(c)
       /\ IF ToCharType(c) \notin due[1] THEN Fail
          ELSE IF Len(due) > 1 THEN GoToFor(pc, Tail(due))
          ELSE Return(pc)

-----------------------------------------------------------------------------
(* scan_string.                                                            *)
Add(bytes, l) ==
  /\ pc' = l /\ token_buffer' = token_buffer \o bytes
  /\ UNCHANGED <<due, high, codepoint, number_type, tokens, begun>>

\* The ranges of the bytes that may follow a leading byte.
Any8 == 128 .. 191
ContinuationsOfSurrogates(c) ==
  CASE c \in 194 .. 223 -> <<Any8>>
    [] c \in 224 .. 239 -> <<Any8, Any8>>
    [] OTHER -> <<Any8, Any8, Any8>>
Continuations(c) ==
  CASE c \in 194 .. 223 -> <<Any8>>
    [] c = 224 -> <<160 .. 191, Any8>>
    [] c \in 225 .. 236 \cup 238 .. 239 -> <<Any8, Any8>>
    [] c = 237 -> <<128 .. 159, Any8>>
    [] c = 240 -> <<144 .. 191, Any8, Any8>>
    [] c \in 241 .. 243 -> <<Any8, Any8, Any8>>
    [] c = 244 -> <<128 .. 143, Any8, Any8>>

\* Control characters must be escaped.
ControlCharacter(c) == c \in 0 .. 31
PlainCharacter(c) == c \in (32 .. 127) \ {34, 92}
LeadingByte(c) == c \in 194 .. 244

ScanString ==
  /\ pc = "string"
  /\ \E c \in Offered :
       /\ Keep(c)
       /\ CASE c = EOF -> Fail
            [] c = 34 -> Return("value_string")
            [] c = 92 -> GoTo("escape")
            [] ControlCharacter(c) -> Fail
            [] PlainCharacter(c) -> Add(<<c>>, "string")
            [] LeadingByte(c) ->
                 /\ pc' = "continue" /\ due' = Continuations(c)
                 /\ token_buffer' = Append(token_buffer, c)
                 /\ UNCHANGED <<high, codepoint, number_type, tokens, begun>>
            [] OTHER -> Fail

\* The loop of next_byte_in_range.
NextByteInRange ==
  /\ pc = "continue"
  /\ \E c \in Offered :
       /\ Keep(c)
       /\ IF c \notin due[1] THEN Fail
          ELSE /\ token_buffer' = Append(token_buffer, c)
               /\ due' = Tail(due)
               /\ pc' = IF Len(due) = 1 THEN "string" ELSE "continue"
               /\ UNCHANGED <<high, codepoint, number_type, tokens, begun>>

Escape ==
  [c \in {34, 92, 47, 98, 102, 110, 114, 116} |->
     CASE c = 98 -> 8 [] c = 102 -> 12 [] c = 110 -> 10 [] c = 114 -> 13 [] c = 116 -> 9
       [] OTHER -> c]

\* get_codepoint begins: four digits, from the most significant one on.
HexDigit == 48 .. 57 \cup 65 .. 70 \cup 97 .. 102
BeginCodepoint(h) ==
  /\ pc' = "hex" /\ due' = [i \in 1 .. 4 |-> HexDigit] /\ codepoint' = 0 /\ high' = h
  /\ UNCHANGED <<number_type, tokens, begun, token_buffer>>

ScanEscape ==
  /\ pc = "escape"
  /\ \E c \in Offered :
       /\ Keep(c)
       /\ CASE c \in DOMAIN Escape -> Add(<<Escape[c]>>, "string")
            [] c = 117 -> BeginCodepoint(NoHigh)
            [] OTHER -> Fail

HexOffset(c) ==
  CASE c \in 48 .. 57 -> 48
    [] c \in 65 .. 70 -> 55
    [] c \in 97 .. 102 -> 87

\* "translate codepoint into bytes".
TranslatedLate(c) ==
  CASE c < 128 -> <<c>>
    [] 128 <= c /\ c <= 2048 -> <<192 + c \div 64, 128 + (c % 64)>>
    [] 2049 <= c /\ c <= 65535 ->
         <<224 + c \div 4096, 128 + ((c \div 64) % 64), 128 + (c % 64)>>
    [] OTHER ->
         <<240 + c \div 262144, 128 + ((c \div 4096) % 64), 128 + ((c \div 64) % 64),
           128 + (c % 64)>>
Translated(c) ==
  CASE c < 128 -> <<c>>
    [] 128 <= c /\ c <= 2047 -> <<192 + c \div 64, 128 + (c % 64)>>
    [] 2048 <= c /\ c <= 65535 ->
         <<224 + c \div 4096, 128 + ((c \div 64) % 64), 128 + (c % 64)>>
    [] OTHER ->
         <<240 + c \div 262144, 128 + ((c \div 4096) % 64), 128 + ((c \div 64) % 64),
           128 + (c % 64)>>

HighSurrogate == 55296 .. 56319
LowSurrogate == 56320 .. 57343

\* "surrogates": the code point that the two halves make.
OfPair(h, l) == h * 1024 + l - 56613888

\* Both code points are read: what the escape stands for.
EndCodepoint(last) ==
  CASE high # NoHigh ->
         IF last \in LowSurrogate
         THEN Add(Translated(OfPair(high, last)), "string")
         ELSE Fail
    [] high = NoHigh /\ last \in HighSurrogate ->
         /\ pc' = "pair" /\ due' = Exactly(<<92, 117>>) /\ high' = last
         /\ UNCHANGED <<codepoint, number_type, tokens, begun, token_buffer>>
    [] high = NoHigh /\ last \in LowSurrogate -> Fail
    [] OTHER -> Add(Translated(last), "string")

GetCodepoint ==
  /\ pc = "hex"
  /\ \E c \in Offered :
       /\ Keep(c)
       /\ IF c \notin due[1] THEN Fail
          ELSE LET sum == codepoint + (c - HexOffset(c)) * 16 ^ (Len(due) - 1) IN
               IF Len(due) = 1 THEN EndCodepoint(sum)
               ELSE /\ codepoint' = sum /\ due' = Tail(due) /\ pc' = "hex"
                    /\ UNCHANGED <<high, number_type, tokens, begun, token_buffer>>

ScanPair ==
  /\ pc = "pair"
  /\ \E c \in Offered :
       /\ Keep(c)
       /\ IF c \notin due[1] THEN Fail
          ELSE IF Len(due) = 2 THEN GoToFor("pair", Tail(due))
          ELSE BeginCodepoint(high)

-----------------------------------------------------------------------------
(* scan_number, on the automaton of JsonNumber.                            *)
\* strtoull and strtoll, of the digits in token_buffer.
Decimal(digits) == FoldLeft(LAMBDA n, d : 10 * n + (d - 48), 0, digits)
Converted ==
  IF number_type = "value_integer" THEN -Decimal(Tail(token_buffer)) ELSE Decimal(token_buffer)
Fits == CASE number_type = "value_unsigned" -> Converted <= MaxUnsigned
          [] number_type = "value_integer" -> Converted >= MinInteger
          [] OTHER -> FALSE

\* scan_number_done: an integer that does not fit is a float.
NumberDone ==
  /\ pc' = "returned"
  /\ tokens' = Append(tokens, [type   |-> IF Fits THEN number_type ELSE "value_float",
                               buffer |-> token_buffer,
                               number |-> IF Fits THEN Converted ELSE 0])
  /\ UNCHANGED <<due, high, codepoint, number_type, begun, token_buffer>>

ScanNumber ==
  /\ pc \in NumberState
  /\ \E c \in Offered :
       LET next == {arc[2] : arc \in {a \in Arcs(pc) : c \in a[1]}} IN
       CASE next # {} ->
              /\ Keep(c)
              /\ pc' \in next
              /\ token_buffer' = Append(token_buffer, c)
              /\ number_type' = IF pc' \in {"decimal1", "exponent"} THEN "value_float"
                                ELSE number_type
              /\ UNCHANGED <<due, high, codepoint, tokens, begun>>
         [] next = {} /\ pc \in Complete -> Get(c, TRUE, FALSE) /\ NumberDone
         [] OTHER -> Keep(c) /\ Fail

-----------------------------------------------------------------------------
(* The parser calls scan() again until it gets the end of the input or an  *)
(* error.                                                                  *)
LastToken == Last(tokens)
Taken == IF next_unget /\ current # EOF THEN Len(read) - 1 ELSE Len(read)

Scan ==
  /\ pc = "returned"
  /\ tokens # <<>> =>
       /\ LastToken.type \notin {"end_of_input", "parse_error"}
       /\ "text" \notin DOMAIN source => Len(tokens) < source.calls
  /\ pc' = IF position.total = 0 THEN "bom" ELSE "skip"
  /\ due' = ByteOrderMark
  /\ begun' = Taken
  /\ UNCHANGED <<source, read, high, codepoint, number_type, tokens, current, next_unget,
                 position, token_string, token_buffer>>

Init ==
  /\ source \in Sources
  /\ read = <<>> /\ pc = "returned" /\ due = <<>> /\ high = NoHigh /\ codepoint = 0
  /\ number_type = "value_unsigned" /\ tokens = <<>> /\ begun = 0
  /\ current = EOF /\ next_unget = FALSE
  /\ position = [total |-> 0, line |-> 0, lines |-> 0]
  /\ token_string = <<>> /\ token_buffer = <<>>

Next ==
  \/ Scan
  \/ SkipBom
  \/ SkipWhitespace
  \/ ScanComment
  \/ ScanLiteral
  \/ ScanString
  \/ NextByteInRange
  \/ ScanEscape
  \/ GetCodepoint
  \/ ScanPair
  \/ ScanNumber

Spec == Init /\ [][Next]_vars
=============================================================================
