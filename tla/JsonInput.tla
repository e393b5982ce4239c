------------------------------ MODULE JsonInput ------------------------------
(***************************************************************************)
(* The input adapters of json.hpp for texts of two- or four-byte           *)
(* characters: get_character hands the lexer the bytes that fill_buffer    *)
(* made of the next character.  A unit is the number a character has, a    *)
(* byte the int that get_character returns, which is no byte (it is above  *)
(* 255) where fill_buffer passes an unknown character on.                  *)
(***************************************************************************)
EXTENDS Integers, Sequences

Continue(c, shift) == 128 + ((c \div 2 ^ shift) % 64)

\* The one to four bytes of a code point, by the lengths 4985-5015 lists.
BytesOf(c) ==
  CASE c < 128 -> <<c>>
    [] c \in 128 .. 2047 -> <<192 + c \div 64, Continue(c, 0)>>
    [] c \in 2048 .. 65535 -> <<224 + c \div 4096, Continue(c, 6), Continue(c, 0)>>
    [] OTHER -> <<240 + ((c \div 2 ^ 18) % 8), Continue(c, 12), Continue(c, 6), Continue(c, 0)>>

\* UTF-32: what is no code point is passed on as it is.
FillBuffer32(units) ==
  [used |-> 1,
   bytes |-> IF units[1] <= 1114111 THEN BytesOf(units[1]) ELSE <<units[1]>>]

\* UTF-16: a unit in D800 .. DFFF takes the next one with it, whatever that
\* is; at the end of the text it is passed on as it is.
FillBuffer16(units) ==
  LET wc == units[1] IN
  IF wc \notin 55296 .. 57343 THEN [used |-> 1, bytes |-> BytesOf(wc)]
  ELSE IF Len(units) > 1
  THEN [used |-> 2,
        bytes |-> BytesOf(65536 + (wc % 1024) * 1024 + (units[2] % 1024))]
  ELSE [used |-> 1, bytes |-> <<wc>>]

FillBuffer(width, units) ==
  IF width = 2 THEN FillBuffer16(units) ELSE FillBuffer32(units)

\* All that get_character returns for a text, the end of the text aside.
RECURSIVE WideInput(_, _)
WideInput(width, units) ==
  IF units = <<>> THEN <<>>
  ELSE LET filled == FillBuffer(width, units) IN
       filled.bytes \o WideInput(width, SubSeq(units, filled.used + 1, Len(units)))
=============================================================================
