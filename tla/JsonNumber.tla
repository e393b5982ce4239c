------------------------------ MODULE JsonNumber ------------------------------
(***************************************************************************)
(* The automaton of lexer::scan_number of json.hpp, which the lexer goes   *)
(* through byte by byte and the UBJSON reader on the text of a             *)
(* high-precision number: an arc for every case that stays in it.  From    *)
(* the states in Complete any other byte ends the number, from the others  *)
(* it is an error.                                                         *)
(***************************************************************************)
EXTENDS Integers, Sequences

Digit == 48 .. 57
Exponent == {69, 101}

NumberStart(c) == CASE c = 45 -> "minus" [] c = 48 -> "zero" [] OTHER -> "any1"

Arcs(state) ==
  CASE state = "minus" -> {<<{48}, "zero">>, <<49 .. 57, "any1">>}
    [] state = "zero" -> {<<{46}, "decimal1">>, <<Exponent, "exponent">>}
    [] state = "any1" -> {<<Digit, "any1">>, <<{46}, "decimal1">>, <<Exponent, "exponent">>}
    [] state = "decimal1" -> {<<Digit, "decimal2">>}
    [] state = "decimal2" -> {<<Digit, "decimal2">>, <<Exponent, "exponent">>}
    [] state = "exponent" -> {<<{43, 45}, "sign">>, <<Digit, "any2">>}
    [] state = "sign" -> {<<Digit, "any2">>}
    [] state = "any2" -> {<<Digit, "any2">>}
NumberState == {"minus", "zero", "any1", "decimal1", "decimal2", "exponent", "sign", "any2"}
Complete == {"zero", "any1", "decimal2", "any2"}
=============================================================================
