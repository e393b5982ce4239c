----------------------------- MODULE MCJsonParser -----------------------------
(* The parser on every short sequence of these tokens.                     *)
EXTENDS JsonDerivation

Token(type, value) == [type |-> type, value |-> value]

Brackets ==
  {Token(type, Null) : type \in {"begin_array", "end_array", "begin_object", "end_object",
                                 "name_separator", "value_separator"}}
Texts2 == Brackets \cup {Token("value_string", [string |-> k]) : k \in {1, 2}}
MCTokens ==
  Texts2 \cup {Token("value_float", [number |-> "infinite"]), Token("parse_error", Null)}

MCCalls ==
  [mode : {"dom", "accept"}, strict : BOOLEAN, exceptions : BOOLEAN]
    \cup [mode : {"callback"}, strict : {TRUE}, exceptions : {TRUE}]
MCMaxTokens ==
  [c \in MCCalls |-> IF c.mode = "callback" THEN 9
                     ELSE IF c.mode = "dom" /\ c.strict /\ ~c.exceptions THEN 9 ELSE 5]
=============================================================================
