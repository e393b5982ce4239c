------------------------------ MODULE JsonParser ------------------------------
(***************************************************************************)
(* class parser of json.hpp: one action per call of get_token and what the *)
(* code does with the token.  A token is a record of its type, the value   *)
(* the lexer holds for it and, in `tokens`, the answer `keep` the callback *)
(* gave for its event.  Which tokens come and what the callback answers is *)
(* open: every text and every callback is a behaviour.                     *)
(***************************************************************************)
EXTENDS JsonSax

CONSTANTS Tokens,     \* the tokens the lexer may return
          Calls,      \* how the parser is called: records of mode, strict, exceptions
          MaxTokens   \* bound, for each call: this many tokens, then only end_of_input

Modes == {"dom", "callback", "accept"}

ASSUME ParserAssumption ==
  /\ MaxTokens \in [Calls -> Nat]
  /\ Calls \subseteq [mode : Modes, strict : BOOLEAN, exceptions : BOOLEAN]

VARIABLES call,     \* the call
          pc,       \* where in sax_parse_internal the next token is read
          tokens,   \* the tokens read, with the callback's answers
          states,   \* the stack of the open containers: TRUE for an array
          handler,  \* the SAX handler (JsonSax)
          errored,  \* the handler was told of an error
          outcome   \* what the call gives, when pc = "done"
vars == <<call, pc, tokens, states, handler, errored, outcome>>

EndOfInput == [type |-> "end_of_input", value |-> Null]
ValueTypes == {"literal_true", "literal_false", "literal_null", "value_string",
               "value_integer", "value_unsigned", "value_float"}

\* A float token whose value is not finite.
Overflows(t) == t.type = "value_float" /\ t.value = [number |-> "infinite"]

\* get_token: the lexer's next token, and the callback's answer to its event.
Scanned(t, keep) ==
  /\ IF Len(tokens) < MaxTokens[call] /\ (tokens # <<>> => Last(tokens).type # "end_of_input")
     THEN t \in Tokens ELSE t = EndOfInput
  /\ call.mode # "callback" => keep
  /\ tokens' = Append(tokens, [type |-> t.type, value |-> t.value, keep |-> keep])
  /\ UNCHANGED call

\* The callback of this token's event is not asked: its answer is not open.
Unasked(keep) == keep

-----------------------------------------------------------------------------
(* The events, as the handler of the call takes them.                      *)
Deliver(dom, callback) ==
  handler' = CASE call.mode = "dom" -> dom
               [] call.mode = "callback" -> callback
               [] OTHER -> handler

Value(value, keep) ==
  /\ Last(handler.keeps) \/ Unasked(keep)
  /\ Deliver(DomValue(handler, value), CallbackValue(handler, value, keep))

Start(type, keep) ==
  Deliver(DomStart(handler, type), CallbackStart(handler, type, keep))

Key(k, keep) ==
  Deliver(DomKey(handler, k), CallbackKey(handler, k, keep))

End(type, keep) ==
  /\ (call.mode = "callback" => Last(handler.refs) # Nowhere) \/ Unasked(keep)
  /\ Deliver(DomEnd(handler), IF type = "array" THEN CallbackEndArray(handler, keep)
                              ELSE CallbackEndObject(handler, keep))

-----------------------------------------------------------------------------
(* How a call ends.                                                        *)

\* parse() and accept() when they return.
Returned(root, failed) ==
  IF call.mode = "accept" THEN [boolean |-> ~failed]
  ELSE IF failed THEN Discarded
  ELSE IF call.mode = "callback" /\ root = Discarded THEN Null ELSE root

Done(root, failed) ==
  /\ pc' = "done"
  /\ outcome' = Returned(root, failed)

\* A value is complete: go on in the container around it, or look for the end.
Complete(open) ==
  /\ states' = open
  /\ IF open # <<>> THEN pc' = "evaluate" /\ UNCHANGED outcome
     ELSE IF call.strict THEN pc' = "end" /\ UNCHANGED outcome
     ELSE Done(handler'.root, FALSE)

\* parse_error of the handler, and what the callers do with its FALSE: parse()
\* still looks for the end of the input.
ParseError ==
  /\ errored' = TRUE
  /\ UNCHANGED <<states, handler>>
  /\ IF call.mode # "accept" /\ call.exceptions
     THEN pc' = "done" /\ outcome' = [thrown |-> TRUE]
     ELSE IF call.mode # "accept" /\ call.strict /\ pc # "end"
     THEN pc' = "end" /\ UNCHANGED outcome
     ELSE Done(handler.root, TRUE)

GoTo(next) == pc' = next /\ UNCHANGED outcome

-----------------------------------------------------------------------------
(* sax_parse_internal.                                                     *)

\* `case begin_array` pushes to the stack when the next token is no ']'.
Opened == IF pc = "arrayFirst" THEN Append(states, TRUE) ELSE states
ValueExpected == pc \in {"value", "arrayFirst"}

ScalarValue(t, keep) ==
  /\ ValueExpected
  /\ t.type \in ValueTypes
  /\ ~Overflows(t)
  /\ Value(t.value, keep)
  /\ Complete(Opened)
  /\ UNCHANGED errored

BeginContainer(t, keep) ==
  /\ ValueExpected
  /\ states' = Opened
  /\ \/ t.type = "begin_object" /\ Start("object", keep) /\ GoTo("objectFirst")
     \/ t.type = "begin_array" /\ Start("array", keep) /\ GoTo("arrayFirst")
  /\ UNCHANGED errored

EndEmpty(t, keep) ==
  /\ \/ pc = "objectFirst" /\ t.type = "end_object" /\ End("object", keep)
     \/ pc = "arrayFirst" /\ t.type = "end_array" /\ End("array", keep)
  /\ Complete(states)
  /\ UNCHANGED errored

MemberKey(t, keep) ==
  /\ pc \in {"objectFirst", "key"}
  /\ t.type = "value_string"
  /\ Key(t.value.string, keep)
  /\ GoTo(IF pc = "key" THEN "separator" ELSE "firstSeparator")
  /\ UNCHANGED <<states, errored>>

Separator(t, keep) ==
  /\ pc \in {"firstSeparator", "separator"}
  /\ t.type = "name_separator" /\ Unasked(keep)
  /\ states' = IF pc = "firstSeparator" THEN Append(states, FALSE) ELSE states
  /\ GoTo("value")
  /\ UNCHANGED <<handler, errored>>

\* Mutant: after a comma in an object, as after its brace.
NextValueTrailing(t, keep) ==
  /\ pc = "evaluate"
  /\ t.type = "value_separator" /\ Unasked(keep)
  /\ GoTo(IF Last(states) THEN "value" ELSE "objectFirst")
  /\ UNCHANGED <<states, handler, errored>>

NextValue(t, keep) ==
  /\ pc = "evaluate"
  /\ t.type = "value_separator" /\ Unasked(keep)
  /\ GoTo(IF Last(states) THEN "value" ELSE "key")
  /\ UNCHANGED <<states, handler, errored>>

EndContainer(t, keep) ==
  /\ pc = "evaluate"
  /\ IF Last(states) THEN t.type = "end_array" /\ End("array", keep)
     ELSE t.type = "end_object" /\ End("object", keep)
  /\ Complete(Front(states))
  /\ UNCHANGED errored

Expected ==
  CASE pc = "value" -> ValueTypes \cup {"begin_object", "begin_array"}
    [] pc = "arrayFirst" -> ValueTypes \cup {"begin_object", "begin_array", "end_array"}
    [] pc = "objectFirst" -> {"end_object", "value_string"}
    [] pc = "key" -> {"value_string"}
    [] pc \in {"firstSeparator", "separator"} -> {"name_separator"}
    [] pc = "evaluate" -> {"value_separator", IF Last(states) THEN "end_array" ELSE "end_object"}
    [] OTHER -> {"end_of_input"}

Unexpected(t, keep) ==
  /\ pc # "done"
  /\ t.type \in Expected => ValueExpected /\ Overflows(t)
  /\ Unasked(keep)
  /\ ParseError

\* parse() and sax_parse(), strict: the input must be completely read.
EndReached(t, keep) ==
  /\ pc = "end"
  /\ t.type = "end_of_input" /\ Unasked(keep)
  /\ Done(handler.root, errored)
  /\ UNCHANGED <<states, handler, errored>>

Init ==
  /\ call \in Calls
  /\ pc = "value"
  /\ tokens = <<>> /\ states = <<>>
  /\ handler = Handler
  /\ errored = FALSE
  /\ outcome = [none |-> TRUE]

Next ==
  \E t \in Tokens \cup {EndOfInput}, keep \in BOOLEAN :
    /\ Scanned(t, keep)
    /\ \/ ScalarValue(t, keep) \/ BeginContainer(t, keep) \/ EndEmpty(t, keep)
       \/ MemberKey(t, keep) \/ Separator(t, keep) \/ NextValue(t, keep)
       \/ EndContainer(t, keep) \/ Unexpected(t, keep) \/ EndReached(t, keep)

Spec == Init /\ [][Next]_vars

\* The tokens up to the end of the input, which is none of the text's.
TextRead == IF tokens # <<>> /\ Last(tokens).type = "end_of_input" THEN Front(tokens) ELSE tokens
Ended == TextRead # tokens
Succeeded == pc = "done" /\ ~errored
=============================================================================
