----------------------------- MODULE JsonPointer -----------------------------
(***************************************************************************)
(* class json_pointer of json.hpp and the access to a value by one: the    *)
(* operator[] that creates what is missing, at() that checks, contains(),  *)
(* flatten() and unflatten().                                              *)
(*                                                                         *)
(* A pointer is the sequence of its reference tokens.  Texts, tokens and   *)
(* keys are sequences of bytes.  A result is [throws |-> exception, ...]   *)
(* when the code throws.  A walk along a pointer gives the value, with     *)
(* what it created even when it then throws, and the place it led to.      *)
(***************************************************************************)
EXTENDS JsonValue

CONSTANTS SizeMax,     \* the largest size_type and unsigned long long
          MaxElements  \* what a vector can hold

ASSUME SizeAssumption == SizeMax \in Nat /\ MaxElements \in 0 .. SizeMax

Slash == 47
Tilde == 126
Zero == <<48>>
Dash == <<45>>        \* the token "-": the index past the end
Digit(byte) == byte \in 48 .. 57

Throws(exception) == [throws |-> exception]
Threw(result) == "throws" \in DOMAIN result
Then(result, Next(_)) == IF Threw(result) THEN result ELSE Next(result)

-----------------------------------------------------------------------------
(* The text of a pointer.                                                  *)

RECURSIVE Replaced(_, _, _)
Replaced(s, f, t) ==
  IF Len(s) < Len(f) THEN s
  ELSE IF SubSeq(s, 1, Len(f)) = f
  THEN t \o Replaced(SubSeq(s, Len(f) + 1, Len(s)), f, t)
  ELSE <<Head(s)>> \o Replaced(Tail(s), f, t)

EscapeOf(token) ==
  Replaced(Replaced(token, <<Tilde>>, <<Tilde, 48>>), <<Slash>>, <<Tilde, 49>>)
\* Mutant: the escapes undone in the order in which they were made.
UnescapeAsEscaped(token) ==
  Replaced(Replaced(token, <<Tilde, 48>>, <<Tilde>>), <<Tilde, 49>>, <<Slash>>)
Unescape(token) ==
  Replaced(Replaced(token, <<Tilde, 49>>, <<Slash>>), <<Tilde, 48>>, <<Tilde>>)
WellEscaped(token) ==
  \A i \in DOMAIN token :
    token[i] = Tilde => i < Len(token) /\ token[i + 1] \in {48, 49}

RECURSIVE Pieces(_)
Pieces(s) ==
  LET slash == SelectInSeq(s, LAMBDA byte : byte = Slash) IN
  IF slash = 0 THEN <<s>>
  ELSE <<SubSeq(s, 1, slash - 1)>> \o Pieces(SubSeq(s, slash + 1, Len(s)))

Unescaped(pieces) ==
  IF \A i \in DOMAIN pieces : WellEscaped(pieces[i])
  THEN [tokens |-> [i \in DOMAIN pieces |-> Unescape(pieces[i])]]
  ELSE Throws("parse_error.108")
Split(text) ==
  IF text = <<>> THEN [tokens |-> <<>>]
  ELSE IF Head(text) # Slash THEN Throws("parse_error.107")
  ELSE Unescaped(Pieces(Tail(text)))

ToText(tokens) ==
  FlattenSeq([i \in DOMAIN tokens |-> <<Slash>> \o EscapeOf(tokens[i])])

\* pop_back() and back() on the way to a parent.
Parent(tokens) ==
  IF tokens = <<>> THEN Throws("out_of_range.405")
  ELSE [tokens |-> Front(tokens), last |-> Last(tokens)]

-----------------------------------------------------------------------------
(* array_index.  std::stoull takes the digits a token begins with, and     *)
(* throws what array_index does not catch when there are none.             *)

RECURSIVE NumberOf(_)
NumberOf(digits) ==
  IF digits = <<>> THEN 0 ELSE 10 * NumberOf(Front(digits)) + Last(digits) - 48

Digits(token) ==
  LET stop == SelectInSeq(token, LAMBDA byte : ~Digit(byte)) IN
  IF stop = 0 THEN token ELSE SubSeq(token, 1, stop - 1)

\* Mutant: an index may begin with zeros.
ArrayIndexOfZeros(token) ==
  IF Digits(token) # token THEN Throws("out_of_range.404")
  ELSE IF token = <<>> THEN Throws("invalid_argument") ELSE [index |-> NumberOf(token)]
Stoull(token, digits, number) ==
  IF Len(token) > 1 /\ token[1] = 48 THEN Throws("parse_error.106")
  ELSE IF Len(token) > 1 /\ digits = <<>> THEN Throws("parse_error.109")
  ELSE IF digits = <<>> THEN Throws("invalid_argument")
  ELSE IF number > SizeMax \/ digits # token THEN Throws("out_of_range.404")
  ELSE IF number = SizeMax THEN Throws("out_of_range.410")
  ELSE [index |-> number]
ArrayIndex(token) ==
  LET Read(digits) == Stoull(token, digits, NumberOf(digits)) IN Read(Digits(token))

-----------------------------------------------------------------------------
(* One step of a walk, from the value `here` by a token: the value, with   *)
(* what had to be created in it, and the index or the key of the next one. *)

StepTo(here, step) == [value |-> here, step |-> step]
Stop(here, exception) == [value |-> here, throws |-> exception]

\* Mutant: the array is resized to end at the index.
ElementResized(here, index) ==
  StepTo([array |-> [i \in 1 .. index + 1 |->
            IF IsArray(here) /\ i <= Len(here.array) THEN here.array[i] ELSE Null]], index + 1)

\* operator[](size_type) of null and of an array.
Element(here, index) ==
  LET array == IF IsNull(here) THEN <<>> ELSE here.array IN
  IF index >= MaxElements THEN Stop([array |-> array], "length_error")
  ELSE IF index < Len(array) THEN StepTo(here, index + 1)
  ELSE StepTo([array |-> [i \in 1 .. index + 1 |-> IF i \in DOMAIN array THEN array[i] ELSE Null]],
              index + 1)

\* operator[](key) of null and of an object.
Member(here, key) ==
  LET object == IF IsNull(here) THEN <<>> ELSE here.object IN
  StepTo(IF key \in DOMAIN object THEN here ELSE [object |-> SetMember(object, key, Null)], key)

\* at(), and the operator[] of a constant: nothing is created.
Existing(here, step, otherwise) ==
  IF step \in DOMAIN (IF IsArray(here) THEN here.array ELSE here.object)
  THEN StepTo(here, step) ELSE Stop(here, otherwise)

ByIndex(here, token, Use(_, _)) ==
  LET Used(i) == IF Threw(i) THEN Stop(here, i.throws) ELSE Use(here, i.index) IN
  Used(ArrayIndex(token))

CreateStep(here, token) ==
  IF IsNull(here) /\ token = Zero THEN Element(here, 0)
  ELSE IF IsNull(here) \/ IsObject(here) THEN Member(here, token)
  ELSE IF IsArray(here) THEN ByIndex(here, token, Element)
  ELSE Stop(here, "type_error.313")

\* What null becomes before operator[] goes on.
Converted(token) ==
  IF token = Dash \/ \A i \in DOMAIN token : Digit(token[i])
  THEN [array |-> <<>>] ELSE [object |-> <<>>]
UncheckedStep(found, token) ==
  LET here == IF IsNull(found) THEN Converted(token) ELSE found IN
  IF IsObject(here) THEN Member(here, token)
  ELSE IF ~IsArray(here) THEN Stop(here, "out_of_range.404")
  ELSE IF token = Dash THEN Element(here, Len(here.array))
  ELSE ByIndex(here, token, Element)

ReadStep(here, token, noKey, noIndex) ==
  LET AtIndex(array, index) == Existing(array, index + 1, noIndex) IN
  IF IsObject(here) THEN Existing(here, token, noKey)
  ELSE IF ~IsArray(here) THEN Stop(here, "out_of_range.404")
  ELSE IF token = Dash THEN Stop(here, "out_of_range.402")
  ELSE ByIndex(here, token, AtIndex)
CheckedStep(here, token) == ReadStep(here, token, "out_of_range.403", "out_of_range.401")
ConstUncheckedStep(here, token) == ReadStep(here, token, "undefined", "undefined")

\* contains() looks at a token before array_index does, and gives up at once.
ContainsStep(here, token) ==
  LET AtIndex(array, index) == Existing(array, index + 1, "absent")
      odd == /\ token # <<>> /\ ~\A i \in DOMAIN token : Digit(token[i])
      zero == Len(token) > 1 /\ token[1] = 48
  IN  IF IsObject(here) THEN Existing(here, token, "absent")
      ELSE IF ~IsArray(here) \/ odd \/ zero THEN Stop(here, "absent")
      ELSE ByIndex(here, token, AtIndex)

Step(access, here, token) ==
  CASE access = "create" -> CreateStep(here, token)
    [] access = "unchecked" -> UncheckedStep(here, token)
    [] access = "checked" -> CheckedStep(here, token)
    [] access = "const_unchecked" -> ConstUncheckedStep(here, token)
    [] access = "contains" -> ContainsStep(here, token)

RECURSIVE Walk(_, _, _, _)
Walk(access, value, tokens, place) ==
  LET From(s, grown) ==
        IF Threw(s) THEN Stop(grown, s.throws)
        ELSE Walk(access, grown, Tail(tokens), Append(place, s.step))
      Stepped(s) == From(s, ReplaceIn(value, place, s.value))
  IN  IF tokens = <<>> THEN [value |-> value, place |-> place]
      ELSE Stepped(Step(access, At(value, place), Head(tokens)))

GetAndCreate(value, tokens) == Walk("create", value, tokens, <<>>)
GetUnchecked(value, tokens) == Walk("unchecked", value, tokens, <<>>)
GetChecked(value, tokens) == Walk("checked", value, tokens, <<>>)
ConstGetUnchecked(value, tokens) == Walk("const_unchecked", value, tokens, <<>>)
PointerContains(value, tokens) ==
  LET Answer(w) == IF Threw(w) /\ w.throws # "absent" THEN w ELSE [contains |-> ~Threw(w)] IN
  Answer(Walk("contains", value, tokens, <<>>))

\* The assignment to what a walk led to.
Assigned(walk, new) ==
  IF Threw(walk) THEN walk ELSE [value |-> ReplaceIn(walk.value, walk.place, new)]

-----------------------------------------------------------------------------
(* flatten and unflatten.                                                  *)

RECURSIVE Decimal(_)
Decimal(n) == IF n < 10 THEN <<48 + n>> ELSE Append(Decimal(n \div 10), 48 + (n % 10))

RECURSIVE Flattened(_, _)
Flattened(text, value) ==
  LET inner == IF IsArray(value)
               THEN [i \in DOMAIN value.array |->
                       Flattened(text \o <<Slash>> \o Decimal(i - 1), value.array[i])]
               ELSE LET keys == SortedKeys(value.object) IN
                    [i \in DOMAIN keys |->
                       Flattened(text \o <<Slash>> \o EscapeOf(keys[i]), value.object[keys[i]])]
  IN  IF ~IsArray(value) /\ ~IsObject(value) THEN text :> value
      ELSE IF inner = <<>> THEN text :> Null
      ELSE FoldLeft(LAMBDA result, members : members @@ result, <<>>, inner)
Flatten(value) == [object |-> Flattened(<<>>, value)]

\* One member of a flattened object, put back where its key points.
Unflattened(result, text, value) ==
  IF Threw(result) THEN result
  ELSE IF IsArray(value) \/ IsObject(value) THEN Throws("type_error.315")
  ELSE Then(Split(text), LAMBDA pointer :
              Assigned(GetAndCreate(result.value, pointer.tokens), value))
Unflatten(value) ==
  IF ~IsObject(value) THEN Throws("type_error.314")
  ELSE FoldLeft(LAMBDA result, text : Unflattened(result, text, value.object[text]),
                [value |-> Null], SortedKeys(value.object))
=============================================================================
