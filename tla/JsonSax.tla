------------------------------- MODULE JsonSax -------------------------------
(***************************************************************************)
(* The handlers of the parser's events in json.hpp: json_sax_dom_parser,   *)
(* json_sax_dom_callback_parser and json_sax_acceptor.  A handler is a     *)
(* record                                                                  *)
(*   root     the value built so far                                       *)
(*   refs     ref_stack: where in root the open containers are, or Nowhere *)
(*            for a container that is not kept                             *)
(*   element  object_element: where the next member of an object goes      *)
(*   keeps, keyKeeps   keep_stack and key_keep_stack, of the callback's    *)
(* and an event makes a new one of it.                                     *)
(*                                                                         *)
(* A value is a record with one field, named after its value_t; keys are   *)
(* numbers, ordered as the strings they stand for.                         *)
(***************************************************************************)
EXTENDS JsonValue

Nowhere == <<0>>     \* indices and keys begin at 1
Discarded == [discarded |-> TRUE]

Handler == [root |-> Null, refs |-> <<>>, element |-> Nowhere,
            keeps |-> <<TRUE>>, keyKeeps |-> <<>>]

\* What both parsers do with a value they keep: it becomes the root, the last
\* element of the array on top of ref_stack, or the member that key() chose.
Place(h, value) ==
  LET top == Last(h.refs) IN
  IF h.refs = <<>> THEN [handler |-> [h EXCEPT !.root = value], ref |-> <<>>]
  ELSE IF IsArray(At(h.root, top))
  THEN LET array == Append(At(h.root, top).array, value) IN
       [handler |-> [h EXCEPT !.root = ReplaceIn(@, top, [array |-> array])],
        ref |-> Append(top, Len(array))]
  ELSE [handler |-> [h EXCEPT !.root = ReplaceIn(@, h.element, value)], ref |-> h.element]

\* operator[](key) of the object on top of ref_stack, which adds it, and the
\* assignment of `value` unless it is NoValue.
NoValue == [none |-> TRUE]
AtKey(h, k, value) ==
  LET top == Last(h.refs)
      object == At(h.root, top).object
      new == IF value # NoValue THEN SetMember(object, k, value)
             ELSE IF k \in DOMAIN object THEN object ELSE SetMember(object, k, Null)
  IN  [h EXCEPT !.root = ReplaceIn(@, top, [object |-> new]), !.element = Append(top, k)]

Empty(type) == IF type = "array" THEN [array |-> <<>>] ELSE [object |-> <<>>]

-----------------------------------------------------------------------------
(* json_sax_dom_parser.                                                    *)

\* Mutant: a member that has a value keeps it.
DomValueFirst(h, value) ==
  IF h.element # Nowhere /\ At(h.root, h.element) # Null THEN h ELSE Place(h, value).handler

DomValue(h, value) == Place(h, value).handler
DomStart(h, type) ==
  LET p == Place(h, Empty(type)) IN [p.handler EXCEPT !.refs = Append(@, p.ref)]
DomKey(h, k) == AtKey(h, k, NoValue)
DomEnd(h) == [h EXCEPT !.refs = Front(@)]

-----------------------------------------------------------------------------
(* json_sax_dom_callback_parser.  `keep` is what the callback, which is    *)
(* told of the depth, the event and its value, returns for the event.      *)

\* handle_value.
CallbackPlace(h, value, keep, skip_callback) ==
  LET depth == Len(h.refs)
      dropped == [handler |-> h, ref |-> Nowhere]
      popped == [h EXCEPT !.keyKeeps = Front(@)]
  IN  IF ~Last(h.keeps) THEN dropped
      ELSE IF ~skip_callback /\ ~keep THEN dropped
      ELSE IF depth = 0 THEN Place(h, value)
      ELSE IF Last(h.refs) = Nowhere THEN dropped
      ELSE IF IsArray(At(h.root, Last(h.refs))) THEN Place(h, value)
      ELSE IF ~Last(h.keyKeeps) THEN [dropped EXCEPT !.handler = popped]
      ELSE Place(popped, value)

CallbackValue(h, value, keep) == CallbackPlace(h, value, keep, FALSE).handler

CallbackStart(h, type, keep) ==
  LET p == CallbackPlace([h EXCEPT !.keeps = Append(@, keep)], Empty(type), keep, TRUE)
  IN  [p.handler EXCEPT !.refs = Append(@, p.ref)]

CallbackKey(h, k, keep) ==
  LET pushed == [h EXCEPT !.keyKeeps = Append(@, keep)]
  IN  IF keep /\ Last(h.refs) # Nowhere THEN AtKey(pushed, k, Discarded) ELSE pushed

\* Mutant: keep_stack is not popped.
FinishKeeps(h, keep) ==
  [keep |-> TRUE, handler |-> [h EXCEPT !.refs = Front(@)]]

\* The value on top of ref_stack is finished; discard it if the callback says
\* so, and leave it.
Finish(h, keep) ==
  LET top == Last(h.refs)
      kept == top # Nowhere => keep
  IN  [keep |-> kept,
       handler |-> [h EXCEPT !.root = IF kept THEN @ ELSE ReplaceIn(@, top, Discarded),
                             !.refs = Front(@), !.keeps = Front(@)]]

\* "remove discarded value": the first one of the container around.
RemoveDiscarded(h) ==
  LET top == Last(h.refs)
      parent == At(h.root, top)
      gone == IF IsArray(parent)
              THEN {i \in DOMAIN parent.array : parent.array[i] = Discarded}
              ELSE {k \in DOMAIN parent.object : parent.object[k] = Discarded}
      first == CHOOSE x \in gone : \A y \in gone : x <= y
  IN  IF h.refs = <<>> \/ top = Nowhere \/ gone = {} THEN h
      ELSE [h EXCEPT !.root = ReplaceIn(@, top,
              IF IsArray(parent) THEN [array |-> RemoveAt(parent.array, first)]
              ELSE [object |-> EraseMember(parent.object, first)])]

CallbackEndObject(h, keep) == RemoveDiscarded(Finish(h, keep).handler)

CallbackEndArray(h, keep) ==
  LET f == Finish(h, keep)
      parent == At(f.handler.root, Last(f.handler.refs))
  IN  IF f.keep \/ f.handler.refs = <<>> THEN f.handler
      ELSE IF ~IsArray(parent) THEN f.handler
      ELSE [f.handler EXCEPT !.root = ReplaceIn(@, Last(f.handler.refs),
                                                [array |-> Front(parent.array)])]
=============================================================================
