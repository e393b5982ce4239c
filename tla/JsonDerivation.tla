--------------------------- MODULE JsonDerivation ---------------------------
(***************************************************************************)
(* What the parser is measured against: the grammar of RFC 8259, which     *)
(* docs and comments of json.hpp name as what it accepts, over tokens, and *)
(* what a derivation means.  It models no code.                            *)
(***************************************************************************)
EXTENDS JsonParser

Grammar ==
  [value |-> {<<t>> : t \in ValueTypes}
               \cup {<<"begin_array", "end_array">>, <<"begin_array", "elements", "end_array">>,
                     <<"begin_object", "end_object">>, <<"begin_object", "members", "end_object">>},
   elements |-> {<<"value">>, <<"value", "value_separator", "elements">>},
   member |-> {<<"value_string", "name_separator", "value">>},
   members |-> {<<"member">>, <<"member", "value_separator", "members">>}]

\* The members of an object: of those that were not rejected, neither their key
\* nor their value, the last one of a key counts.
ObjectOf(members) ==
  LET kept == {i \in DOMAIN members : members[i].keep /\ members[i].value # Discarded}
      last(k) == CHOOSE i \in kept : /\ members[i].key = k
                                     /\ \A j \in kept : members[j].key = k => j <= i
  IN  [k \in {members[i].key : i \in kept} |-> members[last(k)].value]

\* What a symbol means, from the tokens and meanings of its production.  An
\* event the callback answered with FALSE makes what it is about disappear.
Meaning(symbol, nodes) ==
  LET body == IF Len(nodes) = 3 THEN nodes[2] ELSE <<>>
      Kept(value) == value # Discarded
      value == IF Len(nodes) = 1 THEN nodes[1].value
               ELSE IF nodes[1].type = "begin_array" THEN [array |-> SelectSeq(body, Kept)]
               ELSE [object |-> ObjectOf(body)]
  IN  CASE symbol = "value" -> IF nodes[1].keep /\ Last(nodes).keep THEN value ELSE Discarded
        [] symbol = "member" -> [key |-> nodes[1].value.string, keep |-> nodes[1].keep,
                                 value |-> nodes[3]]
        [] OTHER -> IF Len(nodes) = 1 THEN nodes ELSE <<nodes[1]>> \o nodes[3]

\* The ways `word` derives a part of ts from i on: where the part ends, and the
\* meanings of the word's symbols.
RECURSIVE Derivations(_, _, _)
Derivations(ts, i, word) ==
  LET symbol == Head(word)
      terminal == IF i <= Len(ts) /\ ts[i].type = symbol /\ ~Overflows(ts[i])
                  THEN {[end |-> i + 1, node |-> ts[i]]} ELSE {}
      derived == UNION {{[end |-> d.end, node |-> Meaning(symbol, d.nodes)] :
                           d \in Derivations(ts, i, p)} : p \in Grammar[symbol]}
      first == IF symbol \in DOMAIN Grammar THEN derived ELSE terminal
  IN  IF word = <<>> THEN {[end |-> i, nodes |-> <<>>]}
      ELSE UNION {{[end |-> d.end, nodes |-> <<f.node>> \o d.nodes] :
                     d \in Derivations(ts, f.end, Tail(word))} : f \in first}

\* The meanings of the whole of ts as a JSON text: one or none.
Texts(ts) == {d.nodes[1] : d \in {e \in Derivations(ts, 1, <<"value">>) : e.end = Len(ts) + 1}}

\* ts can be continued to a JSON text: by what is missing next, and the closing
\* of what is open.
RECURSIVE Closers(_)
Closers(ts) ==
  IF ts = <<>> THEN <<>>
  ELSE LET before == Closers(Front(ts)) IN
       CASE Last(ts).type = "begin_array" -> <<"end_array">> \o before
         [] Last(ts).type = "begin_object" -> <<"end_object">> \o before
         [] Last(ts).type \in {"end_array", "end_object"} /\ before # <<>> -> Tail(before)
         [] OTHER -> before

Viable(ts) ==
  LET token(type) == [type |-> type, value |-> [string |-> 1], keep |-> TRUE]
      closers == Closers(ts)
      value == "literal_null"
  IN  \E fill \in {<<>>, <<value>>, <<"name_separator", value>>,
                   <<"value_string", "name_separator", value>>} :
        LET missing == fill \o closers IN
        Texts(ts \o [i \in DOMAIN missing |-> token(missing[i])]) # {}

\* A parse succeeds on exactly the JSON texts, and fails at the first token
\* after which no JSON text can come: not later, and never before.  A parse
\* that is not strict (operator>>) takes no token past the text.
AcceptsGrammar ==
  call.mode # "callback" =>
  /\ ~errored => Viable(TextRead)
  /\ Succeeded => Texts(TextRead) # {} /\ call.strict = Ended
  /\ errored /\ outcome # Discarded =>
       ~Viable(tokens) /\ Viable(Front(tokens)) /\ (Ended => Texts(TextRead) = {})
\* Without a callback, the value is the one the text denotes: the elements in
\* their order, the members under their keys, the last of two with one key.
ValueDenotesText ==
  Succeeded /\ call.mode = "dom" => Texts(TextRead) = {outcome}

\* An object of ts has a member whose value is rejected after one of the same key
\* that is kept.
KeptThenRejected(ts) ==
  \E o \in DOMAIN ts :
    /\ ts[o].type = "begin_object"
    /\ \E d \in Derivations(ts, o + 1, <<"members", "end_object">>) :
         LET members == d.nodes[1] IN
         \E i, j \in DOMAIN members :
           /\ i < j /\ members[i].key = members[j].key
           /\ members[i].keep /\ members[i].value # Discarded
           /\ members[j].keep /\ members[j].value = Discarded

RECURSIVE Pruned(_)
Pruned(value) ==
  IF IsArray(value)
  THEN LET array == SelectSeq(value.array, LAMBDA v : v # Discarded) IN
       [array |-> [i \in DOMAIN array |-> Pruned(array[i])]]
  ELSE IF IsObject(value)
  THEN [object |-> [k \in {l \in DOMAIN value.object : value.object[l] # Discarded} |->
                      Pruned(value.object[k])]]
  ELSE value

\* With a callback, the value is that of the text without everything whose
\* start, end, key or value the callback rejected: but for the discarded members
\* that are left in it, and for objects where a member that is kept comes before
\* one of its key that is rejected, which takes it along.
CallbackFilters ==
  Succeeded /\ call.mode = "callback" /\ ~KeptThenRejected(TextRead) =>
    {Pruned(outcome)} = {IF v = Discarded THEN Null ELSE v : v \in Texts(TextRead)}
=============================================================================
