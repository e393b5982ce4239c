--------------------------- MODULE MCJsonDocument ---------------------------
(* Small documents with keys that look like indices or need escapes.       *)
EXTENDS JsonDocument, FiniteSets

A == <<97>>
Escaped == <<Tilde, 49>>     \* the key "~1", whose text is "~01"
Slashed == <<Slash>>         \* the key "/", whose text is "~1"
Keys == {<<>>, Zero, A, Escaped}
One == [number |-> 1]
Leaves == {Null, One, [array |-> <<>>], [object |-> <<>>]}

Arrays(parts, lengths) == UNION {{[array |-> a] : a \in [1 .. n -> parts]} : n \in lengths}
Objects(parts, keys, sizes) ==
  UNION {{[object |-> o] : o \in [k -> parts]} : k \in {s \in SUBSET keys : Cardinality(s) \in sizes}}
Level1 == Leaves \cup Arrays(Leaves, 1 .. 2) \cup Objects(Leaves, Keys, {1})
MCDocuments ==
  Level1 \cup Arrays(Level1, {1}) \cup Objects(Level1, {Zero, A}, {1})
    \cup Arrays({Null, One}, {3})
    \cup Objects({Null, One}, Keys \cup {Slashed}, {2}) \cup Objects({One}, Keys \cup {Slashed}, {3})

Tokens == {<<>>, Zero, <<49>>, <<48, 49>>, A, Escaped, Dash}
MCPointers == {<<>>} \cup {<<t>> : t \in Tokens} \cup {<<t, u>> : t \in {Zero, A, Dash}, u \in Tokens}
MCValues == {One, [array |-> <<One, Null>>]}

Paths == {<<>>, <<Zero>>, <<<<49>>>>, <<A>>, <<Dash>>, <<Escaped>>, <<Zero, Zero>>,
          <<A, A>>, <<Zero, Dash>>, <<A, Zero>>, <<A, A, A>>}
Ends == {<<>>, <<Zero>>, <<A>>, <<Dash>>, <<Zero, Zero>>, <<A, Zero>>}
Op(name, path) == [op |-> Text(name), path |-> Text(ToText(path))]
WithValue(o, v) == [object |-> o @@ [value |-> v]]
From(o, path) == [object |-> o @@ [from |-> Text(ToText(path))]]
Wrong ==
  {Null, [object |-> [path |-> Text(<<>>)]], [object |-> [op |-> Null]],
   [object |-> [op |-> Text("add"), path |-> Text(<<97>>)]],
   [object |-> [op |-> Text("add"), path |-> Null]],
   [object |-> Op("add", <<>>)], [object |-> Op("replace", <<A>>)],
   [object |-> Op("test", <<A>>)], [object |-> Op("move", <<A>>)],
   [object |-> Op("swap", <<A>>)],
   [object |-> [op |-> Text("remove"), path |-> Text(<<Slash, Tilde, 50>>)]]}
MCElements ==
  Wrong
    \cup {WithValue(Op(name, path), v) : name \in {"add", "replace", "test"}, path \in Paths,
                                         v \in {One, [array |-> <<One, Null>>]}}
    \cup {[object |-> Op("remove", path)] : path \in Paths \cup {<<<<48, 49>>>>}}
    \cup {From(Op(name, path), from) : name \in {"move", "copy"}, path \in Ends, from \in Ends}
MCMerges ==
  MCValues \cup {[object |-> A :> One]} \cup {[object |-> k :> Null] : k \in Keys}
    \cup {[object |-> A :> [object |-> k :> v]] : k \in Keys, v \in {Null, One}}
=============================================================================
