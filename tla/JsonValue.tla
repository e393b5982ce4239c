------------------------------ MODULE JsonValue ------------------------------
(***************************************************************************)
(* What a basic_json value is in the modules of json.hpp: a record with    *)
(* one field, named after its value_t.  An array is a sequence of values,  *)
(* an object a function from its keys.  A place in a value is the path of  *)
(* indices and keys that leads to it: the C++ has a pointer there.         *)
(***************************************************************************)
EXTENDS Integers, Sequences, SequencesExt, FiniteSets, TLC

TypeOf(value) == CHOOSE t \in DOMAIN value : TRUE
Null == [null |-> TRUE]
IsNull(value) == "null" \in DOMAIN value
IsArray(value) == "array" \in DOMAIN value
IsObject(value) == "object" \in DOMAIN value

\* What is at a place, and the value with `new` there.
At(value, path) ==
  FoldLeft(LAMBDA v, step : IF IsArray(v) THEN v.array[step] ELSE v.object[step], value, path)

ReplaceIn(value, path, new) ==
  LET Within(i, inner) ==
        LET v == At(value, SubSeq(path, 1, i - 1)) IN
        IF IsArray(v) THEN [array |-> [v.array EXCEPT ![path[i]] = inner]]
        ELSE [object |-> [v.object EXCEPT ![path[i]] = inner]]
  IN  FoldRight(Within, [i \in DOMAIN path |-> i], new)

\* The object with the member k set, there or not, and without it.
SetMember(object, k, value) == (k :> value) @@ object
EraseMember(object, k) == [l \in DOMAIN object \ {k} |-> object[l]]

\* The order of std::map's keys, which are sequences of bytes.
KeyLess(k, l) ==
  \E i \in DOMAIN l : /\ \A j \in 1 .. i - 1 : j \in DOMAIN k /\ k[j] = l[j]
                      /\ i \in DOMAIN k => k[i] < l[i]
Ordered(keys) ==
  [i \in 1 .. Cardinality(keys) |->
     CHOOSE k \in keys : Cardinality({l \in keys : KeyLess(l, k)}) = i - 1]
SortedKeys(object) == Ordered(DOMAIN object)
=============================================================================
