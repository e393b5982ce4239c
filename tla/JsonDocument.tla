----------------------------- MODULE JsonDocument -----------------------------
(***************************************************************************)
(* A basic_json value that its program changes: by the operations of a     *)
(* JSON Patch, by merge patches, and by assignments to what a JSON pointer *)
(* leads to, with and without checks.                                      *)
(***************************************************************************)
EXTENDS JsonPatch

CONSTANTS Documents,  \* the values it may be at first
          Elements,   \* the elements of patches
          Merges,     \* the merge patches
          Pointers,   \* the pointers, as sequences of tokens
          Values,     \* the values that are assigned
          MaxSteps    \* bound on the changes

VARIABLES original,   \* the value at first
          value,      \* the value now
          threw,      \* what the last change threw, or "nothing"
          steps       \* counts the changes
vars == <<original, value, threw, steps>>

Init ==
  /\ original \in Documents /\ value = original
  /\ threw = "nothing" /\ steps = 0

\* An exception ends the program; the value is what it is then.
Becomes(new, exception) ==
  /\ steps < MaxSteps /\ threw = "nothing"
  /\ steps' = steps + 1
  /\ value' = new /\ threw' = exception
  /\ UNCHANGED original

\* value = value.patch({val}): the working copy is lost when it throws.
ApplyPatch(val) ==
  \E result \in Operated(value, val) :
    IF Threw(result) THEN Becomes(value, result.throws) ELSE Becomes(result.value, "nothing")

ApplyMergePatch(apply_patch) == Becomes(MergePatch(value, apply_patch), "nothing")

\* value[pointer] = new and value.at(pointer) = new.
Assign(walk, new) ==
  LET Is(result) == Becomes(result.value, IF Threw(result) THEN result.throws ELSE "nothing") IN
  Is(Assigned(walk, new))
AssignUnchecked(tokens, new) == Assign(GetUnchecked(value, tokens), new)
AssignChecked(tokens, new) == Assign(GetChecked(value, tokens), new)

Next ==
  \/ \E val \in Elements : ApplyPatch(val)
  \/ \E apply_patch \in Merges : ApplyMergePatch(apply_patch)
  \/ \E tokens \in Pointers, new \in Values :
       AssignUnchecked(tokens, new) \/ AssignChecked(tokens, new)
Spec == Init /\ [][Next]_vars

-----------------------------------------------------------------------------
(* RFC 6902, of values and tokens: what an operation gives, where the RFC  *)
(* says that it gives something, and nothing else.  A set of one value or  *)
(* of none.                                                                *)

RECURSIVE Found(_, _)
Found(v, tokens) ==
  IF tokens = <<>> THEN {v}
  ELSE LET inside == IF IsObject(v) THEN {v.object[k] : k \in DOMAIN v.object \cap {tokens[1]}}
                     ELSE IF IsArray(v) THEN {v.array[i] : i \in {j \in DOMAIN v.array : Decimal(j - 1) = tokens[1]}}
                     ELSE {}
       IN  UNION {Found(w, Tail(tokens)) : w \in inside}

\* The values that differ from v only in its part at `tokens`, which is one of
\* those that Change finds for the part there is.
RECURSIVE Changed(_, _, _)
Changed(v, tokens, parts) ==
  IF tokens = <<>> THEN parts
  ELSE IF IsObject(v)
  THEN {[object |-> [v.object EXCEPT ![tokens[1]] = w]] :
          w \in Changed(v.object[tokens[1]], Tail(tokens), parts)}
  ELSE {[array |-> [i \in DOMAIN v.array |-> IF Decimal(i - 1) = tokens[1] THEN w ELSE v.array[i]]] :
          w \in Changed((CHOOSE x \in Found(v, <<tokens[1]>>) : TRUE), Tail(tokens), parts)}
Inside(v, tokens, Parts(_)) == UNION {Changed(v, tokens, Parts(part)) : part \in Found(v, tokens)}

RfcAdd(v, tokens, new) ==
  LET last == Last(tokens)
      With(parent) ==
        IF IsObject(parent) THEN {[object |-> [k \in DOMAIN parent.object \cup {last} |->
                                                 IF k = last THEN new ELSE parent.object[k]]]}
        ELSE IF IsArray(parent)
        THEN {[array |-> [j \in 1 .. Len(parent.array) + 1 |->
                 IF j <= i THEN parent.array[j] ELSE IF j = i + 1 THEN new ELSE parent.array[j - 1]]] :
              i \in {n \in 0 .. Len(parent.array) :
                       last = Decimal(n) \/ (last = Dash /\ n = Len(parent.array))}}
        ELSE {}
  IN  IF tokens = <<>> THEN {new} ELSE Inside(v, Front(tokens), With)
RfcRemove(v, tokens) ==
  LET last == Last(tokens)
      Without(parent) ==
        IF IsObject(parent) THEN {[object |-> [k \in DOMAIN parent.object \ {last} |-> parent.object[k]]]}
        ELSE {[array |-> [j \in 1 .. Len(parent.array) - 1 |->
                 IF j <= i THEN parent.array[j] ELSE parent.array[j + 1]]] :
              i \in {n \in 0 .. Len(parent.array) - 1 : last = Decimal(n)}}
  IN  IF tokens = <<>> \/ Found(v, tokens) = {} THEN {} ELSE Inside(v, Front(tokens), Without)
RfcMove(v, from, path) ==
  LET part == Found(v, from) IN
  IF IsStrictPrefix(from, path) THEN {}
  ELSE UNION {RfcAdd(w, path, x) : w \in RfcRemove(v, from), x \in part}

Rfc(v, val) ==
  LET members == val.object
      name == members.op.string
      path == Split(members.path.string).tokens
      from == Split(members.from.string).tokens
      new == members.value
  IN  CASE name = "add" -> RfcAdd(v, path, new)
        [] name = "remove" -> RfcRemove(v, path)
        [] name = "replace" -> IF Found(v, path) = {} THEN {} ELSE Changed(v, path, {new})
        [] name = "move" -> RfcMove(v, from, path)
        [] name = "copy" -> UNION {RfcAdd(v, path, x) : x \in Found(v, from)}
        [] name = "test" -> {w \in {v} : Found(v, path) = {new}}

-----------------------------------------------------------------------------
(* Properties.                                                             *)

\* json.hpp:25075-25079, of diff(): "The following invariant holds".  The patch
\* that diff() makes leads from the value at first to the value now, whatever
\* changes are between them.
DiffPatches == Patch(original, Diff(original, value, <<>>)) = [value |-> value]

\* Wherever RFC 6902 says what an operation gives, patch() gives that.
WellFormed(val) ==
  /\ IsObject(val)
  /\ LET members == val.object
         Pointer(m) == m \in DOMAIN members /\ "string" \in DOMAIN members[m]
                         /\ ~Threw(Split(members[m].string))
     IN  /\ "op" \in DOMAIN members /\ "string" \in DOMAIN members.op
         /\ members.op.string \in {"add", "remove", "replace", "move", "copy", "test"}
         /\ Pointer("path")
         /\ members.op.string \in {"move", "copy"} => Pointer("from")
         /\ members.op.string \in {"add", "replace", "test"} => "value" \in DOMAIN members
PatchFollowsRfc ==
  \A val \in {e \in Elements : WellFormed(e)} :
    \A w \in Rfc(value, val) : Operated(value, val) = {[value |-> w]}

\* A value is restored from what it was flattened to, unless it holds an empty
\* array or object, or an object the first key of which, as they are escaped, is
\* "0".
RECURSIVE Restorable(_)
Restorable(v) ==
  /\ IsArray(v) => v.array # <<>> /\ \A i \in DOMAIN v.array : Restorable(v.array[i])
  /\ IsObject(v) =>
       /\ v.object # <<>> /\ Ordered({EscapeOf(k) : k \in DOMAIN v.object})[1] # Zero
       /\ \A k \in DOMAIN v.object : Restorable(v.object[k])
FlattenReverts == Restorable(value) => Unflatten(Flatten(value)) = [value |-> value]

\* json.hpp:21059: "If `j.contains(ptr)` returns true, it is safe to call
\* `j[ptr]`."  Then each way to go there leads to the same place and creates
\* nothing; and contains() is true whenever at() finds something.
ContainedIsThere ==
  \A tokens \in Pointers :
    LET there == PointerContains(value, tokens)
        found == GetChecked(value, tokens)
    IN  /\ Split(ToText(tokens)) = [tokens |-> tokens]
        /\ Threw(found) <=> there # [contains |-> TRUE]
        /\ ~Threw(found) => /\ GetUnchecked(value, tokens) = found
                            /\ ConstGetUnchecked(value, tokens) = found
                            /\ found.value = value

\* An assignment through a pointer without checks leaves every other part of the
\* value as it was, even when it throws on the way; and when it does not, at()
\* finds there what was assigned.
Aside(tokens, other) == \E j \in DOMAIN tokens \cap DOMAIN other : tokens[j] # other[j]
AssignKeepsRest ==
  \A tokens \in Pointers, new \in Values :
    LET walk == GetUnchecked(value, tokens)
        after == Assigned(walk, new)
    IN  /\ \A other \in Pointers :
             Aside(tokens, other) /\ Found(value, other) # {}
               => Found(after.value, other) = Found(value, other)
        /\ ~Threw(after) /\ ~Contains(tokens, Dash) => Found(after.value, tokens) = {new}
=============================================================================
