------------------------------ MODULE JsonPatch ------------------------------
(***************************************************************************)
(* patch(), diff() and merge_patch() of json.hpp.                          *)
(*                                                                         *)
(* An element of a patch is a value; an object among them has its members  *)
(* under the strings "op", "path", "from" and "value", and the string of   *)
(* an "op" is a TLA+ string.                                               *)
(***************************************************************************)
EXTENDS JsonPointer

Text(bytes) == [string |-> bytes]

\* operation_add.  A parent that is neither null nor a container is an
\* assertion that fails.
AddTo(parent, here, last, val) ==
  LET AddElement(i) == Assigned(parent, [array |-> InsertAt(here.array, i, val)])
      AddMember == Assigned(parent, [object |-> SetMember(Member(here, last).value.object, last, val)])
  IN  IF IsNull(here) \/ IsObject(here) THEN AddMember
      ELSE IF ~IsArray(here) THEN Throws("assertion")
      ELSE IF last = Dash THEN AddElement(Len(here.array) + 1)
      ELSE Then(ArrayIndex(last), LAMBDA i :
                  IF i.index > Len(here.array) THEN Throws("out_of_range.401")
                  ELSE AddElement(i.index + 1))
OperationAdd(result, tokens, val) ==
  LET top == IF Len(tokens) > 1 THEN GetChecked(result, <<tokens[1]>>) ELSE StepTo(result, 0)
      Add(parent) == AddTo(parent, At(parent.value, parent.place), Last(tokens), val)
  IN  IF tokens = <<>> THEN [value |-> val]
      ELSE Then(top, LAMBDA t : Then(GetUnchecked(result, Front(tokens)), Add))

\* operation_remove.  Below a value that is no container there is nothing to
\* remove, and nothing is thrown.
RemoveFrom(parent, here, last) ==
  IF IsObject(here)
  THEN IF last \notin DOMAIN here.object THEN Throws("out_of_range.403")
       ELSE Assigned(parent, [object |-> EraseMember(here.object, last)])
  ELSE IF ~IsArray(here) THEN [value |-> parent.value]
  ELSE Then(ArrayIndex(last), LAMBDA i :
              IF i.index >= Len(here.array) THEN Throws("out_of_range.401")
              ELSE Assigned(parent, [array |-> RemoveAt(here.array, i.index + 1)]))
OperationRemove(result, tokens) ==
  LET Erase(pointer) ==
        Then(GetChecked(result, pointer.tokens), LAMBDA parent :
               RemoveFrom(parent, At(result, parent.place), pointer.last))
  IN  Then(Parent(tokens), Erase)

\* get_value, and a pointer from one.
GetValue(val, member, string) ==
  IF member \notin DOMAIN val.object THEN Throws("parse_error.105")
  ELSE IF string /\ "string" \notin DOMAIN val.object[member] THEN Throws("parse_error.105")
  ELSE [value |-> val.object[member]]
GetPointer(val, member) ==
  Then(GetValue(val, member, TRUE), LAMBDA text : Split(text.value.string))

\* Mutant: move leaves the value where it was.
AddFromKeeps(result, val, tokens, removes) ==
  Then(GetPointer(val, "from"), LAMBDA from :
         Then(GetChecked(result, from.tokens), LAMBDA source :
                OperationAdd(result, tokens, At(result, source.place))))

\* What is done with the value at `from`, for move and for copy.
AddFrom(result, val, tokens, removes) ==
  LET Removed(from) == IF removes THEN OperationRemove(result, from.tokens) ELSE [value |-> result]
      Add(from, source) == Then(Removed(from), LAMBDA removed :
                                  OperationAdd(removed.value, tokens, At(result, source.place)))
  IN  Then(GetPointer(val, "from"), LAMBDA from :
             Then(GetChecked(result, from.tokens), LAMBDA source : Add(from, source)))

\* test ignores the out_of_range errors of at(), and no other.
OutOfRange == {"out_of_range.401", "out_of_range.402", "out_of_range.403",
               "out_of_range.404", "out_of_range.410"}
Tested(result, target, value) ==
  LET ignored == Threw(target) /\ target.throws \in OutOfRange IN
  IF Threw(target) /\ ~ignored THEN target
  ELSE IF ignored \/ At(result, target.place) # value THEN Throws("other_error.501")
  ELSE [value |-> result]

\* One element of a patch.  What happens when both operands of the assignment
\* of replace, or of the comparison of test, throw is left to the compiler.
Performed(result, val, name, tokens) ==
  LET value == GetValue(val, "value", FALSE)
      target == GetChecked(result, tokens)
  IN  CASE name = "add" -> {Then(value, LAMBDA v : OperationAdd(result, tokens, v.value))}
        [] name = "remove" -> {OperationRemove(result, tokens)}
        [] name = "replace" ->
             IF Threw(value) THEN {value} \cup {t \in {target} : Threw(t)}
             ELSE {Assigned(target, value.value)}
        [] name \in {"move", "copy"} -> {AddFrom(result, val, tokens, name = "move")}
        [] name = "test" ->
             IF Threw(value) THEN {value} \cup {Tested(result, t, Null) : t \in {u \in {target} : Threw(u)}}
             ELSE {Tested(result, target, value.value)}
        [] OTHER -> {Throws("parse_error.105")}
Operated(result, val) ==
  LET Perform(op, pointer) ==
        IF Threw(op) THEN {op}
        ELSE IF Threw(pointer) THEN {pointer}
        ELSE Performed(result, val, op.value.string, pointer.tokens)
  IN  IF ~IsObject(val) THEN {Throws("parse_error.104")}
      ELSE Perform(GetValue(val, "op", TRUE), GetPointer(val, "path"))

\* patch(), of a patch no operation of which is left to the compiler.
Patch(value, elements) ==
  FoldLeft(LAMBDA result, val :
             IF Threw(result) THEN result ELSE CHOOSE r \in Operated(result.value, val) : TRUE,
           [value |-> value], elements)

-----------------------------------------------------------------------------
(* diff(): the elements of the patch.                                      *)

Operation(op, path) == [op |-> Text(op), path |-> Text(path)]
AddOf(path, value) == [object |-> Operation("add", path) @@ [value |-> value]]
RemoveOf(path) == [object |-> Operation("remove", path)]
ReplaceOf(path, value) == [object |-> Operation("replace", path) @@ [value |-> value]]

RECURSIVE Diff(_, _, _)
\* Mutant: the elements are removed from the first one on.
DiffElementsForward(source, target, path) ==
  LET n == Len(source)
      m == Len(target)
      at(i) == path \o <<Slash>> \o Decimal(i - 1)
      common == IF n < m THEN n ELSE m
  IN  FlattenSeq([i \in 1 .. common |-> Diff(source[i], target[i], at(i))])
        \o [i \in 1 .. n - common |-> RemoveOf(at(common + i))]
        \o [i \in 1 .. m - common |-> AddOf(path \o <<Slash>> \o Dash, target[common + i])]
DiffElements(source, target, path) ==
  LET n == Len(source)
      m == Len(target)
      at(i) == path \o <<Slash>> \o Decimal(i - 1)
      common == IF n < m THEN n ELSE m
  IN  FlattenSeq([i \in 1 .. common |-> Diff(source[i], target[i], at(i))])
        \o [i \in 1 .. n - common |-> RemoveOf(at(n + 1 - i))]
        \o [i \in 1 .. m - common |-> AddOf(path \o <<Slash>> \o Dash, target[common + i])]
DiffMembers(source, target, path) ==
  LET keys == SortedKeys(source)
      new == Ordered(DOMAIN target \ DOMAIN source)
      at(k) == path \o <<Slash>> \o EscapeOf(k)
      change(k) == IF k \in DOMAIN target THEN Diff(source[k], target[k], at(k))
                   ELSE <<RemoveOf(at(k))>>
  IN  FlattenSeq([i \in DOMAIN keys |-> change(keys[i])])
        \o [i \in DOMAIN new |-> AddOf(at(new[i]), target[new[i]])]
Diff(source, target, path) ==
  IF source = target THEN <<>>
  ELSE IF IsArray(source) /\ IsArray(target) THEN DiffElements(source.array, target.array, path)
  ELSE IF IsObject(source) /\ IsObject(target)
  THEN DiffMembers(source.object, target.object, path)
  ELSE <<ReplaceOf(path, target)>>

-----------------------------------------------------------------------------
(* merge_patch().                                                          *)

RECURSIVE MergePatch(_, _)
Merged(object, key, value) ==
  IF IsNull(value) THEN EraseMember(object, key)
  ELSE LET found == IF key \in DOMAIN object THEN object[key] ELSE Null IN
       SetMember(object, key, MergePatch(found, value))
MergePatch(target, apply_patch) ==
  IF ~IsObject(apply_patch) THEN apply_patch
  ELSE [object |->
          FoldLeft(LAMBDA object, key : Merged(object, key, apply_patch.object[key]),
                   IF IsObject(target) THEN target.object ELSE <<>>,
                   SortedKeys(apply_patch.object))]
=============================================================================
