------------------------------ MODULE JsonBinary ------------------------------
(***************************************************************************)
(* A value of json.hpp written in a binary format, on its way perhaps      *)
(* damaged, and read: to_cbor and from_cbor and the like.                  *)
(***************************************************************************)
EXTENDS JsonBinaryReader

W == INSTANCE JsonBinaryWriter

CONSTANTS Cases,      \* pairs of a value and the options of its format
          Changed,    \* the bytes that another byte may become
          Appended,   \* the bytes that may follow the document
          MaxDamaged  \* bound: documents up to this size are damaged

VARIABLES case,       \* the value and the options
          pc, damage, \* what is done next, what was done to the bytes
          bytes,      \* the document
          throws,     \* what the writer threw, or 0
          result      \* what the reader gave
vars == <<case, pc, damage, bytes, throws, result>>

Init ==
  /\ case \in Cases
  /\ pc = "write" /\ damage = "none"
  /\ bytes = <<>> /\ throws = 0 /\ result = Fail("none")

\* to_cbor, to_msgpack, to_ubjson, to_bson.
WriteValue ==
  LET Wrote(w) == /\ pc' = IF w.throws = 0 THEN "read" ELSE "done"
                  /\ bytes' = w.bytes /\ throws' = w.throws
  IN  /\ pc = "write"
      /\ Wrote(W!Written(case[1], case[2]))
      /\ UNCHANGED <<case, damage, result>>

Damage(kind, new) ==
  /\ pc = "read" /\ damage = "none"
  /\ Len(bytes) <= MaxDamaged
  /\ damage' = kind /\ bytes' = new
  /\ UNCHANGED <<case, pc, throws, result>>

Cut == \E n \in 0 .. Len(bytes) - 1 : Damage("cut", SubSeq(bytes, 1, n))
Extension == \E byte \in Appended : Damage("extended", Append(bytes, byte))
Change ==
  \E i \in DOMAIN bytes, byte \in Changed :
    byte # bytes[i] /\ Damage("changed", [bytes EXCEPT ![i] = byte])

\* from_cbor, from_msgpack, from_ubjson, from_bson.
ReadValue ==
  /\ pc = "read"
  /\ pc' = "done"
  /\ result' = Parsed(bytes, case[2])
  /\ UNCHANGED <<case, damage, bytes, throws>>

Next == WriteValue \/ Cut \/ Extension \/ Change \/ ReadValue
Spec == Init /\ [][Next]_vars

-----------------------------------------------------------------------------
(* What a value is after it was written and read: the formats do not keep  *)
(* which integer type a number has, CBOR and UBJSON no subtype, UBJSON no  *)
(* binary values at all.                                                   *)
Integer(n, unsigned) == IF unsigned THEN [unsigned |-> n] ELSE [integer |-> n]
Renumbered(value, format) ==
  LET t == W!TypeOf(value)
      n == value[t]
  IN  IF t = "unsigned" /\ Negative(n) THEN value
      ELSE Integer(n, CASE format \in {"cbor", "msgpack"} -> ~Negative(n)
                        [] format = "ubjson" -> FitsIn(n, 1) /\ ~FitsSigned(n, 1)
                        [] OTHER -> FALSE)

RECURSIVE Kept(_, _)
Kept(value, format) ==
  LET t == W!TypeOf(value)
      b == value.binary
      Byte8(byte) == [unsigned |-> Extend(<<byte>>)]
  IN  CASE t \in {"integer", "unsigned"} -> Renumbered(value, format)
        [] t = "binary" /\ format = "cbor" -> [binary |-> [b EXCEPT !.subtype = -1]]
        [] t = "binary" /\ format = "bson" ->
             [binary |-> [b EXCEPT !.subtype = IF @ = -1 THEN 0 ELSE @]]
        [] t = "binary" /\ format = "ubjson" ->
             [array |-> [i \in DOMAIN b.bytes |-> Byte8(b.bytes[i])]]
        [] t = "array" -> [array |-> [i \in DOMAIN value.array |-> Kept(value.array[i], format)]]
        [] t = "object" ->
             [object |-> [k \in DOMAIN value.object |-> Kept(value.object[k], format)]]
        [] OTHER -> value

Finished == pc = "done" /\ throws = 0
Format == case[2].format

\* The reader gives back every value that was written, of every type, at every
\* limit of a size or a number, nested, with the optimized UBJSON containers.
ReadsBack ==
  Finished /\ damage = "none" =>
    Ok(result) /\ result.value = Kept(case[1], Format) /\ result.at = Len(bytes)

\* A document that is cut short is never taken for one, wherever it is cut; and
\* no byte may follow it, but UBJSON's no-op.
WholeDocuments ==
  Finished =>
    /\ damage = "cut" => ~Ok(result)
    /\ damage = "extended" =>
         IF Format = "ubjson" /\ Last(bytes) = 78
         THEN result.value = Kept(case[1], Format) ELSE ~Ok(result)

\* Whatever the reader makes of a document with a wrong byte is a value like any
\* other: it can be written, and is then read as it is.
AcceptedIsStable ==
  Finished /\ damage = "changed" /\ Ok(result) =>
    LET Again(r) == Ok(r) /\ r.value = Kept(result.value, Format)
        Stable(w) == w.throws = 0 /\ Again(Parsed(w.bytes, case[2]))
    IN  Stable(W!Written(result.value, case[2]))

\* The sizes in a BSON document, which the reader does not look at, are those of
\* the documents they stand in front of.
RECURSIVE SizesRight(_, _)
SizesRight(value, document) ==
  LET elements == IF W!TypeOf(value) = "array"
                  THEN [i \in DOMAIN value.array |-> <<W!Name(i), value.array[i]>>]
                  ELSE LET keys == W!SortedKeys(value.object) IN
                       [i \in DOMAIN keys |-> <<keys[i], value.object[keys[i]]>>]
      written == [i \in DOMAIN elements |-> W!BsonElement(elements[i][1], elements[i][2])]
      inner(i) == W!TypeOf(elements[i][2]) \in {"array", "object"}
  IN  /\ SubSeq(document, 1, 4) = W!Little32(Len(document))
      /\ document = SubSeq(document, 1, 4) \o FlattenSeq(written) \o <<0>>
      /\ \A i \in DOMAIN elements : inner(i) =>
           SizesRight(elements[i][2],
             SubSeq(written[i], Len(elements[i][1]) + 3, Len(written[i])))
BsonSizesRight ==
  pc = "read" /\ Format = "bson" /\ damage = "none" => SizesRight(case[1], bytes)
=============================================================================
