----------------------------- MODULE MCJsonBinary -----------------------------
(* Values at the limits of the formats, and short documents to damage.     *)
EXTENDS JsonBinary

\* Numbers with a bound of 5, 8, 16, 32 or 64 bits on one side or the other.
Wide(high, low) == Fill(high, 8 - Len(low)) \o low
Positive ==
  {Wide(0, low) : low \in {<<0>>, <<15>>, <<23>>, <<24>>, <<127>>, <<128>>, <<255>>,
     <<1, 0>>, <<127, 255>>, <<128, 0>>, <<255, 255>>, <<1, 0, 0>>,
     <<127, 255, 255, 255>>, <<128, 0, 0, 0>>, <<255, 255, 255, 255>>,
     <<1, 0, 0, 0, 0>>, <<127, 255, 255, 255, 255, 255, 255, 255>>}}
MCNegative ==
  {Wide(255, low) : low \in {<<255>>, <<232>>, <<231>>, <<224>>, <<223>>, <<128>>, <<127>>, <<0>>,
     <<254, 255>>, <<128, 0>>, <<127, 255>>, <<0, 0>>, <<128, 0, 0, 0>>,
     <<127, 255, 255, 255>>, <<0, 0, 0, 0>>, <<128, 0, 0, 0, 0, 0, 0, 0>>}}
Large == {Wide(255, low) : low \in {<<>>, <<0>>, <<127>>, <<128>>}}
           \cup {<<128, 0, 0, 0, 0, 0, 0, 0>>}
Integers64 ==
  {[integer |-> n] : n \in Positive \cup MCNegative}
    \cup {[unsigned |-> n] : n \in Positive \cup Large}

\* Floats that a float, or only a double, can hold: by precision, by exponent.
Ones(k) == Fill(1, k)
Floats ==
  {[float |-> x] : x \in
     {NaN} \cup {Special(kind, minus) : kind \in {"zero", "infinite"}, minus \in BOOLEAN}
       \cup {Finite(minus, Ones(k), low) : minus \in BOOLEAN, k \in {1, 24, 25, 53},
                                           low \in {0, 104, 105, -149, -150, -1022, 970}}}

Binary(k, subtype) == [binary |-> [bytes |-> Fill(7, k), subtype |-> subtype]]
Texts == {[string |-> Fill(97, k)] : k \in {0, 1, 23, 24, 31, 32, 127, 128, 255, 256}}
Subtypes == {-1, 0, 200}
Binaries == {Binary(k, s) : k \in {0, 1, 2, 3, 4, 8, 16, 17, 24}, s \in Subtypes}
LongBinaries == {Binary(k, s) : k \in {255, 256}, s \in Subtypes}
Simple == {[null |-> TRUE], [boolean |-> TRUE], [boolean |-> FALSE]}
Arrays ==
  {[array |-> Fill(v, k)] : k \in {0, 1, 15, 16, 23, 24},
                            v \in {[null |-> TRUE], [unsigned |-> Wide(0, <<200>>)]}}
    \cup {[array |-> <<v, w>>] :
            v, w \in Simple \cup {[string |-> <<78>>], [integer |-> Wide(255, <<>>)],
                                  [unsigned |-> Wide(0, <<128>>)], [unsigned |-> Wide(255, <<>>)],
                                  [array |-> <<>>], [object |-> <<>>], Binary(1, -1)}}
Key(k) == <<107, k>>
Objects ==
  {[object |-> [k \in {Key(i) : i \in 1 .. n} |-> v]] :
     n \in {1, 2, 15, 16, 24}, v \in Simple \cup {[string |-> <<>>], [array |-> <<[null |-> TRUE]>>]}}
    \cup {[object |-> Key(1) :> v @@ Key(2) :> w @@ <<>> :> v] :
            v, w \in {[object |-> Key(3) :> [null |-> TRUE]], [array |-> <<[boolean |-> TRUE]>>],
                      [string |-> <<78>>], Binary(2, -1), [integer |-> Wide(255, <<>>)]}}
Limits == Integers64 \cup Floats \cup Texts \cup Binaries \cup Simple \cup Arrays \cup Objects

Options(format, size, type, tag_handler) ==
  [format |-> format, use_size |-> size, use_type |-> type, tag_handler |-> tag_handler]
Cbor == Options("cbor", FALSE, FALSE, "ignore")
CborDefault == Options("cbor", FALSE, FALSE, "error")
Bson == Options("bson", FALSE, FALSE, "error")
Others == {Options("msgpack", FALSE, FALSE, "error"), Options("ubjson", FALSE, FALSE, "error"),
           Options("ubjson", TRUE, FALSE, "error"), Options("ubjson", TRUE, TRUE, "error")}
MCCases ==
  Limits \X (Others \cup {Cbor})
    \cup LongBinaries \X {Cbor, Options("msgpack", FALSE, FALSE, "error")}
    \cup {[object |-> Key(1) :> v] : v \in Limits \cup LongBinaries} \X {Bson}
    \cup Objects \X {Bson}
    \cup {[object |-> <<0>> :> [null |-> TRUE]], [null |-> TRUE]} \X {Bson}
    \cup {v \in Limits : ~("binary" \in DOMAIN v)} \X {CborDefault}
MCMaxSize == <<8, 0, 0, 0, 0, 0, 0, 0>>
MCChanged == {0, 1, 2, 255, 35, 36, 78, 85, 90, 93, 95, 127, 155, 159, 191, 203, 216, 249}
MCAppended == {0, 78, 93, 255}
=============================================================================
