--------------------------- MODULE JsonParserProofs ---------------------------
(***************************************************************************)
(* Theorems about the parser of json.hpp (JsonParser), over tokens, at any *)
(* length and any depth: it accepts exactly the texts of RFC 8259, tells   *)
(* its caller so, and the stacks of its handlers follow its own.           *)
(*                                                                         *)
(* The grammar nests where the parser keeps one bit for each open          *)
(* container.  Closings and FollowOf say in terms of those bits what may   *)
(* follow; ParserInv says that what was read goes on to a text with just   *)
(* that.  HandlerInv counts the handlers' stacks by the open containers.   *)
(***************************************************************************)
EXTENDS JsonParser, SequenceTheorems, TLAPS

(***************************************************************************)
(* The grammar of RFC 8259, sections 2 to 5: values, the elements of an    *)
(* array and the members of an object are the least sets of words that     *)
(* its productions close.                                                  *)
(***************************************************************************)
JsonSymbols ==
  ValueTypes \cup {"begin_array", "end_array", "begin_object", "end_object",
                   "name_separator", "value_separator"}
Words == Seq(JsonSymbols)

InArray(w) == <<"begin_array">> \o (w \o <<"end_array">>)
InObject(w) == <<"begin_object">> \o (w \o <<"end_object">>)
Member(v) == <<"value_string">> \o (<<"name_separator">> \o v)
Comma(u, w) == u \o (<<"value_separator">> \o w)

Closed(V, E, M) ==
  /\ \A t \in ValueTypes : <<t>> \in V
  /\ \A e \in E \cup {<<>>} : InArray(e) \in V
  /\ \A m \in M \cup {<<>>} : InObject(m) \in V
  /\ \A v \in V : v \in E /\ Member(v) \in M
  /\ \A v \in V, e \in E : Comma(v, e) \in E
  /\ \A v \in V, m \in M : Comma(Member(v), m) \in M

Values == {w \in Words : \A V, E, M \in SUBSET Words : Closed(V, E, M) => w \in V}
Elements == {w \in Words : \A V, E, M \in SUBSET Words : Closed(V, E, M) => w \in E}
Members == {w \in Words : \A V, E, M \in SUBSET Words : Closed(V, E, M) => w \in M}

-----------------------------------------------------------------------------
(* Words.                                                                  *)

LEMMA ConcatIsWord ==
  ASSUME NEW u \in Words, NEW w \in Words
  PROVE  u \o w \in Words
  BY ConcatProperties DEF Words

LEMMA SymbolIsWord ==
  ASSUME NEW s \in JsonSymbols
  PROVE  <<s>> \in Words
  BY DEF Words

LEMMA EmptyIsWord == <<>> \in Words
  BY DEF Words

LEMMA Associative ==
  ASSUME NEW u \in Words, NEW v \in Words, NEW w \in Words
  PROVE  (u \o v) \o w = u \o (v \o w)
  BY ConcatAssociative DEF Words

LEMMA NothingBefore ==
  ASSUME NEW w \in Words
  PROVE  <<>> \o w = w
  BY ConcatEmptySeq DEF Words

LEMMA NothingBehind ==
  ASSUME NEW w \in Words
  PROVE  w \o <<>> = w
  BY ConcatEmptySeq DEF Words

LEMMA SameFirst ==
  ASSUME NEW s \in JsonSymbols, NEW t \in JsonSymbols, NEW u \in Words, NEW w \in Words,
         <<s>> \o u = <<t>> \o w
  PROVE  s = t /\ u = w
  <1>1. <<s>> \in Seq(JsonSymbols) /\ <<t>> \in Seq(JsonSymbols) /\ u \in Seq(JsonSymbols)
          /\ w \in Seq(JsonSymbols)
    BY DEF Words
  <1>2. Head(<<s>> \o u) = s /\ Tail(<<s>> \o u) = u
    BY <1>1
  <1>3. Head(<<t>> \o w) = t /\ Tail(<<t>> \o w) = w
    BY <1>1
  <1>4. QED
    BY <1>2, <1>3

LEMMA FirstIsSomething ==
  ASSUME NEW s \in JsonSymbols, NEW w \in Words
  PROVE  <<s>> \o w # <<>>
  <1>1. Len(<<s>> \o w) = 1 + Len(w) /\ Len(w) \in Nat
    BY ConcatProperties DEF Words
  <1>2. QED
    BY <1>1

LEMMA SymbolsAreWords ==
  /\ \A t \in ValueTypes : t \in JsonSymbols /\ <<t>> \in Words
  /\ \A t \in {"value_string", "begin_array", "end_array", "begin_object", "end_object",
               "name_separator", "value_separator"} : t \in JsonSymbols /\ <<t>> \in Words
  BY SymbolIsWord DEF JsonSymbols, ValueTypes

LEMMA BuiltAreWords ==
  ASSUME NEW u \in Words, NEW w \in Words
  PROVE  InArray(u) \in Words /\ InObject(u) \in Words /\ Member(u) \in Words
           /\ Comma(u, w) \in Words
  BY SymbolsAreWords, ConcatIsWord DEF InArray, InObject, Member, Comma

-----------------------------------------------------------------------------
(* The grammar's sets are closed, and have nothing that their productions  *)
(* do not give: the lemmas read a word back into its production.           *)

LEMMA GrammarClosed ==
  /\ Values \subseteq Words /\ Elements \subseteq Words /\ Members \subseteq Words
  /\ Closed(Values, Elements, Members)
  <1>1. Values \subseteq Words /\ Elements \subseteq Words /\ Members \subseteq Words
    BY DEF Values, Elements, Members
  <1>2. ASSUME NEW V \in SUBSET Words, NEW E \in SUBSET Words, NEW M \in SUBSET Words,
               Closed(V, E, M)
        PROVE  Values \subseteq V /\ Elements \subseteq E /\ Members \subseteq M
    BY <1>2 DEF Values, Elements, Members
  <1>3. \A t \in ValueTypes : <<t>> \in Values
    BY SymbolsAreWords DEF Values, Closed
  <1>4. ASSUME NEW e \in Elements \cup {<<>>}
        PROVE  InArray(e) \in Values
    <2>1. InArray(e) \in Words
      BY <1>1, EmptyIsWord, BuiltAreWords
    <2>2. ASSUME NEW V \in SUBSET Words, NEW E \in SUBSET Words, NEW M \in SUBSET Words,
                 Closed(V, E, M)
          PROVE  InArray(e) \in V
      <3>1. e \in E \cup {<<>>}
        BY <1>2, <2>2
      <3>2. QED
        BY <2>2, <3>1 DEF Closed
    <2>3. QED
      BY <2>1, <2>2 DEF Values
  <1>5. ASSUME NEW m \in Members \cup {<<>>}
        PROVE  InObject(m) \in Values
    <2>1. InObject(m) \in Words
      BY <1>1, EmptyIsWord, BuiltAreWords
    <2>2. ASSUME NEW V \in SUBSET Words, NEW E \in SUBSET Words, NEW M \in SUBSET Words,
                 Closed(V, E, M)
          PROVE  InObject(m) \in V
      <3>1. m \in M \cup {<<>>}
        BY <1>2, <2>2
      <3>2. QED
        BY <2>2, <3>1 DEF Closed
    <2>3. QED
      BY <2>1, <2>2 DEF Values
  <1>6. ASSUME NEW v \in Values
        PROVE  v \in Elements /\ Member(v) \in Members
    <2>1. v \in Words /\ Member(v) \in Words
      BY <1>1, BuiltAreWords
    <2>2. ASSUME NEW V \in SUBSET Words, NEW E \in SUBSET Words, NEW M \in SUBSET Words,
                 Closed(V, E, M)
          PROVE  v \in E /\ Member(v) \in M
      BY <1>2, <2>2 DEF Closed
    <2>3. QED
      BY <2>1, <2>2 DEF Elements, Members
  <1>7. ASSUME NEW v \in Values, NEW e \in Elements
        PROVE  Comma(v, e) \in Elements
    <2>1. Comma(v, e) \in Words
      BY <1>1, BuiltAreWords
    <2>2. ASSUME NEW V \in SUBSET Words, NEW E \in SUBSET Words, NEW M \in SUBSET Words,
                 Closed(V, E, M)
          PROVE  Comma(v, e) \in E
      BY <1>2, <2>2 DEF Closed
    <2>3. QED
      BY <2>1, <2>2 DEF Elements
  <1>8. ASSUME NEW v \in Values, NEW m \in Members
        PROVE  Comma(Member(v), m) \in Members
    <2>1. Comma(Member(v), m) \in Words
      BY <1>1, BuiltAreWords
    <2>2. ASSUME NEW V \in SUBSET Words, NEW E \in SUBSET Words, NEW M \in SUBSET Words,
                 Closed(V, E, M)
          PROVE  Comma(Member(v), m) \in M
      BY <1>2, <2>2 DEF Closed
    <2>3. QED
      BY <2>1, <2>2 DEF Members
  <1>9. QED
    BY <1>1, <1>3, <1>4, <1>5, <1>6, <1>7, <1>8 DEF Closed

LEMMA ValueForms ==
  ASSUME NEW w \in Values
  PROVE  \/ \E t \in ValueTypes : w = <<t>>
         \/ \E e \in Elements \cup {<<>>} : w = InArray(e)
         \/ \E m \in Members \cup {<<>>} : w = InObject(m)
  <1> DEFINE Form(x) == \/ \E t \in ValueTypes : x = <<t>>
                        \/ \E e \in Elements \cup {<<>>} : x = InArray(e)
                        \/ \E m \in Members \cup {<<>>} : x = InObject(m)
             V == {v \in Values : Form(v)}
  <1>1. Closed(V, Elements, Members)
    BY GrammarClosed DEF Closed
  <1>2. V \in SUBSET Words /\ Elements \in SUBSET Words /\ Members \in SUBSET Words
    BY GrammarClosed
  <1> HIDE DEF V
  <1>3. w \in V
    BY <1>1, <1>2 DEF Values
  <1>4. QED
    BY <1>3 DEF V

LEMMA ElementForms ==
  ASSUME NEW w \in Elements
  PROVE  \/ w \in Values
         \/ \E v \in Values, e \in Elements : w = Comma(v, e)
  <1> DEFINE E == {x \in Elements : \/ x \in Values
                                    \/ \E v \in Values, e \in Elements : x = Comma(v, e)}
  <1>1. Closed(Values, E, Members)
    BY GrammarClosed DEF Closed
  <1>2. E \in SUBSET Words /\ Values \in SUBSET Words /\ Members \in SUBSET Words
    BY GrammarClosed
  <1> HIDE DEF E
  <1>3. w \in E
    BY <1>1, <1>2 DEF Elements
  <1>4. QED
    BY <1>3 DEF E

LEMMA MemberForms ==
  ASSUME NEW w \in Members
  PROVE  \/ \E v \in Values : w = Member(v)
         \/ \E v \in Values, m \in Members : w = Comma(Member(v), m)
  <1> DEFINE M == {x \in Members : \/ \E v \in Values : x = Member(v)
                                   \/ \E v \in Values, m \in Members :
                                        x = Comma(Member(v), m)}
  <1>1. Closed(Values, Elements, M)
    BY GrammarClosed DEF Closed
  <1>2. M \in SUBSET Words /\ Values \in SUBSET Words /\ Elements \in SUBSET Words
    BY GrammarClosed
  <1> HIDE DEF M
  <1>3. w \in M
    BY <1>1, <1>2 DEF Members
  <1>4. QED
    BY <1>3 DEF M

-----------------------------------------------------------------------------
(***************************************************************************)
(* What may follow.  Closings has the pairs of a stack of open containers  *)
(* (TRUE for an array) and a word that ends them all, each after a         *)
(* complete element or member.                                             *)
(***************************************************************************)
Stacks == Seq(BOOLEAN)

ArrayEnds == {<<"end_array">>} \cup {<<"value_separator">> \o (e \o <<"end_array">>) : e \in Elements}
ObjectEnds == {<<"end_object">>} \cup {<<"value_separator">> \o (m \o <<"end_object">>) : m \in Members}

ClosesAll(C) ==
  /\ << <<>>, <<>> >> \in C
  /\ \A open \in Stacks, w \in Words : <<open, w>> \in C =>
       /\ \A end \in ArrayEnds : <<Append(open, TRUE), end \o w>> \in C
       /\ \A end \in ObjectEnds : <<Append(open, FALSE), end \o w>> \in C

Closings == {c \in Stacks \X Words : \A C \in SUBSET (Stacks \X Words) : ClosesAll(C) => c \in C}

\* What may follow a complete value, where a value or a member is expected, and
\* what begins with one symbol.
AfterValue(open) == {w \in Words : <<open, w>> \in Closings}
AtValue(open) == {v \o w : v \in Values, w \in AfterValue(open)}
Behind(symbol, words) == {<<symbol>> \o w : w \in words}
AtMembers(open) == {m \o w : m \in Members, w \in Behind("end_object", AfterValue(Front(open)))}

LEMMA ClosingsClosed == ClosesAll(Closings)
  <1>1. << <<>>, <<>> >> \in Closings
    <2>0. <<>> \in Stacks
      BY DEF Stacks
    <2>1. << <<>>, <<>> >> \in Stacks \X Words
      BY <2>0, EmptyIsWord, Zenon
    <2>2. \A C \in SUBSET (Stacks \X Words) : ClosesAll(C) => << <<>>, <<>> >> \in C
      BY DEF ClosesAll
    <2>3. QED
      BY <2>1, <2>2, Zenon DEF Closings
  <1>2. ASSUME NEW open \in Stacks, NEW w \in Words, <<open, w>> \in Closings,
               NEW end \in ArrayEnds
        PROVE  <<Append(open, TRUE), end \o w>> \in Closings
    <2>1. end \in Words
      BY GrammarClosed, SymbolsAreWords, ConcatIsWord DEF ArrayEnds
    <2>2. Append(open, TRUE) \in Stacks /\ end \o w \in Words
      BY <2>1, ConcatIsWord, AppendProperties DEF Stacks
    <2>3. ASSUME NEW C \in SUBSET (Stacks \X Words), ClosesAll(C)
          PROVE  <<Append(open, TRUE), end \o w>> \in C
      <3>1. <<open, w>> \in C
        BY <1>2, <2>3 DEF Closings
      <3>2. QED
        BY <2>3, <3>1 DEF ClosesAll
    <2>4. QED
      BY <2>2, <2>3 DEF Closings
  <1>3. ASSUME NEW open \in Stacks, NEW w \in Words, <<open, w>> \in Closings,
               NEW end \in ObjectEnds
        PROVE  <<Append(open, FALSE), end \o w>> \in Closings
    <2>1. end \in Words
      BY GrammarClosed, SymbolsAreWords, ConcatIsWord DEF ObjectEnds
    <2>2. Append(open, FALSE) \in Stacks /\ end \o w \in Words
      BY <2>1, ConcatIsWord, AppendProperties DEF Stacks
    <2>3. ASSUME NEW C \in SUBSET (Stacks \X Words), ClosesAll(C)
          PROVE  <<Append(open, FALSE), end \o w>> \in C
      <3>1. <<open, w>> \in C
        BY <1>3, <2>3 DEF Closings
      <3>2. QED
        BY <2>3, <3>1 DEF ClosesAll
    <2>4. QED
      BY <2>2, <2>3 DEF Closings
  <1>4. QED
    BY <1>1, <1>2, <1>3 DEF ClosesAll

LEMMA ClosingForms ==
  ASSUME NEW open \in Stacks, NEW w \in AfterValue(open)
  PROVE  \/ open = <<>> /\ w = <<>>
         \/ \E o \in Stacks, u \in Words :
              /\ u \in AfterValue(o)
              /\ \/ \E end \in ArrayEnds : open = Append(o, TRUE) /\ w = end \o u
                 \/ \E end \in ObjectEnds : open = Append(o, FALSE) /\ w = end \o u
  <1> DEFINE Form(p, x) ==
               \/ p = <<>> /\ x = <<>>
               \/ \E o \in Stacks, u \in Words :
                    /\ <<o, u>> \in Closings
                    /\ \/ \E end \in ArrayEnds : p = Append(o, TRUE) /\ x = end \o u
                       \/ \E end \in ObjectEnds : p = Append(o, FALSE) /\ x = end \o u
             C == {c \in Closings : Form(c[1], c[2])}
  <1>1. ClosesAll(C)
    <2>1. << <<>>, <<>> >> \in C
      BY ClosingsClosed DEF ClosesAll
    <2>2. ASSUME NEW o \in Stacks, NEW u \in Words, <<o, u>> \in C
          PROVE  /\ \A end \in ArrayEnds : <<Append(o, TRUE), end \o u>> \in C
                 /\ \A end \in ObjectEnds : <<Append(o, FALSE), end \o u>> \in C
      <3>1. <<o, u>> \in Closings
        BY <2>2
      <3>2. \A end \in ArrayEnds : /\ <<Append(o, TRUE), end \o u>> \in Closings
                                   /\ Form(Append(o, TRUE), end \o u)
        BY <3>1, ClosingsClosed DEF ClosesAll
      <3>3. \A end \in ObjectEnds : /\ <<Append(o, FALSE), end \o u>> \in Closings
                                    /\ Form(Append(o, FALSE), end \o u)
        BY <3>1, ClosingsClosed DEF ClosesAll
      <3> HIDE DEF Form
      <3>4. QED
        BY <3>2, <3>3
    <2> HIDE DEF C
    <2>3. QED
      BY <2>1, <2>2 DEF ClosesAll
  <1>2. C \in SUBSET (Stacks \X Words)
    BY DEF Closings
  <1> HIDE DEF C, Form
  <1>3. <<open, w>> \in C
    BY <1>1, <1>2 DEF AfterValue, Closings
  <1>4. Form(open, w)
    BY <1>3 DEF C
  <1>5. QED
    BY <1>4 DEF Form, AfterValue

LEMMA FrontOfPushed ==
  ASSUME NEW S, NEW seq \in Seq(S), NEW e \in S
  PROVE  /\ Front(Append(seq, e)) = seq
         /\ Last(Append(seq, e)) = e
  <1>1. /\ Append(seq, e) \in Seq(S) /\ Len(Append(seq, e)) = Len(seq) + 1
        /\ \A i \in 1 .. Len(seq) : Append(seq, e)[i] = seq[i]
        /\ Append(seq, e)[Len(seq) + 1] = e
        /\ Len(seq) \in Nat
    BY AppendProperties
  <1>2. Front(Append(seq, e)) = SubSeq(Append(seq, e), 1, Len(seq))
    BY <1>1 DEF Front
  <1>3. SubSeq(Append(seq, e), 1, Len(seq)) = seq
    BY <1>1
  <1>4. QED
    BY <1>1, <1>2, <1>3 DEF Last

LEMMA Pushed ==
  ASSUME NEW open \in Stacks, NEW o \in Stacks, NEW a \in BOOLEAN, NEW b \in BOOLEAN
  PROVE  /\ Append(open, a) \in Stacks
         /\ Append(open, a) # <<>>
         /\ Front(Append(open, a)) = open
         /\ Last(Append(open, a)) = a
         /\ Append(open, a) = Append(o, b) => open = o /\ a = b
  <1>1. Append(open, a) \in Stacks /\ Append(open, a) # <<>>
          /\ Append(o, b) \in Stacks /\ Append(o, b) # <<>>
    BY AppendProperties DEF Stacks
  <1>2. Front(Append(open, a)) = open /\ Last(Append(open, a)) = a
    BY FrontOfPushed DEF Stacks
  <1>3. Front(Append(o, b)) = o /\ Last(Append(o, b)) = b
    BY FrontOfPushed DEF Stacks
  <1>4. QED
    BY <1>1, <1>2, <1>3

LEMMA ValueSplit ==
  ASSUME NEW open \in Stacks, NEW x
  PROVE  x \in AtValue(open) <=> \E v \in Values, w \in AfterValue(open) : x = v \o w
  BY DEF AtValue

LEMMA MembersSplit ==
  ASSUME NEW open \in Stacks, NEW x
  PROVE  x \in AtMembers(Append(open, FALSE)) <=>
           \E m \in Members, y \in Behind("end_object", AfterValue(open)) : x = m \o y
  <1>1. Front(Append(open, FALSE)) = open
    BY Pushed
  <1> DEFINE inside == Append(open, FALSE)
  <1>2. Front(inside) = open
    BY <1>1
  <1> HIDE DEF inside
  <1>3. x \in AtMembers(inside) <=>
          \E m \in Members, y \in Behind("end_object", AfterValue(Front(inside))) : x = m \o y
    BY DEF AtMembers
  <1>4. QED
    BY <1>2, <1>3, Zenon DEF inside

LEMMA AfterNothing == AfterValue(<<>>) = {<<>>}
  <1>1. <<>> \in AfterValue(<<>>)
    BY ClosingsClosed, EmptyIsWord DEF AfterValue, ClosesAll
  <1>2. ASSUME NEW w \in AfterValue(<<>>)
        PROVE  w = <<>>
    <2>1. <<>> \in Stacks
      BY DEF Stacks
    <2>2. \A o \in Stacks : Append(o, TRUE) # <<>> /\ Append(o, FALSE) # <<>>
      BY Pushed
    <2>3. QED
      BY <2>1, <2>2, ClosingForms, Zenon
  <1>3. QED
    BY <1>1, <1>2

LEMMA AfterInArray ==
  ASSUME NEW open \in Stacks, NEW x
  PROVE  x \in AfterValue(Append(open, TRUE)) <=>
           \E end \in ArrayEnds, w \in AfterValue(open) : x = end \o w
  <1>1. ASSUME x \in AfterValue(Append(open, TRUE))
        PROVE  \E end \in ArrayEnds, w \in AfterValue(open) : x = end \o w
    <2> DEFINE p == Append(open, TRUE)
    <2>1. p \in Stacks /\ p # <<>>
      BY Pushed
    <2>2. \A o \in Stacks : /\ p = Append(o, TRUE) => open = o
                            /\ p # Append(o, FALSE)
      BY Pushed
    <2>3. x \in AfterValue(p)
      BY <1>1
    <2> HIDE DEF p
    <2>4. PICK o \in Stacks, u \in Words :
            /\ u \in AfterValue(o)
            /\ \/ \E end \in ArrayEnds : p = Append(o, TRUE) /\ x = end \o u
               \/ \E end \in ObjectEnds : p = Append(o, FALSE) /\ x = end \o u
      BY <2>1, <2>3, ClosingForms, Zenon
    <2>5. o = open /\ \E end \in ArrayEnds : x = end \o u
      BY <2>2, <2>4, Zenon
    <2>6. QED
      BY <2>4, <2>5, Zenon
  <1>2. ASSUME NEW end \in ArrayEnds, NEW w \in AfterValue(open)
        PROVE  end \o w \in AfterValue(Append(open, TRUE))
    BY ClosingsClosed DEF AfterValue, ClosesAll, Closings
  <1>3. QED
    BY <1>1, <1>2, Zenon

LEMMA AfterInObject ==
  ASSUME NEW open \in Stacks, NEW x
  PROVE  x \in AfterValue(Append(open, FALSE)) <=>
           \E end \in ObjectEnds, w \in AfterValue(open) : x = end \o w
  <1>1. ASSUME x \in AfterValue(Append(open, FALSE))
        PROVE  \E end \in ObjectEnds, w \in AfterValue(open) : x = end \o w
    <2> DEFINE p == Append(open, FALSE)
    <2>1. p \in Stacks /\ p # <<>>
      BY Pushed
    <2>2. \A o \in Stacks : /\ p = Append(o, FALSE) => open = o
                            /\ p # Append(o, TRUE)
      BY Pushed
    <2>3. x \in AfterValue(p)
      BY <1>1
    <2> HIDE DEF p
    <2>4. PICK o \in Stacks, u \in Words :
            /\ u \in AfterValue(o)
            /\ \/ \E end \in ArrayEnds : p = Append(o, TRUE) /\ x = end \o u
               \/ \E end \in ObjectEnds : p = Append(o, FALSE) /\ x = end \o u
      BY <2>1, <2>3, ClosingForms, Zenon
    <2>5. o = open /\ \E end \in ObjectEnds : x = end \o u
      BY <2>2, <2>4, Zenon
    <2>6. QED
      BY <2>4, <2>5, Zenon
  <1>2. ASSUME NEW end \in ObjectEnds, NEW w \in AfterValue(open)
        PROVE  end \o w \in AfterValue(Append(open, FALSE))
    BY ClosingsClosed DEF AfterValue, ClosesAll, Closings
  <1>3. QED
    BY <1>1, <1>2, Zenon

LEMMA Associative4 ==
  ASSUME NEW s \in Words, NEW u \in Words, NEW b \in Words, NEW w \in Words
  PROVE  (s \o (u \o b)) \o w = s \o (u \o (b \o w))
  <1>1. u \o b \in Words
    BY ConcatIsWord
  <1>2. (s \o (u \o b)) \o w = s \o ((u \o b) \o w)
    BY <1>1, Associative
  <1>3. (u \o b) \o w = u \o (b \o w)
    BY Associative
  <1>4. QED
    BY <1>2, <1>3

LEMMA BracketsBefore ==
  ASSUME NEW u \in Words, NEW w \in Words
  PROVE  /\ InArray(u) \o w = <<"begin_array">> \o (u \o (<<"end_array">> \o w))
         /\ InObject(u) \o w = <<"begin_object">> \o (u \o (<<"end_object">> \o w))
  <1>1. /\ <<"begin_array">> \in Words /\ <<"end_array">> \in Words
        /\ <<"begin_object">> \in Words /\ <<"end_object">> \in Words
    BY SymbolsAreWords
  <1>2. ASSUME NEW s \in Words, NEW b \in Words
        PROVE  (s \o (u \o b)) \o w = s \o (u \o (b \o w))
    BY Associative4
  <1>3. QED
    BY <1>1, <1>2, Zenon DEF InArray, InObject

LEMMA MemberBefore ==
  ASSUME NEW u \in Words, NEW w \in Words
  PROVE  Member(u) \o w = <<"value_string">> \o (<<"name_separator">> \o (u \o w))
  <1>1. <<"value_string">> \in Words /\ <<"name_separator">> \in Words
    BY SymbolsAreWords
  <1>2. ASSUME NEW s \in Words, NEW b \in Words
        PROVE  (s \o (b \o u)) \o w = s \o (b \o (u \o w))
    BY Associative4
  <1>3. QED
    BY <1>1, <1>2, Zenon DEF Member

LEMMA CommaBefore ==
  ASSUME NEW u \in Words, NEW v \in Words, NEW w \in Words
  PROVE  Comma(u, v) \o w = u \o (<<"value_separator">> \o (v \o w))
  <1>1. <<"value_separator">> \in Words
    BY SymbolsAreWords
  <1>2. ASSUME NEW s \in Words
        PROVE  (u \o (s \o v)) \o w = u \o (s \o (v \o w))
    BY Associative4, SMTT(30)
  <1>3. QED
    BY <1>1, <1>2, Zenon DEF Comma

LEMMA EndWord ==
  ASSUME NEW w \in Words
  PROVE  <<"end_array">> \o w \in Words /\ <<"end_object">> \o w \in Words
  BY SymbolsAreWords, ConcatIsWord

LEMMA SeparatedBefore ==
  ASSUME NEW u \in Words, NEW w \in Words
  PROVE  /\ (<<"value_separator">> \o (u \o <<"end_array">>)) \o w
              = <<"value_separator">> \o (u \o (<<"end_array">> \o w))
         /\ (<<"value_separator">> \o (u \o <<"end_object">>)) \o w
              = <<"value_separator">> \o (u \o (<<"end_object">> \o w))
  <1>1. /\ <<"end_array">> \in Words /\ <<"end_object">> \in Words
        /\ <<"value_separator">> \in Words
    BY SymbolsAreWords
  <1>2. ASSUME NEW s \in Words, NEW b \in Words
        PROVE  (s \o (u \o b)) \o w = s \o (u \o (b \o w))
    BY Associative4
  <1>3. QED
    BY <1>1, <1>2, Zenon

LEMMA FollowersAreWords ==
  ASSUME NEW open \in Stacks
  PROVE  /\ AfterValue(open) \subseteq Words
         /\ AtValue(open) \subseteq Words
         /\ AtMembers(Append(open, FALSE)) \subseteq Words
  <1>1. AfterValue(open) \subseteq Words
    BY DEF AfterValue
  <1>2. \A v \in Values, w \in AfterValue(open) : v \o w \in Words
    BY <1>1, GrammarClosed, ConcatIsWord
  <1>3. ASSUME NEW x \in AtValue(open)
        PROVE  x \in Words
    <2>1. PICK v \in Values, w \in AfterValue(open) : x = v \o w
      BY DEF AtValue
    <2>2. QED
      BY <1>2, <2>1
  <1>4. \A w \in AfterValue(open) : <<"end_object">> \o w \in Words
    BY <1>1, EndWord
  <1>5. Behind("end_object", AfterValue(open)) \subseteq Words
    BY <1>4, Zenon DEF Behind
  <1>6. ASSUME NEW x \in AtMembers(Append(open, FALSE))
        PROVE  x \in Words
    <2>1. PICK m \in Members, y \in Behind("end_object", AfterValue(open)) : x = m \o y
      BY MembersSplit, Zenon
    <2>2. QED
      BY <1>5, <2>1, GrammarClosed, ConcatIsWord
  <1>7. QED
    BY <1>1, <1>3, <1>6

(***************************************************************************)
(* Each set of followers by its first symbols.                             *)
(***************************************************************************)
LEMMA FirstOfElements ==
  ASSUME NEW open \in Stacks, NEW x
  PROVE  x \in AtValue(Append(open, TRUE)) <=>
           \E e \in Elements, y \in Behind("end_array", AfterValue(open)) : x = e \o y
  <1> DEFINE inside == Append(open, TRUE)
  <1>1. ASSUME NEW v \in Values, NEW end \in ArrayEnds, NEW w \in AfterValue(open)
        PROVE  \E e \in Elements : v \o (end \o w) = e \o (<<"end_array">> \o w)
    <2>1. v \in Words /\ w \in Words /\ Elements \subseteq Words
      BY GrammarClosed DEF AfterValue
    <2>2. CASE end = <<"end_array">>
      BY <2>2, GrammarClosed DEF Closed
    <2>3. ASSUME NEW e \in Elements, end = <<"value_separator">> \o (e \o <<"end_array">>)
          PROVE  v \o (end \o w) = Comma(v, e) \o (<<"end_array">> \o w)
      <3>1. e \in Words /\ <<"end_array">> \o w \in Words
        BY <2>1, EndWord
      <3>2. Comma(v, e) \o (<<"end_array">> \o w)
              = v \o (<<"value_separator">> \o (e \o (<<"end_array">> \o w)))
        BY <2>1, <3>1, CommaBefore
      <3>3. QED
        BY <2>1, <2>3, <3>1, <3>2, SeparatedBefore
    <2>4. QED
      BY <2>2, <2>3, GrammarClosed DEF Closed, ArrayEnds
  <1>2. ASSUME NEW e \in Elements, NEW w \in AfterValue(open)
        PROVE  \E v \in Values, end \in ArrayEnds :
                 e \o (<<"end_array">> \o w) = v \o (end \o w)
    <2>1. w \in Words /\ Elements \subseteq Words /\ Values \subseteq Words
      BY GrammarClosed DEF AfterValue
    <2>2. CASE e \in Values
      BY <2>2 DEF ArrayEnds
    <2>3. ASSUME NEW v \in Values, NEW f \in Elements, e = Comma(v, f)
          PROVE  e \o (<<"end_array">> \o w)
                   = v \o ((<<"value_separator">> \o (f \o <<"end_array">>)) \o w)
      <3>1. f \in Words /\ v \in Words /\ <<"end_array">> \o w \in Words
        BY <2>1, EndWord
      <3>2. Comma(v, f) \o (<<"end_array">> \o w)
              = v \o (<<"value_separator">> \o (f \o (<<"end_array">> \o w)))
        BY <3>1, CommaBefore
      <3>3. QED
        BY <2>1, <2>3, <3>1, <3>2, SeparatedBefore
    <2>4. QED
      BY <2>2, <2>3, ElementForms DEF ArrayEnds
  <1>3. x \in AtValue(inside) <=> \E v \in Values, y \in AfterValue(inside) : x = v \o y
    BY DEF AtValue
  <1>4. \A y : y \in AfterValue(inside) <=>
                 \E end \in ArrayEnds, w \in AfterValue(open) : y = end \o w
    BY AfterInArray, Zenon
  <1> HIDE DEF inside
  <1>5. \A y : y \in Behind("end_array", AfterValue(open)) <=>
                 \E w \in AfterValue(open) : y = <<"end_array">> \o w
    BY Zenon DEF Behind
  <1>6. ASSUME x \in AtValue(inside)
        PROVE  \E e \in Elements, y \in Behind("end_array", AfterValue(open)) : x = e \o y
    <2>1. PICK v \in Values, y \in AfterValue(inside) : x = v \o y
      BY <1>3, <1>6
    <2>2. PICK end \in ArrayEnds, w \in AfterValue(open) : y = end \o w
      BY <1>4, <2>1
    <2>3. PICK e \in Elements : v \o (end \o w) = e \o (<<"end_array">> \o w)
      BY <1>1
    <2>4. QED
      BY <1>5, <2>1, <2>2, <2>3
  <1>7. ASSUME NEW e \in Elements, NEW y \in Behind("end_array", AfterValue(open)), x = e \o y
        PROVE  x \in AtValue(inside)
    <2>1. PICK w \in AfterValue(open) : y = <<"end_array">> \o w
      BY <1>5
    <2>2. PICK v \in Values, end \in ArrayEnds :
            e \o (<<"end_array">> \o w) = v \o (end \o w)
      BY <1>2
    <2>3. QED
      BY <1>3, <1>4, <1>7, <2>1, <2>2
  <1>8. x \in AtValue(inside) <=>
          \E e \in Elements, y \in Behind("end_array", AfterValue(open)) : x = e \o y
    BY <1>6, <1>7, Zenon
  <1>9. QED
    BY <1>8, Zenon DEF inside

LEMMA CommaMember ==
  ASSUME NEW v \in Words, NEW u \in Words, NEW w \in Words
  PROVE  Comma(Member(v), u) \o (<<"end_object">> \o w)
           = <<"value_string">> \o (<<"name_separator">> \o
               (v \o (<<"value_separator">> \o (u \o (<<"end_object">> \o w)))))
  <1>1. Member(v) \in Words /\ <<"end_object">> \o w \in Words
    BY BuiltAreWords, EndWord
  <1> DEFINE z == <<"value_separator">> \o (u \o (<<"end_object">> \o w))
  <1>2. z \in Words
    BY <1>1, SymbolsAreWords, ConcatIsWord
  <1>3. Comma(Member(v), u) \o (<<"end_object">> \o w) = Member(v) \o z
    BY <1>1, CommaBefore
  <1> HIDE DEF z
  <1>4. Member(v) \o z = <<"value_string">> \o (<<"name_separator">> \o (v \o z))
    BY <1>2, MemberBefore
  <1>5. QED
    BY <1>3, <1>4 DEF z

LEMMA FirstOfMembers ==
  ASSUME NEW open \in Stacks, NEW x
  PROVE  x \in AtMembers(Append(open, FALSE)) <=>
           \E y \in AtValue(Append(open, FALSE)) :
             x = <<"value_string">> \o (<<"name_separator">> \o y)
  <1> DEFINE inside == Append(open, FALSE)
             Named(y) == <<"value_string">> \o (<<"name_separator">> \o y)
  <1>1. ASSUME NEW m \in Members, NEW w \in AfterValue(open)
        PROVE  \E v \in Values, end \in ObjectEnds :
                 m \o (<<"end_object">> \o w) = Named(v \o (end \o w))
    <2>1. w \in Words /\ Members \subseteq Words /\ Values \subseteq Words
      BY GrammarClosed DEF AfterValue
    <2>2. ASSUME NEW v \in Values, m = Member(v)
          PROVE  m \o (<<"end_object">> \o w) = Named(v \o (<<"end_object">> \o w))
      <3>1. v \in Words
        BY <2>1
      <3>2. QED
        BY <2>1, <2>2, <3>1, EndWord, MemberBefore, Zenon
    <2>3. ASSUME NEW v \in Values, NEW f \in Members, m = Comma(Member(v), f)
          PROVE  m \o (<<"end_object">> \o w)
                   = Named(v \o ((<<"value_separator">> \o (f \o <<"end_object">>)) \o w))
      <3>1. f \in Words /\ v \in Words
        BY <2>1
      <3>2. m \o (<<"end_object">> \o w)
              = Named(v \o (<<"value_separator">> \o (f \o (<<"end_object">> \o w))))
        BY <2>1, <2>3, <3>1, CommaMember
      <3>3. (<<"value_separator">> \o (f \o <<"end_object">>)) \o w
              = <<"value_separator">> \o (f \o (<<"end_object">> \o w))
        BY <2>1, <3>1, SeparatedBefore
      <3> HIDE DEF Named
      <3>4. QED
        BY <3>2, <3>3
    <2>4. QED
      BY <2>2, <2>3, MemberForms DEF ObjectEnds
  <1>2. ASSUME NEW v \in Values, NEW end \in ObjectEnds, NEW w \in AfterValue(open)
        PROVE  \E m \in Members : Named(v \o (end \o w)) = m \o (<<"end_object">> \o w)
    <2>1. v \in Words /\ w \in Words /\ Members \subseteq Words
      BY GrammarClosed DEF AfterValue
    <2>2. ASSUME end = <<"end_object">>
          PROVE  Named(v \o (end \o w)) = Member(v) \o (<<"end_object">> \o w)
      BY <2>1, <2>2, EndWord, MemberBefore, Zenon
    <2>3. ASSUME NEW f \in Members, end = <<"value_separator">> \o (f \o <<"end_object">>)
          PROVE  Named(v \o (end \o w)) = Comma(Member(v), f) \o (<<"end_object">> \o w)
      <3>1. f \in Words
        BY <2>1
      <3>2. Comma(Member(v), f) \o (<<"end_object">> \o w)
              = Named(v \o (<<"value_separator">> \o (f \o (<<"end_object">> \o w))))
        BY <2>1, <3>1, CommaMember
      <3>3. end \o w = <<"value_separator">> \o (f \o (<<"end_object">> \o w))
        BY <2>1, <2>3, <3>1, SeparatedBefore
      <3> HIDE DEF Named
      <3>4. QED
        BY <3>2, <3>3
    <2>4. Member(v) \in Members /\ \A f \in Members : Comma(Member(v), f) \in Members
      BY GrammarClosed DEF Closed
    <2>5. QED
      BY <2>2, <2>3, <2>4 DEF ObjectEnds
  <1>3. x \in AtMembers(inside) <=>
          \E m \in Members, y \in Behind("end_object", AfterValue(open)) : x = m \o y
    BY MembersSplit, Zenon
  <1>9. \A y : y \in Behind("end_object", AfterValue(open)) <=>
                 \E w \in AfterValue(open) : y = <<"end_object">> \o w
    BY Zenon DEF Behind
  <1>4. \A y : y \in AtValue(inside) <=> \E v \in Values, z \in AfterValue(inside) : y = v \o z
    BY DEF AtValue
  <1>5. \A y : y \in AfterValue(inside) <=>
                 \E end \in ObjectEnds, w \in AfterValue(open) : y = end \o w
    BY AfterInObject, Zenon
  <1> HIDE DEF Named, inside
  <1>6. x \in AtMembers(inside) <=> \E y \in AtValue(inside) : x = Named(y)
    <2>1. ASSUME x \in AtMembers(inside)
          PROVE  \E y \in AtValue(inside) : x = Named(y)
      <3>0. PICK m \in Members, y \in Behind("end_object", AfterValue(open)) : x = m \o y
        BY <1>3, <2>1
      <3>1. PICK w \in AfterValue(open) : y = <<"end_object">> \o w
        BY <1>9
      <3>2. PICK v \in Values, end \in ObjectEnds :
              m \o (<<"end_object">> \o w) = Named(v \o (end \o w))
        BY <1>1
      <3>3. v \o (end \o w) \in AtValue(inside)
        BY <1>4, <1>5
      <3>4. QED
        BY <3>0, <3>1, <3>2, <3>3
    <2>2. ASSUME NEW y \in AtValue(inside), x = Named(y)
          PROVE  x \in AtMembers(inside)
      <3>1. PICK v \in Values, z \in AfterValue(inside) : y = v \o z
        BY <1>4
      <3>2. PICK end \in ObjectEnds, w \in AfterValue(open) : z = end \o w
        BY <1>5
      <3>3. PICK m \in Members : Named(v \o (end \o w)) = m \o (<<"end_object">> \o w)
        BY <1>2
      <3>4. QED
        BY <1>3, <1>9, <2>2, <3>1, <3>2, <3>3
    <2>3. QED
      BY <2>1, <2>2
  <1>7. QED
    BY <1>6 DEF Named, inside

LEMMA BehindStep ==
  ASSUME NEW s \in JsonSymbols, NEW t \in JsonSymbols, NEW W \in SUBSET Words, NEW w \in Words
  PROVE  <<s>> \o w \in Behind(t, W) <=> s = t /\ w \in W
  <1>1. ASSUME <<s>> \o w \in Behind(t, W)
        PROVE  s = t /\ w \in W
    <2>1. PICK u \in W : <<s>> \o w = <<t>> \o u
      BY <1>1, Zenon DEF Behind
    <2>2. u \in Words
      BY <2>1
    <2>3. QED
      BY <2>1, <2>2, SameFirst
  <1>2. ASSUME s = t, w \in W
        PROVE  <<s>> \o w \in Behind(t, W)
    BY <1>2, Zenon DEF Behind
  <1>3. QED
    BY <1>1, <1>2

\* A value and what may follow it.
LEMMA ValuesByFirst ==
  ASSUME NEW open \in Stacks, NEW x
  PROVE  x \in AtValue(open) <=>
           \/ \E t \in ValueTypes : x \in Behind(t, AfterValue(open))
           \/ x \in Behind("begin_array", AtValue(Append(open, TRUE))
                                            \cup Behind("end_array", AfterValue(open)))
           \/ x \in Behind("begin_object", AtMembers(Append(open, FALSE))
                                             \cup Behind("end_object", AfterValue(open)))
  <1> DEFINE elements == AtValue(Append(open, TRUE)) \cup Behind("end_array", AfterValue(open))
             members == AtMembers(Append(open, FALSE))
                          \cup Behind("end_object", AfterValue(open))
  <1>1. AfterValue(open) \subseteq Words /\ Values \subseteq Words
          /\ Elements \subseteq Words /\ Members \subseteq Words
    BY FollowersAreWords, GrammarClosed
  <1>2. ASSUME NEW v \in Values, NEW w \in AfterValue(open)
        PROVE  \/ \E t \in ValueTypes : v \o w \in Behind(t, AfterValue(open))
               \/ v \o w \in Behind("begin_array", elements)
               \/ v \o w \in Behind("begin_object", members)
    <2>1. ASSUME NEW t \in ValueTypes, v = <<t>>
          PROVE  v \o w \in Behind(t, AfterValue(open))
      BY <2>1, Zenon DEF Behind
    <2>2. ASSUME NEW e \in Elements \cup {<<>>}, v = InArray(e)
          PROVE  v \o w \in Behind("begin_array", elements)
      <3>1. e \in Words /\ w \in Words
        BY <1>1, EmptyIsWord
      <3>2. v \o w = <<"begin_array">> \o (e \o (<<"end_array">> \o w))
        BY <2>2, <3>1, BracketsBefore
      <3>3. CASE e \in Elements
        <4>0. <<"end_array">> \o w \in Behind("end_array", AfterValue(open))
          BY Zenon DEF Behind
        <4>1. e \o (<<"end_array">> \o w) \in AtValue(Append(open, TRUE))
          BY <3>3, <4>0, FirstOfElements, Zenon
        <4> HIDE DEF members
        <4>2. QED
          BY <3>2, <4>1, Zenon DEF Behind
      <3>4. CASE e = <<>>
        <4>1. e \o (<<"end_array">> \o w) = <<"end_array">> \o w
          BY <3>1, <3>4, EndWord, NothingBefore
        <4>2. e \o (<<"end_array">> \o w) \in Behind("end_array", AfterValue(open))
          BY <4>1, Zenon DEF Behind
        <4>3. QED
          BY <3>2, <4>2, Zenon DEF Behind
      <3>5. QED
        BY <3>3, <3>4
    <2>3. ASSUME NEW m \in Members \cup {<<>>}, v = InObject(m)
          PROVE  v \o w \in Behind("begin_object", members)
      <3>1. m \in Words /\ w \in Words
        BY <1>1, EmptyIsWord
      <3>2. v \o w = <<"begin_object">> \o (m \o (<<"end_object">> \o w))
        BY <2>3, <3>1, BracketsBefore
      <3>3. <<"end_object">> \o w \in Behind("end_object", AfterValue(open))
        BY Zenon DEF Behind
      <3>4. CASE m \in Members
        <4>1. m \o (<<"end_object">> \o w) \in AtMembers(Append(open, FALSE))
          BY <3>3, <3>4, MembersSplit, Zenon
        <4>2. QED
          BY <3>2, <4>1, Zenon DEF Behind
      <3>5. CASE m = <<>>
        <4>1. m \o (<<"end_object">> \o w) = <<"end_object">> \o w
          BY <3>1, <3>5, EndWord, NothingBefore
        <4>2. QED
          BY <3>2, <3>3, <4>1, Zenon DEF Behind
      <3>6. QED
        BY <3>4, <3>5
    <2> HIDE DEF elements, members
    <2>4. QED
      BY <2>1, <2>2, <2>3, ValueForms, Zenon
  <1>3. ASSUME NEW t \in ValueTypes, x \in Behind(t, AfterValue(open))
        PROVE  x \in AtValue(open)
    <2>1. PICK w \in AfterValue(open) : x = <<t>> \o w
      BY <1>3, Zenon DEF Behind
    <2>2. <<t>> \in Values
      BY GrammarClosed DEF Closed
    <2>3. QED
      BY <2>1, <2>2, ValueSplit, Zenon
  <1>4. ASSUME x \in Behind("begin_array", elements)
        PROVE  x \in AtValue(open)
    <2>1. PICK y \in elements : x = <<"begin_array">> \o y
      BY <1>4, Zenon DEF Behind
    <2>2. \E e \in Elements \cup {<<>>}, z \in Behind("end_array", AfterValue(open)) :
            y = e \o z
      <3>1. CASE y \in AtValue(Append(open, TRUE))
        <4>1. PICK e \in Elements, z \in Behind("end_array", AfterValue(open)) : y = e \o z
          BY <3>1, FirstOfElements, Zenon
        <4>2. QED
          BY <4>1
      <3>2. CASE y \in Behind("end_array", AfterValue(open))
        <4>1. PICK w \in AfterValue(open) : y = <<"end_array">> \o w
          BY <3>2, Zenon DEF Behind
        <4>2. y = <<>> \o y
          BY <1>1, <4>1, EndWord, NothingBefore
        <4>3. QED
          BY <3>2, <4>2
      <3>3. QED
        BY <3>1, <3>2
    <2>3. PICK e \in Elements \cup {<<>>}, z \in Behind("end_array", AfterValue(open)) :
            y = e \o z
      BY <2>2
    <2>8. PICK w \in AfterValue(open) : z = <<"end_array">> \o w
      BY Zenon DEF Behind
    <2>4. e \in Words /\ w \in Words
      BY <1>1, EmptyIsWord
    <2>5. x = InArray(e) \o w
      BY <2>1, <2>3, <2>8, <2>4, BracketsBefore
    <2>6. InArray(e) \in Values
      BY GrammarClosed DEF Closed
    <2>7. QED
      BY <2>5, <2>6, ValueSplit, Zenon
  <1>5. ASSUME x \in Behind("begin_object", members)
        PROVE  x \in AtValue(open)
    <2>1. PICK y \in members : x = <<"begin_object">> \o y
      BY <1>5, Zenon DEF Behind
    <2>2. \E m \in Members \cup {<<>>}, z \in Behind("end_object", AfterValue(open)) :
            y = m \o z
      <3>1. CASE y \in AtMembers(Append(open, FALSE))
        <4>1. PICK m \in Members, z \in Behind("end_object", AfterValue(open)) : y = m \o z
          BY <3>1, MembersSplit, Zenon
        <4>2. QED
          BY <4>1
      <3>2. CASE y \in Behind("end_object", AfterValue(open))
        <4>1. PICK w \in AfterValue(open) : y = <<"end_object">> \o w
          BY <3>2, Zenon DEF Behind
        <4>2. y = <<>> \o y
          BY <1>1, <4>1, EndWord, NothingBefore
        <4>3. QED
          BY <3>2, <4>2
      <3>3. QED
        BY <3>1, <3>2
    <2>3. PICK m \in Members \cup {<<>>}, z \in Behind("end_object", AfterValue(open)) :
            y = m \o z
      BY <2>2
    <2>4. PICK w \in AfterValue(open) : z = <<"end_object">> \o w
      BY Zenon DEF Behind
    <2>5. m \in Words /\ w \in Words
      BY <1>1, EmptyIsWord
    <2>6. x = InObject(m) \o w
      BY <2>1, <2>3, <2>4, <2>5, BracketsBefore
    <2>7. InObject(m) \in Values
      BY GrammarClosed DEF Closed
    <2>8. QED
      BY <2>6, <2>7, ValueSplit, Zenon
  <1>6. x \in AtValue(open) => \E v \in Values, w \in AfterValue(open) : x = v \o w
    BY DEF AtValue
  <1> HIDE DEF elements, members
  <1>7. x \in AtValue(open) <=> \/ \E t \in ValueTypes : x \in Behind(t, AfterValue(open))
                                \/ x \in Behind("begin_array", elements)
                                \/ x \in Behind("begin_object", members)
    BY <1>2, <1>3, <1>4, <1>5, <1>6, Zenon
  <1>8. QED
    BY <1>7, Zenon DEF elements, members

\* The members of an object and what may follow them.
LEMMA MembersByFirst ==
  ASSUME NEW open \in Stacks, NEW x
  PROVE  x \in AtMembers(Append(open, FALSE)) <=>
           x \in Behind("value_string", Behind("name_separator", AtValue(Append(open, FALSE))))
  <1> DEFINE inside == Append(open, FALSE)
             Named == Behind("name_separator", AtValue(inside))
  <1>1. \A z : z \in Named <=> \E y \in AtValue(inside) : z = <<"name_separator">> \o y
    BY Zenon DEF Behind
  <1>2. x \in AtMembers(inside) <=>
          \E y \in AtValue(inside) : x = <<"value_string">> \o (<<"name_separator">> \o y)
    BY FirstOfMembers
  <1> HIDE DEF Named, inside
  <1>3. x \in Behind("value_string", Named) <=> \E z \in Named : x = <<"value_string">> \o z
    BY Zenon DEF Behind
  <1>4. x \in AtMembers(inside) <=> x \in Behind("value_string", Named)
    BY <1>1, <1>2, <1>3
  <1>5. QED
    BY <1>4 DEF Named, inside

\* A comma or a bracket after an element, after a member.
LEMMA AfterElementByFirst ==
  ASSUME NEW open \in Stacks, NEW x
  PROVE  x \in AfterValue(Append(open, TRUE)) <=>
           \/ x \in Behind("end_array", AfterValue(open))
           \/ x \in Behind("value_separator", AtValue(Append(open, TRUE)))
  <1>1. AfterValue(open) \subseteq Words /\ Elements \subseteq Words
    BY FollowersAreWords, GrammarClosed
  <1>2. ASSUME NEW end \in ArrayEnds, NEW w \in AfterValue(open)
        PROVE  \/ end \o w \in Behind("end_array", AfterValue(open))
               \/ end \o w \in Behind("value_separator", AtValue(Append(open, TRUE)))
    <2>1. ASSUME end = <<"end_array">>
          PROVE  end \o w \in Behind("end_array", AfterValue(open))
      BY <2>1, Zenon DEF Behind
    <2>2. ASSUME NEW e \in Elements, end = <<"value_separator">> \o (e \o <<"end_array">>)
          PROVE  end \o w \in Behind("value_separator", AtValue(Append(open, TRUE)))
      <3>1. end \o w = <<"value_separator">> \o (e \o (<<"end_array">> \o w))
        BY <1>1, <2>2, SeparatedBefore
      <3>4. <<"end_array">> \o w \in Behind("end_array", AfterValue(open))
        BY Zenon DEF Behind
      <3>2. e \o (<<"end_array">> \o w) \in AtValue(Append(open, TRUE))
        BY <3>4, FirstOfElements, Zenon
      <3>3. QED
        BY <3>1, <3>2, Zenon DEF Behind
    <2>3. QED
      BY <2>1, <2>2, Zenon DEF ArrayEnds
  <1>3. ASSUME x \in Behind("end_array", AfterValue(open))
        PROVE  \E end \in ArrayEnds, w \in AfterValue(open) : x = end \o w
    <2>1. PICK w \in AfterValue(open) : x = <<"end_array">> \o w
      BY <1>3, Zenon DEF Behind
    <2>2. <<"end_array">> \in ArrayEnds
      BY DEF ArrayEnds
    <2>3. QED
      BY <2>1, <2>2
  <1>4. ASSUME x \in Behind("value_separator", AtValue(Append(open, TRUE)))
        PROVE  \E end \in ArrayEnds, w \in AfterValue(open) : x = end \o w
    <2>1. PICK y \in AtValue(Append(open, TRUE)) : x = <<"value_separator">> \o y
      BY <1>4, Zenon DEF Behind
    <2>2. PICK e \in Elements, z \in Behind("end_array", AfterValue(open)) : y = e \o z
      BY FirstOfElements, Zenon
    <2>6. PICK w \in AfterValue(open) : z = <<"end_array">> \o w
      BY Zenon DEF Behind
    <2>3. <<"value_separator">> \o (e \o <<"end_array">>) \in ArrayEnds
      BY DEF ArrayEnds
    <2>4. x = (<<"value_separator">> \o (e \o <<"end_array">>)) \o w
      BY <1>1, <2>1, <2>2, <2>6, SeparatedBefore
    <2>5. QED
      BY <2>3, <2>4
  <1>5. QED
    BY <1>2, <1>3, <1>4, AfterInArray, Zenon

LEMMA AfterMemberByFirst ==
  ASSUME NEW open \in Stacks, NEW x
  PROVE  x \in AfterValue(Append(open, FALSE)) <=>
           \/ x \in Behind("end_object", AfterValue(open))
           \/ x \in Behind("value_separator", AtMembers(Append(open, FALSE)))
  <1>1. AfterValue(open) \subseteq Words /\ Members \subseteq Words
    BY FollowersAreWords, GrammarClosed
  <1>2. ASSUME NEW end \in ObjectEnds, NEW w \in AfterValue(open)
        PROVE  \/ end \o w \in Behind("end_object", AfterValue(open))
               \/ end \o w \in Behind("value_separator", AtMembers(Append(open, FALSE)))
    <2>1. ASSUME end = <<"end_object">>
          PROVE  end \o w \in Behind("end_object", AfterValue(open))
      BY <2>1, Zenon DEF Behind
    <2>2. ASSUME NEW m \in Members, end = <<"value_separator">> \o (m \o <<"end_object">>)
          PROVE  end \o w \in Behind("value_separator", AtMembers(Append(open, FALSE)))
      <3>1. end \o w = <<"value_separator">> \o (m \o (<<"end_object">> \o w))
        BY <1>1, <2>2, SeparatedBefore
      <3>2. <<"end_object">> \o w \in Behind("end_object", AfterValue(open))
        BY Zenon DEF Behind
      <3>3. m \o (<<"end_object">> \o w) \in AtMembers(Append(open, FALSE))
        BY <3>2, MembersSplit, Zenon
      <3>4. QED
        BY <3>1, <3>3, Zenon DEF Behind
    <2>3. QED
      BY <2>1, <2>2, Zenon DEF ObjectEnds
  <1>3. ASSUME x \in Behind("end_object", AfterValue(open))
        PROVE  \E end \in ObjectEnds, w \in AfterValue(open) : x = end \o w
    <2>1. PICK w \in AfterValue(open) : x = <<"end_object">> \o w
      BY <1>3, Zenon DEF Behind
    <2>2. <<"end_object">> \in ObjectEnds
      BY DEF ObjectEnds
    <2>3. QED
      BY <2>1, <2>2
  <1>4. ASSUME x \in Behind("value_separator", AtMembers(Append(open, FALSE)))
        PROVE  \E end \in ObjectEnds, w \in AfterValue(open) : x = end \o w
    <2>1. PICK y \in AtMembers(Append(open, FALSE)) : x = <<"value_separator">> \o y
      BY <1>4, Zenon DEF Behind
    <2>2. PICK m \in Members, z \in Behind("end_object", AfterValue(open)) : y = m \o z
      BY MembersSplit, Zenon
    <2>3. PICK w \in AfterValue(open) : z = <<"end_object">> \o w
      BY Zenon DEF Behind
    <2>4. <<"value_separator">> \o (m \o <<"end_object">>) \in ObjectEnds
      BY DEF ObjectEnds
    <2>5. x = (<<"value_separator">> \o (m \o <<"end_object">>)) \o w
      BY <1>1, <2>1, <2>2, <2>3, SeparatedBefore
    <2>6. QED
      BY <2>4, <2>5
  <1>5. QED
    BY <1>2, <1>3, <1>4, AfterInObject, Zenon

-----------------------------------------------------------------------------
(***************************************************************************)
(* One symbol further: what may follow a symbol is what may follow where   *)
(* the parser is when it has read it.                                      *)
(***************************************************************************)
LEMMA ValueStep ==
  ASSUME NEW open \in Stacks, NEW s \in JsonSymbols, NEW w \in Words
  PROVE  <<s>> \o w \in AtValue(open) <=>
           \/ s \in ValueTypes /\ w \in AfterValue(open)
           \/ s = "begin_array" /\ w \in AtValue(Append(open, TRUE))
                                           \cup Behind("end_array", AfterValue(open))
           \/ s = "begin_object" /\ w \in AtMembers(Append(open, FALSE))
                                            \cup Behind("end_object", AfterValue(open))
  <1> DEFINE elements == AtValue(Append(open, TRUE)) \cup Behind("end_array", AfterValue(open))
             members == AtMembers(Append(open, FALSE))
                          \cup Behind("end_object", AfterValue(open))
  <1>1. AfterValue(open) \in SUBSET Words
    BY FollowersAreWords
  <1>2. elements \in SUBSET Words /\ members \in SUBSET Words
    <2>1. \A u \in AfterValue(open) : <<"end_array">> \o u \in Words
                                        /\ <<"end_object">> \o u \in Words
      BY <1>1, EndWord
    <2>2. Behind("end_array", AfterValue(open)) \subseteq Words
            /\ Behind("end_object", AfterValue(open)) \subseteq Words
      BY <2>1, Zenon DEF Behind
    <2>3. AtValue(Append(open, TRUE)) \subseteq Words
            /\ AtMembers(Append(open, FALSE)) \subseteq Words
      BY FollowersAreWords, Pushed
    <2>4. QED
      BY <2>2, <2>3
  <1>3. <<s>> \o w \in AtValue(open) <=>
          \/ \E t \in ValueTypes : <<s>> \o w \in Behind(t, AfterValue(open))
          \/ <<s>> \o w \in Behind("begin_array", elements)
          \/ <<s>> \o w \in Behind("begin_object", members)
    BY ValuesByFirst
  <1> HIDE DEF elements, members
  <1>4. \A t \in ValueTypes : <<s>> \o w \in Behind(t, AfterValue(open)) <=>
                                s = t /\ w \in AfterValue(open)
    BY <1>1, BehindStep, SymbolsAreWords
  <1>5. <<s>> \o w \in Behind("begin_array", elements) <=> s = "begin_array" /\ w \in elements
    BY <1>2, BehindStep, SymbolsAreWords
  <1>6. <<s>> \o w \in Behind("begin_object", members) <=> s = "begin_object" /\ w \in members
    BY <1>2, BehindStep, SymbolsAreWords
  <1>7. <<s>> \o w \in AtValue(open) <=>
          \/ s \in ValueTypes /\ w \in AfterValue(open)
          \/ s = "begin_array" /\ w \in elements
          \/ s = "begin_object" /\ w \in members
    BY <1>3, <1>4, <1>5, <1>6, Zenon
  <1>8. QED
    BY <1>7, Zenon DEF elements, members

LEMMA SeparatorStep ==
  ASSUME NEW open \in Stacks, NEW s \in JsonSymbols, NEW w \in Words
  PROVE  <<s>> \o w \in Behind("name_separator", AtValue(open)) <=>
           s = "name_separator" /\ w \in AtValue(open)
  <1>1. AtValue(open) \in SUBSET Words
    BY FollowersAreWords
  <1>2. QED
    BY <1>1, BehindStep, SymbolsAreWords

LEMMA MembersStep ==
  ASSUME NEW open \in Stacks, NEW s \in JsonSymbols, NEW w \in Words
  PROVE  <<s>> \o w \in AtMembers(Append(open, FALSE)) <=>
           s = "value_string" /\ w \in Behind("name_separator", AtValue(Append(open, FALSE)))
  <1> DEFINE Named == Behind("name_separator", AtValue(Append(open, FALSE)))
  <1>1. Append(open, FALSE) \in Stacks
    BY Pushed
  <1>2. AtValue(Append(open, FALSE)) \subseteq Words
    BY <1>1, FollowersAreWords
  <1>3. \A u \in AtValue(Append(open, FALSE)) : <<"name_separator">> \o u \in Words
    BY <1>2, SymbolsAreWords, ConcatIsWord
  <1>4. Named \in SUBSET Words
    BY <1>3, Zenon DEF Behind
  <1>5. <<s>> \o w \in AtMembers(Append(open, FALSE)) <=>
          <<s>> \o w \in Behind("value_string", Named)
    BY MembersByFirst
  <1> HIDE DEF Named
  <1>6. <<s>> \o w \in Behind("value_string", Named) <=> s = "value_string" /\ w \in Named
    BY <1>4, BehindStep, SymbolsAreWords
  <1>7. <<s>> \o w \in AtMembers(Append(open, FALSE)) <=> s = "value_string" /\ w \in Named
    BY <1>5, <1>6
  <1>8. QED
    BY <1>7 DEF Named

LEMMA EndStep ==
  ASSUME NEW open \in Stacks, NEW s \in JsonSymbols, NEW w \in Words
  PROVE  /\ <<s>> \o w \in Behind("end_array", AfterValue(open)) <=>
              s = "end_array" /\ w \in AfterValue(open)
         /\ <<s>> \o w \in Behind("end_object", AfterValue(open)) <=>
              s = "end_object" /\ w \in AfterValue(open)
  <1>1. AfterValue(open) \in SUBSET Words
    BY FollowersAreWords
  <1>2. QED
    BY <1>1, BehindStep, SymbolsAreWords

LEMMA AfterElementStep ==
  ASSUME NEW open \in Stacks, NEW s \in JsonSymbols, NEW w \in Words
  PROVE  <<s>> \o w \in AfterValue(Append(open, TRUE)) <=>
           \/ s = "end_array" /\ w \in AfterValue(open)
           \/ s = "value_separator" /\ w \in AtValue(Append(open, TRUE))
  <1>1. Append(open, TRUE) \in Stacks
    BY Pushed
  <1> DEFINE W == AtValue(Append(open, TRUE))
  <1>2. W \in SUBSET Words
    BY <1>1, FollowersAreWords
  <1>3. <<s>> \o w \in AfterValue(Append(open, TRUE)) <=>
          \/ <<s>> \o w \in Behind("end_array", AfterValue(open))
          \/ <<s>> \o w \in Behind("value_separator", W)
    BY AfterElementByFirst
  <1> HIDE DEF W
  <1>4. <<s>> \o w \in Behind("value_separator", W) <=> s = "value_separator" /\ w \in W
    BY <1>2, BehindStep, SymbolsAreWords
  <1>5. <<s>> \o w \in AfterValue(Append(open, TRUE)) <=>
          \/ s = "end_array" /\ w \in AfterValue(open)
          \/ s = "value_separator" /\ w \in W
    BY <1>3, <1>4, EndStep, Zenon
  <1>6. QED
    BY <1>5 DEF W

LEMMA AfterMemberStep ==
  ASSUME NEW open \in Stacks, NEW s \in JsonSymbols, NEW w \in Words
  PROVE  <<s>> \o w \in AfterValue(Append(open, FALSE)) <=>
           \/ s = "end_object" /\ w \in AfterValue(open)
           \/ s = "value_separator" /\ w \in AtMembers(Append(open, FALSE))
  <1> DEFINE W == AtMembers(Append(open, FALSE))
  <1>1. W \in SUBSET Words
    BY FollowersAreWords
  <1>2. <<s>> \o w \in AfterValue(Append(open, FALSE)) <=>
          \/ <<s>> \o w \in Behind("end_object", AfterValue(open))
          \/ <<s>> \o w \in Behind("value_separator", W)
    BY AfterMemberByFirst
  <1> HIDE DEF W
  <1>3. <<s>> \o w \in Behind("value_separator", W) <=> s = "value_separator" /\ w \in W
    BY <1>1, BehindStep, SymbolsAreWords
  <1>4. <<s>> \o w \in AfterValue(Append(open, FALSE)) <=>
          \/ s = "end_object" /\ w \in AfterValue(open)
          \/ s = "value_separator" /\ w \in W
    BY <1>2, <1>3, EndStep, Zenon
  <1>5. QED
    BY <1>4 DEF W

\* Something has to follow, but for the end of the whole text.
LEMMA BehindIsSomething ==
  ASSUME NEW s \in JsonSymbols, NEW W \in SUBSET Words
  PROVE  <<>> \notin Behind(s, W)
  <1>1. \A w \in W : <<s>> \o w # <<>>
    BY FirstIsSomething
  <1>2. QED
    BY <1>1, Zenon DEF Behind

LEMMA SomethingFollows ==
  ASSUME NEW open \in Stacks
  PROVE  /\ <<>> \notin AtValue(open)
         /\ <<>> \notin Behind("name_separator", AtValue(open))
         /\ <<>> \notin Behind("end_array", AfterValue(open))
         /\ <<>> \notin Behind("end_object", AfterValue(open))
         /\ <<>> \notin AtMembers(Append(open, FALSE))
         /\ <<>> \notin AfterValue(Append(open, TRUE))
         /\ <<>> \notin AfterValue(Append(open, FALSE))
  <1>1. /\ AfterValue(open) \in SUBSET Words /\ AtValue(open) \in SUBSET Words
        /\ AtMembers(Append(open, FALSE)) \in SUBSET Words
    BY FollowersAreWords
  <1>2. \A o \in Stacks : AtValue(o) \in SUBSET Words
    BY FollowersAreWords
  <1>3. Append(open, TRUE) \in Stacks /\ Append(open, FALSE) \in Stacks
    BY Pushed
  <1> DEFINE elements == AtValue(Append(open, TRUE)) \cup Behind("end_array", AfterValue(open))
             members == AtMembers(Append(open, FALSE))
                          \cup Behind("end_object", AfterValue(open))
  <1>4. \A u \in AfterValue(open) : <<"end_array">> \o u \in Words
                                      /\ <<"end_object">> \o u \in Words
    BY <1>1, EndWord
  <1>5. Behind("end_array", AfterValue(open)) \in SUBSET Words
          /\ Behind("end_object", AfterValue(open)) \in SUBSET Words
    BY <1>4, Zenon DEF Behind
  <1>6. elements \in SUBSET Words /\ members \in SUBSET Words
    BY <1>1, <1>2, <1>3, <1>5
  <1>7. \A u \in AtValue(Append(open, FALSE)) : <<"name_separator">> \o u \in Words
    BY <1>2, <1>3, SymbolsAreWords, ConcatIsWord
  <1>8. Behind("name_separator", AtValue(Append(open, FALSE))) \in SUBSET Words
    BY <1>7, Zenon DEF Behind
  <1>9. <<>> \notin AtValue(open)
    <2>1. \A t \in ValueTypes : <<>> \notin Behind(t, AfterValue(open))
      BY <1>1, BehindIsSomething, SymbolsAreWords
    <2>2. <<>> \notin Behind("begin_array", elements) /\ <<>> \notin Behind("begin_object", members)
      BY <1>6, BehindIsSomething, SymbolsAreWords
    <2>3. QED
      BY <2>1, <2>2, ValuesByFirst, Zenon
  <1>10. <<>> \notin Behind("name_separator", AtValue(open))
    BY <1>1, BehindIsSomething, SymbolsAreWords
  <1>11. <<>> \notin Behind("end_array", AfterValue(open))
           /\ <<>> \notin Behind("end_object", AfterValue(open))
    BY <1>1, BehindIsSomething, SymbolsAreWords
  <1>12. <<>> \notin AtMembers(Append(open, FALSE))
    BY <1>8, BehindIsSomething, SymbolsAreWords, MembersByFirst
  <1>13. <<>> \notin AfterValue(Append(open, TRUE))
    <2>1. <<>> \notin Behind("value_separator", AtValue(Append(open, TRUE)))
      BY <1>2, <1>3, BehindIsSomething, SymbolsAreWords
    <2>2. QED
      BY <2>1, <1>11, AfterElementByFirst
  <1>14. <<>> \notin AfterValue(Append(open, FALSE))
    <2>1. <<>> \notin Behind("value_separator", AtMembers(Append(open, FALSE)))
      BY <1>1, BehindIsSomething, SymbolsAreWords
    <2>2. QED
      BY <2>1, <1>11, AfterMemberByFirst
  <1>15. QED
    BY <1>9, <1>10, <1>11, <1>12, <1>13, <1>14, Zenon


-----------------------------------------------------------------------------
(***************************************************************************)
(* The parser.  A token is the symbol of its type; a float that overflows  *)
(* is none of the grammar's, and neither is the end of the input.          *)
(***************************************************************************)
Symbol(t) == IF Overflows(t) THEN "overflow" ELSE t.type
Symbols(ts) == [i \in 1 .. Len(ts) |-> Symbol(ts[i])]

TokensRead == {[type |-> t.type, value |-> t.value, keep |-> k] :
                 t \in Tokens \cup {EndOfInput}, k \in BOOLEAN}

\* What a text begins with.
Beginnings == {w \in Words : \E rest \in Words : w \o rest \in Values}

\* What may follow where the parser is, with this stack of open containers; and
\* the stacks it may have there.
FollowOf(place, stack) ==
  CASE place = "value" -> AtValue(stack)
    [] place = "arrayFirst" -> AtValue(Append(stack, TRUE))
                                 \cup Behind("end_array", AfterValue(stack))
    [] place = "objectFirst" -> AtMembers(Append(stack, FALSE))
                                  \cup Behind("end_object", AfterValue(stack))
    [] place = "key" -> AtMembers(stack)
    [] place = "firstSeparator" -> Behind("name_separator", AtValue(Append(stack, FALSE)))
    [] place = "separator" -> Behind("name_separator", AtValue(stack))
    [] OTHER -> AfterValue(stack)

Fits(place, stack) ==
  /\ stack \in Stacks
  /\ place \in {"key", "separator", "evaluate"} => stack # <<>>
  /\ place \in {"key", "separator"} => ~Last(stack)
  /\ place \in {"end", "done"} => stack = <<>>

Places == {"value", "arrayFirst", "objectFirst", "key", "firstSeparator", "separator",
           "evaluate", "end", "done"}

LEMMA FollowOfPlaces ==
  ASSUME NEW stack
  PROVE  /\ FollowOf("value", stack) = AtValue(stack)
         /\ FollowOf("arrayFirst", stack) = AtValue(Append(stack, TRUE))
                                              \cup Behind("end_array", AfterValue(stack))
         /\ FollowOf("objectFirst", stack) = AtMembers(Append(stack, FALSE))
                                               \cup Behind("end_object", AfterValue(stack))
         /\ FollowOf("key", stack) = AtMembers(stack)
         /\ FollowOf("firstSeparator", stack)
              = Behind("name_separator", AtValue(Append(stack, FALSE)))
         /\ FollowOf("separator", stack) = Behind("name_separator", AtValue(stack))
         /\ \A place \in {"evaluate", "end", "done"} : FollowOf(place, stack) = AfterValue(stack)
  BY DEF FollowOf

\* A stack that is not empty is one with a container pushed.
LEMMA TopOf ==
  ASSUME NEW stack \in Stacks, stack # <<>>
  PROVE  /\ Front(stack) \in Stacks
         /\ Last(stack) \in BOOLEAN
         /\ stack = Append(Front(stack), Last(stack))
  <1> DEFINE front == [i \in 1 .. Len(stack) - 1 |-> stack[i]]
             last == stack[Len(stack)]
  <1>1. stack \in Seq(BOOLEAN) /\ Len(stack) \in Nat /\ Len(stack) # 0
    BY DEF Stacks
  <1>2. /\ front \in Seq(BOOLEAN) /\ Len(front) = Len(stack) - 1
        /\ \A i \in 1 .. Len(stack) - 1 : front[i] = stack[i]
        /\ last \in BOOLEAN /\ last = stack[Len(stack)]
    BY <1>1
  <1> HIDE DEF front, last
  <1>3. stack = Append(front, last)
    <2>1. Append(front, last) \in Seq(BOOLEAN) /\ Len(Append(front, last)) = Len(stack)
            /\ \A i \in 1 .. Len(stack) : Append(front, last)[i] = stack[i]
      BY <1>1, <1>2
    <2>2. QED
      BY <1>1, <2>1
  <1>4. Front(Append(front, last)) = front /\ Last(Append(front, last)) = last
    BY <1>2, FrontOfPushed
  <1>5. QED
    BY <1>2, <1>3, <1>4, Zenon DEF Stacks

LEMMA ReadOne ==
  ASSUME NEW ts \in Seq(TokensRead), NEW r \in TokensRead
  PROVE  Symbols(Append(ts, r)) = Append(Symbols(ts), Symbol(r))
  <1> DEFINE all == Append(ts, r)
  <1>1. /\ Len(ts) \in Nat /\ Len(all) = Len(ts) + 1
        /\ \A i \in 1 .. Len(ts) : all[i] = ts[i]
        /\ all[Len(ts) + 1] = r
    BY AppendProperties
  <1> HIDE DEF all
  <1> DEFINE w == [i \in 1 .. Len(ts) |-> Symbol(ts[i])]
  <1>2. w \in Seq({Symbol(ts[i]) : i \in 1 .. Len(ts)}) /\ Len(w) = Len(ts)
    BY <1>1
  <1>3. QED
    BY <1>1, <1>2 DEF Symbols, all

LEMMA AfterOne ==
  ASSUME NEW w \in Words, NEW s \in JsonSymbols, NEW u \in Words
  PROVE  /\ Append(w, s) \in Words
         /\ Append(w, s) \o u = w \o (<<s>> \o u)
         /\ <<s>> \o u \in Words
  <1>1. Append(w, s) = w \o <<s>>
    BY AppendIsConcat DEF Words
  <1>2. QED
    BY <1>1, SymbolIsWord, ConcatIsWord, Associative

(***************************************************************************)
(* Each symbol the parser takes: what may follow it is what may follow at  *)
(* the place the parser goes to, and the open containers can be closed.    *)
(***************************************************************************)
Leads(place, stack, s, next, open) ==
  /\ Fits(next, open)
  /\ AfterValue(stack) # {} => AfterValue(open) # {}
  /\ \A w \in Words : <<s>> \o w \in FollowOf(place, stack) <=> w \in FollowOf(next, open)

LEMMA Closable ==
  ASSUME NEW open \in Stacks, NEW b \in BOOLEAN
  PROVE  AfterValue(Append(open, b)) # {} <=> AfterValue(open) # {}
  <1>1. <<"end_array">> \in ArrayEnds /\ <<"end_object">> \in ObjectEnds
    BY DEF ArrayEnds, ObjectEnds
  <1>2. AfterValue(Append(open, TRUE)) # {} <=> AfterValue(open) # {}
    <2>1. ASSUME NEW w \in AfterValue(open)
          PROVE  <<"end_array">> \o w \in AfterValue(Append(open, TRUE))
      BY <1>1, AfterInArray, Zenon
    <2>2. ASSUME NEW x \in AfterValue(Append(open, TRUE))
          PROVE  \E w \in AfterValue(open) : TRUE
      BY AfterInArray, Zenon
    <2>3. QED
      BY <2>1, <2>2
  <1>3. AfterValue(Append(open, FALSE)) # {} <=> AfterValue(open) # {}
    <2>1. ASSUME NEW w \in AfterValue(open)
          PROVE  <<"end_object">> \o w \in AfterValue(Append(open, FALSE))
      BY <1>1, AfterInObject, Zenon
    <2>2. ASSUME NEW x \in AfterValue(Append(open, FALSE))
          PROVE  \E w \in AfterValue(open) : TRUE
      BY AfterInObject, Zenon
    <2>3. QED
      BY <2>1, <2>2
  <1>4. CASE b = TRUE
    BY <1>2, <1>4
  <1>5. CASE b = FALSE
    BY <1>3, <1>5
  <1>6. QED
    BY <1>4, <1>5

LEMMA TypesDiffer ==
  /\ \A s \in ValueTypes : s \notin {"begin_array", "begin_object", "end_array", "end_object",
                                     "name_separator", "value_separator"}
  /\ "value_string" \in ValueTypes
  BY DEF ValueTypes

\* A value is complete, in the containers `open`.
Completed(next, open) ==
  /\ open \in Stacks
  /\ next \in {"evaluate", "end", "done"}
  /\ next = "evaluate" <=> open # <<>>

LEMMA CompletedFollow ==
  ASSUME NEW next, NEW open, Completed(next, open)
  PROVE  Fits(next, open) /\ FollowOf(next, open) = AfterValue(open)
  BY FollowOfPlaces DEF Completed, Fits

LEMMA ScalarLeads ==
  ASSUME NEW place \in {"value", "arrayFirst"}, NEW stack \in Stacks, NEW s \in ValueTypes,
         NEW next, NEW open, Completed(next, open),
         open = IF place = "arrayFirst" THEN Append(stack, TRUE) ELSE stack
  PROVE  Leads(place, stack, s, next, open)
  <1>1. Fits(next, open) /\ FollowOf(next, open) = AfterValue(open)
    BY CompletedFollow
  <1>2. AfterValue(stack) # {} => AfterValue(open) # {}
    BY Closable
  <1>3. s \in JsonSymbols /\ s \notin {"begin_array", "begin_object", "end_array"}
    BY SymbolsAreWords, TypesDiffer
  <1>4. ASSUME NEW w \in Words
        PROVE  <<s>> \o w \in FollowOf(place, stack) <=> w \in AfterValue(open)
    <2>1. CASE place = "value"
      <3>1. <<s>> \o w \in AtValue(stack) <=> w \in AfterValue(stack)
        BY <1>3, ValueStep
      <3>2. QED
        BY <2>1, <3>1, FollowOfPlaces
    <2>2. CASE place = "arrayFirst"
      <3>1. <<s>> \o w \in AtValue(Append(stack, TRUE)) <=> w \in AfterValue(Append(stack, TRUE))
        BY <1>3, ValueStep, Pushed
      <3>2. <<s>> \o w \notin Behind("end_array", AfterValue(stack))
        BY <1>3, EndStep
      <3>3. QED
        BY <2>2, <3>1, <3>2, FollowOfPlaces
    <2>3. QED
      BY <2>1, <2>2
  <1>5. QED
    BY <1>1, <1>2, <1>4, Zenon DEF Leads

LEMMA BeginLeads ==
  ASSUME NEW place \in {"value", "arrayFirst"}, NEW stack \in Stacks,
         NEW s, NEW next, NEW open,
         \/ s = "begin_array" /\ next = "arrayFirst"
         \/ s = "begin_object" /\ next = "objectFirst",
         open = IF place = "arrayFirst" THEN Append(stack, TRUE) ELSE stack
  PROVE  Leads(place, stack, s, next, open)
  <1>0. s \in JsonSymbols /\ s \notin ValueTypes
    BY DEF JsonSymbols, ValueTypes
  <1>1. open \in Stacks
    BY Pushed
  <1>2. Fits(next, open)
    BY <1>1 DEF Fits
  <1>3. AfterValue(stack) # {} => AfterValue(open) # {}
    BY Closable
  <1>4. ASSUME NEW w \in Words
        PROVE  <<s>> \o w \in AtValue(open) <=> w \in FollowOf(next, open)
    BY <1>0, <1>1, ValueStep, FollowOfPlaces
  <1>5. ASSUME NEW w \in Words
        PROVE  <<s>> \o w \in FollowOf(place, stack) <=> <<s>> \o w \in AtValue(open)
    <2>1. CASE place = "value"
      BY <2>1, FollowOfPlaces
    <2>2. CASE place = "arrayFirst"
      <3>1. <<s>> \o w \notin Behind("end_array", AfterValue(stack))
        BY <1>0, EndStep
      <3>2. QED
        BY <2>2, <3>1, FollowOfPlaces
    <2>3. QED
      BY <2>1, <2>2
  <1>6. QED
    BY <1>2, <1>3, <1>4, <1>5, Zenon DEF Leads

LEMMA EndEmptyLeads ==
  ASSUME NEW place, NEW stack \in Stacks, NEW s, NEW next, Completed(next, stack),
         \/ place = "arrayFirst" /\ s = "end_array"
         \/ place = "objectFirst" /\ s = "end_object"
  PROVE  Leads(place, stack, s, next, stack)
  <1>1. Fits(next, stack) /\ FollowOf(next, stack) = AfterValue(stack)
    BY CompletedFollow
  <1>2. s \in JsonSymbols /\ s \notin ValueTypes
    BY DEF JsonSymbols, ValueTypes
  <1>3. ASSUME NEW w \in Words
        PROVE  <<s>> \o w \in FollowOf(place, stack) <=> w \in AfterValue(stack)
    <2>1. CASE place = "arrayFirst" /\ s = "end_array"
      <3>1. <<s>> \o w \notin AtValue(Append(stack, TRUE))
        BY <1>2, <2>1, ValueStep, Pushed
      <3>2. QED
        BY <1>2, <2>1, <3>1, EndStep, FollowOfPlaces
    <2>2. CASE place = "objectFirst" /\ s = "end_object"
      <3>1. <<s>> \o w \notin AtMembers(Append(stack, FALSE))
        BY <1>2, <2>2, MembersStep
      <3>2. QED
        BY <1>2, <2>2, <3>1, EndStep, FollowOfPlaces
    <2>3. QED
      BY <2>1, <2>2
  <1>4. QED
    BY <1>1, <1>3, Zenon DEF Leads

LEMMA KeyLeads ==
  ASSUME NEW place \in {"objectFirst", "key"}, NEW stack, Fits(place, stack), NEW next,
         next = IF place = "key" THEN "separator" ELSE "firstSeparator"
  PROVE  Leads(place, stack, "value_string", next, stack)
  <1>1. stack \in Stacks /\ "value_string" \in JsonSymbols
    BY SymbolsAreWords DEF Fits
  <1>2. CASE place = "objectFirst"
    <2>1. Fits(next, stack)
      BY <1>1, <1>2 DEF Fits
    <2>2. ASSUME NEW w \in Words
          PROVE  <<"value_string">> \o w \in FollowOf(place, stack) <=> w \in FollowOf(next, stack)
      <3>1. <<"value_string">> \o w \notin Behind("end_object", AfterValue(stack))
        BY <1>1, EndStep
      <3>2. <<"value_string">> \o w \in AtMembers(Append(stack, FALSE)) <=>
              w \in Behind("name_separator", AtValue(Append(stack, FALSE)))
        BY <1>1, MembersStep
      <3>3. QED
        BY <1>2, <3>1, <3>2, FollowOfPlaces
    <2>3. QED
      BY <2>1, <2>2, Zenon DEF Leads
  <1>3. CASE place = "key"
    <2>1. Fits(next, stack)
      BY <1>1, <1>3 DEF Fits
    <2>2. Front(stack) \in Stacks /\ stack = Append(Front(stack), FALSE)
      BY <1>1, <1>3, TopOf DEF Fits
    <2>3. ASSUME NEW w \in Words
          PROVE  <<"value_string">> \o w \in FollowOf(place, stack) <=> w \in FollowOf(next, stack)
      <3>1. <<"value_string">> \o w \in AtMembers(stack) <=>
              w \in Behind("name_separator", AtValue(stack))
        BY <1>1, <2>2, MembersStep
      <3>2. QED
        BY <1>3, <3>1, FollowOfPlaces
    <2>4. QED
      BY <2>1, <2>3, Zenon DEF Leads
  <1>4. QED
    BY <1>2, <1>3

LEMMA SeparatorLeads ==
  ASSUME NEW place \in {"firstSeparator", "separator"}, NEW stack, Fits(place, stack), NEW open,
         open = IF place = "firstSeparator" THEN Append(stack, FALSE) ELSE stack
  PROVE  Leads(place, stack, "name_separator", "value", open)
  <1>1. stack \in Stacks /\ open \in Stacks /\ "name_separator" \in JsonSymbols
    BY SymbolsAreWords, Pushed DEF Fits
  <1>2. Fits("value", open) /\ (AfterValue(stack) # {} => AfterValue(open) # {})
    BY <1>1, Closable DEF Fits
  <1>3. FollowOf(place, stack) = Behind("name_separator", AtValue(open))
    BY FollowOfPlaces
  <1>4. ASSUME NEW w \in Words
        PROVE  <<"name_separator">> \o w \in FollowOf(place, stack) <=>
                 w \in FollowOf("value", open)
    <2>1. <<"name_separator">> \o w \in Behind("name_separator", AtValue(open)) <=>
            w \in AtValue(open)
      BY <1>1, SeparatorStep
    <2>2. QED
      BY <1>3, <2>1, FollowOfPlaces
  <1>5. QED
    BY <1>2, <1>4, Zenon DEF Leads

LEMMA NextLeads ==
  ASSUME NEW stack, Fits("evaluate", stack), NEW next,
         next = IF Last(stack) THEN "value" ELSE "key"
  PROVE  Leads("evaluate", stack, "value_separator", next, stack)
  <1>1. stack \in Stacks /\ stack # <<>> /\ "value_separator" \in JsonSymbols
    BY SymbolsAreWords DEF Fits
  <1>2. Front(stack) \in Stacks /\ Last(stack) \in BOOLEAN
          /\ stack = Append(Front(stack), Last(stack))
    BY <1>1, TopOf
  <1>3. Fits(next, stack)
    BY <1>1, <1>2 DEF Fits
  <1>4. ASSUME NEW w \in Words
        PROVE  <<"value_separator">> \o w \in AfterValue(stack) <=> w \in FollowOf(next, stack)
    <2>1. CASE Last(stack) = TRUE
      <3>1. stack = Append(Front(stack), TRUE)
        BY <1>2, <2>1
      <3>2. <<"value_separator">> \o w \in AfterValue(stack) <=> w \in AtValue(stack)
        BY <1>1, <1>2, <3>1, AfterElementStep
      <3>3. QED
        BY <2>1, <3>2, FollowOfPlaces
    <2>2. CASE Last(stack) = FALSE
      <3>1. stack = Append(Front(stack), FALSE)
        BY <1>2, <2>2
      <3>2. <<"value_separator">> \o w \in AfterValue(stack) <=> w \in AtMembers(stack)
        BY <1>1, <1>2, <3>1, AfterMemberStep
      <3>3. QED
        BY <2>2, <3>2, FollowOfPlaces
    <2>3. QED
      BY <1>2, <2>1, <2>2
  <1>5. QED
    BY <1>3, <1>4, FollowOfPlaces, Zenon DEF Leads

LEMMA EndLeads ==
  ASSUME NEW stack, Fits("evaluate", stack), NEW s, NEW next,
         s = IF Last(stack) THEN "end_array" ELSE "end_object",
         Completed(next, Front(stack))
  PROVE  Leads("evaluate", stack, s, next, Front(stack))
  <1> DEFINE open == Front(stack)
  <1>1. stack \in Stacks /\ stack # <<>> /\ s \in JsonSymbols
    BY SymbolsAreWords DEF Fits
  <1>2. open \in Stacks /\ Last(stack) \in BOOLEAN /\ stack = Append(open, Last(stack))
    BY <1>1, TopOf
  <1>3. Fits(next, open) /\ FollowOf(next, open) = AfterValue(open)
    BY CompletedFollow
  <1> HIDE DEF open
  <1>4. AfterValue(stack) # {} => AfterValue(open) # {}
    BY <1>2, Closable
  <1>5. ASSUME NEW w \in Words
        PROVE  <<s>> \o w \in AfterValue(stack) <=> w \in AfterValue(open)
    <2>1. CASE Last(stack) = TRUE
      <3>1. stack = Append(open, TRUE) /\ s = "end_array"
        BY <1>2, <2>1
      <3>2. QED
        BY <1>1, <1>2, <3>1, AfterElementStep
    <2>2. CASE Last(stack) = FALSE
      <3>1. stack = Append(open, FALSE) /\ s = "end_object"
        BY <1>2, <2>2
      <3>2. QED
        BY <1>1, <1>2, <3>1, AfterMemberStep
    <2>3. QED
      BY <1>2, <2>1, <2>2
  <1>6. Leads("evaluate", stack, s, next, open)
    BY <1>3, <1>4, <1>5, FollowOfPlaces, Zenon DEF Leads
  <1>7. QED
    BY <1>6 DEF open

(***************************************************************************)
(* Each symbol the parser does not take: nothing of the grammar goes on    *)
(* with it.  And a text is complete only where the parser looks for its    *)
(* end.                                                                    *)
(***************************************************************************)
ExpectedAt(place, stack) ==
  CASE place = "value" -> ValueTypes \cup {"begin_object", "begin_array"}
    [] place = "arrayFirst" -> ValueTypes \cup {"begin_object", "begin_array", "end_array"}
    [] place = "objectFirst" -> {"end_object", "value_string"}
    [] place = "key" -> {"value_string"}
    [] place \in {"firstSeparator", "separator"} -> {"name_separator"}
    [] place = "evaluate" -> {"value_separator", IF Last(stack) THEN "end_array" ELSE "end_object"}
    [] OTHER -> {"end_of_input"}

LEMMA OnlyExpectedFollows ==
  ASSUME NEW place \in Places, NEW stack, Fits(place, stack), NEW s \in JsonSymbols,
         s \notin ExpectedAt(place, stack), NEW w \in Words
  PROVE  <<s>> \o w \notin FollowOf(place, stack)
  <1>1. stack \in Stacks
    BY DEF Fits
  <1>2. CASE place = "value"
    <2>1. s \notin ValueTypes \cup {"begin_object", "begin_array"}
      BY <1>2 DEF ExpectedAt
    <2>2. <<s>> \o w \notin AtValue(stack)
      BY <1>1, <2>1, ValueStep
    <2>3. QED
      BY <1>2, <2>2, FollowOfPlaces
  <1>3. CASE place = "arrayFirst"
    <2>1. s \notin ValueTypes \cup {"begin_object", "begin_array", "end_array"}
      BY <1>3 DEF ExpectedAt
    <2>2. Append(stack, TRUE) \in Stacks
      BY <1>1, Pushed
    <2>3. <<s>> \o w \notin AtValue(Append(stack, TRUE))
      BY <2>1, <2>2, ValueStep
    <2>4. <<s>> \o w \notin Behind("end_array", AfterValue(stack))
      BY <1>1, <2>1, EndStep
    <2>5. QED
      BY <1>3, <2>3, <2>4, FollowOfPlaces
  <1>4. CASE place = "objectFirst"
    <2>1. s \notin {"end_object", "value_string"}
      BY <1>4 DEF ExpectedAt
    <2>2. <<s>> \o w \notin AtMembers(Append(stack, FALSE))
      BY <1>1, <2>1, MembersStep
    <2>3. <<s>> \o w \notin Behind("end_object", AfterValue(stack))
      BY <1>1, <2>1, EndStep
    <2>4. QED
      BY <1>4, <2>2, <2>3, FollowOfPlaces
  <1>5. CASE place = "key"
    <2>1. s # "value_string"
      BY <1>5 DEF ExpectedAt
    <2>2. Front(stack) \in Stacks /\ stack = Append(Front(stack), FALSE)
      BY <1>1, <1>5, TopOf DEF Fits
    <2>3. <<s>> \o w \notin AtMembers(stack)
      BY <2>1, <2>2, MembersStep
    <2>4. QED
      BY <1>5, <2>3, FollowOfPlaces
  <1>6. CASE place \in {"firstSeparator", "separator"}
    <2>1. s # "name_separator"
      BY <1>6 DEF ExpectedAt
    <2>2. Append(stack, FALSE) \in Stacks
      BY <1>1, Pushed
    <2>3. /\ <<s>> \o w \notin Behind("name_separator", AtValue(stack))
          /\ <<s>> \o w \notin Behind("name_separator", AtValue(Append(stack, FALSE)))
      BY <1>1, <2>1, <2>2, SeparatorStep
    <2>4. QED
      BY <1>6, <2>3, FollowOfPlaces
  <1>7. CASE place = "evaluate"
    <2>1. s \notin {"value_separator", IF Last(stack) THEN "end_array" ELSE "end_object"}
      BY <1>7 DEF ExpectedAt
    <2>2. Front(stack) \in Stacks /\ Last(stack) \in BOOLEAN
            /\ stack = Append(Front(stack), Last(stack))
      BY <1>1, <1>7, TopOf DEF Fits
    <2>3. CASE Last(stack) = TRUE
      <3>1. stack = Append(Front(stack), TRUE)
        BY <2>2, <2>3
      <3>2. <<s>> \o w \notin AfterValue(stack)
        BY <2>1, <2>2, <2>3, <3>1, AfterElementStep
      <3>3. QED
        BY <1>7, <3>2, FollowOfPlaces
    <2>4. CASE Last(stack) = FALSE
      <3>1. stack = Append(Front(stack), FALSE)
        BY <2>2, <2>4
      <3>2. <<s>> \o w \notin AfterValue(stack)
        BY <2>1, <2>2, <2>4, <3>1, AfterMemberStep
      <3>3. QED
        BY <1>7, <3>2, FollowOfPlaces
    <2>5. QED
      BY <2>2, <2>3, <2>4
  <1>8. CASE place \in {"end", "done"}
    <2>1. stack = <<>>
      BY <1>8 DEF Fits
    <2>2. FollowOf(place, stack) = {<<>>}
      BY <1>8, <2>1, AfterNothing, FollowOfPlaces
    <2>3. <<s>> \o w # <<>>
      BY FirstIsSomething
    <2>4. QED
      BY <2>2, <2>3
  <1>9. QED
    BY <1>2, <1>3, <1>4, <1>5, <1>6, <1>7, <1>8 DEF Places

LEMMA CompleteAtEnd ==
  ASSUME NEW place \in Places, NEW stack, Fits(place, stack)
  PROVE  <<>> \in FollowOf(place, stack) <=> place \in {"end", "done"}
  <1>1. stack \in Stacks
    BY DEF Fits
  <1>2. Append(stack, TRUE) \in Stacks /\ Append(stack, FALSE) \in Stacks
    BY <1>1, Pushed
  <1>3. CASE place \in {"value", "arrayFirst", "objectFirst"}
    BY <1>1, <1>2, <1>3, SomethingFollows, FollowOfPlaces
  <1>4. CASE place \in {"firstSeparator", "separator"}
    BY <1>1, <1>2, <1>4, SomethingFollows, FollowOfPlaces
  <1>5. CASE place \in {"key", "evaluate"}
    <2>1. Front(stack) \in Stacks /\ Last(stack) \in BOOLEAN
            /\ stack = Append(Front(stack), Last(stack))
            /\ (place = "key" => ~Last(stack))
      BY <1>1, <1>5, TopOf DEF Fits
    <2>2. \A o \in Stacks : /\ <<>> \notin AtMembers(Append(o, FALSE))
                            /\ <<>> \notin AfterValue(Append(o, TRUE))
                            /\ <<>> \notin AfterValue(Append(o, FALSE))
      BY SomethingFollows
    <2>3. <<>> \notin AfterValue(stack)
      BY <2>1, <2>2
    <2>4. place = "key" => <<>> \notin AtMembers(stack)
      BY <2>1, <2>2
    <2>5. QED
      BY <1>5, <2>3, <2>4, FollowOfPlaces
  <1>6. CASE place \in {"end", "done"}
    <2>1. stack = <<>>
      BY <1>6 DEF Fits
    <2>2. QED
      BY <1>6, <2>1, AfterNothing, FollowOfPlaces
  <1>7. QED
    BY <1>3, <1>4, <1>5, <1>6 DEF Places

\* Whatever is open, there is a way to go on to the end of the text.
LEMMA CanGoOn ==
  ASSUME NEW place \in Places, NEW stack, Fits(place, stack), AfterValue(stack) # {}
  PROVE  \E w \in Words : w \in FollowOf(place, stack)
  <1>1. stack \in Stacks
    BY DEF Fits
  <1>2. PICK w \in AfterValue(stack) : w \in Words
    BY <1>1, FollowersAreWords
  <1>3. PICK v \in Values : v = <<"literal_null">>
    BY GrammarClosed DEF Closed, ValueTypes
  <1>4. Member(v) \in Members /\ Member(v) \in Words /\ v \in Words
    BY GrammarClosed DEF Closed
  <1>6. v \o w \in AtValue(stack) /\ v \o w \in Words
    BY <1>2, <1>4, ConcatIsWord DEF AtValue
  <1>7. \A s \in {"end_array", "end_object", "name_separator"} : \A u \in Words :
          <<s>> \o u \in Words
    BY SymbolsAreWords, ConcatIsWord
  <1>8. CASE place = "value"
    BY <1>6, <1>8, FollowOfPlaces
  <1>9. CASE place = "arrayFirst"
    <2>1. <<"end_array">> \o w \in Behind("end_array", AfterValue(stack))
      BY <1>2, Zenon DEF Behind
    <2>2. QED
      BY <1>2, <1>7, <1>9, <2>1, FollowOfPlaces
  <1>10. CASE place = "objectFirst"
    <2>1. <<"end_object">> \o w \in Behind("end_object", AfterValue(stack))
      BY <1>2, Zenon DEF Behind
    <2>2. QED
      BY <1>2, <1>7, <1>10, <2>1, FollowOfPlaces
  <1>11. CASE place = "key"
    <2>1. stack = Append(Front(stack), FALSE) /\ Front(stack) \in Stacks
      BY <1>1, <1>11, TopOf DEF Fits
    <2>2. AfterValue(Front(stack)) # {}
      BY <2>1, Closable
    <2>3. PICK u \in AfterValue(Front(stack)) : u \in Words
      BY <2>1, <2>2, FollowersAreWords
    <2>4. <<"end_object">> \o u \in Behind("end_object", AfterValue(Front(stack)))
      BY <2>3, Zenon DEF Behind
    <2>5. Member(v) \o (<<"end_object">> \o u) \in AtMembers(Append(Front(stack), FALSE))
      BY <1>4, <2>1, <2>4, MembersSplit, Zenon
    <2>6. Member(v) \o (<<"end_object">> \o u) \in Words
      BY <1>4, <1>7, <2>3, ConcatIsWord
    <2>7. QED
      BY <1>11, <2>1, <2>5, <2>6, FollowOfPlaces
  <1>12. CASE place = "firstSeparator"
    <2>1. Append(stack, FALSE) \in Stacks /\ AfterValue(Append(stack, FALSE)) # {}
      BY <1>1, Pushed, Closable
    <2>2. PICK u \in AfterValue(Append(stack, FALSE)) : u \in Words
      BY <2>1, FollowersAreWords
    <2>3. v \o u \in AtValue(Append(stack, FALSE)) /\ v \o u \in Words
      <3>1. v \o u \in AtValue(Append(stack, FALSE))
        BY <2>1, <2>2, ValueSplit, Zenon
      <3>2. QED
        BY <1>4, <2>2, <3>1, ConcatIsWord
    <2>4. <<"name_separator">> \o (v \o u)
            \in Behind("name_separator", AtValue(Append(stack, FALSE)))
      BY <2>3, Zenon DEF Behind
    <2>5. QED
      BY <1>7, <1>12, <2>3, <2>4, FollowOfPlaces
  <1>13. CASE place = "separator"
    <2>1. <<"name_separator">> \o (v \o w) \in Behind("name_separator", AtValue(stack))
      BY <1>6, Zenon DEF Behind
    <2>2. QED
      BY <1>6, <1>7, <1>13, <2>1, FollowOfPlaces
  <1>14. CASE place \in {"evaluate", "end", "done"}
    BY <1>2, <1>14, FollowOfPlaces
  <1>15. QED
    BY <1>8, <1>9, <1>10, <1>11, <1>12, <1>13, <1>14 DEF Places

-----------------------------------------------------------------------------
(***************************************************************************)
(* What has been read goes on to a text of the grammar exactly with what   *)
(* FollowOf says of the place where the parser is.                         *)
(***************************************************************************)
Followed(ts, place, stack) ==
  /\ Fits(place, stack)
  /\ AfterValue(stack) # {}
  /\ Symbols(ts) \in Words
  /\ \A w \in Words : Symbols(ts) \o w \in Values <=> w \in FollowOf(place, stack)

\* The token at which a text can no longer become one of the grammar.
Fault(before, t) ==
  /\ Symbols(before) \in Beginnings
  /\ IF t.type = "end_of_input" THEN Symbols(before) \notin Values
     ELSE Append(Symbols(before), Symbol(t)) \notin Beginnings

LEMMA FollowedAtFirst == Followed(<<>>, "value", <<>>)
  <1>1. <<>> \in Stacks /\ Fits("value", <<>>)
    BY DEF Stacks, Fits
  <1>2. AfterValue(<<>>) = {<<>>}
    BY AfterNothing
  <1>3. Symbols(<<>>) = <<>>
    BY DEF Symbols
  <1>4. ASSUME NEW w \in Words
        PROVE  <<>> \o w \in Values <=> w \in FollowOf("value", <<>>)
    <2>1. <<>> \o w = w
      BY NothingBefore
    <2>2. \A v \in Values : v \o <<>> = v
      BY NothingBehind, GrammarClosed
    <2>3. w \in AtValue(<<>>) <=> \E v \in Values, u \in AfterValue(<<>>) : w = v \o u
      BY <1>1, ValueSplit
    <2>4. w \in AtValue(<<>>) <=> \E v \in Values : w = v \o <<>>
      BY <1>2, <2>3, Zenon
    <2>5. w \in AtValue(<<>>) <=> w \in Values
      BY <2>2, <2>4
    <2>6. QED
      BY <2>1, <2>5, FollowOfPlaces
  <1>5. QED
    BY <1>1, <1>2, <1>3, <1>4, EmptyIsWord DEF Followed

LEMMA FollowedOn ==
  ASSUME NEW ts \in Seq(TokensRead), NEW r \in TokensRead, Symbol(r) \in JsonSymbols,
         NEW place, NEW stack, Followed(ts, place, stack),
         NEW next, NEW open, Leads(place, stack, Symbol(r), next, open)
  PROVE  Followed(Append(ts, r), next, open)
  <1> DEFINE read == Symbols(ts)
             s == Symbol(r)
  <1>1. read \in Words /\ s \in JsonSymbols
    BY DEF Followed
  <1>2. Symbols(Append(ts, r)) = Append(read, s)
    BY ReadOne
  <1>3. Append(read, s) \in Words
    BY <1>1, EmptyIsWord, AfterOne
  <1>4. Fits(next, open) /\ AfterValue(open) # {}
    BY DEF Leads, Followed
  <1>5. ASSUME NEW w \in Words
        PROVE  Append(read, s) \o w \in Values <=> w \in FollowOf(next, open)
    <2>1. Append(read, s) \o w = read \o (<<s>> \o w) /\ <<s>> \o w \in Words
      BY <1>1, AfterOne
    <2>2. read \o (<<s>> \o w) \in Values <=> <<s>> \o w \in FollowOf(place, stack)
      BY <2>1, Zenon DEF Followed
    <2>3. <<s>> \o w \in FollowOf(place, stack) <=> w \in FollowOf(next, open)
      BY Zenon DEF Leads
    <2>4. QED
      BY <2>1, <2>2, <2>3
  <1> HIDE DEF read, s
  <1>6. QED
    BY <1>2, <1>3, <1>4, <1>5, Zenon DEF Followed

LEMMA FollowedBegins ==
  ASSUME NEW ts, NEW place \in Places, NEW stack, Followed(ts, place, stack)
  PROVE  Symbols(ts) \in Beginnings
  <1>1. PICK w \in Words : w \in FollowOf(place, stack)
    BY CanGoOn DEF Followed
  <1>2. QED
    BY <1>1, Zenon DEF Followed, Beginnings

LEMMA ValuesBegin == Values \subseteq Beginnings
  <1>1. ASSUME NEW v \in Values
        PROVE  v \in Words /\ v \o <<>> \in Values
    BY GrammarClosed, NothingBehind
  <1>2. QED
    BY <1>1, EmptyIsWord DEF Beginnings

LEMMA FollowedRefuses ==
  ASSUME NEW ts \in Seq(TokensRead), NEW r \in TokensRead,
         NEW place \in Places, NEW stack, Followed(ts, place, stack),
         Symbol(r) \in JsonSymbols => Symbol(r) \notin ExpectedAt(place, stack),
         place = "done" \/ place = "end" => r.type # "end_of_input"
  PROVE  Fault(ts, r)
  <1> DEFINE read == Symbols(ts)
             s == Symbol(r)
  <1>1. read \in Words /\ Fits(place, stack)
    BY DEF Followed
  <1>2. ASSUME r.type = "end_of_input"
        PROVE  read \notin Values
    <2>1. <<>> \notin FollowOf(place, stack)
      BY <1>1, <1>2, CompleteAtEnd
    <2>2. read \o <<>> \notin Values
      BY <2>1, EmptyIsWord, Zenon DEF Followed
    <2>3. QED
      BY <1>1, <2>2, NothingBehind
  <1>3. Append(read, s) \notin Beginnings
    <2>1. ASSUME s \notin JsonSymbols
          PROVE  Append(read, s) \notin Words
      <3>1. Append(read, s)[Len(read) + 1] = s /\ Len(Append(read, s)) = Len(read) + 1
              /\ Len(read) \in Nat
        BY <1>1 DEF Words
      <3>2. QED
        BY <2>1, <3>1 DEF Words
    <2>2. ASSUME s \in JsonSymbols, NEW w \in Words
          PROVE  Append(read, s) \o w \notin Values
      <3>1. Append(read, s) \o w = read \o (<<s>> \o w) /\ <<s>> \o w \in Words
        BY <1>1, <2>2, AfterOne
      <3>2. <<s>> \o w \notin FollowOf(place, stack)
        BY <1>1, <2>2, OnlyExpectedFollows
      <3>3. read \o (<<s>> \o w) \notin Values
        BY <3>1, <3>2, Zenon DEF Followed
      <3>4. QED
        BY <3>1, <3>3
    <2> HIDE DEF read, s
    <2>3. QED
      BY <2>1, <2>2, Zenon DEF Beginnings
  <1>4. QED
    BY <1>2, <1>3, FollowedBegins DEF Fault

-----------------------------------------------------------------------------
(***************************************************************************)
(* The invariant of the parser.                                            *)
(***************************************************************************)
Typed ==
  /\ call \in Calls
  /\ pc \in Places
  /\ tokens \in Seq(TokensRead)
  /\ errored \in BOOLEAN

Parsing == ~errored /\ pc # "done" => Followed(tokens, pc, states)

\* The text that a call accepted: a strict one read it to its end.
Accepted ==
  ~errored /\ pc = "done" => Symbols(TextRead) \in Values /\ (call.strict <=> Ended)

\* An error comes at the first token with which the text is none of the grammar;
\* the strict parse() reads one more token and gives a discarded value.
Refused ==
  errored =>
    \E before \in Seq(TokensRead), t \in TokensRead :
      /\ Fault(before, t)
      /\ \/ tokens = Append(before, t)
         \/ /\ pc = "done" /\ call.mode # "accept" /\ call.strict /\ ~call.exceptions
            /\ \E u \in TokensRead : tokens = Append(Append(before, t), u)

StopsAtError ==
  /\ pc = "end" => call.strict
  /\ errored => pc = "done" \/ (pc = "end" /\ call.mode # "accept" /\ ~call.exceptions)

\* What the caller is told.
Told ==
  pc = "done" =>
    /\ call.mode = "accept" => outcome = [boolean |-> ~errored]
    /\ call.mode # "accept" /\ errored =>
         outcome = IF call.exceptions THEN [thrown |-> TRUE] ELSE Discarded

ParserInv == Typed /\ Parsing /\ Accepted /\ Refused /\ StopsAtError /\ Told

Read(t, keep) == [type |-> t.type, value |-> t.value, keep |-> keep]

LEMMA ScannedRead ==
  ASSUME Typed, NEW t \in Tokens \cup {EndOfInput}, NEW keep \in BOOLEAN, Scanned(t, keep)
  PROVE  /\ Read(t, keep) \in TokensRead
         /\ Read(t, keep).type = t.type
         /\ Symbol(Read(t, keep)) = Symbol(t)
         /\ tokens' = Append(tokens, Read(t, keep))
         /\ tokens' \in Seq(TokensRead)
         /\ call' = call
  <1>1. Read(t, keep) \in TokensRead
    BY DEF Read, TokensRead
  <1>2. Read(t, keep).type = t.type /\ Read(t, keep).value = t.value
    BY DEF Read
  <1>3. Symbol(Read(t, keep)) = Symbol(t)
    BY <1>2 DEF Symbol, Overflows
  <1>4. tokens' = Append(tokens, Read(t, keep)) /\ call' = call
    BY Zenon DEF Scanned, Read
  <1>5. tokens' \in Seq(TokensRead)
    BY <1>1, <1>4, AppendProperties DEF Typed
  <1>6. QED
    BY <1>1, <1>2, <1>3, <1>4, <1>5

LEMMA SymbolOf ==
  ASSUME NEW t
  PROVE  /\ Symbol(t) \in JsonSymbols => ~Overflows(t) /\ Symbol(t) = t.type
         /\ t.type = "end_of_input" => Symbol(t) \notin JsonSymbols
         /\ t.type # "value_float" => Symbol(t) = t.type
         /\ ~Overflows(t) => Symbol(t) = t.type
  BY DEF Symbol, Overflows, JsonSymbols, ValueTypes

\* The text that was read, when one more token is.
LEMMA TextOfOneMore ==
  ASSUME NEW ts \in Seq(TokensRead), NEW r \in TokensRead, tokens' = Append(ts, r)
  PROVE  /\ r.type = "end_of_input" => TextRead' = ts /\ Ended'
         /\ r.type # "end_of_input" => TextRead' = tokens' /\ ~Ended'
  <1>1. Last(Append(ts, r)) = r /\ Front(Append(ts, r)) = ts
    BY FrontOfPushed
  <1>2. Append(ts, r) # <<>> /\ Append(ts, r) # ts
    <2>1. Len(Append(ts, r)) = Len(ts) + 1 /\ Len(ts) \in Nat
      BY AppendProperties
    <2>2. QED
      BY <2>1
  <1>3. TextRead' = IF r.type = "end_of_input" THEN ts ELSE tokens'
    BY <1>1, <1>2 DEF TextRead
  <1>4. QED
    BY <1>2, <1>3 DEF Ended

\* A step that takes a token of the grammar keeps the invariant.
LEMMA Taken ==
  ASSUME ParserInv, NEW t \in Tokens \cup {EndOfInput}, NEW keep \in BOOLEAN, Scanned(t, keep),
         ~errored, errored' = FALSE, pc # "done",
         Symbol(t) \in JsonSymbols, Leads(pc, states, Symbol(t), pc', states'),
         pc' \in Places, pc' = "end" => call.strict,
         pc' = "done" => ~call.strict /\ (call.mode = "accept" => outcome' = [boolean |-> TRUE])
  PROVE  ParserInv'
  <1> DEFINE r == Read(t, keep)
  <1>1. /\ r \in TokensRead /\ Symbol(r) = Symbol(t) /\ r.type = t.type
        /\ tokens' = Append(tokens, r) /\ tokens' \in Seq(TokensRead) /\ call' = call
    BY ScannedRead DEF ParserInv
  <1>2. Typed'
    BY <1>1 DEF ParserInv, Typed
  <1> HIDE DEF r
  <1>3. Followed(tokens', pc', states')
    <2>1. Followed(tokens, pc, states) /\ tokens \in Seq(TokensRead)
      BY DEF ParserInv, Parsing, Typed
    <2>2. Followed(Append(tokens, r), pc', states')
      BY <1>1, <2>1, FollowedOn
    <2>3. QED
      BY <1>1, <2>2
  <1>4. Parsing'
    BY <1>3, Zenon DEF Parsing, Followed, Symbols
  <1>5. Accepted'
    <2>1. SUFFICES ASSUME pc' = "done"
                   PROVE  Symbols(TextRead') \in Values /\ (call'.strict <=> Ended')
      BY Zenon DEF Accepted, Symbols
    <2>2. r.type # "end_of_input"
      BY <1>1, SymbolOf
    <2>3. TextRead' = tokens' /\ ~Ended'
      BY <1>1, <2>2, TextOfOneMore DEF ParserInv, Typed
    <2>4. <<>> \in FollowOf(pc', states')
      BY <1>3, <2>1, CompleteAtEnd DEF Followed, Places
    <2>5. Symbols(tokens') \o <<>> \in Values /\ Symbols(tokens') \in Words
      BY <1>3, <2>4, EmptyIsWord, Zenon DEF Followed
    <2>6. QED
      BY <1>1, <2>1, <2>3, <2>5, NothingBehind
  <1>6. Refused' /\ StopsAtError'
    BY <1>1, Zenon DEF Refused, StopsAtError
  <1>7. Told'
    BY <1>1, Zenon DEF Told
  <1>8. QED
    BY <1>2, <1>4, <1>5, <1>6, <1>7, Zenon DEF ParserInv

-----------------------------------------------------------------------------
(* Each action keeps the invariant.                                        *)

LEMMA CompleteCompletes ==
  ASSUME NEW open \in Stacks, Complete(open)
  PROVE  /\ states' = open
         /\ Completed(pc', open)
         /\ pc' \in Places /\ (pc' = "end" => call.strict)
         /\ pc' = "done" => ~call.strict
                              /\ (call.mode = "accept" => outcome' = [boolean |-> TRUE])
  <1>1. states' = open
    BY DEF Complete
  <1>2. CASE open # <<>>
    <2>1. pc' = "evaluate"
      BY <1>2 DEF Complete
    <2>2. QED
      BY <1>1, <1>2, <2>1 DEF Completed, Places
  <1>3. CASE open = <<>> /\ call.strict
    <2>1. pc' = "end"
      BY <1>3 DEF Complete
    <2>2. QED
      BY <1>1, <1>3, <2>1 DEF Completed, Places
  <1>4. CASE open = <<>> /\ ~call.strict
    <2>1. Done(handler'.root, FALSE)
      BY <1>4 DEF Complete
    <2>2. pc' = "done" /\ outcome' = Returned(handler'.root, FALSE)
      BY <2>1 DEF Done
    <2>3. call.mode = "accept" => outcome' = [boolean |-> ~FALSE]
      BY <2>2 DEF Returned
    <2>4. call.mode = "accept" => outcome' = [boolean |-> TRUE]
      BY <2>3
    <2>5. QED
      BY <1>1, <1>4, <2>2, <2>4 DEF Completed, Places
  <1>5. QED
    BY <1>2, <1>3, <1>4

LEMMA NoErrorYet ==
  ASSUME ParserInv, pc # "done", pc # "end"
  PROVE  errored = FALSE /\ Fits(pc, states) /\ states \in Stacks
  <1>1. errored = FALSE
    BY DEF ParserInv, Typed, StopsAtError
  <1>2. QED
    BY <1>1 DEF ParserInv, Parsing, Followed, Fits

LEMMA ScalarValueKeeps ==
  ASSUME ParserInv, NEW t \in Tokens \cup {EndOfInput}, NEW keep \in BOOLEAN, Scanned(t, keep),
         ScalarValue(t, keep)
  PROVE  ParserInv'
  <1>1. /\ pc \in {"value", "arrayFirst"} /\ t.type \in ValueTypes /\ ~Overflows(t)
        /\ Complete(Opened) /\ errored' = errored
    BY DEF ScalarValue, ValueExpected
  <1>2. errored = FALSE /\ states \in Stacks
    BY <1>1, NoErrorYet
  <1>3. Opened = (IF pc = "arrayFirst" THEN Append(states, TRUE) ELSE states) /\ Opened \in Stacks
    BY <1>2, Pushed DEF Opened
  <1>4. /\ states' = Opened /\ Completed(pc', states') /\ pc' \in Places
        /\ pc' = "end" => call.strict
        /\ pc' = "done" => ~call.strict
                             /\ (call.mode = "accept" => outcome' = [boolean |-> TRUE])
    BY <1>1, <1>3, CompleteCompletes
  <1>5. Symbol(t) = t.type /\ Symbol(t) \in JsonSymbols /\ Symbol(t) \in ValueTypes
    BY <1>1, SymbolOf, SymbolsAreWords
  <1>6. Leads(pc, states, Symbol(t), pc', states')
    BY <1>1, <1>2, <1>3, <1>4, <1>5, ScalarLeads
  <1>7. QED
    BY <1>1, <1>2, <1>4, <1>5, <1>6, Taken

LEMMA BeginContainerKeeps ==
  ASSUME ParserInv, NEW t \in Tokens \cup {EndOfInput}, NEW keep \in BOOLEAN, Scanned(t, keep),
         BeginContainer(t, keep)
  PROVE  ParserInv'
  <1>1. /\ pc \in {"value", "arrayFirst"} /\ states' = Opened /\ errored' = errored
        /\ \/ t.type = "begin_array" /\ pc' = "arrayFirst"
           \/ t.type = "begin_object" /\ pc' = "objectFirst"
    BY DEF BeginContainer, ValueExpected, GoTo
  <1>2. errored = FALSE /\ states \in Stacks
    BY <1>1, NoErrorYet
  <1>3. states' = IF pc = "arrayFirst" THEN Append(states, TRUE) ELSE states
    BY <1>1 DEF Opened
  <1>4. Symbol(t) = t.type /\ Symbol(t) \in JsonSymbols
    BY <1>1, SymbolOf, SymbolsAreWords
  <1>5. Leads(pc, states, Symbol(t), pc', states')
    BY <1>1, <1>2, <1>3, <1>4, BeginLeads
  <1>6. pc' \in Places /\ pc' \notin {"end", "done"} /\ pc # "done"
    BY <1>1 DEF Places
  <1>7. QED
    BY <1>1, <1>2, <1>4, <1>5, <1>6, Taken

LEMMA EndEmptyKeeps ==
  ASSUME ParserInv, NEW t \in Tokens \cup {EndOfInput}, NEW keep \in BOOLEAN, Scanned(t, keep),
         EndEmpty(t, keep)
  PROVE  ParserInv'
  <1>1. /\ \/ pc = "arrayFirst" /\ t.type = "end_array"
           \/ pc = "objectFirst" /\ t.type = "end_object"
        /\ Complete(states) /\ errored' = errored
    BY DEF EndEmpty
  <1>2. errored = FALSE /\ states \in Stacks
    BY <1>1, NoErrorYet
  <1>3. /\ states' = states /\ Completed(pc', states) /\ pc' \in Places
        /\ pc' = "end" => call.strict
        /\ pc' = "done" => ~call.strict
                             /\ (call.mode = "accept" => outcome' = [boolean |-> TRUE])
    BY <1>1, <1>2, CompleteCompletes
  <1>4. Symbol(t) = t.type /\ Symbol(t) \in JsonSymbols
    BY <1>1, SymbolOf, SymbolsAreWords
  <1>5. Leads(pc, states, Symbol(t), pc', states')
    BY <1>1, <1>2, <1>3, <1>4, EndEmptyLeads
  <1>6. QED
    BY <1>1, <1>2, <1>3, <1>4, <1>5, Taken

LEMMA MemberKeyKeeps ==
  ASSUME ParserInv, NEW t \in Tokens \cup {EndOfInput}, NEW keep \in BOOLEAN, Scanned(t, keep),
         MemberKey(t, keep)
  PROVE  ParserInv'
  <1>1. /\ pc \in {"objectFirst", "key"} /\ t.type = "value_string"
        /\ pc' = IF pc = "key" THEN "separator" ELSE "firstSeparator"
        /\ states' = states /\ errored' = errored
    BY DEF MemberKey, GoTo
  <1>2. errored = FALSE /\ Fits(pc, states)
    BY <1>1, NoErrorYet
  <1>3. Symbol(t) = "value_string" /\ Symbol(t) \in JsonSymbols
    BY <1>1, SymbolOf, SymbolsAreWords
  <1>4. Leads(pc, states, Symbol(t), pc', states')
    BY <1>1, <1>2, <1>3, KeyLeads
  <1>5. pc' \in Places /\ pc' \notin {"end", "done"} /\ pc # "done"
    BY <1>1 DEF Places
  <1>6. QED
    BY <1>1, <1>2, <1>3, <1>4, <1>5, Taken

LEMMA SeparatorKeeps ==
  ASSUME ParserInv, NEW t \in Tokens \cup {EndOfInput}, NEW keep \in BOOLEAN, Scanned(t, keep),
         Separator(t, keep)
  PROVE  ParserInv'
  <1>1. /\ pc \in {"firstSeparator", "separator"} /\ t.type = "name_separator"
        /\ states' = IF pc = "firstSeparator" THEN Append(states, FALSE) ELSE states
        /\ pc' = "value" /\ errored' = errored
    BY DEF Separator, GoTo
  <1>2. errored = FALSE /\ Fits(pc, states)
    BY <1>1, NoErrorYet
  <1>3. Symbol(t) = "name_separator" /\ Symbol(t) \in JsonSymbols
    BY <1>1, SymbolOf, SymbolsAreWords
  <1>4. Leads(pc, states, Symbol(t), pc', states')
    BY <1>1, <1>2, <1>3, SeparatorLeads
  <1>5. pc' \in Places /\ pc' \notin {"end", "done"} /\ pc # "done"
    BY <1>1 DEF Places
  <1>6. QED
    BY <1>1, <1>2, <1>3, <1>4, <1>5, Taken

LEMMA NextValueKeeps ==
  ASSUME ParserInv, NEW t \in Tokens \cup {EndOfInput}, NEW keep \in BOOLEAN, Scanned(t, keep),
         NextValue(t, keep)
  PROVE  ParserInv'
  <1>1. /\ pc = "evaluate" /\ t.type = "value_separator"
        /\ pc' = IF Last(states) THEN "value" ELSE "key"
        /\ states' = states /\ errored' = errored
    BY DEF NextValue, GoTo
  <1>2. errored = FALSE /\ Fits(pc, states)
    BY <1>1, NoErrorYet
  <1>3. Symbol(t) = "value_separator" /\ Symbol(t) \in JsonSymbols
    BY <1>1, SymbolOf, SymbolsAreWords
  <1>4. Leads(pc, states, Symbol(t), pc', states')
    BY <1>1, <1>2, <1>3, NextLeads
  <1>5. pc' \in Places /\ pc' \notin {"end", "done"} /\ pc # "done"
    BY <1>1 DEF Places
  <1>6. QED
    BY <1>1, <1>2, <1>3, <1>4, <1>5, Taken

LEMMA EndContainerKeeps ==
  ASSUME ParserInv, NEW t \in Tokens \cup {EndOfInput}, NEW keep \in BOOLEAN, Scanned(t, keep),
         EndContainer(t, keep)
  PROVE  ParserInv'
  <1>1. /\ pc = "evaluate"
        /\ t.type = IF Last(states) THEN "end_array" ELSE "end_object"
        /\ Complete(Front(states)) /\ errored' = errored
    BY DEF EndContainer
  <1>2. errored = FALSE /\ Fits(pc, states) /\ states \in Stacks /\ states # <<>>
    BY <1>1, NoErrorYet DEF Fits
  <1>3. Front(states) \in Stacks
    BY <1>2, TopOf
  <1>4. /\ states' = Front(states) /\ Completed(pc', Front(states)) /\ pc' \in Places
        /\ pc' = "end" => call.strict
        /\ pc' = "done" => ~call.strict
                             /\ (call.mode = "accept" => outcome' = [boolean |-> TRUE])
    BY <1>1, <1>3, CompleteCompletes
  <1>5. Symbol(t) = t.type /\ Symbol(t) \in JsonSymbols
    BY <1>1, SymbolOf, SymbolsAreWords
  <1>6. Leads(pc, states, Symbol(t), pc', states')
    BY <1>1, <1>2, <1>4, <1>5, EndLeads
  <1>7. QED
    BY <1>1, <1>2, <1>4, <1>5, <1>6, Taken

\* What the call gives when it fails.
LEMMA FailureTold ==
  ASSUME Done(handler.root, TRUE)
  PROVE  /\ pc' = "done"
         /\ call.mode = "accept" => outcome' = [boolean |-> FALSE]
         /\ call.mode # "accept" => outcome' = Discarded
  <1>1. pc' = "done" /\ outcome' = Returned(handler.root, TRUE)
    BY DEF Done
  <1>2. call.mode = "accept" => outcome' = [boolean |-> ~TRUE]
    BY <1>1 DEF Returned
  <1>3. call.mode # "accept" => outcome' = Discarded
    BY <1>1 DEF Returned
  <1>4. QED
    BY <1>1, <1>2, <1>3

LEMMA UnexpectedKeeps ==
  ASSUME ParserInv, NEW t \in Tokens \cup {EndOfInput}, NEW keep \in BOOLEAN, Scanned(t, keep),
         Unexpected(t, keep)
  PROVE  ParserInv'
  <1> DEFINE r == Read(t, keep)
  <1>1. /\ r \in TokensRead /\ Symbol(r) = Symbol(t) /\ r.type = t.type
        /\ tokens' = Append(tokens, r) /\ tokens' \in Seq(TokensRead) /\ call' = call
    BY ScannedRead DEF ParserInv
  <1>2. /\ pc # "done" /\ pc \in Places /\ tokens \in Seq(TokensRead)
        /\ call \in Calls /\ errored \in BOOLEAN
    BY DEF Unexpected, ParserInv, Typed
  <1>3. ParseError /\ errored' = TRUE
    BY DEF Unexpected, ParseError
  <1>4. \/ pc' = "done" /\ call.mode # "accept" /\ call.exceptions
             /\ outcome' = [thrown |-> TRUE]
        \/ pc' = "end" /\ call.mode # "accept" /\ ~call.exceptions /\ call.strict /\ pc # "end"
        \/ /\ pc' = "done" /\ ~(call.mode # "accept" /\ call.exceptions)
           /\ call.mode = "accept" => outcome' = [boolean |-> FALSE]
           /\ call.mode # "accept" => outcome' = Discarded
    <2>1. CASE call.mode # "accept" /\ call.exceptions
      BY <1>3, <2>1 DEF ParseError
    <2>2. CASE /\ ~(call.mode # "accept" /\ call.exceptions)
               /\ call.mode # "accept" /\ call.strict /\ pc # "end"
      BY <1>3, <2>2 DEF ParseError
    <2>3. CASE /\ ~(call.mode # "accept" /\ call.exceptions)
               /\ ~(call.mode # "accept" /\ call.strict /\ pc # "end")
      <3>1. Done(handler.root, TRUE)
        BY <1>3, <2>3 DEF ParseError
      <3>2. QED
        BY <2>3, <3>1, FailureTold
    <2>4. QED
      BY <2>1, <2>2, <2>3
  <1> HIDE DEF r
  <1>5. Typed'
    BY <1>1, <1>2, <1>3, <1>4 DEF Typed, Places
  <1>6. Parsing' /\ Accepted'
    BY <1>3, Zenon DEF Parsing, Accepted
  <1>7. StopsAtError'
    BY <1>1, <1>4, Zenon DEF StopsAtError
  <1>8. Told'
    BY <1>1, <1>3, <1>4, Zenon DEF Told
  <1>9. Refused'
    <2>1. CASE errored = FALSE
      <3>1. Followed(tokens, pc, states)
        BY <1>2, <2>1 DEF ParserInv, Parsing
      <3>2. Symbol(r) \in JsonSymbols => Symbol(r) \notin ExpectedAt(pc, states)
        <4>1. ASSUME Symbol(r) \in JsonSymbols
              PROVE  Symbol(r) \notin ExpectedAt(pc, states)
          <5>1. ~Overflows(t) /\ Symbol(t) = t.type
            BY <1>1, <4>1, SymbolOf
          <5>2. t.type \notin Expected
            BY <5>1 DEF Unexpected
          <5>3. Expected = ExpectedAt(pc, states)
            BY DEF Expected, ExpectedAt
          <5>4. QED
            BY <1>1, <5>1, <5>2, <5>3
        <4>2. QED
          BY <4>1
      <3>3. pc = "done" \/ pc = "end" => r.type # "end_of_input"
        <4>1. ASSUME pc = "end", t.type = "end_of_input"
              PROVE  FALSE
          <5>1. t.type \in Expected
            BY <4>1 DEF Expected
          <5>2. ValueExpected
            BY <5>1 DEF Unexpected
          <5>3. QED
            BY <4>1, <5>2 DEF ValueExpected
        <4>2. QED
          BY <1>1, <1>2, <4>1
      <3>4. Fault(tokens, r)
        BY <1>1, <1>2, <3>1, <3>2, <3>3, FollowedRefuses
      <3>5. QED
        BY <1>1, <1>2, <3>4, Zenon DEF Refused
    <2>2. CASE errored = TRUE
      <3>1. pc = "end" /\ call.mode # "accept" /\ call.strict /\ ~call.exceptions
        BY <1>2, <2>2 DEF ParserInv, StopsAtError
      <3>2. pc' = "done"
        BY <1>4, <3>1
      <3>3. PICK before \in Seq(TokensRead), f \in TokensRead :
              Fault(before, f) /\ tokens = Append(before, f)
        BY <1>2, <2>2, Zenon DEF ParserInv, Refused
      <3>4. tokens' = Append(Append(before, f), r)
        BY <1>1, <3>3
      <3>5. QED
        BY <1>1, <3>1, <3>2, <3>3, <3>4, Zenon DEF Refused
    <2>3. QED
      BY <1>2, <2>1, <2>2
  <1>10. QED
    BY <1>5, <1>6, <1>7, <1>8, <1>9, Zenon DEF ParserInv

LEMMA EndReachedKeeps ==
  ASSUME ParserInv, NEW t \in Tokens \cup {EndOfInput}, NEW keep \in BOOLEAN, Scanned(t, keep),
         EndReached(t, keep)
  PROVE  ParserInv'
  <1> DEFINE r == Read(t, keep)
  <1>1. /\ r \in TokensRead /\ r.type = t.type
        /\ tokens' = Append(tokens, r) /\ tokens' \in Seq(TokensRead) /\ call' = call
    BY ScannedRead DEF ParserInv
  <1>2. /\ pc = "end" /\ t.type = "end_of_input" /\ Done(handler.root, errored)
        /\ errored' = errored /\ tokens \in Seq(TokensRead) /\ call \in Calls
        /\ errored \in BOOLEAN /\ call.strict
    BY DEF EndReached, ParserInv, Typed, StopsAtError
  <1>3. pc' = "done" /\ outcome' = Returned(handler.root, errored)
    BY <1>2 DEF Done
  <1> HIDE DEF r
  <1>4. Typed'
    BY <1>1, <1>2, <1>3 DEF Typed, Places
  <1>5. Parsing' /\ StopsAtError'
    BY <1>3, Zenon DEF Parsing, StopsAtError
  <1>6. CASE errored = FALSE
    <2>1. Followed(tokens, pc, states)
      BY <1>2, <1>6 DEF ParserInv, Parsing
    <2>2. Refused'
      BY <1>2, <1>6, Zenon DEF Refused
    <2>3. Told'
      <3>1. call.mode = "accept" => outcome' = [boolean |-> ~FALSE]
        BY <1>3, <1>6 DEF Returned
      <3>2. QED
        BY <1>1, <1>2, <1>6, <3>1, Zenon DEF Told
    <2>4. Accepted'
      <3>1. TextRead' = tokens /\ Ended'
        BY <1>1, <1>2, TextOfOneMore
      <3>2. <<>> \in FollowOf(pc, states)
        BY <1>2, <2>1, CompleteAtEnd DEF Followed, Places
      <3>3. Symbols(tokens) \o <<>> \in Values /\ Symbols(tokens) \in Words
        BY <2>1, <3>2, EmptyIsWord, Zenon DEF Followed
      <3>4. call.strict
        BY <1>2
      <3>5. Symbols(TextRead') \in Values /\ (call'.strict <=> Ended')
        BY <1>1, <3>1, <3>3, <3>4, NothingBehind
      <3>6. QED
        BY <3>5, Zenon DEF Accepted, Symbols
    <2>5. QED
      BY <1>4, <1>5, <2>2, <2>3, <2>4, Zenon DEF ParserInv
  <1>7. CASE errored = TRUE
    <2>1. call.mode # "accept" /\ call.strict /\ ~call.exceptions
      BY <1>2, <1>7 DEF ParserInv, StopsAtError
    <2>2. Accepted'
      BY <1>2, <1>7, Zenon DEF Accepted
    <2>3. Told'
      <3>1. outcome' = Discarded
        BY <1>3, <1>7, <2>1 DEF Returned
      <3>2. QED
        BY <1>1, <2>1, <3>1, Zenon DEF Told
    <2>4. Refused'
      <3>1. PICK before \in Seq(TokensRead), f \in TokensRead :
              Fault(before, f) /\ tokens = Append(before, f)
        BY <1>2, <1>7, Zenon DEF ParserInv, Refused
      <3>2. tokens' = Append(Append(before, f), r)
        BY <1>1, <3>1
      <3>3. QED
        BY <1>1, <1>3, <2>1, <3>1, <3>2, Zenon DEF Refused
    <2>5. QED
      BY <1>4, <1>5, <2>2, <2>3, <2>4, Zenon DEF ParserInv
  <1>8. QED
    BY <1>2, <1>6, <1>7

LEMMA ParserStarts == Init => ParserInv
  <1>1. SUFFICES ASSUME Init PROVE ParserInv
    OBVIOUS
  <1>2. Typed
    <2>1. call \in Calls /\ pc = "value" /\ tokens = <<>> /\ errored = FALSE
      BY <1>1, Zenon DEF Init
    <2>2. tokens \in Seq(TokensRead)
      BY <2>1
    <2>3. QED
      BY <2>1, <2>2 DEF Typed, Places
  <1>3. Parsing
    BY <1>1, FollowedAtFirst, Zenon DEF Init, Parsing
  <1>4. Accepted /\ Refused /\ StopsAtError /\ Told
    BY <1>1 DEF Init, Accepted, Refused, StopsAtError, Told
  <1>5. QED
    BY <1>2, <1>3, <1>4 DEF ParserInv

LEMMA ParserSteps == ParserInv /\ [Next]_vars => ParserInv'
  <1>1. SUFFICES ASSUME ParserInv, [Next]_vars PROVE ParserInv'
    OBVIOUS
  <1>2. CASE Next
    <2>1. PICK t \in Tokens \cup {EndOfInput}, keep \in BOOLEAN :
            /\ Scanned(t, keep)
            /\ \/ ScalarValue(t, keep) \/ BeginContainer(t, keep) \/ EndEmpty(t, keep)
               \/ MemberKey(t, keep) \/ Separator(t, keep) \/ NextValue(t, keep)
               \/ EndContainer(t, keep) \/ Unexpected(t, keep) \/ EndReached(t, keep)
      BY <1>2, Zenon DEF Next
    <2>2. CASE ScalarValue(t, keep)
      BY <1>1, <2>1, <2>2, ScalarValueKeeps
    <2>3. CASE BeginContainer(t, keep)
      BY <1>1, <2>1, <2>3, BeginContainerKeeps
    <2>4. CASE EndEmpty(t, keep)
      BY <1>1, <2>1, <2>4, EndEmptyKeeps
    <2>5. CASE MemberKey(t, keep)
      BY <1>1, <2>1, <2>5, MemberKeyKeeps
    <2>6. CASE Separator(t, keep)
      BY <1>1, <2>1, <2>6, SeparatorKeeps
    <2>7. CASE NextValue(t, keep)
      BY <1>1, <2>1, <2>7, NextValueKeeps
    <2>8. CASE EndContainer(t, keep)
      BY <1>1, <2>1, <2>8, EndContainerKeeps
    <2>9. CASE Unexpected(t, keep)
      BY <1>1, <2>1, <2>9, UnexpectedKeeps
    <2>10. CASE EndReached(t, keep)
      BY <1>1, <2>1, <2>10, EndReachedKeeps
    <2>11. QED
      BY <2>1, <2>2, <2>3, <2>4, <2>5, <2>6, <2>7, <2>8, <2>9, <2>10
  <1>3. CASE UNCHANGED vars
    BY <1>1, <1>3, Zenon
       DEF vars, ParserInv, Typed, Parsing, Accepted, Refused, StopsAtError, Told, TextRead,
           Ended
  <1>4. QED
    BY <1>1, <1>2, <1>3

LEMMA ParserAlways == Spec => []ParserInv
  <1>1. Init => ParserInv
    BY ParserStarts
  <1>2. ParserInv /\ [Next]_vars => ParserInv'
    BY ParserSteps
  <1>3. QED
    BY <1>1, <1>2, PTL DEF Spec

-----------------------------------------------------------------------------
\* As long as the parser has met no error, what it read is the beginning of a
\* text of the grammar; an accepted text is one, read to its end if the call is
\* strict; and an error is met at the first token with which no text of the
\* grammar begins any more, or at the end of a text that is none.
AcceptsJson ==
  /\ ~errored => Symbols(TextRead) \in Beginnings
  /\ Succeeded => Symbols(TextRead) \in Values /\ (call.strict <=> Ended)
  /\ Refused

\* What a strict call gives: accept() answers whether the text is one of the
\* grammar, and parse() throws or gives a discarded value for every other text.
TellsJson ==
  pc = "done" /\ call.strict =>
    LET json == Ended /\ Symbols(TextRead) \in Values IN
    /\ errored <=> ~json
    /\ call.mode = "accept" => outcome = [boolean |-> json]
    /\ call.mode # "accept" /\ ~json =>
         outcome = IF call.exceptions THEN [thrown |-> TRUE] ELSE Discarded

LEMMA TextOfWord ==
  ASSUME tokens \in Seq(TokensRead), Symbols(tokens) \in Words
  PROVE  TextRead = tokens
  <1>1. ASSUME tokens # <<>>
        PROVE  Last(tokens).type # "end_of_input"
    <2>1. Len(tokens) \in Nat /\ Len(tokens) # 0
      BY <1>1
    <2>2. Symbols(tokens)[Len(tokens)] = Symbol(Last(tokens)) /\ Len(Symbols(tokens)) = Len(tokens)
      BY <2>1 DEF Symbols, Last
    <2>3. Symbol(Last(tokens)) \in JsonSymbols
      BY <2>1, <2>2 DEF Words
    <2>4. QED
      BY <2>3, SymbolOf
  <1>2. QED
    BY <1>1 DEF TextRead

\* What was refused is no text of the grammar.
LEMMA RefusedIsNone ==
  ASSUME ParserInv, errored
  PROVE  ~(Ended /\ Symbols(TextRead) \in Values)
  <1>1. SUFFICES ASSUME Ended, Symbols(TextRead) \in Values
                 PROVE  FALSE
    OBVIOUS
  <1>2. PICK before \in Seq(TokensRead), t \in TokensRead :
          /\ Fault(before, t)
          /\ \/ tokens = Append(before, t)
             \/ \E u \in TokensRead : tokens = Append(Append(before, t), u)
    BY Zenon DEF ParserInv, Refused
  <1>3. PICK ts \in Seq(TokensRead), r \in TokensRead :
          tokens = Append(ts, r) /\ ((ts = before /\ r = t) \/ ts = Append(before, t))
    BY <1>2, AppendProperties
  <1>4. Last(Append(ts, r)) = r /\ Front(Append(ts, r)) = ts
    BY FrontOfPushed
  <1>5. r.type = "end_of_input" /\ TextRead = ts
    BY <1>1, <1>3, <1>4 DEF Ended, TextRead
  <1>6. CASE ts = before /\ r = t
    BY <1>1, <1>2, <1>5, <1>6 DEF Fault
  <1>7. CASE ts = Append(before, t)
    <2>1. Symbols(ts) = Append(Symbols(before), Symbol(t)) /\ Symbols(before) \in Words
      BY <1>2, <1>7, ReadOne DEF Fault, Beginnings
    <2>2. Symbols(ts) \in Words /\ Symbols(ts) \in Beginnings
      BY <1>1, <1>5, ValuesBegin, GrammarClosed
    <2>3. t.type = "end_of_input"
      BY <1>2, <2>1, <2>2 DEF Fault
    <2>4. Symbol(t) \notin JsonSymbols
      BY <2>3, SymbolOf
    <2>5. Symbols(ts)[Len(Symbols(before)) + 1] = Symbol(t)
            /\ Len(Symbols(ts)) = Len(Symbols(before)) + 1 /\ Len(Symbols(before)) \in Nat
      BY <2>1 DEF Words
    <2>6. QED
      BY <2>2, <2>4, <2>5 DEF Words
  <1>8. QED
    BY <1>3, <1>6, <1>7

\* The parser of json.hpp accepts exactly the texts of RFC 8259 over tokens and
\* refuses each other text where it stops being one, for every way to call it,
\* every text and every depth.
THEOREM AcceptsExactlyJson == Spec => []AcceptsJson
  <1>1. ASSUME ParserInv
        PROVE  AcceptsJson
    <2>1. ASSUME ~errored, pc # "done"
          PROVE  Symbols(TextRead) \in Beginnings
      <3>1. Followed(tokens, pc, states) /\ pc \in Places /\ tokens \in Seq(TokensRead)
        BY <1>1, <2>1 DEF ParserInv, Typed, Parsing
      <3>2. TextRead = tokens
        BY <3>1, TextOfWord DEF Followed
      <3>3. QED
        BY <3>1, <3>2, FollowedBegins
    <2>2. ASSUME ~errored, pc = "done"
          PROVE  Symbols(TextRead) \in Values /\ (call.strict <=> Ended)
      BY <1>1, <2>2, Zenon DEF ParserInv, Accepted
    <2>3. QED
      BY <1>1, <2>1, <2>2, ValuesBegin, Zenon DEF ParserInv, AcceptsJson, Succeeded
  <1>2. QED
    BY <1>1, ParserAlways, PTL

\* accept() answers TRUE exactly for the texts of RFC 8259 over tokens, and
\* parse() gives a value for no other text.
THEOREM TellsExactlyJson == Spec => []TellsJson
  <1>1. ASSUME ParserInv
        PROVE  TellsJson
    <2> DEFINE json == Ended /\ Symbols(TextRead) \in Values
    <2>1. SUFFICES ASSUME pc = "done", call.strict
                   PROVE  /\ errored <=> ~json
                          /\ call.mode = "accept" => outcome = [boolean |-> json]
                          /\ call.mode # "accept" /\ ~json =>
                               outcome = IF call.exceptions THEN [thrown |-> TRUE] ELSE Discarded
      BY Zenon DEF TellsJson
    <2>2. errored <=> ~json
      BY <1>1, <2>1, RefusedIsNone, Zenon DEF ParserInv, Accepted
    <2>3. errored \in BOOLEAN /\ json \in BOOLEAN
      BY <1>1 DEF ParserInv, Typed
    <2> HIDE DEF json
    <2>4. (~errored) = json
      BY <2>2, <2>3
    <2>5. call.mode = "accept" => outcome = [boolean |-> ~errored]
      BY <1>1, <2>1, Zenon DEF ParserInv, Told
    <2>6. call.mode # "accept" /\ errored =>
            outcome = IF call.exceptions THEN [thrown |-> TRUE] ELSE Discarded
      BY <1>1, <2>1, Zenon DEF ParserInv, Told
    <2>7. QED
      BY <2>2, <2>4, <2>5, <2>6, Zenon
  <1>2. QED
    BY <1>1, ParserAlways, PTL

-----------------------------------------------------------------------------
(***************************************************************************)
(* The stacks of the handlers: what an event does to them.  Nothing is     *)
(* said of the values in them, so that a stack is any sequence.            *)
(***************************************************************************)
Stack(s) == Len(s) \in Nat /\ s \in Seq({s[i] : i \in 1 .. Len(s)})

IsHandler(h) ==
  /\ h = [root |-> h.root, refs |-> h.refs, element |-> h.element,
          keeps |-> h.keeps, keyKeeps |-> h.keyKeeps]
  /\ Stack(h.refs) /\ Stack(h.keeps) /\ Stack(h.keyKeeps)

SameStacks(g, h) == g.refs = h.refs /\ g.keeps = h.keeps /\ g.keyKeeps = h.keyKeeps

LEMMA SeqIsStack ==
  ASSUME NEW S, NEW s \in Seq(S)
  PROVE  Stack(s)
  <1> DEFINE R == {s[i] : i \in 1 .. Len(s)}
  <1>1. Len(s) \in Nat /\ \A i \in 1 .. Len(s) : s[i] \in R
    OBVIOUS
  <1>2. s = [i \in 1 .. Len(s) |-> s[i]]
    OBVIOUS
  <1> HIDE DEF R
  <1>3. [i \in 1 .. Len(s) |-> s[i]] \in Seq(R)
    BY <1>1
  <1>4. s \in Seq(R)
    BY <1>2, <1>3
  <1>5. QED
    BY <1>1, <1>4 DEF Stack, R

LEMMA StackPushed ==
  ASSUME NEW s, Stack(s), NEW e
  PROVE  /\ Stack(Append(s, e))
         /\ Len(Append(s, e)) = Len(s) + 1
         /\ Append(s, e) # <<>>
         /\ \A i \in 1 .. Len(s) : Append(s, e)[i] = s[i]
         /\ Append(s, e)[Len(s) + 1] = e
         /\ Last(Append(s, e)) = e
         /\ Front(Append(s, e)) = s
  <1> DEFINE S == {s[i] : i \in 1 .. Len(s)} \cup {e}
  <1>1. s \in Seq(S) /\ e \in S /\ Len(s) \in Nat
    BY DEF Stack
  <1> HIDE DEF S
  <1>2. /\ Append(s, e) \in Seq(S) /\ Len(Append(s, e)) = Len(s) + 1
        /\ \A i \in 1 .. Len(s) : Append(s, e)[i] = s[i]
        /\ Append(s, e)[Len(s) + 1] = e
    BY <1>1, AppendProperties
  <1>3. Last(Append(s, e)) = e /\ Front(Append(s, e)) = s
    BY <1>1, FrontOfPushed
  <1> DEFINE p == Append(s, e)
  <1>4. p \in Seq(S) /\ Len(p) \in Nat
    BY <1>1, <1>2
  <1>5. Stack(p)
    BY <1>4, SeqIsStack
  <1>6. QED
    BY <1>1, <1>2, <1>3, <1>5

LEMMA StackPopped ==
  ASSUME NEW s, Stack(s)
  PROVE  /\ Stack(Front(s))
         /\ s # <<>> => /\ Len(Front(s)) = Len(s) - 1
                        /\ \A i \in 1 .. Len(s) - 1 : Front(s)[i] = s[i]
                        /\ Last(s) = s[Len(s)]
         /\ s # <<>> <=> Len(s) # 0
  <1> DEFINE S == {s[i] : i \in 1 .. Len(s)}
  <1>1. s \in Seq(S) /\ Len(s) \in Nat
    BY DEF Stack
  <1> HIDE DEF S
  <1>2. CASE s = <<>>
    <2>1. Front(s) = <<>>
      BY <1>2 DEF Front
    <2>2. Stack(<<>>)
      BY DEF Stack
    <2>3. QED
      BY <1>2, <2>1, <2>2
  <1>3. CASE s # <<>>
    <2> DEFINE front == [i \in 1 .. Len(s) - 1 |-> s[i]]
               last == s[Len(s)]
    <2>1. Len(s) # 0
      BY <1>1, <1>3
    <2>2. /\ front \in Seq(S) /\ Len(front) = Len(s) - 1
          /\ \A i \in 1 .. Len(s) - 1 : front[i] = s[i]
          /\ last \in S /\ last = s[Len(s)]
      BY <1>1, <2>1
    <2> HIDE DEF front, last
    <2>3. s = Append(front, last)
      <3>1. Append(front, last) \in Seq(S) /\ Len(Append(front, last)) = Len(s)
              /\ \A i \in 1 .. Len(s) : Append(front, last)[i] = s[i]
        BY <1>1, <2>1, <2>2
      <3>2. QED
        BY <1>1, <3>1
    <2>4. Front(Append(front, last)) = front /\ Last(Append(front, last)) = last
      BY <2>2, FrontOfPushed
    <2>5. Stack(front)
      BY <1>1, <2>2 DEF Stack
    <2>6. QED
      BY <1>3, <2>1, <2>2, <2>3, <2>4, <2>5
  <1>4. QED
    BY <1>2, <1>3

LEMMA FieldsOf ==
  ASSUME NEW h, IsHandler(h), NEW x
  PROVE  /\ [h EXCEPT !.root = x] = [root |-> x, refs |-> h.refs, element |-> h.element,
                                     keeps |-> h.keeps, keyKeeps |-> h.keyKeeps]
         /\ [h EXCEPT !.refs = x] = [root |-> h.root, refs |-> x, element |-> h.element,
                                     keeps |-> h.keeps, keyKeeps |-> h.keyKeeps]
         /\ [h EXCEPT !.element = x] = [root |-> h.root, refs |-> h.refs, element |-> x,
                                        keeps |-> h.keeps, keyKeeps |-> h.keyKeeps]
         /\ [h EXCEPT !.keeps = x] = [root |-> h.root, refs |-> h.refs, element |-> h.element,
                                      keeps |-> x, keyKeeps |-> h.keyKeeps]
         /\ [h EXCEPT !.keyKeeps = x] = [root |-> h.root, refs |-> h.refs, element |-> h.element,
                                         keeps |-> h.keeps, keyKeeps |-> x]
  BY DEF IsHandler

\* A value that is placed, and a member that is added, leave the stacks alone.
LEMMA RootKeepsStacks ==
  ASSUME NEW h, IsHandler(h), NEW x
  PROVE  IsHandler([h EXCEPT !.root = x]) /\ SameStacks([h EXCEPT !.root = x], h)
  BY FieldsOf DEF IsHandler, SameStacks

LEMMA ElementKeepsStacks ==
  ASSUME NEW h, IsHandler(h), NEW x
  PROVE  IsHandler([h EXCEPT !.element = x]) /\ SameStacks([h EXCEPT !.element = x], h)
  BY FieldsOf DEF IsHandler, SameStacks

LEMMA PlaceKeepsStacks ==
  ASSUME NEW h, IsHandler(h), NEW value
  PROVE  IsHandler(Place(h, value).handler) /\ SameStacks(Place(h, value).handler, h)
  <1>1. PICK x : Place(h, value).handler = [h EXCEPT !.root = x]
    BY DEF Place
  <1>2. QED
    BY <1>1, RootKeepsStacks

LEMMA AtKeyKeepsStacks ==
  ASSUME NEW h, IsHandler(h), NEW k, NEW value
  PROVE  IsHandler(AtKey(h, k, value)) /\ SameStacks(AtKey(h, k, value), h)
  <1>1. PICK x, y : AtKey(h, k, value) = [h EXCEPT !.root = x, !.element = y]
    BY DEF AtKey
  <1>2. [h EXCEPT !.root = x, !.element = y] = [[h EXCEPT !.root = x] EXCEPT !.element = y]
    OBVIOUS
  <1> DEFINE g == [h EXCEPT !.root = x]
  <1>3. IsHandler(g) /\ SameStacks(g, h)
    BY RootKeepsStacks
  <1> HIDE DEF g
  <1>4. IsHandler([g EXCEPT !.element = y]) /\ SameStacks([g EXCEPT !.element = y], g)
    BY <1>3, ElementKeepsStacks
  <1>5. AtKey(h, k, value) = [g EXCEPT !.element = y]
    BY <1>1, <1>2 DEF g
  <1>6. QED
    BY <1>3, <1>4, <1>5 DEF SameStacks

SameDepth(g, h) == h.refs = g.refs /\ h.keeps = g.keeps

\* What is in a dropped container is dropped.
Drops(h, placed) ==
  /\ Last(h.keeps) = FALSE => placed.ref = Nowhere
  /\ h.refs # <<>> /\ Last(h.refs) = Nowhere => placed.ref = Nowhere

\* handle_value keeps both stacks.
LEMMA CallbackPlaceKeepsStacks ==
  ASSUME NEW h, IsHandler(h), NEW value, NEW keep, NEW skip
  PROVE  /\ IsHandler(CallbackPlace(h, value, keep, skip).handler)
         /\ SameDepth(h, CallbackPlace(h, value, keep, skip).handler)
         /\ Drops(h, CallbackPlace(h, value, keep, skip))
  <1> DEFINE popped == [h EXCEPT !.keyKeeps = Front(@)]
             dropped == [handler |-> h, ref |-> Nowhere]
             placed == CallbackPlace(h, value, keep, skip)
  <1>1. /\ popped = [root |-> h.root, refs |-> h.refs, element |-> h.element,
                     keeps |-> h.keeps, keyKeeps |-> Front(h.keyKeeps)]
        /\ Stack(Front(h.keyKeeps))
    BY FieldsOf, StackPopped DEF IsHandler
  <1>2. IsHandler(popped) /\ popped.refs = h.refs /\ popped.keeps = h.keeps
    BY <1>1 DEF IsHandler
  <1>3. /\ dropped.handler = h /\ dropped.ref = Nowhere
        /\ [dropped EXCEPT !.handler = popped] = [handler |-> popped, ref |-> Nowhere]
    OBVIOUS
  <1>4. h.refs = <<>> <=> Len(h.refs) = 0
    BY StackPopped DEF IsHandler
  <1> HIDE DEF popped
  <1>5. \/ placed = [handler |-> h, ref |-> Nowhere]
        \/ placed = [handler |-> popped, ref |-> Nowhere]
        \/ /\ placed = Place(h, value) \/ placed = Place(popped, value)
           /\ Last(h.keeps) /\ ~(Len(h.refs) # 0 /\ Last(h.refs) = Nowhere)
    BY <1>3 DEF CallbackPlace, popped
  <1> HIDE DEF placed
  <1> DEFINE Kept == /\ IsHandler(placed.handler)
                     /\ SameDepth(h, placed.handler)
                     /\ Drops(h, placed)
  <1>6. ASSUME placed = [handler |-> h, ref |-> Nowhere]
        PROVE  Kept
    BY <1>6 DEF SameDepth, Drops
  <1>7. ASSUME placed = [handler |-> popped, ref |-> Nowhere]
        PROVE  Kept
    BY <1>2, <1>7 DEF SameDepth, Drops
  <1>8. ASSUME /\ placed = Place(h, value) \/ placed = Place(popped, value)
               /\ Last(h.keeps) /\ ~(Len(h.refs) # 0 /\ Last(h.refs) = Nowhere)
        PROVE  Kept
    <2>1. IsHandler(placed.handler) /\ SameDepth(h, placed.handler)
      BY <1>2, <1>8, PlaceKeepsStacks DEF SameStacks, SameDepth
    <2>2. QED
      BY <1>4, <1>8, <2>1 DEF Drops
  <1>9. Kept
    BY <1>5, <1>6, <1>7, <1>8
  <1>10. QED
    BY <1>9 DEF placed

(***************************************************************************)
(* ref_stack has one entry for each open container, keep_stack one more;   *)
(* what the callback rejected, and all within it, is nowhere.              *)
(***************************************************************************)
AlignedAt(h, mode, depth) ==
  /\ Len(h.refs) = depth
  /\ mode = "callback" =>
       /\ Len(h.keeps) = depth + 1
       /\ \A i \in 1 .. depth : h.keeps[i + 1] = FALSE => h.refs[i] = Nowhere
       /\ \A i, j \in 1 .. depth : i < j /\ h.refs[i] = Nowhere => h.refs[j] = Nowhere

\* The event of a container's start, and of its end.
OneDeeper(g, h, mode, keep) ==
  \E ref :
    /\ h.refs = Append(g.refs, ref)
    /\ mode = "callback" =>
         /\ h.keeps = Append(g.keeps, keep)
         /\ keep = FALSE => ref = Nowhere
         /\ g.refs # <<>> /\ Last(g.refs) = Nowhere => ref = Nowhere
OneOut(g, h, mode) ==
  h.refs = Front(g.refs) /\ (mode = "callback" => h.keeps = Front(g.keeps))

LEMMA AlignedDeeper ==
  ASSUME NEW g, IsHandler(g), NEW mode, NEW depth \in Nat, AlignedAt(g, mode, depth),
         NEW h, NEW keep, OneDeeper(g, h, mode, keep)
  PROVE  AlignedAt(h, mode, depth + 1)
  <1>1. PICK ref :
          /\ h.refs = Append(g.refs, ref)
          /\ mode = "callback" =>
               /\ h.keeps = Append(g.keeps, keep)
               /\ keep = FALSE => ref = Nowhere
               /\ g.refs # <<>> /\ Last(g.refs) = Nowhere => ref = Nowhere
    BY DEF OneDeeper
  <1>2. /\ Len(g.refs) = depth /\ Len(h.refs) = depth + 1
        /\ \A i \in 1 .. depth : h.refs[i] = g.refs[i]
        /\ h.refs[depth + 1] = ref
        /\ depth # 0 => g.refs # <<>> /\ Last(g.refs) = g.refs[depth]
    BY <1>1, StackPushed, StackPopped DEF IsHandler, AlignedAt
  <1>3. CASE mode = "callback"
    <2>1. /\ Len(g.keeps) = depth + 1 /\ Len(h.keeps) = depth + 2
          /\ \A i \in 1 .. depth + 1 : h.keeps[i] = g.keeps[i]
          /\ h.keeps[depth + 2] = keep
      BY <1>1, <1>3, StackPushed DEF IsHandler, AlignedAt
    <2>2. /\ \A i \in 1 .. depth : g.keeps[i + 1] = FALSE => g.refs[i] = Nowhere
          /\ \A i, j \in 1 .. depth : i < j /\ g.refs[i] = Nowhere => g.refs[j] = Nowhere
      BY <1>3 DEF AlignedAt
    <2>3. /\ keep = FALSE => ref = Nowhere
          /\ depth # 0 /\ g.refs[depth] = Nowhere => ref = Nowhere
      BY <1>1, <1>2, <1>3
    <2>4. ASSUME NEW i \in 1 .. depth + 1, h.keeps[i + 1] = FALSE
          PROVE  h.refs[i] = Nowhere
      BY <1>2, <2>1, <2>2, <2>3, <2>4
    <2>5. ASSUME NEW i \in 1 .. depth + 1, NEW j \in 1 .. depth + 1, i < j,
                 h.refs[i] = Nowhere
          PROVE  h.refs[j] = Nowhere
      <3>1. CASE j \in 1 .. depth
        <4>1. i \in 1 .. depth
          BY <2>5, <3>1
        <4>2. h.refs[i] = g.refs[i] /\ h.refs[j] = g.refs[j]
          BY <1>2, <3>1, <4>1
        <4>3. QED
          BY <2>2, <2>5, <3>1, <4>1, <4>2
      <3>2. CASE j = depth + 1
        <4>1. i \in 1 .. depth /\ depth # 0 /\ g.refs[i] = Nowhere
          BY <1>2, <2>5, <3>2
        <4>2. g.refs[depth] = Nowhere
          BY <2>2, <4>1
        <4>3. QED
          BY <1>2, <2>3, <3>2, <4>1, <4>2
      <3>3. QED
        BY <2>5, <3>1, <3>2
    <2>6. Len(h.refs) = depth + 1 /\ Len(h.keeps) = depth + 1 + 1
      BY <1>2, <2>1
    <2>7. QED
      BY <2>4, <2>5, <2>6, Zenon DEF AlignedAt
  <1>4. QED
    BY <1>2, <1>3 DEF AlignedAt

LEMMA AlignedOut ==
  ASSUME NEW g, IsHandler(g), NEW mode, NEW depth \in Nat, AlignedAt(g, mode, depth + 1),
         NEW h, OneOut(g, h, mode)
  PROVE  AlignedAt(h, mode, depth)
  <1>1. /\ Len(h.refs) = depth
        /\ \A i \in 1 .. depth : h.refs[i] = g.refs[i]
    BY StackPopped DEF IsHandler, AlignedAt, OneOut
  <1>2. CASE mode = "callback"
    <2>1. /\ Len(h.keeps) = depth + 1
          /\ \A i \in 1 .. depth + 1 : h.keeps[i] = g.keeps[i]
      BY <1>2, StackPopped DEF IsHandler, AlignedAt, OneOut
    <2>2. /\ \A i \in 1 .. depth + 1 : g.keeps[i + 1] = FALSE => g.refs[i] = Nowhere
          /\ \A i, j \in 1 .. depth + 1 : i < j /\ g.refs[i] = Nowhere => g.refs[j] = Nowhere
      BY <1>2 DEF AlignedAt
    <2>3. ASSUME NEW i \in 1 .. depth
          PROVE  h.refs[i] = g.refs[i] /\ h.keeps[i + 1] = g.keeps[i + 1] /\ i \in 1 .. depth + 1
      <3>1. i + 1 \in 1 .. depth + 1 /\ i \in 1 .. depth + 1
        OBVIOUS
      <3>2. QED
        BY <1>1, <2>1, <3>1
    <2>4. ASSUME NEW i \in 1 .. depth, h.keeps[i + 1] = FALSE
          PROVE  h.refs[i] = Nowhere
      BY <2>2, <2>3, <2>4
    <2>5. ASSUME NEW i \in 1 .. depth, NEW j \in 1 .. depth, i < j, h.refs[i] = Nowhere
          PROVE  h.refs[j] = Nowhere
      BY <2>2, <2>3, <2>5
    <2>6. QED
      BY <1>1, <2>1, <2>4, <2>5, Zenon DEF AlignedAt
  <1>3. QED
    BY <1>1, <1>2 DEF AlignedAt

LEMMA AlignedSame ==
  ASSUME NEW g, NEW h, NEW mode, NEW depth, AlignedAt(g, mode, depth), SameDepth(g, h)
  PROVE  AlignedAt(h, mode, depth)
  BY DEF AlignedAt, SameDepth

\* The events of the two handlers.
Entered(h, ref) == [h EXCEPT !.refs = Append(@, ref)]

LEMMA EnteredPushes ==
  ASSUME NEW h, IsHandler(h), NEW ref
  PROVE  /\ IsHandler(Entered(h, ref))
         /\ Entered(h, ref).refs = Append(h.refs, ref) /\ Entered(h, ref).keeps = h.keeps
  <1>1. Entered(h, ref) = [root |-> h.root, refs |-> Append(h.refs, ref), element |-> h.element,
                           keeps |-> h.keeps, keyKeeps |-> h.keyKeeps]
    BY FieldsOf DEF Entered
  <1>2. Stack(Append(h.refs, ref))
    BY StackPushed DEF IsHandler
  <1>3. QED
    BY <1>1, <1>2 DEF IsHandler

LEMMA StartIsDeeper ==
  ASSUME NEW g, IsHandler(g), NEW type, NEW keep
  PROVE  /\ IsHandler(DomStart(g, type)) /\ OneDeeper(g, DomStart(g, type), "dom", keep)
         /\ IsHandler(CallbackStart(g, type, keep))
         /\ OneDeeper(g, CallbackStart(g, type, keep), "callback", keep)
  <1>1. IsHandler(DomStart(g, type)) /\ OneDeeper(g, DomStart(g, type), "dom", keep)
    <2> DEFINE p == Place(g, Empty(type))
    <2>1. IsHandler(p.handler) /\ p.handler.refs = g.refs
      BY PlaceKeepsStacks DEF SameStacks
    <2>2. DomStart(g, type) = Entered(p.handler, p.ref)
      BY DEF DomStart, Entered
    <2> HIDE DEF p
    <2>3. IsHandler(DomStart(g, type)) /\ DomStart(g, type).refs = Append(g.refs, p.ref)
      BY <2>1, <2>2, EnteredPushes
    <2>4. QED
      BY <2>3 DEF OneDeeper
  <1>2. /\ IsHandler(CallbackStart(g, type, keep))
        /\ OneDeeper(g, CallbackStart(g, type, keep), "callback", keep)
    <2> DEFINE asked == [g EXCEPT !.keeps = Append(@, keep)]
               skip == TRUE
               p == CallbackPlace(asked, Empty(type), keep, skip)
    <2>1. IsHandler(asked) /\ asked.refs = g.refs /\ asked.keeps = Append(g.keeps, keep)
      BY FieldsOf, StackPushed DEF IsHandler
    <2>2. Last(asked.keeps) = keep
      BY <2>1, StackPushed DEF IsHandler
    <2>3. CallbackStart(g, type, keep) = Entered(p.handler, p.ref)
      BY DEF CallbackStart, Entered
    <2> HIDE DEF asked, skip
    <2>4. IsHandler(p.handler) /\ SameDepth(asked, p.handler) /\ Drops(asked, p)
      BY <2>1, CallbackPlaceKeepsStacks, Zenon
    <2> HIDE DEF p
    <2>5. /\ IsHandler(CallbackStart(g, type, keep))
          /\ CallbackStart(g, type, keep).refs = Append(g.refs, p.ref)
          /\ CallbackStart(g, type, keep).keeps = Append(g.keeps, keep)
      BY <2>1, <2>3, <2>4, EnteredPushes DEF SameDepth
    <2>6. QED
      BY <2>1, <2>2, <2>4, <2>5 DEF OneDeeper, Drops
  <1>3. QED
    BY <1>1, <1>2

LEMMA ValueIsSame ==
  ASSUME NEW g, IsHandler(g), NEW value, NEW keep
  PROVE  /\ IsHandler(DomValue(g, value)) /\ SameDepth(g, DomValue(g, value))
         /\ IsHandler(CallbackValue(g, value, keep))
         /\ SameDepth(g, CallbackValue(g, value, keep))
  <1>1. IsHandler(DomValue(g, value)) /\ SameDepth(g, DomValue(g, value))
    BY PlaceKeepsStacks DEF DomValue, SameStacks, SameDepth
  <1>2. /\ IsHandler(CallbackValue(g, value, keep))
        /\ SameDepth(g, CallbackValue(g, value, keep))
    <2> DEFINE skip == FALSE
    <2>1. CallbackValue(g, value, keep) = CallbackPlace(g, value, keep, skip).handler
      BY DEF CallbackValue
    <2> HIDE DEF skip
    <2>2. QED
      BY <2>1, CallbackPlaceKeepsStacks
  <1>3. QED
    BY <1>1, <1>2

\* A key pushes the callback's answer.
LEMMA KeyIsSame ==
  ASSUME NEW g, IsHandler(g), NEW k, NEW keep
  PROVE  /\ IsHandler(DomKey(g, k)) /\ SameDepth(g, DomKey(g, k))
         /\ IsHandler(CallbackKey(g, k, keep)) /\ SameDepth(g, CallbackKey(g, k, keep))
         /\ CallbackKey(g, k, keep).keyKeeps = Append(g.keyKeeps, keep)
  <1>1. IsHandler(DomKey(g, k)) /\ SameDepth(g, DomKey(g, k))
    BY AtKeyKeepsStacks DEF DomKey, SameStacks, SameDepth
  <1> DEFINE pushed == [g EXCEPT !.keyKeeps = Append(@, keep)]
  <1>2. /\ IsHandler(pushed) /\ SameDepth(g, pushed)
        /\ pushed.keyKeeps = Append(g.keyKeeps, keep)
    BY FieldsOf, StackPushed DEF IsHandler, SameDepth
  <1>3. CallbackKey(g, k, keep) \in {pushed, AtKey(pushed, k, Discarded)}
    BY DEF CallbackKey
  <1> HIDE DEF pushed
  <1>4. IsHandler(AtKey(pushed, k, Discarded)) /\ SameStacks(AtKey(pushed, k, Discarded), pushed)
    BY <1>2, AtKeyKeepsStacks
  <1>5. QED
    BY <1>1, <1>2, <1>3, <1>4 DEF SameDepth, SameStacks

LEMMA EndIsOut ==
  ASSUME NEW g, IsHandler(g), NEW keep
  PROVE  /\ IsHandler(DomEnd(g)) /\ OneOut(g, DomEnd(g), "dom")
         /\ IsHandler(CallbackEndArray(g, keep))
         /\ OneOut(g, CallbackEndArray(g, keep), "callback")
         /\ IsHandler(CallbackEndObject(g, keep))
         /\ OneOut(g, CallbackEndObject(g, keep), "callback")
  <1>1. IsHandler(DomEnd(g)) /\ OneOut(g, DomEnd(g), "dom")
    BY FieldsOf, StackPopped DEF DomEnd, IsHandler, OneOut
  <1> DEFINE f == Finish(g, keep).handler
  <1>2. IsHandler(f) /\ OneOut(g, f, "callback")
    <2>1. PICK x : f = [g EXCEPT !.root = x, !.refs = Front(@), !.keeps = Front(@)]
      BY DEF Finish
    <2>2. f = [root |-> x, refs |-> Front(g.refs), element |-> g.element,
               keeps |-> Front(g.keeps), keyKeeps |-> g.keyKeeps]
      BY <2>1 DEF IsHandler
    <2>3. QED
      BY <2>2, StackPopped DEF IsHandler, OneOut
  <1>3. \/ CallbackEndArray(g, keep) = f
        \/ \E x : CallbackEndArray(g, keep) = [f EXCEPT !.root = x]
    BY DEF CallbackEndArray
  <1>4. \/ CallbackEndObject(g, keep) = f
        \/ \E x : CallbackEndObject(g, keep) = [f EXCEPT !.root = x]
    BY DEF CallbackEndObject, RemoveDiscarded
  <1> HIDE DEF f
  <1>5. ASSUME NEW x
        PROVE  IsHandler([f EXCEPT !.root = x]) /\ OneOut(g, [f EXCEPT !.root = x], "callback")
    BY <1>2, RootKeepsStacks DEF SameStacks, OneOut
  <1>6. QED
    BY <1>1, <1>2, <1>3, <1>4, <1>5

-----------------------------------------------------------------------------
(* The stacks of the handler and the stack of the parser.                  *)

\* The open containers, the one whose first token is due included.
Depth(place, stack) ==
  Len(stack) + IF place \in {"arrayFirst", "objectFirst", "firstSeparator"} THEN 1 ELSE 0

\* The value of a member is due, and what the callback answered to its key.
MemberDue == \/ pc \in {"firstSeparator", "separator"}
             \/ pc = "value" /\ states # <<>> /\ Last(states) = FALSE
KeyAnswer == tokens[IF pc = "value" THEN Len(tokens) - 1 ELSE Len(tokens)].keep

KeyOnTop ==
  call.mode = "callback" /\ MemberDue =>
    handler.keyKeeps # <<>> /\ Last(handler.keyKeeps) = KeyAnswer

StacksAligned ==
  ~errored /\ call.mode # "accept" =>
    AlignedAt(handler, call.mode, Depth(pc, states)) /\ KeyOnTop

HandlerInv ==
  /\ IsHandler(handler)
  /\ pc # "value" => tokens # <<>>
  /\ StacksAligned

LEMMA HandlerStarts == Init => HandlerInv
  <1>1. SUFFICES ASSUME Init PROVE HandlerInv
    OBVIOUS
  <1>2. /\ pc = "value" /\ tokens = <<>> /\ states = <<>>
        /\ handler = [root |-> Null, refs |-> <<>>, element |-> Nowhere,
                      keeps |-> <<TRUE>>, keyKeeps |-> <<>>]
    BY <1>1, Zenon DEF Init, Handler
  <1>3. Stack(<<>>) /\ Stack(<<TRUE>>)
    <2>1. <<>> \in Seq(BOOLEAN) /\ <<TRUE>> \in Seq(BOOLEAN)
      OBVIOUS
    <2>2. QED
      BY <2>1, SeqIsStack
  <1>4. IsHandler(handler)
    BY <1>2, <1>3 DEF IsHandler
  <1>5. Depth(pc, states) = 0
    BY <1>2 DEF Depth
  <1>6. AlignedAt(handler, call.mode, 0)
    BY <1>2 DEF AlignedAt
  <1>7. KeyOnTop
    BY <1>2 DEF KeyOnTop, MemberDue
  <1>8. QED
    BY <1>2, <1>4, <1>5, <1>6, <1>7 DEF HandlerInv, StacksAligned

LEMMA CallModes == Typed => call.mode \in {"dom", "callback", "accept"}
  BY ParserAssumption DEF Typed, Modes

\* How the events of a step move the stacks.
LEMMA DeliveredDepth ==
  ASSUME Typed, IsHandler(handler), NEW dom, NEW callback, Deliver(dom, callback),
         NEW depth \in Nat, NEW next \in Nat,
         call.mode # "accept" => AlignedAt(handler, call.mode, depth),
         NEW keep,
         \/ /\ next = depth
            /\ IsHandler(dom) /\ SameDepth(handler, dom)
            /\ IsHandler(callback) /\ SameDepth(handler, callback)
         \/ /\ next = depth + 1
            /\ IsHandler(dom) /\ OneDeeper(handler, dom, "dom", keep)
            /\ IsHandler(callback) /\ OneDeeper(handler, callback, "callback", keep)
         \/ /\ depth = next + 1
            /\ IsHandler(dom) /\ OneOut(handler, dom, "dom")
            /\ IsHandler(callback) /\ OneOut(handler, callback, "callback")
  PROVE  /\ IsHandler(handler')
         /\ call.mode # "accept" => AlignedAt(handler', call.mode, next)
         /\ call.mode = "callback" => handler' = callback
  <1>1. \/ call.mode = "dom" /\ handler' = dom
        \/ call.mode = "callback" /\ handler' = callback
        \/ call.mode = "accept" /\ handler' = handler
    BY CallModes DEF Deliver
  <1>2. CASE /\ next = depth
             /\ IsHandler(dom) /\ SameDepth(handler, dom)
             /\ IsHandler(callback) /\ SameDepth(handler, callback)
    BY <1>1, <1>2, AlignedSame
  <1>3. CASE /\ next = depth + 1
             /\ IsHandler(dom) /\ OneDeeper(handler, dom, "dom", keep)
             /\ IsHandler(callback) /\ OneDeeper(handler, callback, "callback", keep)
    BY <1>1, <1>3, AlignedDeeper
  <1>4. CASE /\ depth = next + 1
             /\ IsHandler(dom) /\ OneOut(handler, dom, "dom")
             /\ IsHandler(callback) /\ OneOut(handler, callback, "callback")
    BY <1>1, <1>4, AlignedOut
  <1>5. QED
    BY <1>2, <1>3, <1>4

\* A step without an error keeps the invariant if the stacks move with the
\* open containers and the answer to a key stays on top until its value.
LEMMA AlignedStep ==
  ASSUME Typed, HandlerInv, errored = FALSE, NEW t \in Tokens \cup {EndOfInput},
         NEW keep \in BOOLEAN, Scanned(t, keep), IsHandler(handler'),
         NEW next, next = Depth(pc', states'),
         call.mode # "accept" => AlignedAt(handler', call.mode, next),
         KeyOnTop'
  PROVE  HandlerInv'
  <1>1. call' = call /\ tokens' = Append(tokens, Read(t, keep)) /\ tokens \in Seq(TokensRead)
          /\ Read(t, keep) \in TokensRead
    BY ScannedRead DEF Typed
  <1>2. tokens' # <<>>
    <2>1. Len(Append(tokens, Read(t, keep))) = Len(tokens) + 1 /\ Len(tokens) \in Nat
      BY <1>1, AppendProperties
    <2>2. QED
      BY <1>1, <2>1
  <1>3. StacksAligned'
    BY <1>1 DEF StacksAligned
  <1>4. QED
    BY <1>2, <1>3 DEF HandlerInv

LEMMA DepthIsNat ==
  ASSUME NEW place, NEW stack \in Stacks
  PROVE  /\ Depth(place, stack) \in Nat
         /\ Depth(place, stack) = Len(stack)
              + IF place \in {"arrayFirst", "objectFirst", "firstSeparator"} THEN 1 ELSE 0
         /\ \A b \in BOOLEAN : Len(Append(stack, b)) = Len(stack) + 1
         /\ stack # <<>> => Len(Front(stack)) = Len(stack) - 1
         /\ Len(stack) \in Nat
  <1>1. Len(stack) \in Nat /\ Stack(stack)
    BY SeqIsStack DEF Stacks
  <1>2. QED
    BY <1>1, StackPushed, StackPopped DEF Depth

LEMMA HandlerBefore ==
  ASSUME ParserInv, HandlerInv, pc # "done", pc # "end",
         NEW depth, depth = Depth(pc, states)
  PROVE  /\ Typed /\ errored = FALSE /\ states \in Stacks /\ Fits(pc, states)
         /\ IsHandler(handler) /\ depth \in Nat
         /\ call.mode # "accept" => AlignedAt(handler, call.mode, depth)
  <1>1. Typed /\ errored = FALSE /\ states \in Stacks /\ Fits(pc, states)
    BY NoErrorYet DEF ParserInv
  <1>2. QED
    BY <1>1, DepthIsNat DEF HandlerInv, StacksAligned

LEMMA ScalarValueAligned ==
  ASSUME ParserInv, HandlerInv, NEW t \in Tokens \cup {EndOfInput}, NEW keep \in BOOLEAN,
         Scanned(t, keep), ScalarValue(t, keep)
  PROVE  HandlerInv'
  <1> DEFINE depth == Depth(pc, states)
             next == Depth(pc', states')
  <1>1. /\ pc \in {"value", "arrayFirst"} /\ Complete(Opened)
        /\ Deliver(DomValue(handler, t.value), CallbackValue(handler, t.value, keep))
    BY DEF ScalarValue, ValueExpected, Value
  <1>2. /\ Typed /\ errored = FALSE /\ states \in Stacks /\ IsHandler(handler) /\ depth \in Nat
        /\ call.mode # "accept" => AlignedAt(handler, call.mode, depth)
    BY <1>1, HandlerBefore
  <1>3. Opened = (IF pc = "arrayFirst" THEN Append(states, TRUE) ELSE states) /\ Opened \in Stacks
    BY <1>2, Pushed DEF Opened
  <1>4. states' = Opened /\ pc' \in {"evaluate", "end", "done"}
    BY <1>1, <1>3, CompleteCompletes DEF Completed
  <1>5. next = depth
    <2>1. Len(Opened) = Len(states) + (IF pc = "arrayFirst" THEN 1 ELSE 0)
            /\ Len(states) \in Nat /\ Len(Opened) \in Nat
      BY <1>2, <1>3, DepthIsNat
    <2>2. depth = Len(states) + (IF pc = "arrayFirst" THEN 1 ELSE 0)
      BY <1>1, <1>2 DEF Depth
    <2>3. pc' \notin {"arrayFirst", "objectFirst", "firstSeparator"}
      BY <1>4
    <2>4. next = Len(states') + 0
      BY <2>3 DEF Depth
    <2>5. Len(states') = Len(Opened)
      BY <1>4
    <2> HIDE DEF depth, next
    <2>6. QED
      BY <2>1, <2>2, <2>4, <2>5
  <1>6. KeyOnTop'
    BY <1>4 DEF KeyOnTop, MemberDue
  <1> HIDE DEF depth, next
  <1>7. IsHandler(handler') /\ (call.mode # "accept" => AlignedAt(handler', call.mode, next))
    BY <1>1, <1>2, <1>5, ValueIsSame, DeliveredDepth
  <1>8. QED
    BY <1>2, <1>6, <1>7, AlignedStep DEF next

LEMMA BeginContainerAligned ==
  ASSUME ParserInv, HandlerInv, NEW t \in Tokens \cup {EndOfInput}, NEW keep \in BOOLEAN,
         Scanned(t, keep), BeginContainer(t, keep)
  PROVE  HandlerInv'
  <1> DEFINE depth == Depth(pc, states)
             next == Depth(pc', states')
  <1>1. /\ pc \in {"value", "arrayFirst"} /\ states' = Opened
        /\ pc' \in {"arrayFirst", "objectFirst"}
        /\ Start("array", keep) \/ Start("object", keep)
    BY DEF BeginContainer, ValueExpected, GoTo
  <1>2. /\ Typed /\ errored = FALSE /\ states \in Stacks /\ IsHandler(handler) /\ depth \in Nat
        /\ call.mode # "accept" => AlignedAt(handler, call.mode, depth)
    BY <1>1, HandlerBefore
  <1>3. Opened = (IF pc = "arrayFirst" THEN Append(states, TRUE) ELSE states) /\ Opened \in Stacks
    BY <1>2, Pushed DEF Opened
  <1>4. next = depth + 1 /\ next \in Nat
    <2>1. Len(Opened) = Len(states) + (IF pc = "arrayFirst" THEN 1 ELSE 0)
            /\ Len(states) \in Nat /\ Len(Opened) \in Nat
      BY <1>2, <1>3, DepthIsNat
    <2>2. depth = Len(states) + (IF pc = "arrayFirst" THEN 1 ELSE 0)
      BY <1>1, <1>2 DEF Depth
    <2>3. next = Len(Opened) + 1
      BY <1>1, <2>1 DEF Depth
    <2>4. QED
      BY <2>1, <2>2, <2>3
  <1>5. KeyOnTop'
    BY <1>1 DEF KeyOnTop, MemberDue
  <1>6. PICK type : Deliver(DomStart(handler, type), CallbackStart(handler, type, keep))
    BY <1>1 DEF Start
  <1> HIDE DEF depth, next
  <1>7. IsHandler(handler') /\ (call.mode # "accept" => AlignedAt(handler', call.mode, next))
    BY <1>2, <1>4, <1>6, StartIsDeeper, DeliveredDepth
  <1>8. QED
    BY <1>2, <1>5, <1>7, AlignedStep DEF next

\* The end of a container, whichever way it came.
LEMMA EndedAligned ==
  ASSUME ParserInv, HandlerInv, NEW t \in Tokens \cup {EndOfInput}, NEW keep \in BOOLEAN,
         Scanned(t, keep), pc \in {"arrayFirst", "objectFirst", "evaluate"},
         End("array", keep) \/ End("object", keep),
         pc' \in {"evaluate", "end", "done"},
         states' = IF pc = "evaluate" THEN Front(states) ELSE states
  PROVE  HandlerInv'
  <1> DEFINE depth == Depth(pc, states)
             next == Depth(pc', states')
  <1>1. /\ Typed /\ errored = FALSE /\ states \in Stacks /\ IsHandler(handler) /\ depth \in Nat
        /\ call.mode # "accept" => AlignedAt(handler, call.mode, depth)
        /\ pc = "evaluate" => states # <<>>
    BY HandlerBefore DEF Fits
  <1>2. depth = next + 1 /\ next \in Nat
    <2>1. CASE pc = "evaluate"
      <3>1. states' \in Stacks /\ Len(states') = Len(states) - 1
        BY <1>1, <2>1, DepthIsNat, TopOf
      <3>2. QED
        BY <1>1, <2>1, <3>1, DepthIsNat
    <2>2. CASE pc # "evaluate"
      BY <1>1, <2>2, DepthIsNat
    <2>3. QED
      BY <2>1, <2>2
  <1>3. KeyOnTop'
    BY DEF KeyOnTop, MemberDue
  <1>4. \/ Deliver(DomEnd(handler), CallbackEndArray(handler, keep))
        \/ Deliver(DomEnd(handler), CallbackEndObject(handler, keep))
    BY DEF End
  <1> HIDE DEF depth, next
  <1>5. IsHandler(handler') /\ (call.mode # "accept" => AlignedAt(handler', call.mode, next))
    BY <1>1, <1>2, <1>4, EndIsOut, DeliveredDepth
  <1>6. QED
    BY <1>1, <1>3, <1>5, AlignedStep DEF next

LEMMA EndEmptyAligned ==
  ASSUME ParserInv, HandlerInv, NEW t \in Tokens \cup {EndOfInput}, NEW keep \in BOOLEAN,
         Scanned(t, keep), EndEmpty(t, keep)
  PROVE  HandlerInv'
  <1>1. /\ pc \in {"arrayFirst", "objectFirst"} /\ Complete(states)
        /\ End("array", keep) \/ End("object", keep)
    BY DEF EndEmpty
  <1>2. states \in Stacks
    BY <1>1, NoErrorYet
  <1>3. states' = states /\ pc' \in {"evaluate", "end", "done"}
    BY <1>1, <1>2, CompleteCompletes DEF Completed
  <1>4. QED
    BY <1>1, <1>3, EndedAligned

LEMMA EndContainerAligned ==
  ASSUME ParserInv, HandlerInv, NEW t \in Tokens \cup {EndOfInput}, NEW keep \in BOOLEAN,
         Scanned(t, keep), EndContainer(t, keep)
  PROVE  HandlerInv'
  <1>1. /\ pc = "evaluate" /\ Complete(Front(states))
        /\ End("array", keep) \/ End("object", keep)
    BY DEF EndContainer
  <1>2. Front(states) \in Stacks
    BY <1>1, NoErrorYet, TopOf DEF Fits
  <1>3. states' = Front(states) /\ pc' \in {"evaluate", "end", "done"}
    BY <1>1, <1>2, CompleteCompletes DEF Completed
  <1>4. QED
    BY <1>1, <1>3, EndedAligned

LEMMA MemberKeyAligned ==
  ASSUME ParserInv, HandlerInv, NEW t \in Tokens \cup {EndOfInput}, NEW keep \in BOOLEAN,
         Scanned(t, keep), MemberKey(t, keep)
  PROVE  HandlerInv'
  <1> DEFINE depth == Depth(pc, states)
             next == Depth(pc', states')
             k == t.value.string
  <1>1. /\ pc \in {"objectFirst", "key"} /\ states' = states
        /\ pc' = IF pc = "key" THEN "separator" ELSE "firstSeparator"
        /\ Deliver(DomKey(handler, k), CallbackKey(handler, k, keep))
    BY DEF MemberKey, GoTo, Key
  <1>2. /\ Typed /\ errored = FALSE /\ states \in Stacks /\ IsHandler(handler) /\ depth \in Nat
        /\ call.mode # "accept" => AlignedAt(handler, call.mode, depth)
    BY <1>1, HandlerBefore
  <1>3. next = depth
    BY <1>1, <1>2, DepthIsNat
  <1> HIDE DEF depth, next, k
  <1>4. /\ IsHandler(handler') /\ (call.mode # "accept" => AlignedAt(handler', call.mode, next))
        /\ call.mode = "callback" => handler' = CallbackKey(handler, k, keep)
    BY <1>1, <1>2, <1>3, KeyIsSame, DeliveredDepth
  <1>5. KeyOnTop'
    <2>1. /\ call' = call /\ tokens' = Append(tokens, Read(t, keep))
          /\ tokens \in Seq(TokensRead) /\ Read(t, keep) \in TokensRead
          /\ Read(t, keep).keep = keep
      BY <1>2, ScannedRead DEF Typed, Read
    <2>2. tokens'[Len(tokens')] = Read(t, keep)
      BY <2>1, AppendProperties
    <2>3. pc' # "value"
      BY <1>1
    <2>4. KeyAnswer' = keep
      BY <2>1, <2>2, <2>3 DEF KeyAnswer
    <2>5. call.mode = "callback" =>
            handler'.keyKeeps # <<>> /\ Last(handler'.keyKeeps) = keep
      <3>1. CallbackKey(handler, k, keep).keyKeeps = Append(handler.keyKeeps, keep)
        BY <1>2, KeyIsSame
      <3>2. /\ Append(handler.keyKeeps, keep) # <<>>
            /\ Last(Append(handler.keyKeeps, keep)) = keep
        BY <1>2, StackPushed DEF IsHandler
      <3>3. QED
        BY <1>4, <3>1, <3>2
    <2>6. QED
      BY <2>1, <2>4, <2>5, Zenon DEF KeyOnTop
  <1>6. QED
    BY <1>2, <1>4, <1>5, AlignedStep DEF next

\* A step without an event.
LEMMA SilentAligned ==
  ASSUME ParserInv, HandlerInv, NEW t \in Tokens \cup {EndOfInput}, NEW keep \in BOOLEAN,
         Scanned(t, keep), pc # "done", pc # "end", handler' = handler,
         Depth(pc', states') = Depth(pc, states), KeyOnTop'
  PROVE  HandlerInv'
  <1> DEFINE depth == Depth(pc, states)
  <1>1. /\ Typed /\ errored = FALSE /\ IsHandler(handler)
        /\ call.mode # "accept" => AlignedAt(handler, call.mode, depth)
    BY HandlerBefore
  <1> HIDE DEF depth
  <1>2. depth = Depth(pc', states')
    BY DEF depth
  <1>3. IsHandler(handler') /\ (call.mode # "accept" => AlignedAt(handler', call.mode, depth))
    BY <1>1
  <1>4. QED
    BY <1>1, <1>2, <1>3, AlignedStep

LEMMA SeparatorAligned ==
  ASSUME ParserInv, HandlerInv, NEW t \in Tokens \cup {EndOfInput}, NEW keep \in BOOLEAN,
         Scanned(t, keep), Separator(t, keep)
  PROVE  HandlerInv'
  <1>1. /\ pc \in {"firstSeparator", "separator"} /\ pc' = "value"
        /\ states' = IF pc = "firstSeparator" THEN Append(states, FALSE) ELSE states
        /\ handler' = handler
    BY DEF Separator, GoTo
  <1>2. Typed /\ errored = FALSE /\ states \in Stacks
    BY <1>1, NoErrorYet DEF ParserInv
  <1>3. Depth(pc', states') = Depth(pc, states)
    <2>1. Len(states') = Len(states) + (IF pc = "firstSeparator" THEN 1 ELSE 0)
            /\ Len(states) \in Nat
      BY <1>1, <1>2, DepthIsNat
    <2>2. Depth(pc, states) = Len(states) + (IF pc = "firstSeparator" THEN 1 ELSE 0)
      BY <1>1 DEF Depth
    <2>3. Depth(pc', states') = Len(states')
      BY <1>1, <2>1 DEF Depth
    <2>4. QED
      BY <2>1, <2>2, <2>3
  <1>4. KeyOnTop'
    <2>1. /\ call' = call /\ tokens' = Append(tokens, Read(t, keep))
          /\ tokens \in Seq(TokensRead) /\ Read(t, keep) \in TokensRead
      BY <1>2, ScannedRead DEF Typed
    <2>2. Len(tokens) \in Nat /\ Len(tokens) # 0
      BY <1>1, <2>1 DEF HandlerInv
    <2>3. Len(tokens') - 1 = Len(tokens) /\ tokens'[Len(tokens)] = tokens[Len(tokens)]
      BY <2>1, <2>2, AppendProperties
    <2>4. KeyAnswer' = KeyAnswer
      BY <1>1, <2>3 DEF KeyAnswer
    <2>5. call.mode = "callback" =>
            handler.keyKeeps # <<>> /\ Last(handler.keyKeeps) = KeyAnswer
      <3>1. MemberDue
        BY <1>1 DEF MemberDue
      <3>2. call.mode = "callback" => KeyOnTop
        BY <1>2, SMT DEF HandlerInv, StacksAligned
      <3>3. QED
        BY <3>1, <3>2 DEF KeyOnTop
    <2>6. QED
      BY <1>1, <2>1, <2>4, <2>5, Zenon DEF KeyOnTop
  <1>5. QED
    BY <1>1, <1>3, <1>4, SilentAligned

LEMMA NextValueAligned ==
  ASSUME ParserInv, HandlerInv, NEW t \in Tokens \cup {EndOfInput}, NEW keep \in BOOLEAN,
         Scanned(t, keep), NextValue(t, keep)
  PROVE  HandlerInv'
  <1>1. /\ pc = "evaluate" /\ states' = states /\ handler' = handler
        /\ pc' = IF Last(states) THEN "value" ELSE "key"
    BY DEF NextValue, GoTo
  <1>2. Depth(pc', states') = Depth(pc, states)
    BY <1>1 DEF Depth
  <1>3. KeyOnTop'
    <2>1. ~MemberDue'
      BY <1>1 DEF MemberDue
    <2>2. QED
      BY <2>1 DEF KeyOnTop
  <1>4. QED
    BY <1>1, <1>2, <1>3, SilentAligned

\* At the end, and after an error, the handler hears nothing more.
LEMMA EndingAligned ==
  ASSUME ParserInv, HandlerInv, NEW t \in Tokens \cup {EndOfInput}, NEW keep \in BOOLEAN,
         Scanned(t, keep), Unexpected(t, keep) \/ EndReached(t, keep)
  PROVE  HandlerInv'
  <1>1. Typed /\ call' = call /\ tokens' = Append(tokens, Read(t, keep))
          /\ tokens \in Seq(TokensRead) /\ Read(t, keep) \in TokensRead
    BY ScannedRead DEF Typed, ParserInv
  <1>2. tokens' # <<>>
    <2>1. Len(Append(tokens, Read(t, keep))) = Len(tokens) + 1 /\ Len(tokens) \in Nat
      BY <1>1, AppendProperties
    <2>2. QED
      BY <1>1, <2>1
  <1>3. handler' = handler /\ states' = states
    BY DEF Unexpected, ParseError, EndReached
  <1>4. CASE Unexpected(t, keep)
    <2>1. errored' = TRUE
      BY <1>4 DEF Unexpected, ParseError
    <2>2. QED
      BY <1>2, <1>3, <2>1 DEF HandlerInv, StacksAligned
  <1>5. CASE EndReached(t, keep)
    <2>1. pc = "end" /\ pc' = "done" /\ errored' = errored
      BY <1>5 DEF EndReached, Done
    <2>2. Depth(pc', states') = Depth(pc, states)
      BY <1>3, <2>1 DEF Depth
    <2>3. KeyOnTop'
      BY <2>1 DEF KeyOnTop, MemberDue
    <2>4. ~errored /\ call.mode # "accept" => AlignedAt(handler, call.mode, Depth(pc, states))
      BY DEF HandlerInv, StacksAligned
    <2>5. StacksAligned'
      BY <1>1, <1>3, <2>1, <2>2, <2>3, <2>4 DEF StacksAligned
    <2>6. QED
      BY <1>2, <1>3, <2>5 DEF HandlerInv
  <1>6. QED
    BY <1>4, <1>5

LEMMA HandlerSteps == ParserInv /\ HandlerInv /\ [Next]_vars => HandlerInv'
  <1>1. SUFFICES ASSUME ParserInv, HandlerInv, [Next]_vars PROVE HandlerInv'
    OBVIOUS
  <1>2. CASE Next
    <2>1. PICK t \in Tokens \cup {EndOfInput}, keep \in BOOLEAN :
            /\ Scanned(t, keep)
            /\ \/ ScalarValue(t, keep) \/ BeginContainer(t, keep) \/ EndEmpty(t, keep)
               \/ MemberKey(t, keep) \/ Separator(t, keep) \/ NextValue(t, keep)
               \/ EndContainer(t, keep) \/ Unexpected(t, keep) \/ EndReached(t, keep)
      BY <1>2, Zenon DEF Next
    <2>2. CASE ScalarValue(t, keep)
      BY <1>1, <2>1, <2>2, ScalarValueAligned
    <2>3. CASE BeginContainer(t, keep)
      BY <1>1, <2>1, <2>3, BeginContainerAligned
    <2>4. CASE EndEmpty(t, keep)
      BY <1>1, <2>1, <2>4, EndEmptyAligned
    <2>5. CASE MemberKey(t, keep)
      BY <1>1, <2>1, <2>5, MemberKeyAligned
    <2>6. CASE Separator(t, keep)
      BY <1>1, <2>1, <2>6, SeparatorAligned
    <2>7. CASE NextValue(t, keep)
      BY <1>1, <2>1, <2>7, NextValueAligned
    <2>8. CASE EndContainer(t, keep)
      BY <1>1, <2>1, <2>8, EndContainerAligned
    <2>9. CASE Unexpected(t, keep) \/ EndReached(t, keep)
      BY <1>1, <2>1, <2>9, EndingAligned
    <2>10. QED
      BY <2>1, <2>2, <2>3, <2>4, <2>5, <2>6, <2>7, <2>8, <2>9
  <1>3. CASE UNCHANGED vars
    <2>1. HandlerInv' <=> HandlerInv
      BY <1>3 DEF vars, HandlerInv, StacksAligned, KeyOnTop, MemberDue, KeyAnswer
    <2>2. QED
      BY <1>1, <2>1
  <1>4. QED
    BY <1>1, <1>2, <1>3

\* The parser's stack and the handlers' stacks move together, for every text,
\* every depth and every callback: ref_stack has one entry for each open
\* container and keep_stack one more, so that back() and pop_back() never meet an
\* empty stack; the answer that handle_value takes from key_keep_stack is the one
\* to the member's own key, though rejected members leave answers behind; and what
\* is within a rejected container is never placed.
THEOREM HandlersFollow == Spec => []StacksAligned
  <1>1. Init => ParserInv /\ HandlerInv
    BY ParserStarts, HandlerStarts
  <1>2. (ParserInv /\ HandlerInv) /\ [Next]_vars => (ParserInv /\ HandlerInv)'
    BY ParserSteps, HandlerSteps
  <1>3. ParserInv /\ HandlerInv => StacksAligned
    BY DEF HandlerInv
  <1>4. QED
    BY <1>1, <1>2, <1>3, PTL DEF Spec

=============================================================================
