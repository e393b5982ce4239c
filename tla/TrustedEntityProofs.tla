------------------------- MODULE TrustedEntityProofs -------------------------
(***************************************************************************)
(* Proofs about TrustedEntity, for any number of owners and of runs.       *)
(*                                                                         *)
(* The properties of an issued ClientID need to know where an id comes     *)
(* from, how the ids of one run differ, and what every entry of keyList    *)
(* goes back to.  TEInv adds that to the type invariant.                   *)
(***************************************************************************)
EXTENDS TrustedEntity, TLAPS

\* The handler of o has drawn an id and made a key.
Derived(o) == gen[o].key # NoKey

\* A handler at work belongs to the current run, and which handlers have a key.
HandlerRuns ==
  \A o \in Owners :
    /\ gen[o].run <= teRun
    /\ gen[o].st \in GenBusy => teUp /\ gen[o].run = teRun
    /\ gen[o].st \in {"derived", "storing", "stored", "replied"} => Derived(o)
    /\ gen[o].st \in {"none", "accepted"} => ~Derived(o)

\* Ids come from the draws of their run, or from a source that never repeats.
IdsDrawn ==
  \A o \in Owners : Derived(o) =>
    /\ gen[o].id \in 1..minted
    /\ gen[o].key \in 1..minted
    /\ FreshSeed => gen[o].id = gen[o].key
    /\ (~FreshSeed /\ gen[o].run = teRun) => gen[o].id <= draws

\* Two handlers of the current run have different ids.
IdsDiffer ==
  \A o, p \in Owners :
    (o # p /\ Derived(o) /\ Derived(p) /\ gen[o].run = teRun /\ gen[p].run = teRun)
      => gen[o].id # gen[p].id

\* What was stored in the current run is still there, unless assignments overlapped.
StoredStays ==
  \A o \in Owners :
    (gen[o].st \in {"stored", "replied"} /\ gen[o].run = teRun /\ ~torn)
      => gen[o].id \in DOMAIN keyList /\ keyList[gen[o].id] = gen[o].key

\* Every entry was made by a handler.
EntriesIssued ==
  \A id \in DOMAIN keyList :
    /\ FreshSeed => keyList[id] = id
    /\ \E p \in Owners : Derived(p) /\ gen[p].id = id /\ gen[p].key = keyList[id]

TEInv ==
  /\ TETypeOK
  /\ HandlerRuns
  /\ IdsDrawn
  /\ IdsDiffer
  /\ StoredStays
  /\ EntriesIssued
  /\ FetchedWasIssued


-----------------------------------------------------------------------------
(* Every action keeps TEInv *)

\* The server starts in the invariant: no handler has a key, keyList is empty.
LEMMA InitInv == TEInit => TEInv
<1> SUFFICES ASSUME TEInit
             PROVE  TEInv
  OBVIOUS
<1>1. TETypeOK
  <2>1. gen \in [Owners -> GenHandler]
    BY DEF TEInit, GenHandler, GenEnded, NoGen, NoKey
  <2>2. fetch \in [Owners -> FetchHandler]
    BY DEF TEInit, FetchHandler, FetchEnded, Harms, NoFetch, NoKey
  <2>3. teUp \in BOOLEAN /\ torn \in BOOLEAN
    BY Zenon DEF TEInit
  <2>4. teRun \in 1..MaxTERuns
    BY TEAssumption DEF TEInit
  <2>5. QED
    BY <2>1, <2>2, <2>3, <2>4 DEF TEInit, TETypeOK, EmptyKeyList
<1>2. QED
  BY <1>1 DEF TEInit, TEInv, HandlerRuns, IdsDrawn, IdsDiffer, StoredStays, EntriesIssued,
              FetchedWasIssued, Derived, GenBusy, NoGen, NoFetch, NoKey, EmptyKeyList

\* The handler of o moves on to t and nothing else changes; t may be a state
\* in which the key has to be made or stored.
Move(o, t) ==
  /\ gen' = [gen EXCEPT ![o].st = t]
  /\ UNCHANGED <<teUp, teRun, draws, minted, keyList, torn, fetch>>
  /\ t \in GenBusy => teUp /\ gen[o].run = teRun
  /\ t \in {"derived", "storing", "stored", "replied"} => Derived(o)
  /\ t \in {"none", "accepted"} => ~Derived(o)
  /\ (t \in {"stored", "replied"} /\ gen[o].run = teRun /\ ~torn)
       => gen[o].id \in DOMAIN keyList /\ keyList[gen[o].id] = gen[o].key

\* A handler that only moves on, with its id and key as they are, keeps the
\* invariant if it keeps the parts of it that speak of its state.
LEMMA MoveInv ==
  ASSUME TEInv, NEW o \in Owners, NEW t \in GenBusy \cup GenEnded, Move(o, t)
  PROVE  TEInv'
<1> USE DEF TEInv, Move
<1>1. TETypeOK'
  BY DEF TETypeOK, GenHandler
<1>2. HandlerRuns'
  BY DEF HandlerRuns, Derived, TETypeOK, GenHandler
<1>3. IdsDrawn'
  BY DEF IdsDrawn, Derived, TETypeOK, GenHandler
<1>4. IdsDiffer'
  BY DEF IdsDiffer, Derived, TETypeOK, GenHandler
<1>5. StoredStays'
  BY DEF StoredStays, Derived, TETypeOK, GenHandler
<1>6. EntriesIssued'
  BY DEF EntriesIssued, Derived, TETypeOK, GenHandler
<1>7. FetchedWasIssued'
  BY DEF FetchedWasIssued, TETypeOK, GenHandler
<1>8. QED
  BY <1>1, <1>2, <1>3, <1>4, <1>5, <1>6, <1>7

\* A new generateKeys handler belongs to the current run and has no key yet.
LEMMA AcceptGenInv ==
  ASSUME TEInv, NEW o \in Owners, AcceptGen(o)
  PROVE  TEInv'
<1> USE DEF TEInv, AcceptGen
<1>1. TETypeOK'
  <2>1. teRun \in Nat
    BY TEAssumption DEF TETypeOK
  <2>2. gen' \in [Owners -> GenHandler]
    BY <2>1 DEF TETypeOK, GenHandler, GenBusy
  <2>3. QED
    BY <2>2 DEF TETypeOK
<1>2. HandlerRuns'
  BY DEF HandlerRuns, Derived, TETypeOK, GenHandler, GenBusy
<1>3. ~Derived(o)
  BY DEF HandlerRuns
<1>4. IdsDrawn'
  BY <1>3 DEF IdsDrawn, Derived, TETypeOK, GenHandler
<1>5. IdsDiffer'
  BY <1>3 DEF IdsDiffer, Derived, TETypeOK, GenHandler
<1>6. StoredStays'
  BY DEF StoredStays, Derived, TETypeOK, GenHandler
<1>7. EntriesIssued'
  BY DEF EntriesIssued, Derived, TETypeOK, GenHandler
<1>8. FetchedWasIssued'
  BY DEF FetchedWasIssued, TETypeOK, GenHandler
<1>9. QED
  BY <1>1, <1>2, <1>4, <1>5, <1>6, <1>7, <1>8

\* rand.Int gives an id that no other handler of the run has: draws only grows
\* within a run, and minted over all of them.
LEMMA DeriveKeysInv ==
  ASSUME TEInv, NEW o \in Owners, DeriveKeys(o)
  PROVE  TEInv'
<1> USE DEF TEInv, DeriveKeys, RandInt, NoKey
<1>1. TETypeOK'
  <2>1. gen' \in [Owners -> GenHandler]
    <3>1. RandInt \in Nat /\ minted + 1 \in Nat
      BY DEF TETypeOK
    <3>2. QED
      BY <3>1 DEF TETypeOK, GenHandler, GenBusy
  <2>2. draws' \in Nat /\ minted' \in Nat /\ draws' <= minted' /\ minted <= minted'
    BY DEF TETypeOK
  <2>3. QED
    BY <2>1, <2>2 DEF TETypeOK
<1>2. ~Derived(o) /\ gen[o].run = teRun
  BY DEF HandlerRuns, GenBusy
<1>3. HandlerRuns'
  BY DEF HandlerRuns, Derived, TETypeOK, GenHandler, GenBusy
<1>4. IdsDrawn'
  BY <1>2 DEF IdsDrawn, Derived, TETypeOK, GenHandler
<1>5. IdsDiffer'
  BY <1>2, TEAssumption DEF IdsDiffer, IdsDrawn, Derived, TETypeOK, GenHandler
<1>6. StoredStays'
  BY DEF StoredStays, Derived, TETypeOK, GenHandler
<1>7. EntriesIssued'
  BY <1>2 DEF EntriesIssued, Derived, TETypeOK, GenHandler
<1>8. FetchedWasIssued'
  <2> SUFFICES ASSUME NEW q \in Owners, fetch[q].st = "replied", fetch[q].key # NoKey,
                      fetch[q].harm # "torn"
               PROVE  \E p \in Owners : gen'[p].id = fetch[q].id /\ gen'[p].key = fetch[q].key
    BY DEF FetchedWasIssued
  <2>1. PICK p \in Owners : gen[p].id = fetch[q].id /\ gen[p].key = fetch[q].key
    BY DEF FetchedWasIssued
  <2>2. p # o
    BY <1>2, <2>1 DEF Derived
  <2>3. QED
    BY <2>1, <2>2 DEF TETypeOK
<1>9. QED
  BY <1>1, <1>3, <1>4, <1>5, <1>6, <1>7, <1>8

\* An assignment that begins inside another one tears the map: nothing is said of
\* its entries any more, and those that keyList still has go back to handlers.
LEMMA BeginStoreInv ==
  ASSUME TEInv, NEW o \in Owners, BeginStore(o)
  PROVE  TEInv'
<1> USE DEF TEInv, BeginStore
<1>1. Derived(o) /\ gen[o].run = teRun /\ teUp
  BY DEF HandlerRuns, GenBusy
<1>2. TETypeOK'
  <2>1. gen' \in [Owners -> GenHandler]
    BY DEF TETypeOK, GenHandler, GenBusy
  <2>2. CASE Storing = {}
    BY <2>1, <2>2 DEF TETypeOK
  <2>3. CASE Storing # {}
    BY <2>1, <2>3 DEF TETypeOK, EmptyKeyList
  <2>4. QED
    BY <2>2, <2>3
<1>3. HandlerRuns'
  BY <1>1 DEF HandlerRuns, Derived, TETypeOK, GenHandler, GenBusy
<1>4. IdsDrawn'
  BY DEF IdsDrawn, Derived, TETypeOK, GenHandler
<1>5. IdsDiffer'
  BY DEF IdsDiffer, Derived, TETypeOK, GenHandler
<1>6. StoredStays'
  BY DEF StoredStays, Derived, TETypeOK, GenHandler
<1>7. EntriesIssued'
  <2>1. CASE Storing = {}
    BY <2>1 DEF EntriesIssued, Derived, TETypeOK, GenHandler
  <2>2. CASE Storing # {}
    BY <2>2 DEF EntriesIssued, EmptyKeyList
  <2>3. QED
    BY <2>1, <2>2
<1>8. FetchedWasIssued'
  BY DEF FetchedWasIssued, TETypeOK, GenHandler
<1>9. QED
  BY <1>2, <1>3, <1>4, <1>5, <1>6, <1>7, <1>8

\* The assignment keyList[id] = key adds the entry of its handler and harms no
\* other, because no handler of the run has the same id.
LEMMA EndStoreInv ==
  ASSUME TEInv, NEW o \in Owners, EndStore(o)
  PROVE  TEInv'
<1> USE DEF TEInv, EndStore, Put
<1>1. Derived(o) /\ gen[o].run = teRun
  BY DEF HandlerRuns, GenBusy
<1>2. gen[o].id \in 1..minted /\ gen[o].key \in 1..minted
  BY <1>1 DEF IdsDrawn
<1>3. TETypeOK'
  <2>1. gen' \in [Owners -> GenHandler]
    BY DEF TETypeOK, GenHandler, GenBusy
  <2>2. CASE torn
    BY <2>1, <2>2 DEF TETypeOK
  <2>3. CASE ~torn
    BY <1>2, <2>1, <2>3 DEF TETypeOK
  <2>4. QED
    BY <2>2, <2>3
<1>4. HandlerRuns'
  BY <1>1 DEF HandlerRuns, Derived, TETypeOK, GenHandler, GenBusy
<1>5. IdsDrawn'
  BY DEF IdsDrawn, Derived, TETypeOK, GenHandler
<1>6. IdsDiffer'
  BY DEF IdsDiffer, Derived, TETypeOK, GenHandler
<1>7. StoredStays'
  BY <1>1 DEF StoredStays, IdsDiffer, HandlerRuns, Derived, TETypeOK, GenHandler
<1>8. EntriesIssued'
  <2>1. \A p \in Owners : /\ Derived(p)' <=> Derived(p)
                         /\ gen'[p].id = gen[p].id /\ gen'[p].key = gen[p].key
    BY DEF Derived, TETypeOK, GenHandler
  <2>2. ASSUME NEW i \in DOMAIN keyList'
        PROVE  /\ FreshSeed => keyList'[i] = i
               /\ \E p \in Owners : Derived(p) /\ gen[p].id = i /\ gen[p].key = keyList'[i]
    <3>1. CASE ~torn /\ i = gen[o].id
      BY <1>1, <3>1 DEF IdsDrawn
    <3>2. CASE torn \/ i # gen[o].id
      BY <3>2 DEF EntriesIssued
    <3>3. QED
      BY <3>1, <3>2
  <2>3. QED
    BY ONLY <2>1, <2>2, Zenon DEF EntriesIssued
<1>9. FetchedWasIssued'
  BY DEF FetchedWasIssued, TETypeOK, GenHandler
<1>10. QED
  BY <1>3, <1>4, <1>5, <1>6, <1>7, <1>8, <1>9

\* The arrivals and the reply of provideFEKey.
LEMMA FetchInv ==
  ASSUME TEInv, NEW o \in Owners, NEW id \in Nat,
         AcceptFetch(o, id) \/ RefuseFetch(o) \/ ReplyFetch(o)
  PROVE  TEInv'
<1> USE DEF TEInv
<1>0. UNCHANGED <<teUp, teRun, draws, minted, keyList, torn, gen>>
  BY DEF AcceptFetch, RefuseFetch, ReplyFetch
<1>1. \A i : Readable(i) \subseteq Nat
  <2>1. \A p \in Owners : gen[p].key \in Nat
    BY DEF TETypeOK, GenHandler
  <2>2. \A i : Lookup(i) \in Nat
    BY DEF Lookup, TETypeOK, NoKey
  <2>3. QED
    BY <2>1, <2>2 DEF Readable, Assigned, Storing, NoKey
<1>2. TETypeOK'
  <2>1. fetch' \in [Owners -> FetchHandler]
    <3>1. CASE AcceptFetch(o, id)
      BY <3>1 DEF AcceptFetch, TETypeOK, FetchHandler, FetchBusy
    <3>2. CASE RefuseFetch(o)
      BY <3>2 DEF RefuseFetch, TETypeOK, FetchHandler, FetchEnded
    <3>3. CASE ReplyFetch(o)
      <4>1. PICK key \in Readable(fetch[o].id) :
              fetch' = [fetch EXCEPT ![o] =
                          [@ EXCEPT !.st = "replied", !.key = key, !.harm = Harm(key)]]
        BY <3>3 DEF ReplyFetch
      <4>2. key \in Nat /\ Harm(key) \in Harms
        BY <4>1, <1>1 DEF Harm, Harms
      <4>3. QED
        BY <4>1, <4>2 DEF TETypeOK, FetchHandler, FetchEnded
    <3>4. QED
      BY <3>1, <3>2, <3>3
  <2>2. QED
    BY <1>0, <2>1 DEF TETypeOK
<1>3. HandlerRuns' /\ IdsDrawn' /\ IdsDiffer' /\ StoredStays' /\ EntriesIssued'
  BY <1>0 DEF HandlerRuns, IdsDrawn, IdsDiffer, StoredStays, EntriesIssued, Derived
<1>4. FetchedWasIssued'
  <2> SUFFICES ASSUME NEW q \in Owners, fetch'[q].st = "replied", fetch'[q].key # NoKey,
                      fetch'[q].harm # "torn"
               PROVE  \E p \in Owners : gen[p].id = fetch'[q].id /\ gen[p].key = fetch'[q].key
    BY <1>0 DEF FetchedWasIssued
  <2>1. CASE q # o
    <3>1. fetch'[q] = fetch[q]
      BY <2>1 DEF AcceptFetch, RefuseFetch, ReplyFetch, TETypeOK
    <3>2. QED
      BY <3>1 DEF FetchedWasIssued
  <2>2. CASE q = o
    <3>1. fetch'[o].st # "failed" /\ fetch'[o].st # "accepted"
      BY <2>2
    <3>2. ReplyFetch(o)
      BY <3>1 DEF AcceptFetch, RefuseFetch, TETypeOK, FetchHandler
    <3>3. PICK key \in Readable(fetch[o].id) :
            /\ fetch'[o].id = fetch[o].id
            /\ fetch'[o].key = key
            /\ fetch'[o].harm = Harm(key)
      BY <2>2, <3>2 DEF ReplyFetch, TETypeOK, FetchHandler
    <3>4. ~torn /\ key # NoKey
      BY <2>2, <3>3 DEF Harm
    <3>5. CASE key = Lookup(fetch[o].id)
      BY <2>2, <3>3, <3>4, <3>5 DEF EntriesIssued, Lookup
    <3>6. CASE \E p \in Storing : gen[p].id = fetch[o].id /\ gen[p].key = key
      BY <2>2, <3>3, <3>6 DEF Storing
    <3>7. QED
      BY <3>3, <3>4, <3>5, <3>6 DEF Readable
  <2>3. QED
    BY <2>1, <2>2
<1>5. QED
  BY <1>2, <1>3, <1>4

\* The end of the process only makes the handlers at work fail.
LEMMA DownInv ==
  ASSUME TEInv, Down
  PROVE  TEInv'
<1> USE DEF TEInv, Down
<1>1. TETypeOK'
  <2>1. gen' \in [Owners -> GenHandler]
    BY DEF TETypeOK, GenHandler, GenEnded
  <2>2. fetch' \in [Owners -> FetchHandler]
    BY DEF TETypeOK, FetchHandler, FetchEnded
  <2>3. QED
    BY <2>1, <2>2 DEF TETypeOK
<1>2. HandlerRuns'
  BY DEF HandlerRuns, Derived, TETypeOK, GenHandler, GenBusy
<1>3. IdsDrawn'
  BY DEF IdsDrawn, Derived, TETypeOK, GenHandler
<1>4. IdsDiffer'
  BY DEF IdsDiffer, Derived, TETypeOK, GenHandler
<1>5. StoredStays'
  BY DEF StoredStays, Derived, TETypeOK, GenHandler
<1>6. EntriesIssued'
  BY DEF EntriesIssued, Derived, TETypeOK, GenHandler
<1>7. FetchedWasIssued'
  BY DEF FetchedWasIssued, TETypeOK, GenHandler, FetchHandler
<1>8. QED
  BY <1>1, <1>2, <1>3, <1>4, <1>5, <1>6, <1>7

\* A new process starts with an empty keyList, and no handler belongs to it yet.
LEMMA TEStartInv ==
  ASSUME TEInv, TEStart
  PROVE  TEInv'
<1> USE DEF TEInv, TEStart, EmptyKeyList
<1>1. TETypeOK'
  <2>1. teUp' \in BOOLEAN /\ torn' \in BOOLEAN
    BY Zenon
  <2>2. teRun' \in 1..MaxTERuns
    BY TEAssumption DEF TETypeOK
  <2>3. QED
    BY <2>1, <2>2 DEF TETypeOK
<1>2. \A o \in Owners : gen[o].st \notin GenBusy
  BY DEF HandlerRuns
<1>3. QED
  BY <1>1, <1>2 DEF TETypeOK, HandlerRuns, IdsDrawn, IdsDiffer, StoredStays, EntriesIssued,
              FetchedWasIssued, Derived, GenHandler, GenBusy, GenEnded

\* The handler steps that only move a generateKeys handler on.
LEMMA GenMovesInv ==
  ASSUME TEInv, NEW o \in Owners, RefuseGen(o) \/ ReplyGen(o)
  PROVE  TEInv'
<1> DEFINE States == GenBusy \cup GenEnded
<1>1. CASE RefuseGen(o)
  <2>1. "failed" \in States /\ Move(o, "failed")
    BY <1>1 DEF RefuseGen, Move, GenBusy, GenEnded
  <2>2. QED
    BY <2>1, MoveInv
<1>2. CASE ReplyGen(o)
  <2>1. "replied" \in States /\ Move(o, "replied")
    BY <1>2 DEF ReplyGen, Move, TEInv, HandlerRuns, StoredStays, GenBusy, GenEnded
  <2>2. QED
    BY <2>1, MoveInv
<1>3. QED
  BY <1>1, <1>2

\* Every step of the trusted entity keeps the invariant.
LEMMA NextInv == TEInv /\ [TENext]_teVars => TEInv'
<1> SUFFICES ASSUME TEInv, [TENext]_teVars
             PROVE  TEInv'
  OBVIOUS
<1>1. ASSUME NEW o \in Owners, TEArrival(o)
      PROVE  TEInv'
  <2>1. CASE AcceptGen(o)
    BY <2>1, AcceptGenInv
  <2>2. CASE RefuseGen(o)
    BY <2>2, GenMovesInv
  <2>3. CASE \E id \in 0..(minted + 1) : AcceptFetch(o, id)
    <3>1. PICK id \in 0..(minted + 1) : AcceptFetch(o, id)
      BY <2>3
    <3>2. id \in Nat
      BY DEF TEInv, TETypeOK
    <3>3. QED
      BY <3>1, <3>2, FetchInv
  <2>4. CASE RefuseFetch(o)
    BY <2>4, FetchInv
  <2>5. QED
    BY <1>1, <2>1, <2>2, <2>3, <2>4 DEF TEArrival
<1>2. ASSUME NEW o \in Owners, TEHandlerStep(o)
      PROVE  TEInv'
  BY <1>2, DeriveKeysInv, GenMovesInv, BeginStoreInv, EndStoreInv, FetchInv DEF TEHandlerStep
<1>3. CASE TEProcessStep
  BY <1>3, DownInv, TEStartInv DEF TEProcessStep, MapFault, TEStop
<1>4. CASE UNCHANGED teVars
  BY <1>4 DEF teVars, TEInv, TETypeOK, HandlerRuns, IdsDrawn, IdsDiffer, StoredStays,
              EntriesIssued, FetchedWasIssued, Derived
<1>5. QED
  BY <1>1, <1>2, <1>3, <1>4 DEF TENext, TEIdle

-----------------------------------------------------------------------------
(* The theorems *)

\* The inductive invariant holds for every behaviour of the server: entries of
\* keyList come from handlers, and the ids of one run differ.
THEOREM TEInvariant == TESpec => []TEInv
  BY InitInv, NextInv, PTL DEF TESpec

\* Type correctness of the trusted entity.
THEOREM TETypeCorrect == TESpec => []TETypeOK
<1>1. TEInv => TETypeOK
  BY DEF TEInv
<1>2. QED
  BY <1>1, TEInvariant, PTL

\* An owner can rely on its ClientID for as long as the run lasts that issued
\* it, if no two assignments to the unlocked keyList overlapped in it
\* (generateKeys stores the key before it replies, and no two handlers of a
\* run draw the same id).
THEOREM IssuedIdResolves == TESpec => []ReplyIsStored
<1>1. TEInv => ReplyIsStored
  BY DEF TEInv, StoredStays, ReplyIsStored, Lookup
<1>2. QED
  BY <1>1, TEInvariant, PTL

\* With ids that no two runs share, an id never resolves to another owner's
\* key, however often the server is restarted, while no assignments overlap.
THEOREM FreshIdsNeverForeign ==
  ASSUME FreshSeed
  PROVE  TESpec => []NoForeignKey
<1>1. TEInv => NoForeignKey
  BY FreshSeed DEF TEInv, HandlerRuns, IdsDrawn, EntriesIssued, NoForeignKey, Lookup
<1>2. QED
  BY <1>1, TEInvariant, PTL

\* What fetchKey returns for an id was made together with that id, also while
\* one other key is being stored.
THEOREM FetchedKeyWasIssued == TESpec => []FetchedWasIssued
<1>1. TEInv => FetchedWasIssued
  BY DEF TEInv
<1>2. QED
  BY <1>1, TEInvariant, PTL

=============================================================================
