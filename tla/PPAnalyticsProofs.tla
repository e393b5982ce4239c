-------------------------- MODULE PPAnalyticsProofs --------------------------
(***************************************************************************)
(* Proofs about the whole application, for any number of owners and of     *)
(* runs of the servers: type correctness, that a result only gets lost in  *)
(* a data race on clientData, what the parties know of one another, and    *)
(* that the application implements Tally.                                  *)
(*                                                                         *)
(* LossNeedsOverlap is not inductive: that a result is in clientData now   *)
(* does not say that it survives the stores to come.  EngineInv adds that  *)
(* every handler that has loaded the slice has loaded the result too, at   *)
(* the same place, and that a handler nobody overlapped is alone.          *)
(***************************************************************************)
EXTENDS PPAnalytics, TrustedEntityProofs, SequenceTheorems

\* A handler at work belongs to the current run.
EngineRuns ==
  \A o \in Owners :
    /\ ae[o].run <= aeRun
    /\ ae[o].st \in AEBusy => aeUp /\ ae[o].run = aeRun

\* A handler between load and store that nobody overlapped is alone, and the
\* slice is as it was loaded.
LoadedAlone ==
  \A o \in Appending \ overlapped : Appending = {o} /\ ae[o].base = clientData

\* Result x stands at place k, in clientData and in every slice loaded.
Kept(x, k) ==
  /\ k \in DOMAIN clientData /\ clientData[k] = x
  /\ \A p \in Appending : k \in DOMAIN ae[p].base /\ ae[p].base[k] = x

WrittenKept ==
  \A o \in Written \ overlapped : \E k \in DOMAIN clientData : Kept(ae[o].xy, k)

EngineInv ==
  /\ AETypeOK
  /\ EngineRuns
  /\ LoadedAlone
  /\ WrittenKept

-----------------------------------------------------------------------------
(* Every action of the engine keeps EngineInv *)

\* The engine starts in its invariant: nothing is written, nobody appends.
LEMMA EngineInit == AEInit => EngineInv
  BY AEAssumption, SMT
  DEF AEInit, EngineInv, AETypeOK, EngineRuns, LoadedAlone, WrittenKept, Written,
      Appending, Results, AEHandler, NoHandler, AEBusy, AEEnded, NoKey

\* The steps of a handler before it loads clientData and after it stored it.
Quiet(o) ==
  /\ ae' \in [Owners -> AEHandler]
  /\ UNCHANGED <<aeUp, aeRun, clientData, overlapped>>
  /\ \A p \in Owners \ {o} : ae'[p] = ae[p]
  /\ ae'[o].st \in AEBusy => aeUp /\ ae'[o].run = aeRun
  /\ ae'[o].run <= aeRun
  /\ ae[o].st # "loaded" /\ ae'[o].st # "loaded"
  /\ ae'[o].st \in {"stored", "replied"} => o \in Written /\ ae'[o].xy = ae[o].xy

\* A step of one handler that touches neither clientData nor the handlers
\* between load and store keeps the invariant.
LEMMA QuietInv ==
  ASSUME EngineInv, NEW o \in Owners, Quiet(o)
  PROVE  EngineInv'
<1> USE DEF EngineInv, Quiet
<1>1. AETypeOK' /\ EngineRuns'
  BY DEF AETypeOK, EngineRuns
<1>2. Appending' = Appending /\ \A p \in Appending : ae'[p] = ae[p]
  BY DEF Appending, AETypeOK
<1>3. LoadedAlone'
  BY <1>2 DEF LoadedAlone
<1>4. Written' \subseteq Written /\ \A p \in Written' : ae'[p].xy = ae[p].xy
  BY DEF Written, AETypeOK
<1>5. WrittenKept'
  BY <1>2, <1>4 DEF WrittenKept, Kept
<1>6. QED
  BY <1>1, <1>3, <1>5

\* The actions of processData before and after the append are such steps.
LEMMA QuietSteps ==
  ASSUME EngineInv, NEW o \in Owners, NEW id \in Nat, NEW key \in Nat,
         \/ AcceptData(o, id, key)
         \/ RefuseData(o)
         \/ AskKey(o)
         \/ KeysArrive(o, key)
         \/ PanicOnNilParams(o)
         \/ Decrypt(o)
         \/ ReplyData(o)
  PROVE  EngineInv'
<1> USE DEF EngineInv, AETypeOK, AEHandler, EngineRuns, AEBusy, AEEnded
<1>1. aeRun \in Nat
  BY AEAssumption
<1>2. CASE AcceptData(o, id, key)
  <2>1. ae' \in [Owners -> AEHandler]
    BY <1>1, <1>2 DEF AcceptData
  <2>2. ae'[o].st = "decoded" /\ ae'[o].run = aeRun
    BY <1>2 DEF AcceptData
  <2>3. Quiet(o)
    BY <1>1, <1>2, <2>1, <2>2 DEF AcceptData, Quiet
  <2>4. QED
    BY <2>3, QuietInv
<1>3. CASE RefuseData(o)
  <2>1. Quiet(o)
    BY <1>1, <1>3 DEF RefuseData, Quiet
  <2>2. QED
    BY <2>1, QuietInv
<1>4. CASE AskKey(o)
  <2>1. Quiet(o)
    BY <1>1, <1>4 DEF AskKey, Quiet
  <2>2. QED
    BY <2>1, QuietInv
<1>5. CASE KeysArrive(o, key)
  <2>1. Quiet(o)
    BY <1>1, <1>5 DEF KeysArrive, Quiet
  <2>2. QED
    BY <2>1, QuietInv
<1>6. CASE PanicOnNilParams(o)
  <2>1. Quiet(o)
    BY <1>1, <1>6 DEF PanicOnNilParams, Quiet
  <2>2. QED
    BY <2>1, QuietInv
<1>7. CASE Decrypt(o)
  <2>1. InnerProduct(o, ae[o].ctKey, ae[o].key) \in Results
    BY DEF InnerProduct, Results
  <2>2. Quiet(o)
    BY <1>1, <1>7, <2>1 DEF Decrypt, Quiet
  <2>3. QED
    BY <2>2, QuietInv
<1>8. CASE ReplyData(o)
  <2>1. Quiet(o)
    BY <1>1, <1>8 DEF ReplyData, Quiet, Written
  <2>2. QED
    BY <2>1, QuietInv
<1>9. QED
  BY <1>2, <1>3, <1>4, <1>5, <1>6, <1>7, <1>8

\* Loading the slice keeps the invariant: what is kept in clientData is in the
\* slice loaded, and a second loader makes both overlapped.
LEMMA AppendLoadInv ==
  ASSUME EngineInv, NEW o \in Owners, AppendLoad(o)
  PROVE  EngineInv'
<1> USE DEF EngineInv, AppendLoad
<1>1. ae' \in [Owners -> AEHandler]
  BY DEF AETypeOK, AEHandler, AEBusy
<1>2. AETypeOK' /\ EngineRuns'
  BY <1>1 DEF AETypeOK, EngineRuns, AEHandler, Appending, AEBusy
<1>3. /\ Appending' = Appending \cup {o}
      /\ o \notin Appending
      /\ ae'[o].base = clientData
      /\ \A p \in Owners \ {o} : ae'[p] = ae[p]
  BY DEF AETypeOK, AEHandler, Appending
<1>4. LoadedAlone'
  <2>1. CASE Appending = {}
    BY <1>3, <2>1 DEF LoadedAlone
  <2>2. CASE Appending # {}
    BY <1>3, <2>2 DEF LoadedAlone
  <2>3. QED
    BY <2>1, <2>2
<1>5. Written' \subseteq Written /\ \A p \in Written' : ae'[p].xy = ae[p].xy
  BY DEF Written, AETypeOK, AEHandler
<1>6. overlapped \subseteq overlapped'
  OBVIOUS
<1>7. \A x, k : Kept(x, k) => Kept(x, k)'
  BY <1>3 DEF Kept, Appending
<1>8. WrittenKept'
  BY <1>5, <1>6, <1>7 DEF WrittenKept
<1>9. QED
  BY <1>2, <1>4, <1>8

\* The slices a raced store can leave are slices of results, and have what the
\* storing handler loaded wherever they are long enough.
LEMMA RacedSlices ==
  ASSUME AETypeOK, NEW o \in Owners, NEW s \in Raced(o)
  PROVE  /\ s \in Seq(Results)
         /\ Len(s) \in {Len(ae[o].base) + 1, Len(clientData)}
         /\ \A i \in DOMAIN ae[o].base : i \in 1..Len(s) => s[i] = ae[o].base[i]
<1> DEFINE base == ae[o].base
           Values == RacedResults \cup {base[i] : i \in DOMAIN base}
<1>1. base \in Seq(Results) /\ Len(base) \in Nat /\ clientData \in Seq(Results)
      /\ Len(clientData) \in Nat
  BY DEF AETypeOK, AEHandler
<1>2. Values \subseteq Results
  <2>1. RacedResults \subseteq Results
    BY DEF RacedResults, AETypeOK, AEHandler, Results
  <2>2. \A i \in DOMAIN base : base[i] \in Results
    BY <1>1
  <2>3. QED
    BY <2>1, <2>2
<1>3. PICK n \in {Len(base) + 1, Len(clientData)} :
        s \in [1..n -> Values] /\ \A i \in DOMAIN base : i <= n => s[i] = base[i]
  BY DEF Raced
<1>4. n \in Nat
  BY <1>1
<1>5. s \in Seq(Results) /\ Len(s) = n
  BY <1>2, <1>3, <1>4
<1>6. QED
  BY <1>1, <1>3, <1>4, <1>5

\* Storing the slice keeps the invariant: a handler that was alone adds its
\* result behind all others, and a raced store keeps what it loaded.
LEMMA AppendStoreInv ==
  ASSUME EngineInv, NEW o \in Owners, AppendStore(o)
  PROVE  EngineInv'
<1> USE DEF EngineInv, AppendStore
<1> DEFINE base == ae[o].base
<1>1. /\ base \in Seq(Results) /\ Len(base) \in Nat
      /\ clientData \in Seq(Results) /\ Len(clientData) \in Nat
      /\ ae[o].xy \in Results
      /\ o \in Appending
  BY DEF AETypeOK, AEHandler, Appending
<1>2. ae' \in [Owners -> AEHandler]
  BY DEF AETypeOK, AEHandler, AEBusy
<1>3. /\ clientData' \in Seq(Results)
      /\ Len(clientData') \in {Len(base) + 1, Len(clientData)}
      /\ \A i \in DOMAIN base : i \in 1..Len(clientData') => clientData'[i] = base[i]
  <2>1. CASE o \in overlapped
    BY <2>1, RacedSlices
  <2>2. CASE o \notin overlapped
    <3>1. clientData' = Append(base, ae[o].xy)
      BY <2>2
    <3>2. /\ Append(base, ae[o].xy) \in Seq(Results)
          /\ Len(Append(base, ae[o].xy)) = Len(base) + 1
          /\ \A i \in 1..Len(base) : Append(base, ae[o].xy)[i] = base[i]
      BY <1>1, AppendProperties
    <3>3. DOMAIN base = 1..Len(base)
      BY <1>1
    <3>4. QED
      BY <3>1, <3>2, <3>3
  <2>3. QED
    BY <2>1, <2>2
<1>4. AETypeOK' /\ EngineRuns'
  BY <1>2, <1>3 DEF AETypeOK, EngineRuns, AEHandler, AEBusy
<1>5. /\ Appending' = Appending \ {o}
      /\ \A p \in Owners : ae'[p].base = ae[p].base /\ ae'[p].xy = ae[p].xy
  BY DEF AETypeOK, AEHandler, Appending
<1>6. LoadedAlone'
  BY <1>1, <1>5 DEF LoadedAlone
<1>7. Written' \subseteq Written \cup {o}
  BY DEF Written, AETypeOK, AEHandler
<1>8. ASSUME NEW x, NEW k \in DOMAIN clientData, Kept(x, k)
      PROVE  k \in DOMAIN clientData' /\ Kept(x, k)'
  <2>1. /\ k \in DOMAIN base /\ base[k] = x /\ k \in Nat
    BY <1>1, <1>8 DEF Kept
  <2>2. k \in 1..Len(clientData')
    BY <1>1, <1>3, <1>8, <2>1
  <2>3. k \in DOMAIN clientData' /\ clientData'[k] = x
    BY <1>3, <2>1, <2>2
  <2>4. QED
    BY <1>5, <1>8, <2>3 DEF Kept, Appending
<1>9. ASSUME o \notin overlapped
      PROVE  \E k \in DOMAIN clientData' : Kept(ae[o].xy, k)'
  <2>1. Appending' = {} /\ clientData' = Append(base, ae[o].xy)
    BY <1>1, <1>5, <1>9 DEF LoadedAlone
  <2>2. Len(base) + 1 \in DOMAIN clientData' /\ clientData'[Len(base) + 1] = ae[o].xy
    BY <1>1, <2>1
  <2>3. Kept(ae[o].xy, Len(base) + 1)'
    BY <1>5, <2>1, <2>2 DEF Kept
  <2>4. QED
    BY <2>2, <2>3
<1>10. WrittenKept'
  <2>1. ASSUME NEW q \in Written' \ overlapped'
        PROVE  \E k \in DOMAIN clientData' : Kept(ae[q].xy, k)'
    <3>1. q \notin overlapped /\ q \in Owners
      BY DEF Written
    <3>2. CASE q = o
      BY <1>9, <3>1, <3>2
    <3>3. CASE q # o
      <4>1. PICK k \in DOMAIN clientData : Kept(ae[q].xy, k)
        BY <1>7, <3>1, <3>3 DEF WrittenKept
      <4>2. k \in DOMAIN clientData' /\ Kept(ae[q].xy, k)'
        BY <1>5, <1>8, <3>1, <4>1
      <4>3. QED
        BY <4>2
    <3>4. QED
      BY <3>2, <3>3
  <2>2. QED
    BY <2>1 DEF WrittenKept
<1>11. QED
  BY <1>4, <1>6, <1>10

\* The end of the engine only makes the handlers at work fail.
LEMMA AEDownInv ==
  ASSUME EngineInv, AEDown
  PROVE  EngineInv'
<1> USE DEF EngineInv, AEDown
<1>1. ae' \in [Owners -> AEHandler]
  BY DEF AETypeOK, AEHandler, AEEnded
<1>2. AETypeOK' /\ EngineRuns'
  BY <1>1 DEF AETypeOK, EngineRuns, AEHandler, AEBusy
<1>3. Appending' = {}
  BY DEF AETypeOK, AEHandler, Appending, AEBusy
<1>4. LoadedAlone'
  BY <1>3 DEF LoadedAlone
<1>5. Written' \subseteq Written /\ \A p \in Written' : ae'[p].xy = ae[p].xy
  BY DEF Written, AETypeOK, AEHandler, AEBusy
<1>6. WrittenKept'
  BY <1>3, <1>5 DEF WrittenKept, Kept
<1>7. QED
  BY <1>2, <1>4, <1>6

\* A new engine has no results, and no handler belongs to it yet.
LEMMA AEStartInv ==
  ASSUME EngineInv, AEStart
  PROVE  EngineInv'
<1> USE DEF EngineInv, AEStart
<1>1. aeRun \in Nat /\ aeRun + 1 \in 1..MaxAERuns
  BY AEAssumption DEF AETypeOK
<1>2. AETypeOK'
  BY <1>1 DEF AETypeOK
<1>3. \A o \in Owners : ae[o].st \notin AEBusy /\ ae[o].run \in Nat /\ ae[o].run < aeRun + 1
  BY <1>1 DEF EngineRuns, AETypeOK, AEHandler
<1>4. EngineRuns'
  BY <1>1, <1>3 DEF EngineRuns
<1>5. Appending' = {} /\ Written' = {}
  BY <1>1, <1>3 DEF Appending, Written, AEBusy
<1>6. LoadedAlone' /\ WrittenKept'
  BY <1>5 DEF LoadedAlone, WrittenKept
<1>7. QED
  BY <1>2, <1>4, <1>6

-----------------------------------------------------------------------------
(* Every step of the application keeps the invariants of the parties *)

AppInv == TEInv /\ EngineInv /\ OwnerTypeOK

\* A party that does not move keeps its invariant.
LEMMA TEUnchanged == TEInv /\ UNCHANGED teVars => TEInv'
  BY DEF teVars, TEInv, TETypeOK, HandlerRuns, IdsDrawn, IdsDiffer, StoredStays,
         EntriesIssued, FetchedWasIssued, Derived

\* So does the engine.
LEMMA EngineUnchanged == EngineInv /\ UNCHANGED aeVars => EngineInv'
  BY DEF aeVars, EngineInv, AETypeOK, EngineRuns, LoadedAlone, WrittenKept, Kept,
         Appending, Written

\* So do the owners.
LEMMA OwnerUnchanged == OwnerTypeOK /\ UNCHANGED ownerVars => OwnerTypeOK'
  BY DEF ownerVars, OwnerTypeOK

\* The records the actions of an owner make of its state.
LEMMA OwnerSteps ==
  ASSUME OwnerTypeOK, NEW o \in Owners, NEW id \in Nat, NEW key \in Nat,
         \/ SendGet(o)
         \/ ReplyArrives(o, id, key)
         \/ CppGetFails(o)
         \/ GoGetFails(o)
         \/ Encrypt(o)
         \/ AssertFails(o)
         \/ SendPost(o)
         \/ PostAnswered(o)
         \/ PostFails(o)
  PROVE  OwnerTypeOK'
<1> USE DEF OwnerTypeOK, OwnerState, OwnerPC, ExitCode
<1>1. \A ok : AfterPost(o, ok) \in ExitCode
  BY DEF AfterPost
<1>2. CASE SendGet(o) \/ Encrypt(o) \/ SendPost(o)
  BY <1>2 DEF SendGet, Encrypt, SendPost
<1>3. CASE ReplyArrives(o, id, key)
  BY <1>3 DEF ReplyArrives
<1>4. CASE CppGetFails(o)
  BY <1>4 DEF CppGetFails, Exit
<1>5. CASE GoGetFails(o) \/ AssertFails(o)
  BY <1>5 DEF GoGetFails, AssertFails, Exit
<1>6. CASE PostAnswered(o)
  BY <1>1, <1>6 DEF PostAnswered
<1>7. CASE PostFails(o)
  BY <1>1, <1>7 DEF PostFails, Exit
<1>8. QED
  BY <1>2, <1>3, <1>4, <1>5, <1>6, <1>7

\* A step of a data owner, with the arrival of its call at a server, keeps the
\* invariants.
LEMMA OwnerStepInv ==
  ASSUME AppInv, NEW o \in Owners, OwnerStep(o)
  PROVE  AppInv'
<1> USE DEF AppInv
<1>1. /\ owner[o].id \in Nat /\ owner[o].ctKey \in Nat
      /\ gen[o].id \in Nat /\ gen[o].key \in Nat
  BY DEF OwnerTypeOK, OwnerState, TEInv, TETypeOK, GenHandler
<1>2. CASE OwnerGets(o)
  <2>1. OwnerTypeOK'
    BY <1>2, <1>1, OwnerSteps DEF OwnerGets
  <2>2. TEInv'
    BY <1>2, AcceptGenInv, GenMovesInv DEF OwnerGets
  <2>3. EngineInv'
    BY <1>2, EngineUnchanged DEF OwnerGets
  <2>4. QED
    BY <2>1, <2>2, <2>3
<1>3. CASE OwnerPosts(o)
  <2>1. OwnerTypeOK'
    BY <1>3, <1>1, OwnerSteps DEF OwnerPosts
  <2>2. TEInv'
    BY <1>3, TEUnchanged DEF OwnerPosts
  <2>3. EngineInv'
    BY <1>1, <1>3, QuietSteps DEF OwnerPosts
  <2>4. QED
    BY <2>1, <2>2, <2>3
<1>4. CASE \/ OwnerReceivesKeys(o) \/ OwnerGetFails(o) \/ OwnerEncrypts(o)
           \/ OwnerHears(o) \/ OwnerPostFails(o)
  <2>1. UNCHANGED teVars /\ UNCHANGED aeVars
    BY <1>4 DEF OwnerReceivesKeys, OwnerGetFails, OwnerEncrypts, OwnerHears, OwnerPostFails
  <2>2. OwnerTypeOK'
    BY <1>1, <1>4, OwnerSteps
    DEF OwnerReceivesKeys, OwnerGetFails, OwnerEncrypts, OwnerHears, OwnerPostFails
  <2>3. QED
    BY <2>1, <2>2, TEUnchanged, EngineUnchanged
<1>5. QED
  BY <1>2, <1>3, <1>4 DEF OwnerStep

\* A step of the engine, with the arrival of its call at the trusted entity,
\* keeps the invariants.
LEMMA EngineStepInv ==
  ASSUME AppInv, NEW o \in Owners, EngineStep(o)
  PROVE  AppInv'
<1> USE DEF AppInv
<1>1. ae[o].id \in Nat /\ fetch[o].key \in Nat
  BY DEF EngineInv, AETypeOK, AEHandler, TEInv, TETypeOK, FetchHandler
<1>2. CASE EngineAsks(o)
  <2>1. TEInv'
    BY <1>1, <1>2, FetchInv DEF EngineAsks
  <2>2. EngineInv'
    BY <1>1, <1>2, QuietSteps DEF EngineAsks
  <2>3. OwnerTypeOK'
    BY <1>2, OwnerUnchanged DEF EngineAsks
  <2>4. QED
    BY <2>1, <2>2, <2>3
<1>3. CASE EngineReceivesKeys(o)
  <2>1. TEInv' /\ OwnerTypeOK'
    BY <1>3, TEUnchanged, OwnerUnchanged DEF EngineReceivesKeys
  <2>2. EngineInv'
    BY <1>1, <1>3, QuietSteps DEF EngineReceivesKeys
  <2>3. QED
    BY <2>1, <2>2
<1>4. CASE EngineAskFails(o)
  <2>1. TEInv' /\ OwnerTypeOK'
    BY <1>4, TEUnchanged, OwnerUnchanged DEF EngineAskFails
  <2>2. EngineInv'
    BY <1>4, AEDownInv DEF EngineAskFails, KeysFail
  <2>3. QED
    BY <2>1, <2>2
<1>5. CASE AEHandlerStep(o) /\ UNCHANGED <<teVars, ownerVars>>
  <2>1. TEInv' /\ OwnerTypeOK'
    BY <1>5, TEUnchanged, OwnerUnchanged
  <2>2. EngineInv'
    BY <1>1, <1>5, QuietSteps, AppendLoadInv, AppendStoreInv DEF AEHandlerStep
  <2>3. QED
    BY <2>1, <2>2
<1>6. QED
  BY <1>2, <1>3, <1>4, <1>5 DEF EngineStep

\* Every step of the application keeps the invariants.
LEMMA AppNextInv == AppInv /\ [Next]_vars => AppInv'
<1> SUFFICES ASSUME AppInv, [Next]_vars
             PROVE  AppInv'
  OBVIOUS
<1>1. ASSUME NEW o \in Owners, TrustedEntityStep(o)
      PROVE  AppInv'
  <2>1. TEInv'
    BY <1>1, DeriveKeysInv, GenMovesInv, BeginStoreInv, EndStoreInv, FetchInv
    DEF AppInv, TrustedEntityStep, TEHandlerStep
  <2>2. QED
    BY <1>1, <2>1, EngineUnchanged, OwnerUnchanged DEF AppInv, TrustedEntityStep
<1>2. CASE ProcessStep
  <2>1. CASE TEProcessStep /\ UNCHANGED <<aeVars, ownerVars>>
    <3>1. TEInv'
      BY <2>1, DownInv, TEStartInv DEF AppInv, TEProcessStep, MapFault, TEStop
    <3>2. QED
      BY <2>1, <3>1, EngineUnchanged, OwnerUnchanged DEF AppInv
  <2>2. CASE (AEStop \/ AEStart) /\ UNCHANGED <<teVars, ownerVars>>
    <3>1. EngineInv'
      BY <2>2, AEDownInv, AEStartInv DEF AppInv, AEStop
    <3>2. QED
      BY <2>2, <3>1, TEUnchanged, OwnerUnchanged DEF AppInv
  <2>3. QED
    BY <1>2, <2>1, <2>2 DEF ProcessStep
<1>3. CASE UNCHANGED vars
  BY <1>3, TEUnchanged, EngineUnchanged, OwnerUnchanged DEF AppInv, vars
<1>4. QED
  BY <1>1, <1>2, <1>3, OwnerStepInv, EngineStepInv DEF Next

-----------------------------------------------------------------------------
(* The theorems *)

\* The conjunction of the invariants of the parties holds for every behaviour of
\* the application.
THEOREM AppInvariant == Spec => []AppInv
<1>1. Init => AppInv
  <2>1. OwnerInit => OwnerTypeOK
    BY DEF OwnerInit, OwnerTypeOK, OwnerState, OwnerPC, ExitCode, NoKey
  <2>2. QED
    BY <2>1, InitInv, EngineInit DEF Init, AppInv
<1>2. QED
  BY <1>1, AppNextInv, PTL DEF Spec

\* Type correctness of the application.
THEOREM AppTypeCorrect == Spec => []TypeOK
<1>1. AppInv => TypeOK
  BY DEF AppInv, TEInv, EngineInv, TypeOK
<1>2. QED
  BY <1>1, AppInvariant, PTL

\* A result that was written in the current run of the engine is missing from
\* clientData only if its append overlapped another's, whatever a raced append
\* makes of the slice.
THEOREM LossOnlyByRace == Spec => []LossNeedsOverlap
<1>1. AppInv => LossNeedsOverlap
  BY DEF AppInv, EngineInv, WrittenKept, Kept, LossNeedsOverlap, Holds
<1>2. QED
  BY <1>1, AppInvariant, PTL

-----------------------------------------------------------------------------
(***************************************************************************)
(* The calls between the parties of the application: the id and the keys   *)
(* of one owner on their way through the trusted entity, the owner and the *)
(* analytics engine.                                                       *)
(*                                                                         *)
(* No property of the engine's results is inductive: what a handler holds  *)
(* came in a reply to a call that another party may have given up since,   *)
(* or forgotten in a restart.  The parts of CallInv say, for each end of   *)
(* each call, what it shares with the other end.                           *)
(***************************************************************************)

\* The trusted entity told owner o this id and this key.
Issued(o, id, key) ==
  gen[o].st = "replied" /\ gen[o].id = id /\ gen[o].key = key

\* The owner has what it was told or nothing, and encrypts under that.
OwnerHas(o) ==
  /\ owner[o].key # NoKey => Issued(o, owner[o].id, owner[o].key)
  /\ owner[o].ctKey \in {NoKey, owner[o].key}
  /\ owner[o].pc \in {"start", "getting"} => owner[o].ctKey = NoKey
  /\ owner[o].pc \in {"encrypted", "posting"} => owner[o].ctKey # NoKey
  /\ owner[o].heard => ae[o].st = "replied"

\* The engine has what the owner posted ...
EnginePosted(o) ==
  /\ ae[o].st \notin {"none", "failed"} => ae[o].ctKey # NoKey
  /\ ae[o].ctKey # NoKey => Issued(o, ae[o].id, ae[o].ctKey)

\* ... and what the trusted entity answered to its call.
EngineFetched(o) ==
  /\ ae[o].st \in {"none", "decoded"} => fetch[o].st = "none"
  /\ ae[o].st \in {"keyed", "decrypted", "loaded", "stored", "replied"} =>
       fetch[o].st = "replied" /\ ae[o].key = fetch[o].key
  /\ ae[o].st \in {"decrypted", "loaded", "stored", "replied"} =>
       /\ ae[o].key # NoKey
       /\ ae[o].xy = InnerProduct(o, ae[o].ctKey, ae[o].key)

\* The trusted entity is asked for the id it issued, and answers with another
\* key than the one it issued after a restart or by a race only.
FetchAnswers(o) ==
  /\ fetch[o].st \in {"accepted", "replied"} =>
       ae[o].ctKey # NoKey /\ fetch[o].id = ae[o].id
  /\ (fetch[o].st = "replied" /\ fetch[o].key = NoKey) =>
       gen[o].run < teRun \/ fetch[o].harm # "none"
  /\ (fetch[o].st = "replied" /\ fetch[o].key \notin {NoKey, gen[o].key}) =>
       (~FreshSeed /\ teRun > 1) \/ fetch[o].harm = "torn"
  /\ fetch[o].st # "replied" => fetch[o].harm = "none"

\* A call of the engine fails when the trusted entity is down or was.
FailsByOutage(o) == fetch[o].st = "failed" => ~teUp \/ teRun > 1

\* A handler that took a request up belongs to a run.
HasRun(o) == gen[o].st \notin {"none", "failed"} => gen[o].run >= 1

Chain(o) ==
  /\ OwnerHas(o)
  /\ EnginePosted(o)
  /\ EngineFetched(o)
  /\ FetchAnswers(o)
  /\ FailsByOutage(o)
  /\ HasRun(o)

CallInv ==
  /\ AppInv
  /\ \A o \in Owners : Chain(o)
  /\ EngineFallsWithTrustedEntity

-----------------------------------------------------------------------------
(* Steps of others *)

\* The trusted entity goes on: its runs only get more, and an outage that was
\* is not undone.
GoesOn ==
  /\ teRun \in Nat /\ teRun' \in Nat /\ teRun <= teRun'
  /\ (~teUp \/ teRun > 1) => (~teUp' \/ teRun' > 1)

\* What the type invariants say of the records of one owner.
LEMMA Records ==
  ASSUME AppInv
  PROVE  /\ owner \in [Owners -> OwnerState]
         /\ gen \in [Owners -> GenHandler]
         /\ fetch \in [Owners -> FetchHandler]
         /\ ae \in [Owners -> AEHandler]
         /\ teRun \in Nat /\ teRun >= 1
         /\ aeRun \in Nat /\ aeRun >= 1
<1>1. teRun \in 1..MaxTERuns /\ aeRun \in 1..MaxAERuns
  BY DEF AppInv, TEInv, TETypeOK, EngineInv, AETypeOK
<1>2. QED
  BY <1>1, TEAssumption, AEAssumption
  DEF AppInv, TEInv, TETypeOK, EngineInv, AETypeOK, OwnerTypeOK

\* No step takes a run of the trusted entity back.
LEMMA AlwaysGoesOn ==
  ASSUME AppInv, [Next]_vars
  PROVE  GoesOn
<1>1. teRun \in Nat /\ teRun >= 1
  BY Records
<1>2. CASE UNCHANGED <<teUp, teRun>>
  BY <1>1, <1>2 DEF GoesOn
<1>3. CASE Down
  BY <1>1, <1>3 DEF Down, GoesOn
<1>4. CASE TEStart
  BY <1>1, <1>4 DEF TEStart, GoesOn
<1>5. ASSUME ~UNCHANGED <<teUp, teRun>>
      PROVE  Down \/ TEStart
  <2>1. ~UNCHANGED teVars
    BY <1>5 DEF teVars
  <2>2. \A o \in Owners : ~OwnerStep(o)
    BY <1>5, <2>1 DEF OwnerStep, OwnerGets, OwnerReceivesKeys, OwnerGetFails, OwnerEncrypts,
                OwnerPosts, OwnerHears, OwnerPostFails, AcceptGen, RefuseGen
  <2>3. \A o \in Owners : ~EngineStep(o)
    BY <1>5, <2>1 DEF EngineStep, EngineAsks, EngineReceivesKeys, EngineAskFails,
                AcceptFetch, RefuseFetch
  <2>4. \A o \in Owners : ~TrustedEntityStep(o)
    BY <1>5 DEF TrustedEntityStep, TEHandlerStep, DeriveKeys, BeginStore, EndStore,
                ReplyGen, ReplyFetch
  <2>5. ProcessStep
    BY <2>1, <2>2, <2>3, <2>4 DEF Next, vars
  <2>6. QED
    BY <2>1, <2>5 DEF ProcessStep, TEProcessStep, MapFault, TEStop
<1>6. QED
  BY <1>2, <1>3, <1>4, <1>5

\* A step that touches no record of an owner keeps its chain.
LEMMA ChainKept ==
  ASSUME AppInv, GoesOn, NEW o \in Owners, Chain(o),
         owner'[o] = owner[o], gen'[o] = gen[o], fetch'[o] = fetch[o], ae'[o] = ae[o]
  PROVE  Chain(o)'
<1>1. gen[o].run \in Nat
  BY Records DEF GenHandler
<1>2. QED
  BY <1>1 DEF Chain, OwnerHas, EnginePosted, EngineFetched, FetchAnswers, FailsByOutage,
              HasRun, Issued, GoesOn

-----------------------------------------------------------------------------
(* Steps of an owner *)

\* The steps of an owner between its calls, and those that end them.
LEMMA OwnerEndsChain ==
  ASSUME AppInv, NEW o \in Owners, Chain(o),
         \/ OwnerReceivesKeys(o) \/ OwnerGetFails(o) \/ OwnerEncrypts(o)
         \/ OwnerHears(o) \/ OwnerPostFails(o)
  PROVE  Chain(o)'
<1>1. /\ owner[o] \in OwnerState /\ owner \in [Owners -> OwnerState]
      /\ UNCHANGED <<teVars, aeVars>>
  BY Records DEF OwnerReceivesKeys, OwnerGetFails, OwnerEncrypts, OwnerHears, OwnerPostFails
<1>2. OwnerHas(o)'
  <2> USE <1>1 DEF OwnerHas, Issued, teVars, aeVars, OwnerState, OwnerPC, ExitCode
  <2>1. CASE OwnerReceivesKeys(o)
    <3>1. /\ gen[o].st = "replied"
          /\ owner'[o].id = gen[o].id /\ owner'[o].key = gen[o].key
          /\ owner[o].pc = "getting" /\ owner'[o].pc = "loaded"
          /\ owner'[o].ctKey = owner[o].ctKey /\ owner'[o].heard = owner[o].heard
      BY <2>1 DEF OwnerReceivesKeys, ReplyArrives
    <3>2. owner'[o].heard => ae'[o].st = "replied"
      BY <3>1, Zenon DEF Chain, OwnerHas, aeVars
    <3>3. QED
      BY <3>1, <3>2 DEF Chain
  <2>2. CASE OwnerGetFails(o)
    <3>1. /\ owner[o].pc = "getting" /\ owner'[o].pc \in {"loaded", "exit"}
          /\ owner'[o].id = owner[o].id /\ owner'[o].key = owner[o].key
          /\ owner'[o].ctKey = owner[o].ctKey /\ owner'[o].heard = owner[o].heard
      BY <2>2 DEF OwnerGetFails, CppGetFails, GoGetFails, Exit, ResultOfGet
    <3>2. owner'[o].heard => ae'[o].st = "replied"
      BY <3>1, Zenon DEF Chain, OwnerHas, aeVars
    <3>3. QED
      BY <3>1, <3>2 DEF Chain
  <2>3. CASE OwnerEncrypts(o)
    <3>1. /\ owner'[o].id = owner[o].id /\ owner'[o].key = owner[o].key
          /\ owner'[o].heard = owner[o].heard
          /\ \/ /\ owner'[o].pc = "encrypted"
                /\ owner[o].key # NoKey /\ owner'[o].ctKey = owner[o].key
             \/ owner'[o].pc = "exit" /\ owner'[o].ctKey = owner[o].ctKey
      BY <2>3 DEF OwnerEncrypts, Encrypt, KeyIsSet, AssertFails, Exit
    <3>2. owner'[o].heard => ae'[o].st = "replied"
      BY <3>1, Zenon DEF Chain, OwnerHas, aeVars
    <3>3. QED
      BY <3>1, <3>2 DEF Chain
  <2>4. CASE OwnerHears(o) \/ OwnerPostFails(o)
    <3>1. /\ owner'[o].pc = "exit"
          /\ owner'[o].id = owner[o].id
          /\ owner'[o].key = owner[o].key /\ owner'[o].ctKey = owner[o].ctKey
      BY <2>4 DEF OwnerHears, PostAnswered, OwnerPostFails, PostFails, Exit
    <3>2. owner'[o].heard = owner[o].heard \/ ae[o].st = "replied"
      BY <2>4 DEF OwnerHears, OwnerPostFails, PostFails, Exit
    <3>3. owner'[o].heard => ae'[o].st = "replied"
      BY <3>2, Zenon DEF Chain, OwnerHas, aeVars
    <3>4. QED
      BY <3>1, <3>3 DEF Chain
  <2>5. QED
    BY <2>1, <2>2, <2>3, <2>4
<1>3. EnginePosted(o)' /\ EngineFetched(o)'
  BY <1>1 DEF Chain, EnginePosted, EngineFetched, Issued, teVars, aeVars
<1>4. FetchAnswers(o)' /\ FailsByOutage(o)' /\ HasRun(o)'
  BY <1>1 DEF Chain, FetchAnswers, FailsByOutage, HasRun, teVars, aeVars
<1>5. QED
  BY <1>2, <1>3, <1>4 DEF Chain

\* A generateKeys handler that has not replied can do what it likes: nobody
\* has an id or a key of it, and nobody asks for one.
LEMMA UnrepliedGen ==
  ASSUME AppInv, NEW o \in Owners, Chain(o), GoesOn,
         gen[o].st # "replied",
         UNCHANGED <<fetch, ae>>,
         owner'[o].key = owner[o].key, owner'[o].ctKey = owner[o].ctKey,
         owner'[o].heard = owner[o].heard,
         owner'[o].pc \in {owner[o].pc, "getting"},
         HasRun(o)'
  PROVE  Chain(o)'
<1>1. owner[o].key = NoKey /\ owner[o].ctKey = NoKey /\ ae[o].ctKey = NoKey
  BY DEF Chain, OwnerHas, EnginePosted, Issued
<1>2. OwnerHas(o)' /\ EnginePosted(o)' /\ EngineFetched(o)'
  BY <1>1 DEF Chain, OwnerHas, EnginePosted, EngineFetched
<1>3. FetchAnswers(o)'
  BY <1>1, Records DEF Chain, FetchAnswers, FetchHandler, FetchBusy, FetchEnded
<1>4. FailsByOutage(o)'
  BY DEF Chain, FailsByOutage, GoesOn
<1>5. QED
  BY <1>2, <1>3, <1>4 DEF Chain

\* The owner's call arrives: a handler of the current run takes it up.
LEMMA OwnerGetsChain ==
  ASSUME AppInv, NEW o \in Owners, Chain(o), OwnerGets(o)
  PROVE  Chain(o)'
<1>1. /\ gen[o] \in GenHandler /\ gen \in [Owners -> GenHandler]
      /\ owner[o] \in OwnerState /\ owner \in [Owners -> OwnerState]
      /\ teRun \in Nat /\ teRun >= 1
  BY Records
<1>2. gen[o].st # "replied" /\ UNCHANGED <<teUp, teRun, fetch, ae>>
  BY DEF OwnerGets, AcceptGen, RefuseGen, aeVars
<1>3. /\ owner'[o].key = owner[o].key /\ owner'[o].ctKey = owner[o].ctKey
      /\ owner'[o].heard = owner[o].heard
      /\ owner'[o].pc = "getting"
  BY <1>1 DEF OwnerGets, SendGet, OwnerState
<1>4. HasRun(o)'
  BY <1>1 DEF OwnerGets, AcceptGen, RefuseGen, HasRun, GenHandler
<1>5. GoesOn
  BY <1>1, <1>2 DEF GoesOn
<1>6. QED
  BY <1>2, <1>3, <1>4, <1>5, UnrepliedGen

\* The owner posts what it encrypted under the key it was told; the engine
\* takes it up or refuses it.
LEMMA OwnerPostsChain ==
  ASSUME AppInv, NEW o \in Owners, Chain(o), OwnerPosts(o)
  PROVE  Chain(o)'
<1>1. /\ owner[o] \in OwnerState /\ owner \in [Owners -> OwnerState]
      /\ ae[o] \in AEHandler /\ ae \in [Owners -> AEHandler]
      /\ UNCHANGED teVars
  BY Records DEF OwnerPosts
<1>2. /\ owner[o].pc = "encrypted" /\ owner'[o].pc = "posting"
      /\ owner'[o].key = owner[o].key /\ owner'[o].ctKey = owner[o].ctKey
      /\ owner'[o].id = owner[o].id /\ owner'[o].heard = owner[o].heard
  BY <1>1 DEF OwnerPosts, SendPost, OwnerState
<1>3. /\ ae[o].st = "none"
      /\ \/ ae'[o].st = "decoded" /\ ae'[o].id = owner[o].id /\ ae'[o].ctKey = owner[o].ctKey
         \/ ae'[o].st = "failed" /\ ae'[o].id = ae[o].id /\ ae'[o].ctKey = ae[o].ctKey
  BY <1>1 DEF OwnerPosts, AcceptData, RefuseData, AEHandler
<1>4. fetch'[o] = fetch[o] /\ gen'[o] = gen[o] /\ teRun' = teRun /\ teUp' = teUp
  BY <1>1 DEF teVars
<1>5. fetch[o].st = "none"
  BY <1>3 DEF Chain, EngineFetched
<1>6. OwnerHas(o)' /\ EnginePosted(o)' /\ EngineFetched(o)'
  BY <1>2, <1>3, <1>4, <1>5 DEF Chain, OwnerHas, EnginePosted, EngineFetched, Issued
<1>7. FetchAnswers(o)' /\ FailsByOutage(o)' /\ HasRun(o)'
  BY <1>4, <1>5 DEF Chain, FetchAnswers, FailsByOutage, HasRun
<1>8. QED
  BY <1>6, <1>7 DEF Chain

-----------------------------------------------------------------------------
(* Steps of the engine *)

\* The engine asks for the id that the owner posted.
LEMMA EngineAsksChain ==
  ASSUME AppInv, NEW o \in Owners, Chain(o), EngineAsks(o)
  PROVE  Chain(o)'
<1>1. /\ fetch[o] \in FetchHandler /\ fetch \in [Owners -> FetchHandler]
      /\ ae[o] \in AEHandler /\ ae \in [Owners -> AEHandler]
      /\ owner'[o] = owner[o]
  BY Records DEF EngineAsks, ownerVars
<1>2. /\ ae[o].st = "decoded" /\ ae'[o].st = "asking"
      /\ ae'[o].id = ae[o].id /\ ae'[o].ctKey = ae[o].ctKey
  BY <1>1 DEF EngineAsks, AskKey, AEHandler
<1>3. /\ gen'[o] = gen[o] /\ teRun' = teRun /\ teUp' = teUp
      /\ \/ fetch'[o].st = "accepted" /\ fetch'[o].id = ae[o].id
         \/ fetch'[o].st = "failed" /\ ~teUp
      /\ fetch[o].st = "none" /\ fetch'[o].harm = fetch[o].harm
  BY <1>1 DEF EngineAsks, AcceptFetch, RefuseFetch, FetchHandler
<1>4. OwnerHas(o)' /\ EnginePosted(o)' /\ EngineFetched(o)'
  BY <1>1, <1>2, <1>3 DEF Chain, OwnerHas, EnginePosted, EngineFetched, Issued
<1>5. FetchAnswers(o)' /\ FailsByOutage(o)' /\ HasRun(o)'
  BY <1>2, <1>3 DEF Chain, FetchAnswers, EnginePosted, FailsByOutage, HasRun
<1>6. QED
  BY <1>4, <1>5 DEF Chain

\* What a step of the goroutine does to the record of its handler.
HandlerMoves(o) ==
  \/ /\ ae[o].st = "asking" /\ fetch[o].st = "replied"
     /\ ae'[o].st = "keyed" /\ ae'[o].key = fetch[o].key
  \/ /\ ae[o].st = "keyed"
     /\ ae'[o].st = "failed"
  \/ /\ ae[o].st = "keyed" /\ ae[o].key # NoKey
     /\ ae'[o].st = "decrypted" /\ ae'[o].key = ae[o].key
     /\ ae'[o].xy = InnerProduct(o, ae[o].ctKey, ae[o].key)
  \/ /\ ae[o].st \in {"decrypted", "loaded", "stored"}
     /\ ae'[o].st \in {"loaded", "stored", "replied"}
     /\ ae'[o].key = ae[o].key /\ ae'[o].xy = ae[o].xy

\* The goroutine goes on with the id it has and the answer it got.
LEMMA EngineMovesChain ==
  ASSUME AppInv, NEW o \in Owners, Chain(o),
         EngineReceivesKeys(o) \/ (AEHandlerStep(o) /\ UNCHANGED <<teVars, ownerVars>>)
  PROVE  Chain(o)'
<1>1. /\ ae[o] \in AEHandler /\ ae \in [Owners -> AEHandler]
      /\ UNCHANGED <<teVars, ownerVars>>
  BY Records DEF EngineReceivesKeys
<1>2. ae'[o].id = ae[o].id /\ ae'[o].ctKey = ae[o].ctKey /\ HandlerMoves(o)
  <2> USE <1>1 DEF HandlerMoves, AEHandler
  <2>1. CASE EngineReceivesKeys(o)
    BY <2>1 DEF EngineReceivesKeys, KeysArrive
  <2>2. CASE PanicOnNilParams(o)
    BY <2>2 DEF PanicOnNilParams
  <2>3. CASE Decrypt(o)
    BY <2>3 DEF Decrypt
  <2>4. CASE AppendLoad(o)
    BY <2>4 DEF AppendLoad
  <2>5. CASE AppendStore(o) \/ ReplyData(o)
    BY <2>5 DEF AppendStore, ReplyData
  <2>6. QED
    BY <2>1, <2>2, <2>3, <2>4, <2>5 DEF AEHandlerStep
<1>3. /\ owner'[o] = owner[o] /\ fetch'[o] = fetch[o] /\ gen'[o] = gen[o]
      /\ teRun' = teRun /\ teUp' = teUp
  BY <1>1 DEF teVars, ownerVars
<1>4. OwnerHas(o)'
  BY <1>2, <1>3 DEF Chain, OwnerHas, Issued, HandlerMoves
<1>5. EnginePosted(o)'
  BY <1>2, <1>3 DEF Chain, EnginePosted, Issued, HandlerMoves
<1>6. EngineFetched(o)'
  BY <1>2, <1>3 DEF Chain, EngineFetched, HandlerMoves
<1>7. FetchAnswers(o)' /\ FailsByOutage(o)' /\ HasRun(o)'
  BY <1>2, <1>3 DEF Chain, FetchAnswers, FailsByOutage, HasRun
<1>8. QED
  BY <1>4, <1>5, <1>6, <1>7 DEF Chain

\* The end of the engine takes its handlers with it, not what they were told.
LEMMA AEDownChain ==
  ASSUME AppInv, NEW o \in Owners, Chain(o), AEDown, UNCHANGED <<teVars, ownerVars>>
  PROVE  Chain(o)'
<1>1. ae[o] \in AEHandler
  BY Records
<1>2. /\ ae'[o].id = ae[o].id /\ ae'[o].ctKey = ae[o].ctKey
      /\ ae'[o] = ae[o] \/ (ae'[o].st = "failed" /\ ae[o].st \in AEBusy)
  BY <1>1 DEF AEDown, AEHandler
<1>3. /\ owner'[o] = owner[o] /\ fetch'[o] = fetch[o] /\ gen'[o] = gen[o]
      /\ teRun' = teRun /\ teUp' = teUp
  BY DEF teVars, ownerVars
<1>4. OwnerHas(o)' /\ EnginePosted(o)' /\ EngineFetched(o)'
  BY <1>2, <1>3 DEF Chain, OwnerHas, EnginePosted, EngineFetched, Issued, AEBusy
<1>5. FetchAnswers(o)' /\ FailsByOutage(o)' /\ HasRun(o)'
  BY <1>2, <1>3 DEF Chain, FetchAnswers, FailsByOutage, HasRun
<1>6. QED
  BY <1>4, <1>5 DEF Chain

-----------------------------------------------------------------------------
(* Steps of the trusted entity *)

\* generateKeys gives nothing away before it replies, and its reply changes
\* nothing.
LEMMA GenChain ==
  ASSUME AppInv, NEW o \in Owners, Chain(o), UNCHANGED <<aeVars, ownerVars>>,
         DeriveKeys(o) \/ BeginStore(o) \/ EndStore(o) \/ ReplyGen(o)
  PROVE  Chain(o)'
<1>1. gen[o] \in GenHandler /\ gen \in [Owners -> GenHandler] /\ teRun \in Nat
  BY Records
<1>2. /\ gen[o].st \notin {"none", "failed", "replied"}
      /\ gen'[o].run = gen[o].run
      /\ UNCHANGED <<teUp, teRun, fetch>>
  BY <1>1 DEF DeriveKeys, BeginStore, EndStore, ReplyGen, GenHandler
<1>3. HasRun(o)'
  BY <1>2 DEF Chain, HasRun
<1>4. GoesOn
  BY <1>1, <1>2 DEF GoesOn
<1>5. QED
  BY <1>2, <1>3, <1>4, UnrepliedGen DEF aeVars, ownerVars

\* provideFEKey answers with the key that was issued with the id, or with one
\* that a restarted process, drawing the ids again, has put in its place, or
\* with none, when the process that issued the id is gone.
LEMMA ReplyFetchChain ==
  ASSUME AppInv, NEW o \in Owners, Chain(o), UNCHANGED <<aeVars, ownerVars>>, ReplyFetch(o)
  PROVE  Chain(o)'
<1>1. /\ fetch[o] \in FetchHandler /\ fetch \in [Owners -> FetchHandler]
      /\ gen[o] \in GenHandler
      /\ teRun \in Nat /\ teRun >= 1
  BY Records
<1>2. PICK key \in Readable(fetch[o].id) :
        /\ fetch[o].st = "accepted" /\ fetch'[o].st = "replied"
        /\ fetch'[o].id = fetch[o].id /\ fetch'[o].key = key /\ fetch'[o].harm = Harm(key)
        /\ gen' = gen /\ teRun' = teRun /\ teUp' = teUp
  BY <1>1 DEF ReplyFetch, FetchHandler
<1>3. owner'[o] = owner[o] /\ ae'[o] = ae[o]
  BY DEF aeVars, ownerVars
<1>4. /\ ae[o].ctKey # NoKey /\ fetch[o].id = ae[o].id
      /\ gen[o].st = "replied" /\ gen[o].id = fetch[o].id
  BY <1>2 DEF Chain, FetchAnswers, EnginePosted, Issued
<1>5. gen[o].run \in Nat /\ gen[o].run >= 1 /\ gen[o].run <= teRun /\ Derived(o)
  BY <1>1, <1>4 DEF Chain, HasRun, GenHandler, AppInv, TEInv, HandlerRuns
<1>6. (gen[o].run = teRun /\ ~torn) => Lookup(fetch[o].id) = gen[o].key
  BY <1>4 DEF AppInv, TEInv, StoredStays, Lookup
<1>7. FreshSeed => Lookup(fetch[o].id) \in {NoKey, gen[o].key}
  BY <1>4, <1>5 DEF AppInv, TEInv, IdsDrawn, EntriesIssued, Lookup
<1>8. FetchAnswers(o)'
  <2>1. CASE torn
    BY <1>2, <1>3, <1>4, <2>1 DEF FetchAnswers, Harm
  <2>2. CASE ~torn /\ key = Lookup(fetch[o].id)
    <3>1. key = NoKey => gen[o].run < teRun
      BY <1>1, <1>5, <1>6, <2>2 DEF Derived
    <3>2. key \notin {NoKey, gen[o].key} => ~FreshSeed /\ teRun > 1
      BY <1>1, <1>5, <1>6, <1>7, <2>2
    <3>3. QED
      BY <1>2, <1>3, <1>4, <3>1, <3>2 DEF FetchAnswers
  <2>3. CASE ~torn /\ key = NoKey /\ Storing # {}
    BY <1>2, <1>3, <1>4, <2>3 DEF FetchAnswers, Harm
  <2>4. CASE ~torn /\ \E q \in Storing : gen[q].id = fetch[o].id /\ gen[q].key = key
    <3>1. PICK q \in Storing : gen[q].id = fetch[o].id /\ gen[q].key = key
      BY <2>4
    <3>2. q \in Owners /\ q # o /\ Derived(q) /\ gen[q].run = teRun
      BY <1>4, <3>1 DEF Storing, AppInv, TEInv, HandlerRuns, GenBusy
    <3>3. key # NoKey
      BY <3>1, <3>2 DEF Derived
    <3>4. gen[o].run # teRun
      BY <1>4, <1>5, <3>1, <3>2 DEF AppInv, TEInv, IdsDiffer
    <3>5. teRun > 1
      BY <1>1, <1>5, <3>4
    <3>6. FreshSeed => key = gen[o].key
      BY <1>4, <1>5, <3>1, <3>2 DEF AppInv, TEInv, IdsDrawn
    <3>7. QED
      BY <1>2, <1>3, <1>4, <3>3, <3>5, <3>6 DEF FetchAnswers
  <2>5. QED
    BY <1>2, <2>1, <2>2, <2>3, <2>4 DEF Readable
<1>9. OwnerHas(o)' /\ EnginePosted(o)' /\ EngineFetched(o)'
  BY <1>2, <1>3 DEF Chain, OwnerHas, EnginePosted, EngineFetched, Issued
<1>10. FailsByOutage(o)' /\ HasRun(o)'
  BY <1>2 DEF Chain, FailsByOutage, HasRun
<1>11. QED
  BY <1>8, <1>9, <1>10 DEF Chain

\* The end of the trusted entity fails the calls under way, not the answers it
\* gave.
LEMMA DownChain ==
  ASSUME AppInv, NEW o \in Owners, Chain(o), UNCHANGED <<aeVars, ownerVars>>, Down
  PROVE  Chain(o)'
<1>1. gen[o] \in GenHandler /\ fetch[o] \in FetchHandler
  BY Records
<1>2. /\ owner'[o] = owner[o] /\ ae'[o] = ae[o]
      /\ gen'[o].id = gen[o].id /\ gen'[o].key = gen[o].key /\ gen'[o].run = gen[o].run
      /\ gen'[o].st = gen[o].st \/ (gen'[o].st = "failed" /\ gen[o].st # "replied")
      /\ fetch'[o].id = fetch[o].id /\ fetch'[o].key = fetch[o].key
      /\ fetch'[o].harm = fetch[o].harm
      /\ fetch'[o].st = fetch[o].st \/ (fetch'[o].st = "failed" /\ fetch[o].st = "accepted")
      /\ teRun' = teRun /\ ~teUp'
  BY <1>1 DEF Down, GenHandler, FetchHandler, GenBusy, FetchBusy, aeVars, ownerVars
<1>3. OwnerHas(o)' /\ EnginePosted(o)' /\ EngineFetched(o)'
  BY <1>2 DEF Chain, OwnerHas, EnginePosted, EngineFetched, Issued
<1>4. FetchAnswers(o)' /\ FailsByOutage(o)' /\ HasRun(o)'
  BY <1>2 DEF Chain, FetchAnswers, FailsByOutage, HasRun
<1>5. QED
  BY <1>3, <1>4 DEF Chain

-----------------------------------------------------------------------------
(* Every step of the application *)

\* A step for one owner leaves the records of the others alone.
LEMMA OthersKept ==
  ASSUME AppInv, NEW o \in Owners, NEW p \in Owners \ {o},
         \/ OwnerStep(o) \/ TrustedEntityStep(o)
         \/ EngineAsks(o) \/ EngineReceivesKeys(o)
         \/ AEHandlerStep(o) /\ UNCHANGED <<teVars, ownerVars>>
  PROVE  /\ owner'[p] = owner[p] /\ gen'[p] = gen[p]
         /\ fetch'[p] = fetch[p] /\ ae'[p] = ae[p]
<1> USE Records DEF teVars, aeVars, ownerVars
<1>1. CASE OwnerGets(o) \/ OwnerReceivesKeys(o) \/ OwnerGetFails(o) \/ OwnerEncrypts(o)
  BY <1>1 DEF OwnerGets, SendGet, AcceptGen, RefuseGen, OwnerReceivesKeys, ReplyArrives,
              OwnerGetFails, CppGetFails, GoGetFails, OwnerEncrypts, Encrypt, AssertFails,
              Exit
<1>2. CASE OwnerPosts(o) \/ OwnerHears(o) \/ OwnerPostFails(o)
  BY <1>2 DEF OwnerPosts, SendPost, AcceptData, RefuseData, OwnerHears, PostAnswered,
              OwnerPostFails, PostFails, Exit
<1>3. CASE TrustedEntityStep(o)
  BY <1>3 DEF TrustedEntityStep, TEHandlerStep, DeriveKeys, BeginStore, EndStore, ReplyGen,
              ReplyFetch
<1>4. CASE EngineAsks(o) \/ EngineReceivesKeys(o)
  BY <1>4 DEF EngineAsks, AskKey, AcceptFetch, RefuseFetch, EngineReceivesKeys, KeysArrive
<1>5. CASE AEHandlerStep(o) /\ UNCHANGED <<teVars, ownerVars>>
  BY <1>5 DEF AEHandlerStep, PanicOnNilParams, Decrypt, AppendLoad, AppendStore, ReplyData
<1>6. QED
  BY <1>1, <1>2, <1>3, <1>4, <1>5 DEF OwnerStep

\* Every step keeps the chain of calls of every owner.
LEMMA ChainNextInv ==
  ASSUME CallInv, [Next]_vars, NEW p \in Owners
  PROVE  Chain(p)'
<1> USE DEF CallInv
<1>1. GoesOn
  BY AlwaysGoesOn
<1>2. ASSUME NEW o \in Owners,
             \/ OwnerStep(o) \/ TrustedEntityStep(o)
             \/ EngineAsks(o) \/ EngineReceivesKeys(o)
             \/ AEHandlerStep(o) /\ UNCHANGED <<teVars, ownerVars>>
      PROVE  Chain(p)'
  <2>1. CASE p # o
    BY <1>1, <1>2, <2>1, OthersKept, ChainKept
  <2>2. Chain(o)'
    BY <1>2, OwnerEndsChain, OwnerGetsChain, OwnerPostsChain, EngineAsksChain,
       EngineMovesChain, GenChain, ReplyFetchChain
    DEF OwnerStep, TrustedEntityStep, TEHandlerStep
  <2>3. QED
    BY <2>1, <2>2
<1>3. ASSUME AEDown, UNCHANGED <<teVars, ownerVars>>
      PROVE  Chain(p)'
  BY <1>3, AEDownChain
<1>4. ASSUME NEW o \in Owners, EngineAskFails(o)
      PROVE  Chain(p)'
  BY <1>3, <1>4 DEF EngineAskFails, KeysFail
<1>5. CASE ProcessStep
  <2>1. CASE Down /\ UNCHANGED <<aeVars, ownerVars>>
    BY <2>1, DownChain
  <2>2. CASE TEStart /\ UNCHANGED <<aeVars, ownerVars>>
    BY <1>1, <2>2, ChainKept DEF TEStart, aeVars, ownerVars
  <2>3. CASE AEStart /\ UNCHANGED <<teVars, ownerVars>>
    BY <1>1, <2>3, ChainKept DEF AEStart, teVars, ownerVars
  <2>4. QED
    BY <1>3, <1>5, <2>1, <2>2, <2>3
    DEF ProcessStep, TEProcessStep, MapFault, TEStop, AEStop
<1>6. CASE UNCHANGED vars
  BY <1>1, <1>6, ChainKept DEF vars, teVars, aeVars, ownerVars
<1>7. QED
  BY <1>2, <1>4, <1>5, <1>6 DEF Next, EngineStep

\* The engine goes down on its own only after a call to the trusted entity
\* failed.
LEMMA EngineFallsInv ==
  ASSUME CallInv, [Next]_vars
  PROVE  EngineFallsWithTrustedEntity'
<1> USE DEF CallInv, EngineFallsWithTrustedEntity
<1>1. GoesOn
  BY AlwaysGoesOn
<1>2. CASE UNCHANGED <<aeUp, aeRun>>
  BY <1>1, <1>2 DEF GoesOn
<1>3. ASSUME NEW o \in Owners, EngineAskFails(o)
      PROVE  EngineFallsWithTrustedEntity'
  BY <1>3 DEF EngineAskFails, Chain, FailsByOutage, teVars
<1>4. CASE AEStop
  BY <1>4 DEF AEStop
<1>5. CASE AEStart /\ UNCHANGED teVars
  BY <1>5 DEF AEStart, teVars
<1>6. ASSUME NEW o \in Owners, EngineStep(o), ~EngineAskFails(o)
      PROVE  UNCHANGED <<aeUp, aeRun>>
  BY <1>6 DEF EngineStep, EngineAsks, AskKey, EngineReceivesKeys, KeysArrive, AEHandlerStep,
              PanicOnNilParams, Decrypt, AppendLoad, AppendStore, ReplyData
<1>7. ASSUME NEW o \in Owners, OwnerStep(o) \/ TrustedEntityStep(o)
      PROVE  UNCHANGED <<aeUp, aeRun>>
  BY <1>7 DEF OwnerStep, OwnerGets, OwnerReceivesKeys, OwnerGetFails, OwnerEncrypts,
              OwnerPosts, AcceptData, RefuseData, OwnerHears, OwnerPostFails,
              TrustedEntityStep, aeVars
<1>8. CASE TEProcessStep /\ UNCHANGED <<aeVars, ownerVars>>
  BY <1>2, <1>8 DEF aeVars
<1>9. CASE UNCHANGED vars
  BY <1>2, <1>9 DEF vars, aeVars
<1>10. QED
  BY <1>2, <1>3, <1>4, <1>5, <1>6, <1>7, <1>8, <1>9 DEF Next, ProcessStep

\* The application starts with no call made.
LEMMA CallInit == Init => CallInv
<1> SUFFICES ASSUME Init
             PROVE  CallInv
  OBVIOUS
<1>1. AppInv
  <2>1. OwnerInit => OwnerTypeOK
    BY DEF OwnerInit, OwnerTypeOK, OwnerState, OwnerPC, ExitCode, NoKey
  <2>2. QED
    BY <2>1, InitInv, EngineInit DEF Init, AppInv
<1>2. ASSUME NEW o \in Owners
      PROVE  /\ owner[o].key = NoKey /\ owner[o].ctKey = NoKey
             /\ owner[o].pc = "start" /\ ~owner[o].heard
             /\ ae[o].st = "none" /\ ae[o].ctKey = NoKey
             /\ fetch[o].st = "none" /\ fetch[o].harm = "none" /\ gen[o].st = "none"
  BY DEF Init, TEInit, AEInit, OwnerInit, NoGen, NoFetch, NoHandler
<1>3. \A o \in Owners : Chain(o)
  BY <1>2 DEF Chain, OwnerHas, EnginePosted, EngineFetched, FetchAnswers, FailsByOutage, HasRun
<1>4. EngineFallsWithTrustedEntity
  BY DEF Init, AEInit, EngineFallsWithTrustedEntity
<1>5. QED
  BY <1>1, <1>3, <1>4 DEF CallInv

-----------------------------------------------------------------------------
(* The theorems *)

\* What an owner, the engine and the trusted entity hold of one another's calls
\* fits together in every state of the application.
THEOREM CallInvariant == Spec => []CallInv
<1>1. CallInv /\ [Next]_vars => CallInv'
  BY AppNextInv, ChainNextInv, EngineFallsInv DEF CallInv
<1>2. QED
  BY <1>1, CallInit, PTL DEF Spec

\* The ciphertexts the engine gets fit the ids they come with: the C++ client,
\* which goes on after a failed GET, never posts under a key nobody issued.
THEOREM PostsFitIds == Spec => []PostedUnderIssuedKey
<1>1. CallInv => PostedUnderIssuedKey
  BY DEF CallInv, Chain, EnginePosted, Issued, PostedUnderIssuedKey
<1>2. QED
  BY <1>1, CallInvariant, PTL

\* The trusted entity knows every id the engine asks for until it restarts, unless
\* a race on keyList hides or loses the entry.
THEOREM UnknownOnlyWhenLost == Spec => []UnknownIdNeedsLostEntry
<1>1. CallInv => UnknownIdNeedsLostEntry
  BY DEF CallInv, Chain, EngineFetched, FetchAnswers, UnknownIdNeedsLostEntry
<1>2. QED
  BY <1>1, CallInvariant, PTL

\* A nil result takes a restart that drew an id again, or two assignments to
\* keyList that overlapped.
THEOREM NilOnlyByReuseOrRace == Spec => []NilNeedsReuseOrRace
<1>1. ASSUME CallInv, NEW o \in Owners,
             ae[o].st \in {"decrypted", "loaded", "stored"}, ae[o].xy = Nil
      PROVE  (~FreshSeed /\ teRun > 1) \/ fetch[o].harm = "torn"
  <2>1. /\ ae[o].key = fetch[o].key /\ ae[o].key # NoKey /\ fetch[o].st = "replied"
        /\ Nil = InnerProduct(o, ae[o].ctKey, ae[o].key)
        /\ ae[o].ctKey = gen[o].key
    BY <1>1 DEF CallInv, Chain, EngineFetched, EnginePosted, Issued
  <2>2. ae[o].ctKey # ae[o].key
    BY <2>1, OwnersAssumption DEF InnerProduct
  <2>3. QED
    BY <1>1, <2>1, <2>2 DEF CallInv, Chain, FetchAnswers
<1>2. CallInv => NilNeedsReuseOrRace
  BY <1>1 DEF NilNeedsReuseOrRace
<1>3. QED
  BY <1>2, CallInvariant, PTL

\* An owner that heard 200 is among the results, unless a server restarted, its
\* append raced or its key was read from a torn map.
THEOREM HeardOwnersCount == Spec => []HeardIsCounted
<1>1. ASSUME CallInv, NEW o \in Owners \ overlapped,
             owner[o].heard, ae[o].run = aeRun, teRun = 1, fetch[o].harm # "torn"
      PROVE  Holds(clientData, o)
  <2>1. ae[o].st = "replied"
    BY <1>1, Zenon DEF CallInv, Chain, OwnerHas
  <2>2. /\ fetch[o].st = "replied" /\ ae[o].key = fetch[o].key /\ ae[o].key # NoKey
        /\ ae[o].xy = InnerProduct(o, ae[o].ctKey, ae[o].key)
        /\ ae[o].ctKey = gen[o].key
    BY <1>1, <2>1 DEF CallInv, Chain, EngineFetched, EnginePosted, Issued
  <2>3. ae[o].key = gen[o].key
    BY <1>1, <2>2 DEF CallInv, Chain, FetchAnswers
  <2>4. ae[o].xy = o
    BY <2>2, <2>3 DEF InnerProduct
  <2>5. o \in Written \ overlapped
    BY <1>1, <2>1 DEF Written
  <2>6. QED
    BY <1>1, <2>4, <2>5 DEF CallInv, AppInv, EngineInv, WrittenKept, Kept, Holds
<1>2. CallInv => HeardIsCounted
  BY <1>1, Zenon DEF HeardIsCounted
<1>3. QED
  BY <1>2, CallInvariant, PTL

\* Nothing in the program stops the engine but an outage of the trusted entity.
THEOREM EngineFallsOnlyAfter == Spec => []EngineFallsWithTrustedEntity
<1>1. CallInv => EngineFallsWithTrustedEntity
  BY DEF CallInv
<1>2. QED
  BY <1>1, CallInvariant, PTL

-----------------------------------------------------------------------------
(***************************************************************************)
(* The application is a tally: an append takes effect at its store, which  *)
(* LoadedAlone makes one of everything stored before, and the links of     *)
(* Chain make its result the owner's own.                                  *)
(***************************************************************************)

\* Where a post stands for the tally.
Standing(st) ==
  IF st = "none" THEN "away"
  ELSE IF st \in AEBusy \ {"stored"} THEN "pending"
  ELSE IF st = "replied" THEN "answered" ELSE "over"

\* A step that moves no post from one standing to another, lets no owner hear an
\* answer and leaves clientData is none for the tally.
LEMMA NothingTallied ==
  ASSUME \A p \in Owners : Standing(ae'[p].st) = Standing(ae[p].st),
         \A p \in Owners : owner'[p].heard = owner[p].heard,
         clientData' = clientData
  PROVE  UNCHANGED T!tallyVars
<1>1. ASSUME NEW p \in Owners
      PROVE  /\ ae'[p].st = "none" <=> ae[p].st = "none"
             /\ ae'[p].st \in AEBusy \ {"stored"} <=> ae[p].st \in AEBusy \ {"stored"}
             /\ ae'[p].st = "replied" <=> ae[p].st = "replied"
  BY DEF Standing, AEBusy
<1>2. {o \in Owners : ae'[o].st # "none"} = {o \in Owners : ae[o].st # "none"}
  BY <1>1
<1>3. {o \in Owners : ae'[o].st \in AEBusy \ {"stored"}}
        = {o \in Owners : ae[o].st \in AEBusy \ {"stored"}}
  BY <1>1
<1>4. {o \in Owners : ae'[o].st = "replied"} = {o \in Owners : ae[o].st = "replied"}
  BY <1>1
<1>5. {o \in Owners : owner'[o].heard} = {o \in Owners : owner[o].heard}
  OBVIOUS
<1>6. QED
  BY <1>2, <1>3, <1>4, <1>5 DEF T!tallyVars

\* At first nobody has offered anything.
LEMMA TallyStarts == Init => T!Init
<1> SUFFICES ASSUME Init
             PROVE  T!Init
  OBVIOUS
<1>1. \A o \in Owners : ae[o].st = "none" /\ owner[o].heard = FALSE
  BY DEF Init, AEInit, OwnerInit, NoHandler
<1>2. clientData = << >>
  BY DEF Init, AEInit
<1>3. QED
  BY <1>1, <1>2 DEF T!Init, AEBusy

\* A step of an owner: a post is an offer, and an answer that arrives is heard.
LEMMA OwnersAtEngine ==
  ASSUME CallInv, NEW o \in Owners, OwnerStep(o)
  PROVE  T!Next \/ UNCHANGED T!tallyVars
<1>1. owner \in [Owners -> OwnerState] /\ ae \in [Owners -> AEHandler]
  BY Records DEF CallInv
<1>2. CASE \/ OwnerGets(o) \/ OwnerReceivesKeys(o) \/ OwnerGetFails(o)
           \/ OwnerEncrypts(o) \/ OwnerPostFails(o)
  <2>1. UNCHANGED aeVars
    BY <1>2 DEF OwnerGets, OwnerReceivesKeys, OwnerGetFails, OwnerEncrypts, OwnerPostFails
  <2>2. ASSUME \/ SendGet(o) \/ Encrypt(o)
               \/ owner' = [owner EXCEPT ![o].pc = "loaded"]
        PROVE  \A p \in Owners : owner'[p].heard = owner[p].heard
    BY <1>1, <2>2 DEF SendGet, Encrypt, OwnerState
  <2>3. ASSUME NEW id, NEW key, ReplyArrives(o, id, key)
        PROVE  \A p \in Owners : owner'[p].heard = owner[p].heard
    BY <1>1, <2>3 DEF ReplyArrives, OwnerState
  <2>4. ASSUME NEW c, Exit(o, c)
        PROVE  \A p \in Owners : owner'[p].heard = owner[p].heard
    BY <1>1, <2>4 DEF Exit, OwnerState
  <2>5. \A p \in Owners : owner'[p].heard = owner[p].heard
    BY <1>2, <2>2, <2>3, <2>4
    DEF OwnerGets, OwnerReceivesKeys, OwnerGetFails, OwnerEncrypts, OwnerPostFails,
        CppGetFails, GoGetFails, AssertFails, PostFails
  <2>6. QED
    BY <2>1, <2>5, NothingTallied DEF aeVars
<1>3. CASE OwnerPosts(o)
  <2>1. \A p \in Owners : owner'[p].heard = owner[p].heard
    BY <1>1, <1>3 DEF OwnerPosts, SendPost, OwnerState
  <2>2. /\ ae[o].st = "none" /\ ae'[o].st \in {"decoded", "failed"}
        /\ \A p \in Owners \ {o} : ae'[p] = ae[p]
        /\ clientData' = clientData
    BY <1>1, <1>3 DEF OwnerPosts, AcceptData, RefuseData, AEHandler
  <2>3. T!Offer(o)
    BY <2>1, <2>2 DEF T!Offer, AEBusy
  <2>4. QED
    BY <2>3 DEF T!Next
<1>4. CASE OwnerHears(o)
  <2>1. /\ ae[o].st = "replied" /\ UNCHANGED aeVars
        /\ owner'[o].heard = TRUE /\ \A p \in Owners \ {o} : owner'[p] = owner[p]
    BY <1>1, <1>4 DEF OwnerHears, PostAnswered, OwnerState
  <2>2. T!Hear(o)
    BY <2>1 DEF T!Hear, aeVars
  <2>3. QED
    BY <2>2 DEF T!Next
<1>5. QED
  BY <1>2, <1>3, <1>4 DEF OwnerStep

\* The fall of the engine drops what it was working on.
LEMMA FallDrops ==
  ASSUME AppInv, AEDown, UNCHANGED ownerVars
  PROVE  T!Next
<1>1. ae \in [Owners -> AEHandler]
  BY Records
<1>2. ASSUME NEW p \in Owners
      PROVE  /\ ae'[p].st \notin AEBusy
             /\ ae'[p].st = "none" <=> ae[p].st = "none"
             /\ ae'[p].st = "replied" <=> ae[p].st = "replied"
  BY <1>1 DEF AEDown, AEBusy, AEHandler
<1>3. UNCHANGED <<clientData, owner>>
  BY DEF AEDown, ownerVars
<1>4. PICK offers : offers = {o \in Owners : ae[o].st \in AEBusy \ {"stored"}}
  OBVIOUS
<1>5. T!Drop(offers)
  BY <1>2, <1>3, <1>4 DEF T!Drop
<1>6. QED
  BY <1>4, <1>5 DEF T!Next

\* A post under its owner's own key gives its owner's own result, which is in
\* clientData when the store is done, and still is when the reply leaves.
LEMMA OwnResult ==
  ASSUME CallInv, FreshSeed \/ teRun = 1, NEW o \in Owners, fetch[o].harm # "torn",
         ae[o].st \in {"decrypted", "loaded", "stored", "replied"}
  PROVE  ae[o].xy = o
<1>1. /\ ae[o].key = fetch[o].key /\ ae[o].key # NoKey /\ fetch[o].st = "replied"
      /\ ae[o].xy = InnerProduct(o, ae[o].ctKey, ae[o].key)
      /\ ae[o].ctKey = gen[o].key
  BY DEF CallInv, Chain, EngineFetched, EnginePosted, Issued
<1>2. ae[o].key = gen[o].key
  BY <1>1 DEF CallInv, Chain, FetchAnswers
<1>3. QED
  BY <1>1, <1>2 DEF InnerProduct

\* A step of the engine: the store counts, the reply answers, a panic drops.
LEMMA EngineTallies ==
  ASSUME CallInv, NEW o \in Owners, EngineStep(o), Calm'
  PROVE  T!Next \/ UNCHANGED T!tallyVars
<1>1. ae \in [Owners -> AEHandler] /\ AppInv
  BY Records DEF CallInv
<1>2. UNCHANGED owner
  BY DEF EngineStep, EngineAsks, EngineReceivesKeys, EngineAskFails, ownerVars
<1>3. CASE EngineAskFails(o)
  BY <1>1, <1>2, <1>3, FallDrops DEF EngineAskFails, KeysFail, ownerVars
<1>4. CASE EngineAsks(o) \/ EngineReceivesKeys(o) \/ Decrypt(o) \/ AppendLoad(o)
  <2>1. /\ ae[o].st \in AEBusy \ {"stored"} /\ ae'[o].st \in AEBusy \ {"stored"}
        /\ \A p \in Owners \ {o} : ae'[p] = ae[p]
        /\ clientData' = clientData
    BY <1>1, <1>4
    DEF EngineAsks, EngineReceivesKeys, AskKey, KeysArrive, Decrypt, AppendLoad, AEBusy, AEHandler
  <2>2. \A p \in Owners : Standing(ae'[p].st) = Standing(ae[p].st)
    BY <2>1 DEF Standing, AEBusy
  <2>3. QED
    BY <1>2, <2>1, <2>2, NothingTallied
<1>5. CASE PanicOnNilParams(o)
  <2>1. /\ ae[o].st = "keyed" /\ ae'[o].st = "failed"
        /\ \A p \in Owners \ {o} : ae'[p] = ae[p]
        /\ clientData' = clientData
    BY <1>1, <1>5 DEF PanicOnNilParams, AEHandler
  <2>2. T!Drop({o})
    BY <1>2, <2>1 DEF T!Drop, AEBusy
  <2>3. {o} \in SUBSET {p \in Owners : ae[p].st \in AEBusy \ {"stored"}}
    BY <2>1 DEF AEBusy
  <2>4. QED
    BY <2>2, <2>3 DEF T!Next
<1>6. CASE AppendStore(o)
  <2>1. /\ ae[o].st = "loaded" /\ ae'[o].st = "stored"
        /\ \A p \in Owners \ {o} : ae'[p] = ae[p]
        /\ overlapped' = overlapped
    BY <1>1, <1>6 DEF AppendStore, AEHandler
  <2>2. overlapped = {} /\ (FreshSeed \/ teRun = 1) /\ fetch[o].harm # "torn"
    <3>1. UNCHANGED teVars
      BY <2>1 DEF EngineStep, EngineAsks, EngineReceivesKeys, EngineAskFails, AskKey,
                  KeysFail
    <3>2. QED
      BY <2>1, <3>1 DEF Calm, teVars
  <2>3. ae[o].xy = o
    BY <2>1, <2>2, OwnResult
  <2>4. ae[o].base = clientData
    BY <1>1, <2>1, <2>2 DEF AppInv, EngineInv, LoadedAlone, Appending
  <2>5. clientData' = Append(clientData, o)
    BY <1>6, <2>2, <2>3, <2>4 DEF AppendStore
  <2>6. T!Count(o)
    BY <1>2, <2>1, <2>5 DEF T!Count, AEBusy
  <2>7. QED
    BY <2>6 DEF T!Next
<1>7. CASE ReplyData(o)
  <2>1. /\ ae[o].st = "stored" /\ ae'[o].st = "replied"
        /\ \A p \in Owners \ {o} : ae'[p] = ae[p]
        /\ UNCHANGED <<clientData, overlapped>>
    BY <1>1, <1>7 DEF ReplyData, AEHandler
  <2>2. overlapped = {} /\ (FreshSeed \/ teRun = 1) /\ fetch[o].harm # "torn"
    <3>1. UNCHANGED teVars
      BY <2>1 DEF EngineStep, EngineAsks, EngineReceivesKeys, EngineAskFails, AskKey,
                  KeysFail
    <3>2. QED
      BY <2>1, <3>1 DEF Calm, teVars
  <2>3. ae[o].xy = o
    BY <2>1, <2>2, OwnResult
  <2>4. o \in Written \ overlapped
    BY <1>1, <2>1, <2>2 DEF AppInv, EngineInv, EngineRuns, Written, AEBusy
  <2>5. Holds(clientData, o)
    BY <1>1, <2>3, <2>4 DEF AppInv, EngineInv, WrittenKept, Kept, Holds
  <2>6. T!Answer(o)
    BY <1>2, <2>1, <2>5 DEF T!Answer, T!Counted, AEBusy, Holds
  <2>7. QED
    BY <2>6 DEF T!Next
<1>8. QED
  BY <1>3, <1>4, <1>5, <1>6, <1>7 DEF EngineStep, AEHandlerStep

\* Every step of the application is one of the tally or none.
LEMMA TallySteps == CallInv /\ [Next]_vars => [Calm' => T!Next]_(T!tallyVars)
<1> SUFFICES ASSUME CallInv, [Next]_vars, Calm'
             PROVE  T!Next \/ UNCHANGED T!tallyVars
  OBVIOUS
<1>1. AppInv /\ ae \in [Owners -> AEHandler]
  BY Records DEF CallInv
<1>2. CASE UNCHANGED <<aeVars, ownerVars>>
  BY <1>2, NothingTallied DEF aeVars, ownerVars
<1>3. CASE AEStop /\ UNCHANGED ownerVars
  BY <1>1, <1>3, FallDrops DEF AEStop
<1>4. CASE AEStart /\ UNCHANGED ownerVars
  <2>1. ~aeUp /\ clientData' = << >> /\ UNCHANGED <<ae, owner>>
    BY <1>4 DEF AEStart, ownerVars
  <2>2. \A o \in Owners : ae[o].st \notin AEBusy
    BY <1>1, <2>1 DEF AppInv, EngineInv, EngineRuns
  <2>3. T!Clear
    BY <2>1, <2>2 DEF T!Clear
  <2>4. QED
    BY <2>3 DEF T!Next
<1>5. QED
  BY <1>2, <1>3, <1>4, OwnersAtEngine, EngineTallies
  DEF Next, ProcessStep, TrustedEntityStep, Finished, vars

\* Until two appends overlap, a key is read from a torn map or an id is drawn
\* again, the application does what
\* the tally does: results are added one at a time, each once and as its owner's
\* own, and 200 is sent only while the result is there, whatever call fails and
\* whatever server falls or is started again.
THEOREM ImplementsTally == Spec => CountsAsTally
<1>1. QED
  BY CallInvariant, TallyStarts, TallySteps, PTL DEF Spec, CountsAsTally

\* A sequence of owners with each at one place only stays one when another
\* owner is appended.
LEMMA AnotherAppended ==
  ASSUME NEW s \in Seq(Results), NEW o \in Results,
         \A i, j \in DOMAIN s : s[i] = s[j] => i = j,
         \A i \in DOMAIN s : s[i] # o
  PROVE  /\ \A i, j \in DOMAIN Append(s, o) : Append(s, o)[i] = Append(s, o)[j] => i = j
         /\ \A i \in DOMAIN Append(s, o) : (\E j \in DOMAIN s : Append(s, o)[i] = s[j])
                                           \/ Append(s, o)[i] = o
<1>1. /\ Len(s) \in Nat /\ DOMAIN s = 1..Len(s) /\ DOMAIN Append(s, o) = 1..(Len(s) + 1)
      /\ \A i \in 1..Len(s) : Append(s, o)[i] = s[i]
      /\ Append(s, o)[Len(s) + 1] = o
  BY AppendProperties
<1> DEFINE t == Append(s, o)
<1> HIDE DEF t
<1>2. \A i \in 1..(Len(s) + 1) : i \in 1..Len(s) \/ i = Len(s) + 1
  BY <1>1
<1>3. QED
  BY <1>1, <1>2

\* The tally keeps its invariant.
LEMMA TallyOnce ==
  ASSUME clientData \in Seq(Results), Nil \notin Owners, T!EachOnce, T!Next
  PROVE  T!EachOnce'
<1> DEFINE offered == {o \in Owners : ae[o].st # "none"}
           pending == {o \in Owners : ae[o].st \in AEBusy \ {"stored"}}
           answered == {o \in Owners : ae[o].st = "replied"}
           heard == {o \in Owners : owner[o].heard}
<1>1. /\ \A i, j \in DOMAIN clientData : clientData[i] = clientData[j] => i = j
      /\ \A i \in DOMAIN clientData : clientData[i] \in offered \ pending
      /\ heard \subseteq answered /\ answered \subseteq offered \ pending
  BY DEF T!EachOnce
<1>2. ASSUME \A i, j \in DOMAIN clientData' : clientData'[i] = clientData'[j] => i = j,
             \A i \in DOMAIN clientData' : clientData'[i] \in offered' \ pending',
             heard' \subseteq answered', answered' \subseteq offered' \ pending'
      PROVE  T!EachOnce'
  BY <1>2 DEF T!EachOnce
<1>3. ASSUME NEW o \in Owners, T!Offer(o)
      PROVE  /\ o \notin offered /\ offered' = offered \cup {o}
             /\ pending' \in {pending, pending \cup {o}}
             /\ clientData' = clientData /\ answered' = answered /\ heard' = heard
  BY <1>3 DEF T!Offer
<1>4. ASSUME NEW o \in Owners, T!Count(o)
      PROVE  /\ o \in pending /\ pending' = pending \ {o} /\ clientData' = Append(clientData, o)
             /\ offered' = offered /\ answered' = answered /\ heard' = heard
  BY <1>4 DEF T!Count
<1>5. ASSUME NEW o \in Owners, T!Answer(o)
      PROVE  /\ o \in offered \ pending /\ answered' = answered \cup {o}
             /\ clientData' = clientData /\ offered' = offered /\ pending' = pending /\ heard' = heard
  BY <1>5 DEF T!Answer
<1>6. ASSUME NEW o \in Owners, T!Hear(o)
      PROVE  /\ o \in answered /\ heard' = heard \cup {o}
             /\ clientData' = clientData /\ offered' = offered /\ pending' = pending
             /\ answered' = answered
  BY <1>6 DEF T!Hear
<1>7. ASSUME NEW offers, T!Drop(offers)
      PROVE  /\ pending' = pending \ offers
             /\ clientData' = clientData /\ offered' = offered /\ answered' = answered
             /\ heard' = heard
  BY <1>7 DEF T!Drop
<1>8. ASSUME T!Clear
      PROVE  /\ clientData' = << >> /\ offered' = offered /\ pending' = pending
             /\ answered' = answered /\ heard' = heard
  BY <1>8 DEF T!Clear
<1>9. pending \subseteq offered
  BY DEF AEBusy
<1>10. \/ \E o \in Owners : T!Offer(o) \/ T!Count(o) \/ T!Answer(o) \/ T!Hear(o)
       \/ \E offers : T!Drop(offers)
       \/ T!Clear
  BY DEF T!Next
<1> HIDE DEF offered, pending, answered, heard
<1>11. ASSUME NEW o \in Owners, T!Offer(o) \/ T!Answer(o) \/ T!Hear(o)
       PROVE  T!EachOnce'
  BY <1>1, <1>2, <1>3, <1>5, <1>6, <1>9, <1>11
<1>12. ASSUME NEW o \in Owners, T!Count(o)
       PROVE  T!EachOnce'
  <2>1. o \in Results /\ \A i \in DOMAIN clientData : clientData[i] # o
    BY <1>1, <1>4, <1>12 DEF Results
  <2>2. /\ \A i, j \in DOMAIN clientData' : clientData'[i] = clientData'[j] => i = j
        /\ \A i \in DOMAIN clientData' : (\E j \in DOMAIN clientData : clientData'[i] = clientData[j])
                                          \/ clientData'[i] = o
    BY <1>1, <1>4, <1>12, <2>1, AnotherAppended
  <2>3. QED
    BY <1>1, <1>2, <1>4, <1>9, <1>12, <2>2
<1>13. ASSUME NEW offers, T!Drop(offers)
       PROVE  T!EachOnce'
  BY <1>1, <1>2, <1>7, <1>13
<1>14. CASE T!Clear
  BY <1>1, <1>2, <1>8, <1>14
<1>15. QED
  BY <1>10, <1>11, <1>12, <1>13, <1>14

\* An answer from a torn map was given, and stays what it is.
LEMMA TornStays ==
  ASSUME CallInv, [Next]_vars, NEW o \in Owners, fetch[o].harm = "torn"
  PROVE  fetch'[o].harm = "torn"
<1>1. fetch \in [Owners -> FetchHandler] /\ fetch[o].st = "replied"
  BY Records DEF CallInv, Chain, FetchAnswers
<1>2. ASSUME NEW p \in Owners, EngineAsks(p) \/ ReplyFetch(p)
      PROVE  fetch'[o] = fetch[o]
  BY <1>1, <1>2 DEF EngineAsks, AcceptFetch, RefuseFetch, ReplyFetch
<1>3. CASE Down
  BY <1>1, <1>3 DEF Down, FetchBusy
<1>4. CASE UNCHANGED fetch
  BY <1>4
<1>5. ASSUME NEW p \in Owners, OwnerStep(p)
      PROVE  UNCHANGED fetch
  BY <1>5 DEF OwnerStep, OwnerGets, AcceptGen, RefuseGen, OwnerReceivesKeys, OwnerGetFails,
              OwnerEncrypts, OwnerPosts, OwnerHears, OwnerPostFails, teVars
<1>6. ASSUME NEW p \in Owners, TrustedEntityStep(p), ~ReplyFetch(p)
      PROVE  UNCHANGED fetch
  BY <1>6 DEF TrustedEntityStep, TEHandlerStep, DeriveKeys, BeginStore, EndStore, ReplyGen
<1>7. ASSUME NEW p \in Owners, EngineStep(p), ~EngineAsks(p)
      PROVE  UNCHANGED fetch
  BY <1>7 DEF EngineStep, EngineReceivesKeys, EngineAskFails, teVars
<1>8. ASSUME ProcessStep, ~Down
      PROVE  UNCHANGED fetch
  BY <1>8 DEF ProcessStep, TEProcessStep, MapFault, TEStop, TEStart, teVars
<1>9. QED
  BY <1>2, <1>3, <1>4, <1>5, <1>6, <1>7, <1>8 DEF Next, vars, teVars

\* What excuses the application is never undone.
LEMMA CalmBefore == CallInv /\ [Next]_vars /\ Calm' => Calm
<1> SUFFICES ASSUME CallInv, [Next]_vars, Calm'
             PROVE  Calm
  OBVIOUS
<1>1. overlapped \subseteq overlapped'
  BY DEF Next, OwnerStep, OwnerGets, OwnerReceivesKeys, OwnerGetFails, OwnerEncrypts, OwnerPosts,
         OwnerHears, OwnerPostFails, AcceptData, RefuseData, EngineStep, EngineAsks, AskKey,
         EngineReceivesKeys, KeysArrive, EngineAskFails, KeysFail, AEDown, AEHandlerStep,
         PanicOnNilParams, Decrypt, AppendLoad, AppendStore, ReplyData, TrustedEntityStep,
         ProcessStep, AEStop, AEStart, Finished, vars, aeVars
<1>2. teRun \in Nat /\ teRun >= 1 /\ teRun' \in Nat /\ teRun <= teRun'
  BY Records, AlwaysGoesOn DEF CallInv, GoesOn
<1>3. ASSUME NEW o \in Owners, fetch[o].harm = "torn"
      PROVE  fetch'[o].harm = "torn"
  BY <1>3, TornStays
<1>4. QED
  BY <1>1, <1>2, <1>3 DEF Calm

\* Until two appends overlap, a key is read from a torn map or an id is drawn
\* again, no owner is counted twice in
\* a run of the engine, none that was answered had offered nothing, and no offer
\* that is being worked on is counted yet.
THEOREM CountedOnce == Spec => [](Calm => T!EachOnce)
<1>1. Init => (Calm => T!EachOnce)
  <2>1. SUFFICES ASSUME Init PROVE T!EachOnce
    OBVIOUS
  <2>2. QED
    BY <2>1, TallyStarts DEF T!Init, T!EachOnce
<1>2. CallInv /\ (Calm => T!EachOnce) /\ [Next]_vars => (Calm => T!EachOnce)'
  <2>1. SUFFICES ASSUME CallInv, Calm => T!EachOnce, [Next]_vars, Calm'
                 PROVE  T!EachOnce'
    OBVIOUS
  <2>2. T!EachOnce /\ clientData \in Seq(Results)
    BY <2>1, CalmBefore DEF CallInv, AppInv, EngineInv, AETypeOK
  <2>3. T!Next \/ UNCHANGED T!tallyVars
    BY <2>1, TallySteps
  <2>4. CASE UNCHANGED T!tallyVars
    BY <2>2, <2>4 DEF T!EachOnce, T!tallyVars
  <2>5. QED
    BY <2>2, <2>3, <2>4, TallyOnce, OwnersAssumption
<1>3. QED
  BY <1>1, <1>2, CallInvariant, PTL DEF Spec

=============================================================================
