---------------------------- MODULE TrustedEntity ----------------------------
(***************************************************************************)
(* The trusted entity (trustedentity/main.go): an HTTP server that hands   *)
(* out public keys under a ClientID (GET /generateKeys) and returns the FE *)
(* key stored under a ClientID (POST /fetchKey).  net/http runs each       *)
(* handler in a goroutine of its own, and all of them share the map        *)
(* keyList without a lock.  An assignment that overlaps another access has *)
(* no defined outcome: the Go runtime may notice it and stop the process   *)
(* (MapFault), or it may not, and then entries are lost or mixed           *)
(* (BeginStore and Readable).                                              *)
(*                                                                         *)
(* A handler is a record in gen (generateKeys) or fetch (provideFEKey),    *)
(* one per data owner: an owner's client makes one generateKeys call, and  *)
(* the analytics engine makes one fetchKey call for the data it posts.     *)
(***************************************************************************)
EXTENDS Parties, FiniteSets

CONSTANTS
  FreshSeed,    \* does math/rand start from a new seed in every process?
  TEMayStop,    \* may the process be stopped from outside?
  MaxTERuns,    \* bound: how often the process is started
  MaxFetches    \* bound: fetchKey requests, where TESpec makes them

ASSUME TEAssumption ==
  /\ FreshSeed \in BOOLEAN
  /\ TEMayStop \in BOOLEAN
  /\ MaxTERuns \in Nat \ {0}
  /\ MaxFetches \in Nat

VARIABLES
  teUp,         \* is the process running?
  teRun,        \* number of the current (or last) run of the process
  draws,        \* rand.Int calls of this run
  minted,       \* GenerateMasterKeys calls of all runs
  keyList,      \* ClientID -> key, the map of this run; empty when it is torn
  torn,         \* did two assignments to keyList overlap in this run?
  gen,          \* the generateKeys handlers
  fetch         \* the provideFEKey handlers

teVars == <<teUp, teRun, draws, minted, keyList, torn, gen, fetch>>

GenBusy   == {"accepted", "derived", "storing", "stored"}
GenEnded  == {"none", "replied", "failed"}
FetchBusy == {"accepted"}
FetchEnded == {"none", "replied", "failed"}

GenHandler   == [st : GenBusy \cup GenEnded, run : Nat, id : Nat, key : Nat]
\* What races on keyList did to a read of it: nothing, it found no entry while
\* an assignment was under way, or it came after two assignments had overlapped.
Harms == {"none", "missed", "torn"}

FetchHandler == [st : FetchBusy \cup FetchEnded, id : Nat, key : Nat, harm : Harms]

NoGen   == [st |-> "none", run |-> 0, id |-> 0, key |-> NoKey]
NoFetch == [st |-> "none", id |-> 0, key |-> NoKey, harm |-> "none"]

EmptyKeyList == [id \in {} |-> NoKey]

\* keyList[id]: the zero value when the id is missing.
Lookup(id) == IF id \in DOMAIN keyList THEN keyList[id] ELSE NoKey

\* Mutant: stored under the wrong id.
PutNextId(id, key) ==
  [i \in DOMAIN keyList \cup {id + 1} |-> IF i = id + 1 THEN key ELSE keyList[i]]

\* keyList[id] = key
Put(id, key) ==
  [i \in DOMAIN keyList \cup {id} |-> IF i = id THEN key ELSE keyList[i]]

\* Mutants: ids from an unseeded source, from 0, or the same one always.
RandIntUnseeded == draws + 1
RandIntFromZero == draws
RandIntConstant == 1

\* rand.Int(): without a seed of its own, every process draws the same
\* sequence of ids; with one, the ids of all processes are different.
RandInt == IF FreshSeed THEN minted + 1 ELSE draws + 1

\* The generateKeys handlers inside an assignment to keyList.
Storing == {o \in Owners : gen[o].st = "storing"}

\* The keys that assignments of this run wrote or are writing.
Assigned == {gen[o].key : o \in {p \in Owners : /\ gen[p].run = teRun
                                              /\ gen[p].st \in {"storing", "stored", "replied"}}}

\* What a read of keyList[id] may give.  Beside an assignment it may miss any
\* entry (the map may be growing) and may see the new one already.  Where two
\* assignments overlapped, they may have taken one slot, or one of them an array
\* the other had left: from then on any entry may be lost or hold the key of
\* another.  A value of which only a part was copied counts as no key.
Readable(id) ==
  IF torn THEN {NoKey} \cup Assigned
  ELSE {Lookup(id)} \cup
         IF Storing = {} THEN {}
         ELSE {NoKey} \cup {gen[p].key : p \in {q \in Storing : gen[q].id = id}}

Harm(key) ==
  IF torn THEN "torn"
  ELSE IF Storing # {} /\ key = NoKey THEN "missed" ELSE "none"

-----------------------------------------------------------------------------
(* generateKeys *)

AcceptGen(o) ==
  /\ teUp
  /\ gen[o].st = "none"
  /\ gen' = [gen EXCEPT ![o] = [@ EXCEPT !.st = "accepted", !.run = teRun]]
  /\ UNCHANGED <<teUp, teRun, draws, minted, keyList, torn, fetch>>

\* The connection of an owner is refused while the process is down.
RefuseGen(o) ==
  /\ ~teUp
  /\ gen[o].st = "none"
  /\ gen' = [gen EXCEPT ![o].st = "failed"]
  /\ UNCHANGED <<teUp, teRun, draws, minted, keyList, torn, fetch>>

\* Draw the ClientID, generate the master keys and derive the FE key for y.
DeriveKeys(o) ==
  /\ gen[o].st = "accepted"
  /\ draws' = draws + 1
  /\ minted' = minted + 1
  /\ gen' = [gen EXCEPT ![o] =
               [@ EXCEPT !.st = "derived", !.id = RandInt, !.key = minted + 1]]
  /\ UNCHANGED <<teUp, teRun, keyList, torn, fetch>>

\* The assignment keyList[key.ClientID] = key is not atomic for the other
\* goroutines: it begins here and ends in EndStore.  One that begins inside
\* another leaves a map whose entries nobody can tell (Readable), for as long
\* as the process runs; keyList does not follow them.
BeginStore(o) ==
  /\ gen[o].st = "derived"
  /\ gen' = [gen EXCEPT ![o].st = "storing"]
  /\ IF Storing = {}
       THEN UNCHANGED <<keyList, torn>>
       ELSE torn' = TRUE /\ keyList' = EmptyKeyList
  /\ UNCHANGED <<teUp, teRun, draws, minted, fetch>>

EndStore(o) ==
  /\ gen[o].st = "storing"
  /\ keyList' = IF torn THEN keyList ELSE Put(gen[o].id, gen[o].key)
  /\ gen' = [gen EXCEPT ![o].st = "stored"]
  /\ UNCHANGED <<teUp, teRun, draws, minted, torn, fetch>>

\* Mutant: the reply leaves before the key is stored.
ReplyGenFirst(o) ==
  /\ gen[o].st = "derived"
  /\ gen' = [gen EXCEPT ![o].st = "replied"]
  /\ UNCHANGED <<teUp, teRun, draws, minted, keyList, torn, fetch>>

ReplyGen(o) ==
  /\ gen[o].st = "stored"
  /\ gen' = [gen EXCEPT ![o].st = "replied"]
  /\ UNCHANGED <<teUp, teRun, draws, minted, keyList, torn, fetch>>

-----------------------------------------------------------------------------
(* provideFEKey *)

AcceptFetch(o, id) ==
  /\ teUp
  /\ fetch[o].st = "none"
  /\ fetch' = [fetch EXCEPT ![o] = [@ EXCEPT !.st = "accepted", !.id = id]]
  /\ UNCHANGED <<teUp, teRun, draws, minted, keyList, torn, gen>>

RefuseFetch(o) ==
  /\ ~teUp
  /\ fetch[o].st = "none"
  /\ fetch' = [fetch EXCEPT ![o].st = "failed"]
  /\ UNCHANGED <<teUp, teRun, draws, minted, keyList, torn, gen>>

\* Mutant: an unknown id is waited for.
ReplyFetchWhenKnown(o) ==
  /\ fetch[o].st = "accepted"
  /\ Lookup(fetch[o].id) # NoKey
  /\ fetch' = [fetch EXCEPT ![o] =
                 [@ EXCEPT !.st = "replied", !.key = Lookup(fetch[o].id)]]
  /\ UNCHANGED <<teUp, teRun, draws, minted, keyList, torn, gen>>

\* Look the key up and send it, nil fields and all when the id is missing.
ReplyFetch(o) ==
  /\ fetch[o].st = "accepted"
  /\ \E key \in Readable(fetch[o].id) :
       fetch' = [fetch EXCEPT ![o] =
                   [@ EXCEPT !.st = "replied", !.key = key, !.harm = Harm(key)]]
  /\ UNCHANGED <<teUp, teRun, draws, minted, keyList, torn, gen>>

-----------------------------------------------------------------------------
(* The process *)

\* The process ends: every open connection breaks.
Down ==
  /\ teUp
  /\ teUp' = FALSE
  /\ gen' = [o \in Owners |->
               IF gen[o].st \in GenBusy THEN [gen[o] EXCEPT !.st = "failed"]
                                        ELSE gen[o]]
  /\ fetch' = [o \in Owners |->
                 IF fetch[o].st \in FetchBusy THEN [fetch[o] EXCEPT !.st = "failed"]
                                              ELSE fetch[o]]
  /\ UNCHANGED <<teRun, draws, minted, keyList, torn>>

\* The Go runtime stops the whole process when it notices, at an access to
\* keyList or at the end of an assignment, that another assignment is or was
\* under way; so it may when an access finds the map damaged.
MapFault ==
  /\ \E o \in Owners :
       \/ Storing # {} /\ (gen[o].st = "derived" \/ fetch[o].st = "accepted")
       \/ torn /\ (gen[o].st \in {"derived", "storing"} \/ fetch[o].st = "accepted")
  /\ Down

TEStop == TEMayStop /\ Down

\* go run main.go: an empty keyList and a new random source.
TEStart ==
  /\ ~teUp
  /\ teRun < MaxTERuns
  /\ teUp' = TRUE
  /\ teRun' = teRun + 1
  /\ draws' = 0
  /\ keyList' = EmptyKeyList
  /\ torn' = FALSE
  /\ UNCHANGED <<minted, gen, fetch>>

TEInit ==
  /\ teUp = TRUE
  /\ teRun = 1
  /\ draws = 0
  /\ minted = 0
  /\ keyList = EmptyKeyList
  /\ torn = FALSE
  /\ gen = [o \in Owners |-> NoGen]
  /\ fetch = [o \in Owners |-> NoFetch]

\* The steps of the goroutines that serve owner o.
TEHandlerStep(o) ==
  \/ DeriveKeys(o)
  \/ BeginStore(o)
  \/ EndStore(o)
  \/ ReplyGen(o)
  \/ ReplyFetch(o)

TEProcessStep == MapFault \/ TEStop \/ TEStart

\* Arrivals: any owner, and a fetch of any id, issued or not.
TEArrival(o) ==
  \/ AcceptGen(o)
  \/ RefuseGen(o)
  \/ /\ Cardinality({p \in Owners : fetch[p].st # "none"}) < MaxFetches
     /\ \/ \E id \in 0..(minted + 1) : AcceptFetch(o, id)
        \/ RefuseFetch(o)

\* Every handler has ended: no further step of the server is owed.
TEIdle ==
  /\ \A o \in Owners : gen[o].st \in GenEnded \ {"none"} /\ fetch[o].st \in FetchEnded
  /\ UNCHANGED teVars

TENext ==
  \/ \E o \in Owners : TEArrival(o) \/ TEHandlerStep(o)
  \/ TEProcessStep
  \/ TEIdle

TESpec == TEInit /\ [][TENext]_teVars

-----------------------------------------------------------------------------
(* Properties *)

\* The values the variables range over.
TETypeOK ==
  /\ teUp \in BOOLEAN
  /\ teRun \in 1..MaxTERuns
  /\ draws \in Nat
  /\ minted \in Nat
  /\ draws <= minted
  /\ DOMAIN keyList \subseteq 1..minted
  /\ \A id \in DOMAIN keyList : keyList[id] \in 1..minted
  /\ torn \in BOOLEAN
  /\ gen \in [Owners -> GenHandler]
  /\ fetch \in [Owners -> FetchHandler]

\* An owner that was told a ClientID can rely on it for as long as the run
\* lasts that issued the id, unless two assignments to keyList overlapped in
\* it: the id resolves to the key whose public half the owner was given
\* (generateKeys stores before it replies, and no later call of the same run
\* draws the id again).
ReplyIsStored ==
  \A o \in Owners :
    (gen[o].st = "replied" /\ gen[o].run = teRun /\ ~torn)
      => Lookup(gen[o].id) = gen[o].key

\* Across restarts a ClientID never resolves to the key of another owner: the
\* server has its key or none.  It needs ids that no two runs share, and no
\* assignments to keyList that overlapped in this run.
NoForeignKey ==
  \A o \in Owners :
    (gen[o].st = "replied" /\ ~torn)
      => Lookup(gen[o].id) \in {gen[o].key, NoKey}

\* What fetchKey returned for an id is a key that some generateKeys call
\* derived together with that very id, whatever was being stored at the time;
\* only two assignments that overlapped before it can mix keys up.
FetchedWasIssued ==
  \A o \in Owners :
    (fetch[o].st = "replied" /\ fetch[o].key # NoKey /\ fetch[o].harm # "torn")
      => \E p \in Owners : gen[p].id = fetch[o].id /\ gen[p].key = fetch[o].key

=============================================================================
