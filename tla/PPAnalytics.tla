----------------------------- MODULE PPAnalytics -----------------------------
(***************************************************************************)
(* The whole application: data owners, the trusted entity and the          *)
(* analytics engine, joined by their HTTP calls.  An action below takes    *)
(* one step of one party, or of the two ends of one call: the sending of a *)
(* request and its arrival, the reply of a handler and its reception.      *)
(*                                                                         *)
(* Handlers outlive their callers: a C++ owner gives up after 10 seconds   *)
(* and a stopped engine leaves its key request behind, while the handler   *)
(* at the other end goes on.                                               *)
(***************************************************************************)
EXTENDS TrustedEntity, AnalyticsEngine, DataOwner

vars == <<teVars, aeVars, ownerVars>>

Init == TEInit /\ AEInit /\ OwnerInit

-----------------------------------------------------------------------------
(* The owner calls the trusted entity *)

OwnerGets(o) ==
  /\ SendGet(o)
  /\ AcceptGen(o) \/ RefuseGen(o)
  /\ UNCHANGED aeVars

OwnerReceivesKeys(o) ==
  /\ gen[o].st = "replied"
  /\ ReplyArrives(o, gen[o].id, gen[o].key)
  /\ UNCHANGED <<teVars, aeVars>>

\* For the C++ client the call may fail at any time: it has a time limit.
OwnerGetFails(o) ==
  /\ CppGetFails(o) \/ (gen[o].st = "failed" /\ GoGetFails(o))
  /\ UNCHANGED <<teVars, aeVars>>

OwnerEncrypts(o) ==
  /\ Encrypt(o) \/ AssertFails(o)
  /\ UNCHANGED <<teVars, aeVars>>

-----------------------------------------------------------------------------
(* The owner calls the analytics engine *)

OwnerPosts(o) ==
  /\ SendPost(o)
  /\ AcceptData(o, owner[o].id, owner[o].ctKey) \/ RefuseData(o)
  /\ UNCHANGED teVars

OwnerHears(o) ==
  /\ ae[o].st = "replied"
  /\ PostAnswered(o)
  /\ UNCHANGED <<teVars, aeVars>>

OwnerPostFails(o) ==
  /\ o \in CppOwners \/ ae[o].st = "failed"
  /\ PostFails(o)
  /\ UNCHANGED <<teVars, aeVars>>

-----------------------------------------------------------------------------
(* The analytics engine calls the trusted entity *)

EngineAsks(o) ==
  /\ AskKey(o)
  /\ AcceptFetch(o, ae[o].id) \/ RefuseFetch(o)
  /\ UNCHANGED ownerVars

EngineReceivesKeys(o) ==
  /\ fetch[o].st = "replied"
  /\ KeysArrive(o, fetch[o].key)
  /\ UNCHANGED <<teVars, ownerVars>>

EngineAskFails(o) ==
  /\ fetch[o].st = "failed"
  /\ KeysFail(o)
  /\ UNCHANGED <<teVars, ownerVars>>

-----------------------------------------------------------------------------

OwnerStep(o) ==
  \/ OwnerGets(o)
  \/ OwnerReceivesKeys(o)
  \/ OwnerGetFails(o)
  \/ OwnerEncrypts(o)
  \/ OwnerPosts(o)
  \/ OwnerHears(o)
  \/ OwnerPostFails(o)

TrustedEntityStep(o) == TEHandlerStep(o) /\ UNCHANGED <<aeVars, ownerVars>>

EngineStep(o) ==
  \/ EngineAsks(o)
  \/ EngineReceivesKeys(o)
  \/ EngineAskFails(o)
  \/ AEHandlerStep(o) /\ UNCHANGED <<teVars, ownerVars>>

ProcessStep ==
  \/ TEProcessStep /\ UNCHANGED <<aeVars, ownerVars>>
  \/ (AEStop \/ AEStart) /\ UNCHANGED <<teVars, ownerVars>>

\* Every program has exited and no handler is left.
Finished ==
  \A o \in Owners : /\ owner[o].pc = "exit"
                    /\ gen[o].st \notin GenBusy
                    /\ fetch[o].st \notin FetchBusy
                    /\ ae[o].st \notin AEBusy

Next ==
  \/ \E o \in Owners : OwnerStep(o) \/ TrustedEntityStep(o) \/ EngineStep(o)
  \/ ProcessStep
  \/ Finished /\ UNCHANGED vars

Spec == Init /\ [][Next]_vars

\* The operating system runs the programs, and the Go runtime every goroutine
\* that is not blocked.  Nothing makes anyone start or stop a process, and
\* nothing makes the Go runtime notice a race on keyList.
Fairness ==
  \A o \in Owners : /\ WF_vars(OwnerStep(o))
                    /\ WF_vars(TrustedEntityStep(o))
                    /\ WF_vars(EngineStep(o))

FairSpec == Spec /\ Fairness

-----------------------------------------------------------------------------
(* Properties *)

\* The values the variables of the three parties range over.
TypeOK == TETypeOK /\ AETypeOK /\ OwnerTypeOK

\* A result is nil only if the trusted entity was restarted and drew ids it
\* had given out before, or two assignments to keyList overlapped before it
\* answered: otherwise the FE key always fits the ciphertext.
NilNeedsReuseOrRace ==
  \A o \in Owners :
    (ae[o].st \in {"decrypted", "loaded", "stored"} /\ ae[o].xy = Nil)
      => (~FreshSeed /\ teRun > 1) \/ fetch[o].harm = "torn"

\* The engine is given no key for an id only when the entry was lost: the trusted
\* entity was restarted after it issued the id, or an assignment to keyList
\* overlapped the read of this id, or two assignments overlapped before it.
UnknownIdNeedsLostEntry ==
  \A o \in Owners :
    (ae[o].st = "keyed" /\ ae[o].key = NoKey)
      => gen[o].run < teRun \/ fetch[o].harm # "none"

\* Whatever reaches the engine was encrypted under the public key that the
\* trusted entity issued with the ClientID in the request, even though the
\* C++ client goes on after a failed GET.
PostedUnderIssuedKey ==
  \A o \in Owners :
    ae[o].st \notin {"none", "failed"} =>
      /\ ae[o].ctKey # NoKey
      /\ ae[o].ctKey = gen[o].key /\ ae[o].id = gen[o].id

\* An owner that heard 200 finds its inner product among the engine's results,
\* unless the engine or the trusted entity was restarted meanwhile, its append
\* overlapped another, or two assignments to keyList overlapped before its key
\* was read.
HeardIsCounted ==
  \A o \in Owners \ overlapped :
    (owner[o].heard /\ ae[o].run = aeRun /\ teRun = 1 /\ fetch[o].harm # "torn")
      => Holds(clientData, o)

\* log.Fatalln on a failed key request passes an outage of the trusted entity
\* on to the engine; nothing else in the program stops the engine.
EngineFallsWithTrustedEntity ==
  (~AEMayStop /\ (~aeUp \/ aeRun > 1)) => (~teUp \/ teRun > 1)

\* The application as the owners see it (Tally): an append is one step, at the
\* store, and a post is dropped when its handler ends without a result.
T == INSTANCE Tally WITH
       offered  <- {o \in Owners : ae[o].st # "none"},
       pending  <- {o \in Owners : ae[o].st \in AEBusy \ {"stored"}},
       results  <- clientData,
       answered <- {o \in Owners : ae[o].st = "replied"},
       heard    <- {o \in Owners : owner[o].heard}

\* No append to clientData overlapped another, no key was read after assignments
\* to keyList had overlapped, and no id was drawn again.
Calm ==
  /\ overlapped = {}
  /\ \A o \in Owners : fetch[o].harm # "torn"
  /\ FreshSeed \/ teRun = 1

\* Until that happens, the application is a tally,
\* through any failure of calls, fall or restart of either server.
CountsAsTally == T!Init /\ [][Calm' => T!Next]_(T!tallyVars)

\* Nobody hangs, through any outage of either server: every program exits, and
\* every request the engine took up is answered or its connection is closed,
\* also when its client has gone and when the trusted entity dies on the way.
EverybodySettles ==
  \A o \in Owners : /\ <>(owner[o].pc = "exit")
                    /\ [](ae[o].st \in AEBusy => <>(ae[o].st \in {"replied", "failed"}))

=============================================================================
