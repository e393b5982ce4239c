--------------------------- MODULE AnalyticsEngine ---------------------------
(***************************************************************************)
(* The analytics engine (analyticsengine/main.go): an HTTP server that     *)
(* takes the ciphertext a data owner posts, fetches the FE key for the     *)
(* ClientID in it from the trusted entity, decrypts, and appends the inner *)
(* product to the slice clientData.  Handlers run as goroutines and share  *)
(* clientData without a lock.                                              *)
(***************************************************************************)
EXTENDS Parties, Sequences

CONSTANTS
  AEMayStop,    \* may the process be stopped from outside?
  MaxAERuns     \* bound: how often the process is started

ASSUME AEAssumption ==
  /\ AEMayStop \in BOOLEAN
  /\ MaxAERuns \in Nat \ {0}

VARIABLES
  aeUp,         \* is the process running?
  aeRun,        \* number of the current (or last) run of the process
  clientData,   \* the results decrypted in this run
  overlapped,   \* history: handlers whose append overlapped another's
  ae            \* the processData handlers, one per owner

aeVars == <<aeUp, aeRun, clientData, overlapped, ae>>

Results == Owners \cup {Nil}

AEBusy  == {"decoded", "asking", "keyed", "decrypted", "loaded", "stored"}
AEEnded == {"none", "replied", "failed"}

AEHandler == [st : AEBusy \cup AEEnded, run : Nat, id : Nat, ctKey : Nat,
              key : Nat, xy : Results, base : Seq(Results)]

NoHandler == [st |-> "none", run |-> 0, id |-> 0, ctKey |-> NoKey,
              key |-> NoKey, xy |-> Nil, base |-> << >>]

\* The handlers between their load of clientData and their store to it.
Appending == {o \in Owners : ae[o].st = "loaded"}

Holds(s, x) == \E i \in DOMAIN s : s[i] = x

-----------------------------------------------------------------------------
(* processData *)

\* Decode the request and marshal the key request.
AcceptData(o, id, ctKey) ==
  /\ aeUp
  /\ ae[o].st = "none"
  /\ ae' = [ae EXCEPT ![o] = [@ EXCEPT !.st = "decoded", !.run = aeRun,
                                       !.id = id, !.ctKey = ctKey]]
  /\ UNCHANGED <<aeUp, aeRun, clientData, overlapped>>

RefuseData(o) ==
  /\ ~aeUp
  /\ ae[o].st = "none"
  /\ ae' = [ae EXCEPT ![o].st = "failed"]
  /\ UNCHANGED <<aeUp, aeRun, clientData, overlapped>>

\* http.Post to /fetchKey; http.DefaultClient has no timeout.
AskKey(o) ==
  /\ ae[o].st = "decoded"
  /\ ae' = [ae EXCEPT ![o].st = "asking"]
  /\ UNCHANGED <<aeUp, aeRun, clientData, overlapped>>

KeysArrive(o, key) ==
  /\ ae[o].st = "asking"
  /\ ae' = [ae EXCEPT ![o] = [@ EXCEPT !.st = "keyed", !.key = key]]
  /\ UNCHANGED <<aeUp, aeRun, clientData, overlapped>>

\* The process ends: clientData is gone, every open connection breaks.
AEDown ==
  /\ aeUp
  /\ aeUp' = FALSE
  /\ ae' = [o \in Owners |->
              IF ae[o].st \in AEBusy THEN [ae[o] EXCEPT !.st = "failed"] ELSE ae[o]]
  /\ UNCHANGED <<aeRun, clientData, overlapped>>

\* Mutant: http.Post failed, and the handler returns.
KeysFailReplies(o) ==
  /\ ae[o].st = "asking"
  /\ ae' = [ae EXCEPT ![o].st = "replied"]
  /\ UNCHANGED <<aeUp, aeRun, clientData, overlapped>>

\* http.Post failed: log.Fatalln ends the process, with all its handlers.
KeysFail(o) ==
  /\ ae[o].st = "asking"
  /\ AEDown

\* keys.Params is nil when the trusted entity does not know the id: printing
\* keys.Params.Bound panics, and net/http closes this one connection.
PanicOnNilParams(o) ==
  /\ ae[o].st = "keyed"
  /\ ae[o].key = NoKey
  /\ ae' = [ae EXCEPT ![o].st = "failed"]
  /\ UNCHANGED <<aeUp, aeRun, clientData, overlapped>>

\* The error of Decrypt is dropped: xy is nil when the keys do not match.
Decrypt(o) ==
  /\ ae[o].st = "keyed"
  /\ ae[o].key # NoKey
  /\ ae' = [ae EXCEPT ![o] =
              [@ EXCEPT !.st = "decrypted",
                        !.xy = InnerProduct(o, ae[o].ctKey, ae[o].key)]]
  /\ UNCHANGED <<aeUp, aeRun, clientData, overlapped>>

\* Mutant: clientData is a map, and a second writer stops the process.
AppendLoadMap(o) ==
  /\ ae[o].st = "decrypted"
  /\ IF Appending # {}
       THEN AEDown
       ELSE /\ ae' = [ae EXCEPT ![o] = [@ EXCEPT !.st = "loaded", !.base = clientData]]
            /\ UNCHANGED <<aeUp, aeRun, clientData, overlapped>>

\* clientData = append(clientData, xy) reads the slice ...
AppendLoad(o) ==
  /\ ae[o].st = "decrypted"
  /\ ae' = [ae EXCEPT ![o] = [@ EXCEPT !.st = "loaded", !.base = clientData]]
  /\ overlapped' = IF Appending = {} THEN overlapped
                                     ELSE overlapped \cup Appending \cup {o}
  /\ UNCHANGED <<aeUp, aeRun, clientData>>

\* ... and writes it back, over whatever was written in between.  Pointer, length
\* and element are separate stores and the handlers may share one backing
\* array, so that after a race the length is either handler's and a slot
\* behind the elements that were loaded has any racing result, or none.
RacedResults == {Nil} \cup {ae[p].xy : p \in overlapped}

Raced(o) ==
  LET base == ae[o].base
      Merge(n) == {s \in [1..n -> RacedResults \cup {base[i] : i \in DOMAIN base}] :
                     \A i \in DOMAIN base : i <= n => s[i] = base[i]}
  IN  Merge(Len(base) + 1) \cup Merge(Len(clientData))

\* Mutant: append to a new slice.
AppendStoreFresh(o) ==
  /\ ae[o].st = "loaded"
  /\ clientData' = <<ae[o].xy>>
  /\ ae' = [ae EXCEPT ![o].st = "stored"]
  /\ UNCHANGED <<aeUp, aeRun, overlapped>>

AppendStore(o) ==
  /\ ae[o].st = "loaded"
  /\ clientData' \in IF o \in overlapped THEN Raced(o)
                                         ELSE {Append(ae[o].base, ae[o].xy)}
  /\ ae' = [ae EXCEPT ![o].st = "stored"]
  /\ UNCHANGED <<aeUp, aeRun, overlapped>>

\* Mutant: the reply leaves before the result is stored.
ReplyDataFirst(o) ==
  /\ ae[o].st = "decrypted"
  /\ ae' = [ae EXCEPT ![o].st = "replied"]
  /\ UNCHANGED <<aeUp, aeRun, clientData, overlapped>>

\* The handler returns: net/http sends 200 with an empty body.
ReplyData(o) ==
  /\ ae[o].st = "stored"
  /\ ae' = [ae EXCEPT ![o].st = "replied"]
  /\ UNCHANGED <<aeUp, aeRun, clientData, overlapped>>

-----------------------------------------------------------------------------
(* The process *)

AEStop == AEMayStop /\ AEDown

AEStart ==
  /\ ~aeUp
  /\ aeRun < MaxAERuns
  /\ aeUp' = TRUE
  /\ aeRun' = aeRun + 1
  /\ clientData' = << >>
  /\ UNCHANGED <<overlapped, ae>>

AEInit ==
  /\ aeUp = TRUE
  /\ aeRun = 1
  /\ clientData = << >>
  /\ overlapped = {}
  /\ ae = [o \in Owners |-> NoHandler]

\* The steps of the goroutine that serves owner o, the calls to the trusted
\* entity apart.
AEHandlerStep(o) ==
  \/ PanicOnNilParams(o)
  \/ Decrypt(o)
  \/ AppendLoad(o)
  \/ AppendStore(o)
  \/ ReplyData(o)

-----------------------------------------------------------------------------
(* Properties *)

\* The values the variables range over.
AETypeOK ==
  /\ aeUp \in BOOLEAN
  /\ aeRun \in 1..MaxAERuns
  /\ clientData \in Seq(Results)
  /\ overlapped \subseteq Owners
  /\ ae \in [Owners -> AEHandler]

\* The handlers that wrote their result in the current run.
Written == {o \in Owners : ae[o].run = aeRun /\ ae[o].st \in {"stored", "replied"}}

\* A result that was written in the current run is missing from clientData
\* only if its append overlapped that of another handler: without the data
\* race on clientData no result is ever lost.
LossNeedsOverlap ==
  \A o \in Written \ overlapped : Holds(clientData, ae[o].xy)

=============================================================================
