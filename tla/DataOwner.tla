------------------------------ MODULE DataOwner ------------------------------
(***************************************************************************)
(* The data owners: one run each of the C++ client (client/src/main.cpp    *)
(* and EncryptorClient.cpp) or of the Go client (client/src/main.go).      *)
(* Both get a ClientID and public key from the trusted entity, encrypt one *)
(* vector under it and post the ciphertext to the analytics engine.  They  *)
(* differ in how a failure ends: the Go client stops at a failed GET, the  *)
(* C++ client drops the result of its completion lambdas, goes on, and is  *)
(* stopped by the assertions of EncryptorClient when it has no key.        *)
(*                                                                         *)
(* The steps are those of the program; what the servers do with the        *)
(* requests is said in PPAnalytics.                                        *)
(***************************************************************************)
EXTENDS Parties

VARIABLE owner    \* the program of each data owner

ownerVars == <<owner>>

OwnerPC  == {"start", "getting", "loaded", "encrypted", "posting", "exit"}
ExitCode == {"none", "zero", "failure", "abort"}

\* id and key: the ClientID and public key read from the reply.
\* ctKey: the key its ciphertext was made under.
\* heard: history, whether the engine's 200 arrived.
OwnerState == [pc : OwnerPC, id : Nat, key : Nat, ctKey : Nat,
               heard : BOOLEAN, code : ExitCode]

OwnerInit ==
  owner = [o \in Owners |-> [pc |-> "start", id |-> 0, key |-> NoKey,
                             ctKey |-> NoKey, heard |-> FALSE, code |-> "none"]]

\* What getFEPublicParamsFromTrustedServer and
\* postEncryptedDataToAnalyticsServer return: the -1 of a completion lambda is
\* dropped by the HTTP client, the functions themselves return 0 always.
ResultOfGet(ok) == 0
ResultOfPost(ok) == 0

Exit(o, c) == owner' = [owner EXCEPT ![o] = [@ EXCEPT !.pc = "exit", !.code = c]]

-----------------------------------------------------------------------------
(* GET /generateKeys *)

SendGet(o) ==
  /\ owner[o].pc = "start"
  /\ owner' = [owner EXCEPT ![o].pc = "getting"]

\* A complete reply: id, parameters and public key are read from it.
ReplyArrives(o, id, key) ==
  /\ owner[o].pc = "getting"
  /\ owner' = [owner EXCEPT ![o] =
                 [@ EXCEPT !.pc = "loaded", !.id = id, !.key = key]]

\* The C++ client: connection refused or broken, or the 10 seconds are over.
CppGetFails(o) ==
  /\ o \in CppOwners
  /\ owner[o].pc = "getting"
  /\ IF ResultOfGet(FALSE) = 0 THEN owner' = [owner EXCEPT ![o].pc = "loaded"]
                               ELSE Exit(o, "failure")

\* The Go client: log.Fatalln.
GoGetFails(o) ==
  /\ o \notin CppOwners
  /\ owner[o].pc = "getting"
  /\ Exit(o, "failure")

-----------------------------------------------------------------------------
(* Encryption *)

\* Mutant: a build without assertions.
KeyIsSetAlways(o) == TRUE

\* The scheme can be initiated and the public key has the length of the data.
KeyIsSet(o) == owner[o].key # NoKey

Encrypt(o) ==
  /\ owner[o].pc = "loaded"
  /\ KeyIsSet(o)
  /\ owner' = [owner EXCEPT ![o] =
                 [@ EXCEPT !.pc = "encrypted", !.ctKey = owner[o].key]]

\* assert(err == 0) after cfe_ddh_precomp_init: with no key fetched the
\* globals are still 0 and "", which no scheme accepts.
AssertFails(o) ==
  /\ owner[o].pc = "loaded"
  /\ ~KeyIsSet(o)
  /\ Exit(o, "abort")

-----------------------------------------------------------------------------
(* POST /data *)

SendPost(o) ==
  /\ owner[o].pc = "encrypted"
  /\ owner' = [owner EXCEPT ![o].pc = "posting"]

\* The exit of the C++ client; the Go client drops err and returns from main.
AfterPost(o, ok) ==
  IF o \in CppOwners /\ ResultOfPost(ok) # 0 THEN "failure" ELSE "zero"

PostAnswered(o) ==
  /\ owner[o].pc = "posting"
  /\ owner' = [owner EXCEPT ![o] =
                 [@ EXCEPT !.pc = "exit", !.heard = TRUE,
                           !.code = AfterPost(o, TRUE)]]

PostFails(o) ==
  /\ owner[o].pc = "posting"
  /\ Exit(o, AfterPost(o, FALSE))

-----------------------------------------------------------------------------
(* Properties *)

\* The values the variable ranges over.
OwnerTypeOK == owner \in [Owners -> OwnerState]

\* A C++ owner that reports success to its caller has had its data accepted
\* (main.cpp exits with EXIT_FAILURE when "posting encrypted data to analytics
\* engined failed").
ExitZeroMeansPosted ==
  \A o \in CppOwners : owner[o].code = "zero" => owner[o].heard

=============================================================================
