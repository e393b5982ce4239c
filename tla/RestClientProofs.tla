-------------------------- MODULE RestClientProofs ---------------------------
(***************************************************************************)
(* Proofs about restincurl::Client with any number of application threads, *)
(* requests and connections: the values are well-typed, the limit on the   *)
(* connections is kept, no wake-up is lost, a request is in one place only *)
(* and none is lost on the way.                                            *)
(***************************************************************************)
EXTENDS RestClient, WorkerProofs

\* The worker is in its invariant and knows exactly what was submitted: so a
\* new request is new to the worker.
ClientInv ==
  /\ WorkerInv
  /\ call \in [Callers -> CallPC]
  /\ target \in [Callers -> Nat]
  /\ submitted \subseteq Requests
  /\ destroyed \in BOOLEAN
  /\ submitted = Known
  /\ CurlMayFail \/ discarded = {}

\* A new Client knows no request.
LEMMA ClientInit == Init => ClientInv
<1> SUFFICES ASSUME Init
             PROVE  ClientInv
  OBVIOUS
<1>1. WorkerInv /\ Known = {} /\ discarded = {}
  BY WorkerInitInv DEF Init, WorkerInit
<1>2. call \in [Callers -> CallPC] /\ target \in [Callers -> Nat]
  BY DEF Init, CallPC
<1>3. QED
  BY <1>1, <1>2 DEF Init, ClientInv

\* An application thread goes from one place to another one.
LEMMA GotoTypes ==
  ASSUME ClientInv, NEW t \in Callers, NEW place \in CallPC, Goto(t, place)
  PROVE  call' \in [Callers -> CallPC]
  BY DEF ClientInv, Goto

\* WaitForFinish and ~Worker wait for a thread by its number.
LEMMA TargetTypes ==
  ASSUME ClientInv, NEW t \in Callers, NEW k \in {0, JoinTarget},
         target' = [target EXCEPT ![t] = k]
  PROVE  target' \in [Callers -> Nat]
<1>1. JoinTarget \in Nat
  BY DEF ClientInv, WorkerInv, WorkerTypeOK, JoinTarget
<1>2. QED
  BY <1>1 DEF ClientInv

\* Execute hands a request over that was not submitted before.
LEMMA ExecuteInv ==
  ASSUME ClientInv, NEW t \in Callers, NEW r \in Requests, Execute(t, r)
  PROVE  ClientInv'
<1>1. r \in Requests \ Known
  BY DEF ClientInv, Execute
<1>2. WorkerInv' /\ Known' = Known \cup {r} /\ discarded' = discarded
  BY <1>1, EnqueueInv DEF ClientInv, Execute
<1>3. QED
  BY <1>2 DEF ClientInv, Execute

\* The other new calls set a flag or look for the thread.
LEMMA NewCallInv ==
  ASSUME ClientInv, NEW t \in Callers, NewCall(t)
  PROVE  ClientInv'
<1> USE DEF CallPC
<1>1. CASE \E r \in Requests : Execute(t, r)
  BY <1>1, ExecuteInv
<1>2. CASE CloseWhenFinished(t) \/ Close(t) \/ BeginDestroy(t)
  <2>1. WorkerInv' /\ Known' = Known /\ discarded' = discarded
    BY <1>2, CallInv DEF CloseWhenFinished, Close, BeginDestroy, ClientInv
  <2>2. call' \in [Callers -> CallPC]
    BY <1>2, GotoTypes DEF CloseWhenFinished, Close, BeginDestroy
  <2>3. UNCHANGED <<target, submitted, destroyed>>
    BY <1>2 DEF CloseWhenFinished, Close, BeginDestroy
  <2>4. QED
    BY <2>1, <2>2, <2>3 DEF ClientInv
<1>3. CASE WaitForFinish(t)
  <2>1. WorkerInv' /\ Known' = Known /\ discarded' = discarded
    BY <1>3, WorkerUnchanged DEF WaitForFinish, ClientInv
  <2>2. call' \in [Callers -> CallPC] /\ target' \in [Callers -> Nat]
    BY <1>3, GotoTypes, TargetTypes DEF WaitForFinish
  <2>3. UNCHANGED <<submitted, destroyed>>
    BY <1>3 DEF WaitForFinish
  <2>4. QED
    BY <2>1, <2>2, <2>3 DEF ClientInv
<1>4. QED
  BY <1>1, <1>2, <1>3 DEF NewCall

\* So do the steps of a call under way, with the signal and the joins.
LEMMA CallStepInv ==
  ASSUME ClientInv, NEW t \in Callers, CallStep(t)
  PROVE  ClientInv'
<1>1. WorkerInv' /\ Known' = Known /\ discarded' = discarded
  <2>1. Signal \/ UNCHANGED workerVars
    BY DEF CallStep, SignalWorker, Joined, DestroySignal, DestroyWorker, DestroyJoined
  <2>2. QED
    BY <2>1, CallInv, WorkerUnchanged DEF ClientInv
<1>2. call' \in [Callers -> CallPC]
  <2>1. \E place \in CallPC : Goto(t, place)
    BY DEF CallStep, SignalWorker, Joined, DestroySignal, DestroyWorker, DestroyJoined,
           CallPC
  <2>2. QED
    BY <2>1, GotoTypes
<1>3. target' \in [Callers -> Nat]
  <2>1. \/ target' = target
        \/ \E k \in {0, JoinTarget} : target' = [target EXCEPT ![t] = k]
    BY DEF CallStep, SignalWorker, Joined, DestroySignal, DestroyWorker, DestroyJoined
  <2>2. QED
    BY <2>1, TargetTypes DEF ClientInv
<1>4. submitted' = submitted /\ destroyed' \in BOOLEAN
  BY DEF CallStep, SignalWorker, Joined, DestroySignal, DestroyWorker, DestroyJoined,
         ClientInv
<1>5. QED
  BY <1>1, <1>2, <1>3, <1>4 DEF ClientInv

\* Every step of Client and worker keeps the invariant.
LEMMA ClientNextInv ==
  ASSUME ClientInv, [Next]_vars
  PROVE  ClientInv'
<1>1. CASE \E t \in Callers : NewCall(t) \/ CallStep(t)
  BY <1>1, NewCallInv, CallStepInv
<1>2. CASE WorkerStep /\ UNCHANGED appVars
  BY <1>2, WorkerStepInv DEF ClientInv, appVars
<1>3. CASE UNCHANGED vars
  BY <1>3, WorkerUnchanged DEF ClientInv, vars, appVars
<1>4. QED
  BY <1>1, <1>2, <1>3 DEF Next, Quiet

-----------------------------------------------------------------------------
(* What follows for every use of a Client *)

\* Worker and Client, their threads and their requests stay as ClientInv says.
THEOREM ClientInvariant == Spec => []ClientInv
<1>1. QED
  BY ClientInit, ClientNextInv, PTL DEF Spec

\* Every variable of the Client, its worker and its callers keeps to its type.
THEOREM ClientTypeCorrect == Spec => []TypeOK
<1>1. ClientInv => TypeOK
  BY DEF ClientInv, WorkerInv, TypeOK
<1>2. QED
  BY <1>1, ClientInvariant, PTL

\* The subtraction in Dequeue never wraps, whatever the limit is and however
\* many threads the worker had.
THEOREM LimitKept == Spec => []ConnectionsBounded
<1>1. ClientInv => ConnectionsBounded
  BY DEF ClientInv, WorkerInv
<1>2. QED
  BY <1>1, ClientInvariant, PTL

\* The thread never goes to sleep over a queue that nothing reminds it of.
THEOREM WakeUpsKept == Spec => []NoLostWakeUp
<1>1. ClientInv => NoLostWakeUp
  BY DEF ClientInv, WorkerInv, LooksAtQueue, DequeuesFirst, NoLostWakeUp
<1>2. QED
  BY <1>1, ClientInvariant, PTL

\* The completion of a request runs at most once, and each message finds the
\* request it is for.
THEOREM CompletedOnce == Spec => []OnePlace
<1>1. ClientInv => OnePlace
  BY DEF ClientInv, WorkerInv
<1>2. QED
  BY <1>1, ClientInvariant, PTL

\* A request that was executed waits, is ongoing or was completed; only a
\* libcurl that fails makes the worker destroy one.
THEOREM RequestsKept == Spec => []NothingLost
<1>1. ClientInv => NothingLost
  BY DEF ClientInv, Known, NothingLost
<1>2. QED
  BY <1>1, ClientInvariant, PTL

=============================================================================
