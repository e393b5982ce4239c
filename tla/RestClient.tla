----------------------------- MODULE RestClient ------------------------------
(***************************************************************************)
(* restincurl::Client with any use of it that its documentation allows:    *)
(* application threads execute requests, close the client one way or the   *)
(* other and wait for its thread, in any order; in the end one of them     *)
(* destroys the Client while no other thread is in a call.                 *)
(***************************************************************************)
EXTENDS Worker

CONSTANTS
  Callers,        \* the application threads
  UsesClose,      \* do they call Close?
  UsesFinish,     \* do they call CloseWhenFinished?
  UsesDestroy     \* is the Client ever destroyed?

\* Requests are numbered in the order they are made.
ASSUME RestClientAssumption ==
  /\ Requests \subseteq Nat
  /\ UsesClose \in BOOLEAN /\ UsesFinish \in BOOLEAN /\ UsesDestroy \in BOOLEAN

VARIABLES
  call,           \* where each application thread is
  target,         \* the worker thread it joins
  submitted,      \* the requests that were executed
  destroyed       \* is the Client gone?

appVars == <<call, target, submitted, destroyed>>
vars == <<workerVars, appVars>>

CallPC == {"ready", "signal", "joining", "~Client", "~Worker", "~Join"}

Init ==
  /\ WorkerInit
  /\ call = [t \in Callers |-> "ready"]
  /\ target = [t \in Callers |-> 0]
  /\ submitted = {}
  /\ destroyed = FALSE

\* Thread t makes a new call on a Client that nobody destroys.
Ready(t) ==
  /\ call[t] = "ready"
  /\ ~destroyed
  /\ \A u \in Callers : call[u] \in {"ready", "signal", "joining"}

Goto(t, pc) == call' = [call EXCEPT ![t] = pc]

-----------------------------------------------------------------------------
(* The calls *)

Execute(t, r) ==
  /\ Ready(t)
  /\ r \notin submitted
  /\ \A q \in Requests \ submitted : r <= q
  /\ Enqueue(r)
  /\ submitted' = submitted \cup {r}
  /\ UNCHANGED <<call, target, destroyed>>

CloseWhenFinished(t) ==
  /\ UsesFinish
  /\ Ready(t)
  /\ ~closePending
  /\ MarkClose
  /\ Goto(t, "signal")
  /\ UNCHANGED <<target, submitted, destroyed>>

Close(t) ==
  /\ UsesClose
  /\ Ready(t)
  /\ ~abort
  /\ MarkAbort
  /\ Goto(t, "signal")
  /\ UNCHANGED <<target, submitted, destroyed>>

SignalWorker(t) ==
  /\ call[t] = "signal"
  /\ Signal
  /\ Goto(t, "ready")
  /\ UNCHANGED <<target, submitted, destroyed>>

WaitForFinish(t) ==
  /\ Ready(t)
  /\ Unlocked
  /\ thread
  /\ target' = [target EXCEPT ![t] = JoinTarget]
  /\ Goto(t, "joining")
  /\ UNCHANGED <<workerVars, submitted, destroyed>>

Joined(t) ==
  /\ call[t] = "joining"
  /\ ThreadEnded(target[t])
  /\ target' = [target EXCEPT ![t] = 0]
  /\ Goto(t, "ready")
  /\ UNCHANGED <<workerVars, submitted, destroyed>>

-----------------------------------------------------------------------------
(* ~Client and ~Worker *)

\* ~Client: Close, its section ...
BeginDestroy(t) ==
  /\ UsesDestroy
  /\ Ready(t)
  /\ \A u \in Callers : call[u] = "ready"
  /\ MarkAbort
  /\ Goto(t, "~Client")
  /\ UNCHANGED <<target, submitted, destroyed>>

\* ... and its signal.
DestroySignal(t) ==
  /\ call[t] = "~Client"
  /\ Signal
  /\ Goto(t, "~Worker")
  /\ UNCHANGED <<target, submitted, destroyed>>

\* ~Worker looks at thread_ without mutex_: Close and Join, or nothing at all.
DestroyWorker(t) ==
  /\ call[t] = "~Worker"
  /\ IF thread
       THEN /\ Goto(t, "~Join")
            /\ target' = [target EXCEPT ![t] = JoinTarget]
            /\ Signal
            /\ UNCHANGED destroyed
       ELSE /\ destroyed' = TRUE
            /\ Goto(t, "ready")
            /\ UNCHANGED <<workerVars, target>>
  /\ UNCHANGED <<submitted>>

DestroyJoined(t) ==
  /\ call[t] = "~Join"
  /\ ThreadEnded(target[t])
  /\ destroyed' = TRUE
  /\ target' = [target EXCEPT ![t] = 0]
  /\ Goto(t, "ready")
  /\ UNCHANGED <<workerVars, submitted>>

CallStep(t) ==
  \/ SignalWorker(t)
  \/ Joined(t)
  \/ DestroySignal(t)
  \/ DestroyWorker(t)
  \/ DestroyJoined(t)

NewCall(t) ==
  \/ \E r \in Requests : Execute(t, r)
  \/ CloseWhenFinished(t)
  \/ Close(t)
  \/ WaitForFinish(t)
  \/ BeginDestroy(t)

\* No call is under way and the worker has ended.
Quiet ==
  /\ \A t \in Callers : call[t] = "ready"
  /\ wpc = "none"
  /\ UNCHANGED vars

Next ==
  \/ \E t \in Callers : NewCall(t) \/ CallStep(t)
  \/ WorkerStep /\ UNCHANGED appVars
  \/ Quiet

Spec == Init /\ [][Next]_vars

\* Threads are scheduled, time passes, transfers end.
Fairness ==
  /\ WF_vars(LoopStep /\ UNCHANGED appVars)
  /\ WF_vars(Expire /\ UNCHANGED appVars)
  /\ \A r \in Requests : SF_vars(Ends(r) /\ UNCHANGED appVars)
  /\ \A t \in Callers : WF_vars(CallStep(t))

FairSpec == Spec /\ Fairness

-----------------------------------------------------------------------------
(* Properties *)

\* The values the variables range over.
TypeOK ==
  /\ WorkerTypeOK
  /\ call \in [Callers -> CallPC]
  /\ target \in [Callers -> Nat]
  /\ submitted \subseteq Requests
  /\ destroyed \in BOOLEAN

\* No request gets lost on the way: it waits, is ongoing or was completed, but
\* for those an exception of Dequeue destroyed.
NothingLost ==
  /\ submitted = ToSet(queue) \cup ongoing \cup {r \in Requests : completed[r] = 1} \cup discarded
  /\ CurlMayFail \/ discarded = {}

\* A thread that was told to end does, by an abort or when its transfers are
\* over, whatever it is at and whoever calls at the same time: nobody waits for
\* it for ever.
ClosedThreadEnds == (abort \/ closePending) ~> (wpc = "none")

=============================================================================
