---------------------------- MODULE ClientProgram ----------------------------
(***************************************************************************)
(* One HTTP call of the C++ data owner, as both functions of               *)
(* client/src/main.cpp make it with a restincurl::Client of their own:     *)
(*                                                                         *)
(*   client.Build()-> ... .Execute();                                      *)
(*   client.CloseWhenFinished();                                           *)
(*   client.WaitForFinish();                                               *)
(*   return 0;          // and ~Client                                     *)
(*                                                                         *)
(* It is shown to keep the promise of HttpCall, whatever the order in      *)
(* which the function and the worker thread run.                           *)
(***************************************************************************)
EXTENDS Worker

CONSTANT request      \* the one request of the call

ASSUME ProgramAssumption == Requests = {request}

VARIABLES
  pc,                 \* the next call of the function
  joins               \* the worker thread it waits for

programVars == <<pc, joins>>
vars == <<workerVars, programVars>>

Init ==
  /\ WorkerInit
  /\ pc = "Execute"
  /\ joins = 0

Step(from, to) == pc = from /\ pc' = to

CallExecute ==
  /\ Step("Execute", "CloseWhenFinished")
  /\ Enqueue(request)
  /\ UNCHANGED joins

CallCloseWhenFinished ==
  \/ Step("CloseWhenFinished", "Signal") /\ MarkClose /\ UNCHANGED joins
  \/ Step("Signal", "WaitForFinish") /\ Signal /\ UNCHANGED joins

CallWaitForFinish ==
  \/ /\ Step("WaitForFinish", "Join")
     /\ Unlocked
     /\ joins' = JoinTarget
     /\ UNCHANGED workerVars
  \/ /\ Step("Join", "~Client")
     /\ ThreadEnded(joins)
     /\ UNCHANGED <<workerVars, joins>>

\* ~Client is Close, then ~Worker, which has nothing left to join.
Destroy ==
  \/ Step("~Client", "~Signal") /\ MarkAbort /\ UNCHANGED joins
  \/ Step("~Signal", "~Worker") /\ Signal /\ UNCHANGED joins
  \/ Step("~Worker", "returned") /\ ~thread /\ UNCHANGED <<workerVars, joins>>

ProgramStep == CallExecute \/ CallCloseWhenFinished \/ CallWaitForFinish \/ Destroy

Returned == pc = "returned" /\ wpc = "none" /\ UNCHANGED vars

Next ==
  \/ ProgramStep
  \/ WorkerStep /\ UNCHANGED programVars
  \/ Returned

Spec == Init /\ [][Next]_vars

\* Both threads are scheduled, time passes, transfers end.
Fairness ==
  /\ WF_vars(ProgramStep)
  /\ WF_vars(LoopStep /\ UNCHANGED programVars)
  /\ WF_vars(Expire /\ UNCHANGED programVars)
  /\ SF_vars(Ends(request) /\ UNCHANGED programVars)

FairSpec == Spec /\ Fairness

-----------------------------------------------------------------------------
(* Properties *)

\* The function keeps its promise: it returns, once, after the completion ran.
Call == INSTANCE HttpCall WITH called <- completed[request],
                               returned <- (pc = "returned")
KeepsPromise == Call!Spec

\* No worker thread uses the Client once the function destroys it.
NoThreadLeft ==
  pc \in {"~Client", "~Signal", "~Worker", "returned"} => wpc = "none"

=============================================================================
