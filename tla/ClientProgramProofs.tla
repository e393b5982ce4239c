------------------------- MODULE ClientProgramProofs -------------------------
(***************************************************************************)
(* Proofs about one HTTP call of the C++ data owner, for any limit on the  *)
(* connections: no worker thread is left when the Client goes, and, unless *)
(* libcurl fails, every step of the call is one that HttpCall allows.      *)
(*                                                                         *)
(* That the completion ran before the function returns is not inductive:   *)
(* the worker must not end before it.  Carried says where the request is   *)
(* until then, and why the thread cannot leave without it.                 *)
(***************************************************************************)
EXTENDS ClientProgram, WorkerProofs

ProgramPC == {"Execute", "CloseWhenFinished", "Signal", "WaitForFinish", "Join",
              "~Client", "~Signal", "~Worker", "returned"}

\* The function after WaitForFinish.
Destroying == pc \in {"~Client", "~Signal", "~Worker", "returned"}

\* Execute starts the only thread; Join waits for it, or saw that it ended.
OneThread ==
  /\ pc = "Execute" => wpc = "none" /\ runs = 0 /\ ~abort /\ ~done /\ Known = {}
  /\ pc # "Execute" => runs = 1 /\ Known = {request}
  /\ pc = "Join" /\ joins = 0 => wpc = "none"
  /\ joins \in {0, 1}

ProgramInv ==
  /\ WorkerInv
  /\ pc \in ProgramPC
  /\ abort => Destroying
  /\ OneThread
  /\ NoThreadLeft

\* Until it completes, the request waits for the thread's first look at the
\* queue, or is transferred and counted, or its message is about to be read.
Waiting ==
  /\ queue = <<request>> /\ ongoing = {}
  /\ wpc \in {"init", "evaluate", "dequeue"}
  /\ transfersRunning = -1
  /\ doDequeue

Transferred ==
  /\ active = {request}
  /\ wpc \in {"perform", "reading", "checking", "select", "evaluate", "dequeue"}
  /\ transfersRunning = 1 \/ (transfersRunning = -1 /\ wpc = "perform")

Carried ==
  (pc # "Execute" /\ completed[request] = 0) =>
    /\ ~expired
    /\ \/ Waiting
       \/ Transferred
       \/ request \in finished /\ wpc = "reading"

CarriedInv == ProgramInv /\ Carried

-----------------------------------------------------------------------------
(* One thread, which ends before the Client goes *)

\* The request of the call is a request.
LEMMA TheRequest == request \in Requests /\ Requests = {request}
  BY ProgramAssumption

\* The program starts with a worker nobody used.
LEMMA ProgramInit == Init => ProgramInv
<1> SUFFICES ASSUME Init
             PROVE  ProgramInv
  OBVIOUS
<1>1. WorkerInv /\ Known = {}
  BY WorkerInitInv DEF Init
<1>2. QED
  BY <1>1 DEF Init, WorkerInit, ProgramInv, ProgramPC, OneThread, NoThreadLeft, Destroying

\* Execute hands the request over and starts the thread.
LEMMA ExecuteStarts ==
  ASSUME ProgramInv, CallExecute
  PROVE  /\ ProgramInv'
         /\ wpc' = "init" /\ transfersRunning' = -1 /\ doDequeue' /\ ~expired'
         /\ queue' = <<request>> /\ ongoing' = {} /\ pc' = "CloseWhenFinished"
<1>1. /\ pc = "Execute" /\ pc' = "CloseWhenFinished" /\ joins' = joins
      /\ wpc = "none" /\ runs = 0 /\ ~abort /\ ~done /\ Known = {}
      /\ Enqueue(request)
  BY DEF CallExecute, Step, ProgramInv, OneThread
<1>2. WorkerInv' /\ Known' = {request}
  BY <1>1, EnqueueInv, TheRequest DEF ProgramInv
<1>3. ~thread
  BY <1>1 DEF ProgramInv, WorkerInv, ThreadRuns
<1>4. /\ wpc' = "init" /\ runs' = 1
      /\ transfersRunning' = -1 /\ doDequeue' /\ ~expired' /\ ~abort'
  BY <1>1, <1>3 DEF Enqueue, PrepareThread, flags
<1>5. queue' = <<request>> /\ ongoing' = {}
  <2>1. ToSet(queue) = {} /\ ongoing = {}
    BY <1>1 DEF Known
  <2>2. queue = << >>
    <3>1. queue \in Seq(Requests)
      BY DEF ProgramInv, WorkerInv, WorkerTypeOK
    <3>2. Len(queue) \in Nat /\ DOMAIN queue = 1..Len(queue)
      BY <3>1, LenProperties
    <3>3. 1 \notin 1..Len(queue)
      BY <2>1, <3>2 DEF ToSet
    <3>4. Len(queue) = 0
      BY <3>2, <3>3
    <3>5. QED
      BY <3>1, <3>4, EmptySeq
  <2>3. QED
    BY <1>1, <2>1, <2>2 DEF Enqueue
<1>6. ProgramInv'
  BY <1>1, <1>2, <1>4 DEF ProgramInv, ProgramPC, OneThread, NoThreadLeft, Destroying
<1>7. QED
  BY <1>1, <1>4, <1>5, <1>6

\* The other calls of the function move no request and start no thread.
LEMMA CallsInv ==
  ASSUME ProgramInv, CallCloseWhenFinished \/ CallWaitForFinish \/ Destroy
  PROVE  /\ ProgramInv'
         /\ pc # "Execute" /\ pc' # "Execute"
         /\ UNCHANGED <<wpc, queue, ongoing, active, finished, completed, discarded,
                        transfersRunning, doDequeue, expired>>
<1> USE DEF Step, workerVars, flags, loop, multi, entries
<1>1. WorkerInv' /\ Known' = Known
  <2>1. MarkClose \/ MarkAbort \/ Signal \/ UNCHANGED workerVars
    BY DEF CallCloseWhenFinished, CallWaitForFinish, Destroy
  <2>2. QED
    BY <2>1, CallInv, WorkerUnchanged DEF ProgramInv
<1>2. /\ UNCHANGED <<thread, runs, wpc, queue, ongoing, active, finished, completed,
                     discarded, transfersRunning, doDequeue, expired>>
      /\ pc # "Execute" /\ pc' # "Execute" /\ pc' \in ProgramPC
  BY DEF CallCloseWhenFinished, CallWaitForFinish, Destroy, MarkClose, MarkAbort, Signal,
         ProgramPC
<1>3. abort' => Destroying'
  BY DEF CallCloseWhenFinished, CallWaitForFinish, Destroy, MarkClose, MarkAbort, Signal,
         ProgramInv, Destroying
<1>4. OneThread'
  <2>1. runs = 1 /\ Known = {request} /\ joins \in {0, 1}
    BY <1>2 DEF ProgramInv, OneThread
  <2>2. joins' \in {0, 1}
    BY <2>1 DEF CallCloseWhenFinished, CallWaitForFinish, Destroy, JoinTarget
  <2>3. ASSUME pc' = "Join", joins' = 0
        PROVE  wpc' = "none"
    <3>1. Unlocked /\ JoinTarget = 0
      BY <2>3 DEF CallCloseWhenFinished, CallWaitForFinish, Destroy
    <3>2. ~thread
      BY <2>1, <3>1 DEF JoinTarget
    <3>3. QED
      BY <1>2, <3>1, <3>2 DEF Unlocked, ProgramInv, WorkerInv, ThreadRuns
  <2>4. QED
    BY <1>1, <1>2, <2>1, <2>2, <2>3 DEF OneThread
<1>5. NoThreadLeft'
  <2>1. CASE pc = "Join"
    <3>1. ThreadEnded(joins) /\ runs = 1 /\ joins \in {0, 1}
      BY <2>1 DEF CallCloseWhenFinished, CallWaitForFinish, Destroy, ProgramInv, OneThread
    <3>2. wpc = "none"
      BY <2>1, <3>1 DEF ThreadEnded, ProgramInv, OneThread
    <3>3. QED
      BY <1>2, <3>2 DEF NoThreadLeft
  <2>2. CASE pc # "Join"
    BY <1>2, <2>2 DEF CallCloseWhenFinished, CallWaitForFinish, Destroy, NoThreadLeft,
                      ProgramInv
  <2>3. QED
    BY <2>1, <2>2
<1>6. QED
  BY <1>1, <1>2, <1>3, <1>4, <1>5 DEF ProgramInv

\* A section of the thread needs the thread, starts no other one and leaves
\* abort_ alone.
LEMMA SectionsInv ==
  ASSUME ProgramInv, WorkerStep, UNCHANGED programVars
  PROVE  ProgramInv' /\ pc # "Execute" /\ wpc # "none"
<1>1. wpc # "none" /\ UNCHANGED <<runs, abort, pc, joins>>
  BY DEF WorkerStep, LoopStep, InitMulti, InitThrows, Evaluate, Dequeue, DequeueThrows,
         Perform, Complete, AllRead, Check, CheckThrows, SelectSignalled, SelectOther,
         Expire, Leave, ResetThread, Unlock, flags, programVars
<1>2. WorkerInv' /\ Known' = Known
  BY WorkerStepInv DEF ProgramInv
<1>3. QED
  BY <1>1, <1>2 DEF ProgramInv, OneThread, NoThreadLeft, Destroying

\* Every step of the program keeps its invariant.
LEMMA ProgramNextInv ==
  ASSUME ProgramInv, [Next]_vars
  PROVE  ProgramInv'
<1>1. CASE CallExecute
  BY <1>1, ExecuteStarts
<1>2. CASE CallCloseWhenFinished \/ CallWaitForFinish \/ Destroy
  BY <1>2, CallsInv
<1>3. CASE WorkerStep /\ UNCHANGED programVars
  BY <1>3, SectionsInv
<1>4. CASE UNCHANGED vars
  <2>1. WorkerInv' /\ Known' = Known
    BY <1>4, WorkerUnchanged DEF ProgramInv, vars
  <2>2. UNCHANGED <<wpc, runs, abort, done, pc, joins>>
    BY <1>4 DEF vars, workerVars, flags, programVars
  <2>3. QED
    BY <2>1, <2>2 DEF ProgramInv, OneThread, NoThreadLeft, Destroying
<1>5. QED
  BY <1>1, <1>2, <1>3, <1>4 DEF Next, ProgramStep, Returned

\* The function and its worker stay as ProgramInv says, libcurl fails or not.
THEOREM ProgramInvariant == Spec => []ProgramInv
<1>1. QED
  BY ProgramInit, ProgramNextInv, PTL DEF Spec

\* When the function destroys the Client, its thread has ended: no section of
\* the thread finds the Worker gone.
THEOREM ThreadEndsFirst == Spec => []NoThreadLeft
<1>1. ProgramInv => NoThreadLeft
  BY DEF ProgramInv
<1>2. QED
  BY <1>1, ProgramInvariant, PTL

-----------------------------------------------------------------------------
(* The completion runs before the function returns *)

\* Where the request is decides where the thread is and what it has to do.
LEMMA CarriedFacts ==
  ASSUME CarriedInv, pc # "Execute", completed[request] = 0
  PROVE  /\ ~abort /\ ~expired /\ wpc # "none"
         /\ Waiting \/ Transferred \/ (request \in finished /\ wpc = "reading")
<1>1. /\ ~expired
      /\ Waiting \/ Transferred \/ (request \in finished /\ wpc = "reading")
  BY DEF CarriedInv, Carried
<1>2. wpc # "none"
  BY <1>1 DEF Waiting, Transferred
<1>3. QED
  BY <1>1, <1>2 DEF CarriedInv, ProgramInv, NoThreadLeft, Destroying

\* Dequeue takes the request if it waits, and nothing otherwise.
LEMMA DequeueCarries ==
  ASSUME CarriedInv, pc # "Execute", completed[request] = 0, Dequeue
  PROVE  active' = {request} /\ wpc' = "perform" /\ UNCHANGED <<transfersRunning, expired>>
<1>1. Waiting \/ Transferred
  BY CarriedFacts DEF Dequeue
<1>2. Taken \in 0..Len(queue) /\ ToSet(queue) = Started(Taken) \cup ToSet(queue)'
  BY TakenFits, TakenSplit DEF CarriedInv, ProgramInv, Dequeue
<1>3. active \subseteq ongoing /\ active \subseteq Requests
  BY DEF CarriedInv, ProgramInv, WorkerInv, OnePlace, WorkerTypeOK
<1>4. CASE Waiting
  <2>1. Len(queue) = 1 /\ queue[1] = request /\ Cardinality(ongoing) = 0
    BY <1>4, FS_EmptySet DEF Waiting
  <2>2. Taken = 1
    BY <2>1, WorkerAssumption DEF Taken, AllFit, Room
  <2>3. Started(1) = {request}
    BY <2>1 DEF Started
  <2>4. active = {}
    BY <1>3, <1>4 DEF Waiting
  <2>5. QED
    BY <2>2, <2>3, <2>4 DEF Dequeue
<1>5. CASE Transferred
  <2>1. request \notin ToSet(queue)
    BY <1>3, <1>5, TheRequest DEF Transferred, CarriedInv, ProgramInv, WorkerInv, OnePlace
  <2>2. Started(Taken) \subseteq {request}
    BY TakenSplit, TheRequest DEF CarriedInv, ProgramInv
  <2>3. Started(Taken) = {}
    BY <1>2, <2>1, <2>2
  <2>4. QED
    BY <1>5, <2>3 DEF Dequeue, Transferred
<1>6. QED
  BY <1>1, <1>4, <1>5

\* Perform counts the transfer as long as it runs; when it ends the thread
\* reads its message, whatever it counts.
LEMMA PerformCarries ==
  ASSUME CarriedInv, pc # "Execute", completed[request] = 0, Perform
  PROVE  /\ ~expired' /\ wpc' = "reading"
         /\ (active' = {request} /\ transfersRunning' = 1) \/ request \in finished'
<1>1. active = {request} /\ ~expired
  BY CarriedFacts DEF Perform, Waiting, Transferred
<1>2. PICK ended \in SUBSET active :
         /\ active' = active \ ended
         /\ finished' = finished \cup ended
         /\ transfersRunning' =
              IF Cardinality(active \ ended) = 0 /\ transfersRunning = -1
                THEN -1 ELSE Cardinality(active \ ended)
  BY DEF Perform
<1>3. ~expired' /\ wpc' = "reading"
  BY <1>1 DEF Perform
<1>4. CASE request \in ended
  BY <1>2, <1>3, <1>4
<1>5. CASE request \notin ended
  <2>1. active' = {request} /\ active \ ended = {request}
    BY <1>1, <1>2, <1>5
  <2>2. Cardinality(active \ ended) = 1
    BY <2>1, FS_Singleton
  <2>3. transfersRunning' = 1
    BY <1>2, <2>2
  <2>4. QED
    BY <1>3, <2>1, <2>3
<1>6. QED
  BY <1>4, <1>5

\* Whatever the thread does next, it carries the request on, if libcurl does
\* not fail.
LEMMA SectionsCarry ==
  ASSUME ~CurlMayFail, CarriedInv, WorkerStep, UNCHANGED programVars
  PROVE  Carried'
<1>1. pc # "Execute" /\ pc' = pc
  BY SectionsInv DEF CarriedInv, programVars
<1> SUFFICES ASSUME completed'[request] = 0
             PROVE  /\ ~expired'
                    /\ Waiting' \/ Transferred' \/ (request \in finished' /\ wpc' = "reading")
  BY <1>1 DEF Carried
<1>2. completed \in [Requests -> Nat]
  BY DEF CarriedInv, ProgramInv, WorkerInv, WorkerTypeOK
<1>3. CASE \E r \in Requests : Complete(r)
  BY <1>2, <1>3, TheRequest DEF Complete
<1>4. CASE Dequeue
  <2>1. completed[request] = 0
    BY <1>4 DEF Dequeue
  <2>2. /\ active' = {request} /\ wpc' = "perform"
        /\ UNCHANGED <<transfersRunning, expired>>
    BY <1>1, <1>4, <2>1, DequeueCarries
  <2>3. ~expired /\ transfersRunning \in {-1, 1}
    BY <1>1, <1>4, <2>1, CarriedFacts DEF Dequeue, Waiting, Transferred
  <2>4. QED
    BY <2>2, <2>3 DEF Transferred
<1>5. CASE Perform
  BY <1>1, <1>5, PerformCarries DEF Perform, Transferred, entries
<1>6. CASE Passes
  <2> USE DEF flags, loop, multi, entries
  <2>1. completed[request] = 0
    BY <1>6 DEF Passes, InitMulti, InitThrows, Evaluate, AllRead, Check, CheckThrows,
                SelectSignalled, SelectOther, Expire, Leave, ResetThread, Unlock
  <2>2. /\ ~abort /\ ~expired /\ wpc # "none"
        /\ Waiting \/ Transferred \/ (request \in finished /\ wpc = "reading")
    BY <1>1, <2>1, CarriedFacts
  <2>3. CASE Waiting
    <3>1. InitMulti \/ Evaluate
      BY <1>6, <2>3
      DEF Waiting, Passes, InitThrows, AllRead, Check, CheckThrows, SelectSignalled,
          SelectOther, Expire, Leave, ResetThread, Unlock
    <3>2. MustRun /\ doDequeue
      BY <2>2, <2>3 DEF Waiting, MustRun
    <3>3. wpc' \in {"evaluate", "dequeue"}
      BY <3>1, <3>2 DEF InitMulti, Evaluate
    <3>4. UNCHANGED <<queue, ongoing, transfersRunning, doDequeue, expired>>
      BY <3>1 DEF InitMulti, Evaluate
    <3>5. wpc' \in {"init", "evaluate", "dequeue"}
      BY <3>3
    <3>6. QED
      BY <2>2, <2>3, <3>4, <3>5, Zenon DEF Waiting
  <2>4. CASE Transferred
    <3>1. Evaluate \/ AllRead \/ Check \/ SelectSignalled \/ SelectOther \/ Expire
      BY <1>6, <2>4
      DEF Transferred, Passes, InitMulti, InitThrows, CheckThrows, Leave, ResetThread,
          Unlock
    <3>2. transfersRunning = 1
      BY <2>4, <3>1
      DEF Transferred, Evaluate, AllRead, Check, SelectSignalled, SelectOther, Expire
    <3>3. wpc' \in {"dequeue", "perform", "checking", "select", "evaluate"}
      BY <2>2, <3>1, <3>2
      DEF Evaluate, MustRun, AllRead, Check, SelectSignalled, SelectOther, Expire
    <3>4. UNCHANGED <<active, transfersRunning>> /\ ~expired'
      BY <2>2, <3>1, <3>2
      DEF Evaluate, AllRead, Check, SelectSignalled, SelectOther, Expire
    <3>5. QED
      BY <2>4, <3>2, <3>3, <3>4 DEF Transferred
  <2>5. CASE request \in finished /\ wpc = "reading"
    BY <1>6, <2>5
    DEF Passes, InitMulti, InitThrows, Evaluate, AllRead, Check, CheckThrows,
        SelectSignalled, SelectOther, Expire, Leave, ResetThread, Unlock
  <2>6. QED
    BY <2>2, <2>3, <2>4, <2>5
<1>7. QED
  BY <1>3, <1>4, <1>5, <1>6
  DEF WorkerStep, LoopStep, Passes, InitThrows, DequeueThrows, CheckThrows

\* Every step of the program carries the request on.
LEMMA CarriedNextInv ==
  ASSUME ~CurlMayFail, CarriedInv, [Next]_vars
  PROVE  CarriedInv'
<1>1. ProgramInv'
  BY ProgramNextInv DEF CarriedInv
<1>2. CASE CallExecute
  BY <1>1, <1>2, ExecuteStarts DEF CarriedInv, Carried, Waiting
<1>3. CASE CallCloseWhenFinished \/ CallWaitForFinish \/ Destroy
  BY <1>1, <1>3, CallsInv DEF CarriedInv, Carried, Waiting, Transferred
<1>4. CASE WorkerStep /\ UNCHANGED programVars
  BY <1>1, <1>4, SectionsCarry DEF CarriedInv
<1>5. CASE UNCHANGED vars
  BY <1>1, <1>5
  DEF CarriedInv, Carried, Waiting, Transferred, vars, workerVars, flags, loop, multi,
      entries, programVars
<1>6. QED
  BY <1>2, <1>3, <1>4, <1>5 DEF Next, ProgramStep, Returned

\* The program starts where HttpCall starts, ...
LEMMA RefinesInit == Init => CarriedInv /\ Call!Init
<1> SUFFICES ASSUME Init
             PROVE  CarriedInv /\ Call!Init
  OBVIOUS
<1>1. ProgramInv
  BY ProgramInit
<1>2. pc = "Execute" /\ completed[request] = 0
  BY TheRequest DEF Init, WorkerInit
<1>3. QED
  BY <1>1, <1>2 DEF CarriedInv, Carried, Call!Init

\* ... and each of its steps is a Completion, a Return or nothing to HttpCall.
LEMMA RefinesNext ==
  ASSUME CarriedInv, [Next]_vars
  PROVE  [Call!Next]_(Call!callVars)
<1> USE DEF Call!Next, Call!callVars
<1>1. CASE CallExecute
  BY <1>1, ExecuteStarts DEF CarriedInv, CallExecute, Step, Enqueue
<1>2. CASE CallCloseWhenFinished \/ CallWaitForFinish
  BY <1>2, CallsInv DEF CarriedInv, CallCloseWhenFinished, CallWaitForFinish, Step
<1>3. CASE Destroy
  <2>1. completed' = completed
    BY <1>3, CallsInv DEF CarriedInv
  <2>2. CASE Step("~Worker", "returned")
    <3>1. wpc = "none"
      BY <2>2 DEF Step, CarriedInv, ProgramInv, NoThreadLeft
    <3>2. completed[request] # 0
      BY <2>2, <3>1, CarriedFacts DEF Step
    <3>3. completed[request] = 1
      BY <3>2, TheRequest DEF CarriedInv, ProgramInv, WorkerInv, WorkerTypeOK, OnePlace
    <3>4. Call!Return
      BY <2>1, <2>2, <3>3 DEF Step, Call!Return
    <3>5. QED
      BY <3>4
  <2>3. CASE ~Step("~Worker", "returned")
    BY <1>3, <2>1, <2>3 DEF Destroy, Step
  <2>4. QED
    BY <2>2, <2>3
<1>4. CASE WorkerStep /\ UNCHANGED programVars
  <2>1. pc # "returned" /\ pc' = pc
    BY <1>4, SectionsInv DEF CarriedInv, ProgramInv, NoThreadLeft, programVars
  <2>2. CASE \E r \in Requests : Complete(r)
    <3>1. Complete(request)
      BY <2>2, TheRequest
    <3>2. completed[request] = 0 /\ completed'[request] = 1
      BY <3>1, TheRequest
      DEF Complete, CarriedInv, ProgramInv, WorkerInv, WorkerTypeOK, OnePlace
    <3>3. Call!Completion
      BY <2>1, <3>2 DEF Call!Completion
    <3>4. QED
      BY <3>3
  <2>3. CASE ~\E r \in Requests : Complete(r)
    <3>1. completed' = completed
      BY <1>4, <2>3
      DEF WorkerStep, LoopStep, InitMulti, InitThrows, Evaluate, Dequeue, DequeueThrows,
          Perform, AllRead, Check, CheckThrows, SelectSignalled, SelectOther, Expire,
          Leave, ResetThread, Unlock, entries
    <3>2. QED
      BY <2>1, <3>1
  <2>4. QED
    BY <2>2, <2>3
<1>5. CASE UNCHANGED vars
  BY <1>5 DEF vars, workerVars, entries, programVars
<1>6. QED
  BY <1>1, <1>2, <1>3, <1>4, <1>5 DEF Next, ProgramStep, Returned

\* The safety half of KeepsPromise: if libcurl does not fail, the completion
\* runs once, and the function returns after that.
THEOREM RefinesHttpCall ==
  ASSUME ~CurlMayFail
  PROVE  Spec => Call!Init /\ [][Call!Next]_(Call!callVars)
<1>1. Init => CarriedInv /\ Call!Init
  BY RefinesInit
<1>2. CarriedInv /\ [Next]_vars => CarriedInv'
  BY CarriedNextInv
<1>3. CarriedInv /\ [Next]_vars => [Call!Next]_(Call!callVars)
  BY RefinesNext
<1>4. QED
  BY <1>1, <1>2, <1>3, PTL DEF Spec

=============================================================================
