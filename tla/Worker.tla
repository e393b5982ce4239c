------------------------------- MODULE Worker --------------------------------
(***************************************************************************)
(* restincurl::Worker (client/src/include/restincurl/restincurl.h): the    *)
(* event loop that runs the HTTP requests of one Client in a thread of its *)
(* own.  Application threads push requests on queue and set flags under    *)
(* mutex_, and wake the loop through a pipe.  The thread is started by the *)
(* first request and ends when it is told to or has idled for too long.    *)
(*                                                                         *)
(* A section under mutex_ is one action.  The one in which the thread      *)
(* clears thread_ is two, because mutex_ and thread_ may be gone before it *)
(* unlocks.  libcurl is external: a transfer it was given is active until  *)
(* some curl_multi_perform ends it and leaves a message.                   *)
(***************************************************************************)
EXTENDS Integers, Sequences, SequencesExt

CONSTANTS
  Requests,         \* the requests the application makes
  MaxConnections,   \* RESTINCURL_MAX_CONNECTIONS
  CurlMayFail,      \* do curl_multi_init, _add_handle and _fdset ever fail?
  SlowCompletions   \* may a completion take longer than the idle timeout?

ASSUME WorkerAssumption ==
  /\ IsFiniteSet(Requests)
  /\ MaxConnections \in Nat \ {0}
  /\ CurlMayFail \in BOOLEAN
  /\ SlowCompletions \in BOOLEAN

VARIABLES
  thread,           \* is thread_ set?
  runs,             \* how many threads were started
  wpc,              \* where the thread is; "none" when there is none
  queue,            \* queue_
  ongoing,          \* ongoing_
  active,           \* transfers of the multi handle that run
  finished,         \* transfers of the multi handle with a message unread
  closePending,     \* close_pending_
  abort,            \* abort_
  done,             \* done_
  pending,          \* pending_entries_in_queue_
  signalled,        \* is there a byte in the pipe?
  transfersRunning, \* transfers_running, -1 until a request was seen
  doDequeue,        \* do_dequeue
  expired,          \* has the idle timeout passed?
  completed,        \* history: calls of each request's completion
  discarded         \* history: requests destroyed with no call of it

flags   == <<closePending, abort, done>>
loop    == <<transfersRunning, doDequeue, expired>>
multi   == <<active, finished>>
entries == <<queue, ongoing, pending, completed, discarded>>
workerVars == <<thread, runs, wpc, signalled, flags, loop, multi, entries>>

WorkerPC == {"none", "init", "evaluate", "dequeue", "perform", "reading", "checking",
             "select", "leaving", "exiting", "unlocking"}

WorkerInit ==
  /\ thread = FALSE
  /\ runs = 0
  /\ wpc = "none"
  /\ queue = << >>
  /\ ongoing = {}
  /\ active = {}
  /\ finished = {}
  /\ closePending = FALSE
  /\ abort = FALSE
  /\ done = FALSE
  /\ pending = FALSE
  /\ signalled = FALSE
  /\ transfersRunning = -1
  /\ doDequeue = TRUE
  /\ expired = FALSE
  /\ completed = [r \in Requests |-> 0]
  /\ discarded = {}

\* mutex_ is free for a section of its own.
Unlocked == wpc # "unlocking"

-----------------------------------------------------------------------------
(* Called by application threads *)

\* Mutant: a new thread takes itself for one that has seen its requests.
PrepareThreadZero ==
  IF thread \/ abort \/ done
    THEN UNCHANGED <<thread, runs, wpc, loop>>
    ELSE /\ thread' = TRUE
         /\ runs' = runs + 1
         /\ wpc' = "init"
         /\ transfersRunning' = 0
         /\ doDequeue' = TRUE
         /\ expired' = FALSE

\* PrepareThread: start the thread unless it runs or the worker is closed.
PrepareThread ==
  IF thread \/ abort \/ done
    THEN UNCHANGED <<thread, runs, wpc, loop>>
    ELSE /\ thread' = TRUE
         /\ runs' = runs + 1
         /\ wpc' = "init"
         /\ transfersRunning' = -1
         /\ doDequeue' = TRUE
         /\ expired' = FALSE

Enqueue(r) ==
  /\ Unlocked
  /\ PrepareThread
  /\ queue' = Append(queue, r)
  /\ signalled' = TRUE
  /\ UNCHANGED <<ongoing, pending, completed, discarded, multi, flags>>

\* CloseWhenFinished and Close: set a flag under mutex_, then (Signal) wake
\* the thread.
MarkClose ==
  /\ Unlocked
  /\ closePending' = TRUE
  /\ UNCHANGED <<thread, runs, wpc, signalled, abort, done, loop, multi, entries>>

MarkAbort ==
  /\ Unlocked
  /\ abort' = TRUE
  /\ UNCHANGED <<thread, runs, wpc, signalled, closePending, done, loop, multi, entries>>

Signal ==
  /\ signalled' = TRUE
  /\ UNCHANGED <<thread, runs, wpc, flags, loop, multi, entries>>

\* Join waits for the thread that thread_ held when it looked, if any.
JoinTarget == IF thread THEN runs ELSE 0

\* Mutant: off by one.
ThreadEndedEarly(k) == k <= runs

ThreadEnded(k) == k < runs \/ wpc = "none"

-----------------------------------------------------------------------------
(* The loop *)

\* Init: curl_multi_init, ...
InitMulti ==
  /\ wpc = "init"
  /\ wpc' = "evaluate"
  /\ UNCHANGED <<thread, runs, signalled, flags, loop, multi, entries>>

\* ... which may fail: the exception ends the thread before Run.
InitThrows ==
  /\ CurlMayFail
  /\ wpc = "init"
  /\ wpc' = "exiting"
  /\ UNCHANGED <<thread, runs, signalled, flags, loop, multi, entries>>

\* EvaluateState; -1 transfers count as running.
MustRun == ~abort /\ (transfersRunning # 0 \/ ~closePending)

Evaluate ==
  /\ wpc = "evaluate"
  /\ wpc' = IF ~MustRun THEN "leaving" ELSE IF doDequeue THEN "dequeue" ELSE "perform"
  /\ UNCHANGED <<thread, runs, signalled, flags, loop, multi, entries>>

\* Mutant: the limit is off by one.
RoomForOneMore == MaxConnections - Cardinality(ongoing) + 1

\* How many entries of the queue may start.
Room == MaxConnections - Cardinality(ongoing)
AllFit == Len(queue) <= Room

\* Mutant: the limit is ignored.
TakenAll == Len(queue)

Taken == IF AllFit THEN Len(queue) ELSE Room
Started(n) == {queue[i] : i \in 1..n}

\* Mutants: what is left over is dropped, or not remembered.
DequeueDrops ==
  /\ wpc = "dequeue"
  /\ queue' = << >>
  /\ pending' = ~AllFit
  /\ ongoing' = ongoing \cup Started(Taken)
  /\ active' = active \cup Started(Taken)
  /\ doDequeue' = FALSE
  /\ wpc' = "perform"
  /\ UNCHANGED <<thread, runs, signalled, flags, transfersRunning, expired,
                 finished, completed, discarded>>

DequeueForgets ==
  /\ wpc = "dequeue"
  /\ queue' = SubSeq(queue, Taken + 1, Len(queue))
  /\ pending' = FALSE
  /\ ongoing' = ongoing \cup Started(Taken)
  /\ active' = active \cup Started(Taken)
  /\ doDequeue' = FALSE
  /\ wpc' = "perform"
  /\ UNCHANGED <<thread, runs, signalled, flags, transfersRunning, expired,
                 finished, completed, discarded>>

Dequeue ==
  /\ wpc = "dequeue"
  /\ queue' = SubSeq(queue, Taken + 1, Len(queue))
  /\ pending' = ~AllFit
  /\ ongoing' = ongoing \cup Started(Taken)
  /\ active' = active \cup Started(Taken)
  /\ doDequeue' = FALSE
  /\ wpc' = "perform"
  /\ UNCHANGED <<thread, runs, signalled, flags, transfersRunning, expired,
                 finished, completed, discarded>>

\* curl_multi_add_handle fails for the n-th entry: the exception leaves Run
\* without Clean, the entries behind the n-th are destroyed.
DequeueThrows ==
  /\ CurlMayFail
  /\ wpc = "dequeue"
  /\ \E n \in 1..Taken : /\ ongoing' = ongoing \cup Started(n)
                          /\ discarded' = discarded \cup (Started(Taken) \ Started(n))
  /\ queue' = SubSeq(queue, Taken + 1, Len(queue))
  /\ pending' = ~AllFit
  /\ active' = {}
  /\ finished' = {}
  /\ wpc' = "exiting"
  /\ UNCHANGED <<thread, runs, signalled, flags, loop, completed>>

\* curl_multi_perform and the idle check.  A transfer that ends in the very
\* first call leaves transfers_running at -1.
Perform ==
  /\ wpc = "perform"
  /\ \E ended \in SUBSET active :
       LET n == Cardinality(active \ ended)
           running == IF n = 0 /\ transfersRunning = -1 THEN -1 ELSE n
       IN  /\ active' = active \ ended
           /\ finished' = finished \cup ended
           /\ transfersRunning' = running
           /\ expired' = (expired /\ running <= 0)
           /\ wpc' = IF running <= 0 /\ expired THEN "leaving" ELSE "reading"
  /\ UNCHANGED <<thread, runs, signalled, flags, doDequeue, entries>>

\* Mutant: the request stays in ongoing_.
CompleteKeeps(r) ==
  /\ wpc = "reading"
  /\ r \in finished
  /\ r \in ongoing
  /\ completed' = [completed EXCEPT ![r] = @ + 1]
  /\ finished' = finished \ {r}
  /\ expired' \in {expired, expired \/ SlowCompletions}
  /\ UNCHANGED <<thread, runs, wpc, signalled, flags, transfersRunning, doDequeue,
                 active, queue, ongoing, pending, discarded>>

\* One message of curl_multi_info_read: run the completion, drop the request.
\* A slow completion uses the idle timeout up.
Complete(r) ==
  /\ wpc = "reading"
  /\ r \in finished
  /\ r \in ongoing
  /\ completed' = [completed EXCEPT ![r] = @ + 1]
  /\ finished' = finished \ {r}
  /\ ongoing' = ongoing \ {r}
  /\ expired' \in {expired, expired \/ SlowCompletions}
  /\ UNCHANGED <<thread, runs, wpc, signalled, flags, transfersRunning, doDequeue,
                 active, queue, pending, discarded>>

AllRead ==
  /\ wpc = "reading"
  /\ finished = {}
  /\ wpc' = "checking"
  /\ UNCHANGED <<thread, runs, signalled, flags, loop, multi, entries>>

\* "Avoid using select() as a timer when we need to exit anyway"
Check ==
  /\ wpc = "checking"
  /\ wpc' = IF abort \/ (transfersRunning = 0 /\ closePending) THEN "leaving" ELSE "select"
  /\ UNCHANGED <<thread, runs, signalled, flags, loop, multi, entries>>

\* curl_multi_fdset fails.
CheckThrows ==
  /\ CurlMayFail
  /\ wpc = "checking"
  /\ ~abort
  /\ transfersRunning > 0
  /\ active' = {}
  /\ wpc' = "exiting"
  /\ UNCHANGED <<thread, runs, signalled, flags, loop, finished, entries>>

\* select returns: the pipe has a byte, ...
SelectSignalled ==
  /\ wpc = "select"
  /\ signalled
  /\ signalled' = FALSE
  /\ doDequeue' = TRUE
  /\ wpc' = "evaluate"
  /\ UNCHANGED <<thread, runs, flags, transfersRunning, expired, multi, entries>>

\* ... or a transfer can go on, or the time is up.
SelectOther ==
  /\ wpc = "select"
  /\ ~signalled
  /\ transfersRunning > 0 \/ expired
  /\ doDequeue' = pending
  /\ wpc' = "evaluate"
  /\ UNCHANGED <<thread, runs, signalled, flags, transfersRunning, expired, multi, entries>>

\* The idle timeout passes while select waits for it.
Expire ==
  /\ ~expired
  /\ wpc = "select"
  /\ transfersRunning <= 0
  /\ ~signalled
  /\ expired' = TRUE
  /\ UNCHANGED <<thread, runs, wpc, signalled, flags, transfersRunning, doDequeue,
                 multi, entries>>

-----------------------------------------------------------------------------
(* The end of the thread *)

\* Mutant: the thread does not end over a queue.
LeaveEmpty ==
  /\ wpc = "leaving"
  /\ done' = (done \/ closePending \/ abort)
  /\ active' = {}
  /\ finished' = {}
  /\ wpc' = IF queue = << >> THEN "exiting" ELSE "evaluate"
  /\ UNCHANGED <<thread, runs, signalled, closePending, abort, loop, entries>>

\* The end of Run, and Clean.
Leave ==
  /\ wpc = "leaving"
  /\ done' = (done \/ closePending \/ abort)
  /\ active' = {}
  /\ finished' = {}
  /\ wpc' = "exiting"
  /\ UNCHANGED <<thread, runs, signalled, closePending, abort, loop, entries>>

ResetThread ==
  /\ wpc = "exiting"
  /\ thread' = FALSE
  /\ wpc' = "unlocking"
  /\ UNCHANGED <<runs, signalled, flags, loop, multi, entries>>

Unlock ==
  /\ wpc = "unlocking"
  /\ wpc' = "none"
  /\ UNCHANGED <<thread, runs, signalled, flags, loop, multi, entries>>

LoopStep ==
  \/ InitMulti
  \/ Evaluate
  \/ Dequeue
  \/ Perform
  \/ \E r \in Requests : Complete(r)
  \/ AllRead
  \/ Check
  \/ SelectSignalled
  \/ SelectOther
  \/ Leave
  \/ ResetThread
  \/ Unlock

WorkerStep == LoopStep \/ InitThrows \/ DequeueThrows \/ CheckThrows \/ Expire

\* The thread is scheduled, time passes, and every transfer ends: each has a
\* time limit (10 seconds by default).
Ends(r) == Perform /\ r \in active /\ r \notin active'

-----------------------------------------------------------------------------
(* Properties of the worker *)

\* The values the variables range over.
WorkerTypeOK ==
  /\ thread \in BOOLEAN
  /\ runs \in Nat
  /\ wpc \in WorkerPC
  /\ queue \in Seq(Requests)
  /\ ongoing \subseteq Requests
  /\ active \subseteq Requests
  /\ finished \subseteq Requests
  /\ closePending \in BOOLEAN
  /\ abort \in BOOLEAN
  /\ done \in BOOLEAN
  /\ pending \in BOOLEAN
  /\ signalled \in BOOLEAN
  /\ transfersRunning \in -1..MaxConnections
  /\ doDequeue \in BOOLEAN
  /\ expired \in BOOLEAN
  /\ completed \in [Requests -> Nat]
  /\ discarded \subseteq Requests

\* Never more than RESTINCURL_MAX_CONNECTIONS requests are ongoing, over all
\* threads of the worker: the unsigned subtraction in Dequeue cannot wrap, and
\* its assertion on ongoing_.size() holds.
ConnectionsBounded == Cardinality(ongoing) <= MaxConnections

\* No lost wake-up: when the thread goes to sleep while requests wait, a byte
\* is in the pipe or the loop remembers to look at the queue.
NoLostWakeUp ==
  (wpc = "select" /\ queue # << >>) => signalled \/ pending

\* A request is in one place only, so that its completion runs at most once
\* and curl_multi_info_read finds the request of each message.
OnePlace ==
  /\ IsInjective(queue)
  /\ \A r \in Requests :
       /\ completed[r] <= 1
       /\ r \in ToSet(queue) => r \notin ongoing /\ completed[r] = 0
       /\ r \in ongoing => completed[r] = 0
       /\ r \in discarded => r \notin ToSet(queue) \cup ongoing /\ completed[r] = 0
  /\ active \cup finished \subseteq ongoing
  /\ active \cap finished = {}

=============================================================================
