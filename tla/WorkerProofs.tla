---------------------------- MODULE WorkerProofs -----------------------------
(***************************************************************************)
(* Proofs about restincurl::Worker, for any set of requests and any limit  *)
(* on the connections: every section of the thread and every call of an    *)
(* application thread keeps WorkerInv.  RestClientProofs and               *)
(* ClientProgramProofs conclude from it about the programs that use one.   *)
(*                                                                         *)
(* NoLostWakeUp and OnePlace are not inductive.  The first speaks of the   *)
(* moment before select only: LooksAtQueue says how the loop remembers a   *)
(* queue on the way there.  The second needs to know when messages are     *)
(* unread (AllMessagesRead), and both that a new thread finds the worker   *)
(* as the last one left it (ThreadRuns, NoTransferLeft).                   *)
(***************************************************************************)
EXTENDS Worker, FiniteSetTheorems, SequenceTheorems, TLAPS

\* thread_ is set from the start of a thread to the last thing it does.
ThreadRuns == thread <=> wpc \notin {"none", "unlocking"}

\* A message waits only where it is read, or where Clean throws it away.
AllMessagesRead == finished # {} => wpc \in {"reading", "leaving"}

\* No transfer is left of a thread that ended.
NoTransferLeft == wpc \in {"none", "unlocking", "exiting", "init"} => active = {}

\* The thread looks at the queue before it performs, and does it once.
DequeuesFirst ==
  /\ wpc \in {"init", "dequeue"} => doDequeue
  /\ wpc \in {"perform", "reading", "checking", "select"} => ~doDequeue

\* While the loop goes round, something reminds it of a queue.
LooksAtQueue ==
  (wpc \in {"evaluate", "perform", "reading", "checking", "select"} /\ queue # << >>)
    => signalled \/ pending \/ doDequeue

WorkerInv ==
  /\ WorkerTypeOK
  /\ ConnectionsBounded
  /\ OnePlace
  /\ ThreadRuns
  /\ AllMessagesRead
  /\ NoTransferLeft
  /\ DequeuesFirst
  /\ LooksAtQueue

\* Where a request that was handed to the worker can be.
Known == ToSet(queue) \cup ongoing \cup {r \in Requests : completed[r] = 1} \cup discarded

-----------------------------------------------------------------------------
(* The operators of the model *)

\* What an entry pushed at the end does to a queue.
LEMMA Pushed ==
  ASSUME NEW S, NEW s \in Seq(S), NEW e \in S
  PROVE  /\ Append(s, e) \in Seq(S)
         /\ Append(s, e) # << >>
         /\ ToSet(Append(s, e)) = ToSet(s) \cup {e}
         /\ IsInjective(s) /\ e \notin ToSet(s) => IsInjective(Append(s, e))
<1> DEFINE t == Append(s, e)
<1>1. /\ Len(s) \in Nat
      /\ DOMAIN s = 1..Len(s)
      /\ DOMAIN t = 1..(Len(s) + 1)
      /\ t \in Seq(S) /\ t # << >>
      /\ \A i \in DOMAIN s : t[i] = s[i]
      /\ t[Len(s) + 1] = e
  BY AppendProperties, LenProperties
<1>2. DOMAIN t = DOMAIN s \cup {Len(s) + 1}
  BY <1>1
<1> HIDE DEF t
<1>3. ToSet(t) = ToSet(s) \cup {e}
  BY <1>1, <1>2, Zenon DEF ToSet
<1>4. IsInjective(s) /\ e \notin ToSet(s) => IsInjective(t)
  BY <1>1, <1>2, Zenon DEF ToSet, IsInjective
<1>5. QED
  BY <1>1, <1>3, <1>4 DEF t

\* Taking the first n entries splits a queue in two parts with no entry in
\* common.
LEMMA Split ==
  ASSUME NEW S, NEW s \in Seq(S), NEW n \in 0..Len(s)
  PROVE  LET t     == SubSeq(s, n + 1, Len(s))
             front == {s[i] : i \in 1..n}
         IN  /\ t \in Seq(S)
             /\ front \subseteq S
             /\ ToSet(s) = front \cup ToSet(t)
             /\ IsInjective(s) => IsInjective(t) /\ front \cap ToSet(t) = {}
             /\ n = Len(s) => t = << >>
<1> DEFINE t     == SubSeq(s, n + 1, Len(s))
           front == {s[i] : i \in 1..n}
<1>1. Len(s) \in Nat /\ DOMAIN s = 1..Len(s) /\ \A i \in 1..Len(s) : s[i] \in S
  BY LenProperties, ElementOfSeq
<1>2. /\ t \in Seq(S)
      /\ Len(t) = Len(s) - n
      /\ \A i \in 1..(Len(s) - n) : t[i] = s[n + i]
  <2>1. \A i \in (n + 1)..Len(s) : s[i] \in S
    BY <1>1
  <2>2. /\ t \in Seq(S)
        /\ Len(t) = IF n + 1 <= Len(s) THEN Len(s) - (n + 1) + 1 ELSE 0
        /\ \A i \in 1..(Len(s) - (n + 1) + 1) : t[i] = s[n + 1 + i - 1]
    BY <1>1, <2>1, SubSeqProperties DEF t
  <2> HIDE DEF t
  <2>3. Len(s) - (n + 1) + 1 = Len(s) - n /\ Len(t) = Len(s) - n
    <3>1. \A k \in Nat : \A i \in 0..k :
             /\ k - (i + 1) + 1 = k - i
             /\ i + 1 <= k \/ k - i = 0
      OBVIOUS
    <3>2. QED
      BY <1>1, <2>2, <3>1
  <2>4. \A i \in 1..(Len(s) - n) : n + 1 + i - 1 = n + i
    BY <1>1
  <2>5. QED
    BY <2>2, <2>3, <2>4
<1>3. DOMAIN t = 1..(Len(s) - n)
  BY <1>2, LenProperties
<1> HIDE DEF t
<1>4. ToSet(s) = front \cup ToSet(t)
  <2>1. \A i \in 1..Len(s) : i \in 1..n \/ \E j \in 1..(Len(s) - n) : i = n + j
    <3> TAKE i \in 1..Len(s)
    <3>1. CASE i > n
      <4>1. i - n \in 1..(Len(s) - n) /\ i = n + (i - n)
        BY <1>1, <3>1
      <4>2. QED
        BY <4>1
    <3>2. CASE ~(i > n)
      BY <1>1, <3>2
    <3>3. QED
      BY <3>1, <3>2
  <2>2. \A j \in 1..(Len(s) - n) : n + j \in 1..Len(s)
    BY <1>1
  <2>3. \A i \in 1..n : i \in 1..Len(s)
    BY <1>1
  <2>4. ToSet(s) \subseteq front \cup ToSet(t)
    BY <1>1, <1>2, <1>3, <2>1 DEF ToSet
  <2>5. front \cup ToSet(t) \subseteq ToSet(s)
    BY <1>1, <1>2, <1>3, <2>2, <2>3 DEF ToSet
  <2>6. QED
    BY <2>4, <2>5
<1>5. ASSUME IsInjective(s)
      PROVE  IsInjective(t) /\ front \cap ToSet(t) = {}
  <2>1. \A i, j \in 1..Len(s) : s[i] = s[j] => i = j
    BY <1>1, <1>5 DEF IsInjective
  <2>2. IsInjective(t)
    BY <1>1, <1>2, <1>3, <2>1 DEF IsInjective
  <2>3. ASSUME NEW x \in front, x \in ToSet(t)
        PROVE  FALSE
    <3>1. PICK i \in 1..n : x = s[i]
      BY <2>3
    <3>2. PICK j \in 1..(Len(s) - n) : x = s[n + j]
      BY <1>2, <1>3, <2>3 DEF ToSet
    <3>3. i \in 1..Len(s) /\ n + j \in 1..Len(s) /\ i # n + j
      BY <1>1
    <3>4. QED
      BY <2>1, <3>1, <3>2, <3>3
  <2>4. QED
    BY <2>2, <2>3
<1>6. n = Len(s) => t = << >>
  BY <1>1, SubSeqEmpty DEF t
<1>7. front \subseteq S
  BY <1>1
<1>8. QED
  BY <1>2, <1>4, <1>5, <1>6, <1>7 DEF t

\* The first n entries are no more than n.
LEMMA FrontBounded ==
  ASSUME NEW s, NEW n \in Nat
  PROVE  LET front == {s[i] : i \in 1..n}
         IN  IsFiniteSet(front) /\ Cardinality(front) <= n
<1> DEFINE front == {s[i] : i \in 1..n}
           f     == [i \in 1..n |-> s[i]]
<1>1. f \in Surjection(1..n, front)
  BY DEF Surjection
<1>2. IsFiniteSet(1..n) /\ Cardinality(1..n) = n
  BY FS_Interval
<1>3. QED
  BY <1>1, <1>2, FS_Surjection

-----------------------------------------------------------------------------
(* The calls of application threads *)

\* -1, no request seen yet, is in the range of transfers_running.
LEMMA NoneSeen == -1 \in -1..MaxConnections
<1>1. MaxConnections \in Nat
  BY WorkerAssumption
<1>2. QED
  BY <1>1

\* A worker that nobody used is in its invariant and knows no request.
LEMMA WorkerInitInv == WorkerInit => WorkerInv /\ Known = {}
<1> SUFFICES ASSUME WorkerInit
             PROVE  WorkerInv /\ Known = {}
  OBVIOUS
<1> USE WorkerAssumption DEF WorkerInit
<1>1. ToSet(queue) = {} /\ IsInjective(queue) /\ queue \in Seq(Requests)
  BY DEF ToSet, IsInjective
<1>2. WorkerTypeOK
  BY <1>1, NoneSeen DEF WorkerTypeOK, WorkerPC
<1>3. ConnectionsBounded
  BY FS_EmptySet DEF ConnectionsBounded
<1>4. OnePlace /\ Known = {}
  BY <1>1 DEF OnePlace, Known
<1>5. ThreadRuns /\ AllMessagesRead /\ NoTransferLeft /\ DequeuesFirst /\ LooksAtQueue
  BY DEF ThreadRuns, AllMessagesRead, NoTransferLeft, DequeuesFirst, LooksAtQueue
<1>6. QED
  BY <1>2, <1>3, <1>4, <1>5 DEF WorkerInv

\* A step that moves no request keeps everything that is about the places of
\* requests, when no transfer or message comes from nowhere.
LEMMA NothingMoved ==
  ASSUME WorkerInv,
         UNCHANGED <<queue, ongoing, completed, discarded>>,
         active' \cup finished' \subseteq active \cup finished,
         active' \cap finished' = {}
  PROVE  OnePlace' /\ ConnectionsBounded' /\ Known' = Known
<1>1. ToSet(queue)' = ToSet(queue) /\ IsInjective(queue)' = IsInjective(queue)
  BY DEF ToSet, IsInjective
<1>2. QED
  BY <1>1 DEF WorkerInv, OnePlace, ConnectionsBounded, Known

\* A request that the worker does not know yet goes to the end of the queue.
LEMMA EnqueueInv ==
  ASSUME WorkerInv, NEW r \in Requests \ Known, Enqueue(r)
  PROVE  /\ WorkerInv'
         /\ Known' = Known \cup {r}
         /\ discarded' = discarded
<1> USE DEF WorkerInv
<1>1. /\ queue' \in Seq(Requests) /\ queue' # << >>
      /\ ToSet(queue)' = ToSet(queue) \cup {r}
      /\ IsInjective(queue)'
  BY Pushed DEF Enqueue, WorkerTypeOK, OnePlace, Known
<1>2. completed[r] = 0
  BY DEF WorkerTypeOK, OnePlace, Known
<1>3. OnePlace' /\ ConnectionsBounded'
  BY <1>1, <1>2 DEF Enqueue, OnePlace, ConnectionsBounded, Known, multi
<1>4. Known' = Known \cup {r}
  BY <1>1 DEF Enqueue, Known
<1>5. WorkerTypeOK'
  <2>1. /\ thread' \in BOOLEAN /\ runs' \in Nat /\ wpc' \in WorkerPC
        /\ transfersRunning' \in -1..MaxConnections
        /\ doDequeue' \in BOOLEAN /\ expired' \in BOOLEAN
    <3>1. CASE thread \/ abort \/ done
      BY <3>1 DEF Enqueue, PrepareThread, WorkerTypeOK, WorkerPC, loop
    <3>2. CASE ~(thread \/ abort \/ done)
      <4>1. thread' = TRUE /\ runs' = runs + 1 /\ wpc' = "init"
        BY <3>2 DEF Enqueue, PrepareThread
      <4>2. transfersRunning' = -1 /\ doDequeue' = TRUE /\ expired' = FALSE
        BY <3>2 DEF Enqueue, PrepareThread
      <4>3. runs' \in Nat
        BY <4>1 DEF WorkerTypeOK
      <4>4. wpc' \in WorkerPC
        BY <4>1 DEF WorkerPC
      <4>5. transfersRunning' \in -1..MaxConnections
        BY <4>2, NoneSeen
      <4>6. QED
        BY <4>1, <4>2, <4>3, <4>4, <4>5
    <3>3. QED
      BY <3>1, <3>2
  <2>2. QED
    BY <1>1, <2>1 DEF Enqueue, WorkerTypeOK, multi, flags
<1>6. ThreadRuns' /\ AllMessagesRead' /\ NoTransferLeft' /\ DequeuesFirst' /\ LooksAtQueue'
  BY DEF Enqueue, PrepareThread, Unlocked, ThreadRuns, AllMessagesRead, NoTransferLeft,
         DequeuesFirst, LooksAtQueue, WorkerTypeOK, multi, flags, loop
<1>7. QED
  BY <1>3, <1>4, <1>5, <1>6 DEF Enqueue

\* Close, CloseWhenFinished and the signal move no request.
LEMMA CallInv ==
  ASSUME WorkerInv, MarkClose \/ MarkAbort \/ Signal
  PROVE  WorkerInv' /\ Known' = Known /\ discarded' = discarded
<1> USE DEF WorkerInv, MarkClose, MarkAbort, Signal, flags, loop, multi, entries
<1>1. OnePlace' /\ ConnectionsBounded' /\ Known' = Known
  BY NothingMoved DEF OnePlace
<1>2. WorkerTypeOK'
  BY DEF WorkerTypeOK
<1>3. ThreadRuns' /\ AllMessagesRead' /\ NoTransferLeft' /\ DequeuesFirst' /\ LooksAtQueue'
  BY DEF ThreadRuns, AllMessagesRead, NoTransferLeft, DequeuesFirst, LooksAtQueue
<1>4. QED
  BY <1>1, <1>2, <1>3

\* Nor does any other call.
LEMMA WorkerUnchanged ==
  ASSUME WorkerInv, UNCHANGED workerVars
  PROVE  WorkerInv' /\ Known' = Known /\ discarded' = discarded
<1> USE DEF WorkerInv, workerVars, flags, loop, multi, entries
<1>1. OnePlace' /\ ConnectionsBounded' /\ Known' = Known
  BY NothingMoved DEF OnePlace
<1>2. WorkerTypeOK'
  BY DEF WorkerTypeOK
<1>3. ThreadRuns' /\ AllMessagesRead' /\ NoTransferLeft' /\ DequeuesFirst' /\ LooksAtQueue'
  BY DEF ThreadRuns, AllMessagesRead, NoTransferLeft, DequeuesFirst, LooksAtQueue
<1>4. QED
  BY <1>1, <1>2, <1>3

-----------------------------------------------------------------------------
(* The sections of the thread *)

\* The steps that move no request: the thread goes on, reads flags, sleeps or
\* ends.
Passes ==
  \/ InitMulti \/ InitThrows \/ Evaluate \/ AllRead \/ Check \/ CheckThrows
  \/ SelectSignalled \/ SelectOther \/ Expire \/ Leave \/ ResetThread \/ Unlock

\* They keep the invariant: an exception or Clean leaves no transfer, and the
\* loop forgets its reminder of the queue only to look at it.
LEMMA PassesInv ==
  ASSUME WorkerInv, Passes
  PROVE  WorkerInv' /\ Known' = Known /\ discarded' = discarded
<1> USE DEF WorkerInv, flags, loop, multi, entries
<1>1. /\ UNCHANGED <<queue, ongoing, completed, discarded>>
      /\ active' \in {active, {}} /\ finished' \in {finished, {}}
  BY DEF Passes, InitMulti, InitThrows, Evaluate, AllRead, Check, CheckThrows,
         SelectSignalled, SelectOther, Expire, Leave, ResetThread, Unlock
<1>2. OnePlace' /\ ConnectionsBounded' /\ Known' = Known
  BY <1>1, NothingMoved DEF OnePlace
<1>3. WorkerTypeOK'
  <2>1. CASE InitMulti \/ InitThrows \/ Evaluate \/ AllRead \/ Check \/ Unlock
    BY <2>1 DEF WorkerTypeOK, WorkerPC, InitMulti, InitThrows, Evaluate, AllRead,
                Check, Unlock
  <2>2. CASE CheckThrows \/ SelectSignalled \/ SelectOther
    BY <2>2 DEF WorkerTypeOK, WorkerPC, CheckThrows, SelectSignalled, SelectOther
  <2>3. CASE Expire \/ Leave \/ ResetThread
    BY <2>3 DEF WorkerTypeOK, WorkerPC, Expire, Leave, ResetThread
  <2>4. QED
    BY <2>1, <2>2, <2>3 DEF Passes
<1>4. ThreadRuns' /\ AllMessagesRead' /\ NoTransferLeft'
  BY DEF ThreadRuns, AllMessagesRead, NoTransferLeft, WorkerTypeOK, WorkerPC, Passes,
         InitMulti, InitThrows, Evaluate, AllRead, Check, CheckThrows,
         SelectSignalled, SelectOther, Expire, Leave, ResetThread, Unlock
<1>5. DequeuesFirst' /\ LooksAtQueue'
  BY DEF DequeuesFirst, LooksAtQueue, WorkerTypeOK, Passes,
         InitMulti, InitThrows, Evaluate, AllRead, Check, CheckThrows,
         SelectSignalled, SelectOther, Expire, Leave, ResetThread, Unlock
<1>6. QED
  BY <1>1, <1>2, <1>3, <1>4, <1>5

\* What Dequeue takes off the queue is there, and leaves the limit kept.
LEMMA TakenFits ==
  ASSUME WorkerInv
  PROVE  /\ Taken \in 0..Len(queue)
         /\ AllFit <=> Taken = Len(queue)
         /\ IsFiniteSet(ongoing)
         /\ Cardinality(ongoing) \in Nat
         /\ Cardinality(ongoing) + Taken <= MaxConnections
<1>1. Len(queue) \in Nat /\ MaxConnections \in Nat
  BY WorkerAssumption, LenProperties DEF WorkerInv, WorkerTypeOK
<1>2. IsFiniteSet(ongoing) /\ Cardinality(ongoing) \in Nat
  BY WorkerAssumption, FS_Subset, FS_CardinalityType DEF WorkerInv, WorkerTypeOK
<1>3. Cardinality(ongoing) <= MaxConnections
  BY DEF WorkerInv, ConnectionsBounded
<1>4. QED
  BY <1>1, <1>2, <1>3 DEF Taken, AllFit, Room

\* Requests from the front of the queue start: with those ongoing they are
\* within the limit.
LEMMA StartedBounded ==
  ASSUME WorkerInv, NEW n \in 0..Taken
  PROVE  Cardinality(ongoing \cup Started(n)) <= MaxConnections
<1>1. /\ Taken \in 0..Len(queue)
      /\ IsFiniteSet(ongoing) /\ Cardinality(ongoing) \in Nat
      /\ Cardinality(ongoing) + Taken <= MaxConnections
  BY TakenFits
<1>2. Len(queue) \in Nat /\ MaxConnections \in Nat
  BY WorkerAssumption, LenProperties DEF WorkerInv, WorkerTypeOK
<1>3. n \in Nat /\ n <= Taken
  BY <1>1, <1>2
<1>4. IsFiniteSet(Started(n)) /\ Cardinality(Started(n)) <= n
  BY <1>3, FrontBounded DEF Started
<1>5. IsFiniteSet(ongoing \cap Started(n))
  BY <1>1, FS_Intersection
<1>6. /\ Cardinality(ongoing \cup Started(n)) =
            Cardinality(ongoing) + Cardinality(Started(n)) - Cardinality(ongoing \cap Started(n))
      /\ Cardinality(ongoing \cap Started(n)) \in Nat /\ Cardinality(Started(n)) \in Nat
  BY <1>1, <1>4, <1>5, FS_Union, FS_CardinalityType
<1>7. QED
  BY <1>1, <1>2, <1>3, <1>4, <1>6

\* The entries of the queue part in those that Dequeue takes and those that
\* stay.
LEMMA TakenSplit ==
  ASSUME WorkerInv
  PROVE  LET rest == SubSeq(queue, Taken + 1, Len(queue))
         IN  /\ rest \in Seq(Requests) /\ IsInjective(rest)
             /\ Started(Taken) \subseteq Requests
             /\ ToSet(queue) = Started(Taken) \cup ToSet(rest)
             /\ Started(Taken) \cap ToSet(rest) = {}
             /\ AllFit => rest = << >>
<1>1. Taken \in 0..Len(queue) /\ (AllFit <=> Taken = Len(queue))
  BY TakenFits
<1>2. queue \in Seq(Requests) /\ IsInjective(queue)
  BY DEF WorkerInv, WorkerTypeOK, OnePlace
<1>3. QED
  BY <1>1, <1>2, Split DEF Started

\* Dequeue: the requests taken become ongoing, the others stay, and the loop
\* remembers that there are some.
LEMMA DequeueInv ==
  ASSUME WorkerInv, Dequeue
  PROVE  WorkerInv' /\ Known' = Known /\ discarded' = discarded
<1> DEFINE rest == SubSeq(queue, Taken + 1, Len(queue))
<1>1. /\ rest \in Seq(Requests) /\ IsInjective(rest)
      /\ Started(Taken) \subseteq Requests
      /\ ToSet(queue) = Started(Taken) \cup ToSet(rest)
      /\ Started(Taken) \cap ToSet(rest) = {}
      /\ AllFit => rest = << >>
  BY TakenSplit
<1>2. queue' = rest
  BY DEF Dequeue
<1>3. ConnectionsBounded'
  BY TakenFits, StartedBounded DEF Dequeue, ConnectionsBounded
<1> HIDE DEF rest
<1>4. ToSet(queue)' = ToSet(rest) /\ IsInjective(queue)'
  BY <1>1, <1>2
<1>5. OnePlace' /\ Known' = Known
  BY <1>1, <1>4 DEF Dequeue, WorkerInv, OnePlace, Known, AllMessagesRead
<1>6. WorkerTypeOK'
  <2>1. wpc' \in WorkerPC /\ pending' \in BOOLEAN
    BY DEF Dequeue, WorkerPC
  <2>2. QED
    BY <1>1, <1>2, <2>1 DEF Dequeue, WorkerInv, WorkerTypeOK, flags
<1>7. ThreadRuns' /\ AllMessagesRead' /\ NoTransferLeft' /\ DequeuesFirst'
  BY DEF Dequeue, WorkerInv, ThreadRuns, AllMessagesRead, NoTransferLeft, DequeuesFirst
<1>8. LooksAtQueue'
  BY <1>1, <1>2 DEF Dequeue, LooksAtQueue
<1>9. QED
  BY <1>3, <1>5, <1>6, <1>7, <1>8 DEF Dequeue, WorkerInv

\* The exception in Dequeue: some of the requests taken are ongoing without a
\* transfer, the others are destroyed.
LEMMA DequeueThrowsInv ==
  ASSUME WorkerInv, DequeueThrows
  PROVE  WorkerInv' /\ Known' = Known
<1> DEFINE rest == SubSeq(queue, Taken + 1, Len(queue))
<1>1. /\ rest \in Seq(Requests) /\ IsInjective(rest)
      /\ Started(Taken) \subseteq Requests
      /\ ToSet(queue) = Started(Taken) \cup ToSet(rest)
      /\ Started(Taken) \cap ToSet(rest) = {}
  BY TakenSplit
<1>2. queue' = rest
  BY DEF DequeueThrows
<1>3. PICK n \in 1..Taken : /\ ongoing' = ongoing \cup Started(n)
                            /\ discarded' = discarded \cup (Started(Taken) \ Started(n))
  BY DEF DequeueThrows
<1>4. n \in 0..Taken /\ 1..n \subseteq 1..Taken
  BY TakenFits, LenProperties DEF WorkerInv, WorkerTypeOK
<1>5. Started(n) \subseteq Started(Taken)
  BY <1>4 DEF Started
<1>6. ConnectionsBounded'
  BY <1>3, <1>4, StartedBounded DEF ConnectionsBounded
<1> HIDE DEF rest
<1>7. ToSet(queue)' = ToSet(rest) /\ IsInjective(queue)'
  BY <1>1, <1>2
<1>8. completed' = completed /\ active' = {} /\ finished' = {}
  BY DEF DequeueThrows
<1>9. OnePlace'
  BY <1>1, <1>3, <1>5, <1>7, <1>8 DEF WorkerInv, OnePlace
<1>10. Known' = Known
  BY <1>1, <1>3, <1>5, <1>7, <1>8 DEF Known
<1>11. WorkerTypeOK'
  <2>1. wpc' \in WorkerPC /\ pending' \in BOOLEAN
    BY DEF DequeueThrows, WorkerPC
  <2>2. QED
    BY <1>1, <1>2, <1>3, <1>5, <1>8, <2>1
    DEF DequeueThrows, WorkerInv, WorkerTypeOK, flags, loop
<1>12. ThreadRuns' /\ AllMessagesRead' /\ NoTransferLeft' /\ DequeuesFirst' /\ LooksAtQueue'
  BY DEF DequeueThrows, WorkerInv, ThreadRuns, AllMessagesRead, NoTransferLeft,
         DequeuesFirst, LooksAtQueue, flags, loop
<1>13. QED
  BY <1>6, <1>9, <1>10, <1>11, <1>12 DEF WorkerInv

\* Perform turns transfers into messages.
LEMMA PerformInv ==
  ASSUME WorkerInv, Perform
  PROVE  WorkerInv' /\ Known' = Known /\ discarded' = discarded
<1> DEFINE running(ended) ==
      IF Cardinality(active \ ended) = 0 /\ transfersRunning = -1
        THEN -1 ELSE Cardinality(active \ ended)
<1>1. PICK ended \in SUBSET active :
         /\ active' = active \ ended
         /\ finished' = finished \cup ended
         /\ transfersRunning' = running(ended)
         /\ expired' = (expired /\ running(ended) <= 0)
         /\ wpc' = IF running(ended) <= 0 /\ expired THEN "leaving" ELSE "reading"
  BY DEF Perform
<1>2. transfersRunning' \in -1..MaxConnections
  <2>1. IsFiniteSet(ongoing) /\ Cardinality(ongoing) <= MaxConnections
    BY WorkerAssumption, FS_Subset DEF WorkerInv, WorkerTypeOK, ConnectionsBounded
  <2>2. active \ ended \in SUBSET ongoing
    BY DEF WorkerInv, OnePlace
  <2>3. Cardinality(active \ ended) \in Nat /\ Cardinality(active \ ended) <= Cardinality(ongoing)
    BY <2>1, <2>2, FS_Subset, FS_CardinalityType
  <2>4. MaxConnections \in Nat /\ Cardinality(ongoing) \in Nat
    BY <2>1, WorkerAssumption, FS_CardinalityType
  <2>5. Cardinality(active \ ended) \in -1..MaxConnections
    BY <2>1, <2>3, <2>4
  <2>6. QED
    BY <1>1, <2>5, NoneSeen
<1>3. /\ wpc = "perform" /\ wpc' \in {"leaving", "reading"} /\ expired' \in BOOLEAN
      /\ UNCHANGED <<thread, runs, signalled, flags, doDequeue, entries>>
  BY <1>1 DEF Perform
<1> HIDE DEF running
<1>4. OnePlace' /\ ConnectionsBounded' /\ Known' = Known
  BY <1>1, <1>3, NothingMoved DEF WorkerInv, OnePlace, entries
<1>5. WorkerTypeOK'
  BY <1>1, <1>2, <1>3 DEF WorkerInv, WorkerTypeOK, WorkerPC, flags, entries
<1>6. ThreadRuns' /\ AllMessagesRead' /\ NoTransferLeft' /\ DequeuesFirst' /\ LooksAtQueue'
  BY <1>3 DEF WorkerInv, ThreadRuns, AllMessagesRead, NoTransferLeft, DequeuesFirst,
              LooksAtQueue, entries
<1>7. QED
  BY <1>3, <1>4, <1>5, <1>6 DEF WorkerInv, entries

\* A completion runs once: its request was ongoing and is no longer.
LEMMA CompleteInv ==
  ASSUME WorkerInv, NEW r \in Requests, Complete(r)
  PROVE  WorkerInv' /\ Known' = Known /\ discarded' = discarded
<1> USE DEF WorkerInv
<1>1. /\ completed[r] = 0
      /\ completed' \in [Requests -> Nat]
      /\ completed'[r] = 1
      /\ \A q \in Requests \ {r} : completed'[q] = completed[q]
  BY DEF Complete, OnePlace, WorkerTypeOK
<1>2. /\ r \in ongoing /\ r \in finished
      /\ ongoing' = ongoing \ {r} /\ finished' = finished \ {r} /\ active' = active
      /\ queue' = queue /\ discarded' = discarded
  BY DEF Complete
<1>3. ToSet(queue)' = ToSet(queue) /\ IsInjective(queue)' = IsInjective(queue)
  BY <1>2 DEF ToSet, IsInjective
<1>4. OnePlace'
  BY <1>1, <1>2, <1>3 DEF OnePlace
<1>5. Known' = Known
  BY <1>1, <1>2, <1>3 DEF Known, OnePlace, WorkerTypeOK
<1>6. ConnectionsBounded'
  <2>1. IsFiniteSet(ongoing) /\ ongoing' \in SUBSET ongoing /\ MaxConnections \in Nat
    BY <1>2, WorkerAssumption, FS_Subset DEF WorkerTypeOK
  <2>2. /\ Cardinality(ongoing') <= Cardinality(ongoing)
        /\ Cardinality(ongoing') \in Nat /\ Cardinality(ongoing) \in Nat
    BY <2>1, FS_Subset, FS_CardinalityType
  <2>3. QED
    BY <2>1, <2>2 DEF ConnectionsBounded
<1>7. WorkerTypeOK'
  <2>1. expired' \in BOOLEAN
    BY WorkerAssumption DEF Complete, WorkerTypeOK
  <2>2. QED
    BY <1>1, <1>2, <2>1 DEF Complete, WorkerTypeOK, flags
<1>8. ThreadRuns' /\ AllMessagesRead' /\ NoTransferLeft' /\ DequeuesFirst' /\ LooksAtQueue'
  BY DEF Complete, ThreadRuns, AllMessagesRead, NoTransferLeft, DequeuesFirst, LooksAtQueue
<1>9. QED
  BY <1>2, <1>4, <1>5, <1>6, <1>7, <1>8

\* No section of the thread breaks the invariant or loses a request, and only
\* a libcurl that may fail makes it destroy one.
LEMMA WorkerStepInv ==
  ASSUME WorkerInv, WorkerStep
  PROVE  WorkerInv' /\ Known' = Known /\ (CurlMayFail \/ discarded' = discarded)
<1>1. CASE Dequeue
  BY <1>1, DequeueInv
<1>2. CASE DequeueThrows
  BY <1>2, DequeueThrowsInv DEF DequeueThrows
<1>3. CASE Perform
  BY <1>3, PerformInv
<1>4. CASE \E r \in Requests : Complete(r)
  BY <1>4, CompleteInv
<1>5. CASE Passes
  BY <1>5, PassesInv
<1>6. QED
  BY <1>1, <1>2, <1>3, <1>4, <1>5 DEF WorkerStep, LoopStep, Passes

=============================================================================
