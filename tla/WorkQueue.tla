------------------------------- MODULE WorkQueue --------------------------------
(***************************************************************************)
(* The thread pool of the support library (phlib/workqueue.c) with the     *)
(* rundown protection that keeps a queue alive for its threads             *)
(* (phlib/sync.c) and the condition variable of PhWaitForWorkQueue         *)
(* (phlib/queuedlock.c).                                                   *)
(*                                                                         *)
(* A section under QueueLock is one step.  StateLock is a variable because *)
(* a new thread runs before its creator, inside the lock, has counted it.  *)
(* The semaphore and threads are external.  Each item is queued once, by a *)
(* client or, for the nested ones, by a running work item.  Clients are    *)
(* out of the queue when it is deleted, work items need not be.            *)
(***************************************************************************)
EXTENDS Naturals, Sequences, FiniteSets

CONSTANTS
  Item,          \* work items
  Nested,        \* those that a work item queues
  Worker,        \* threads; enough of them that one is free
  Waiter,        \* threads that call PhWaitForWorkQueue once
  Minimum,       \* values of MinimumThreads to start with
  MaximumThreads,
  CreateFails,   \* PhCreateThread may fail
  None

ASSUME WorkQueueAssumption ==
  /\ Nested \subseteq Item
  /\ IsFiniteSet(Worker)
  /\ Minimum \subseteq Nat
  /\ MaximumThreads \in Nat
  /\ CreateFails \in BOOLEAN
  /\ None \notin Item \cup Worker

VARIABLES
  queue,        \* QueueListHead
  busyCount,    \* BusyCount
  permits,      \* the count of the semaphore
  semaphore,    \* SemaphoreHandle is set
  threads,      \* CurrentThreads
  minimum,      \* MinimumThreads
  stateLock,    \* the producer inside StateLock, or None
  terminating,  \* Terminating
  references,   \* the count of RundownProtect
  rundown,      \* PH_RUNDOWN_ACTIVE
  condition,    \* the waiters on QueueEmptyCondition, the oldest first
  ppc,          \* where the call that queues an item is
  host,         \* the thread whose work item makes that call
  wpc,          \* where a thread is
  work,         \* its workQueueItem
  vpc,          \* where a waiter is
  dpc,          \* where PhDeleteWorkQueue is
  executed,     \* how often the function of an item was called
  destroyed     \* how often an item was destroyed

vars == <<queue, busyCount, permits, semaphore, threads, minimum, stateLock,
          terminating, references, rundown, condition, ppc, host, wpc, work,
          vpc, dpc, executed, destroyed>>

items     == <<executed, destroyed>>
deletion  == <<terminating, rundown, dpc>>
waits     == <<condition, vpc>>
producers == <<ppc, host>>

Produce(i, to) == ppc' = [ppc EXCEPT ![i] = to]
Go(w, to)      == wpc' = [wpc EXCEPT ![w] = to]

-----------------------------------------------------------------------------
(***************************************************************************)
(* PhQueueItemWorkQueueEx.                                                 *)
(***************************************************************************)

\* A client may call until the queue is deleted, a work item while it runs.
MayQueue(i, w) ==
  /\ ppc[i] = "new"
  /\ IF i \in Nested THEN w # None /\ wpc[w] = "execute" ELSE w = None /\ dpc = "live"

\* The item is inserted under QueueLock and counted.
PhQueueItemWorkQueueEx(i, w) ==
  /\ MayQueue(i, w)
  /\ queue' = Append(queue, i)
  /\ busyCount' = busyCount + 1
  /\ host' = [host EXCEPT ![i] = w]
  /\ Produce(i, "signal")
  /\ UNCHANGED <<permits, semaphore, threads, minimum, stateLock, references,
                 wpc, work, deletion, waits, items>>

\* Mutant: the semaphore is released only for the first item of a queue.
SignalSemaphore_first(i) ==
  /\ ppc[i] = "signal"
  /\ semaphore' = TRUE
  /\ permits' = IF Len(queue) = 1 THEN permits + 1 ELSE permits
  /\ Produce(i, "check")
  /\ UNCHANGED <<queue, busyCount, threads, minimum, stateLock, references,
                 host, wpc, work, deletion, waits, items>>

\* PhpGetSemaphoreWorkQueue (the loser of a race closes the semaphore it made)
\* and NtReleaseSemaphore.
SignalSemaphore(i) ==
  /\ ppc[i] = "signal"
  /\ semaphore' = TRUE
  /\ permits' = permits + 1
  /\ Produce(i, "check")
  /\ UNCHANGED <<queue, busyCount, threads, minimum, stateLock, references,
                 host, wpc, work, deletion, waits, items>>

\* Are all threads busy, and may there be more?
CheckThreads(i) ==
  /\ ppc[i] = "check"
  /\ Produce(i, IF busyCount >= threads /\ threads < MaximumThreads
                  THEN "lock" ELSE "done")
  /\ UNCHANGED <<queue, busyCount, permits, semaphore, threads, minimum, stateLock,
                 references, host, wpc, work, deletion, waits, items>>

\* PhCreateThread.  Threads are interchangeable: which name that is free the new
\* one gets makes no difference.
StartThread ==
  LET free == {w \in Worker : wpc[w] = "none"} IN
  /\ free # {}
  /\ Go(CHOOSE w \in free : TRUE, "start")

\* Under StateLock: the check again, PhAcquireRundownProtection and
\* PhCreateThread.
PhpCreateWorkQueueThread(i) ==
  /\ ppc[i] = "lock" /\ stateLock = None
  /\ \/ /\ threads < MaximumThreads /\ ~rundown
        /\ StartThread
        /\ references' = references + 1
        /\ stateLock' = i
        /\ Produce(i, "count")
     \/ /\ threads >= MaximumThreads \/ rundown \/ CreateFails
        /\ Produce(i, "done")
        /\ UNCHANGED <<wpc, references, stateLock>>
  /\ UNCHANGED <<queue, busyCount, permits, semaphore, threads, minimum, host,
                 work, deletion, waits, items>>

\* The new thread is counted and StateLock released.
CountThread(i) ==
  /\ ppc[i] = "count"
  /\ threads' = threads + 1
  /\ stateLock' = None
  /\ Produce(i, "done")
  /\ UNCHANGED <<queue, busyCount, permits, semaphore, minimum, references,
                 host, wpc, work, deletion, waits, items>>

-----------------------------------------------------------------------------
(***************************************************************************)
(* PhpWorkQueueThreadStart.                                                *)
(***************************************************************************)

\* The top of the loop: leave if there are too many threads, make sure of the
\* semaphore, and wait unless the queue is being deleted.
TopOfLoop(w) ==
  /\ wpc[w] = "start"
  /\ IF threads > MaximumThreads /\ threads > minimum
       THEN /\ stateLock = None
            /\ threads' = threads - 1
            /\ Go(w, "leave")
            /\ UNCHANGED semaphore
       ELSE /\ semaphore' = TRUE
            /\ Go(w, IF terminating THEN "idle" ELSE "wait")
            /\ UNCHANGED threads
  /\ UNCHANGED <<queue, busyCount, permits, minimum, stateLock, references,
                 producers, work, deletion, waits, items>>

\* NtWaitForSingleObject takes a permit, or times out when there is none.
WaitForWork(w) ==
  /\ wpc[w] = "wait"
  /\ IF permits > 0
       THEN permits' = permits - 1 /\ Go(w, "woken")
       ELSE Go(w, "idle") /\ UNCHANGED permits
  /\ UNCHANGED <<queue, busyCount, semaphore, threads, minimum, stateLock, references,
                 producers, work, deletion, waits, items>>

\* Terminating is read again.
Woken(w) ==
  /\ wpc[w] = "woken"
  /\ Go(w, IF terminating THEN "idle" ELSE "dequeue")
  /\ UNCHANGED <<queue, busyCount, permits, semaphore, threads, minimum, stateLock,
                 references, producers, work, deletion, waits, items>>

\* PhPulseCondition wakes the oldest waiter, under the lock of the queue.
PhPulseCondition ==
  IF condition = << >>
    THEN UNCHANGED waits
    ELSE /\ condition' = Tail(condition)
         /\ vpc' = [vpc EXCEPT ![Head(condition)] = "lock"]

\* Mutant: the item is not taken off the list.
Dequeue_peek(w) ==
  /\ wpc[w] = "dequeue"
  /\ queue # << >>
  /\ work' = [work EXCEPT ![w] = Head(queue)]
  /\ queue' \in {queue, Tail(queue)}
  /\ Go(w, "execute")
  /\ UNCHANGED <<busyCount, permits, semaphore, threads, minimum, stateLock,
                 references, producers, deletion, waits, items>>

\* RemoveHeadList under QueueLock, and a pulse when that leaves the list empty.
\* "Make sure we got work."
Dequeue(w) ==
  /\ wpc[w] = "dequeue"
  /\ IF queue = << >>
       THEN Go(w, "start") /\ UNCHANGED <<queue, work>>
       ELSE /\ queue' = Tail(queue)
            /\ work' = [work EXCEPT ![w] = Head(queue)]
            /\ Go(w, "execute")
  /\ IF queue' = << >> THEN PhPulseCondition ELSE UNCHANGED waits
  /\ UNCHANGED <<busyCount, permits, semaphore, threads, minimum, stateLock,
                 references, producers, deletion, items>>

\* PhpDestroyWorkQueueItem, for a set of items.
PhpDestroyWorkQueueItem(S) ==
  destroyed' = [i \in Item |-> IF i \in S THEN destroyed[i] + 1 ELSE destroyed[i]]

\* The function returns, having finished the calls it made, and the item is
\* destroyed.
PhpExecuteWorkQueueItem(w) ==
  /\ wpc[w] = "execute"
  /\ \A i \in Item : host[i] = w => ppc[i] = "done"
  /\ executed' = [executed EXCEPT ![work[w]] = @ + 1]
  /\ busyCount' = busyCount - 1
  /\ PhpDestroyWorkQueueItem({work[w]})
  /\ work' = [work EXCEPT ![w] = None]
  /\ host' = [i \in Item |-> IF host[i] = w THEN None ELSE host[i]]
  /\ Go(w, "start")
  /\ UNCHANGED <<queue, permits, semaphore, threads, minimum, stateLock, references,
                 ppc, deletion, waits>>

\* No work, or the end: under StateLock the thread counts itself out if it may.
LeaveOrStay(w) ==
  /\ wpc[w] = "idle" /\ stateLock = None
  /\ IF terminating \/ threads > minimum
       THEN threads' = threads - 1 /\ Go(w, "leave")
       ELSE Go(w, "start") /\ UNCHANGED threads
  /\ UNCHANGED <<queue, busyCount, permits, semaphore, minimum, stateLock, references,
                 producers, work, deletion, waits, items>>

\* Mutant: the reference is kept.
PhReleaseRundownProtection_missing(w) ==
  /\ wpc[w] = "leave"
  /\ Go(w, "none")
  /\ UNCHANGED <<queue, busyCount, permits, semaphore, threads, minimum, stateLock,
                 references, producers, work, deletion, waits, items>>

\* PhReleaseRundownProtection, the last thing a thread does with the queue.
PhReleaseRundownProtection(w) ==
  /\ wpc[w] = "leave"
  /\ references' = references - 1
  /\ Go(w, "none")
  /\ UNCHANGED <<queue, busyCount, permits, semaphore, threads, minimum, stateLock,
                 producers, work, deletion, waits, items>>

-----------------------------------------------------------------------------
(***************************************************************************)
(* PhWaitForWorkQueue and PhDeleteWorkQueue.                               *)
(***************************************************************************)

\* Under QueueLock: return if the list is empty, else wait for the condition.
PhWaitForWorkQueue(v) ==
  /\ (vpc[v] = "new" /\ dpc = "live") \/ vpc[v] = "lock"
  /\ IF queue = << >>
       THEN vpc' = [vpc EXCEPT ![v] = "returned"] /\ UNCHANGED condition
       ELSE /\ condition' = Append(condition, v)
            /\ vpc' = [vpc EXCEPT ![v] = "sleep"]
  /\ UNCHANGED <<queue, busyCount, permits, semaphore, threads, minimum, stateLock,
                 references, producers, wpc, work, deletion, items>>

\* No client is inside the queue any more when it is deleted.
ClientsAreOut ==
  /\ \A i \in Item \ Nested : ppc[i] \in {"new", "done"}
  /\ \A v \in Waiter : vpc[v] \in {"new", "returned"}

\* Terminating is set first.
PhDeleteWorkQueue ==
  /\ dpc = "live" /\ ClientsAreOut
  /\ terminating' = TRUE
  /\ dpc' = "release"
  /\ UNCHANGED <<queue, busyCount, permits, semaphore, threads, minimum, stateLock,
                 references, rundown, producers, wpc, work, waits, items>>

\* One permit for every thread that is counted at the moment.
ReleaseThreads ==
  /\ dpc = "release"
  /\ permits' = IF semaphore THEN permits + threads ELSE permits
  /\ dpc' = "rundown"
  /\ UNCHANGED <<queue, busyCount, semaphore, threads, minimum, stateLock, references,
                 terminating, rundown, producers, wpc, work, waits, items>>

\* PhWaitForRundownProtection: no more references are given, and those there
\* are are waited for.
PhWaitForRundownProtection ==
  /\ dpc = "rundown"
  /\ ~rundown \/ references = 0
  /\ rundown' = TRUE
  /\ dpc' = IF references = 0 THEN "free" ELSE "rundown"
  /\ UNCHANGED <<queue, busyCount, permits, semaphore, threads, minimum, stateLock,
                 references, terminating, producers, wpc, work, waits, items>>

\* "Free all un-executed work items."
FreeItems ==
  /\ dpc = "free"
  /\ PhpDestroyWorkQueueItem({queue[k] : k \in 1 .. Len(queue)})
  /\ dpc' = "deleted"
  /\ UNCHANGED <<queue, busyCount, permits, semaphore, threads, minimum, stateLock,
                 references, terminating, rundown, producers, wpc, work, waits, executed>>

-----------------------------------------------------------------------------
\* PhInitializeWorkQueue.
Init ==
  /\ queue = << >> /\ busyCount = 0
  /\ permits = 0 /\ semaphore = FALSE
  /\ threads = 0 /\ minimum \in Minimum
  /\ stateLock = None
  /\ terminating = FALSE
  /\ references = 0 /\ rundown = FALSE
  /\ condition = << >>
  /\ ppc = [i \in Item |-> "new"]
  /\ host = [i \in Item |-> None]
  /\ wpc = [w \in Worker |-> "none"]
  /\ work = [w \in Worker |-> None]
  /\ vpc = [v \in Waiter |-> "new"]
  /\ dpc = "live"
  /\ executed = [i \in Item |-> 0]
  /\ destroyed = [i \in Item |-> 0]

ProducerStep(i) ==
  \/ SignalSemaphore(i)
  \/ CheckThreads(i)
  \/ PhpCreateWorkQueueThread(i)
  \/ CountThread(i)

WorkerStep(w) ==
  \/ TopOfLoop(w)
  \/ WaitForWork(w)
  \/ Woken(w)
  \/ Dequeue(w)
  \/ PhpExecuteWorkQueueItem(w)
  \/ LeaveOrStay(w)
  \/ PhReleaseRundownProtection(w)

DeleterStep ==
  \/ ReleaseThreads
  \/ PhWaitForRundownProtection
  \/ FreeItems

Next ==
  \/ \E i \in Item : (\E w \in Worker \cup {None} : PhQueueItemWorkQueueEx(i, w))
                       \/ ProducerStep(i)
  \/ \E w \in Worker : WorkerStep(w)
  \/ \E v \in Waiter : PhWaitForWorkQueue(v)
  \/ PhDeleteWorkQueue
  \/ DeleterStep

Spec == Init /\ [][Next]_vars

\* Threads inside the queue run, its waits end, and work items return.  Nobody
\* has to queue anything, to wait or to delete the queue.
Fairness ==
  /\ \A i \in Item : WF_vars(ProducerStep(i))
  /\ \A w \in Worker : WF_vars(WorkerStep(w))
  /\ \A v \in Waiter : WF_vars(vpc[v] = "lock" /\ PhWaitForWorkQueue(v))
  /\ WF_vars(DeleterStep)

FairSpec == Spec /\ Fairness

-----------------------------------------------------------------------------
(***************************************************************************)
(* Properties.                                                             *)
(***************************************************************************)

Workers(S) == {w \in Worker : wpc[w] \in S}
Calls(S)   == {i \in Item : ppc[i] \in S}

\* The types of the state.
TypeOK ==
  /\ queue \in Seq(Item) /\ busyCount \in Nat
  /\ permits \in Nat /\ semaphore \in BOOLEAN
  /\ threads \in 0 .. MaximumThreads /\ minimum \in Minimum
  /\ stateLock \in Item \cup {None}
  /\ terminating \in BOOLEAN /\ rundown \in BOOLEAN
  /\ references \in Nat
  /\ condition \in Seq(Waiter)
  /\ ppc \in [Item -> {"new", "signal", "check", "lock", "count", "done"}]
  /\ host \in [Item -> Worker \cup {None}]
  /\ wpc \in [Worker -> {"none", "start", "wait", "woken", "dequeue", "execute",
                         "idle", "leave"}]
  /\ work \in [Worker -> Item \cup {None}]
  /\ vpc \in [Waiter -> {"new", "sleep", "lock", "returned"}]
  /\ dpc \in {"live", "release", "rundown", "free", "deleted"}
  /\ executed \in [Item -> Nat] /\ destroyed \in [Item -> Nat]

\* The semaphore and the list are changed in separate steps of producers and
\* threads: until the queue is deleted, each item in the list has one permit, or
\* a producer about to release it, or a thread that has taken it and will
\* dequeue.
PermitForEveryItem ==
  ~terminating =>
    Len(queue) = permits + Cardinality(Calls({"signal"}))
                         + Cardinality(Workers({"woken", "dequeue"}))

\* CurrentThreads, read without StateLock by producers, by threads and by
\* PhDeleteWorkQueue, is the number of threads that have not counted themselves
\* out, but for the one its creator is about to count; BusyCount is the number
\* of items queued or running.
CountsAreTrue ==
  /\ threads + Cardinality(Calls({"count"})) =
       Cardinality(Worker) - Cardinality(Workers({"none", "leave"}))
  /\ busyCount = Len(queue) + Cardinality(Workers({"execute"}))

\* List, semaphore and counters, each changed in a step of its own, agree but
\* for the steps under way.
QueueInv == TypeOK /\ PermitForEveryItem /\ CountsAreTrue

\* "Make sure the structure doesn't get deleted while the thread is running":
\* items are freed, and PhDeleteWorkQueue returns, when no thread is left.
QueueOutlivesThreads == dpc \in {"free", "deleted"} => Workers({"none"}) = Worker

\* An item is executed once at most and destroyed once, by the thread that ran
\* it or by PhDeleteWorkQueue.
ItemEndsOnce ==
  \A i \in Item :
    /\ executed[i] <= destroyed[i] /\ destroyed[i] <= 1
    /\ dpc = "deleted" /\ ppc[i] # "new" => destroyed[i] = 1

\* The end of the queue: threads before items, items before the queue, and no
\* item twice.
EndInv == QueueOutlivesThreads /\ ItemEndsOnce

\* No thread is left and no call that could create one.
Abandoned == Workers({"none"}) = Worker /\ Calls({"signal", "check", "lock", "count"}) = {}

InQueue(i) == \E k \in 1 .. Len(queue) : queue[k] = i

\* "Signal the semaphore once to let a worker thread continue": an item that is
\* queued is executed or freed, unless the queue is left without a thread.  That
\* can happen when a thread cannot be created, and also when the threads time out
\* as the item arrives: they are still counted, so none is created, and then
\* they leave, as the minimum of 0 of the global queue lets them.
EveryItemEnds ==
  \A i \in Item : InQueue(i) ~> (destroyed[i] = 1 \/ Abandoned)

\* A deletion waits for its threads and for nothing else.
DeleteReturns == dpc = "release" ~> dpc = "deleted"

\* When the list is emptied a sleeping waiter returns.  It may be another one:
\* PhPulseCondition wakes a single waiter.
SomeWaitReturns ==
  (\E v \in Waiter : vpc[v] = "sleep") ~>
    ((\E v \in Waiter : vpc[v] = "returned") \/ Abandoned)

\* The queue is served: its items end, and somebody who waits for that goes on.
QueueIsServed == EveryItemEnds /\ SomeWaitReturns

=============================================================================
