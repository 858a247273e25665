----------------------------- MODULE WorkQueueProofs -----------------------------
(***************************************************************************)
(* The list, the semaphore and the counters of a work queue agree, threads *)
(* are gone before the queue is, and no item is destroyed twice, for any   *)
(* number of items, threads and waiters.                                   *)
(***************************************************************************)
EXTENDS WorkQueue, FiniteSetTheorems, SequenceTheorems, TLAPS

\* The numbers the counters of the queue are compared with.
Absent     == Cardinality(Workers({"none"}))
Gone       == Cardinality(Workers({"none", "leave"}))
Busy       == Cardinality(Workers({"execute"}))
Awake      == Cardinality(Workers({"woken", "dequeue"}))
Signalling == Cardinality(Calls({"signal"}))

\* The counters; the thread that is counted late is counted by the one call inside
\* StateLock, and every thread holds a reference to the queue.
CountInv ==
  /\ references = Cardinality(Worker) - Absent
  /\ threads + (IF stateLock = None THEN 0 ELSE 1) = Cardinality(Worker) - Gone
  /\ busyCount = Len(queue) + Busy
  /\ ~terminating => Len(queue) = permits + Signalling + Awake

ThreadInv ==
  /\ \A i \in Item : ppc[i] = "count" <=> stateLock = i
  /\ stateLock # None => threads < MaximumThreads
  /\ IsFiniteSet(Calls({"signal"}))

\* The steps of PhDeleteWorkQueue in their order.
DeleteInv ==
  /\ dpc = "live" <=> ~terminating
  /\ dpc \in {"free", "deleted"} => rundown /\ \A w \in Worker : wpc[w] = "none"

Worked(i) == \E w \in Worker : work[w] = i

\* An item is nowhere before it is queued, in the list or in the hands of one
\* thread until it is destroyed, and nowhere again (but for the list that
\* PhDeleteWorkQueue frees with the queue).
ItemInv ==
  /\ \A j, k \in 1 .. Len(queue) : queue[j] = queue[k] => j = k
  /\ \A w \in Worker : wpc[w] = "execute" <=> work[w] # None
  /\ \A v, w \in Worker : (work[v] = work[w] /\ work[v] # None) => v = w
  /\ \A i \in Item :
       /\ ppc[i] = "new" =>
            ~InQueue(i) /\ ~Worked(i) /\ executed[i] = 0 /\ destroyed[i] = 0
       /\ InQueue(i) => ~Worked(i)
       /\ (InQueue(i) /\ dpc # "deleted") \/ Worked(i) =>
            executed[i] = 0 /\ destroyed[i] = 0
       /\ InQueue(i) /\ dpc = "deleted" => destroyed[i] = 1
       /\ executed[i] <= destroyed[i] /\ destroyed[i] <= 1
       /\ ppc[i] # "new" /\ destroyed[i] = 0 => InQueue(i) \/ Worked(i)

QueueIInv ==
  TypeOK /\ CountInv /\ ThreadInv /\ DeleteInv /\ ItemInv

-----------------------------------------------------------------------------
(***************************************************************************)
(* Numbers of threads and calls.                                           *)
(***************************************************************************)

\* Two sets that differ in one element at most differ by one at most.
LEMMA OneMoves ==
  ASSUME NEW A, NEW B, NEW w, IsFiniteSet(A), A \ {w} = B \ {w}
  PROVE  /\ IsFiniteSet(B)
         /\ Cardinality(B) = Cardinality(A) + (IF w \in B THEN 1 ELSE 0)
                                            - (IF w \in A THEN 1 ELSE 0)
<1> DEFINE C == A \ {w}
<1>1. Cardinality(A) \in Nat
  BY FS_CardinalityType
<1>2. IsFiniteSet(C) /\ Cardinality(C) = Cardinality(A) - (IF w \in A THEN 1 ELSE 0)
  BY <1>1, FS_RemoveElement
<1>3. CASE w \in B
  <2>1. B = C \cup {w} /\ w \notin C
    BY <1>3
  <2>2. IsFiniteSet(B) /\ Cardinality(B) = Cardinality(C) + 1
    BY <1>2, <2>1, FS_AddElement
  <2> QED
    BY <1>1, <1>2, <1>3, <2>2
<1>4. CASE w \notin B
  <2>1. B = C
    BY <1>4
  <2> QED
    BY <1>1, <1>2, <1>4, <2>1
<1> QED
  BY <1>3, <1>4

\* A set of threads is finite and has as many at most as there are,
LEMMA WorkersAreFinite ==
  ASSUME NEW S
  PROVE  /\ IsFiniteSet(Workers(S)) /\ Cardinality(Worker) \in Nat
         /\ Cardinality(Workers(S)) \in 0 .. Cardinality(Worker)
         /\ Cardinality(Workers(S)) = Cardinality(Worker) => Workers(S) = Worker
<1>1. IsFiniteSet(Worker) /\ Workers(S) \in SUBSET Worker
  BY WorkQueueAssumption DEF Workers
<1>2. /\ IsFiniteSet(Workers(S)) /\ Cardinality(Workers(S)) <= Cardinality(Worker)
      /\ Cardinality(Worker) = Cardinality(Workers(S)) => Worker = Workers(S)
  BY <1>1, FS_Subset
<1>3. Cardinality(Workers(S)) \in Nat /\ Cardinality(Worker) \in Nat
  BY <1>1, <1>2, FS_CardinalityType
<1> QED
  BY <1>2, <1>3

\* so that the numbers are numbers.
LEMMA Numbers ==
  ASSUME ThreadInv
  PROVE  /\ Cardinality(Worker) \in Nat /\ Signalling \in Nat
         /\ Absent \in 0 .. Cardinality(Worker) /\ Gone \in 0 .. Cardinality(Worker)
         /\ Busy \in 0 .. Cardinality(Worker) /\ Awake \in 0 .. Cardinality(Worker)
<1>1. Signalling \in Nat
  BY FS_CardinalityType DEF ThreadInv, Signalling
<1> QED
  BY <1>1, WorkersAreFinite DEF Absent, Gone, Busy, Awake

\* A thread that goes on is counted at its new place.
LEMMA WorkerGoes ==
  ASSUME TypeOK, NEW w \in Worker, NEW to, Go(w, to)
  PROVE  /\ Absent' = Absent + (IF to = "none" THEN 1 ELSE 0)
                             - (IF wpc[w] = "none" THEN 1 ELSE 0)
         /\ Gone' = Gone + (IF to \in {"none", "leave"} THEN 1 ELSE 0)
                         - (IF wpc[w] \in {"none", "leave"} THEN 1 ELSE 0)
         /\ Busy' = Busy + (IF to = "execute" THEN 1 ELSE 0)
                         - (IF wpc[w] = "execute" THEN 1 ELSE 0)
         /\ Awake' = Awake + (IF to \in {"woken", "dequeue"} THEN 1 ELSE 0)
                           - (IF wpc[w] \in {"woken", "dequeue"} THEN 1 ELSE 0)
         /\ Absent' \in 0 .. Cardinality(Worker) /\ Gone' \in 0 .. Cardinality(Worker)
         /\ Busy' \in 0 .. Cardinality(Worker) /\ Awake' \in 0 .. Cardinality(Worker)
<1>1. ASSUME NEW S
      PROVE  Cardinality({v \in Worker : wpc'[v] \in S}) =
               Cardinality({v \in Worker : wpc[v] \in S})
                 + (IF to \in S THEN 1 ELSE 0) - (IF wpc[w] \in S THEN 1 ELSE 0)
  <2> DEFINE A == {v \in Worker : wpc[v] \in S}
             B == {v \in Worker : wpc'[v] \in S}
  <2>1. IsFiniteSet(A)
    BY WorkersAreFinite DEF Workers
  <2>2. A \ {w} = B \ {w} /\ (w \in B <=> to \in S) /\ (w \in A <=> wpc[w] \in S)
    BY DEF TypeOK, Go
  <2>3. Cardinality(B) = Cardinality(A) + (IF w \in B THEN 1 ELSE 0)
                                        - (IF w \in A THEN 1 ELSE 0)
    <3> HIDE DEF A, B
    <3> QED
      BY <2>1, <2>2, OneMoves
  <2> QED
    BY <2>2, <2>3
<1>2. Absent' = Absent + (IF to \in {"none"} THEN 1 ELSE 0)
                       - (IF wpc[w] \in {"none"} THEN 1 ELSE 0)
  BY <1>1 DEF Absent, Workers
<1>3. Gone' = Gone + (IF to \in {"none", "leave"} THEN 1 ELSE 0)
                   - (IF wpc[w] \in {"none", "leave"} THEN 1 ELSE 0)
  BY <1>1 DEF Gone, Workers
<1>4. Busy' = Busy + (IF to \in {"execute"} THEN 1 ELSE 0)
                   - (IF wpc[w] \in {"execute"} THEN 1 ELSE 0)
  BY <1>1 DEF Busy, Workers
<1>5. Awake' = Awake + (IF to \in {"woken", "dequeue"} THEN 1 ELSE 0)
                     - (IF wpc[w] \in {"woken", "dequeue"} THEN 1 ELSE 0)
  BY <1>1 DEF Awake, Workers
<1>6. ASSUME NEW S
      PROVE  Cardinality({v \in Worker : wpc'[v] \in S}) \in 0 .. Cardinality(Worker)
  <2> DEFINE B == {v \in Worker : wpc'[v] \in S}
  <2>1. IsFiniteSet(Worker) /\ B \in SUBSET Worker
    BY WorkQueueAssumption
  <2>2. IsFiniteSet(B) /\ Cardinality(B) <= Cardinality(Worker)
    BY <2>1, FS_Subset
  <2>3. Cardinality(B) \in Nat /\ Cardinality(Worker) \in Nat
    BY <2>1, <2>2, FS_CardinalityType
  <2> QED
    BY <2>2, <2>3
<1>7. /\ Absent' \in 0 .. Cardinality(Worker) /\ Gone' \in 0 .. Cardinality(Worker)
      /\ Busy' \in 0 .. Cardinality(Worker) /\ Awake' \in 0 .. Cardinality(Worker)
  BY <1>6 DEF Absent, Gone, Busy, Awake, Workers
<1> QED
  BY <1>2, <1>3, <1>4, <1>5, <1>7

\* When none goes on nothing is counted anew.
LEMMA WorkersRest ==
  ASSUME wpc' = wpc
  PROVE  Absent' = Absent /\ Gone' = Gone /\ Busy' = Busy /\ Awake' = Awake
BY DEF Absent, Gone, Busy, Awake, Workers

\* The same for the calls that queue an item.
LEMMA CallGoes ==
  ASSUME TypeOK, ThreadInv, NEW i \in Item, NEW to, Produce(i, to)
  PROVE  /\ IsFiniteSet(Calls({"signal"})')
         /\ Signalling' = Signalling + (IF to = "signal" THEN 1 ELSE 0)
                                     - (IF ppc[i] = "signal" THEN 1 ELSE 0)
<1> DEFINE A == {j \in Item : ppc[j] \in {"signal"}}
           B == {j \in Item : ppc'[j] \in {"signal"}}
<1>1. IsFiniteSet(A)
  BY DEF ThreadInv, Calls
<1>2. A \ {i} = B \ {i} /\ (i \in B <=> to = "signal") /\ (i \in A <=> ppc[i] = "signal")
  BY DEF TypeOK, Produce
<1>3. /\ IsFiniteSet(B)
      /\ Cardinality(B) = Cardinality(A) + (IF i \in B THEN 1 ELSE 0)
                                         - (IF i \in A THEN 1 ELSE 0)
  <2> HIDE DEF A, B
  <2> QED
    BY <1>1, <1>2, OneMoves
<1>4. Signalling' = Cardinality(B) /\ Signalling = Cardinality(A) /\ Calls({"signal"})' = B
  BY DEF Signalling, Calls
<1> QED
  BY <1>2, <1>3, <1>4

LEMMA CallsRest ==
  ASSUME ThreadInv, ppc' = ppc
  PROVE  IsFiniteSet(Calls({"signal"})') /\ Signalling' = Signalling
BY DEF Signalling, Calls, ThreadInv

-----------------------------------------------------------------------------
(***************************************************************************)
(* Items.                                                                  *)
(***************************************************************************)

\* An item is appended that is not in the list.
LEMMA InsertTail ==
  ASSUME TypeOK, NEW i \in Item, ~InQueue(i), queue' = Append(queue, i),
         \A j, k \in 1 .. Len(queue) : queue[j] = queue[k] => j = k
  PROVE  /\ \A j, k \in 1 .. Len(queue') : queue'[j] = queue'[k] => j = k
         /\ \A x \in Item : InQueue(x)' <=> InQueue(x) \/ x = i
<1>1. /\ Len(queue) \in Nat /\ Len(queue') = Len(queue) + 1
      /\ queue'[Len(queue) + 1] = i
      /\ \A k \in 1 .. Len(queue) : queue'[k] = queue[k] /\ queue[k] # i
  BY DEF TypeOK, InQueue
<1>2. \A k \in 1 .. Len(queue') : k \in 1 .. Len(queue) \/ k = Len(queue) + 1
  BY <1>1
<1>3. \A k \in 1 .. Len(queue) : k \in 1 .. Len(queue')
  BY <1>1
<1>4. Len(queue) + 1 \in 1 .. Len(queue')
  BY <1>1
<1>5. \A j, k \in 1 .. Len(queue') : queue'[j] = queue'[k] => j = k
  BY <1>1, <1>2
<1>6. \A x \in Item : InQueue(x)' <=> InQueue(x) \/ x = i
  <2> SUFFICES ASSUME NEW x \in Item PROVE InQueue(x)' <=> InQueue(x) \/ x = i
    OBVIOUS
  <2>1. InQueue(x)' => InQueue(x) \/ x = i
    BY <1>1, <1>2 DEF InQueue
  <2>2. InQueue(x) \/ x = i => InQueue(x)'
    BY <1>1, <1>3, <1>4 DEF InQueue
  <2> QED
    BY <2>1, <2>2
<1> QED
  BY <1>5, <1>6

\* The oldest item is taken from the list.
LEMMA RemoveHead ==
  ASSUME TypeOK, queue # << >>, queue' = Tail(queue),
         \A j, k \in 1 .. Len(queue) : queue[j] = queue[k] => j = k
  PROVE  /\ Head(queue) \in Item /\ InQueue(Head(queue))
         /\ \A j, k \in 1 .. Len(queue') : queue'[j] = queue'[k] => j = k
         /\ \A x \in Item : InQueue(x)' <=> InQueue(x) /\ x # Head(queue)
<1>1. /\ Len(queue) \in Nat /\ Len(queue') = Len(queue) - 1 /\ 1 \in 1 .. Len(queue)
      /\ Head(queue) = queue[1] /\ Head(queue) \in Item
      /\ \A k \in 1 .. Len(queue') : /\ queue'[k] = queue[k + 1]
                                     /\ k + 1 \in 1 .. Len(queue) /\ k + 1 # 1
  BY DEF TypeOK
<1>2. \A k \in 1 .. Len(queue) : k = 1 \/ (k - 1 \in 1 .. Len(queue') /\ (k - 1) + 1 = k)
  BY <1>1
<1>3. \A j, k \in 1 .. Len(queue') : j + 1 = k + 1 => j = k
  BY <1>1
<1>4. \A j, k \in 1 .. Len(queue') : queue'[j] = queue'[k] => j = k
  BY <1>1, <1>3
<1>5. \A x \in Item : InQueue(x)' <=> InQueue(x) /\ x # Head(queue)
  <2> SUFFICES ASSUME NEW x \in Item PROVE InQueue(x)' <=> InQueue(x) /\ x # Head(queue)
    OBVIOUS
  <2>1. InQueue(x)' => InQueue(x) /\ x # Head(queue)
    BY <1>1 DEF InQueue
  <2>2. InQueue(x) /\ x # Head(queue) => InQueue(x)'
    <3> SUFFICES ASSUME NEW k \in 1 .. Len(queue), queue[k] = x, x # Head(queue)
                 PROVE  InQueue(x)'
      BY DEF InQueue
    <3>1. k - 1 \in 1 .. Len(queue') /\ queue'[k - 1] = queue[(k - 1) + 1]
          /\ (k - 1) + 1 = k
      BY <1>1, <1>2
    <3> QED
      BY <3>1 DEF InQueue
  <2> QED
    BY <2>1, <2>2
<1> QED
  BY <1>1, <1>4, <1>5 DEF InQueue

\* Neither the list nor a work item moves.
LEMMA ItemsRest ==
  ASSUME ItemInv, UNCHANGED <<queue, work, executed, destroyed>>,
         dpc' = "deleted" <=> dpc = "deleted",
         \A i \in Item : ppc'[i] = "new" <=> ppc[i] = "new",
         \A w \in Worker : wpc'[w] = "execute" <=> wpc[w] = "execute"
  PROVE  ItemInv'
BY DEF ItemInv, InQueue, Worked

-----------------------------------------------------------------------------
(***************************************************************************)
(* The steps that preserve it.                                             *)
(***************************************************************************)

\* Each step moves the counter, the list or the semaphore with the thread or the
\* call that it moves.
LEMMA CountStep ==
  TypeOK /\ CountInv /\ ThreadInv /\ DeleteInv /\ [Next]_vars => CountInv'
<1> SUFFICES ASSUME TypeOK, CountInv, ThreadInv, DeleteInv, [Next]_vars PROVE CountInv'
  OBVIOUS
<1>0. /\ Cardinality(Worker) \in Nat /\ Signalling \in Nat
      /\ Absent \in Nat /\ Gone \in Nat /\ Busy \in Nat /\ Awake \in Nat
  BY Numbers
<1>1. ASSUME NEW i \in Item, NEW h \in Worker \cup {None}, PhQueueItemWorkQueueEx(i, h)
      PROVE  CountInv'
  <2>1. Produce(i, "signal") /\ ppc[i] = "new" /\ wpc' = wpc
    BY <1>1 DEF PhQueueItemWorkQueueEx, MayQueue
  <2>2. Signalling' = Signalling + 1 /\ UNCHANGED <<Absent, Gone, Busy, Awake>>
    BY <2>1, CallGoes, WorkersRest, <1>0
  <2>3. Len(queue') = Len(queue) + 1 /\ Len(queue) \in Nat
    BY <1>1 DEF PhQueueItemWorkQueueEx, TypeOK
  <2>4. busyCount' = busyCount + 1
        /\ UNCHANGED <<references, threads, stateLock, permits, terminating>>
    BY <1>1 DEF PhQueueItemWorkQueueEx, deletion
  <2>5. busyCount \in Nat /\ permits \in Nat
    BY DEF TypeOK
  <2> QED
    <3>1. references' = Cardinality(Worker) - Absent'
      BY <2>2, <2>3, <2>4, <2>5, <1>0 DEF CountInv
    <3>2. threads' + (IF stateLock' = None THEN 0 ELSE 1) = Cardinality(Worker) - Gone'
      BY <2>2, <2>3, <2>4, <2>5, <1>0 DEF CountInv
    <3>3. busyCount' = Len(queue') + Busy'
      BY <2>2, <2>3, <2>4, <2>5, <1>0 DEF CountInv
    <3>4. ~terminating' => Len(queue') = permits' + Signalling' + Awake'
      BY <2>2, <2>3, <2>4, <2>5, <1>0 DEF CountInv
    <3> QED
      BY <3>1, <3>2, <3>3, <3>4 DEF CountInv
<1>2. ASSUME NEW i \in Item, SignalSemaphore(i) PROVE CountInv'
  <2>1. Produce(i, "check") /\ ppc[i] = "signal" /\ wpc' = wpc
    BY <1>2 DEF SignalSemaphore
  <2>2. Signalling' = Signalling - 1 /\ UNCHANGED <<Absent, Gone, Busy, Awake>>
    BY <2>1, CallGoes, WorkersRest, <1>0
  <2>3. permits' = permits + 1
        /\ UNCHANGED <<queue, busyCount, references, threads, stateLock, terminating>>
    BY <1>2 DEF SignalSemaphore, deletion
  <2>4. permits \in Nat /\ Len(queue) \in Nat
    BY DEF TypeOK
  <2> QED
    BY <2>2, <2>3, <2>4, <1>0 DEF CountInv
<1>3. ASSUME NEW i \in Item, CheckThreads(i) PROVE CountInv'
  <2>1. Produce(i, IF busyCount >= threads /\ threads < MaximumThreads
                         THEN "lock" ELSE "done") /\ ppc[i] = "check" /\ wpc' = wpc
    BY <1>3 DEF CheckThreads
  <2>2. Signalling' = Signalling /\ UNCHANGED <<Absent, Gone, Busy, Awake>>
    BY <2>1, CallGoes, WorkersRest, <1>0
  <2> QED
    BY <1>3, <2>2, <1>0 DEF CheckThreads, deletion, CountInv, TypeOK
<1>4. ASSUME NEW i \in Item, PhpCreateWorkQueueThread(i) PROVE CountInv'
  <2>1. ppc[i] = "lock" /\ stateLock = None
        /\ UNCHANGED <<threads, queue, busyCount, permits, terminating>>
    BY <1>4 DEF PhpCreateWorkQueueThread, deletion
  <2>2. CASE Produce(i, "done") /\ UNCHANGED <<wpc, references, stateLock>>
    <3>1. Signalling' = Signalling /\ UNCHANGED <<Absent, Gone, Busy, Awake>>
      BY <2>1, <2>2, CallGoes, WorkersRest, <1>0
    <3> QED
      BY <2>1, <2>2, <3>1 DEF CountInv
  <2>3. CASE StartThread /\ references' = references + 1 /\ stateLock' = i
             /\ Produce(i, "count")
    <3>1. Signalling' = Signalling
      BY <2>1, <2>3, CallGoes, <1>0
    <3>2. PICK w \in Worker : wpc[w] = "none" /\ Go(w, "start")
      BY <2>3 DEF StartThread
    <3>3. Absent' = Absent - 1 /\ Gone' = Gone - 1 /\ Busy' = Busy /\ Awake' = Awake
      BY <3>2, WorkerGoes, <1>0
    <3>4. i # None /\ threads \in Nat
      BY WorkQueueAssumption DEF TypeOK
    <3> QED
      <4>1. references' = Cardinality(Worker) - Absent'
        BY <2>1, <2>3, <3>1, <3>3, <3>4, <1>0 DEF CountInv
      <4>2. threads' + (IF stateLock' = None THEN 0 ELSE 1) = Cardinality(Worker) - Gone'
        BY <2>1, <2>3, <3>1, <3>3, <3>4, <1>0 DEF CountInv
      <4>3. busyCount' = Len(queue') + Busy'
        BY <2>1, <2>3, <3>1, <3>3, <3>4, <1>0 DEF CountInv
      <4>4. ~terminating' => Len(queue') = permits' + Signalling' + Awake'
        BY <2>1, <2>3, <3>1, <3>3, <3>4, <1>0 DEF CountInv
      <4> QED
        BY <4>1, <4>2, <4>3, <4>4 DEF CountInv
  <2> QED
    BY <1>4, <2>2, <2>3 DEF PhpCreateWorkQueueThread
<1>5. ASSUME NEW i \in Item, CountThread(i) PROVE CountInv'
  <2>1. Produce(i, "done") /\ ppc[i] = "count" /\ wpc' = wpc
    BY <1>5 DEF CountThread
  <2>2. Signalling' = Signalling /\ UNCHANGED <<Absent, Gone, Busy, Awake>>
    BY <2>1, CallGoes, WorkersRest, <1>0
  <2>3. stateLock = i /\ i # None /\ threads \in Nat
    BY <2>1, WorkQueueAssumption DEF ThreadInv, TypeOK
  <2>4. /\ threads' = threads + 1 /\ stateLock' = None
        /\ UNCHANGED <<queue, busyCount, permits, references, terminating>>
    BY <1>5 DEF CountThread, deletion
  <2> QED
    <3>1. references' = Cardinality(Worker) - Absent'
      BY <2>2, <2>3, <2>4, <1>0 DEF CountInv
    <3>2. threads' + (IF stateLock' = None THEN 0 ELSE 1) = Cardinality(Worker) - Gone'
      BY <2>2, <2>3, <2>4, <1>0 DEF CountInv
    <3>3. busyCount' = Len(queue') + Busy'
      BY <2>2, <2>3, <2>4, <1>0 DEF CountInv
    <3>4. ~terminating' => Len(queue') = permits' + Signalling' + Awake'
      BY <2>2, <2>3, <2>4, <1>0 DEF CountInv
    <3> QED
      BY <3>1, <3>2, <3>3, <3>4 DEF CountInv
<1>6. ASSUME NEW w \in Worker, TopOfLoop(w) PROVE CountInv'
  <2>1. ppc' = ppc /\ wpc[w] = "start"
    BY <1>6 DEF TopOfLoop, producers
  <2>2. Signalling' = Signalling
    BY <2>1, CallsRest
  <2>3. CASE Go(w, "leave") /\ threads' = threads - 1 /\ stateLock = None
    <3>1. Absent' = Absent /\ Gone' = Gone + 1 /\ Busy' = Busy /\ Awake' = Awake
      BY <2>1, <2>3, WorkerGoes, <1>0
    <3> QED
      <4>1. UNCHANGED <<queue, busyCount, permits, references, stateLock, terminating>>
        BY <1>6 DEF TopOfLoop, deletion
      <4>2. threads \in Nat
        BY WorkQueueAssumption DEF TypeOK
      <4> QED
        BY <2>2, <2>3, <3>1, <4>1, <4>2, <1>0 DEF CountInv
  <2>4. CASE Go(w, IF terminating THEN "idle" ELSE "wait") /\ UNCHANGED threads
    <3>1. UNCHANGED <<Absent, Gone, Busy, Awake>>
      BY <2>1, <2>4, WorkerGoes, <1>0
    <3> QED
      BY <1>6, <2>2, <2>4, <3>1, <1>0 DEF TopOfLoop, deletion, CountInv, TypeOK
  <2> QED
    BY <1>6, <2>3, <2>4 DEF TopOfLoop
<1>7. ASSUME NEW w \in Worker, WaitForWork(w) PROVE CountInv'
  <2>1. ppc' = ppc /\ wpc[w] = "wait"
    BY <1>7 DEF WaitForWork, producers
  <2>2. Signalling' = Signalling
    BY <2>1, CallsRest
  <2>3. CASE permits > 0 /\ permits' = permits - 1 /\ Go(w, "woken")
    <3>1. Absent' = Absent /\ Gone' = Gone /\ Busy' = Busy /\ Awake' = Awake + 1
      BY <2>1, <2>3, WorkerGoes, <1>0
    <3> QED
      <4>1. UNCHANGED <<queue, busyCount, threads, references, stateLock, terminating>>
        BY <1>7 DEF WaitForWork, deletion
      <4>2. permits \in Nat /\ Len(queue) \in Nat
        BY DEF TypeOK
      <4> QED
        <5>1. references' = Cardinality(Worker) - Absent'
          BY <2>2, <2>3, <3>1, <4>1, <4>2, <1>0 DEF CountInv
        <5>2. threads' + (IF stateLock' = None THEN 0 ELSE 1) = Cardinality(Worker) - Gone'
          BY <2>2, <2>3, <3>1, <4>1, <4>2, <1>0 DEF CountInv
        <5>3. busyCount' = Len(queue') + Busy'
          BY <2>2, <2>3, <3>1, <4>1, <4>2, <1>0 DEF CountInv
        <5>4. ~terminating' => Len(queue') = permits' + Signalling' + Awake'
          BY <2>2, <2>3, <3>1, <4>1, <4>2, <1>0 DEF CountInv
        <5> QED
          BY <5>1, <5>2, <5>3, <5>4 DEF CountInv
  <2>4. CASE Go(w, "idle") /\ UNCHANGED permits
    <3>1. UNCHANGED <<Absent, Gone, Busy, Awake>>
      BY <2>1, <2>4, WorkerGoes, <1>0
    <3> QED
      BY <1>7, <2>2, <2>4, <3>1, <1>0 DEF WaitForWork, deletion, CountInv, TypeOK
  <2> QED
    BY <1>7, <2>3, <2>4 DEF WaitForWork
<1>8. ASSUME NEW w \in Worker, Woken(w) PROVE CountInv'
  <2>1. ppc' = ppc /\ wpc[w] = "woken"
    BY <1>8 DEF Woken, producers
  <2>2. Signalling' = Signalling
    BY <2>1, CallsRest
  <2>3. Go(w, IF terminating THEN "idle" ELSE "dequeue")
    BY <1>8 DEF Woken
  <2>4. Absent' = Absent /\ Gone' = Gone /\ Busy' = Busy /\ (~terminating => Awake' = Awake)
    BY <2>1, <2>3, WorkerGoes, <1>0
  <2> QED
    BY <1>8, <2>2, <2>4, <1>0 DEF Woken, deletion, CountInv, TypeOK
<1>9. ASSUME NEW w \in Worker, Dequeue(w) PROVE CountInv'
  <2>1. ppc' = ppc /\ wpc[w] = "dequeue"
    BY <1>9 DEF Dequeue, producers
  <2>2. Signalling' = Signalling
    BY <2>1, CallsRest
  <2>3. CASE queue = << >> /\ Go(w, "start") /\ UNCHANGED <<queue, work>>
    <3>1. Absent' = Absent /\ Gone' = Gone /\ Busy' = Busy /\ Awake' = Awake - 1
          /\ Awake' \in Nat
      BY <2>1, <2>3, WorkerGoes, <1>0
    <3>2. Len(queue) = 0
      BY <2>3
    <3> QED
      BY <1>9, <2>2, <2>3, <3>1, <3>2, <1>0 DEF Dequeue, deletion, CountInv, TypeOK
  <2>4. CASE queue # << >> /\ queue' = Tail(queue) /\ Go(w, "execute")
    <3>1. Absent' = Absent /\ Gone' = Gone /\ Busy' = Busy + 1 /\ Awake' = Awake - 1
      BY <2>1, <2>4, WorkerGoes, <1>0
    <3>2. Len(queue') = Len(queue) - 1 /\ Len(queue) \in Nat
      BY <2>4 DEF TypeOK
    <3> QED
      <4>1. UNCHANGED <<permits, busyCount, threads, references, stateLock, terminating>>
        BY <1>9 DEF Dequeue, deletion
      <4>2. permits \in Nat
        BY DEF TypeOK
      <4> QED
        <5>1. references' = Cardinality(Worker) - Absent'
          BY <2>2, <3>1, <3>2, <4>1, <4>2, <1>0 DEF CountInv
        <5>2. threads' + (IF stateLock' = None THEN 0 ELSE 1) = Cardinality(Worker) - Gone'
          BY <2>2, <3>1, <3>2, <4>1, <4>2, <1>0 DEF CountInv
        <5>3. busyCount' = Len(queue') + Busy'
          BY <2>2, <3>1, <3>2, <4>1, <4>2, <1>0 DEF CountInv
        <5>4. ~terminating' => Len(queue') = permits' + Signalling' + Awake'
          BY <2>2, <3>1, <3>2, <4>1, <4>2, <1>0 DEF CountInv
        <5> QED
          BY <5>1, <5>2, <5>3, <5>4 DEF CountInv
  <2> QED
    BY <1>9, <2>3, <2>4 DEF Dequeue
<1>10. ASSUME NEW w \in Worker, PhpExecuteWorkQueueItem(w) PROVE CountInv'
  <2>1. ppc' = ppc /\ wpc[w] = "execute"
    BY <1>10 DEF PhpExecuteWorkQueueItem, producers
  <2>2. Signalling' = Signalling
    BY <2>1, CallsRest
  <2>3. Go(w, "start")
    BY <1>10 DEF PhpExecuteWorkQueueItem
  <2>4. Absent' = Absent /\ Gone' = Gone /\ Busy' = Busy - 1 /\ Awake' = Awake
    BY <2>1, <2>3, WorkerGoes, <1>0
  <2>5. Len(queue) \in Nat
    BY DEF TypeOK
  <2> QED
    BY <1>10, <2>2, <2>4, <2>5, <1>0 DEF PhpExecuteWorkQueueItem, deletion, CountInv, TypeOK
<1>11. ASSUME NEW w \in Worker, LeaveOrStay(w) PROVE CountInv'
  <2>1. ppc' = ppc /\ wpc[w] = "idle"
    BY <1>11 DEF LeaveOrStay, producers
  <2>2. Signalling' = Signalling
    BY <2>1, CallsRest
  <2>3. CASE Go(w, "leave") /\ threads' = threads - 1
    <3>1. Absent' = Absent /\ Gone' = Gone + 1 /\ Busy' = Busy /\ Awake' = Awake
      BY <2>1, <2>3, WorkerGoes, <1>0
    <3> QED
      <4>1. stateLock = None
            /\ UNCHANGED <<queue, busyCount, permits, references, stateLock, terminating>>
        BY <1>11 DEF LeaveOrStay, deletion
      <4>2. threads \in Nat
        BY WorkQueueAssumption DEF TypeOK
      <4> QED
        BY <2>2, <2>3, <3>1, <4>1, <4>2, <1>0 DEF CountInv
  <2>4. CASE Go(w, "start") /\ UNCHANGED threads
    <3>1. UNCHANGED <<Absent, Gone, Busy, Awake>>
      BY <2>1, <2>4, WorkerGoes, <1>0
    <3> QED
      BY <1>11, <2>2, <2>4, <3>1, <1>0 DEF LeaveOrStay, deletion, CountInv, TypeOK
  <2> QED
    BY <1>11, <2>3, <2>4 DEF LeaveOrStay
<1>12. ASSUME NEW w \in Worker, PhReleaseRundownProtection(w) PROVE CountInv'
  <2>1. ppc' = ppc /\ wpc[w] = "leave"
    BY <1>12 DEF PhReleaseRundownProtection, producers
  <2>2. Signalling' = Signalling
    BY <2>1, CallsRest
  <2>3. Go(w, "none")
    BY <1>12 DEF PhReleaseRundownProtection
  <2>4. Absent' = Absent + 1 /\ Gone' = Gone /\ Busy' = Busy /\ Awake' = Awake
    BY <2>1, <2>3, WorkerGoes, <1>0
  <2> QED
    BY <1>12, <2>2, <2>4, <1>0 DEF PhReleaseRundownProtection, deletion, CountInv, TypeOK
<1>13. ASSUME NEW v \in Waiter, PhWaitForWorkQueue(v) PROVE CountInv'
  <2>1. wpc' = wpc /\ ppc' = ppc
    BY <1>13 DEF PhWaitForWorkQueue, producers
  <2>2. UNCHANGED <<Signalling, Absent, Gone, Busy, Awake>>
    BY <2>1, CallsRest, WorkersRest
  <2> QED
    BY <1>13, <2>2, <1>0 DEF PhWaitForWorkQueue, deletion, CountInv, TypeOK
<1>14. CASE PhDeleteWorkQueue
  <2>1. wpc' = wpc /\ ppc' = ppc
    BY <1>14 DEF PhDeleteWorkQueue, producers
  <2>2. UNCHANGED <<Signalling, Absent, Gone, Busy, Awake>>
    BY <2>1, CallsRest, WorkersRest
  <2> QED
    BY <1>14, <2>2, <1>0 DEF PhDeleteWorkQueue, deletion, CountInv, TypeOK
<1>15. CASE ReleaseThreads
  <2>1. wpc' = wpc /\ ppc' = ppc
    BY <1>15 DEF ReleaseThreads, producers
  <2>2. UNCHANGED <<Signalling, Absent, Gone, Busy, Awake>>
    BY <2>1, CallsRest, WorkersRest
  <2> QED
    BY <1>15, <2>2, <1>0 DEF ReleaseThreads, DeleteInv, TypeOK, CountInv, TypeOK
<1>16. CASE PhWaitForRundownProtection
  <2>1. wpc' = wpc /\ ppc' = ppc
    BY <1>16 DEF PhWaitForRundownProtection, producers
  <2>2. UNCHANGED <<Signalling, Absent, Gone, Busy, Awake>>
    BY <2>1, CallsRest, WorkersRest
  <2> QED
    BY <1>16, <2>2, <1>0 DEF PhWaitForRundownProtection, deletion, CountInv, TypeOK
<1>17. CASE FreeItems
  <2>1. wpc' = wpc /\ ppc' = ppc
    BY <1>17 DEF FreeItems, producers
  <2>2. UNCHANGED <<Signalling, Absent, Gone, Busy, Awake>>
    BY <2>1, CallsRest, WorkersRest
  <2> QED
    BY <1>17, <2>2, <1>0 DEF FreeItems, deletion, CountInv, TypeOK
<1>18. CASE UNCHANGED vars
  <2>1. wpc' = wpc /\ ppc' = ppc
    BY <1>18 DEF vars, producers
  <2>2. UNCHANGED <<Signalling, Absent, Gone, Busy, Awake>>
    BY <2>1, CallsRest, WorkersRest
  <2> QED
    BY <1>18, <2>2, <1>0 DEF vars, CountInv, TypeOK
<1> QED
  BY <1>1, <1>2, <1>3, <1>4, <1>5, <1>6, <1>7, <1>8, <1>9, <1>10, <1>11, <1>12, <1>13,
     <1>14, <1>15, <1>16, <1>17, <1>18
     DEF Next, ProducerStep, WorkerStep, DeleterStep

\* One call is inside StateLock, and the threads are below the maximum until it has
\* counted its own.
LEMMA LockStep ==
  TypeOK /\ ThreadInv /\ [Next]_vars => ThreadInv'
<1> SUFFICES ASSUME TypeOK, ThreadInv, [Next]_vars PROVE ThreadInv'
  OBVIOUS
<1>1. ASSUME NEW i \in Item, NEW h \in Worker \cup {None}, PhQueueItemWorkQueueEx(i, h)
      PROVE  ThreadInv'
  <2>1. Produce(i, "signal")
    BY <1>1 DEF PhQueueItemWorkQueueEx, MayQueue
  <2>2. IsFiniteSet(Calls({"signal"})')
    BY <2>1, CallGoes
  <2> QED
    BY <1>1, <2>2, WorkQueueAssumption
       DEF TypeOK, ThreadInv, PhQueueItemWorkQueueEx, Produce, MayQueue
<1>2. ASSUME NEW i \in Item, SignalSemaphore(i) PROVE ThreadInv'
  <2>1. Produce(i, "check")
    BY <1>2 DEF SignalSemaphore
  <2>2. IsFiniteSet(Calls({"signal"})')
    BY <2>1, CallGoes
  <2> QED
    BY <1>2, <2>2, WorkQueueAssumption DEF TypeOK, ThreadInv, SignalSemaphore, Produce
<1>3. ASSUME NEW i \in Item, CheckThreads(i) PROVE ThreadInv'
  <2>1. Produce(i, IF busyCount >= threads /\ threads < MaximumThreads
                         THEN "lock" ELSE "done")
    BY <1>3 DEF CheckThreads
  <2>2. IsFiniteSet(Calls({"signal"})')
    BY <2>1, CallGoes
  <2> QED
    BY <1>3, <2>2, WorkQueueAssumption DEF TypeOK, ThreadInv, CheckThreads, Produce
<1>4. ASSUME NEW i \in Item, PhpCreateWorkQueueThread(i) PROVE ThreadInv'
  <2>1. IsFiniteSet(Calls({"signal"})')
    <3>1. Produce(i, "count") \/ Produce(i, "done")
      BY <1>4 DEF PhpCreateWorkQueueThread
    <3> QED
      BY <3>1, CallGoes
  <2>2. CASE threads < MaximumThreads /\ stateLock' = i /\ Produce(i, "count")
    BY <1>4, <2>1, <2>2, WorkQueueAssumption
       DEF TypeOK, ThreadInv, PhpCreateWorkQueueThread, Produce
  <2>3. CASE stateLock' = stateLock /\ Produce(i, "done")
    BY <1>4, <2>1, <2>3, WorkQueueAssumption
       DEF TypeOK, ThreadInv, PhpCreateWorkQueueThread, Produce
  <2> QED
    BY <1>4, <2>2, <2>3 DEF PhpCreateWorkQueueThread
<1>5. ASSUME NEW i \in Item, CountThread(i) PROVE ThreadInv'
  <2>1. Produce(i, "done")
    BY <1>5 DEF CountThread
  <2>2. IsFiniteSet(Calls({"signal"})')
    BY <2>1, CallGoes
  <2> QED
    BY <1>5, <2>2, WorkQueueAssumption DEF TypeOK, ThreadInv, CountThread, Produce
<1>6. ASSUME NEW w \in Worker, TopOfLoop(w) PROVE ThreadInv'
  <2>1. ppc' = ppc /\ stateLock' = stateLock /\ (stateLock # None => threads' = threads)
    BY <1>6 DEF TopOfLoop, producers
  <2>2. IsFiniteSet(Calls({"signal"})')
    BY <2>1, CallsRest
  <2> QED
    BY <2>1, <2>2 DEF ThreadInv
<1>7. ASSUME NEW w \in Worker, WaitForWork(w) PROVE ThreadInv'
  <2>1. ppc' = ppc /\ stateLock' = stateLock /\ (stateLock # None => threads' = threads)
    BY <1>7 DEF WaitForWork, producers
  <2>2. IsFiniteSet(Calls({"signal"})')
    BY <2>1, CallsRest
  <2> QED
    BY <2>1, <2>2 DEF ThreadInv
<1>8. ASSUME NEW w \in Worker, Woken(w) PROVE ThreadInv'
  <2>1. ppc' = ppc /\ stateLock' = stateLock /\ (stateLock # None => threads' = threads)
    BY <1>8 DEF Woken, producers
  <2>2. IsFiniteSet(Calls({"signal"})')
    BY <2>1, CallsRest
  <2> QED
    BY <2>1, <2>2 DEF ThreadInv
<1>9. ASSUME NEW w \in Worker, Dequeue(w) PROVE ThreadInv'
  <2>1. ppc' = ppc /\ stateLock' = stateLock /\ (stateLock # None => threads' = threads)
    BY <1>9 DEF Dequeue, producers
  <2>2. IsFiniteSet(Calls({"signal"})')
    BY <2>1, CallsRest
  <2> QED
    BY <2>1, <2>2 DEF ThreadInv
<1>10. ASSUME NEW w \in Worker, PhpExecuteWorkQueueItem(w) PROVE ThreadInv'
  <2>1. ppc' = ppc /\ stateLock' = stateLock /\ (stateLock # None => threads' = threads)
    BY <1>10 DEF PhpExecuteWorkQueueItem, producers
  <2>2. IsFiniteSet(Calls({"signal"})')
    BY <2>1, CallsRest
  <2> QED
    BY <2>1, <2>2 DEF ThreadInv
<1>11. ASSUME NEW w \in Worker, LeaveOrStay(w) PROVE ThreadInv'
  <2>1. ppc' = ppc /\ stateLock' = stateLock /\ (stateLock # None => threads' = threads)
    BY <1>11 DEF LeaveOrStay, producers
  <2>2. IsFiniteSet(Calls({"signal"})')
    BY <2>1, CallsRest
  <2> QED
    BY <2>1, <2>2 DEF ThreadInv
<1>12. ASSUME NEW w \in Worker, PhReleaseRundownProtection(w) PROVE ThreadInv'
  <2>1. ppc' = ppc /\ stateLock' = stateLock /\ (stateLock # None => threads' = threads)
    BY <1>12 DEF PhReleaseRundownProtection, producers
  <2>2. IsFiniteSet(Calls({"signal"})')
    BY <2>1, CallsRest
  <2> QED
    BY <2>1, <2>2 DEF ThreadInv
<1>13. ASSUME NEW v \in Waiter, PhWaitForWorkQueue(v) PROVE ThreadInv'
  <2>1. ppc' = ppc /\ stateLock' = stateLock /\ (stateLock # None => threads' = threads)
    BY <1>13 DEF PhWaitForWorkQueue, producers
  <2>2. IsFiniteSet(Calls({"signal"})')
    BY <2>1, CallsRest
  <2> QED
    BY <2>1, <2>2 DEF ThreadInv
<1>14. CASE PhDeleteWorkQueue
  <2>1. ppc' = ppc /\ stateLock' = stateLock /\ (stateLock # None => threads' = threads)
    BY <1>14 DEF PhDeleteWorkQueue, producers
  <2>2. IsFiniteSet(Calls({"signal"})')
    BY <2>1, CallsRest
  <2> QED
    BY <2>1, <2>2 DEF ThreadInv
<1>15. CASE ReleaseThreads
  <2>1. ppc' = ppc /\ stateLock' = stateLock /\ (stateLock # None => threads' = threads)
    BY <1>15 DEF ReleaseThreads, producers
  <2>2. IsFiniteSet(Calls({"signal"})')
    BY <2>1, CallsRest
  <2> QED
    BY <2>1, <2>2 DEF ThreadInv
<1>16. CASE PhWaitForRundownProtection
  <2>1. ppc' = ppc /\ stateLock' = stateLock /\ (stateLock # None => threads' = threads)
    BY <1>16 DEF PhWaitForRundownProtection, producers
  <2>2. IsFiniteSet(Calls({"signal"})')
    BY <2>1, CallsRest
  <2> QED
    BY <2>1, <2>2 DEF ThreadInv
<1>17. CASE FreeItems
  <2>1. ppc' = ppc /\ stateLock' = stateLock /\ (stateLock # None => threads' = threads)
    BY <1>17 DEF FreeItems, producers
  <2>2. IsFiniteSet(Calls({"signal"})')
    BY <2>1, CallsRest
  <2> QED
    BY <2>1, <2>2 DEF ThreadInv
<1>18. CASE UNCHANGED vars
  <2>1. ppc' = ppc /\ stateLock' = stateLock /\ (stateLock # None => threads' = threads)
    BY <1>18 DEF vars
  <2>2. IsFiniteSet(Calls({"signal"})')
    BY <2>1, CallsRest
  <2> QED
    BY <2>1, <2>2 DEF ThreadInv
<1> QED
  BY <1>1, <1>2, <1>3, <1>4, <1>5, <1>6, <1>7, <1>8, <1>9, <1>10, <1>11, <1>12, <1>13,
     <1>14, <1>15, <1>16, <1>17, <1>18
     DEF Next, ProducerStep, WorkerStep, DeleterStep

\* PhDeleteWorkQueue passes the rundown when the last thread has gone.
LEMMA DeleteStep ==
  TypeOK /\ CountInv /\ DeleteInv /\ [Next]_vars => DeleteInv'
<1> SUFFICES ASSUME TypeOK, CountInv, DeleteInv, [Next]_vars PROVE DeleteInv'
  OBVIOUS
<1> USE DEF TypeOK, DeleteInv, deletion, Go
<1>1. ASSUME NEW i \in Item, NEW h \in Worker \cup {None}, PhQueueItemWorkQueueEx(i, h)
      PROVE  DeleteInv'
  BY <1>1 DEF PhQueueItemWorkQueueEx, MayQueue, Produce
<1>2. ASSUME NEW i \in Item, SignalSemaphore(i) PROVE DeleteInv'
  BY <1>2 DEF SignalSemaphore, Produce
<1>3. ASSUME NEW i \in Item, CheckThreads(i) PROVE DeleteInv'
  BY <1>3 DEF CheckThreads, Produce
<1>4. ASSUME NEW i \in Item, PhpCreateWorkQueueThread(i) PROVE DeleteInv'
  <2>1. UNCHANGED <<dpc, terminating, rundown>> /\ (rundown => wpc' = wpc)
    BY <1>4 DEF PhpCreateWorkQueueThread, deletion
  <2> QED
    BY <2>1 DEF DeleteInv
<1>5. ASSUME NEW i \in Item, CountThread(i) PROVE DeleteInv'
  BY <1>5 DEF CountThread, Produce
<1>6. ASSUME NEW w \in Worker, TopOfLoop(w) PROVE DeleteInv'
  BY <1>6 DEF TopOfLoop, Go
<1>7. ASSUME NEW w \in Worker, WaitForWork(w) PROVE DeleteInv'
  BY <1>7 DEF WaitForWork, Go
<1>8. ASSUME NEW w \in Worker, Woken(w) PROVE DeleteInv'
  BY <1>8 DEF Woken, Go
<1>9. ASSUME NEW w \in Worker, Dequeue(w) PROVE DeleteInv'
  BY <1>9 DEF Dequeue, PhPulseCondition, Go
<1>10. ASSUME NEW w \in Worker, PhpExecuteWorkQueueItem(w) PROVE DeleteInv'
  BY <1>10 DEF PhpExecuteWorkQueueItem, PhpDestroyWorkQueueItem, Go
<1>11. ASSUME NEW w \in Worker, LeaveOrStay(w) PROVE DeleteInv'
  BY <1>11 DEF LeaveOrStay, Go
<1>12. ASSUME NEW w \in Worker, PhReleaseRundownProtection(w) PROVE DeleteInv'
  BY <1>12 DEF PhReleaseRundownProtection, Go
<1>13. ASSUME NEW v \in Waiter, PhWaitForWorkQueue(v) PROVE DeleteInv'
  BY <1>13 DEF PhWaitForWorkQueue
<1>14. CASE PhDeleteWorkQueue
  BY <1>14 DEF PhDeleteWorkQueue
<1>15. CASE ReleaseThreads
  BY <1>15 DEF ReleaseThreads
<1>16. CASE PhWaitForRundownProtection
  <2>1. references = 0 => \A w \in Worker : wpc[w] = "none"
    <3>1. ASSUME references = 0 PROVE Workers({"none"}) = Worker
      BY <3>1, WorkersAreFinite DEF CountInv, Absent
    <3> QED
      BY <3>1 DEF Workers
  <2>2. wpc' = wpc /\ terminating' = terminating /\ rundown'
        /\ dpc = "rundown" /\ dpc' \in {"free", "rundown"}
        /\ (dpc' = "free" => references = 0)
    BY <1>16 DEF PhWaitForRundownProtection
  <2> QED
    BY <2>1, <2>2 DEF DeleteInv
<1>17. CASE FreeItems
  BY <1>17 DEF FreeItems, PhpDestroyWorkQueueItem
<1>18. CASE UNCHANGED vars
  BY <1>18 DEF vars
<1> QED
  BY <1>1, <1>2, <1>3, <1>4, <1>5, <1>6, <1>7, <1>8, <1>9, <1>10, <1>11, <1>12, <1>13,
     <1>14, <1>15, <1>16, <1>17, <1>18
     DEF Next, ProducerStep, WorkerStep, DeleterStep

\* An item moves from its call to the list, to a thread and to its end.
LEMMA ItemStep ==
  TypeOK /\ DeleteInv /\ ItemInv /\ [Next]_vars => ItemInv'
<1> SUFFICES ASSUME TypeOK, DeleteInv, ItemInv, [Next]_vars PROVE ItemInv'
  OBVIOUS
<1>1. ASSUME NEW i \in Item, NEW h \in Worker \cup {None}, PhQueueItemWorkQueueEx(i, h)
      PROVE  ItemInv'
  <2>1. /\ ppc[i] = "new" /\ ppc' = [ppc EXCEPT ![i] = "signal"]
           /\ queue' = Append(queue, i)
        /\ UNCHANGED <<work, wpc, dpc, executed, destroyed>>
    BY <1>1 DEF PhQueueItemWorkQueueEx, MayQueue, Produce, deletion, items
  <2>2. dpc # "deleted"
    BY <1>1 DEF PhQueueItemWorkQueueEx, MayQueue, DeleteInv
  <2>3. ~InQueue(i) /\ ~Worked(i) /\ executed[i] = 0 /\ destroyed[i] = 0
    BY <2>1 DEF ItemInv
  <2>4. /\ \A j, k \in 1 .. Len(queue') : queue'[j] = queue'[k] => j = k
        /\ \A x \in Item : InQueue(x)' <=> InQueue(x) \/ x = i
    BY <2>1, <2>3, InsertTail DEF ItemInv
  <2>5. \A x \in Item : /\ Worked(x)' <=> Worked(x)
                        /\ ppc'[x] = "new" <=> ppc[x] = "new" /\ x # i
    BY <2>1 DEF Worked, TypeOK
  <2>6. /\ \A w \in Worker : wpc'[w] = "execute" <=> work'[w] # None
        /\ \A v, w \in Worker : (work'[v] = work'[w] /\ work'[v] # None) => v = w
    BY <2>1 DEF ItemInv
  <2> QED
    BY <2>1, <2>2, <2>3, <2>4, <2>5, <2>6 DEF ItemInv
<1>2. ASSUME NEW i \in Item, SignalSemaphore(i) PROVE ItemInv'
  BY <1>2, ItemsRest DEF SignalSemaphore, Produce, deletion, producers, items, TypeOK
<1>3. ASSUME NEW i \in Item, CheckThreads(i) PROVE ItemInv'
  <2>1. \A j \in Item : ppc'[j] = "new" <=> ppc[j] = "new"
    BY <1>3 DEF CheckThreads, Produce, TypeOK
  <2> QED
    BY <1>3, <2>1, ItemsRest DEF CheckThreads, deletion, items
<1>4. ASSUME NEW i \in Item, PhpCreateWorkQueueThread(i) PROVE ItemInv'
  <2>1. \A w \in Worker : wpc'[w] = "execute" <=> wpc[w] = "execute"
    BY <1>4 DEF PhpCreateWorkQueueThread, StartThread, Go, TypeOK
  <2>2. \A j \in Item : ppc'[j] = "new" <=> ppc[j] = "new"
    BY <1>4 DEF PhpCreateWorkQueueThread, Produce, TypeOK
  <2> QED
    BY <1>4, <2>1, <2>2, ItemsRest DEF PhpCreateWorkQueueThread, deletion, items
<1>5. ASSUME NEW i \in Item, CountThread(i) PROVE ItemInv'
  BY <1>5, ItemsRest DEF CountThread, Produce, deletion, producers, items, TypeOK
<1>6. ASSUME NEW w \in Worker, TopOfLoop(w) PROVE ItemInv'
  BY <1>6, ItemsRest DEF TopOfLoop, Go, deletion, producers, items, TypeOK
<1>7. ASSUME NEW w \in Worker, WaitForWork(w) PROVE ItemInv'
  BY <1>7, ItemsRest DEF WaitForWork, Go, deletion, producers, items, TypeOK
<1>8. ASSUME NEW w \in Worker, Woken(w) PROVE ItemInv'
  BY <1>8, ItemsRest DEF Woken, Go, deletion, producers, items, TypeOK
<1>9. ASSUME NEW w \in Worker, Dequeue(w) PROVE ItemInv'
  <2>1. CASE queue = << >>
    BY <1>9, <2>1, ItemsRest DEF Dequeue, Go, deletion, producers, items, TypeOK
  <2>2. CASE queue # << >>
    <3> DEFINE h == Head(queue)
    <3>1. /\ queue' = Tail(queue) /\ work' = [work EXCEPT ![w] = h]
          /\ wpc[w] = "dequeue" /\ wpc' = [wpc EXCEPT ![w] = "execute"]
          /\ UNCHANGED <<ppc, dpc, executed, destroyed>>
      BY <1>9, <2>2 DEF Dequeue, Go, deletion, producers, items
    <3>2. /\ h \in Item /\ InQueue(h)
          /\ \A j, k \in 1 .. Len(queue') : queue'[j] = queue'[k] => j = k
          /\ \A x \in Item : InQueue(x)' <=> InQueue(x) /\ x # h
      BY <2>2, <3>1, RemoveHead DEF ItemInv
    <3>3. dpc # "deleted" /\ ~Worked(h) /\ work[w] = None /\ h # None
      BY <3>1, <3>2, WorkQueueAssumption DEF DeleteInv, ItemInv, TypeOK
    <3>4. \A x \in Item : Worked(x)' <=> Worked(x) \/ x = h
      <4>1. \A v \in Worker : work'[v] = IF v = w THEN h ELSE work[v]
        BY <3>1 DEF TypeOK
      <4> QED
        BY <3>3, <4>1, WorkQueueAssumption DEF Worked
    <3>5. /\ \A v \in Worker : wpc'[v] = "execute" <=> work'[v] # None
          /\ \A v, u \in Worker : (work'[v] = work'[u] /\ work'[v] # None) => v = u
      BY <3>1, <3>3 DEF ItemInv, Worked, TypeOK
    <3> QED
      BY <3>1, <3>2, <3>3, <3>4, <3>5 DEF ItemInv
  <2> QED
    BY <2>1, <2>2
<1>10. ASSUME NEW w \in Worker, PhpExecuteWorkQueueItem(w) PROVE ItemInv'
  <2> DEFINE j == work[w]
  <2>1. /\ wpc[w] = "execute" /\ wpc' = [wpc EXCEPT ![w] = "start"]
        /\ work' = [work EXCEPT ![w] = None]
        /\ executed' = [executed EXCEPT ![j] = @ + 1]
        /\ destroyed' = [x \in Item |-> IF x \in {j} THEN destroyed[x] + 1 ELSE destroyed[x]]
        /\ UNCHANGED <<queue, ppc, dpc>>
    BY <1>10 DEF PhpExecuteWorkQueueItem, PhpDestroyWorkQueueItem, Go, deletion
  <2>2. j \in Item /\ Worked(j) /\ ~InQueue(j) /\ ppc[j] # "new"
    BY <2>1 DEF ItemInv, Worked, TypeOK
  <2>3. executed[j] = 0 /\ destroyed[j] = 0 /\ executed'[j] = 1 /\ destroyed'[j] = 1
    BY <2>1, <2>2 DEF ItemInv, TypeOK
  <2>4. \A x \in Item : x # j => executed'[x] = executed[x] /\ destroyed'[x] = destroyed[x]
    BY <2>1 DEF TypeOK
  <2>5. \A v \in Worker : work'[v] = IF v = w THEN None ELSE work[v]
    BY <2>1 DEF TypeOK
  <2>6. \A x \in Item : Worked(x)' <=> Worked(x) /\ x # j
    BY <2>2, <2>5, WorkQueueAssumption DEF ItemInv, Worked
  <2>7. /\ \A v \in Worker : wpc'[v] = "execute" <=> work'[v] # None
        /\ \A v, u \in Worker : (work'[v] = work'[u] /\ work'[v] # None) => v = u
    BY <2>1, <2>5 DEF ItemInv, TypeOK
  <2>8. /\ \A x \in Item : InQueue(x)' <=> InQueue(x)
        /\ \A k, l \in 1 .. Len(queue') : queue'[k] = queue'[l] => k = l
    BY <2>1 DEF InQueue, ItemInv
  <2>9. UNCHANGED <<ppc, dpc>>
    BY <2>1
  <2> HIDE DEF j
  <2>10. ASSUME NEW x \in Item
         PROVE  /\ ppc'[x] = "new" =>
                     ~InQueue(x)' /\ ~Worked(x)' /\ executed'[x] = 0 /\ destroyed'[x] = 0
                /\ InQueue(x)' => ~Worked(x)'
                /\ (InQueue(x)' /\ dpc' # "deleted") \/ Worked(x)' =>
                     executed'[x] = 0 /\ destroyed'[x] = 0
                /\ InQueue(x)' /\ dpc' = "deleted" => destroyed'[x] = 1
                /\ executed'[x] <= destroyed'[x] /\ destroyed'[x] <= 1
                /\ ppc'[x] # "new" /\ destroyed'[x] = 0 => InQueue(x)' \/ Worked(x)'
    <3>1. CASE x = j
      BY <2>2, <2>3, <2>6, <2>8, <2>9, <3>1
    <3>2. CASE x # j
      BY <2>4, <2>6, <2>8, <2>9, <3>2 DEF ItemInv
    <3> QED
      BY <3>1, <3>2
  <2> QED
    BY <2>7, <2>8, <2>10 DEF ItemInv
<1>11. ASSUME NEW w \in Worker, LeaveOrStay(w) PROVE ItemInv'
  BY <1>11, ItemsRest DEF LeaveOrStay, Go, deletion, producers, items, TypeOK
<1>12. ASSUME NEW w \in Worker, PhReleaseRundownProtection(w) PROVE ItemInv'
  BY <1>12, ItemsRest DEF PhReleaseRundownProtection, Go, deletion, producers, items, TypeOK
<1>13. ASSUME NEW v \in Waiter, PhWaitForWorkQueue(v) PROVE ItemInv'
  BY <1>13, ItemsRest DEF PhWaitForWorkQueue, deletion, producers, items, TypeOK
<1>14. CASE PhDeleteWorkQueue
  BY <1>14, ItemsRest DEF PhDeleteWorkQueue, deletion, producers, items, TypeOK
<1>15. CASE ReleaseThreads
  BY <1>15, ItemsRest DEF ReleaseThreads, deletion, producers, items, TypeOK
<1>16. CASE PhWaitForRundownProtection
  BY <1>16, ItemsRest DEF PhWaitForRundownProtection, deletion, producers, items, TypeOK
<1>17. CASE FreeItems
  <2>1. /\ dpc = "free" /\ dpc' = "deleted"
        /\ destroyed' = [x \in Item |-> IF x \in {queue[k] : k \in 1 .. Len(queue)}
                                          THEN destroyed[x] + 1 ELSE destroyed[x]]
        /\ UNCHANGED <<queue, work, wpc, ppc, executed>>
    BY <1>17 DEF FreeItems, PhpDestroyWorkQueueItem, producers
  <2>2. \A x \in Item : destroyed'[x] = IF InQueue(x) THEN destroyed[x] + 1 ELSE destroyed[x]
    BY <2>1 DEF InQueue
  <2>3. \A x \in Item : ~Worked(x)
    BY <2>1, WorkQueueAssumption DEF Worked, DeleteInv, ItemInv
  <2>4. /\ \A x \in Item : (InQueue(x)' <=> InQueue(x)) /\ (Worked(x)' <=> Worked(x))
        /\ \A k, l \in 1 .. Len(queue') : queue'[k] = queue'[l] => k = l
        /\ \A v \in Worker : wpc'[v] = "execute" <=> work'[v] # None
        /\ \A v, u \in Worker : (work'[v] = work'[u] /\ work'[v] # None) => v = u
    BY <2>1 DEF InQueue, Worked, ItemInv
  <2>5. /\ dpc = "free" /\ dpc' = "deleted" /\ UNCHANGED <<ppc, executed>>
    BY <2>1
  <2>6. ASSUME NEW x \in Item
        PROVE  /\ ppc'[x] = "new" =>
                    ~InQueue(x)' /\ ~Worked(x)' /\ executed'[x] = 0 /\ destroyed'[x] = 0
               /\ InQueue(x)' => ~Worked(x)'
               /\ (InQueue(x)' /\ dpc' # "deleted") \/ Worked(x)' =>
                    executed'[x] = 0 /\ destroyed'[x] = 0
               /\ InQueue(x)' /\ dpc' = "deleted" => destroyed'[x] = 1
               /\ executed'[x] <= destroyed'[x] /\ destroyed'[x] <= 1
               /\ ppc'[x] # "new" /\ destroyed'[x] = 0 => InQueue(x)' \/ Worked(x)'
    <3>1. CASE InQueue(x)
      BY <2>2, <2>3, <2>4, <2>5, <3>1 DEF ItemInv
    <3>2. CASE ~InQueue(x)
      BY <2>2, <2>3, <2>4, <2>5, <3>2 DEF ItemInv
    <3> QED
      BY <3>1, <3>2
  <2> QED
    BY <2>4, <2>6 DEF ItemInv
<1>18. CASE UNCHANGED vars
  BY <1>18, ItemsRest DEF vars
<1> QED
  BY <1>1, <1>2, <1>3, <1>4, <1>5, <1>6, <1>7, <1>8, <1>9, <1>10, <1>11, <1>12, <1>13,
     <1>14, <1>15, <1>16, <1>17, <1>18
     DEF Next, ProducerStep, WorkerStep, DeleterStep

\* The counters stay in their ranges: a thread that leaves has been counted, and one
\* that runs an item has made the queue busy.
LEMMA TypeStep ==
  TypeOK /\ CountInv /\ ThreadInv /\ ItemInv /\ [Next]_vars => TypeOK'
<1> SUFFICES ASSUME TypeOK, CountInv, ThreadInv, ItemInv, [Next]_vars PROVE TypeOK'
  OBVIOUS
<1> USE DEF TypeOK
<1>0. /\ Cardinality(Worker) \in Nat /\ Absent \in Nat /\ Gone \in Nat /\ Busy \in Nat
      /\ TypeOK
  BY Numbers
<1>1. ASSUME NEW i \in Item, NEW h \in Worker \cup {None}, PhQueueItemWorkQueueEx(i, h)
      PROVE  TypeOK'
  BY <1>1 DEF PhQueueItemWorkQueueEx, MayQueue, Produce, items, deletion, waits, producers
<1>2. ASSUME NEW i \in Item, SignalSemaphore(i) PROVE TypeOK'
  BY <1>2 DEF SignalSemaphore, Produce, items, deletion, waits, producers
<1>3. ASSUME NEW i \in Item, CheckThreads(i) PROVE TypeOK'
  BY <1>3 DEF CheckThreads, Produce, items, deletion, waits, producers
<1>4. ASSUME NEW i \in Item, PhpCreateWorkQueueThread(i) PROVE TypeOK'
  <2>1. ppc' \in [Item -> {"new", "signal", "check", "lock", "count", "done"}]
    BY <1>4 DEF PhpCreateWorkQueueThread, Produce
  <2>2. wpc' \in [Worker ->
              {"none", "start", "wait", "woken", "dequeue", "execute", "idle", "leave"}]
    BY <1>4 DEF PhpCreateWorkQueueThread, StartThread, Go
  <2>3. references' \in Nat /\ stateLock' \in Item \cup {None}
    BY <1>4 DEF PhpCreateWorkQueueThread
  <2> QED
    BY <1>4, <2>1, <2>2, <2>3 DEF PhpCreateWorkQueueThread, deletion, waits, items
<1>5. ASSUME NEW i \in Item, CountThread(i) PROVE TypeOK'
  <2>1. stateLock = i /\ i # None
    BY <1>5, WorkQueueAssumption DEF CountThread, ThreadInv
  <2>2. threads' \in 0 .. MaximumThreads
    BY <1>5, <2>1, WorkQueueAssumption DEF CountThread, ThreadInv
  <2> QED
    BY <1>5, <2>2 DEF CountThread, Produce, deletion, waits, items
<1>6. ASSUME NEW w \in Worker, TopOfLoop(w) PROVE TypeOK'
  <2>1. wpc' \in [Worker ->
              {"none", "start", "wait", "woken", "dequeue", "execute", "idle", "leave"}]
    BY <1>6 DEF TopOfLoop, Go
  <2>2. threads' \in 0 .. MaximumThreads
    <3>1. CASE threads' = threads
      BY <3>1
    <3>2. CASE threads' = threads - 1 /\ stateLock = None /\ Go(w, "leave")
               /\ wpc[w] \in {"start", "idle"}
      <4>1. Gone' = Gone + 1 /\ Gone' \in 0 .. Cardinality(Worker)
        BY <3>2, <1>0, WorkerGoes
      <4>2. threads = Cardinality(Worker) - Gone
        BY <3>2, <1>0 DEF CountInv
      <4>3. threads \in 0 .. MaximumThreads /\ MaximumThreads \in Nat
        BY WorkQueueAssumption
      <4> HIDE DEF TypeOK
      <4> QED
        BY <3>2, <4>1, <4>2, <4>3, <1>0
    <3> QED
      BY <1>6, <3>1, <3>2 DEF TopOfLoop
  <2> QED
    BY <1>6, <2>1, <2>2 DEF TopOfLoop, deletion, waits, producers, items
<1>7. ASSUME NEW w \in Worker, WaitForWork(w) PROVE TypeOK'
  <2>1. wpc' \in [Worker ->
              {"none", "start", "wait", "woken", "dequeue", "execute", "idle", "leave"}]
    BY <1>7 DEF WaitForWork, Go
  <2> QED
    BY <1>7, <2>1 DEF WaitForWork, deletion, waits, producers, items
<1>8. ASSUME NEW w \in Worker, Woken(w) PROVE TypeOK'
  <2>1. wpc' \in [Worker ->
              {"none", "start", "wait", "woken", "dequeue", "execute", "idle", "leave"}]
    BY <1>8 DEF Woken, Go
  <2> QED
    BY <1>8, <2>1 DEF Woken, deletion, waits, producers, items
<1>9. ASSUME NEW w \in Worker, Dequeue(w) PROVE TypeOK'
  <2>1. wpc' \in [Worker ->
              {"none", "start", "wait", "woken", "dequeue", "execute", "idle", "leave"}]
    BY <1>9 DEF Dequeue, Go
  <2>2. /\ queue' \in Seq(Item) /\ work' \in [Worker -> Item \cup {None}]
        /\ condition' \in Seq(Waiter)
           /\ vpc' \in [Waiter -> {"new", "sleep", "lock", "returned"}]
    <3>1. queue' \in Seq(Item) /\ work' \in [Worker -> Item \cup {None}]
      <4>1. CASE UNCHANGED <<queue, work>>
        BY <4>1
      <4>2. CASE queue # << >> /\ queue' = Tail(queue)
                 /\ work' = [work EXCEPT ![w] = Head(queue)]
        <5>1. Tail(queue) \in Seq(Item) /\ Head(queue) \in Item
          BY <4>2
        <5> QED
          BY <4>2, <5>1
      <4> QED
        BY <1>9, <4>1, <4>2 DEF Dequeue
    <3>2. UNCHANGED waits \/ (PhPulseCondition /\ condition # << >>)
      BY <1>9 DEF Dequeue, PhPulseCondition
    <3>3. CASE UNCHANGED waits
      BY <3>1, <3>3 DEF waits
    <3>4. CASE PhPulseCondition /\ condition # << >>
      <4>1. Tail(condition) \in Seq(Waiter) /\ Head(condition) \in Waiter
        BY <3>4
      <4> QED
        BY <3>1, <3>4, <4>1 DEF PhPulseCondition
    <3> QED
      BY <3>2, <3>3, <3>4
  <2> QED
    BY <1>9, <2>1, <2>2 DEF Dequeue, deletion, waits, producers, items
<1>10. ASSUME NEW w \in Worker, PhpExecuteWorkQueueItem(w) PROVE TypeOK'
  <2>1. wpc[w] = "execute" /\ work[w] \in Item /\ Go(w, "start")
    BY <1>10, WorkQueueAssumption DEF PhpExecuteWorkQueueItem, ItemInv
  <2>2. wpc' \in [Worker ->
              {"none", "start", "wait", "woken", "dequeue", "execute", "idle", "leave"}]
    BY <2>1 DEF Go
  <2>3. Busy' = Busy - 1 /\ Busy' \in 0 .. Cardinality(Worker)
    <3> HIDE DEF TypeOK
    <3> QED
      BY <2>1, <1>0, WorkerGoes
  <2>4. busyCount' \in Nat
    <3>1. busyCount = Len(queue) + Busy /\ busyCount' = busyCount - 1 /\ Len(queue) \in Nat
      BY <1>10 DEF PhpExecuteWorkQueueItem, CountInv
    <3> QED
      BY <2>3, <3>1, <1>0
  <2>5. executed' \in [Item -> Nat] /\ destroyed' \in [Item -> Nat]
    BY <1>10, <2>1 DEF PhpExecuteWorkQueueItem, PhpDestroyWorkQueueItem
  <2>6. host' \in [Item -> Worker \cup {None}] /\ work' \in [Worker -> Item \cup {None}]
    BY <1>10 DEF PhpExecuteWorkQueueItem
  <2> QED
    BY <1>10, <2>2, <2>4, <2>5, <2>6 DEF PhpExecuteWorkQueueItem, deletion, waits
<1>11. ASSUME NEW w \in Worker, LeaveOrStay(w) PROVE TypeOK'
  <2>1. wpc' \in [Worker ->
              {"none", "start", "wait", "woken", "dequeue", "execute", "idle", "leave"}]
    BY <1>11 DEF LeaveOrStay, Go
  <2>2. threads' \in 0 .. MaximumThreads
    <3>1. CASE threads' = threads
      BY <3>1
    <3>2. CASE threads' = threads - 1 /\ stateLock = None /\ Go(w, "leave")
               /\ wpc[w] \in {"start", "idle"}
      <4>1. Gone' = Gone + 1 /\ Gone' \in 0 .. Cardinality(Worker)
        BY <3>2, <1>0, WorkerGoes
      <4>2. threads = Cardinality(Worker) - Gone
        BY <3>2, <1>0 DEF CountInv
      <4>3. threads \in 0 .. MaximumThreads /\ MaximumThreads \in Nat
        BY WorkQueueAssumption
      <4> HIDE DEF TypeOK
      <4> QED
        BY <3>2, <4>1, <4>2, <4>3, <1>0
    <3> QED
      BY <1>11, <3>1, <3>2 DEF LeaveOrStay
  <2> QED
    BY <1>11, <2>1, <2>2 DEF LeaveOrStay, deletion, waits, producers, items
<1>12. ASSUME NEW w \in Worker, PhReleaseRundownProtection(w) PROVE TypeOK'
  <2>1. wpc' \in [Worker ->
              {"none", "start", "wait", "woken", "dequeue", "execute", "idle", "leave"}]
    BY <1>12 DEF PhReleaseRundownProtection, Go
  <2>2. references' \in Nat
    <3>1. Absent' = Absent + 1 /\ Absent' \in 0 .. Cardinality(Worker)
      BY <1>12, <1>0, WorkerGoes DEF PhReleaseRundownProtection
    <3>2. references = Cardinality(Worker) - Absent /\ references' = references - 1
      BY <1>12 DEF CountInv, PhReleaseRundownProtection
    <3> QED
      BY <1>0, <3>1, <3>2
  <2> QED
    BY <1>12, <2>1, <2>2 DEF PhReleaseRundownProtection, deletion, waits, producers, items
<1>13. ASSUME NEW v \in Waiter, PhWaitForWorkQueue(v) PROVE TypeOK'
  <2>1. vpc' \in [Waiter -> {"new", "sleep", "lock", "returned"}]
        /\ condition' \in Seq(Waiter)
    <3>1. CASE UNCHANGED condition /\ vpc' = [vpc EXCEPT ![v] = "returned"]
      BY <3>1
    <3>2. CASE condition' = Append(condition, v) /\ vpc' = [vpc EXCEPT ![v] = "sleep"]
      <4>1. Append(condition, v) \in Seq(Waiter)
        OBVIOUS
      <4> QED
        BY <3>2, <4>1
    <3> QED
      BY <1>13, <3>1, <3>2 DEF PhWaitForWorkQueue
  <2> QED
    BY <1>13, <2>1 DEF PhWaitForWorkQueue, deletion, producers, items
<1>14. CASE PhDeleteWorkQueue
  BY <1>14 DEF PhDeleteWorkQueue, items, deletion, waits, producers
<1>15. CASE ReleaseThreads
  <2>1. permits' \in Nat
    BY <1>15, WorkQueueAssumption DEF ReleaseThreads
  <2> QED
    BY <1>15, <2>1 DEF ReleaseThreads, waits, producers, items
<1>16. CASE PhWaitForRundownProtection
  BY <1>16 DEF PhWaitForRundownProtection, items, deletion, waits, producers
<1>17. CASE FreeItems
  BY <1>17 DEF FreeItems, PhpDestroyWorkQueueItem, items, deletion, waits, producers
<1>18. CASE UNCHANGED vars
  BY <1>18 DEF vars, items, deletion, waits, producers
<1> QED
  BY <1>1, <1>2, <1>3, <1>4, <1>5, <1>6, <1>7, <1>8, <1>9, <1>10, <1>11, <1>12, <1>13,
     <1>14, <1>15, <1>16, <1>17, <1>18
     DEF Next, ProducerStep, WorkerStep, DeleterStep

-----------------------------------------------------------------------------
(***************************************************************************)
(* The theorems.                                                           *)
(***************************************************************************)

\* PhInitializeWorkQueue makes a queue without threads.
LEMMA InitInv == Init => QueueIInv
<1> SUFFICES ASSUME Init PROVE QueueIInv
  OBVIOUS
<1>1. TypeOK
  <2>1. /\ queue \in Seq(Item) /\ condition \in Seq(Waiter)
        /\ threads \in 0 .. MaximumThreads
    BY WorkQueueAssumption DEF Init
  <2>2. /\ executed \in [Item -> Nat] /\ destroyed \in [Item -> Nat]
        /\ host \in [Item -> Worker \cup {None}]
        /\ work \in [Worker -> Item \cup {None}]
    BY DEF Init
  <2> QED
    BY <2>1, <2>2 DEF Init, TypeOK
<1>2. CountInv
  <2>1. /\ Workers({"none"}) = Worker /\ Workers({"none", "leave"}) = Worker
        /\ Workers({"execute"}) = {} /\ Workers({"woken", "dequeue"}) = {}
        /\ Calls({"signal"}) = {}
    BY DEF Init, Workers, Calls
  <2>2. /\ Absent = Cardinality(Worker) /\ Gone = Cardinality(Worker)
        /\ Busy = 0 /\ Awake = 0 /\ Signalling = 0
    BY <2>1, FS_EmptySet DEF Absent, Gone, Busy, Awake, Signalling
  <2>3. Cardinality(Worker) \in Nat /\ Len(queue) = 0
    BY WorkersAreFinite DEF Init
  <2> QED
    BY <2>2, <2>3 DEF Init, CountInv
<1>3. ThreadInv
  <2>1. Calls({"signal"}) = {}
    BY DEF Init, Calls
  <2> QED
    BY <2>1, FS_EmptySet, WorkQueueAssumption DEF Init, ThreadInv
<1>4. DeleteInv
  BY DEF Init, DeleteInv
<1>5. ItemInv
  <2>1. Len(queue) = 0
    BY DEF Init
  <2>2. \A i \in Item : ~InQueue(i) /\ ~Worked(i)
    BY <2>1, WorkQueueAssumption DEF Init, InQueue, Worked
  <2>3. \A w \in Worker : wpc[w] # "execute" /\ work[w] = None
    BY DEF Init
  <2> QED
    BY <2>1, <2>2, <2>3 DEF Init, ItemInv
<1> QED
  BY <1>1, <1>2, <1>3, <1>4, <1>5 DEF QueueIInv

\* The queue, its threads and its deletion keep the inductive invariant.
THEOREM Invariance == Spec => []QueueIInv
<1>1. QueueIInv /\ [Next]_vars => QueueIInv'
  BY TypeStep, CountStep, LockStep, DeleteStep, ItemStep DEF QueueIInv
<1> QED
  BY InitInv, <1>1, PTL DEF Spec

\* No item is in the list without a permit, a producer or a thread that will
\* take it, and CurrentThreads and BusyCount are what producers, threads and
\* PhDeleteWorkQueue take them for, however their steps interleave.
THEOREM CountersAgree == Spec => []QueueInv
<1>1. QueueIInv => QueueInv
  <2> SUFFICES ASSUME QueueIInv PROVE PermitForEveryItem /\ CountsAreTrue
    BY DEF QueueIInv, QueueInv
  <2>1. PermitForEveryItem
    BY DEF QueueIInv, CountInv, PermitForEveryItem, Signalling, Awake
  <2>2. Cardinality(Calls({"count"})) = IF stateLock = None THEN 0 ELSE 1
    <3>1. CASE stateLock = None
      <4>1. Calls({"count"}) = {}
        BY <3>1, WorkQueueAssumption DEF QueueIInv, ThreadInv, Calls
      <4> QED
        BY <3>1, <4>1, FS_EmptySet
    <3>2. CASE stateLock # None
      <4>1. Calls({"count"}) = {stateLock}
        BY <3>2 DEF QueueIInv, ThreadInv, TypeOK, Calls
      <4> QED
        BY <3>2, <4>1, FS_Singleton
    <3> QED
      BY <3>1, <3>2
  <2>3. CountsAreTrue
    BY <2>2 DEF QueueIInv, CountInv, CountsAreTrue, Gone, Busy
  <2> QED
    BY <2>1, <2>3
<1> QED
  BY <1>1, Invariance, PTL

\* "Make sure the structure doesn't get deleted while the thread is running": the
\* items that are left are freed when no thread is, and each item is executed
\* once at most and destroyed once.
THEOREM DeletionIsLast == Spec => []EndInv
<1>1. QueueIInv => EndInv
  <2> SUFFICES ASSUME QueueIInv PROVE QueueOutlivesThreads /\ ItemEndsOnce
    BY DEF EndInv
  <2>1. QueueOutlivesThreads
    BY DEF QueueIInv, DeleteInv, QueueOutlivesThreads, Workers
  <2>2. dpc = "deleted" => \A i \in Item : ~Worked(i)
    BY WorkQueueAssumption DEF QueueIInv, DeleteInv, ItemInv, Worked
  <2>3. \A i \in Item : destroyed[i] \in Nat
    BY DEF QueueIInv, TypeOK
  <2>4. ItemEndsOnce
    BY <2>2, <2>3 DEF QueueIInv, ItemInv, ItemEndsOnce
  <2> QED
    BY <2>1, <2>4
<1> QED
  BY <1>1, Invariance, PTL

=============================================================================
