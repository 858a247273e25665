---------------------------- MODULE FastLockProofs ----------------------------
(***************************************************************************)
(* The word of the fast lock counts its owners and waiters, its waking bit *)
(* is one thread, and the lock is a reader/writer lock, for any number of  *)
(* threads that the counters have room for.                                *)
(***************************************************************************)
EXTENDS FastLock, FiniteSetTheorems, TLAPS

SharedOwners == {t \in Thread : pc[t] = "owns" /\ want[t] = "shared"}

Waiters(k) == {t \in Thread : pc[t] = "wait" /\ want[t] = k}

\* Threads with a semaphore that they have created and not stored.
Creators(k) == {t \in At("created") : want[t] = k}

\* The counts that threads are about to release the shared event with, one
\* element for each unit.
Units(r) == {u \in Thread \X (1 .. MaxCount) : u[2] <= r[u[1]]}

\* The owners agree with the word, and an exclusive one is alone.
OwnerInv ==
  /\ word.sharedOwners = Cardinality(SharedOwners)
  /\ word.owned <=> \E t \in Thread : pc[t] = "owns"
  /\ \A s, t \in Thread :
       (pc[s] = "owns" /\ want[s] = "exclusive" /\ pc[t] = "owns") => s = t
  /\ word.waking => ~word.owned
  /\ \A t \in Thread : pc[t] = "woken" => want[t] = "exclusive"

\* Every thread that waits is counted once: in the word, with a thread that will
\* release its event, or in the event, which exists.
WaiterInv ==
  /\ word.exclusiveWaiters + Cardinality(At("handOver")) + semaphore["exclusive"]
       = Cardinality(Waiters("exclusive"))
  /\ word.sharedWaiters + Cardinality(Units(release)) + semaphore["shared"]
       = Cardinality(Waiters("shared"))
  /\ \A t \in Thread : release[t] # 0 => pc[t] = "wakeShared"
  /\ \A t \in Thread : pc[t] = "wait" => handle[want[t]] = 1

LockIInv == TypeOK /\ OwnerInv /\ WaiterInv /\ EventsAreKept /\ WakingIsOneThread

-----------------------------------------------------------------------------
(***************************************************************************)
(* Counting.                                                               *)
(***************************************************************************)

\* Sets of threads are finite, and have no more elements than a counter holds.
LEMMA ThreadsAreCounted ==
  ASSUME NEW S, S \subseteq Thread
  PROVE  IsFiniteSet(S) /\ Cardinality(S) \in Count
<1>1. IsFiniteSet(S) /\ Cardinality(S) <= Cardinality(Thread) /\ Cardinality(S) \in Nat
  BY ThreadsAssumption, FS_Subset, FS_CardinalityType
<1>2. Cardinality(Thread) \in Nat
  BY ThreadsAssumption, FS_CardinalityType
<1> QED
  BY <1>1, <1>2, ThreadsAssumption DEF Count

\* A thread that joins a set is counted in it,
LEMMA OneMore ==
  ASSUME NEW S, S \subseteq Thread, NEW t \in Thread, t \notin S, NEW R, R = S \cup {t}
  PROVE  Cardinality(R) = Cardinality(S) + 1
  BY ThreadsAreCounted, FS_AddElement

\* and one that leaves a set was counted in it.
LEMMA OneLess ==
  ASSUME NEW S, S \subseteq Thread, NEW t \in S, NEW R, R = S \ {t}
  PROVE  Cardinality(R) = Cardinality(S) - 1 /\ Cardinality(S) > 0
<1>1. Cardinality(R) = Cardinality(S) - 1
  BY ThreadsAreCounted, FS_RemoveElement
<1>2. Cardinality(R) \in Nat /\ Cardinality(S) \in Nat
  BY ThreadsAreCounted, FS_CardinalityType, S \subseteq Thread, R \subseteq Thread
<1> QED
  BY <1>1, <1>2

\* The threads at a place are finitely many.
LEMMA AtIsCounted ==
  \A place : IsFiniteSet(At(place)) /\ Cardinality(At(place)) \in Nat
<1>1. \A place : At(place) \subseteq Thread
  BY DEF At
<1> QED
  BY <1>1, ThreadsAreCounted, FS_CardinalityType

\* So are the waiters of a mode.
LEMMA WaitersAreCounted ==
  \A k : /\ Waiters(k) \subseteq Thread
         /\ IsFiniteSet(Waiters(k)) /\ Cardinality(Waiters(k)) \in Nat
<1>1. \A k : Waiters(k) \subseteq Thread
  BY DEF Waiters
<1> QED
  BY <1>1, ThreadsAreCounted, FS_CardinalityType

\* A set that counts no thread is empty.
LEMMA NoneOrSome ==
  ASSUME NEW S, S \subseteq Thread
  PROVE  (Cardinality(S) > 0 <=> S # {}) /\ (Cardinality(S) = 0 <=> S = {})
<1>1. IsFiniteSet(S) /\ Cardinality(S) \in Nat
  BY ThreadsAreCounted, FS_CardinalityType
<1>2. Cardinality(S) = 0 <=> S = {}
  BY <1>1, FS_EmptySet
<1> QED
  BY <1>1, <1>2

\* There are finitely many units.
LEMMA UnitsAreCounted ==
  \A r : IsFiniteSet(Units(r)) /\ Cardinality(Units(r)) \in Nat
<1>1. IsFiniteSet(1 .. MaxCount)
  BY FS_Interval, ThreadsAssumption
<1>2. IsFiniteSet(Thread \X (1 .. MaxCount))
  BY <1>1, ThreadsAssumption, FS_Product, Zenon
<1>3. \A r : Units(r) \subseteq Thread \X (1 .. MaxCount)
  BY DEF Units
<1> QED
  BY <1>2, <1>3, FS_Subset, FS_CardinalityType

\* A thread without units takes some, or one with units gives them all back.
LEMMA UnitsOfOne ==
  ASSUME NEW r \in [Thread -> Count], NEW t \in Thread, NEW n \in Count, r[t] = 0,
         NEW q, q = [r EXCEPT ![t] = n]
  PROVE  Cardinality(Units(q)) = Cardinality(Units(r)) + n
<1> DEFINE U == {t} \X (1 .. n)
<1>2. Units(r) \subseteq Thread \X (1 .. MaxCount)
  BY DEF Units
<1>3. IsFiniteSet(Units(r))
  BY UnitsAreCounted
<1>4. IsFiniteSet(U) /\ Cardinality(U) = n
  <2>1. IsFiniteSet({t}) /\ Cardinality({t}) = 1
    BY FS_Singleton
  <2>2. IsFiniteSet(1 .. n) /\ Cardinality(1 .. n) = n
    BY FS_Interval, ThreadsAssumption DEF Count
  <2>3. IsFiniteSet(U) /\ Cardinality(U) = Cardinality({t}) * Cardinality(1 .. n)
    BY <2>1, <2>2, FS_Product, Zenon
  <2> QED
    BY <2>1, <2>2, <2>3, ThreadsAssumption DEF Count
<1>5. Units(r) \cap U = {}
  BY ThreadsAssumption DEF Units, Count
<1>6. Units(q) = Units(r) \cup U
  <2>1. ASSUME NEW s \in Thread, NEW i \in 1 .. MaxCount
        PROVE  <<s, i>> \in Units(q) <=> <<s, i>> \in Units(r) \/ (s = t /\ i \in 1 .. n)
    BY ThreadsAssumption DEF Units, Count
  <2>2. U \subseteq Thread \X (1 .. MaxCount)
    BY ThreadsAssumption DEF Count
  <2>3. ASSUME NEW u \in Thread \X (1 .. MaxCount)
        PROVE  u \in Units(q) <=> u \in Units(r) \/ u \in U
    <3>1. PICK s \in Thread, i \in 1 .. MaxCount : u = <<s, i>>
      OBVIOUS
    <3>2. u \in U <=> s = t /\ i \in 1 .. n
      BY <3>1
    <3> QED
      BY <2>1, <3>1, <3>2
  <2> QED
    BY <1>2, <2>2, <2>3 DEF Units
<1>7. Cardinality(Units(r) \cup U)
        = Cardinality(Units(r)) + Cardinality(U) - Cardinality(Units(r) \cap U)
  <2> HIDE DEF U
  <2> QED
    BY <1>3, <1>4, FS_Union
<1>8. Cardinality(Units(r)) \in Nat
  BY <1>3, FS_CardinalityType
<1>9. Cardinality({}) = 0
  BY FS_EmptySet
<1> HIDE DEF U
<1>10. Cardinality(Units(q)) = Cardinality(Units(r)) + n - 0
  BY <1>4, <1>5, <1>6, <1>7, <1>9, Zenon
<1> QED
  BY <1>3, <1>8, <1>10, ThreadsAssumption DEF Count

-----------------------------------------------------------------------------
(***************************************************************************)
(* The steps that preserve the invariant.                                  *)
(***************************************************************************)

\* The events the counters of the word are about exist.
LEMMA WaitedOnExists ==
  ASSUME TypeOK, WaiterInv
  PROVE  /\ word.exclusiveWaiters > 0 => handle["exclusive"] = 1
         /\ word.sharedWaiters > 0 => handle["shared"] = 1
<1>1. /\ Cardinality(At("handOver")) \in Nat
      /\ Cardinality(Units(release)) \in Nat
  BY AtIsCounted, UnitsAreCounted
<1>2. ASSUME NEW k \in Kind, Cardinality(Waiters(k)) > 0 PROVE handle[k] = 1
  <2>1. Waiters(k) # {}
    BY <1>2, NoneOrSome DEF Waiters
  <2> QED
    BY <2>1 DEF WaiterInv, Waiters
<1>3. word.exclusiveWaiters > 0 => Cardinality(Waiters("exclusive")) > 0
  BY <1>1, ThreadsAssumption DEF TypeOK, WaiterInv, Kind, Count
<1>4. word.sharedWaiters > 0 => Cardinality(Waiters("shared")) > 0
  BY <1>1, ThreadsAssumption DEF TypeOK, WaiterInv, Kind, Count
<1> QED
  BY <1>2, <1>3, <1>4 DEF Kind

\* What the word says of the owners when it lets a thread in,
LEMMA MayTakeOwners ==
  ASSUME TypeOK, OwnerInv, NEW mode \in Kind, MayTake(mode)
  PROVE  \A s \in Thread : pc[s] = "owns" => mode = "shared" /\ want[s] = "shared"
<1>1. CASE mode = "exclusive"
  BY <1>1 DEF MayTake, OwnerInv
<1>2. CASE mode = "shared"
  <2> SUFFICES ASSUME NEW s \in Thread, pc[s] = "owns" PROVE want[s] = "shared"
    BY <1>2
  <2>1. word.sharedOwners > 0
    BY <1>2 DEF MayTake, OwnerInv
  <2>2. SharedOwners # {}
    BY <2>1, NoneOrSome DEF OwnerInv, SharedOwners
  <2> QED
    BY <2>2 DEF OwnerInv, SharedOwners, TypeOK, Kind
<1> QED
  BY <1>1, <1>2 DEF Kind

\* and when a thread has been woken to take it over.
LEMMA WokenOwners ==
  ASSUME TypeOK, OwnerInv, WakingIsOneThread, NEW t \in Thread, pc[t] = "woken"
  PROVE  \A s \in Thread : pc[s] # "owns"
<1>1. At("woken") \subseteq Thread /\ At("woken") # {}
  BY DEF At
<1>2. Cardinality(At("woken")) > 0
  BY <1>1, NoneOrSome
<1>3. semaphore["exclusive"] \in Nat
  BY ThreadsAssumption DEF TypeOK, Kind, Count
<1>4. word.waking
  BY <1>2, <1>3, AtIsCounted DEF WakingIsOneThread
<1> QED
  BY <1>4 DEF OwnerInv

\* A thread the word lets in shares the lock with nobody it may not.
LEMMA TakeLetsIn ==
  ASSUME TypeOK, OwnerInv, NEW t \in Thread, NEW mode \in Kind, pc[t] \in {"idle", "ask"},
         MayTake(mode), Take(mode),
         pc' = [pc EXCEPT ![t] = "owns"], want' = [want EXCEPT ![t] = mode]
  PROVE  OwnerInv'
<1> USE DEF TypeOK, Kind
<1>1. /\ pc'[t] = "owns" /\ want'[t] = mode
      /\ \A s \in Thread : s # t => pc'[s] = pc[s] /\ want'[s] = want[s]
  OBVIOUS
<1>2. /\ word'.owned /\ word'.waking = word.waking /\ ~word.waking
      /\ word'.sharedOwners = IF mode = "shared" THEN word.sharedOwners + 1
                                                 ELSE word.sharedOwners
  BY DEF Take, MayTake, ExclusivePending
<1>3. \A s \in Thread : pc'[s] = "woken" => want'[s] = "exclusive"
  BY <1>1 DEF OwnerInv
<1>4. CASE mode = "exclusive"
  <2>1. \A s \in Thread : pc[s] # "owns"
    BY <1>4, MayTakeOwners
  <2>2. SharedOwners' = SharedOwners
    BY <1>1, <1>4, <2>1 DEF SharedOwners
  <2> QED
    BY <1>1, <1>2, <1>3, <1>4, <2>1, <2>2 DEF OwnerInv
<1>5. CASE mode = "shared"
  <2>1. SharedOwners \subseteq Thread /\ t \notin SharedOwners
    BY DEF SharedOwners
  <2>2. SharedOwners' = SharedOwners \cup {t}
    BY <1>1, <1>5 DEF SharedOwners
  <2>3. Cardinality(SharedOwners') = Cardinality(SharedOwners) + 1
    BY <2>1, <2>2, OneMore
  <2>4. \A s \in Thread : pc[s] = "owns" => want[s] = "shared"
    BY MayTakeOwners
  <2> QED
    BY <1>1, <1>2, <1>3, <1>5, <2>3, <2>4 DEF OwnerInv
<1> QED
  BY <1>4, <1>5

\* A thread that does not own the lock, before or after, leaves its owners.
LEMMA OwnersStand ==
  ASSUME TypeOK, OwnerInv, NEW t \in Thread, pc[t] # "owns", pc'[t] # "owns",
         pc'[t] = "woken" => want[t] = "exclusive",
         \A s \in Thread : s # t => pc'[s] = pc[s],
         want' = want, word'.owned = word.owned, word'.waking = word.waking,
         word'.sharedOwners = word.sharedOwners
  PROVE  OwnerInv'
<1>1. SharedOwners' = SharedOwners
  BY DEF SharedOwners
<1>2. \A s \in Thread : pc'[s] = "owns" <=> pc[s] = "owns"
  OBVIOUS
<1>3. \A s \in Thread : pc'[s] = "woken" => want'[s] = "exclusive"
  BY DEF OwnerInv
<1> QED
  BY <1>1, <1>2, <1>3 DEF OwnerInv

\* An owner is let in by the word, and nobody else moves then.
LEMMA OwnerStep ==
  TypeOK /\ OwnerInv /\ WakingIsOneThread /\ [Next]_vars => OwnerInv'
<1> SUFFICES ASSUME TypeOK, OwnerInv, WakingIsOneThread, [Next]_vars PROVE OwnerInv'
  OBVIOUS
<1> USE ThreadsAssumption DEF TypeOK, OwnerInv, SharedOwners, Kind, Go
<1>1. ASSUME NEW t \in Thread, NEW mode \in Kind, Ask(t, mode) PROVE OwnerInv'
  BY <1>1 DEF Ask
<1>2. ASSUME NEW t \in Thread, NEW mode \in Kind, TryAcquire(t, mode)
      PROVE  OwnerInv'
  <2>1. /\ pc[t] = "idle" /\ MayTake(mode) /\ Take(mode)
        /\ pc' = [pc EXCEPT ![t] = "owns"] /\ want' = [want EXCEPT ![t] = mode]
    BY <1>2 DEF TryAcquire
  <2> HIDE DEF TypeOK, OwnerInv
  <2> QED
    BY <2>1, TakeLetsIn
<1>3. ASSUME NEW t \in Thread, Acquire(t) PROVE OwnerInv'
  <2>1. /\ pc[t] = "ask" /\ MayTake(want[t]) /\ Take(want[t]) /\ want[t] \in Kind
        /\ pc' = [pc EXCEPT ![t] = "owns"] /\ want' = [want EXCEPT ![t] = want[t]]
    BY <1>3 DEF Acquire
  <2> HIDE DEF TypeOK, OwnerInv
  <2> QED
    BY <2>1, TakeLetsIn
<1>4. ASSUME NEW t \in Thread, NtCreateSemaphore(t) PROVE OwnerInv'
  <2>1. /\ pc[t] # "owns" /\ pc'[t] # "owns"
        /\ pc'[t] = "woken" => want[t] = "exclusive"
        /\ \A s \in Thread : s # t => pc'[s] = pc[s]
    BY <1>4 DEF NtCreateSemaphore
  <2>2. /\ want' = want /\ word'.owned = word.owned /\ word'.waking = word.waking
        /\ word'.sharedOwners = word.sharedOwners
    BY <1>4 DEF NtCreateSemaphore
  <2> HIDE DEF TypeOK, OwnerInv
  <2> QED
    BY <2>1, <2>2, OwnersStand
<1>5. ASSUME NEW t \in Thread, PhpEnsureEventCreated(t) PROVE OwnerInv'
  <2>1. /\ pc[t] # "owns" /\ pc'[t] # "owns"
        /\ pc'[t] = "woken" => want[t] = "exclusive"
        /\ \A s \in Thread : s # t => pc'[s] = pc[s]
    BY <1>5 DEF PhpEnsureEventCreated
  <2>2. /\ want' = want /\ word'.owned = word.owned /\ word'.waking = word.waking
        /\ word'.sharedOwners = word.sharedOwners
    BY <1>5 DEF PhpEnsureEventCreated
  <2> HIDE DEF TypeOK, OwnerInv
  <2> QED
    BY <2>1, <2>2, OwnersStand
<1>6. ASSUME NEW t \in Thread, Wait(t) PROVE OwnerInv'
  <2>1. /\ pc[t] # "owns" /\ pc'[t] # "owns"
        /\ pc'[t] = "woken" => want[t] = "exclusive"
        /\ \A s \in Thread : s # t => pc'[s] = pc[s]
    BY <1>6 DEF Wait
  <2>2. /\ want' = want /\ word'.owned = word.owned /\ word'.waking = word.waking
        /\ word'.sharedOwners = word.sharedOwners
    BY <1>6 DEF Wait
  <2> HIDE DEF TypeOK, OwnerInv
  <2> QED
    BY <2>1, <2>2, OwnersStand
<1>7. ASSUME NEW t \in Thread, NtWaitForSingleObject(t) PROVE OwnerInv'
  <2>1. /\ pc[t] # "owns" /\ pc'[t] # "owns"
        /\ pc'[t] = "woken" => want[t] = "exclusive"
        /\ \A s \in Thread : s # t => pc'[s] = pc[s]
    BY <1>7 DEF NtWaitForSingleObject
  <2>2. /\ want' = want /\ word'.owned = word.owned /\ word'.waking = word.waking
        /\ word'.sharedOwners = word.sharedOwners
    BY <1>7 DEF NtWaitForSingleObject
  <2> HIDE DEF TypeOK, OwnerInv
  <2> QED
    BY <2>1, <2>2, OwnersStand
<1>8. ASSUME NEW t \in Thread, TakeOver(t) PROVE OwnerInv'
  <2>5. SharedOwners' = SharedOwners /\ want[t] = "exclusive"
    BY <1>8 DEF TakeOver
  <2>6. \A s \in Thread : pc[s] # "owns"
    BY <1>8, WokenOwners DEF TakeOver
  <2> QED
    BY <1>8, <2>5, <2>6 DEF TakeOver
<1>9. ASSUME NEW t \in Thread, PhfReleaseFastLockExclusive(t) PROVE OwnerInv'
  <2>1. /\ \A s \in Thread : s # t => pc[s] # "owns" /\ pc'[s] = pc[s]
        /\ pc'[t] \in {"handOver", "wakeShared", "idle"} /\ want' = want
    BY <1>9 DEF PhfReleaseFastLockExclusive
  <2>2. ~word'.owned /\ word'.sharedOwners = word.sharedOwners
    BY <1>9 DEF PhfReleaseFastLockExclusive, HandOver
  <2>3. SharedOwners' = SharedOwners
    BY <1>9, <2>1 DEF PhfReleaseFastLockExclusive
  <2> QED
    BY <2>1, <2>2, <2>3
<1>10. ASSUME NEW t \in Thread, PhfReleaseFastLockShared(t) PROVE OwnerInv'
  <2>1. /\ \A s \in Thread : s # t => pc'[s] = pc[s]
        /\ pc[t] = "owns" /\ want[t] = "shared"
        /\ pc'[t] \in {"handOver", "idle"} /\ want' = want
    BY <1>10 DEF PhfReleaseFastLockShared
  <2>2. /\ word'.sharedOwners = word.sharedOwners - 1
        /\ word'.owned <=> word.sharedOwners > 1
        /\ word'.waking => word.waking \/ ~word'.owned
    <3>1. CASE word.sharedOwners <= 1 /\ word.exclusiveWaiters > 0
      <4>1. word' = [HandOver EXCEPT !.sharedOwners = word.sharedOwners - 1]
        BY <1>10, <3>1 DEF PhfReleaseFastLockShared, HandOver
      <4> QED
        BY <3>1, <4>1 DEF HandOver, Count
    <3>2. CASE ~(word.sharedOwners <= 1 /\ word.exclusiveWaiters > 0)
      <4>1. word' = [word EXCEPT !.sharedOwners = @ - 1, !.owned = word.sharedOwners > 1]
        BY <1>10, <3>2 DEF PhfReleaseFastLockShared
      <4> QED
        BY <3>2, <4>1 DEF Count
    <3> QED
      BY <3>1, <3>2
  <2>3. SharedOwners' = SharedOwners \ {t} /\ t \in SharedOwners
    BY <2>1
  <2>4. /\ Cardinality(SharedOwners') = Cardinality(SharedOwners) - 1
        /\ Cardinality(SharedOwners') > 0 <=> SharedOwners' # {}
    <3>1. SharedOwners \subseteq Thread /\ SharedOwners' \subseteq Thread
      OBVIOUS
    <3> HIDE DEF SharedOwners
    <3> QED
      BY <2>3, <3>1, OneLess, NoneOrSome
  <2>5. word'.owned <=> SharedOwners' # {}
    <3>1. Cardinality(SharedOwners') = word.sharedOwners - 1 /\ word.sharedOwners \in Nat
      BY <2>4 DEF Count
    <3>2. word.sharedOwners > 1 <=> word.sharedOwners - 1 > 0
      BY <3>1
    <3> QED
      BY <2>2, <2>4, <3>1, <3>2
  <2>6. \A s \in Thread : pc[s] = "owns" => want[s] = "shared"
    BY <2>1
  <2>7. ~word.waking
    BY <2>1
  <2> QED
    BY <2>1, <2>2, <2>4, <2>5, <2>6, <2>7 DEF Count
<1>11. ASSUME NEW t \in Thread, NtReleaseSemaphore(t) PROVE OwnerInv'
  BY <1>11 DEF NtReleaseSemaphore
<1>12. CASE PhDeleteFastLock
  BY <1>12 DEF PhDeleteFastLock
<1>13. CASE UNCHANGED vars
  BY <1>13 DEF vars
<1>14. ASSUME NEW t \in Thread, NtCreateSemaphoreFails(t) PROVE OwnerInv'
  BY <1>14 DEF NtCreateSemaphoreFails
<1> QED
  BY <1>1, <1>2, <1>3, <1>4, <1>5, <1>6, <1>7, <1>8, <1>9, <1>10, <1>11, <1>12, <1>13,
     <1>14
     DEF Next, Start, Step

\* A thread that does not hold the right to wake, before or after, leaves it to
\* the one that does.
LEMMA WakingStands ==
  ASSUME TypeOK, WakingIsOneThread, NEW t \in Thread,
         pc[t] \notin {"handOver", "woken", "wakeShared"},
         pc'[t] \notin {"handOver", "woken", "wakeShared"},
         \A s \in Thread : s # t => pc'[s] = pc[s],
         word'.waking = word.waking, semaphore' = semaphore,
         \A k \in Kind : handle[k] = 1 => handle'[k] = 1
  PROVE  WakingIsOneThread'
<1>1. /\ At("handOver")' = At("handOver") /\ At("woken")' = At("woken")
      /\ At("wakeShared")' = At("wakeShared")
  BY DEF At
<1>2. "exclusive" \in Kind /\ "shared" \in Kind
  BY DEF Kind
<1> QED
  BY <1>1, <1>2 DEF WakingIsOneThread

\* The right to wake goes from the owner to the event to the thread it wakes.
LEMMA WakeStep ==
  TypeOK /\ OwnerInv /\ WaiterInv /\ WakingIsOneThread /\ [Next]_vars => WakingIsOneThread'
<1> SUFFICES ASSUME TypeOK, OwnerInv, WaiterInv, WakingIsOneThread, [Next]_vars
             PROVE  WakingIsOneThread'
  OBVIOUS
<1> USE ThreadsAssumption DEF TypeOK, OwnerInv, WaiterInv, WakingIsOneThread, At,
      Kind, Go
<1>1. ASSUME NEW t \in Thread, NEW mode \in Kind, Ask(t, mode)
      PROVE  WakingIsOneThread'
  <2>1. /\ pc[t] \notin {"handOver", "woken", "wakeShared"}
        /\ pc'[t] \notin {"handOver", "woken", "wakeShared"}
        /\ \A s \in Thread : s # t => pc'[s] = pc[s]
    BY <1>1 DEF Ask
  <2>2. word'.waking = word.waking /\ semaphore' = semaphore
    BY <1>1 DEF Ask
  <2>3. \A k \in Kind : handle[k] = 1 => handle'[k] = 1
    BY <1>1 DEF Ask
  <2> HIDE DEF TypeOK, OwnerInv, WaiterInv, WakingIsOneThread, At, Kind
  <2> QED
    BY <2>1, <2>2, <2>3, WakingStands
<1>2. ASSUME NEW t \in Thread, NEW mode \in Kind, TryAcquire(t, mode)
      PROVE  WakingIsOneThread'
  <2>1. /\ pc[t] \notin {"handOver", "woken", "wakeShared"}
        /\ pc'[t] \notin {"handOver", "woken", "wakeShared"}
        /\ \A s \in Thread : s # t => pc'[s] = pc[s]
    BY <1>2 DEF TryAcquire, Take
  <2>2. word'.waking = word.waking /\ semaphore' = semaphore
    BY <1>2 DEF TryAcquire, Take
  <2>3. \A k \in Kind : handle[k] = 1 => handle'[k] = 1
    BY <1>2 DEF TryAcquire, Take
  <2> HIDE DEF TypeOK, OwnerInv, WaiterInv, WakingIsOneThread, At, Kind
  <2> QED
    BY <2>1, <2>2, <2>3, WakingStands
<1>3. ASSUME NEW t \in Thread, Acquire(t) PROVE WakingIsOneThread'
  <2>1. /\ pc[t] \notin {"handOver", "woken", "wakeShared"}
        /\ pc'[t] \notin {"handOver", "woken", "wakeShared"}
        /\ \A s \in Thread : s # t => pc'[s] = pc[s]
    BY <1>3 DEF Acquire, Take
  <2>2. word'.waking = word.waking /\ semaphore' = semaphore
    BY <1>3 DEF Acquire, Take
  <2>3. \A k \in Kind : handle[k] = 1 => handle'[k] = 1
    BY <1>3 DEF Acquire, Take
  <2> HIDE DEF TypeOK, OwnerInv, WaiterInv, WakingIsOneThread, At, Kind
  <2> QED
    BY <2>1, <2>2, <2>3, WakingStands
<1>4. ASSUME NEW t \in Thread, NtCreateSemaphore(t) PROVE WakingIsOneThread'
  <2>1. /\ pc[t] \notin {"handOver", "woken", "wakeShared"}
        /\ pc'[t] \notin {"handOver", "woken", "wakeShared"}
        /\ \A s \in Thread : s # t => pc'[s] = pc[s]
    BY <1>4 DEF NtCreateSemaphore
  <2>2. word'.waking = word.waking /\ semaphore' = semaphore
    BY <1>4 DEF NtCreateSemaphore
  <2>3. \A k \in Kind : handle[k] = 1 => handle'[k] = 1
    BY <1>4 DEF NtCreateSemaphore
  <2> HIDE DEF TypeOK, OwnerInv, WaiterInv, WakingIsOneThread, At, Kind
  <2> QED
    BY <2>1, <2>2, <2>3, WakingStands
<1>5. ASSUME NEW t \in Thread, PhpEnsureEventCreated(t) PROVE WakingIsOneThread'
  <2>1. /\ pc[t] \notin {"handOver", "woken", "wakeShared"}
        /\ pc'[t] \notin {"handOver", "woken", "wakeShared"}
        /\ \A s \in Thread : s # t => pc'[s] = pc[s]
    BY <1>5 DEF PhpEnsureEventCreated
  <2>2. word'.waking = word.waking /\ semaphore' = semaphore
    BY <1>5 DEF PhpEnsureEventCreated
  <2>3. \A k \in Kind : handle[k] = 1 => handle'[k] = 1
    BY <1>5 DEF PhpEnsureEventCreated
  <2> HIDE DEF TypeOK, OwnerInv, WaiterInv, WakingIsOneThread, At, Kind
  <2> QED
    BY <2>1, <2>2, <2>3, WakingStands
<1>6. ASSUME NEW t \in Thread, Wait(t) PROVE WakingIsOneThread'
  <2>1. /\ pc[t] \notin {"handOver", "woken", "wakeShared"}
        /\ pc'[t] \notin {"handOver", "woken", "wakeShared"}
        /\ \A s \in Thread : s # t => pc'[s] = pc[s]
    BY <1>6 DEF Wait
  <2>2. word'.waking = word.waking /\ semaphore' = semaphore
    BY <1>6 DEF Wait
  <2>3. \A k \in Kind : handle[k] = 1 => handle'[k] = 1
    BY <1>6 DEF Wait
  <2> HIDE DEF TypeOK, OwnerInv, WaiterInv, WakingIsOneThread, At, Kind
  <2> QED
    BY <2>1, <2>2, <2>3, WakingStands
<1>7. ASSUME NEW t \in Thread, NtWaitForSingleObject(t) PROVE WakingIsOneThread'
  <2>1. UNCHANGED <<word, handle, At("handOver"), At("wakeShared")>>
    BY <1>7 DEF NtWaitForSingleObject
  <2>2. CASE want[t] = "exclusive"
    <3>1. /\ t \notin At("woken") /\ At("woken")' = At("woken") \cup {t}
          /\ semaphore["exclusive"] > 0
          /\ semaphore'["exclusive"] = semaphore["exclusive"] - 1
      BY <1>7, <2>2 DEF NtWaitForSingleObject, Count
    <3>2. Cardinality(At("woken")') = Cardinality(At("woken")) + 1
      BY <3>1, OneMore
    <3> HIDE DEF At
    <3> QED
      BY <2>1, <3>1, <3>2, AtIsCounted DEF Count
  <2>3. CASE want[t] = "shared"
    <3>1. UNCHANGED <<At("woken"), semaphore["exclusive"]>>
      BY <1>7, <2>3 DEF NtWaitForSingleObject
    <3> HIDE DEF At
    <3> QED
      BY <2>1, <3>1
  <2> QED
    BY <2>2, <2>3
<1>8. ASSUME NEW t \in Thread, TakeOver(t) PROVE WakingIsOneThread'
  <2>1. UNCHANGED <<semaphore, handle, At("handOver"), At("wakeShared")>> /\ ~word'.waking
    BY <1>8 DEF TakeOver
  <2>2. t \in At("woken") /\ At("woken")' = At("woken") \ {t}
    BY <1>8 DEF TakeOver
  <2>3. Cardinality(At("woken")') = Cardinality(At("woken")) - 1
        /\ Cardinality(At("woken")) > 0
    <3>1. At("woken") \subseteq Thread
      OBVIOUS
    <3> HIDE DEF At
    <3> QED
      BY <2>2, <3>1, OneLess
  <2> HIDE DEF At
  <2> QED
    BY <2>1, <2>3, AtIsCounted DEF Count
<1>9. ASSUME NEW t \in Thread, PhfReleaseFastLockExclusive(t)
      PROVE  WakingIsOneThread'
  <2>1. UNCHANGED <<semaphore, handle, At("woken")>> /\ t \notin At("handOver")
    BY <1>9 DEF PhfReleaseFastLockExclusive
  <2>2. ~word.waking
    BY <1>9 DEF PhfReleaseFastLockExclusive
  <2>3. CASE word.exclusiveWaiters > 0
    <3>1. /\ At("handOver")' = At("handOver") \cup {t} /\ word'.waking
          /\ UNCHANGED At("wakeShared")
      <4>1. pc[t] = "owns" /\ pc' = [pc EXCEPT ![t] = "handOver"] /\ word' = HandOver
        BY <1>9, <2>3 DEF PhfReleaseFastLockExclusive
      <4>2. word'.waking
        BY <4>1 DEF HandOver
      <4> QED
        BY <4>1, <4>2
    <3>2. Cardinality(At("handOver")') = Cardinality(At("handOver")) + 1
      BY <2>1, <3>1, OneMore
    <3>3. handle["exclusive"] = 1
      BY <2>3, WaitedOnExists
    <3> HIDE DEF At
    <3> QED
      BY <2>1, <2>2, <3>1, <3>2, <3>3, AtIsCounted DEF Count
  <2>4. CASE ~(word.exclusiveWaiters > 0)
    <3>1. /\ UNCHANGED At("handOver") /\ word'.waking = word.waking
          /\ At("wakeShared")' \subseteq At("wakeShared") \/ word.sharedWaiters > 0
      <4>1. /\ pc[t] = "owns" /\ word' = [word EXCEPT !.owned = FALSE, !.sharedWaiters = 0]
            /\ pc' = [pc EXCEPT ![t] = IF word.sharedWaiters > 0 THEN "wakeShared" ELSE "idle"]
        BY <1>9, <2>4 DEF PhfReleaseFastLockExclusive
      <4>2. word'.waking = word.waking
        BY <4>1
      <4> QED
        BY <4>1, <4>2
    <3>2. At("wakeShared")' # {} => handle["shared"] = 1
      BY <3>1, WaitedOnExists
    <3> HIDE DEF At
    <3> QED
      BY <2>1, <3>1, <3>2
  <2> QED
    BY <2>3, <2>4
<1>10. ASSUME NEW t \in Thread, PhfReleaseFastLockShared(t) PROVE WakingIsOneThread'
  <2>1. UNCHANGED <<semaphore, handle, At("woken"), At("wakeShared")>>
        /\ t \notin At("handOver")
    BY <1>10 DEF PhfReleaseFastLockShared
  <2>2. ~word.waking
    BY <1>10 DEF PhfReleaseFastLockShared
  <2>3. CASE word.sharedOwners <= 1 /\ word.exclusiveWaiters > 0
    <3>1. At("handOver")' = At("handOver") \cup {t} /\ word'.waking
      <4>1. /\ pc[t] = "owns" /\ pc' = [pc EXCEPT ![t] = "handOver"]
            /\ word' = [HandOver EXCEPT !.sharedOwners = @ - 1]
        BY <1>10, <2>3 DEF PhfReleaseFastLockShared
      <4>2. word'.waking
        BY <4>1 DEF HandOver
      <4> QED
        BY <4>1, <4>2
    <3>2. Cardinality(At("handOver")') = Cardinality(At("handOver")) + 1
      BY <2>1, <3>1, OneMore
    <3>3. handle["exclusive"] = 1
      BY <2>3, WaitedOnExists
    <3> HIDE DEF At
    <3> QED
      BY <2>1, <2>2, <3>1, <3>2, <3>3, AtIsCounted DEF Count
  <2>4. CASE ~(word.sharedOwners <= 1 /\ word.exclusiveWaiters > 0)
    <3>1. UNCHANGED At("handOver") /\ word'.waking = word.waking
      <4>1. /\ pc[t] = "owns" /\ pc' = [pc EXCEPT ![t] = "idle"]
            /\ word' = [word EXCEPT !.sharedOwners = @ - 1, !.owned = word.sharedOwners > 1]
        BY <1>10, <2>4 DEF PhfReleaseFastLockShared
      <4>2. word'.waking = word.waking
        BY <4>1
      <4> QED
        BY <4>1, <4>2
    <3> HIDE DEF At
    <3> QED
      BY <2>1, <3>1
  <2> QED
    BY <2>3, <2>4
<1>11. ASSUME NEW t \in Thread, NtReleaseSemaphore(t) PROVE WakingIsOneThread'
  <2>1. UNCHANGED <<word, handle, At("woken")>>
        /\ At("wakeShared")' \subseteq At("wakeShared")
    BY <1>11 DEF NtReleaseSemaphore
  <2>2. CASE pc[t] = "handOver"
    <3>1. /\ t \in At("handOver") /\ At("handOver")' = At("handOver") \ {t}
          /\ semaphore'["exclusive"] = semaphore["exclusive"] + 1
      BY <1>11, <2>2 DEF NtReleaseSemaphore, Count
    <3>2. Cardinality(At("handOver")') = Cardinality(At("handOver")) - 1
      BY <3>1, OneLess
    <3> HIDE DEF At
    <3> QED
      BY <2>1, <3>1, <3>2, AtIsCounted DEF Count
  <2>3. CASE pc[t] = "wakeShared"
    <3>1. UNCHANGED <<At("handOver"), semaphore["exclusive"]>>
      BY <1>11, <2>3 DEF NtReleaseSemaphore
    <3> HIDE DEF At
    <3> QED
      BY <2>1, <3>1
  <2> QED
    BY <1>11, <2>2, <2>3 DEF NtReleaseSemaphore
<1>12. CASE PhDeleteFastLock
  BY <1>12 DEF PhDeleteFastLock
<1>13. CASE UNCHANGED vars
  BY <1>13 DEF vars
<1>14. ASSUME NEW t \in Thread, NtCreateSemaphoreFails(t) PROVE WakingIsOneThread'
  BY <1>14 DEF NtCreateSemaphoreFails
<1> HIDE DEF TypeOK, OwnerInv, WaiterInv, WakingIsOneThread, At
<1> QED
  BY <1>1, <1>2, <1>3, <1>4, <1>5, <1>6, <1>7, <1>8, <1>9, <1>10, <1>11, <1>12, <1>13,
     <1>14
     DEF Next, Start, Step

\* A thread that does not wait, or wake anybody, leaves the waiters as they are.
LEMMA WaitersStand ==
  ASSUME TypeOK, WaiterInv, NEW t \in Thread,
         pc[t] \notin {"wait", "handOver", "wakeShared"},
         pc'[t] \notin {"wait", "handOver", "wakeShared"},
         \A s \in Thread : s # t => pc'[s] = pc[s] /\ want'[s] = want[s],
         word'.exclusiveWaiters = word.exclusiveWaiters,
         word'.sharedWaiters = word.sharedWaiters,
         semaphore' = semaphore, release' = release,
         \A k \in Kind : handle[k] = 1 => handle'[k] = 1
  PROVE  WaiterInv'
<1>1. At("handOver")' = At("handOver")
  BY DEF At
<1>2. Waiters("exclusive")' = Waiters("exclusive") /\ Waiters("shared")' = Waiters("shared")
  BY DEF Waiters
<1>3. \A s \in Thread : release'[s] # 0 => pc'[s] = "wakeShared"
  BY DEF WaiterInv
<1>4. \A s \in Thread : pc'[s] = "wait" => handle'[want'[s]] = 1
  BY DEF WaiterInv, TypeOK
<1> QED
  BY <1>1, <1>2, <1>3, <1>4 DEF WaiterInv

\* A waiter stays counted until its event lets it through.
LEMMA WaiterStep ==
  TypeOK /\ OwnerInv /\ WaiterInv /\ [Next]_vars => WaiterInv'
<1> SUFFICES ASSUME TypeOK, OwnerInv, WaiterInv, [Next]_vars PROVE WaiterInv'
  OBVIOUS
<1> USE ThreadsAssumption DEF TypeOK, OwnerInv, WaiterInv, At, Waiters, Kind, Go
<1>1. ASSUME NEW t \in Thread, NEW mode \in Kind, Ask(t, mode) PROVE WaiterInv'
  <2>1. /\ pc[t] \notin {"wait", "handOver", "wakeShared"}
        /\ pc'[t] \notin {"wait", "handOver", "wakeShared"}
        /\ \A s \in Thread : s # t => pc'[s] = pc[s] /\ want'[s] = want[s]
    BY <1>1 DEF Ask
  <2>2. /\ word'.exclusiveWaiters = word.exclusiveWaiters
        /\ word'.sharedWaiters = word.sharedWaiters
        /\ semaphore' = semaphore /\ release' = release
    BY <1>1 DEF Ask
  <2>3. \A k \in Kind : handle[k] = 1 => handle'[k] = 1
    BY <1>1 DEF Ask
  <2> HIDE DEF TypeOK, OwnerInv, WaiterInv, At, Waiters, Kind
  <2> QED
    BY <2>1, <2>2, <2>3, WaitersStand
<1>2. ASSUME NEW t \in Thread, NEW mode \in Kind, TryAcquire(t, mode)
      PROVE  WaiterInv'
  <2>1. /\ pc[t] \notin {"wait", "handOver", "wakeShared"}
        /\ pc'[t] \notin {"wait", "handOver", "wakeShared"}
        /\ \A s \in Thread : s # t => pc'[s] = pc[s] /\ want'[s] = want[s]
    BY <1>2 DEF TryAcquire, Take
  <2>2. /\ word'.exclusiveWaiters = word.exclusiveWaiters
        /\ word'.sharedWaiters = word.sharedWaiters
        /\ semaphore' = semaphore /\ release' = release
    BY <1>2 DEF TryAcquire, Take
  <2>3. \A k \in Kind : handle[k] = 1 => handle'[k] = 1
    BY <1>2 DEF TryAcquire, Take
  <2> HIDE DEF TypeOK, OwnerInv, WaiterInv, At, Waiters, Kind
  <2> QED
    BY <2>1, <2>2, <2>3, WaitersStand
<1>3. ASSUME NEW t \in Thread, Acquire(t) PROVE WaiterInv'
  <2>1. /\ pc[t] \notin {"wait", "handOver", "wakeShared"}
        /\ pc'[t] \notin {"wait", "handOver", "wakeShared"}
        /\ \A s \in Thread : s # t => pc'[s] = pc[s] /\ want'[s] = want[s]
    BY <1>3 DEF Acquire, Take
  <2>2. /\ word'.exclusiveWaiters = word.exclusiveWaiters
        /\ word'.sharedWaiters = word.sharedWaiters
        /\ semaphore' = semaphore /\ release' = release
    BY <1>3 DEF Acquire, Take
  <2>3. \A k \in Kind : handle[k] = 1 => handle'[k] = 1
    BY <1>3 DEF Acquire, Take
  <2> HIDE DEF TypeOK, OwnerInv, WaiterInv, At, Waiters, Kind
  <2> QED
    BY <2>1, <2>2, <2>3, WaitersStand
<1>4. ASSUME NEW t \in Thread, NtCreateSemaphore(t) PROVE WaiterInv'
  <2>1. /\ pc[t] \notin {"wait", "handOver", "wakeShared"}
        /\ pc'[t] \notin {"wait", "handOver", "wakeShared"}
        /\ \A s \in Thread : s # t => pc'[s] = pc[s] /\ want'[s] = want[s]
    BY <1>4 DEF NtCreateSemaphore
  <2>2. /\ word'.exclusiveWaiters = word.exclusiveWaiters
        /\ word'.sharedWaiters = word.sharedWaiters
        /\ semaphore' = semaphore /\ release' = release
    BY <1>4 DEF NtCreateSemaphore
  <2>3. \A k \in Kind : handle[k] = 1 => handle'[k] = 1
    BY <1>4 DEF NtCreateSemaphore
  <2> HIDE DEF TypeOK, OwnerInv, WaiterInv, At, Waiters, Kind
  <2> QED
    BY <2>1, <2>2, <2>3, WaitersStand
<1>5. ASSUME NEW t \in Thread, PhpEnsureEventCreated(t) PROVE WaiterInv'
  <2>1. /\ pc[t] \notin {"wait", "handOver", "wakeShared"}
        /\ pc'[t] \notin {"wait", "handOver", "wakeShared"}
        /\ \A s \in Thread : s # t => pc'[s] = pc[s] /\ want'[s] = want[s]
    BY <1>5 DEF PhpEnsureEventCreated
  <2>2. /\ word'.exclusiveWaiters = word.exclusiveWaiters
        /\ word'.sharedWaiters = word.sharedWaiters
        /\ semaphore' = semaphore /\ release' = release
    BY <1>5 DEF PhpEnsureEventCreated
  <2>3. \A k \in Kind : handle[k] = 1 => handle'[k] = 1
    BY <1>5 DEF PhpEnsureEventCreated
  <2> HIDE DEF TypeOK, OwnerInv, WaiterInv, At, Waiters, Kind
  <2> QED
    BY <2>1, <2>2, <2>3, WaitersStand
<1>6. ASSUME NEW t \in Thread, Wait(t) PROVE WaiterInv'
  <2>1. /\ UNCHANGED <<handle, semaphore, release, At("handOver")>>
        /\ \A s \in Thread : pc'[s] = "wait" => handle'[want'[s]] = 1
        /\ \A s \in Thread : release'[s] # 0 => pc'[s] = "wakeShared"
    BY <1>6 DEF Wait
  <2>2. ASSUME NEW k \in Kind PROVE
          IF k = want[t] THEN Cardinality(Waiters(k)') = Cardinality(Waiters(k)) + 1
                         ELSE Waiters(k)' = Waiters(k)
    <3>1. CASE k = want[t]
      <4>1. t \notin Waiters(k) /\ Waiters(k)' = Waiters(k) \cup {t}
        BY <1>6, <3>1 DEF Wait
      <4> HIDE DEF Waiters
      <4> QED
        BY <3>1, <4>1, OneMore, WaitersAreCounted
    <3>2. CASE k # want[t]
      BY <1>6, <3>2 DEF Wait
    <3> QED
      BY <3>1, <3>2
  <2>3. /\ word'.exclusiveWaiters = IF want[t] = "exclusive" THEN word.exclusiveWaiters + 1
                                                            ELSE word.exclusiveWaiters
        /\ word'.sharedWaiters = IF want[t] = "shared" THEN word.sharedWaiters + 1
                                                      ELSE word.sharedWaiters
    BY <1>6 DEF Wait
  <2> HIDE DEF At, Waiters
  <2> QED
    BY <2>1, <2>2, <2>3, AtIsCounted, WaitersAreCounted, UnitsAreCounted DEF Count
<1>7. ASSUME NEW t \in Thread, NtWaitForSingleObject(t) PROVE WaiterInv'
  <2>1. /\ UNCHANGED <<word, handle, release, At("handOver")>>
        /\ \A s \in Thread : pc'[s] = "wait" => handle'[want'[s]] = 1
        /\ \A s \in Thread : release'[s] # 0 => pc'[s] = "wakeShared"
    BY <1>7 DEF NtWaitForSingleObject
  <2>2. ASSUME NEW k \in Kind PROVE
          IF k = want[t] THEN /\ Cardinality(Waiters(k)') = Cardinality(Waiters(k)) - 1
                              /\ semaphore'[k] = semaphore[k] - 1
                         ELSE Waiters(k)' = Waiters(k) /\ semaphore'[k] = semaphore[k]
    <3>1. CASE k = want[t]
      <4>1. /\ t \in Waiters(k) /\ Waiters(k)' = Waiters(k) \ {t}
            /\ semaphore'[k] = semaphore[k] - 1
        BY <1>7, <3>1 DEF NtWaitForSingleObject
      <4> HIDE DEF Waiters
      <4> QED
        BY <3>1, <4>1, OneLess, WaitersAreCounted
    <3>2. CASE k # want[t]
      BY <1>7, <3>2 DEF NtWaitForSingleObject
    <3> QED
      BY <3>1, <3>2
  <2> HIDE DEF At, Waiters
  <2> QED
    BY <2>1, <2>2, AtIsCounted, WaitersAreCounted, UnitsAreCounted DEF Count
<1>8. ASSUME NEW t \in Thread, TakeOver(t) PROVE WaiterInv'
  <2>1. /\ pc[t] \notin {"wait", "handOver", "wakeShared"}
        /\ pc'[t] \notin {"wait", "handOver", "wakeShared"}
        /\ \A s \in Thread : s # t => pc'[s] = pc[s] /\ want'[s] = want[s]
    BY <1>8 DEF TakeOver
  <2>2. /\ word'.exclusiveWaiters = word.exclusiveWaiters
        /\ word'.sharedWaiters = word.sharedWaiters
        /\ semaphore' = semaphore /\ release' = release
    BY <1>8 DEF TakeOver
  <2>3. \A k \in Kind : handle[k] = 1 => handle'[k] = 1
    BY <1>8 DEF TakeOver
  <2> HIDE DEF TypeOK, OwnerInv, WaiterInv, At, Waiters, Kind
  <2> QED
    BY <2>1, <2>2, <2>3, WaitersStand
<1>9. ASSUME NEW t \in Thread, PhfReleaseFastLockExclusive(t) PROVE WaiterInv'
  <2>1. /\ UNCHANGED <<handle, semaphore, Waiters("exclusive"), Waiters("shared")>>
        /\ pc[t] = "owns" /\ t \notin At("handOver")
        /\ \A s \in Thread : pc'[s] = "wait" => handle'[want'[s]] = 1
    BY <1>9 DEF PhfReleaseFastLockExclusive
  <2>2. CASE word.exclusiveWaiters > 0
    <3>1. /\ pc' = [pc EXCEPT ![t] = "handOver"] /\ word' = HandOver
          /\ UNCHANGED <<want, release>>
      BY <1>9, <2>2 DEF PhfReleaseFastLockExclusive
    <3>2. /\ word'.exclusiveWaiters = word.exclusiveWaiters - 1
          /\ word'.sharedWaiters = word.sharedWaiters
      BY <3>1 DEF HandOver
    <3>3. /\ At("handOver")' = At("handOver") \cup {t}
          /\ \A s \in Thread : release'[s] # 0 => pc'[s] = "wakeShared"
      BY <2>1, <3>1
    <3>4. Cardinality(At("handOver")') = Cardinality(At("handOver")) + 1
      BY <2>1, <3>3, OneMore
    <3> HIDE DEF At, Waiters
    <3> QED
      BY <2>1, <3>1, <3>2, <3>3, <3>4, AtIsCounted, WaitersAreCounted, UnitsAreCounted
         DEF Count
  <2>3. CASE ~(word.exclusiveWaiters > 0)
    <3>1. /\ pc' = [pc EXCEPT ![t] = IF word.sharedWaiters > 0 THEN "wakeShared" ELSE "idle"]
          /\ word' = [word EXCEPT !.owned = FALSE, !.sharedWaiters = 0]
          /\ release' = [release EXCEPT ![t] = word.sharedWaiters]
      BY <1>9, <2>3 DEF PhfReleaseFastLockExclusive
    <3>2. release[t] = 0 /\ word.sharedWaiters \in Count
      BY <2>1
    <3>3. Cardinality(Units(release')) = Cardinality(Units(release)) + word.sharedWaiters
      <4>1. release \in [Thread -> Count]
        OBVIOUS
      <4> HIDE DEF TypeOK, OwnerInv, WaiterInv, At, Waiters
      <4> QED
        BY <3>1, <3>2, <4>1, UnitsOfOne
    <3>4. word'.exclusiveWaiters = word.exclusiveWaiters /\ word'.sharedWaiters = 0
      BY <3>1
    <3>5. /\ UNCHANGED At("handOver")
          /\ \A s \in Thread : release'[s] # 0 => pc'[s] = "wakeShared"
      BY <2>1, <3>1 DEF Count
    <3> HIDE DEF At, Waiters
    <3> QED
      BY <2>1, <3>3, <3>4, <3>5, AtIsCounted, WaitersAreCounted, UnitsAreCounted DEF Count
  <2> QED
    BY <2>2, <2>3
<1>10. ASSUME NEW t \in Thread, PhfReleaseFastLockShared(t) PROVE WaiterInv'
  <2>1. /\ UNCHANGED <<handle, semaphore, release, Waiters("exclusive"), Waiters("shared")>>
        /\ pc[t] = "owns" /\ t \notin At("handOver")
        /\ \A s \in Thread : pc'[s] = "wait" => handle'[want'[s]] = 1
        /\ \A s \in Thread : release'[s] # 0 => pc'[s] = "wakeShared"
    BY <1>10 DEF PhfReleaseFastLockShared
  <2>2. CASE word.sharedOwners <= 1 /\ word.exclusiveWaiters > 0
    <3>1. /\ pc' = [pc EXCEPT ![t] = "handOver"]
          /\ word' = [HandOver EXCEPT !.sharedOwners = @ - 1]
      BY <1>10, <2>2 DEF PhfReleaseFastLockShared
    <3>2. /\ word'.exclusiveWaiters = word.exclusiveWaiters - 1
          /\ word'.sharedWaiters = word.sharedWaiters
      BY <3>1 DEF HandOver
    <3>3. At("handOver")' = At("handOver") \cup {t}
      BY <2>1, <3>1
    <3>4. Cardinality(At("handOver")') = Cardinality(At("handOver")) + 1
      BY <2>1, <3>3, OneMore
    <3> HIDE DEF At, Waiters
    <3> QED
      BY <2>1, <3>2, <3>4, AtIsCounted, WaitersAreCounted, UnitsAreCounted DEF Count
  <2>3. CASE ~(word.sharedOwners <= 1 /\ word.exclusiveWaiters > 0)
    <3>1. /\ pc' = [pc EXCEPT ![t] = "idle"]
          /\ word' = [word EXCEPT !.sharedOwners = @ - 1, !.owned = word.sharedOwners > 1]
      BY <1>10, <2>3 DEF PhfReleaseFastLockShared
    <3>2. UNCHANGED <<At("handOver"), word.exclusiveWaiters, word.sharedWaiters>>
      BY <2>1, <3>1
    <3> HIDE DEF At, Waiters
    <3> QED
      BY <2>1, <3>2
  <2> QED
    BY <2>2, <2>3
<1>11. ASSUME NEW t \in Thread, NtReleaseSemaphore(t) PROVE WaiterInv'
  <2>1. /\ UNCHANGED <<word, handle, want, Waiters("exclusive"), Waiters("shared")>>
        /\ pc' = [pc EXCEPT ![t] = "idle"] /\ release' = [release EXCEPT ![t] = 0]
        /\ \A s \in Thread : pc'[s] = "wait" => handle'[want'[s]] = 1
        /\ \A s \in Thread : release'[s] # 0 => pc'[s] = "wakeShared"
    BY <1>11 DEF NtReleaseSemaphore
  <2>2. CASE pc[t] = "handOver"
    <3>1. /\ t \in At("handOver") /\ At("handOver")' = At("handOver") \ {t}
          /\ semaphore'["exclusive"] = semaphore["exclusive"] + 1
          /\ semaphore'["shared"] = semaphore["shared"]
      BY <1>11, <2>1, <2>2 DEF NtReleaseSemaphore
    <3>2. Cardinality(At("handOver")') = Cardinality(At("handOver")) - 1
      <4>1. At("handOver") \subseteq Thread
        BY DEF At
      <4> HIDE DEF TypeOK, OwnerInv, WaiterInv, At, Waiters
      <4> QED
        BY <3>1, <4>1, OneLess
    <3>3. release' = release
      <4>1. release[t] = 0 /\ release \in [Thread -> Count]
        BY <2>2
      <4> QED
        BY <2>1, <4>1
    <3> HIDE DEF At, Waiters
    <3>4. Cardinality(Units(release')) = Cardinality(Units(release))
      BY <3>3
    <3> QED
      BY <2>1, <3>1, <3>2, <3>4, AtIsCounted, WaitersAreCounted, UnitsAreCounted DEF Count
  <2>3. CASE pc[t] = "wakeShared"
    <3>1. /\ UNCHANGED At("handOver")
          /\ semaphore'["exclusive"] = semaphore["exclusive"]
          /\ semaphore'["shared"] = semaphore["shared"] + release[t]
      BY <1>11, <2>1, <2>3 DEF NtReleaseSemaphore
    <3>2. /\ release' \in [Thread -> Count] /\ release[t] \in Count /\ release'[t] = 0
          /\ release = [release' EXCEPT ![t] = release[t]]
      <4>1. release \in [Thread -> Count] /\ 0 \in Count
        BY DEF Count
      <4> HIDE DEF TypeOK, OwnerInv, WaiterInv, At, Waiters
      <4>2. release' \in [Thread -> Count] /\ release[t] \in Count /\ release'[t] = 0
        BY <2>1, <4>1
      <4>3. \A s \in Thread : release[s] = [release' EXCEPT ![t] = release[t]][s]
        BY <2>1, <4>1, <4>2
      <4> QED
        BY <4>1, <4>2, <4>3
    <3>3. Cardinality(Units(release)) = Cardinality(Units(release')) + release[t]
      BY <3>2, UnitsOfOne
    <3> HIDE DEF At, Waiters
    <3> QED
      BY <2>1, <3>1, <3>2, <3>3, AtIsCounted, WaitersAreCounted, UnitsAreCounted DEF Count
  <2> QED
    BY <1>11, <2>2, <2>3 DEF NtReleaseSemaphore
<1>12. CASE PhDeleteFastLock
  BY <1>12 DEF PhDeleteFastLock
<1>13. CASE UNCHANGED vars
  BY <1>13 DEF vars
<1>14. ASSUME NEW t \in Thread, NtCreateSemaphoreFails(t) PROVE WaiterInv'
  BY <1>14 DEF NtCreateSemaphoreFails
<1> HIDE DEF TypeOK, OwnerInv, WaiterInv, At, Waiters
<1> QED
  BY <1>1, <1>2, <1>3, <1>4, <1>5, <1>6, <1>7, <1>8, <1>9, <1>10, <1>11, <1>12, <1>13,
     <1>14
     DEF Next, Start, Step

\* A thread that does not create a semaphore leaves them as they are.
LEMMA EventsStand ==
  ASSUME EventsAreKept, NEW t \in Thread, pc[t] # "created", pc'[t] # "created",
         \A s \in Thread : s # t => pc'[s] = pc[s] /\ want'[s] = want[s],
         open' = open, handle' = handle
  PROVE  EventsAreKept'
<1>1. \A k \in Kind : Creators(k)' = Creators(k)
  BY DEF Creators, At
<1>2. \A k \in Kind : open[k] = handle[k] + Cardinality(Creators(k))
  BY DEF EventsAreKept, Creators
<1>3. \A k \in Kind : open'[k] = handle'[k] + Cardinality(Creators(k)')
  BY <1>1, <1>2
<1> QED
  BY <1>3 DEF EventsAreKept, Creators

\* Of two semaphores created at once one is closed.
LEMMA EventStep ==
  TypeOK /\ EventsAreKept /\ [Next]_vars => EventsAreKept'
<1> SUFFICES ASSUME TypeOK, EventsAreKept, [Next]_vars PROVE EventsAreKept'
  OBVIOUS
<1> USE ThreadsAssumption DEF TypeOK, EventsAreKept, At, Kind, Go
<1>1. ASSUME NEW t \in Thread, NEW mode \in Kind, Ask(t, mode) PROVE EventsAreKept'
  <2>1. /\ pc[t] # "created" /\ pc'[t] # "created"
        /\ \A s \in Thread : s # t => pc'[s] = pc[s] /\ want'[s] = want[s]
        /\ open' = open /\ handle' = handle
    BY <1>1 DEF Ask
  <2> HIDE DEF TypeOK, EventsAreKept, At, Kind
  <2> QED
    BY <2>1, EventsStand
<1>2. ASSUME NEW t \in Thread, NEW mode \in Kind, TryAcquire(t, mode)
      PROVE  EventsAreKept'
  <2>1. /\ pc[t] # "created" /\ pc'[t] # "created"
        /\ \A s \in Thread : s # t => pc'[s] = pc[s] /\ want'[s] = want[s]
        /\ open' = open /\ handle' = handle
    BY <1>2 DEF TryAcquire, Take
  <2> HIDE DEF TypeOK, EventsAreKept, At, Kind
  <2> QED
    BY <2>1, EventsStand
<1>3. ASSUME NEW t \in Thread, Acquire(t) PROVE EventsAreKept'
  <2>1. /\ pc[t] # "created" /\ pc'[t] # "created"
        /\ \A s \in Thread : s # t => pc'[s] = pc[s] /\ want'[s] = want[s]
        /\ open' = open /\ handle' = handle
    BY <1>3 DEF Acquire, Take
  <2> HIDE DEF TypeOK, EventsAreKept, At, Kind
  <2> QED
    BY <2>1, EventsStand
<1>4. ASSUME NEW t \in Thread, NtCreateSemaphore(t) PROVE EventsAreKept'
  <2> SUFFICES ASSUME NEW k \in Kind
               PROVE  open'[k] = handle'[k] + Cardinality(Creators(k)')
    BY DEF Creators
  <2>1. open[k] = handle[k] + Cardinality(Creators(k)) /\ handle' = handle
    BY <1>4 DEF NtCreateSemaphore, Creators
  <2>2. CASE k = want[t]
    <3>1. /\ t \notin Creators(k) /\ Creators(k)' = Creators(k) \cup {t}
          /\ open'[k] = open[k] + 1 /\ Creators(k) \subseteq Thread
      BY <1>4, <2>2 DEF NtCreateSemaphore, Creators
    <3>2. Cardinality(Creators(k)') = Cardinality(Creators(k)) + 1
      BY <3>1, OneMore
    <3>3. Cardinality(Creators(k)) \in Nat
      BY <3>1, ThreadsAreCounted, FS_CardinalityType
    <3> QED
      BY <2>1, <3>1, <3>2, <3>3
  <2>3. CASE k # want[t]
    <3>1. Creators(k)' = Creators(k) /\ open'[k] = open[k]
      BY <1>4, <2>3 DEF NtCreateSemaphore, Creators
    <3> QED
      BY <2>1, <3>1
  <2> QED
    BY <2>2, <2>3
<1>5. ASSUME NEW t \in Thread, PhpEnsureEventCreated(t) PROVE EventsAreKept'
  <2> SUFFICES ASSUME NEW k \in Kind
               PROVE  open'[k] = handle'[k] + Cardinality(Creators(k)')
    BY DEF Creators
  <2>1. open[k] = handle[k] + Cardinality(Creators(k))
    BY DEF Creators
  <2>2. CASE k = want[t]
    <3>1. /\ t \in Creators(k) /\ Creators(k)' = Creators(k) \ {t}
          /\ Creators(k) \subseteq Thread /\ handle'[k] = 1
          /\ open'[k] = IF handle[k] = 0 THEN open[k] ELSE open[k] - 1
      BY <1>5, <2>2 DEF PhpEnsureEventCreated, Creators
    <3>2. Cardinality(Creators(k)') = Cardinality(Creators(k)) - 1
      BY <3>1, OneLess
    <3>3. Cardinality(Creators(k)) \in Nat /\ handle[k] \in {0, 1}
      BY <3>1, ThreadsAreCounted, FS_CardinalityType
    <3> QED
      BY <2>1, <3>1, <3>2, <3>3
  <2>3. CASE k # want[t]
    <3>1. Creators(k)' = Creators(k) /\ open'[k] = open[k] /\ handle'[k] = handle[k]
      BY <1>5, <2>3 DEF PhpEnsureEventCreated, Creators
    <3> QED
      BY <2>1, <3>1
  <2> QED
    BY <2>2, <2>3
<1>6. ASSUME NEW t \in Thread, Wait(t) PROVE EventsAreKept'
  <2>1. /\ pc[t] # "created" /\ pc'[t] # "created"
        /\ \A s \in Thread : s # t => pc'[s] = pc[s] /\ want'[s] = want[s]
        /\ open' = open /\ handle' = handle
    BY <1>6 DEF Wait
  <2> HIDE DEF TypeOK, EventsAreKept, At, Kind
  <2> QED
    BY <2>1, EventsStand
<1>7. ASSUME NEW t \in Thread, NtWaitForSingleObject(t) PROVE EventsAreKept'
  <2>1. /\ pc[t] # "created" /\ pc'[t] # "created"
        /\ \A s \in Thread : s # t => pc'[s] = pc[s] /\ want'[s] = want[s]
        /\ open' = open /\ handle' = handle
    BY <1>7 DEF NtWaitForSingleObject
  <2> HIDE DEF TypeOK, EventsAreKept, At, Kind
  <2> QED
    BY <2>1, EventsStand
<1>8. ASSUME NEW t \in Thread, TakeOver(t) PROVE EventsAreKept'
  <2>1. /\ pc[t] # "created" /\ pc'[t] # "created"
        /\ \A s \in Thread : s # t => pc'[s] = pc[s] /\ want'[s] = want[s]
        /\ open' = open /\ handle' = handle
    BY <1>8 DEF TakeOver
  <2> HIDE DEF TypeOK, EventsAreKept, At, Kind
  <2> QED
    BY <2>1, EventsStand
<1>9. ASSUME NEW t \in Thread, PhfReleaseFastLockExclusive(t) PROVE EventsAreKept'
  <2>1. /\ pc[t] # "created" /\ pc'[t] # "created"
        /\ \A s \in Thread : s # t => pc'[s] = pc[s] /\ want'[s] = want[s]
        /\ open' = open /\ handle' = handle
    BY <1>9 DEF PhfReleaseFastLockExclusive
  <2> HIDE DEF TypeOK, EventsAreKept, At, Kind
  <2> QED
    BY <2>1, EventsStand
<1>10. ASSUME NEW t \in Thread, PhfReleaseFastLockShared(t) PROVE EventsAreKept'
  <2>1. /\ UNCHANGED <<handle, open, want>> /\ pc[t] = "owns"
           /\ pc'[t] \in {"handOver", "idle"}
        /\ \A s \in Thread : s # t => pc'[s] = pc[s]
    BY <1>10 DEF PhfReleaseFastLockShared
  <2>2. \A k \in Kind : Creators(k)' = Creators(k)
    BY <2>1 DEF Creators
  <2> QED
    BY <2>1, <2>2 DEF Creators
<1>11. ASSUME NEW t \in Thread, NtReleaseSemaphore(t) PROVE EventsAreKept'
  <2>1. /\ pc[t] # "created" /\ pc'[t] # "created"
        /\ \A s \in Thread : s # t => pc'[s] = pc[s] /\ want'[s] = want[s]
        /\ open' = open /\ handle' = handle
    BY <1>11 DEF NtReleaseSemaphore
  <2> HIDE DEF TypeOK, EventsAreKept, At, Kind
  <2> QED
    BY <2>1, EventsStand
<1>12. CASE PhDeleteFastLock
  <2>1. \A k \in Kind : Creators(k) = {} /\ Creators(k)' = {}
    BY <1>12 DEF PhDeleteFastLock, Creators
  <2>2. Cardinality({}) = 0
    BY FS_EmptySet
  <2>3. \A k \in Kind : open[k] = handle[k]
    <3>1. \A k \in Kind : open[k] = handle[k] + Cardinality(Creators(k))
      BY DEF Creators
    <3>2. \A k \in Kind : handle[k] + 0 = handle[k]
      OBVIOUS
    <3> HIDE DEF TypeOK, EventsAreKept
    <3> QED
      BY <2>1, <2>2, <3>1, <3>2, Zenon
  <2>4. \A k \in Kind : open'[k] = 0 /\ handle'[k] = 0
    BY <1>12, <2>3 DEF PhDeleteFastLock
  <2>5. \A k \in Kind : open'[k] = handle'[k] + Cardinality(Creators(k)')
    <3>1. 0 = 0 + 0
      OBVIOUS
    <3> QED
      BY <2>1, <2>2, <2>4, <3>1, Zenon
  <2> QED
    BY <2>5 DEF Creators
<1>13. CASE UNCHANGED vars
  <2> HIDE DEF TypeOK, Kind, Go
  <2>1. open' = open /\ handle' = handle /\ pc' = pc /\ want' = want
    BY <1>13 DEF vars
  <2> QED
    BY <2>1
<1>14. ASSUME NEW t \in Thread, NtCreateSemaphoreFails(t) PROVE EventsAreKept'
  <2> HIDE DEF TypeOK, Kind, Go
  <2>1. open' = open /\ handle' = handle /\ pc' = pc /\ want' = want
    BY <1>14 DEF NtCreateSemaphoreFails
  <2> QED
    BY <2>1
<1> HIDE DEF TypeOK, EventsAreKept, At, Kind, Go
<1> QED
  BY <1>1, <1>2, <1>3, <1>4, <1>5, <1>6, <1>7, <1>8, <1>9, <1>10, <1>11, <1>12, <1>13,
     <1>14
     DEF Next, Start, Step

\* The types without the bounds of the counters.
WordType ==
  [owned : BOOLEAN, waking : BOOLEAN, sharedOwners : Int, sharedWaiters : Nat,
   exclusiveWaiters : Nat]

LooseType ==
  /\ word \in WordType
  /\ handle \in [Kind -> {0, 1}]
  /\ open \in [Kind -> Int]
  /\ semaphore \in [Kind -> Nat]
  /\ pc \in [Thread -> {"idle", "ask", "created", "wait", "woken", "owns",
                        "handOver", "wakeShared"}]
  /\ want \in [Thread -> Kind]
  /\ release \in [Thread -> Count]
  /\ failed \in BOOLEAN

\* The changes the functions of the lock make to the word.
LEMMA WordChanges ==
  ASSUME NEW w \in WordType, NEW o \in BOOLEAN, NEW b \in BOOLEAN, NEW n \in Int,
         NEW i \in Nat
  PROVE  /\ [w EXCEPT !.owned = o, !.sharedOwners = n] \in WordType
         /\ [w EXCEPT !.sharedOwners = n, !.owned = o] \in WordType
         /\ [w EXCEPT !.owned = o, !.sharedWaiters = i] \in WordType
         /\ [w EXCEPT !.owned = o, !.waking = b] \in WordType
         /\ [w EXCEPT !.owned = o, !.waking = b, !.exclusiveWaiters = i] \in WordType
         /\ [w EXCEPT !.sharedOwners = n] \in WordType
         /\ [w EXCEPT !.exclusiveWaiters = i] \in WordType
         /\ [w EXCEPT !.sharedWaiters = i] \in WordType
  BY DEF WordType

\* The word of a lock in a typed state has fields without bounds, too,
LEMMA WordTypeOK ==
  ASSUME TypeOK
  PROVE  /\ word \in WordType /\ word.sharedOwners \in Int
         /\ word.exclusiveWaiters \in Nat /\ word.sharedWaiters \in Nat
  BY ThreadsAssumption DEF TypeOK, WordType, Count

\* and so has the word that hands the lock over to a waiter.
LEMMA HandOverType ==
  ASSUME TypeOK, word.exclusiveWaiters > 0
  PROVE  HandOver \in WordType
<1>1. word.exclusiveWaiters - 1 \in Nat
  BY WordTypeOK
<1> QED
  BY <1>1, WordTypeOK, WordChanges DEF HandOver

\* Every step keeps the types, to begin with without the bounds,
LEMMA LooseStep ==
  TypeOK /\ [Next]_vars => LooseType'
<1> SUFFICES ASSUME TypeOK, [Next]_vars PROVE LooseType'
  OBVIOUS
<1> USE ThreadsAssumption DEF TypeOK, LooseType, Kind, Count, Go
<1>f. failed' \in BOOLEAN
  BY DEF Next, Start, Step, Intact, NtCreateSemaphoreFails, vars
<1> USE <1>f
<1>1. ASSUME NEW t \in Thread, NEW mode \in Kind, Ask(t, mode) PROVE LooseType'
  BY <1>1, WordTypeOK DEF Ask
<1>2. ASSUME NEW t \in Thread, NEW mode \in Kind, TryAcquire(t, mode)
      PROVE  LooseType'
  <2>1. word' \in WordType
    <3> DEFINE n == IF mode = "shared" THEN word.sharedOwners + 1 ELSE word.sharedOwners
    <3>1. n \in Int
      BY WordTypeOK
    <3>2. word' = [word EXCEPT !.owned = TRUE, !.sharedOwners = n]
      BY <1>2 DEF TryAcquire, Take
    <3> HIDE DEF n
    <3> QED
      BY <3>1, <3>2, WordTypeOK, WordChanges, Zenon
  <2> QED
    BY <1>2, <2>1 DEF TryAcquire
<1>3. ASSUME NEW t \in Thread, Acquire(t) PROVE LooseType'
  <2>1. word' \in WordType
    <3> DEFINE n == IF want[t] = "shared" THEN word.sharedOwners + 1 ELSE word.sharedOwners
    <3>1. n \in Int
      BY WordTypeOK
    <3>2. word' = [word EXCEPT !.owned = TRUE, !.sharedOwners = n]
      BY <1>3 DEF Acquire, Take
    <3> HIDE DEF n
    <3> QED
      BY <3>1, <3>2, WordTypeOK, WordChanges, Zenon
  <2> QED
    BY <1>3, <2>1 DEF Acquire
<1>4. ASSUME NEW t \in Thread, NtCreateSemaphore(t) PROVE LooseType'
  BY <1>4, WordTypeOK DEF NtCreateSemaphore
<1>5. ASSUME NEW t \in Thread, PhpEnsureEventCreated(t) PROVE LooseType'
  BY <1>5, WordTypeOK DEF PhpEnsureEventCreated
<1>6. ASSUME NEW t \in Thread, Wait(t) PROVE LooseType'
  <2>1. word' \in WordType
    <3>1. CASE want[t] = "exclusive"
      <4>1. word' = [word EXCEPT !.exclusiveWaiters = word.exclusiveWaiters + 1]
        BY <1>6, <3>1 DEF Wait
      <4>2. word.exclusiveWaiters + 1 \in Nat
        BY WordTypeOK
      <4> QED
        BY <4>1, <4>2, WordTypeOK, WordChanges, Zenon
    <3>2. CASE want[t] # "exclusive"
      <4>1. word' = [word EXCEPT !.sharedWaiters = word.sharedWaiters + 1]
        BY <1>6, <3>2 DEF Wait
      <4>2. word.sharedWaiters + 1 \in Nat
        BY WordTypeOK
      <4> QED
        BY <4>1, <4>2, WordTypeOK, WordChanges, Zenon
    <3> QED
      BY <3>1, <3>2
  <2> QED
    BY <1>6, <2>1 DEF Wait
<1>7. ASSUME NEW t \in Thread, NtWaitForSingleObject(t) PROVE LooseType'
  BY <1>7, WordTypeOK DEF NtWaitForSingleObject
<1>8. ASSUME NEW t \in Thread, TakeOver(t) PROVE LooseType'
  <2>1. word' \in WordType
    BY <1>8, WordTypeOK, WordChanges DEF TakeOver
  <2>2. /\ pc' = [pc EXCEPT ![t] = "owns"]
        /\ UNCHANGED <<handle, open, semaphore, want, release>>
    BY <1>8 DEF TakeOver
  <2> QED
    BY <2>1, <2>2
<1>9. ASSUME NEW t \in Thread, PhfReleaseFastLockExclusive(t) PROVE LooseType'
  <2>1. word' \in WordType
    <3>1. CASE word.exclusiveWaiters > 0
      <4> HIDE DEF TypeOK, LooseType, Kind, Count, Go
      <4>1. word' = HandOver
        BY <1>9, <3>1 DEF PhfReleaseFastLockExclusive
      <4> QED
        BY <3>1, <4>1, HandOverType
    <3>2. CASE ~(word.exclusiveWaiters > 0)
      <4>1. word' = [word EXCEPT !.owned = FALSE, !.sharedWaiters = 0]
        BY <1>9, <3>2 DEF PhfReleaseFastLockExclusive
      <4> QED
        BY <4>1, WordTypeOK, WordChanges
    <3> QED
      BY <3>1, <3>2
  <2> QED
    BY <1>9, <2>1 DEF PhfReleaseFastLockExclusive
<1>10. ASSUME NEW t \in Thread, PhfReleaseFastLockShared(t) PROVE LooseType'
  <2>1. word' \in WordType
    <3>1. CASE word.sharedOwners <= 1 /\ word.exclusiveWaiters > 0
      <4>2. HandOver \in WordType
        BY <3>1, HandOverType
      <4>3. word' = [HandOver EXCEPT !.sharedOwners = HandOver.sharedOwners - 1]
        BY <1>10, <3>1 DEF PhfReleaseFastLockShared
      <4>4. HandOver.sharedOwners - 1 \in Int
        BY <4>2 DEF WordType
      <4> QED
        BY <4>2, <4>3, <4>4, WordChanges, Zenon
    <3>2. CASE ~(word.sharedOwners <= 1 /\ word.exclusiveWaiters > 0)
      <4> DEFINE o == word.sharedOwners > 1
      <4>1. o \in BOOLEAN /\ word.sharedOwners - 1 \in Int
        BY WordTypeOK
      <4>2. word' = [word EXCEPT !.sharedOwners = word.sharedOwners - 1, !.owned = o]
        BY <1>10, <3>2 DEF PhfReleaseFastLockShared
      <4> HIDE DEF o
      <4> QED
        BY <4>1, <4>2, WordTypeOK, WordChanges, Zenon
    <3> QED
      BY <3>1, <3>2
  <2> QED
    BY <1>10, <2>1 DEF PhfReleaseFastLockShared
<1>11. ASSUME NEW t \in Thread, NtReleaseSemaphore(t) PROVE LooseType'
  BY <1>11, WordTypeOK DEF NtReleaseSemaphore
<1>12. CASE PhDeleteFastLock
  BY <1>12, WordTypeOK DEF PhDeleteFastLock
<1>13. CASE UNCHANGED vars
  BY <1>13, WordTypeOK DEF vars
<1>14. ASSUME NEW t \in Thread, NtCreateSemaphoreFails(t) PROVE LooseType'
  BY <1>14, WordTypeOK DEF NtCreateSemaphoreFails
<1> QED
  BY <1>1, <1>2, <1>3, <1>4, <1>5, <1>6, <1>7, <1>8, <1>9, <1>10, <1>11, <1>12, <1>13,
     <1>14
     DEF Next, Start, Step

\* which follow from what is counted.
LEMMA TypeStep ==
  ASSUME LooseType', OwnerInv', WaiterInv', EventsAreKept'
  PROVE  TypeOK'
<1> USE ThreadsAssumption DEF Kind
<1>1. word'.sharedOwners \in Count
  <2>1. SharedOwners' \subseteq Thread
    BY DEF SharedOwners
  <2> QED
    BY <2>1, ThreadsAreCounted DEF OwnerInv
<1>2. \A k \in Kind : Cardinality(Waiters(k)') \in Count
  <2>1. \A k \in Kind : Waiters(k)' \subseteq Thread
    BY DEF Waiters
  <2> QED
    BY <2>1, ThreadsAreCounted
<1>3. Cardinality(At("handOver")') \in Nat /\ Cardinality(Units(release')) \in Nat
  <2>1. At("handOver")' \subseteq Thread
    BY DEF At
  <2> QED
    BY <2>1, ThreadsAreCounted, FS_CardinalityType, UnitsAreCounted
<1>4. /\ word'.exclusiveWaiters \in Count /\ semaphore'["exclusive"] \in Count
      /\ word'.sharedWaiters \in Count /\ semaphore'["shared"] \in Count
  <2>1. /\ word'.exclusiveWaiters \in Nat /\ semaphore'["exclusive"] \in Nat
        /\ word'.sharedWaiters \in Nat /\ semaphore'["shared"] \in Nat
    BY DEF LooseType, WordType
  <2>2. /\ word'.exclusiveWaiters + Cardinality(At("handOver")') + semaphore'["exclusive"]
             = Cardinality(Waiters("exclusive")')
        /\ word'.sharedWaiters + Cardinality(Units(release')) + semaphore'["shared"]
             = Cardinality(Waiters("shared")')
    BY DEF WaiterInv
  <2>3. Cardinality(Waiters("exclusive")') \in Count
        /\ Cardinality(Waiters("shared")') \in Count
    BY <1>2
  <2> QED
    BY <1>3, <2>1, <2>2, <2>3 DEF Count
<1>5. \A k \in Kind : open'[k] \in Nat
  <2>1. \A k \in Kind : Creators(k)' \subseteq Thread
    BY DEF Creators, At
  <2>2. \A k \in Kind : Cardinality(Creators(k)') \in Nat
    BY <2>1, ThreadsAreCounted, FS_CardinalityType
  <2>3. \A k \in Kind : open'[k] = handle'[k] + Cardinality(Creators(k)')
    BY DEF EventsAreKept, Creators
  <2> QED
    BY <2>2, <2>3 DEF LooseType
<1>6. semaphore' \in [Kind -> Count]
  BY <1>4 DEF LooseType
<1>7. open' \in [Kind -> Nat]
  BY <1>5 DEF LooseType
<1>8. word' \in [owned : BOOLEAN, waking : BOOLEAN, sharedOwners : Count,
                sharedWaiters : Count, exclusiveWaiters : Count]
  BY <1>1, <1>4 DEF LooseType, WordType
<1> QED
  BY <1>6, <1>7, <1>8 DEF LooseType, TypeOK

\* A lock that was initialized has no owner and no waiter.
LEMMA InitInv == Init => LockIInv
<1> SUFFICES ASSUME Init PROVE LockIInv
  OBVIOUS
<1> USE ThreadsAssumption DEF Init, Kind
<1>1. TypeOK
  <2>1. word \in [owned : BOOLEAN, waking : BOOLEAN, sharedOwners : Count,
                  sharedWaiters : Count, exclusiveWaiters : Count]
    BY DEF Count
  <2>2. open \in [Kind -> Nat] /\ semaphore \in [Kind -> Count]
        /\ release \in [Thread -> Count]
    BY DEF Count
  <2> QED
    BY <2>1, <2>2 DEF TypeOK
<1>2. /\ SharedOwners = {} /\ At("handOver") = {} /\ At("woken") = {}
      /\ At("wakeShared") = {} /\ Units(release) = {}
      /\ \A k \in Kind : Waiters(k) = {} /\ Creators(k) = {}
  BY DEF SharedOwners, At, Units, Waiters, Creators
<1>3. Cardinality({}) = 0
  BY FS_EmptySet
<1>4. OwnerInv
  BY <1>2, <1>3 DEF OwnerInv
<1>5. WaiterInv
  BY <1>2, <1>3 DEF WaiterInv
<1>6. EventsAreKept
  BY <1>2, <1>3 DEF EventsAreKept, Creators
<1>7. WakingIsOneThread
  BY <1>2, <1>3 DEF WakingIsOneThread
<1> QED
  BY <1>1, <1>4, <1>5, <1>6, <1>7 DEF LockIInv

\* The lock keeps the inductive invariant.
THEOREM Invariance == Spec => []LockIInv
<1>1. LockIInv /\ [Next]_vars => LockIInv'
  BY LooseStep, TypeStep, OwnerStep, WaiterStep, EventStep, WakeStep DEF LockIInv
<1> QED
  BY InitInv, <1>1, PTL DEF Spec

\* No counter of the word carries into the next one, no semaphore is leaked, and
\* the waking bit is one thread, for as many threads as a counter can count.
THEOREM WordAgrees == Spec => []WordInv
<1>1. LockIInv => WordInv
  BY DEF LockIInv, WordInv
<1> QED
  BY <1>1, Invariance, PTL

-----------------------------------------------------------------------------
(***************************************************************************)
(* The refinement.                                                         *)
(***************************************************************************)

\* A thread that moves on, and no other, changes its state.
LEMMA StateMoves ==
  ASSUME TypeOK, NEW t \in Thread, NEW to, NEW mode,
         pc' = [pc EXCEPT ![t] = to], want' = [want EXCEPT ![t] = mode]
  PROVE  State' = [State EXCEPT ![t] = StateOf(to, mode)]
<1>1. /\ pc'[t] = to /\ want'[t] = mode
      /\ \A s \in Thread : s # t => pc'[s] = pc[s] /\ want'[s] = want[s]
  BY DEF TypeOK
<1>2. State' = [s \in Thread |-> StateOf(pc'[s], want'[s])]
  BY DEF State
<1>3. State \in [Thread -> {State[s] : s \in Thread}]
  BY DEF State
<1>4. \A s \in Thread : State'[s] = IF s = t THEN StateOf(to, mode) ELSE State[s]
  <2>1. State'[t] = StateOf(to, mode)
    BY <1>1, <1>2
  <2>2. ASSUME NEW s \in Thread, s # t PROVE State'[s] = State[s]
    <3>1. pc'[s] = pc[s] /\ want'[s] = want[s]
      BY <1>1, <2>2
    <3> QED
      BY <1>2, <3>1 DEF State
  <2> QED
    BY <2>1, <2>2
<1> QED
  BY <1>2, <1>3, <1>4

\* The same when it keeps the mode it asked for, and when it stutters.
LEMMA StateOfOneMoves ==
  ASSUME TypeOK, NEW t \in Thread, NEW to, pc' = [pc EXCEPT ![t] = to], UNCHANGED want
  PROVE  /\ State' = [State EXCEPT ![t] = StateOf(to, want[t])]
         /\ StateOf(to, want[t]) = State[t] => UNCHANGED State
<1>1. want' = [want EXCEPT ![t] = want[t]]
  BY DEF TypeOK
<1>2. State' = [State EXCEPT ![t] = StateOf(to, want[t])]
  BY <1>1, StateMoves
<1>3. State = [s \in Thread |-> State[s]]
  BY DEF State
<1> QED
  BY <1>2, <1>3

\* The owners the abstract lock knows are those of the word.
LEMMA OwnersOfState ==
  ASSUME TypeOK, NEW s \in Thread
  PROVE  /\ State[s] = "exclusive" <=> pc[s] = "owns" /\ want[s] = "exclusive"
         /\ State[s] = "shared" <=> pc[s] = "owns" /\ want[s] = "shared"
<1>1. want[s] \in Kind
  BY DEF TypeOK
<1>2. State[s] = StateOf(pc[s], want[s])
  BY DEF State
<1> QED
  BY <1>1, <1>2 DEF StateOf, Kind

\* A thread that is let in is granted the mode it asks for.
LEMMA TakeGrants ==
  ASSUME TypeOK, OwnerInv, NEW t \in Thread, NEW mode \in Kind, MayTake(mode),
         pc[t] = "idle" \/ (pc[t] = "ask" /\ want[t] = mode),
         pc' = [pc EXCEPT ![t] = "owns"], want' = [want EXCEPT ![t] = mode]
  PROVE  Lock!Grant(t)
<1>1. State' = [State EXCEPT ![t] = mode]
  <2>1. StateOf("owns", mode) = mode
    BY DEF StateOf
  <2>2. State' = [State EXCEPT ![t] = StateOf("owns", mode)]
    BY StateMoves
  <2> QED
    BY <2>1, <2>2
<1>2. State[t] \in {"idle", IF mode = "exclusive" THEN "asksExclusive" ELSE "asksShared"}
  BY DEF State, StateOf
<1>3. \A s \in Thread : State[s] \in Kind => mode = "shared" /\ State[s] = "shared"
  BY MayTakeOwners, OwnersOfState DEF Kind
<1>4. CASE mode = "exclusive"
  BY <1>1, <1>2, <1>3, <1>4 DEF Lock!Grant, Lock!Owner, Kind
<1>5. CASE mode = "shared"
  BY <1>1, <1>2, <1>3, <1>5 DEF Lock!Grant, Lock!Owner, Kind
<1> QED
  BY <1>4, <1>5 DEF Kind

\* Every step grants, releases or asks as ReaderWriterLock allows, or changes
\* nothing that the users of the lock see.
LEMMA LockStep ==
  LockIInv /\ [Next]_vars => [Lock!Next]_State
<1> SUFFICES ASSUME TypeOK, OwnerInv, WakingIsOneThread, [Next]_vars
             PROVE  [Lock!Next]_State
  BY DEF LockIInv
<1>1. ASSUME NEW t \in Thread, NEW mode \in Kind, Ask(t, mode)
      PROVE  [Lock!Next]_State
  <2>1. /\ pc[t] = "idle" /\ pc' = [pc EXCEPT ![t] = "ask"]
        /\ want' = [want EXCEPT ![t] = mode]
    BY <1>1 DEF Ask, Go
  <2>2. State' = [State EXCEPT ![t] = StateOf("ask", mode)] /\ State[t] = "idle"
    BY <2>1, StateMoves DEF State, StateOf
  <2>3. StateOf("ask", mode) \in {"asksExclusive", "asksShared"}
    BY DEF StateOf
  <2> QED
    BY <2>2, <2>3 DEF Lock!Next, Lock!Ask
<1>2. ASSUME NEW t \in Thread, NEW mode \in Kind, TryAcquire(t, mode)
      PROVE  [Lock!Next]_State
  <2>1. /\ pc[t] = "idle" /\ MayTake(mode) /\ pc' = [pc EXCEPT ![t] = "owns"]
        /\ want' = [want EXCEPT ![t] = mode]
    BY <1>2 DEF TryAcquire, Go
  <2>2. Lock!Grant(t)
    BY <2>1, TakeGrants
  <2> QED
    BY <2>2 DEF Lock!Next
<1>3. ASSUME NEW t \in Thread, Acquire(t) PROVE [Lock!Next]_State
  <2>1. /\ pc[t] = "ask" /\ MayTake(want[t]) /\ pc' = [pc EXCEPT ![t] = "owns"]
        /\ want' = [want EXCEPT ![t] = want[t]] /\ want[t] \in Kind
    BY <1>3 DEF Acquire, Go, TypeOK
  <2>2. Lock!Grant(t)
    BY <2>1, TakeGrants
  <2> QED
    BY <2>2 DEF Lock!Next
<1>4. ASSUME NEW t \in Thread, NtCreateSemaphore(t) PROVE [Lock!Next]_State
  <2>1. pc' = [pc EXCEPT ![t] = "created"] /\ UNCHANGED want
    BY <1>4 DEF NtCreateSemaphore, Go
  <2>2. StateOf("created", want[t]) = State[t]
    BY <1>4 DEF NtCreateSemaphore, State, StateOf
  <2> QED
    BY <2>1, <2>2, StateOfOneMoves
<1>5. ASSUME NEW t \in Thread, PhpEnsureEventCreated(t) PROVE [Lock!Next]_State
  <2>1. pc' = [pc EXCEPT ![t] = "ask"] /\ UNCHANGED want
    BY <1>5 DEF PhpEnsureEventCreated, Go
  <2>2. StateOf("ask", want[t]) = State[t]
    BY <1>5 DEF PhpEnsureEventCreated, State, StateOf
  <2> QED
    BY <2>1, <2>2, StateOfOneMoves
<1>6. ASSUME NEW t \in Thread, Wait(t) PROVE [Lock!Next]_State
  <2>1. pc' = [pc EXCEPT ![t] = "wait"] /\ UNCHANGED want
    BY <1>6 DEF Wait, Go
  <2>2. StateOf("wait", want[t]) = State[t]
    BY <1>6 DEF Wait, State, StateOf
  <2> QED
    BY <2>1, <2>2, StateOfOneMoves
<1>7. ASSUME NEW t \in Thread, NtWaitForSingleObject(t) PROVE [Lock!Next]_State
  <2> DEFINE to == IF want[t] = "exclusive" THEN "woken" ELSE "ask"
  <2>1. pc' = [pc EXCEPT ![t] = to] /\ UNCHANGED want
    BY <1>7 DEF NtWaitForSingleObject, Go
  <2>2. StateOf(to, want[t]) = State[t]
    BY <1>7 DEF NtWaitForSingleObject, State, StateOf
  <2> QED
    BY <2>1, <2>2, StateOfOneMoves
<1>8. ASSUME NEW t \in Thread, TakeOver(t) PROVE [Lock!Next]_State
  <2>1. pc[t] = "woken" /\ pc' = [pc EXCEPT ![t] = "owns"] /\ UNCHANGED want
    BY <1>8 DEF TakeOver, Go
  <2>2. want[t] = "exclusive"
    BY <2>1 DEF OwnerInv
  <2>3. State' = [State EXCEPT ![t] = "exclusive"] /\ State[t] = "asksExclusive"
    <3>1. State' = [State EXCEPT ![t] = StateOf("owns", want[t])]
      BY <2>1, StateOfOneMoves
    <3>2. StateOf("owns", want[t]) = "exclusive" /\ State[t] = "asksExclusive"
      BY <2>1, <2>2 DEF State, StateOf
    <3> QED
      BY <3>1, <3>2
  <2>4. \A s \in Thread : State[s] \notin Kind
    BY <2>1, WokenOwners, OwnersOfState DEF Kind
  <2>5. Lock!Grant(t)
    BY <2>3, <2>4 DEF Lock!Grant, Lock!Owner, Kind
  <2> QED
    BY <2>5 DEF Lock!Next
<1>9. ASSUME NEW t \in Thread, PhfReleaseFastLockExclusive(t)
      PROVE  [Lock!Next]_State
  <2>1. PICK to \in {"handOver", "wakeShared", "idle"} :
          pc[t] = "owns" /\ pc' = [pc EXCEPT ![t] = to] /\ UNCHANGED want
    BY <1>9 DEF PhfReleaseFastLockExclusive, Go
  <2>2. State[t] = "exclusive" /\ StateOf(to, want[t]) = "idle"
    BY <1>9, <2>1 DEF PhfReleaseFastLockExclusive, State, StateOf
  <2>3. State' = [State EXCEPT ![t] = "idle"]
    BY <2>1, <2>2, StateOfOneMoves
  <2> QED
    BY <2>2, <2>3 DEF Lock!Next, Lock!Release
<1>10. ASSUME NEW t \in Thread, PhfReleaseFastLockShared(t) PROVE [Lock!Next]_State
  <2>1. PICK to \in {"handOver", "idle"} :
          pc[t] = "owns" /\ pc' = [pc EXCEPT ![t] = to] /\ UNCHANGED want
    BY <1>10 DEF PhfReleaseFastLockShared, Go
  <2>2. State[t] = "shared" /\ StateOf(to, want[t]) = "idle"
    BY <1>10, <2>1 DEF PhfReleaseFastLockShared, State, StateOf
  <2>3. State' = [State EXCEPT ![t] = "idle"]
    BY <2>1, <2>2, StateOfOneMoves
  <2> QED
    BY <2>2, <2>3 DEF Lock!Next, Lock!Release
<1>11. ASSUME NEW t \in Thread, NtReleaseSemaphore(t) PROVE [Lock!Next]_State
  <2>1. pc' = [pc EXCEPT ![t] = "idle"] /\ UNCHANGED want
    BY <1>11 DEF NtReleaseSemaphore, Go
  <2>2. StateOf("idle", want[t]) = State[t]
    BY <1>11 DEF NtReleaseSemaphore, State, StateOf
  <2> QED
    BY <2>1, <2>2, StateOfOneMoves
<1>12. CASE PhDeleteFastLock
  BY <1>12 DEF PhDeleteFastLock, State
<1>13. CASE UNCHANGED vars
  BY <1>13 DEF vars, State
<1>14. ASSUME NEW t \in Thread, NtCreateSemaphoreFails(t) PROVE [Lock!Next]_State
  BY <1>14 DEF NtCreateSemaphoreFails, State
<1> QED
  BY <1>1, <1>2, <1>3, <1>4, <1>5, <1>6, <1>7, <1>8, <1>9, <1>10, <1>11, <1>12, <1>13,
     <1>14
     DEF Next, Start, Step

\* The lock is a reader/writer lock: an exclusive owner is alone, and the mode a
\* thread gets is the one it asked for.
THEOREM IsReaderWriterLock == Spec => LockSpec
<1>1. Init => Lock!Init
  BY DEF Init, Lock!Init, State, StateOf
<1> QED
  BY <1>1, LockStep, Invariance, PTL DEF Spec, LockSpec, Lock!Spec

=============================================================================
