---------------------------- MODULE InitOnceProofs ----------------------------
(***************************************************************************)
(* One thread initializes, and the kernel event stays open under everyone  *)
(* that sleeps on it, for any number of threads and timeouts.              *)
(***************************************************************************)
EXTENDS InitOnce, FiniteSetTheorems, TLAPS

\* The threads with the initialization in hand.
Owners == {t \in Thread : pc[t] \in {"initialize", "set", "notify"}}

\* The threads with a reference of the event.
Holders ==
  {t \in Thread : pc[t] \in {"initialize", "set", "notify", "look", "create", "store",
                             "reload", "check", "sleep", "drop", "giveUp"}}

\* The initialization is begun once, and goes on until the event is set.
OnceInv ==
  /\ \A s, t \in Owners : s = t
  /\ ~begun => Owners = {}
  /\ (begun /\ ~set) => \E t \in Thread : pc[t] = "initialize"
  /\ set => begun /\ initialized
  /\ signaled # {} => set
  /\ \A t \in Thread :
       pc[t] \in {"set", "notify", "drop", "close", "clear", "done"} => set

\* The reference the event is made with is that of the thread to initialize.
CountInv == refs = (IF begun THEN 0 ELSE 1) + Cardinality(Holders)

\* There are, or may yet be, threads to wake.  Once nobody sleeps on an event
\* that is set, nobody will again.
Needed == ~set \/ \E t \in Thread : pc[t] = "sleep"

\* While the event is needed its handle is not closed, and everyone that is
\* about to wait has the handle the event has.
HandleInv ==
  /\ \A t \in Thread : pc[t] \in {"create", "store"} => eventHandle # t
  /\ \A t \in Thread : pc[t] = "store" => handle[t] = t
  /\ Needed =>
       /\ \A t \in Thread : pc[t] \notin {"close", "closeLate", "clear", "clearLate"}
       /\ eventHandle # None => eventHandle \in open
       /\ \A t \in Thread :
            /\ pc[t] = "store" => t \in open
            /\ pc[t] = "reload" => eventHandle # None
            /\ pc[t] \in {"check", "sleep"} =>
                 handle[t] = eventHandle /\ eventHandle # None

OnceIInv == TypeOK /\ OnceInv /\ CountInv /\ HandleInv

-----------------------------------------------------------------------------
(***************************************************************************)
(* The steps that preserve it.                                             *)
(***************************************************************************)

\* The holders are finitely many, at most one for each thread.
LEMMA HoldersAreCounted ==
  /\ IsFiniteSet(Holders)
  /\ Cardinality(Holders) \in 0 .. Cardinality(Thread)
<1>1. Holders \in SUBSET Thread
  BY DEF Holders
<1> QED
  BY <1>1, ConstantsAssumption, FS_Subset, FS_CardinalityType

\* So the count stays between zero and one more than the threads.
LEMMA CountIsInRange ==
  ASSUME CountInv', begun' \in BOOLEAN
  PROVE  refs' \in 0 .. Cardinality(Thread) + 1
<1>1. Cardinality(Holders') \in 0 .. Cardinality(Thread)
  <2>1. Holders' \in SUBSET Thread
    BY DEF Holders
  <2> QED
    BY <2>1, ConstantsAssumption, FS_Subset, FS_CardinalityType
<1>2. Cardinality(Thread) \in Nat
  BY ConstantsAssumption, FS_CardinalityType
<1> QED
  BY <1>1, <1>2 DEF CountInv

\* The thread with the last reference is the last that knows the event: it has
\* been set, and nobody sleeps.
LEMMA LastReference ==
  ASSUME TypeOK, OnceInv, CountInv, NEW t \in Thread, pc[t] \in {"drop", "giveUp"},
         refs = 1
  PROVE  set /\ Holders = {t}
<1>1. t \in Holders
  BY DEF Holders
<1>2. Cardinality(Holders) # 0
  BY <1>1, HoldersAreCounted, FS_EmptySet
<1>3. begun /\ Cardinality(Holders) = 1
  BY <1>2, HoldersAreCounted DEF CountInv, TypeOK
<1>4. Holders = {t}
  BY <1>1, <1>3, HoldersAreCounted, FS_Singleton
<1>5. \A s \in Thread : pc[s] = "initialize" => s \in Holders
  BY DEF Holders
<1>6. set
  BY <1>3, <1>4, <1>5 DEF OnceInv, TypeOK
<1> QED
  BY <1>4, <1>6

\* The bit is set once, by the thread that then initializes.
LEMMA OnceStep ==
  TypeOK /\ OnceInv /\ [Next]_vars => OnceInv'
<1> SUFFICES ASSUME TypeOK, OnceInv, [Next]_vars PROVE OnceInv'
  OBVIOUS
<1> USE ConstantsAssumption DEF TypeOK, OnceInv, Owners, Go
<1>1. ASSUME NEW t \in Thread, PhTestEvent(t) PROVE OnceInv'
  BY <1>1 DEF PhTestEvent, Leave
<1>2. ASSUME NEW t \in Thread, PhfBeginInitOnce(t) PROVE OnceInv'
  BY <1>2 DEF PhfBeginInitOnce
<1>3. ASSUME NEW t \in Thread, Initialize(t) PROVE OnceInv'
  BY <1>3 DEF Initialize
<1>4. ASSUME NEW t \in Thread, PhfSetEvent(t) PROVE OnceInv'
  BY <1>4 DEF PhfSetEvent
<1>5. ASSUME NEW t \in Thread, ReadToSet(t) PROVE OnceInv'
  BY <1>5 DEF ReadToSet
<1>6. ASSUME NEW t \in Thread, NtSetEvent(t) PROVE OnceInv'
  BY <1>6 DEF NtSetEvent
<1>7. ASSUME NEW t \in Thread, PhfWaitForEvent(t) PROVE OnceInv'
  BY <1>7 DEF PhfWaitForEvent, Leave
<1>8. ASSUME NEW t \in Thread, PhpReferenceEvent(t) PROVE OnceInv'
  BY <1>8 DEF PhpReferenceEvent
<1>9. ASSUME NEW t \in Thread, ReadToWait(t) PROVE OnceInv'
  BY <1>9 DEF ReadToWait
<1>10. ASSUME NEW t \in Thread, NtCreateEvent(t) PROVE OnceInv'
  BY <1>10 DEF NtCreateEvent
<1>11. ASSUME NEW t \in Thread, StoreHandle(t) PROVE OnceInv'
  BY <1>11 DEF StoreHandle
<1>12. ASSUME NEW t \in Thread, ReloadHandle(t) PROVE OnceInv'
  BY <1>12 DEF ReloadHandle
<1>13. ASSUME NEW t \in Thread, CheckEvent(t) PROVE OnceInv'
  BY <1>13 DEF CheckEvent
<1>14. ASSUME NEW t \in Thread, NtWaitForSingleObject(t) PROVE OnceInv'
  BY <1>14 DEF NtWaitForSingleObject
<1>15. ASSUME NEW t \in Thread, WaitTimesOut(t) PROVE OnceInv'
  BY <1>15 DEF WaitTimesOut
<1>16. ASSUME NEW t \in Thread, PhpDereferenceEvent(t) PROVE OnceInv'
  BY <1>16 DEF PhpDereferenceEvent, Leave, Returned
<1>17. ASSUME NEW t \in Thread, NtClose(t) PROVE OnceInv'
  BY <1>17 DEF NtClose
<1>18. ASSUME NEW t \in Thread, ClearHandle(t) PROVE OnceInv'
  BY <1>18 DEF ClearHandle, Leave, Returned
<1>19. CASE UNCHANGED vars
  BY <1>19 DEF vars
<1> QED
  BY <1>1, <1>2, <1>3, <1>4, <1>5, <1>6, <1>7, <1>8, <1>9, <1>10, <1>11, <1>12, <1>13,
     <1>14, <1>15, <1>16, <1>17, <1>18, <1>19
     DEF Next, Step

\* A thread that takes or gives up a reference changes the count with it.
LEMMA CountStep ==
  TypeOK /\ OnceInv /\ CountInv /\ [Next]_vars => CountInv'
<1> SUFFICES ASSUME TypeOK, OnceInv, CountInv, [Next]_vars PROVE CountInv'
  OBVIOUS
<1> USE ConstantsAssumption DEF TypeOK, CountInv, Holders, Go
<1>1. ASSUME NEW t \in Thread, PhTestEvent(t) PROVE CountInv'
  BY <1>1 DEF PhTestEvent, Leave
<1>2. ASSUME NEW t \in Thread, PhfBeginInitOnce(t) PROVE CountInv'
  <2>1. CASE begun
    <3>1. Holders' = Holders /\ begun' /\ refs' = refs
      BY <1>2, <2>1 DEF PhfBeginInitOnce
    <3> QED
      BY <2>1, <3>1
  <2>2. CASE ~begun
    <3>1. Holders' = Holders \cup {t} /\ t \notin Holders /\ begun' /\ refs' = refs
      BY <1>2, <2>2 DEF PhfBeginInitOnce
    <3> HIDE DEF Holders
    <3>2. Cardinality(Holders') = Cardinality(Holders) + 1
      BY <3>1, HoldersAreCounted, FS_AddElement
    <3> QED
      BY <2>2, <3>1, <3>2, HoldersAreCounted
  <2> QED
    BY <2>1, <2>2
<1>3. ASSUME NEW t \in Thread, Initialize(t) PROVE CountInv'
  BY <1>3 DEF Initialize
<1>4. ASSUME NEW t \in Thread, PhfSetEvent(t) PROVE CountInv'
  BY <1>4 DEF PhfSetEvent
<1>5. ASSUME NEW t \in Thread, ReadToSet(t) PROVE CountInv'
  BY <1>5 DEF ReadToSet
<1>6. ASSUME NEW t \in Thread, NtSetEvent(t) PROVE CountInv'
  BY <1>6 DEF NtSetEvent
<1>7. ASSUME NEW t \in Thread, PhfWaitForEvent(t) PROVE CountInv'
  BY <1>7 DEF PhfWaitForEvent, Leave
<1>8. ASSUME NEW t \in Thread, PhpReferenceEvent(t) PROVE CountInv'
  <2>1. Holders' = Holders \cup {t} /\ t \notin Holders /\ begun' = begun /\ refs' = refs + 1
    BY <1>8 DEF PhpReferenceEvent
  <2> HIDE DEF Holders
  <2>2. Cardinality(Holders') = Cardinality(Holders) + 1
    BY <2>1, HoldersAreCounted, FS_AddElement
  <2> QED
    BY <2>1, <2>2, HoldersAreCounted
<1>9. ASSUME NEW t \in Thread, ReadToWait(t) PROVE CountInv'
  BY <1>9 DEF ReadToWait
<1>10. ASSUME NEW t \in Thread, NtCreateEvent(t) PROVE CountInv'
  BY <1>10 DEF NtCreateEvent
<1>11. ASSUME NEW t \in Thread, StoreHandle(t) PROVE CountInv'
  BY <1>11 DEF StoreHandle
<1>12. ASSUME NEW t \in Thread, ReloadHandle(t) PROVE CountInv'
  BY <1>12 DEF ReloadHandle
<1>13. ASSUME NEW t \in Thread, CheckEvent(t) PROVE CountInv'
  BY <1>13 DEF CheckEvent
<1>14. ASSUME NEW t \in Thread, NtWaitForSingleObject(t) PROVE CountInv'
  BY <1>14 DEF NtWaitForSingleObject
<1>15. ASSUME NEW t \in Thread, WaitTimesOut(t) PROVE CountInv'
  BY <1>15 DEF WaitTimesOut
<1>16. ASSUME NEW t \in Thread, PhpDereferenceEvent(t) PROVE CountInv'
  <2>1. Holders' = Holders \ {t} /\ t \in Holders /\ begun' = begun /\ refs' = refs - 1
    BY <1>16 DEF PhpDereferenceEvent, Leave, Returned
  <2> HIDE DEF Holders
  <2>2. Cardinality(Holders') = Cardinality(Holders) - 1
    BY <2>1, HoldersAreCounted, FS_RemoveElement
  <2> QED
    BY <2>1, <2>2, HoldersAreCounted
<1>17. ASSUME NEW t \in Thread, NtClose(t) PROVE CountInv'
  BY <1>17 DEF NtClose
<1>18. ASSUME NEW t \in Thread, ClearHandle(t) PROVE CountInv'
  BY <1>18 DEF ClearHandle, Leave, Returned
<1>19. CASE UNCHANGED vars
  BY <1>19 DEF vars
<1> QED
  BY <1>1, <1>2, <1>3, <1>4, <1>5, <1>6, <1>7, <1>8, <1>9, <1>10, <1>11, <1>12, <1>13,
     <1>14, <1>15, <1>16, <1>17, <1>18, <1>19
     DEF Next, Step

\* The last reference is given up only when nobody waits or will wait.
LEMMA HandleStep ==
  TypeOK /\ OnceInv /\ CountInv /\ HandleInv /\ [Next]_vars => HandleInv'
<1> SUFFICES ASSUME TypeOK, OnceInv, CountInv, HandleInv, [Next]_vars PROVE HandleInv'
  OBVIOUS
<1> USE ConstantsAssumption DEF TypeOK, HandleInv, Needed, Go
<1>1. ASSUME NEW t \in Thread, PhTestEvent(t) PROVE HandleInv'
  BY <1>1 DEF PhTestEvent, Leave
<1>2. ASSUME NEW t \in Thread, PhfBeginInitOnce(t) PROVE HandleInv'
  BY <1>2 DEF PhfBeginInitOnce
<1>3. ASSUME NEW t \in Thread, Initialize(t) PROVE HandleInv'
  BY <1>3 DEF Initialize
<1>4. ASSUME NEW t \in Thread, PhfSetEvent(t) PROVE HandleInv'
  BY <1>4 DEF PhfSetEvent
<1>5. ASSUME NEW t \in Thread, ReadToSet(t) PROVE HandleInv'
  BY <1>5 DEF ReadToSet
<1>6. ASSUME NEW t \in Thread, NtSetEvent(t) PROVE HandleInv'
  BY <1>6 DEF NtSetEvent
<1>7. ASSUME NEW t \in Thread, PhfWaitForEvent(t) PROVE HandleInv'
  BY <1>7 DEF PhfWaitForEvent, Leave
<1>8. ASSUME NEW t \in Thread, PhpReferenceEvent(t) PROVE HandleInv'
  BY <1>8 DEF PhpReferenceEvent
<1>9. ASSUME NEW t \in Thread, ReadToWait(t) PROVE HandleInv'
  BY <1>9 DEF ReadToWait
<1>10. ASSUME NEW t \in Thread, NtCreateEvent(t) PROVE HandleInv'
  BY <1>10 DEF NtCreateEvent
<1>11. ASSUME NEW t \in Thread, StoreHandle(t) PROVE HandleInv'
  BY <1>11 DEF StoreHandle
<1>12. ASSUME NEW t \in Thread, ReloadHandle(t) PROVE HandleInv'
  BY <1>12 DEF ReloadHandle
<1>13. ASSUME NEW t \in Thread, CheckEvent(t) PROVE HandleInv'
  BY <1>13 DEF CheckEvent
<1>14. ASSUME NEW t \in Thread, NtWaitForSingleObject(t) PROVE HandleInv'
  BY <1>14 DEF NtWaitForSingleObject
<1>15. ASSUME NEW t \in Thread, WaitTimesOut(t) PROVE HandleInv'
  BY <1>15 DEF WaitTimesOut
<1>16. ASSUME NEW t \in Thread, PhpDereferenceEvent(t) PROVE HandleInv'
  <2>1. CASE refs = 1
    <3>1. \A s \in Thread : s \in Holders => s = t
      BY <1>16, <2>1, LastReference DEF PhpDereferenceEvent
    <3>2. ~Needed
      BY <1>16, <2>1, <3>1, LastReference DEF PhpDereferenceEvent, Holders
    <3>3. UNCHANGED <<set, eventHandle>>
      BY <1>16 DEF PhpDereferenceEvent
    <3>4. \A s \in Thread : s # t => pc'[s] = pc[s] /\ handle'[s] = handle[s]
      BY <1>16 DEF PhpDereferenceEvent, Leave, Returned
    <3>5. pc'[t] \in {"close", "closeLate", "idle", "done"}
      BY <1>16 DEF PhpDereferenceEvent, Leave, Returned
    <3>6. ~Needed'
      BY <3>2, <3>3, <3>4, <3>5
    <3> QED
      BY <3>3, <3>4, <3>5, <3>6
  <2>2. CASE refs # 1
    BY <1>16, <2>2 DEF PhpDereferenceEvent, Leave, Returned
  <2> QED
    BY <2>1, <2>2
<1>17. ASSUME NEW t \in Thread, NtClose(t) PROVE HandleInv'
  BY <1>17 DEF NtClose
<1>18. ASSUME NEW t \in Thread, ClearHandle(t) PROVE HandleInv'
  BY <1>18 DEF ClearHandle, Leave, Returned
<1>19. CASE UNCHANGED vars
  BY <1>19 DEF vars
<1> QED
  BY <1>1, <1>2, <1>3, <1>4, <1>5, <1>6, <1>7, <1>8, <1>9, <1>10, <1>11, <1>12, <1>13,
     <1>14, <1>15, <1>16, <1>17, <1>18, <1>19
     DEF Next, Step

\* Every step keeps the types.
LEMMA TypeStep ==
  TypeOK /\ CountInv' /\ [Next]_vars => TypeOK'
<1> SUFFICES ASSUME TypeOK, CountInv', [Next]_vars PROVE TypeOK'
  OBVIOUS
<1> USE ConstantsAssumption DEF TypeOK, Go
<1>1. ASSUME NEW t \in Thread, PhTestEvent(t) PROVE TypeOK'
  BY <1>1 DEF PhTestEvent, Leave
<1>2. ASSUME NEW t \in Thread, PhfBeginInitOnce(t) PROVE TypeOK'
  BY <1>2 DEF PhfBeginInitOnce
<1>3. ASSUME NEW t \in Thread, Initialize(t) PROVE TypeOK'
  BY <1>3 DEF Initialize
<1>4. ASSUME NEW t \in Thread, PhfSetEvent(t) PROVE TypeOK'
  BY <1>4 DEF PhfSetEvent
<1>5. ASSUME NEW t \in Thread, ReadToSet(t) PROVE TypeOK'
  BY <1>5 DEF ReadToSet
<1>6. ASSUME NEW t \in Thread, NtSetEvent(t) PROVE TypeOK'
  BY <1>6 DEF NtSetEvent
<1>7. ASSUME NEW t \in Thread, PhfWaitForEvent(t) PROVE TypeOK'
  BY <1>7 DEF PhfWaitForEvent, Leave
<1>8. ASSUME NEW t \in Thread, PhpReferenceEvent(t) PROVE TypeOK'
  BY <1>8, CountIsInRange DEF PhpReferenceEvent
<1>9. ASSUME NEW t \in Thread, ReadToWait(t) PROVE TypeOK'
  BY <1>9 DEF ReadToWait
<1>10. ASSUME NEW t \in Thread, NtCreateEvent(t) PROVE TypeOK'
  BY <1>10 DEF NtCreateEvent
<1>11. ASSUME NEW t \in Thread, StoreHandle(t) PROVE TypeOK'
  BY <1>11 DEF StoreHandle
<1>12. ASSUME NEW t \in Thread, ReloadHandle(t) PROVE TypeOK'
  BY <1>12 DEF ReloadHandle
<1>13. ASSUME NEW t \in Thread, CheckEvent(t) PROVE TypeOK'
  BY <1>13 DEF CheckEvent
<1>14. ASSUME NEW t \in Thread, NtWaitForSingleObject(t) PROVE TypeOK'
  BY <1>14 DEF NtWaitForSingleObject
<1>15. ASSUME NEW t \in Thread, WaitTimesOut(t) PROVE TypeOK'
  BY <1>15 DEF WaitTimesOut
<1>16. ASSUME NEW t \in Thread, PhpDereferenceEvent(t) PROVE TypeOK'
  BY <1>16, CountIsInRange DEF PhpDereferenceEvent, Leave, Returned
<1>17. ASSUME NEW t \in Thread, NtClose(t) PROVE TypeOK'
  BY <1>17 DEF NtClose
<1>18. ASSUME NEW t \in Thread, ClearHandle(t) PROVE TypeOK'
  BY <1>18 DEF ClearHandle, Leave, Returned
<1>19. CASE UNCHANGED vars
  BY <1>19 DEF vars
<1> QED
  BY <1>1, <1>2, <1>3, <1>4, <1>5, <1>6, <1>7, <1>8, <1>9, <1>10, <1>11, <1>12, <1>13,
     <1>14, <1>15, <1>16, <1>17, <1>18, <1>19
     DEF Next, Step

\* Nothing has begun, and the event is made with one reference.
LEMMA InitInv == Init => OnceIInv
<1> SUFFICES ASSUME Init PROVE OnceIInv
  OBVIOUS
<1>1. TypeOK
  <2>1. Cardinality(Thread) \in Nat
    BY ConstantsAssumption, FS_CardinalityType
  <2>2. refs \in 0 .. Cardinality(Thread) + 1
    BY <2>1 DEF Init
  <2>3. handle \in [Thread -> Thread \cup {None}]
    BY DEF Init
  <2> QED
    BY <2>2, <2>3 DEF Init, TypeOK
<1>2. OnceInv
  BY DEF Init, OnceInv, Owners
<1>3. CountInv
  <2>1. Holders = {}
    BY DEF Init, Holders
  <2> QED
    BY <2>1, FS_EmptySet DEF Init, CountInv
<1>4. HandleInv
  BY ConstantsAssumption DEF Init, HandleInv
<1> QED
  BY <1>1, <1>2, <1>3, <1>4 DEF OnceIInv

\* The event and the initialization keep the inductive invariant.
THEOREM Invariance == Spec => []OnceIInv
<1>1. OnceIInv /\ [Next]_vars => OnceIInv'
  BY OnceStep, CountStep, HandleStep, TypeStep DEF OnceIInv
<1> QED
  BY InitInv, <1>1, PTL DEF Spec

\* However many threads call PhBeginInitOnce at once, one initializes, and none
\* goes on before it has.
THEOREM OneInitializer == Spec => []InitializedOnce
<1>1. OnceIInv => InitializedOnce
  <2> SUFFICES ASSUME OnceIInv PROVE InitializedOnce
    OBVIOUS
  <2>1. Cardinality(Owners) <= 1
    <3>1. CASE Owners = {}
      BY <3>1, FS_EmptySet
    <3>2. CASE Owners # {}
      <4>1. PICK t : Owners = {t}
        BY <3>2 DEF OnceIInv, OnceInv
      <4>2. Cardinality(Owners) = 1
        BY <4>1, FS_Singleton, Zenon
      <4> QED
        BY <4>2
    <3> QED
      BY <3>1, <3>2
  <2>2. (\E t \in Thread : pc[t] = "done") => initialized
    BY DEF OnceIInv, OnceInv
  <2> QED
    BY <2>1, <2>2 DEF InitializedOnce, Owners
<1> QED
  BY <1>1, Invariance, PTL

\* Whoever sleeps is on a kernel event that is open and will be set, and the
\* reference count stays in range, whatever waits time out.
THEOREM SleepersAreSafe == Spec => []EventInv
<1>1. OnceIInv => EventInv
  <2> SUFFICES ASSUME OnceIInv PROVE SleeperWillBeWoken
    BY DEF OnceIInv, EventInv
  <2> QED
    BY DEF OnceIInv, HandleInv, Needed, SleeperWillBeWoken
<1> QED
  BY <1>1, Invariance, PTL

=============================================================================
