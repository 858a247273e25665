-------------------------------- MODULE FastLock --------------------------------
(***************************************************************************)
(* The fast lock of the support library (phlib/fastlock.c): a word of      *)
(* counters and two semaphores made when first needed.                     *)
(*                                                                         *)
(* Every loop reads the word again before its compare-exchange, so that an *)
(* attempt that fails changes nothing: reading and exchanging is one step. *)
(* Spinning is the choice of a thread not to wait yet.  The semaphores are *)
(* external.                                                               *)
(***************************************************************************)
EXTENDS Naturals, FiniteSets

CONSTANTS
  Thread,     \* threads
  MaxCount    \* the mask of a counter in the word, 0x3ff

ASSUME ThreadsAssumption ==
  IsFiniteSet(Thread) /\ MaxCount \in Nat /\ Cardinality(Thread) <= MaxCount

Kind == {"exclusive", "shared"}

VARIABLES
  word,        \* FastLock->Value
  handle,      \* ExclusiveWakeEvent and SharedWakeEvent: 0 for NULL
  open,        \* open handles of semaphores of a kind
  semaphore,   \* the count of the semaphore
  pc,          \* where a thread is
  want,        \* the mode a thread asks for
  release,     \* the count a thread is about to release the shared event with
  failed       \* a semaphore could not be created

vars == <<word, handle, open, semaphore, pc, want, release, failed>>

Go(t, to) == pc' = [pc EXCEPT ![t] = to]

-----------------------------------------------------------------------------
(***************************************************************************)
(* Acquiring.                                                              *)
(***************************************************************************)

ExclusivePending == word.waking \/ word.exclusiveWaiters > 0

\* The conditions and the new words of PhfAcquireFastLockExclusive and
\* PhfAcquireFastLockShared.
MayTake(mode) ==
  IF mode = "exclusive"
    THEN ~word.owned /\ ~word.waking
    ELSE ~ExclusivePending /\ (word.owned <=> word.sharedOwners > 0)

Take(mode) ==
  word' = [word EXCEPT !.owned = TRUE,
                       !.sharedOwners = IF mode = "shared" THEN @ + 1 ELSE @]

\* PhAcquireFastLockExclusive or PhAcquireFastLockShared is called, and spins.
Ask(t, mode) ==
  /\ pc[t] = "idle"
  /\ want' = [want EXCEPT ![t] = mode]
  /\ Go(t, "ask")
  /\ UNCHANGED <<word, handle, open, semaphore, release>>

Acquire(t) ==
  /\ pc[t] = "ask" /\ MayTake(want[t])
  /\ Take(want[t])
  /\ Go(t, "owns")
  /\ UNCHANGED <<handle, open, semaphore, want, release>>

\* PhfTryAcquireFastLockExclusive and PhfTryAcquireFastLockShared.
TryAcquire(t, mode) ==
  /\ pc[t] = "idle" /\ MayTake(mode)
  /\ want' = [want EXCEPT ![t] = mode]
  /\ Take(mode)
  /\ Go(t, "owns")
  /\ UNCHANGED <<handle, open, semaphore, release>>

\* PhpEnsureEventCreated: a semaphore is created if there is none,
NtCreateSemaphore(t) ==
  /\ pc[t] = "ask" /\ ~MayTake(want[t]) /\ handle[want[t]] = 0
  /\ open' = [open EXCEPT ![want[t]] = @ + 1]
  /\ Go(t, "created")
  /\ UNCHANGED <<word, handle, semaphore, want, release>>

\* which may fail: the status is not looked at, and a handle that was never
\* written is stored in the lock or closed.  What the lock does then is undefined,
\* and the model ends.
NtCreateSemaphoreFails(t) ==
  /\ ~failed
  /\ pc[t] = "ask" /\ ~MayTake(want[t]) /\ handle[want[t]] = 0
  /\ failed' = TRUE
  /\ UNCHANGED <<word, handle, open, semaphore, pc, want, release>>

\* Otherwise it is closed again if another thread stored its own meanwhile.
\* The thread may then wait, or find that the lock is free.
PhpEnsureEventCreated(t) ==
  /\ pc[t] = "created"
  /\ handle' = [handle EXCEPT ![want[t]] = 1]
  /\ open' = [open EXCEPT ![want[t]] = IF handle[want[t]] = 0 THEN @ ELSE @ - 1]
  /\ Go(t, "ask")
  /\ UNCHANGED <<word, semaphore, want, release>>

\* The thread counts itself among the waiters.
Wait(t) ==
  /\ pc[t] = "ask" /\ ~MayTake(want[t]) /\ handle[want[t]] = 1
  /\ word' = IF want[t] = "exclusive" THEN [word EXCEPT !.exclusiveWaiters = @ + 1]
                                      ELSE [word EXCEPT !.sharedWaiters = @ + 1]
  /\ Go(t, "wait")
  /\ UNCHANGED <<handle, open, semaphore, want, release>>

\* The wait ends: an exclusive waiter is given the lock, a shared one tries
\* again.
NtWaitForSingleObject(t) ==
  /\ pc[t] = "wait" /\ semaphore[want[t]] > 0
  /\ semaphore' = [semaphore EXCEPT ![want[t]] = @ - 1]
  /\ Go(t, IF want[t] = "exclusive" THEN "woken" ELSE "ask")
  /\ UNCHANGED <<word, handle, open, want, release>>

\* Mutant: the waking bit stays.
TakeOver_waking(t) ==
  /\ pc[t] = "woken"
  /\ word' = [word EXCEPT !.owned = TRUE]
  /\ Go(t, "owns")
  /\ UNCHANGED <<handle, open, semaphore, want, release>>

TakeOver(t) ==
  /\ pc[t] = "woken"
  /\ word' = [word EXCEPT !.owned = TRUE, !.waking = FALSE]
  /\ Go(t, "owns")
  /\ UNCHANGED <<handle, open, semaphore, want, release>>

-----------------------------------------------------------------------------
(***************************************************************************)
(* Releasing.                                                              *)
(***************************************************************************)

\* The lock goes to an exclusive waiter: nobody owns it, but nobody else may
\* take it.
HandOver == [word EXCEPT !.owned = FALSE, !.waking = TRUE,
                         !.exclusiveWaiters = @ - 1]

\* Mutant: the count of shared waiters is cleared, and they are not woken, when
\* the lock is handed over.
PhfReleaseFastLockExclusive_forget(t) ==
  /\ pc[t] = "owns" /\ want[t] = "exclusive"
  /\ IF word.exclusiveWaiters > 0
       THEN /\ word' = [HandOver EXCEPT !.sharedWaiters = 0]
            /\ Go(t, "handOver")
            /\ UNCHANGED release
       ELSE /\ word' = [word EXCEPT !.owned = FALSE, !.sharedWaiters = 0]
            /\ release' = [release EXCEPT ![t] = word.sharedWaiters]
            /\ Go(t, IF word.sharedWaiters > 0 THEN "wakeShared" ELSE "idle")
  /\ UNCHANGED <<handle, open, semaphore, want>>

PhfReleaseFastLockExclusive(t) ==
  /\ pc[t] = "owns" /\ want[t] = "exclusive"
  /\ IF word.exclusiveWaiters > 0
       THEN /\ word' = HandOver
            /\ Go(t, "handOver")
            /\ UNCHANGED release
       ELSE /\ word' = [word EXCEPT !.owned = FALSE, !.sharedWaiters = 0]
            /\ release' = [release EXCEPT ![t] = word.sharedWaiters]
            /\ Go(t, IF word.sharedWaiters > 0 THEN "wakeShared" ELSE "idle")
  /\ UNCHANGED <<handle, open, semaphore, want>>

\* Mutant: the lock is handed over although other shared owners are left.
PhfReleaseFastLockShared_early(t) ==
  /\ pc[t] = "owns" /\ want[t] = "shared"
  /\ IF word.exclusiveWaiters > 0
       THEN word' = [HandOver EXCEPT !.sharedOwners = @ - 1] /\ Go(t, "handOver")
       ELSE /\ word' = [word EXCEPT !.sharedOwners = @ - 1,
                                    !.owned = word.sharedOwners > 1]
            /\ Go(t, "idle")
  /\ UNCHANGED <<handle, open, semaphore, want, release>>

PhfReleaseFastLockShared(t) ==
  /\ pc[t] = "owns" /\ want[t] = "shared"
  /\ IF word.sharedOwners <= 1 /\ word.exclusiveWaiters > 0
       THEN word' = [HandOver EXCEPT !.sharedOwners = @ - 1] /\ Go(t, "handOver")
       ELSE /\ word' = [word EXCEPT !.sharedOwners = @ - 1,
                                    !.owned = word.sharedOwners > 1]
            /\ Go(t, "idle")
  /\ UNCHANGED <<handle, open, semaphore, want, release>>

\* The semaphore is released after the word.
NtReleaseSemaphore(t) ==
  /\ pc[t] \in {"handOver", "wakeShared"}
  /\ semaphore' = IF pc[t] = "handOver"
                    THEN [semaphore EXCEPT !["exclusive"] = @ + 1]
                    ELSE [semaphore EXCEPT !["shared"] = @ + release[t]]
  /\ release' = [release EXCEPT ![t] = 0]
  /\ Go(t, "idle")
  /\ UNCHANGED <<word, handle, open, want>>

\* PhDeleteFastLock closes the events of a lock that is not in use, which may
\* then be initialized again.
PhDeleteFastLock ==
  /\ \A t \in Thread : pc[t] = "idle"
  /\ open' = [k \in Kind |-> open[k] - handle[k]]
  /\ handle' = [k \in Kind |-> 0]
  /\ UNCHANGED <<word, semaphore, pc, want, release>>

-----------------------------------------------------------------------------
\* PhInitializeFastLock.
Init ==
  /\ word = [owned |-> FALSE, waking |-> FALSE, sharedOwners |-> 0,
             sharedWaiters |-> 0, exclusiveWaiters |-> 0]
  /\ handle = [k \in Kind |-> 0]
  /\ open = [k \in Kind |-> 0]
  /\ semaphore = [k \in Kind |-> 0]
  /\ pc = [t \in Thread |-> "idle"]
  /\ want = [t \in Thread |-> "shared"]
  /\ release = [t \in Thread |-> 0]
  /\ failed = FALSE

Intact == ~failed /\ UNCHANGED failed

Start(t) == Intact /\ \E mode \in Kind : Ask(t, mode) \/ TryAcquire(t, mode)

\* The rest of what a thread does, which includes giving the lock back.
Step(t) ==
  /\ Intact
  /\ \/ Acquire(t)
     \/ NtCreateSemaphore(t)
     \/ PhpEnsureEventCreated(t)
     \/ Wait(t)
     \/ NtWaitForSingleObject(t)
     \/ TakeOver(t)
     \/ PhfReleaseFastLockExclusive(t)
     \/ PhfReleaseFastLockShared(t)
     \/ NtReleaseSemaphore(t)

Next ==
  \/ \E t \in Thread : Start(t) \/ Step(t) \/ NtCreateSemaphoreFails(t)
  \/ Intact /\ PhDeleteFastLock

Spec == Init /\ [][Next]_vars

\* Threads run, and an owner gives the lock back.  Nobody has to ask for it.
FairSpec == Spec /\ \A t \in Thread : WF_vars(Step(t))

-----------------------------------------------------------------------------
(***************************************************************************)
(* Properties.                                                             *)
(***************************************************************************)

Count == 0 .. MaxCount

\* The types of the state.  In particular no counter of the word carries into
\* the next one, nor borrows from it.
TypeOK ==
  /\ word \in [owned : BOOLEAN, waking : BOOLEAN, sharedOwners : Count,
               sharedWaiters : Count, exclusiveWaiters : Count]
  /\ handle \in [Kind -> {0, 1}]
  /\ open \in [Kind -> Nat]
  /\ semaphore \in [Kind -> Count]
  /\ pc \in [Thread -> {"idle", "ask", "created", "wait", "woken", "owns",
                        "handOver", "wakeShared"}]
  /\ want \in [Thread -> Kind]
  /\ release \in [Thread -> Count]
  /\ failed \in BOOLEAN

At(place) == {t \in Thread : pc[t] = place}

\* The events made on demand are not leaked: what is open is what the lock
\* holds and what a thread is about to store or close.
EventsAreKept ==
  \A k \in Kind :
    open[k] = handle[k] + Cardinality({t \in At("created") : want[t] = k})

\* The right to wake is used once: the waking bit stands for one thread that
\* will release the exclusive event, one count in it, or one thread that the
\* count has let through, and the event exists when it is released.
WakingIsOneThread ==
  /\ Cardinality(At("handOver")) + semaphore["exclusive"] + Cardinality(At("woken"))
       = IF word.waking THEN 1 ELSE 0
  /\ At("handOver") # {} => handle["exclusive"] = 1
  /\ At("wakeShared") # {} => handle["shared"] = 1

\* The packed word and the two events agree with what the threads are doing: no
\* counter carries into its neighbour, no event is leaked by the race to create
\* it, and the waking bit is one thread.
WordInv == TypeOK /\ EventsAreKept /\ WakingIsOneThread

\* What a thread has to do with the lock, seen from outside.
StateOf(at, mode) ==
  CASE at = "owns" -> mode
    [] at \in {"idle", "handOver", "wakeShared"} -> "idle"
    [] OTHER -> IF mode = "exclusive" THEN "asksExclusive" ELSE "asksShared"

State == [t \in Thread |-> StateOf(pc[t], want[t])]

\* The lock is a reader/writer lock.
Lock == INSTANCE ReaderWriterLock WITH state <- State

LockSpec == Lock!Spec

\* Writers may keep readers waiting, and the semaphores may favour a thread for
\* ever; once nobody asks any more, every thread that has asked gets the lock,
\* unless a semaphore could not be created.
EveryAskIsGranted ==
  <>[][\A t \in Thread : ~Start(t)]_vars =>
    \A t \in Thread : pc[t] \in {"ask", "created", "wait", "woken"} ~>
                         pc[t] = "owns" \/ failed

=============================================================================
