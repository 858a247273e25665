------------------------------- MODULE QueuedLock -------------------------------
(***************************************************************************)
(* The queued lock of the support library (phlib/queuedlock.c with the     *)
(* inline functions of phlib/include/queuedlock.h), the lock the service   *)
(* takes around every use of the scan engine.                              *)
(*                                                                         *)
(* The lock is one word.  A thread that has to wait links a wait block on  *)
(* its own stack in front of the list the word points to; whoever sets the *)
(* traversing bit may walk the list, and wakes from its far end.  Every    *)
(* interlocked access of the word is a step of its own, and so is every    *)
(* block visited in a walk.  The keyed event is external: a release waits  *)
(* for the thread that sleeps on the block.                                *)
(*                                                                         *)
(* The slow paths start from a fresh reading of the word.  The code goes   *)
(* into them with the value it read last, which makes no difference: a     *)
(* compare-exchange from a stale value fails and reads the word.           *)
(***************************************************************************)
EXTENDS Naturals, FiniteSets

CONSTANTS
  Thread,   \* threads, and the wait block each of them has on its stack
  Writer,   \* the threads that ask in exclusive mode
  Reader,   \* the threads that ask in shared mode
  None      \* NULL

ASSUME ThreadsAssumption ==
  /\ IsFiniteSet(Thread)
  /\ Writer \subseteq Thread /\ Reader \subseteq Thread
  /\ None \notin Thread

VARIABLES
  word,     \* QueuedLock->Value
  block,    \* the wait block of a thread, NoBlock while it is not waiting
  pc,       \* where a thread is
  want,     \* what a thread is doing it for: "exclusive", "shared" or "free"
  value,    \* the local copy of the word
  cur       \* the local waitBlock

vars == <<word, block, pc, want, value, cur>>

(***************************************************************************)
(* The word.  "head" is the first wait block and "trav" and "multi" mean   *)
(* something only with waiters, "shared" is the number of shared owners    *)
(* without waiters.                                                        *)
(***************************************************************************)
Free == [owned |-> FALSE, waiters |-> FALSE, trav |-> FALSE, multi |-> FALSE,
         shared |-> 0, head |-> None]

NoBlock == [next |-> None, prev |-> None, last |-> None, owners |-> 0,
            exclusive |-> FALSE, spinning |-> FALSE, used |-> FALSE]

Go(t, to) == pc' = [pc EXCEPT ![t] = to]

\* InterlockedCompareExchange from the thread's copy of the word.
Swapped(t, new) == word = value[t] /\ word' = new

\* The word was changed: the thread goes on with what it is now.
Stale(t) == word # value[t] /\ UNCHANGED word

Locals(t, v, b) ==
  /\ value' = [value EXCEPT ![t] = v]
  /\ cur' = [cur EXCEPT ![t] = b]

\* A function returns, and its locals are gone.
Leave(t, to) == Go(t, to) /\ Locals(t, Free, None)

\* A thread is done with the list: an acquirer blocks on its own wait block, a
\* releaser returns.
Return(t) == Leave(t, IF want[t] = "free" THEN "idle" ELSE "block")

-----------------------------------------------------------------------------
(***************************************************************************)
(* Walks over the list, and waking.                                        *)
(***************************************************************************)

\* PhpOptimizeQueuedLockListEx and PhpPrepareToWakeQueuedLock look at a value
\* of the word: the owner of the traversing bit sets the back links while the
\* lock is owned, and wakes once it is not.
StartWake(t, v) ==
  /\ Locals(t, v, v.head)
  /\ Go(t, IF v.owned THEN "giveUp" ELSE "seek")

StartOptimize(t, v) ==
  IF v.owned
    THEN Locals(t, v, v.head) /\ Go(t, "optimize")
    ELSE StartWake(t, v)

\* One step of a walk towards the last block, which sets the back link.
Advance(t) ==
  LET next == block[cur[t]].next IN
  /\ block[cur[t]].last = None
  /\ block' = [block EXCEPT ![next].prev = cur[t]]
  /\ cur' = [cur EXCEPT ![t] = next]

\* The optimizing walk ends by saving the last block in the first one.
PhpOptimizeQueuedLockListEx(t) ==
  /\ pc[t] = "optimize"
  /\ \/ Advance(t) /\ UNCHANGED pc
     \/ /\ block[cur[t]].last # None
        /\ block' = [block EXCEPT ![value[t].head].last = block[cur[t]].last]
        /\ Go(t, "optimized")
        /\ UNCHANGED cur
  /\ UNCHANGED <<word, want, value>>

\* The traversing bit is given up, unless someone pushed or released.
FinishOptimize(t) ==
  /\ pc[t] = "optimized"
  /\ \/ Swapped(t, [value[t] EXCEPT !.trav = FALSE]) /\ Return(t)
     \/ Stale(t) /\ StartOptimize(t, word)
  /\ UNCHANGED <<block, want>>

\* The lock is owned again, so its owner will wake: the bit is cleared.
GiveUpWake(t) ==
  /\ pc[t] = "giveUp"
  /\ \/ Swapped(t, [value[t] EXCEPT !.trav = FALSE]) /\ Return(t)
     \/ Stale(t) /\ StartWake(t, word)
  /\ UNCHANGED <<block, want>>

\* The walk to the last block, the first thread that came to wait.
SeekLast(t) ==
  /\ pc[t] = "seek"
  /\ \/ Advance(t) /\ UNCHANGED pc
     \/ /\ block[cur[t]].last # None
        /\ cur' = [cur EXCEPT ![t] = block[cur[t]].last]
        /\ Go(t, "take")
        /\ UNCHANGED block
  /\ UNCHANGED <<word, want, value>>

\* Mutant: the link to the other waiters is left in the block.
PhpPrepareToWakeQueuedLock_chain(t) ==
  LET b == cur[t] IN
  /\ pc[t] = "take"
  /\ IF block[b].exclusive /\ block[b].prev # None
       THEN /\ block' = [block EXCEPT ![value[t].head].last = block[b].prev]
            /\ Go(t, "unlinked")
            /\ UNCHANGED <<word, value, cur>>
       ELSE /\ \/ Swapped(t, Free) /\ Go(t, "wake") /\ UNCHANGED <<value, cur>>
               \/ Stale(t) /\ StartWake(t, word)
            /\ UNCHANGED block
  /\ UNCHANGED want

\* An exclusive waiter with others before it is unlinked alone.  Otherwise the
\* whole list is taken off the word.
PhpPrepareToWakeQueuedLock(t) ==
  LET b == cur[t] IN
  /\ pc[t] = "take"
  /\ IF block[b].exclusive /\ block[b].prev # None
       THEN /\ block' = [block EXCEPT ![value[t].head].last = block[b].prev,
                                      ![b].prev = None]
            /\ Go(t, "unlinked")
            /\ UNCHANGED <<word, value, cur>>
       ELSE /\ \/ Swapped(t, Free) /\ Go(t, "wake") /\ UNCHANGED <<value, cur>>
               \/ Stale(t) /\ StartWake(t, word)
            /\ UNCHANGED block
  /\ UNCHANGED want

\* InterlockedExchangeAdd takes the traversing bit away.
ClearTraversing(t) ==
  /\ pc[t] = "unlinked"
  /\ word' = [word EXCEPT !.trav = FALSE]
  /\ Go(t, "wake")
  /\ UNCHANGED <<block, want, value, cur>>

\* The next block to wake is read before the thread of this one may leave.
NextToWake(t) ==
  LET p == block[cur[t]].prev IN
  IF p = None THEN Return(t) ELSE Go(t, "wake") /\ Locals(t, value[t], p)

\* A thread that still spins sees the bit, one that sleeps has to be signalled.
PhpUnblockQueuedWaitBlock(t) ==
  /\ pc[t] = "wake"
  /\ IF block[cur[t]].spinning
       THEN /\ block' = [block EXCEPT ![cur[t]].spinning = FALSE]
            /\ NextToWake(t)
       ELSE /\ Go(t, "signal")
            /\ UNCHANGED <<block, value, cur>>
  /\ UNCHANGED <<word, want>>

\* NtReleaseKeyedEvent meets the thread that sleeps on the block (external).
NtReleaseKeyedEvent(t) ==
  LET b == cur[t]
      p == block[b].prev IN
  /\ pc[t] = "signal" /\ pc[b] = "sleep"
  /\ block' = [block EXCEPT ![b] = NoBlock]
  /\ value' = [value EXCEPT ![b] = word, ![t] = IF p = None THEN Free ELSE @]
  /\ cur' = [cur EXCEPT ![t] = p]
  /\ pc' = [pc EXCEPT ![b] = "acquire",
                      ![t] = CASE p # None -> "wake"
                               [] p = None /\ want[t] = "free" -> "idle"
                               [] OTHER -> "block"]
  /\ UNCHANGED <<word, want>>

-----------------------------------------------------------------------------
(***************************************************************************)
(* Acquiring.                                                              *)
(***************************************************************************)

\* InterlockedBitTestAndSet of the owned bit, whoever is waiting.
PhAcquireQueuedLockExclusive(t) ==
  /\ pc[t] = "idle"
  /\ want' = [want EXCEPT ![t] = "exclusive"]
  /\ IF ~word.owned
       THEN /\ word' = [word EXCEPT !.owned = TRUE]
            /\ Go(t, "owns")
            /\ UNCHANGED value
       ELSE /\ value' = [value EXCEPT ![t] = word]
            /\ Go(t, "acquire")
            /\ UNCHANGED word
  /\ UNCHANGED <<block, cur>>

\* The same, or nothing.
PhTryAcquireQueuedLockExclusive(t) ==
  /\ pc[t] = "idle" /\ ~word.owned
  /\ PhAcquireQueuedLockExclusive(t)

PhAcquireQueuedLockShared(t) ==
  /\ pc[t] = "idle"
  /\ want' = [want EXCEPT ![t] = "shared"]
  /\ IF word = Free
       THEN /\ word' = [Free EXCEPT !.owned = TRUE, !.shared = 1]
            /\ Go(t, "owns")
            /\ UNCHANGED value
       ELSE /\ value' = [value EXCEPT ![t] = word]
            /\ Go(t, "acquire")
            /\ UNCHANGED word
  /\ UNCHANGED <<block, cur>>

\* Whether a thread may take the lock as its value says.
MayTake(t) ==
  IF want[t] = "exclusive"
    THEN ~value[t].owned
    ELSE ~value[t].waiters /\ (value[t].owned => value[t].shared > 0)

\* What PhfAcquireQueuedLockExclusive and PhfAcquireQueuedLockShared take.
Taken(t) ==
  IF want[t] = "exclusive"
    THEN [value[t] EXCEPT !.owned = TRUE]
    ELSE [value[t] EXCEPT !.owned = TRUE, !.shared = @ + 1]

AcquireSlow(t) ==
  /\ pc[t] = "acquire" /\ MayTake(t)
  /\ \/ Swapped(t, Taken(t)) /\ Leave(t, "owns")
     \/ Stale(t) /\ Locals(t, word, None) /\ UNCHANGED pc
  /\ UNCHANGED <<block, want>>

\* The wait block of the first waiter keeps the number of shared owners, which
\* the word has no more room for.
WaitBlock(t) ==
  LET first == ~value[t].waiters IN
  [next      |-> value[t].head,
   prev      |-> None,
   last      |-> IF first THEN t ELSE None,
   owners    |-> IF first /\ want[t] = "exclusive" THEN value[t].shared ELSE 0,
   exclusive |-> want[t] = "exclusive",
   spinning  |-> TRUE,
   used      |-> TRUE]

\* Mutant: several shared owners are taken for one.
Pushed_single(t) ==
  [owned |-> IF value[t].waiters THEN value[t].owned ELSE TRUE,
   waiters |-> TRUE, trav |-> value[t].waiters,
   multi |-> FALSE, shared |-> 0, head |-> t]

\* The word with the block pushed; the later waiters set the traversing bit.
Pushed(t) ==
  [owned |-> IF value[t].waiters THEN value[t].owned ELSE TRUE,
   waiters |-> TRUE, trav |-> value[t].waiters,
   multi |-> value[t].multi \/ value[t].shared > 1, shared |-> 0, head |-> t]

\* Mutant: every later waiter optimizes the list.
PhpPushQueuedWaitBlock_eager(t) ==
  /\ pc[t] = "acquire" /\ ~MayTake(t)
  /\ \/ /\ Swapped(t, Pushed(t))
        /\ block' = [block EXCEPT ![t] = WaitBlock(t)]
        /\ IF value[t].waiters THEN StartOptimize(t, Pushed(t)) ELSE Leave(t, "block")
     \/ Stale(t) /\ Locals(t, word, None) /\ UNCHANGED <<block, pc>>
  /\ UNCHANGED want

\* Whoever sets the traversing bit optimizes the list before it blocks.
PhpPushQueuedWaitBlock(t) ==
  /\ pc[t] = "acquire" /\ ~MayTake(t)
  /\ \/ /\ Swapped(t, Pushed(t))
        /\ block' = [block EXCEPT ![t] = WaitBlock(t)]
        /\ IF value[t].waiters /\ ~value[t].trav
             THEN StartOptimize(t, Pushed(t))
             ELSE Leave(t, "block")
     \/ Stale(t) /\ Locals(t, word, None) /\ UNCHANGED <<block, pc>>
  /\ UNCHANGED want

\* PhpBlockOnQueuedWaitBlock: the spin ends because the bit was cleared, or the
\* thread clears it and goes to sleep on the keyed event.  The code goes on with
\* the value from before its push, which the next compare-exchange makes current;
\* here the word is read at once.
PhpBlockOnQueuedWaitBlock(t) ==
  /\ pc[t] = "block"
  /\ \/ /\ ~block[t].spinning
        /\ block' = [block EXCEPT ![t] = NoBlock]
        /\ Locals(t, word, None)
        /\ Go(t, "acquire")
     \/ /\ block[t].spinning
        /\ block' = [block EXCEPT ![t].spinning = FALSE]
        /\ Go(t, "sleep")
        /\ UNCHANGED <<value, cur>>
  /\ UNCHANGED <<word, want>>

-----------------------------------------------------------------------------
(***************************************************************************)
(* Releasing.                                                              *)
(***************************************************************************)

\* InterlockedExchangeAdd clears the owned bit first.
PhReleaseQueuedLockExclusive(t) ==
  LET new == [word EXCEPT !.owned = FALSE] IN
  /\ pc[t] = "owns" /\ want[t] = "exclusive"
  /\ word' = new
  /\ want' = [want EXCEPT ![t] = "free"]
  /\ IF word.waiters /\ ~word.trav
       THEN Go(t, "released") /\ Locals(t, new, None)
       ELSE Leave(t, "idle")
  /\ UNCHANGED block

\* Then it wakes, unless the word has changed: whoever changed it will.
PhfWakeForReleaseQueuedLock(t) ==
  LET new == [value[t] EXCEPT !.trav = TRUE] IN
  /\ pc[t] = "released"
  /\ \/ Swapped(t, new) /\ StartWake(t, new)
     \/ Stale(t) /\ Leave(t, "idle")
  /\ UNCHANGED <<block, want>>

\* PhReleaseQueuedLockShared and, unless the thread is the one owner and nobody
\* waits, PhfReleaseQueuedLockShared.
PhReleaseQueuedLockShared(t) ==
  /\ pc[t] = "owns" /\ want[t] = "shared"
  /\ want' = [want EXCEPT ![t] = "free"]
  /\ IF word = [Free EXCEPT !.owned = TRUE, !.shared = 1]
       THEN word' = Free /\ Leave(t, "idle")
       ELSE UNCHANGED word /\ Go(t, "leave") /\ Locals(t, word, None)
  /\ UNCHANGED block

\* Without waiters the count is in the word.
PhfReleaseQueuedLockShared(t) ==
  LET v == value[t]
      new == IF v.shared > 1 THEN [v EXCEPT !.shared = @ - 1] ELSE Free IN
  /\ pc[t] = "leave"
  /\ \/ /\ ~v.waiters
        /\ \/ Swapped(t, new) /\ Leave(t, "idle")
           \/ Stale(t) /\ Locals(t, word, None) /\ UNCHANGED pc
     \/ /\ v.waiters
        /\ Go(t, IF v.multi THEN "find" ELSE "last")
        /\ Locals(t, v, v.head)
        /\ UNCHANGED word
  /\ UNCHANGED <<block, want>>

\* With waiters it is in the last wait block.
PhpFindLastQueuedWaitBlock(t) ==
  LET b == cur[t] IN
  /\ pc[t] = "find"
  /\ IF block[b].last # None
       THEN cur' = [cur EXCEPT ![t] = block[b].last] /\ Go(t, "count")
       ELSE cur' = [cur EXCEPT ![t] = block[b].next] /\ UNCHANGED pc
  /\ UNCHANGED <<word, block, want, value>>

DecrementSharedOwners(t) ==
  /\ pc[t] = "count"
  /\ block' = [block EXCEPT ![cur[t]].owners = @ - 1]
  /\ IF block[cur[t]].owners > 1
       THEN Leave(t, "idle")
       ELSE Go(t, "last") /\ UNCHANGED <<value, cur>>
  /\ UNCHANGED <<word, want>>

\* Mutant: the last shared owner leaves the waking to others.
ReleaseLastShared_quiet(t) ==
  LET new == [value[t] EXCEPT !.owned = FALSE, !.multi = FALSE] IN
  /\ pc[t] = "last"
  /\ \/ Swapped(t, new) /\ Leave(t, "idle")
     \/ Stale(t) /\ Locals(t, word, cur[t]) /\ UNCHANGED pc
  /\ UNCHANGED <<block, want>>

\* The last shared owner gives the lock up and wakes, unless the traversing
\* thread does.
ReleaseLastShared(t) ==
  LET new == [value[t] EXCEPT !.owned = FALSE, !.multi = FALSE, !.trav = TRUE] IN
  /\ pc[t] = "last"
  /\ \/ /\ Swapped(t, new)
        /\ IF value[t].trav THEN Leave(t, "idle") ELSE StartWake(t, new)
     \/ Stale(t) /\ Locals(t, word, cur[t]) /\ UNCHANGED pc
  /\ UNCHANGED <<block, want>>

-----------------------------------------------------------------------------
Init ==
  /\ word = Free
  /\ block = [t \in Thread |-> NoBlock]
  /\ pc = [t \in Thread |-> "idle"]
  /\ want = [t \in Thread |-> "free"]
  /\ value = [t \in Thread |-> Free]
  /\ cur = [t \in Thread |-> None]

\* A thread asks for the lock.
Start(t) ==
  \/ /\ t \in Writer
     /\ PhAcquireQueuedLockExclusive(t) \/ PhTryAcquireQueuedLockExclusive(t)
  \/ t \in Reader /\ PhAcquireQueuedLockShared(t)

\* The rest of what a thread does, which includes giving the lock back.
Step(t) ==
  \/ AcquireSlow(t)
  \/ PhpPushQueuedWaitBlock(t)
  \/ PhpBlockOnQueuedWaitBlock(t)
  \/ PhpOptimizeQueuedLockListEx(t)
  \/ FinishOptimize(t)
  \/ GiveUpWake(t)
  \/ SeekLast(t)
  \/ PhpPrepareToWakeQueuedLock(t)
  \/ ClearTraversing(t)
  \/ PhpUnblockQueuedWaitBlock(t)
  \/ NtReleaseKeyedEvent(t)
  \/ PhReleaseQueuedLockExclusive(t)
  \/ PhfWakeForReleaseQueuedLock(t)
  \/ PhReleaseQueuedLockShared(t)
  \/ PhfReleaseQueuedLockShared(t)
  \/ PhpFindLastQueuedWaitBlock(t)
  \/ DecrementSharedOwners(t)
  \/ ReleaseLastShared(t)

Next == \E t \in Thread : Start(t) \/ Step(t)

Spec == Init /\ [][Next]_vars

\* Threads run, and an owner gives the lock back.  Nobody has to ask for it.
FairSpec == Spec /\ \A t \in Thread : WF_vars(Step(t))

-----------------------------------------------------------------------------
(***************************************************************************)
(* Properties.                                                             *)
(***************************************************************************)

Word == [owned : BOOLEAN, waiters : BOOLEAN, trav : BOOLEAN, multi : BOOLEAN,
         shared : 0 .. Cardinality(Thread), head : Thread \cup {None}]

Block == [next : Thread \cup {None}, prev : Thread \cup {None},
          last : Thread \cup {None}, owners : 0 .. Cardinality(Thread),
          exclusive : BOOLEAN, spinning : BOOLEAN, used : BOOLEAN]

\* Where the owner of the traversing bit is.
Traversing == {"optimize", "optimized", "giveUp", "seek", "take", "unlinked"}

\* The types of the state.
TypeOK ==
  /\ word \in Word
  /\ block \in [Thread -> Block]
  /\ pc \in [Thread -> {"idle", "acquire", "block", "sleep", "owns", "released",
                        "leave", "find", "count", "last", "wake", "signal"}
                       \cup Traversing]
  /\ want \in [Thread -> {"exclusive", "shared", "free"}]
  /\ value \in [Thread -> Word]
  /\ cur \in [Thread -> Thread \cup {None}]

\* Only one thread may change the list: the traversing bit is set exactly while
\* one thread walks the list to change it, and, as PhpPrepareToWakeQueuedLock
\* asserts, waiters are not taken off while several shared owners, who may be
\* walking it too, have the lock.
TraversingBitIsHeld ==
  /\ Cardinality({t \in Thread : pc[t] \in Traversing}) = IF word.trav THEN 1 ELSE 0
  /\ \A t \in Thread : pc[t] \in {"giveUp", "seek", "take"} => ~value[t].multi

\* A thread that is about to wake a waiter, has just been woken, or is on its way
\* to the lock or the list.
Attends(t) ==
  \/ pc[t] \in {"acquire", "wake", "signal"}
  \/ pc[t] = "block" /\ ~block[t].spinning
  \/ pc[t] = "released" /\ value[t] = word

\* No waiter is forgotten: while others wait, and nobody owns the lock or changes
\* the list, some thread attends to it.  In particular, a release that does not
\* wake, as the word has changed under it, leaves that to whoever changed it.
WaitersAreServed ==
  word.waiters /\ ~word.owned /\ ~word.trav => \E t \in Thread : Attends(t)

\* The word and the blocks are what the functions take them for: counts of
\* shared owners that never fall below 0, one thread that changes the list, and
\* one that sees to the waiters.
ListInv == TypeOK /\ TraversingBitIsHeld /\ WaitersAreServed

\* Wait blocks are on the stacks of threads that wait: no thread visits,
\* changes or signals the block of a thread that has left.
BlockInUseIsAlive ==
  \A t \in Thread :
    /\ pc[t] \in {"optimize", "seek", "take", "wake", "signal", "find", "count"} =>
         cur[t] # None /\ block[cur[t]].used
    /\ pc[t] \in {"optimize", "take"} =>
         value[t].head # None /\ block[value[t].head].used

\* What a thread has to do with the lock, seen from outside.
State ==
  [t \in Thread |->
     CASE pc[t] = "owns" -> want[t]
       [] pc[t] \in {"leave", "find", "count", "last"} -> "shared"
       [] pc[t] # "owns" /\ want[t] = "exclusive" -> "asksExclusive"
       [] pc[t] # "owns" /\ want[t] = "shared" -> "asksShared"
       [] OTHER -> "idle"]

\* The lock is a reader/writer lock.
Lock == INSTANCE ReaderWriterLock WITH state <- State

LockSpec == Lock!Spec

\* Later arrivals may overtake a waiter for ever; once nobody asks any more,
\* every thread that has asked gets the lock.
EveryAskIsGranted ==
  <>[][\A t \in Thread : ~Start(t)]_vars =>
    \A t \in Thread : want[t] # "free" /\ pc[t] # "owns" ~> pc[t] = "owns"

=============================================================================
