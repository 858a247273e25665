---------------------------- MODULE QueuedLockProofs ----------------------------
(***************************************************************************)
(* The queued lock is a reader/writer lock, its list of wait blocks has    *)
(* one thread that changes it and only blocks of threads that wait, for    *)
(* any finite number of threads.                                           *)
(***************************************************************************)
EXTENDS QueuedLock, Integers, FiniteSetTheorems, TLAPS

\* The threads that own the lock shared and are counted, in the word or in the
\* last wait block; the one that has counted itself out as the last of them;
\* and the threads that own the lock exclusively.
Counted == {t \in Thread : \/ pc[t] = "owns" /\ want[t] = "shared"
                           \/ pc[t] \in {"leave", "find", "count"}}
Leaving == {t \in Thread : pc[t] = "last"}
Alone   == {t \in Thread : pc[t] = "owns" /\ want[t] = "exclusive"}
Owners  == Alone \cup Counted \cup Leaving

\* The places of a thread that changes the list, or wakes: one that has pushed
\* its block is still in a list while it is there.
Working == Traversing \cup {"wake", "signal"}

\* Those at which a thread has taken blocks off the list to wake their threads.
Waking == {"unlinked", "wake", "signal"}

-----------------------------------------------------------------------------
(***************************************************************************)
(* The inductive invariant.  The list is described by ghosts: the set "Q"  *)
(* of the blocks in it, a number "N" for each block, by one greater than   *)
(* that of the block pushed before it, the number "lo" of the last block   *)
(* and the number "mark" of the first block whose pointer to the last one  *)
(* is set.  "H" names for a block that was taken off the list the thread   *)
(* that will wake it.                                                      *)
(***************************************************************************)

\* What a thread is doing, and when it has a block.
PlaceInv ==
  \A t \in Thread :
    /\ pc[t] \in {"acquire", "owns", "block", "sleep"} => want[t] # "free"
    /\ pc[t] \in {"idle", "released", "leave", "find", "count", "last"} => want[t] = "free"
    /\ block[t].used <=> \/ pc[t] \in {"block", "sleep"}
                         \/ pc[t] \in Working /\ want[t] # "free"

\* The owned bit is set while there are owners, an exclusive owner is alone, and
\* so is the last shared one.
OwnerInv ==
  /\ word.owned <=> Owners # {}
  /\ \A s \in Alone, t \in Owners : s = t
  /\ \A s \in Leaving, t \in Counted \cup Leaving : s = t

\* What the fields of the word mean, and the copies of it.
WordInv ==
  /\ ~word.waiters => /\ ~word.trav /\ ~word.multi /\ word.head = None
                      /\ word.shared = Cardinality(Counted)
  /\ word.waiters => word.shared = 0
  /\ word.multi => word.waiters /\ word.owned /\ Alone = {}
  /\ word.waiters /\ ~word.multi => \A s, t \in Counted \cup Leaving : s = t
  /\ \A t \in Thread :
       /\ pc[t] \in {"find", "count"} => word.multi
       /\ pc[t] = "last" => word.waiters
       /\ pc[t] = "released" => /\ ~value[t].owned /\ value[t].waiters
                                /\ ~value[t].trav /\ ~value[t].multi

\* The list from the head to the last block, as far as it is linked.
ListLinks(Q, N, lo, mark) ==
  /\ word.waiters <=> Q # {}
  /\ word.waiters => word.head \in Q /\ lo <= mark /\ mark <= N[word.head]
  /\ \A b \in Q : lo <= N[b] /\ N[b] <= N[word.head]
  /\ \A b, c \in Q : N[b] = N[c] => b = c
  /\ \A b \in Q : N[b] > lo => block[b].next \in Q /\ N[block[b].next] = N[b] - 1
  /\ \A b \in Q : block[b].prev # None =>
       block[b].prev \in Q /\ N[block[b].prev] = N[b] + 1
  /\ \A b \in Q : N[b] > mark => block[b].last = None
  /\ \A b \in Q : N[b] = mark => block[b].last \in Q /\ N[block[b].last] = lo
  /\ \A b \in Q : N[b] < mark => block[b].prev # None

\* With several shared owners the last block is the first that was pushed, and
\* has their number.
MultiInv(Q, N, lo) ==
  word.multi =>
    \A b \in Q :
      /\ block[b].last = None => N[b] > lo
      /\ block[b].last # None => block[b].last \in Q /\ N[block[b].last] = lo
      /\ N[b] = lo => block[b].owners = Cardinality(Counted)

\* What a shared owner has read of the list is still in it.
ReadInv(Q, N, lo) ==
  \A t \in Thread :
    /\ pc[t] = "leave" /\ value[t].waiters =>
         word.waiters /\ value[t].multi = word.multi /\ value[t].head \in Q
    /\ pc[t] \in {"find", "count"} => cur[t] \in Q
    /\ pc[t] = "count" => N[cur[t]] = lo

\* A thread waits to be woken while its block is in the list or with a waker.
WaitInv(Q, H) ==
  \A b \in Thread :
    /\ b \in Q \/ H[b] # None <=>
         block[b].used /\ (block[b].spinning \/ pc[b] = "sleep")
    /\ b \in Q => H[b] = None
    /\ pc[b] = "sleep" => ~block[b].spinning

\* What the owner of the traversing bit has done, and what it may count on.
TraverserInv(t, Q, N, lo, mark) ==
  /\ word.waiters
  /\ pc[t] # "unlinked" =>
       /\ value[t].waiters /\ value[t].trav /\ value[t].head \in Q
       /\ mark <= N[value[t].head]
       /\ \A b \in Q : N[b] >= N[value[t].head] => block[b].prev = None
  /\ pc[t] \in {"optimize", "seek"} =>
       /\ cur[t] \in Q /\ mark <= N[cur[t]] /\ N[cur[t]] <= N[value[t].head]
       /\ \A b \in Q : N[cur[t]] <= N[b] /\ N[b] < N[value[t].head] => block[b].prev # None
  /\ pc[t] = "take" =>
       /\ cur[t] \in Q /\ N[cur[t]] = lo
       /\ \A b \in Q : N[b] < N[value[t].head] => block[b].prev # None
  /\ pc[t] \in {"giveUp", "seek", "take", "unlinked"} =>
       ~value[t].multi /\ Counted \cup Leaving = {}
  /\ pc[t] \in {"seek", "take"} => ~value[t].owned

\* PH_QUEUED_LOCK_TRAVERSING is an exclusive right to work on the list.
TravInv(Q, N, lo, mark) ==
  /\ word.trav <=> \E t \in Thread : pc[t] \in Traversing
  /\ \A s, t \in Thread : pc[s] \in Traversing /\ pc[t] \in Traversing => s = t
  /\ \A t \in Thread : pc[t] \in Traversing => TraverserInv(t, Q, N, lo, mark)

\* The blocks that were taken off the list are linked from the next one to wake
\* to the last one to wake, and are with one thread.
WakeInv(H, N) ==
  /\ \A t \in Thread : pc[t] \in Waking =>
       /\ cur[t] \in Thread /\ H[cur[t]] = t
       /\ pc[t] = "unlinked" => block[cur[t]].prev = None
       /\ pc[t] = "signal" => ~block[cur[t]].spinning
  /\ \A b \in Thread : H[b] # None =>
       /\ pc[H[b]] \in Waking
       /\ N[cur[H[b]]] <= N[b]
       /\ block[b].prev # None =>
            block[b].prev \in Thread /\ H[block[b].prev] = H[b] /\ N[block[b].prev] = N[b] + 1
       /\ block[b].prev = None => \A c \in Thread : H[c] = H[b] => N[c] <= N[b]
  /\ \A b, c \in Thread : H[b] # None /\ H[b] = H[c] /\ N[b] = N[c] => b = c

\* The parts without ghosts, and the parts that describe the list.
BaseInv == TypeOK /\ PlaceInv /\ OwnerInv /\ WordInv

GhostInv(Q, H, N, lo, mark) ==
  /\ ListLinks(Q, N, lo, mark)
  /\ MultiInv(Q, N, lo)
  /\ ReadInv(Q, N, lo)
  /\ WaitInv(Q, H)
  /\ TravInv(Q, N, lo, mark)
  /\ WakeInv(H, N)

\* The invariant: some list, of the blocks in use, fits the word and the places.
ListIInv ==
  BaseInv /\ \E Q \in SUBSET Thread, H \in [Thread -> Thread \cup {None}],
                N \in [Thread -> Int], lo \in Int, mark \in Int :
               GhostInv(Q, H, N, lo, mark)

-----------------------------------------------------------------------------
(***************************************************************************)
(* Counting owners, and the fields of a wait block.                        *)
(***************************************************************************)

\* Sets of threads are finite.
LEMMA ThreadsAreCounted ==
  ASSUME NEW S, S \subseteq Thread
  PROVE  IsFiniteSet(S) /\ Cardinality(S) \in 0 .. Cardinality(Thread)
<1>1. IsFiniteSet(S) /\ Cardinality(S) <= Cardinality(Thread) /\ Cardinality(S) \in Nat
  BY ThreadsAssumption, FS_Subset, FS_CardinalityType
<1>2. Cardinality(Thread) \in Nat
  BY ThreadsAssumption, FS_CardinalityType
<1> QED
  BY <1>1, <1>2

\* An owner that comes is counted,
LEMMA OneMore ==
  ASSUME NEW S, S \subseteq Thread, NEW t \in Thread, t \notin S, NEW R, R = S \cup {t}
  PROVE  Cardinality(R) = Cardinality(S) + 1
  BY ThreadsAreCounted, FS_AddElement

\* and one that goes was counted.
LEMMA OneLess ==
  ASSUME NEW S, S \subseteq Thread, NEW t \in S, NEW R, R = S \ {t}
  PROVE  Cardinality(R) = Cardinality(S) - 1 /\ Cardinality(S) > 0
<1>1. Cardinality(R) = Cardinality(S) - 1
  BY ThreadsAreCounted, FS_RemoveElement
<1>2. Cardinality(R) \in 0 .. Cardinality(Thread) /\ Cardinality(S) \in 0 .. Cardinality(Thread)
  BY ThreadsAreCounted, R \subseteq Thread
<1>3. Cardinality(Thread) \in Nat
  BY ThreadsAssumption, FS_CardinalityType
<1> QED
  BY <1>1, <1>2, <1>3

\* No owners, or one, or more.
LEMMA CountedOwners ==
  /\ Counted \subseteq Thread /\ Cardinality(Counted) \in 0 .. Cardinality(Thread)
  /\ Cardinality(Thread) \in Nat
  /\ Cardinality(Counted) = 0 <=> Counted = {}
  /\ Cardinality(Counted) <= 1 => \A s, t \in Counted : s = t
<1>1. Counted \subseteq Thread
  BY DEF Counted
<1>2. IsFiniteSet(Counted) /\ Cardinality(Counted) \in 0 .. Cardinality(Thread)
  BY <1>1, ThreadsAreCounted
<1>3. Cardinality(Thread) \in Nat
  BY ThreadsAssumption, FS_CardinalityType
<1>4. Cardinality(Counted) = 0 <=> Counted = {}
  BY <1>2, FS_EmptySet
<1>5. ASSUME Cardinality(Counted) <= 1, NEW s \in Counted, NEW t \in Counted, s # t
      PROVE  FALSE
  <2>1. Cardinality(Counted \ {s}) = Cardinality(Counted) - 1
    BY <1>1, OneLess
  <2>2. IsFiniteSet(Counted \ {s}) /\ Cardinality(Counted \ {s}) \in 0 .. Cardinality(Thread)
    BY <1>1, ThreadsAreCounted
  <2>3. Cardinality(Counted \ {s}) = 0
    BY <1>2, <1>3, <1>5, <2>1, <2>2
  <2>4. Counted \ {s} = {}
    BY <2>2, <2>3, FS_EmptySet
  <2> QED
    BY <1>5, <2>4
<1> QED
  BY <1>1, <1>2, <1>3, <1>4, <1>5

\* Whether there are other shared owners.
LEMMA OthersLeft ==
  ASSUME NEW t \in Counted
  PROVE  Counted \ {t} = {} <=> Cardinality(Counted) <= 1
<1>1. Cardinality(Counted \ {t}) = Cardinality(Counted) - 1
  BY CountedOwners, OneLess
<1>2. Counted \ {t} = {} => Cardinality(Counted \ {t}) = 0
  BY FS_EmptySet
<1>3. Counted \ {t} = {} => Cardinality(Counted) <= 1
  BY <1>1, <1>2, CountedOwners
<1> QED
  BY <1>3, CountedOwners


\* A write to one field of a block leaves the others alone.
LEMMA SetPrev ==
  ASSUME NEW B \in [Thread -> Block], NEW x, NEW y, NEW C,
         C = [B EXCEPT ![x].prev = y]
  PROVE  \A b \in Thread :
           /\ C[b].prev = IF b = x THEN y ELSE B[b].prev
           /\ C[b].next = B[b].next /\ C[b].last = B[b].last /\ C[b].owners = B[b].owners
           /\ C[b].spinning = B[b].spinning /\ C[b].used = B[b].used
           /\ C[b].exclusive = B[b].exclusive
  BY DEF Block

\* It is the same with Last,
LEMMA SetLast ==
  ASSUME NEW B \in [Thread -> Block], NEW x, NEW y, NEW C,
         C = [B EXCEPT ![x].last = y]
  PROVE  \A b \in Thread :
           /\ C[b].last = IF b = x THEN y ELSE B[b].last
           /\ C[b].next = B[b].next /\ C[b].prev = B[b].prev /\ C[b].owners = B[b].owners
           /\ C[b].spinning = B[b].spinning /\ C[b].used = B[b].used
           /\ C[b].exclusive = B[b].exclusive
  BY DEF Block

\* with SharedOwners, which is counted down,
LEMMA SetOwners ==
  ASSUME NEW B \in [Thread -> Block], NEW x, NEW C,
         C = [B EXCEPT ![x].owners = @ - 1]
  PROVE  \A b \in Thread :
           /\ C[b].owners = IF b = x THEN B[b].owners - 1 ELSE B[b].owners
           /\ C[b].next = B[b].next /\ C[b].prev = B[b].prev /\ C[b].last = B[b].last
           /\ C[b].spinning = B[b].spinning /\ C[b].used = B[b].used
           /\ C[b].exclusive = B[b].exclusive
  BY DEF Block

\* and with PH_QUEUED_WAITER_SPINNING.
LEMMA SetSpinning ==
  ASSUME NEW B \in [Thread -> Block], NEW x, NEW y, NEW C,
         C = [B EXCEPT ![x].spinning = y]
  PROVE  \A b \in Thread :
           /\ C[b].spinning = IF b = x THEN y ELSE B[b].spinning
           /\ C[b].next = B[b].next /\ C[b].prev = B[b].prev /\ C[b].last = B[b].last
           /\ C[b].owners = B[b].owners /\ C[b].used = B[b].used
           /\ C[b].exclusive = B[b].exclusive
  BY DEF Block

-----------------------------------------------------------------------------
(***************************************************************************)
(* The parts without ghosts.                                               *)
(***************************************************************************)

\* What is used of TypeOK most.
LEMMA Types ==
  ASSUME TypeOK
  PROVE  /\ block \in [Thread -> Block] /\ word \in Word
         /\ pc \in [Thread -> {"idle", "acquire", "block", "sleep", "owns", "released",
                               "leave", "find", "count", "last", "wake", "signal"}
                              \cup Traversing]
         /\ want \in [Thread -> {"exclusive", "shared", "free"}]
         /\ value \in [Thread -> Word] /\ cur \in [Thread -> Thread \cup {None}]
         /\ None \notin Thread
  BY ThreadsAssumption DEF TypeOK


\* A step of a walk links back one block.
LEMMA AdvanceFields ==
  ASSUME TypeOK, NEW t, Advance(t)
  PROVE  \A b \in Thread :
           /\ block'[b].prev = IF b = block[cur[t]].next THEN cur[t] ELSE block[b].prev
           /\ block'[b].next = block[b].next /\ block'[b].last = block[b].last
           /\ block'[b].owners = block[b].owners /\ block'[b].used = block[b].used
           /\ block'[b].spinning = block[b].spinning
<1>1. block' = [block EXCEPT ![block[cur[t]].next].prev = cur[t]]
  BY DEF Advance
<1>2. block \in [Thread -> Block]
  BY Types
<1> QED
  BY <1>1, <1>2, SetPrev

\* The end of the optimizing walk.
LEMMA OptimizedFields ==
  ASSUME TypeOK, NEW t,
         block' = [block EXCEPT ![value[t].head].last = block[cur[t]].last]
  PROVE  \A b \in Thread :
           /\ block'[b].last = IF b = value[t].head THEN block[cur[t]].last ELSE block[b].last
           /\ block'[b].next = block[b].next /\ block'[b].prev = block[b].prev
           /\ block'[b].owners = block[b].owners /\ block'[b].used = block[b].used
           /\ block'[b].spinning = block[b].spinning
<1>1. block \in [Thread -> Block]
  BY Types
<1> QED
  BY <1>1, SetLast

\* The last block "x" is unlinked,
Cut(B, h, x, p) == [B EXCEPT ![h].last = p, ![x].prev = None]

\* and the first one "h" points to the one before it.
LEMMA CutLast ==
  ASSUME NEW B \in [Thread -> Block], NEW h, NEW x \in Thread, NEW p, NEW C,
         C = Cut(B, h, x, p)
  PROVE  \A b \in Thread :
           /\ C[b].last = IF b = h THEN p ELSE B[b].last
           /\ C[b].prev = IF b = x THEN None ELSE B[b].prev
           /\ C[b].next = B[b].next /\ C[b].owners = B[b].owners
           /\ C[b].used = B[b].used /\ C[b].spinning = B[b].spinning
<1> DEFINE D == [B EXCEPT ![h].last = p]
<1>1. \A b \in Thread :
        /\ D[b].last = IF b = h THEN p ELSE B[b].last
        /\ D[b].next = B[b].next /\ D[b].prev = B[b].prev /\ D[b].owners = B[b].owners
        /\ D[b].spinning = B[b].spinning /\ D[b].used = B[b].used
  BY SetLast
<1>2. DOMAIN D[x] = {"next", "prev", "last", "owners", "exclusive", "spinning", "used"}
  BY DEF Block
<1>3. C = [D EXCEPT ![x].prev = None] /\ D \in [Thread -> {D[b] : b \in Thread}]
  BY DEF Cut
<1> HIDE DEF D
<1>4. \A b \in Thread :
        /\ C[b].prev = IF b = x THEN None ELSE D[b].prev
        /\ C[b].next = D[b].next /\ C[b].last = D[b].last /\ C[b].owners = D[b].owners
        /\ C[b].spinning = D[b].spinning /\ C[b].used = D[b].used
  BY <1>2, <1>3
<1> QED
  BY <1>1, <1>4

\* What is left of the list is linked as before.
LEMMA UnlinkedFields ==
  ASSUME TypeOK, NEW t \in Thread, cur[t] \in Thread,
         block' = Cut(block, value[t].head, cur[t], block[cur[t]].prev)
  PROVE  \A b \in Thread :
           /\ block'[b].last = IF b = value[t].head THEN block[cur[t]].prev ELSE block[b].last
           /\ block'[b].prev = IF b = cur[t] THEN None ELSE block[b].prev
           /\ block'[b].next = block[b].next /\ block'[b].owners = block[b].owners
           /\ block'[b].used = block[b].used /\ block'[b].spinning = block[b].spinning
<1>1. block \in [Thread -> Block]
  BY Types
<1> QED
  BY <1>1, CutLast

\* Who goes on working on the list, or waking, still has the block it had.
LEMMA WorkGoesOn ==
  ASSUME PlaceInv, NEW t \in Thread, NEW to \in Working, pc[t] \in Working,
         \A s \in Thread : /\ pc'[s] = IF s = t THEN to ELSE pc[s]
                          /\ want'[s] = want[s] /\ block'[s].used = block[s].used
  PROVE  PlaceInv'
  BY DEF PlaceInv, Working, Traversing

\* A thread has a block from its push until it has been woken.
LEMMA PlaceStep ==
  TypeOK /\ PlaceInv /\ [Next]_vars => PlaceInv'
<1> SUFFICES ASSUME TypeOK, PlaceInv, [Next]_vars PROVE PlaceInv'
  OBVIOUS
<1> USE Types DEF PlaceInv, Block, Working, Traversing
<1>1. ASSUME NEW t \in Thread, PhAcquireQueuedLockExclusive(t) PROVE PlaceInv'
  BY <1>1 DEF PhAcquireQueuedLockExclusive, Go
<1>2. ASSUME NEW t \in Thread, PhTryAcquireQueuedLockExclusive(t) PROVE PlaceInv'
  BY <1>2 DEF PhTryAcquireQueuedLockExclusive, PhAcquireQueuedLockExclusive, Go
<1>3. ASSUME NEW t \in Thread, PhAcquireQueuedLockShared(t) PROVE PlaceInv'
  BY <1>3 DEF PhAcquireQueuedLockShared, Go
<1>4. ASSUME NEW t \in Thread, AcquireSlow(t) PROVE PlaceInv'
  BY <1>4 DEF AcquireSlow, Swapped, Stale, Leave, Locals, Go
<1>5. ASSUME NEW t \in Thread, PhpPushQueuedWaitBlock(t) PROVE PlaceInv'
  BY <1>5 DEF PhpPushQueuedWaitBlock, Swapped, Stale, Leave, Locals, Go,
     StartOptimize, StartWake, WaitBlock
<1>6. ASSUME NEW t \in Thread, PhpBlockOnQueuedWaitBlock(t) PROVE PlaceInv'
  BY <1>6 DEF PhpBlockOnQueuedWaitBlock, Locals, Go, NoBlock
<1>7. ASSUME NEW t \in Thread, PhpOptimizeQueuedLockListEx(t) PROVE PlaceInv'
  <2>1. CASE Advance(t) /\ UNCHANGED pc
    BY <1>7, <2>1, AdvanceFields DEF PhpOptimizeQueuedLockListEx
  <2>2. CASE ~(Advance(t) /\ UNCHANGED pc)
    BY <1>7, <2>2, OptimizedFields DEF PhpOptimizeQueuedLockListEx, Go
  <2> QED
    BY <2>1, <2>2
<1>8. ASSUME NEW t \in Thread, FinishOptimize(t) PROVE PlaceInv'
  BY <1>8 DEF FinishOptimize, Swapped, Stale, Return, Leave, Locals, Go,
     StartOptimize, StartWake
<1>9. ASSUME NEW t \in Thread, GiveUpWake(t) PROVE PlaceInv'
  BY <1>9 DEF GiveUpWake, Swapped, Stale, Return, Leave, Locals, Go, StartWake
<1>10. ASSUME NEW t \in Thread, SeekLast(t) PROVE PlaceInv'
  <2>1. CASE Advance(t) /\ UNCHANGED pc
    BY <1>10, <2>1, AdvanceFields DEF SeekLast
  <2>2. CASE ~(Advance(t) /\ UNCHANGED pc)
    <3>1. /\ pc[t] = "seek" /\ pc' = [pc EXCEPT ![t] = "take"]
          /\ want' = want /\ block' = block
      BY <1>10, <2>2 DEF SeekLast, Go
    <3>2. \A s \in Thread : /\ pc'[s] = IF s = t THEN "take" ELSE pc[s]
                           /\ want'[s] = want[s] /\ block'[s].used = block[s].used
      BY <3>1
    <3> QED
      BY <3>1, <3>2, WorkGoesOn
  <2> QED
    BY <2>1, <2>2
<1>11. ASSUME NEW t \in Thread, PhpPrepareToWakeQueuedLock(t) PROVE PlaceInv'
  <2>1. CASE block' = block
    BY <1>11, <2>1 DEF PhpPrepareToWakeQueuedLock, Swapped, Stale, Locals, Go,
       StartWake
  <2>2. CASE block' # block
    <3>1. /\ pc[t] = "take" /\ pc' = [pc EXCEPT ![t] = "unlinked"] /\ want' = want
          /\ block' = [block EXCEPT ![value[t].head].last = block[cur[t]].prev,
                                    ![cur[t]].prev = None]
      BY <1>11, <2>2 DEF PhpPrepareToWakeQueuedLock, Go
    <3>2. \A s \in Thread : /\ pc'[s] = IF s = t THEN "unlinked" ELSE pc[s]
                           /\ want'[s] = want[s] /\ block'[s].used = block[s].used
      BY <3>1
    <3> QED
      BY <3>1, <3>2, WorkGoesOn
  <2> QED
    BY <2>1, <2>2
<1>12. ASSUME NEW t \in Thread, ClearTraversing(t) PROVE PlaceInv'
  BY <1>12 DEF ClearTraversing, Go
<1>13. ASSUME NEW t \in Thread, PhpUnblockQueuedWaitBlock(t) PROVE PlaceInv'
  BY <1>13 DEF PhpUnblockQueuedWaitBlock, NextToWake, Return, Leave, Locals, Go
<1>14. ASSUME NEW t \in Thread, NtReleaseKeyedEvent(t) PROVE PlaceInv'
  BY <1>14 DEF NtReleaseKeyedEvent, NoBlock
<1>15. ASSUME NEW t \in Thread, PhReleaseQueuedLockExclusive(t) PROVE PlaceInv'
  BY <1>15 DEF PhReleaseQueuedLockExclusive, Leave, Locals, Go
<1>16. ASSUME NEW t \in Thread, PhfWakeForReleaseQueuedLock(t) PROVE PlaceInv'
  BY <1>16 DEF PhfWakeForReleaseQueuedLock, Swapped, Stale, Leave, Locals, Go,
     StartWake
<1>17. ASSUME NEW t \in Thread, PhReleaseQueuedLockShared(t) PROVE PlaceInv'
  BY <1>17 DEF PhReleaseQueuedLockShared, Leave, Locals, Go
<1>18. ASSUME NEW t \in Thread, PhfReleaseQueuedLockShared(t) PROVE PlaceInv'
  BY <1>18 DEF PhfReleaseQueuedLockShared, Swapped, Stale, Leave, Locals, Go
<1>19. ASSUME NEW t \in Thread, PhpFindLastQueuedWaitBlock(t) PROVE PlaceInv'
  BY <1>19 DEF PhpFindLastQueuedWaitBlock, Go
<1>20. ASSUME NEW t \in Thread, DecrementSharedOwners(t) PROVE PlaceInv'
  BY <1>20 DEF DecrementSharedOwners, Leave, Locals, Go
<1>21. ASSUME NEW t \in Thread, ReleaseLastShared(t) PROVE PlaceInv'
  BY <1>21 DEF ReleaseLastShared, Swapped, Stale, Leave, Locals, Go, StartWake
<1>22. CASE UNCHANGED vars
  BY <1>22 DEF vars
<1> QED
  BY <1>1, <1>2, <1>3, <1>4, <1>5, <1>6, <1>7, <1>8, <1>9, <1>10, <1>11, <1>12,
     <1>13, <1>14, <1>15, <1>16, <1>17, <1>18, <1>19, <1>20, <1>21, <1>22
     DEF Next, Start, Step
-----------------------------------------------------------------------------
(***************************************************************************)
(* What a step does to the owners and to the word.                         *)
(***************************************************************************)

\* What follows from the invariant without the ghosts.
Known ==
  /\ BaseInv /\ BlockInUseIsAlive
  /\ \A t \in Thread :
       /\ pc[t] = "leave" /\ value[t].waiters => word.waiters /\ value[t].multi = word.multi
       /\ pc[t] = "count" => block[cur[t]].owners = Cardinality(Counted)
       /\ pc[t] = "take" => ~value[t].owned

\* Nobody comes or goes; and the list has the same first block.
SameOwners == Counted' = Counted /\ Leaving' = Leaving /\ Alone' = Alone

SameList == word'.waiters = word.waiters /\ word'.head = word.head

\* Nobody comes or goes.
Stays ==
  /\ SameOwners /\ SameList
  /\ word'.owned = word.owned /\ word'.multi = word.multi /\ word'.shared = word.shared

\* A thread has pushed its wait block: the lock is owned, or others wait too.
Pushes(t) ==
  /\ SameOwners
  /\ word.waiters \/ word.owned
  /\ word'.waiters /\ word'.head = t
  /\ word'.owned = word.owned /\ word'.shared = 0
  /\ word'.multi <=> word.multi \/ word.shared > 1

\* A thread has taken the whole list.
TakesList ==
  /\ SameOwners
  /\ ~word.owned /\ word' = Free

\* A thread gets the lock exclusively,
TakesAlone(t) ==
  /\ ~word.owned
  /\ Alone' = Alone \cup {t} /\ Counted' = Counted /\ Leaving' = Leaving
  /\ SameList /\ word'.owned /\ word'.multi = word.multi /\ word'.shared = word.shared

\* or shared, which it cannot while others wait.
TakesShared(t) ==
  /\ ~word.waiters /\ Alone = {} /\ Leaving = {} /\ t \notin Counted
  /\ Alone' = Alone /\ Counted' = Counted \cup {t} /\ Leaving' = Leaving
  /\ SameList /\ word'.owned /\ word'.multi = word.multi /\ word'.shared = word.shared + 1

\* The exclusive owner has given the lock back.
LeavesAlone(t) ==
  /\ t \in Alone
  /\ Alone' = Alone \ {t} /\ Counted' = Counted /\ Leaving' = Leaving
  /\ SameList /\ ~word'.owned /\ word'.multi = word.multi /\ word'.shared = word.shared

\* A shared owner has left the lock, counted in the word,
LeavesShared(t) ==
  /\ ~word.waiters /\ t \in Counted
  /\ Alone' = Alone /\ Counted' = Counted \ {t} /\ Leaving' = Leaving
  /\ ~word'.waiters /\ word'.head = None /\ ~word'.multi
  /\ word'.shared = word.shared - 1 /\ (word'.owned <=> word.shared > 1)

\* or in the last block. The last one still has to give the lock back.
CountsOut(t) ==
  /\ word.waiters /\ t \in Counted
  /\ Alone' = Alone /\ Counted' = Counted \ {t}
  /\ \/ Leaving' = Leaving /\ Cardinality(Counted) > 1
     \/ Leaving' = Leaving \cup {t} /\ Counted = {t}
  /\ SameList /\ UNCHANGED word

\* And the last one does, whatever has been pushed in the meantime.
LeavesLast(t) ==
  /\ word.waiters /\ t \in Leaving
  /\ Alone' = Alone /\ Counted' = Counted /\ Leaving' = Leaving \ {t}
  /\ SameList /\ ~word'.owned /\ ~word'.multi /\ word'.shared = word.shared

\* What a step of one thread may do to the owners and to the word.
OwnersMove(t) ==
  /\ word'.trav => word'.waiters
  /\ \/ Stays \/ Pushes(t) \/ TakesList \/ TakesAlone(t) \/ TakesShared(t)
     \/ LeavesAlone(t) \/ LeavesShared(t) \/ CountsOut(t) \/ LeavesLast(t)

-----------------------------------------------------------------------------
OthersStand(t) == \A s \in Thread \ {t} : pc'[s] = pc[s] /\ want'[s] = want[s]

\* A thread that does not own the lock.
Outside(t) == pc[t] \notin {"owns", "leave", "find", "count", "last"}

\* The classes of owners change with the thread that makes the step.
LEMMA StaysOut ==
  ASSUME NEW t \in Thread, OthersStand(t), Outside(t), Outside(t)'
  PROVE  SameOwners
  BY DEF OthersStand, Outside, SameOwners, Alone, Counted, Leaving

\* An acquisition adds it to the class it asked for,
LEMMA ComesIn ==
  ASSUME NEW t \in Thread, OthersStand(t), Outside(t), pc'[t] = "owns"
  PROVE  /\ t \notin Owners /\ Leaving' = Leaving
         /\ want'[t] = "exclusive" => Alone' = Alone \cup {t} /\ Counted' = Counted
         /\ want'[t] = "shared" => Alone' = Alone /\ Counted' = Counted \cup {t}
  BY DEF OthersStand, Outside, Owners, Alone, Counted, Leaving

\* and a release takes it out of its class.
LEMMA GoesOut ==
  ASSUME NEW t \in Thread, OthersStand(t), Outside(t)'
  PROVE  /\ pc[t] = "owns" /\ want[t] = "exclusive" =>
              t \in Alone /\ Alone' = Alone \ {t} /\ Counted' = Counted /\ Leaving' = Leaving
         /\ (pc[t] = "owns" /\ want[t] = "shared") \/ pc[t] \in {"leave", "find", "count"} =>
              t \in Counted /\ Alone' = Alone /\ Counted' = Counted \ {t} /\ Leaving' = Leaving
         /\ pc[t] = "last" =>
              t \in Leaving /\ Alone' = Alone /\ Counted' = Counted /\ Leaving' = Leaving \ {t}
  BY DEF OthersStand, Outside, Alone, Counted, Leaving

\* The last of the counted owners has still to give the lock back.
LEMMA CountsLast ==
  ASSUME NEW t \in Thread, OthersStand(t), pc[t] \in {"leave", "count"}, pc'[t] = "last"
  PROVE  /\ t \in Counted /\ Counted' = Counted \ {t}
         /\ Leaving' = Leaving \cup {t} /\ Alone' = Alone
  BY DEF OthersStand, Alone, Counted, Leaving


\* Every step is one of these moves of the thread that makes it.
LEMMA OwnerMoves ==
  ASSUME Known, NEW t \in Thread, Start(t) \/ Step(t)
  PROVE  OwnersMove(t)
<1> USE Types DEF Known, BaseInv
<1>1. CASE PhAcquireQueuedLockExclusive(t)
  <2>1. CASE ~word.owned
    <3>1. OthersStand(t) /\ Outside(t) /\ pc'[t] = "owns" /\ want'[t] = "exclusive"
      BY <1>1, <2>1 DEF PhAcquireQueuedLockExclusive, Go, PlaceInv, Traversing,
         OthersStand, Outside
    <3>2. /\ t \notin Owners /\ Leaving' = Leaving
         /\ Alone' = Alone \cup {t} /\ Counted' = Counted
      BY <3>1, ComesIn
    <3>3. ~word.owned /\ word' = [word EXCEPT !.owned = TRUE]
      BY <1>1, <2>1 DEF PhAcquireQueuedLockExclusive, Go, WordInv
    <3> QED
      BY <3>2, <3>3 DEF OwnersMove, TakesAlone, SameList, Word, OwnerInv, WordInv
  <2>2. CASE word.owned
    <3>1. OthersStand(t) /\ Outside(t) /\ Outside(t)'
      BY <1>1, <2>2 DEF PhAcquireQueuedLockExclusive, Go, PlaceInv, Traversing,
         OthersStand, Outside
    <3>2. SameOwners
      BY <3>1, StaysOut
    <3>3. word' = word
      BY <1>1, <2>2 DEF PhAcquireQueuedLockExclusive, Go, WordInv
    <3> QED
      BY <3>2, <3>3 DEF OwnersMove, Stays, SameList, Word, WordInv
  <2> QED
    BY <2>1, <2>2
<1>3. CASE PhAcquireQueuedLockShared(t)
  <2>1. CASE word = Free
    <3>1. OthersStand(t) /\ Outside(t) /\ pc'[t] = "owns" /\ want'[t] = "shared"
      BY <1>3, <2>1 DEF PhAcquireQueuedLockShared, Go, PlaceInv, Traversing,
         OthersStand, Outside
    <3>2. /\ t \notin Owners /\ Leaving' = Leaving
         /\ Alone' = Alone /\ Counted' = Counted \cup {t}
      BY <3>1, ComesIn
    <3>3. ~word.owned /\ ~word.waiters /\ word' = [word EXCEPT !.owned = TRUE, !.shared = 1] /\ word.shared = 0
      BY <1>3, <2>1 DEF PhAcquireQueuedLockShared, Go, WordInv, Free
    <3> QED
      BY <3>2, <3>3 DEF OwnersMove, TakesShared, SameList, Word, OwnerInv, WordInv,
         Owners
  <2>2. CASE word # Free
    <3>1. OthersStand(t) /\ Outside(t) /\ Outside(t)'
      BY <1>3, <2>2 DEF PhAcquireQueuedLockShared, Go, PlaceInv, Traversing,
         OthersStand, Outside
    <3>2. SameOwners
      BY <3>1, StaysOut
    <3>3. word' = word
      BY <1>3, <2>2 DEF PhAcquireQueuedLockShared, Go, WordInv
    <3> QED
      BY <3>2, <3>3 DEF OwnersMove, Stays, SameList, Word, WordInv
  <2> QED
    BY <2>1, <2>2
<1>4. CASE AcquireSlow(t)
  <2>1. CASE word # value[t]
    <3>1. OthersStand(t) /\ Outside(t) /\ Outside(t)'
      BY <1>4, <2>1 DEF AcquireSlow, Swapped, Stale, Leave, Locals, Go, MayTake,
         Taken, PlaceInv, Traversing, OthersStand, Outside
    <3>2. SameOwners
      BY <3>1, StaysOut
    <3>3. word' = word
      BY <1>4, <2>1 DEF AcquireSlow, Swapped, Stale, Leave, Locals, Go, MayTake,
         Taken, WordInv
    <3> QED
      BY <3>2, <3>3 DEF OwnersMove, Stays, SameList, Word, WordInv
  <2>2. CASE word = value[t] /\ want[t] = "exclusive"
    <3>1. OthersStand(t) /\ Outside(t) /\ pc'[t] = "owns" /\ want'[t] = "exclusive"
      BY <1>4, <2>2 DEF AcquireSlow, Swapped, Stale, Leave, Locals, Go, MayTake,
         Taken, PlaceInv, Traversing, OthersStand, Outside
    <3>2. /\ t \notin Owners /\ Leaving' = Leaving
         /\ Alone' = Alone \cup {t} /\ Counted' = Counted
      BY <3>1, ComesIn
    <3>3. ~word.owned /\ word' = [word EXCEPT !.owned = TRUE]
      BY <1>4, <2>2 DEF AcquireSlow, Swapped, Stale, Leave, Locals, Go, MayTake,
         Taken, WordInv
    <3> QED
      BY <3>2, <3>3 DEF OwnersMove, TakesAlone, SameList, Word, OwnerInv, WordInv
  <2>3. CASE word = value[t] /\ want[t] # "exclusive"
    <3>1. OthersStand(t) /\ Outside(t) /\ pc'[t] = "owns" /\ want'[t] = "shared"
      BY <1>4, <2>3 DEF AcquireSlow, Swapped, Stale, Leave, Locals, Go, MayTake,
         Taken, PlaceInv, Traversing, OthersStand, Outside
    <3>2. /\ t \notin Owners /\ Leaving' = Leaving
         /\ Alone' = Alone /\ Counted' = Counted \cup {t}
      BY <3>1, ComesIn
    <3>3. /\ ~word.waiters /\ (word.owned => word.shared > 0)
          /\ word' = [word EXCEPT !.owned = TRUE, !.shared = word.shared + 1]
      BY <1>4, <2>3 DEF AcquireSlow, Swapped, Stale, Leave, Locals, Go, MayTake,
         Taken, WordInv
    <3>4. Alone = {} /\ Leaving = {}
      BY <3>3, CountedOwners DEF OwnerInv, WordInv, Owners, Alone, Counted, Leaving
    <3> QED
      BY <3>2, <3>3, <3>4 DEF OwnersMove, TakesShared, SameList, Word, WordInv,
         Owners
  <2> QED
    BY <2>1, <2>2, <2>3
<1>5. CASE PhpPushQueuedWaitBlock(t)
  <2>1. CASE word # value[t]
    <3>1. OthersStand(t) /\ Outside(t) /\ Outside(t)'
      BY <1>5, <2>1 DEF PhpPushQueuedWaitBlock, Swapped, Stale, Leave, Locals, Go,
         StartOptimize, StartWake, WaitBlock, MayTake, Pushed, PlaceInv, Traversing,
         OthersStand, Outside
    <3>2. SameOwners
      BY <3>1, StaysOut
    <3>3. word' = word
      BY <1>5, <2>1 DEF PhpPushQueuedWaitBlock, Swapped, Stale, Leave, Locals, Go,
         StartOptimize, StartWake, WaitBlock, MayTake, Pushed, WordInv
    <3> QED
      BY <3>2, <3>3 DEF OwnersMove, Stays, SameList, Word, WordInv
  <2>2. CASE word = value[t]
    <3>1. OthersStand(t) /\ Outside(t) /\ Outside(t)'
      <4>1. UNCHANGED want /\ pc[t] = "acquire"
        BY <1>5, <2>2 DEF PhpPushQueuedWaitBlock
      <4>2. \E to \in {"block", "optimize", "giveUp", "seek"} : pc' = [pc EXCEPT ![t] = to]
        BY <1>5, <2>2 DEF PhpPushQueuedWaitBlock, Swapped, Stale, StartOptimize,
           StartWake, Leave, Go
      <4> QED
        BY <4>1, <4>2 DEF OthersStand, Outside
    <3>2. SameOwners
      BY <3>1, StaysOut
    <3>3. /\ word.waiters \/ word.owned
          /\ word' = [owned |-> word.owned, waiters |-> TRUE, trav |-> word.waiters,
                      multi |-> word.multi \/ word.shared > 1, shared |-> 0, head |-> t]
      BY <1>5, <2>2 DEF PhpPushQueuedWaitBlock, Swapped, Stale, Leave, Locals, Go,
         StartOptimize, StartWake, WaitBlock, MayTake, Pushed, WordInv
    <3> QED
      BY <3>2, <3>3 DEF OwnersMove, Pushes, SameList, Word
  <2> QED
    BY <2>1, <2>2
<1>6. CASE PhpBlockOnQueuedWaitBlock(t)
  <2>1. OthersStand(t) /\ Outside(t) /\ Outside(t)'
    BY <1>6 DEF PhpBlockOnQueuedWaitBlock, Locals, Go, NoBlock, PlaceInv,
       Traversing, OthersStand, Outside
  <2>2. SameOwners
    BY <2>1, StaysOut
  <2>3. word' = word
    BY <1>6 DEF PhpBlockOnQueuedWaitBlock, Locals, Go, NoBlock, WordInv
  <2> QED
    BY <2>2, <2>3 DEF OwnersMove, Stays, SameList, Word, WordInv
<1>7. CASE PhpOptimizeQueuedLockListEx(t)
  <2>1. OthersStand(t) /\ Outside(t) /\ Outside(t)'
    BY <1>7 DEF PhpOptimizeQueuedLockListEx, Advance, Go, PlaceInv, Traversing,
       OthersStand, Outside
  <2>2. SameOwners
    BY <2>1, StaysOut
  <2>3. word' = word
    BY <1>7 DEF PhpOptimizeQueuedLockListEx, Advance, Go, WordInv
  <2> QED
    BY <2>2, <2>3 DEF OwnersMove, Stays, SameList, Word, WordInv
<1>8. CASE FinishOptimize(t)
  <2>1. OthersStand(t) /\ Outside(t) /\ Outside(t)'
    BY <1>8 DEF FinishOptimize, Swapped, Stale, Return, Leave, Locals, Go,
       StartOptimize, StartWake, PlaceInv, Traversing, OthersStand, Outside
  <2>2. SameOwners
    BY <2>1, StaysOut
  <2>3. word' = [word EXCEPT !.trav = FALSE] \/ word' = word
    BY <1>8 DEF FinishOptimize, Swapped, Stale, Return, Leave, Locals, Go,
       StartOptimize, StartWake, WordInv
  <2> QED
    BY <2>2, <2>3 DEF OwnersMove, Stays, SameList, Word, WordInv
<1>9. CASE GiveUpWake(t)
  <2>1. OthersStand(t) /\ Outside(t) /\ Outside(t)'
    BY <1>9 DEF GiveUpWake, Swapped, Stale, Return, Leave, Locals, Go, StartWake,
       PlaceInv, Traversing, OthersStand, Outside
  <2>2. SameOwners
    BY <2>1, StaysOut
  <2>3. word' = [word EXCEPT !.trav = FALSE] \/ word' = word
    BY <1>9 DEF GiveUpWake, Swapped, Stale, Return, Leave, Locals, Go, StartWake,
       WordInv
  <2> QED
    BY <2>2, <2>3 DEF OwnersMove, Stays, SameList, Word, WordInv
<1>10. CASE SeekLast(t)
  <2>1. OthersStand(t) /\ Outside(t) /\ Outside(t)'
    BY <1>10 DEF SeekLast, Advance, Go, PlaceInv, Traversing, OthersStand, Outside
  <2>2. SameOwners
    BY <2>1, StaysOut
  <2>3. word' = word
    BY <1>10 DEF SeekLast, Advance, Go, WordInv
  <2> QED
    BY <2>2, <2>3 DEF OwnersMove, Stays, SameList, Word, WordInv
<1>11. CASE PhpPrepareToWakeQueuedLock(t)
  <2>1. CASE (block[cur[t]].exclusive /\ block[cur[t]].prev # None) \/ word # value[t]
    <3>1. OthersStand(t) /\ Outside(t) /\ Outside(t)'
      BY <1>11, <2>1 DEF PhpPrepareToWakeQueuedLock, Swapped, Stale, Locals, Go,
         StartWake, PlaceInv, Traversing, OthersStand, Outside
    <3>2. SameOwners
      BY <3>1, StaysOut
    <3>3. word' = word
      BY <1>11, <2>1 DEF PhpPrepareToWakeQueuedLock, Swapped, Stale, Locals, Go,
         StartWake, WordInv
    <3> QED
      BY <3>2, <3>3 DEF OwnersMove, Stays, SameList, Word, WordInv
  <2>2. CASE ~(block[cur[t]].exclusive /\ block[cur[t]].prev # None) /\ word = value[t]
    <3>1. OthersStand(t) /\ Outside(t) /\ Outside(t)'
      BY <1>11, <2>2 DEF PhpPrepareToWakeQueuedLock, Swapped, Stale, Locals, Go,
         StartWake, PlaceInv, Traversing, OthersStand, Outside
    <3>2. SameOwners
      BY <3>1, StaysOut
    <3>3. ~word.owned /\ word' = Free
      BY <1>11, <2>2 DEF PhpPrepareToWakeQueuedLock, Swapped, Stale, Locals, Go,
         StartWake, WordInv
    <3> QED
      BY <3>2, <3>3 DEF OwnersMove, TakesList, Free, SameList, Word
  <2> QED
    BY <2>1, <2>2
<1>12. CASE ClearTraversing(t)
  <2>1. OthersStand(t) /\ Outside(t) /\ Outside(t)'
    BY <1>12 DEF ClearTraversing, Go, PlaceInv, Traversing, OthersStand, Outside
  <2>2. SameOwners
    BY <2>1, StaysOut
  <2>3. word' = [word EXCEPT !.trav = FALSE] \/ word' = word
    BY <1>12 DEF ClearTraversing, Go, WordInv
  <2> QED
    BY <2>2, <2>3 DEF OwnersMove, Stays, SameList, Word, WordInv
<1>13. CASE PhpUnblockQueuedWaitBlock(t)
  <2>1. OthersStand(t) /\ Outside(t) /\ Outside(t)'
    BY <1>13 DEF PhpUnblockQueuedWaitBlock, NextToWake, Return, Leave, Locals, Go,
       PlaceInv, Traversing, OthersStand, Outside
  <2>2. SameOwners
    BY <2>1, StaysOut
  <2>3. word' = word
    BY <1>13 DEF PhpUnblockQueuedWaitBlock, NextToWake, Return, Leave, Locals, Go,
       WordInv
  <2> QED
    BY <2>2, <2>3 DEF OwnersMove, Stays, SameList, Word, WordInv
<1>14. CASE NtReleaseKeyedEvent(t)
  BY <1>14 DEF NtReleaseKeyedEvent, NoBlock, OwnersMove, Stays, SameOwners,
     SameList, PlaceInv, WordInv, Alone, Counted, Leaving, Traversing
<1>15. CASE PhReleaseQueuedLockExclusive(t)
  <2>1. OthersStand(t) /\ Outside(t)'
    BY <1>15 DEF PhReleaseQueuedLockExclusive, Leave, Locals, Go, PlaceInv,
       Traversing, OthersStand, Outside
  <2>2. pc[t] = "owns" /\ want[t] = "exclusive" /\ word' = [word EXCEPT !.owned = FALSE]
    BY <1>15 DEF PhReleaseQueuedLockExclusive, Leave, Locals, Go, WordInv
  <2>3. t \in Alone /\ Alone' = Alone \ {t} /\ Counted' = Counted /\ Leaving' = Leaving
    BY <2>1, <2>2, GoesOut
  <2> QED
    BY <2>2, <2>3 DEF OwnersMove, LeavesAlone, SameList, Word, WordInv
<1>16. CASE PhfWakeForReleaseQueuedLock(t)
  <2>1. OthersStand(t) /\ Outside(t) /\ Outside(t)'
    BY <1>16 DEF PhfWakeForReleaseQueuedLock, Swapped, Stale, Leave, Locals, Go,
       StartWake, PlaceInv, Traversing, OthersStand, Outside
  <2>2. SameOwners
    BY <2>1, StaysOut
  <2>3. word' = word \/ (word.waiters /\ word' = [word EXCEPT !.trav = TRUE])
    BY <1>16 DEF PhfWakeForReleaseQueuedLock, Swapped, Stale, Leave, Locals, Go,
       StartWake, WordInv
  <2> QED
    BY <2>2, <2>3 DEF OwnersMove, Stays, SameList, Word, WordInv
<1>17. CASE PhReleaseQueuedLockShared(t)
  <2>1. CASE word = [Free EXCEPT !.owned = TRUE, !.shared = 1]
    <3>1. OthersStand(t) /\ Outside(t)'
      BY <1>17, <2>1 DEF PhReleaseQueuedLockShared, Leave, Locals, Go, PlaceInv,
         Traversing, OthersStand, Outside
    <3>2. /\ pc[t] = "owns" /\ want[t] = "shared" /\ ~word.waiters /\ word.shared = 1
          /\ word' = Free
      BY <1>17, <2>1 DEF PhReleaseQueuedLockShared, Leave, Locals, Go, WordInv, Free
    <3>3. t \in Counted /\ Alone' = Alone /\ Counted' = Counted \ {t} /\ Leaving' = Leaving
      BY <3>1, <3>2, GoesOut
    <3> QED
      BY <3>2, <3>3 DEF OwnersMove, LeavesShared, SameList, Word, WordInv, Free
  <2>2. CASE word # [Free EXCEPT !.owned = TRUE, !.shared = 1]
    <3>2. SameOwners
      BY <1>17, <2>2 DEF PhReleaseQueuedLockShared, Leave, Locals, Go, PlaceInv,
         SameOwners, Alone, Counted, Leaving
    <3>3. word' = word
      BY <1>17, <2>2 DEF PhReleaseQueuedLockShared, Leave, Locals, Go, WordInv
    <3> QED
      BY <3>2, <3>3 DEF OwnersMove, Stays, SameList, Word, WordInv
  <2> QED
    BY <2>1, <2>2
<1>18. CASE PhfReleaseQueuedLockShared(t)
  <2>1. CASE ~value[t].waiters /\ word # value[t]
    <3>2. SameOwners
      BY <1>18, <2>1 DEF PhfReleaseQueuedLockShared, Swapped, Stale, Leave, Locals,
         Go, PlaceInv, SameOwners, Alone, Counted, Leaving
    <3>3. word' = word
      BY <1>18, <2>1 DEF PhfReleaseQueuedLockShared, Swapped, Stale, Leave, Locals,
         Go, WordInv
    <3> QED
      BY <3>2, <3>3 DEF OwnersMove, Stays, SameList, Word, WordInv
  <2>2. CASE ~value[t].waiters /\ word = value[t]
    <3>1. OthersStand(t) /\ Outside(t)'
      BY <1>18, <2>2 DEF PhfReleaseQueuedLockShared, Swapped, Stale, Leave, Locals,
         Go, PlaceInv, Traversing, OthersStand, Outside
    <3>2. /\ pc[t] = "leave" /\ ~word.waiters
          /\ word' = IF word.shared > 1 THEN [word EXCEPT !.shared = word.shared - 1] ELSE Free
      BY <1>18, <2>2 DEF PhfReleaseQueuedLockShared, Swapped, Stale, Leave, Locals,
         Go, WordInv
    <3>3. t \in Counted /\ Alone' = Alone /\ Counted' = Counted \ {t} /\ Leaving' = Leaving
      BY <3>1, <3>2, GoesOut
    <3>5. word.shared > 0 /\ word.owned /\ word.head = None /\ ~word.multi /\ ~word.trav
      BY <3>2, <3>3, CountedOwners DEF OwnerInv, WordInv, Owners
    <3> QED
      BY <3>2, <3>3, <3>5 DEF OwnersMove, LeavesShared, SameList, Word, WordInv,
         Free
  <2>3. CASE value[t].waiters /\ value[t].multi
    <3>2. SameOwners
      BY <1>18, <2>3 DEF PhfReleaseQueuedLockShared, Swapped, Stale, Leave, Locals,
         Go, PlaceInv, SameOwners, Alone, Counted, Leaving
    <3>3. word' = word
      BY <1>18, <2>3 DEF PhfReleaseQueuedLockShared, Swapped, Stale, Leave, Locals,
         Go, WordInv
    <3> QED
      BY <3>2, <3>3 DEF OwnersMove, Stays, SameList, Word, WordInv
  <2>4. CASE value[t].waiters /\ ~value[t].multi
    <3>1. OthersStand(t) /\ pc[t] \in {"leave", "count"} /\ pc'[t] = "last"
      BY <1>18, <2>4 DEF PhfReleaseQueuedLockShared, Swapped, Stale, Leave, Locals,
         Go, PlaceInv, Traversing, OthersStand, Outside
    <3>2. t \in Counted /\ Counted' = Counted \ {t} /\ Leaving' = Leaving \cup {t} /\ Alone' = Alone
      BY <3>1, CountsLast
    <3>3. pc[t] = "leave" /\ word' = word
      BY <1>18, <2>4 DEF PhfReleaseQueuedLockShared, Swapped, Stale, Leave, Locals,
         Go, WordInv
    <3>4. word.waiters /\ ~word.multi
      BY <1>18, <2>4, <3>3
    <3>5. Counted = {t}
      BY <3>2, <3>4 DEF WordInv
    <3> QED
      BY <3>2, <3>3, <3>4, <3>5 DEF OwnersMove, CountsOut, SameList, Word, WordInv
  <2> QED
    BY <2>1, <2>2, <2>3, <2>4
<1>19. CASE PhpFindLastQueuedWaitBlock(t)
  <2>2. SameOwners
    BY <1>19 DEF PhpFindLastQueuedWaitBlock, Go, PlaceInv, SameOwners, Alone,
       Counted, Leaving
  <2>3. word' = word
    BY <1>19 DEF PhpFindLastQueuedWaitBlock, Go, WordInv
  <2> QED
    BY <2>2, <2>3 DEF OwnersMove, Stays, SameList, Word, WordInv
<1>20. CASE DecrementSharedOwners(t)
  <2>1. CASE block[cur[t]].owners > 1
    <3>1. OthersStand(t) /\ Outside(t)'
      BY <1>20, <2>1 DEF DecrementSharedOwners, Leave, Locals, Go, PlaceInv,
         Traversing, OthersStand, Outside
    <3>2. pc[t] = "count" /\ word' = word
      BY <1>20, <2>1 DEF DecrementSharedOwners, Leave, Locals, Go, WordInv
    <3>3. t \in Counted /\ Alone' = Alone /\ Counted' = Counted \ {t} /\ Leaving' = Leaving
      BY <3>1, <3>2, GoesOut
    <3>5. word.waiters /\ Cardinality(Counted) > 1
      BY <1>20, <2>1, <3>2 DEF WordInv
    <3> QED
      BY <3>2, <3>3, <3>5 DEF OwnersMove, CountsOut, SameList, Word, WordInv
  <2>2. CASE ~(block[cur[t]].owners > 1)
    <3>1. OthersStand(t) /\ pc[t] \in {"leave", "count"} /\ pc'[t] = "last"
      BY <1>20, <2>2 DEF DecrementSharedOwners, Leave, Locals, Go, PlaceInv,
         Traversing, OthersStand, Outside
    <3>2. t \in Counted /\ Counted' = Counted \ {t} /\ Leaving' = Leaving \cup {t} /\ Alone' = Alone
      BY <3>1, CountsLast
    <3>3. pc[t] = "count" /\ word' = word
      BY <1>20, <2>2 DEF DecrementSharedOwners, Leave, Locals, Go, WordInv
    <3>4. word.waiters
      BY <3>3 DEF WordInv
    <3>5. Counted = {t}
      BY <1>20, <2>2, <3>2, <3>3, CountedOwners
    <3> QED
      BY <3>2, <3>3, <3>4, <3>5 DEF OwnersMove, CountsOut, SameList, Word, WordInv
  <2> QED
    BY <2>1, <2>2
<1>21. CASE ReleaseLastShared(t)
  <2>1. CASE word # value[t]
    <3>2. SameOwners
      BY <1>21, <2>1 DEF ReleaseLastShared, Swapped, Stale, Leave, Locals, Go,
         StartWake, PlaceInv, SameOwners, Alone, Counted, Leaving
    <3>3. word' = word
      BY <1>21, <2>1 DEF ReleaseLastShared, Swapped, Stale, Leave, Locals, Go,
         StartWake, WordInv
    <3> QED
      BY <3>2, <3>3 DEF OwnersMove, Stays, SameList, Word, WordInv
  <2>2. CASE word = value[t]
    <3>1. OthersStand(t) /\ Outside(t)'
      BY <1>21, <2>2 DEF ReleaseLastShared, Swapped, Stale, Leave, Locals, Go,
         StartWake, PlaceInv, Traversing, OthersStand, Outside
    <3>2. /\ pc[t] = "last" /\ word.waiters
          /\ word' = [word EXCEPT !.owned = FALSE, !.multi = FALSE, !.trav = TRUE]
      BY <1>21, <2>2 DEF ReleaseLastShared, Swapped, Stale, Leave, Locals, Go,
         StartWake, WordInv
    <3>3. t \in Leaving /\ Alone' = Alone /\ Counted' = Counted /\ Leaving' = Leaving \ {t}
      BY <3>1, <3>2, GoesOut
    <3> QED
      BY <3>2, <3>3 DEF OwnersMove, LeavesLast, SameList, Word
  <2> QED
    BY <2>1, <2>2
<1> QED
  BY <1>1, <1>3, <1>4, <1>5, <1>6, <1>7, <1>8, <1>9, <1>10, <1>11, <1>12, <1>13,
     <1>14, <1>15, <1>16, <1>17, <1>18, <1>19, <1>20, <1>21
     DEF Start, Step, PhTryAcquireQueuedLockExclusive

\* The owners agree with the owned bit after the step, and with each other,
LEMMA OwnerStep ==
  ASSUME Known, NEW t \in Thread, OwnersMove(t)
  PROVE  OwnerInv'
<1> USE Types, CountedOwners DEF Known, BaseInv, OwnerInv, Owners
<1>0. /\ \A s \in Counted \cup Leaving : s \notin Alone
      /\ \A s \in Counted : s \notin Leaving
      /\ Alone \subseteq Thread /\ Counted \subseteq Thread /\ Leaving \subseteq Thread
  BY DEF Alone, Counted, Leaving
<1>1. CASE Stays
  BY <1>1 DEF Stays, SameOwners
<1>2. CASE Pushes(t)
  BY <1>2 DEF Pushes, SameOwners
<1>3. CASE TakesList
  BY <1>3 DEF TakesList, SameOwners, Free
<1>4. CASE TakesAlone(t)
  BY <1>4 DEF TakesAlone
<1>5. CASE TakesShared(t)
  BY <1>5 DEF TakesShared
<1>6. CASE LeavesAlone(t)
  BY <1>6, <1>0 DEF LeavesAlone
<1>7. CASE LeavesShared(t)
  <2>1. Leaving = {} /\ Alone = {}
    BY <1>7, <1>0 DEF LeavesShared, WordInv, Leaving
  <2>2. Counted \ {t} = {} <=> ~(word.shared > 1)
    BY <1>7, OthersLeft DEF LeavesShared, WordInv
  <2> QED
    BY <1>7, <2>1, <2>2 DEF LeavesShared
<1>8. CASE CountsOut(t)
  <2>1. t \in Counted /\ Leaving = {} /\ Alone = {} /\ word.owned /\ word' = word
    BY <1>8, <1>0 DEF CountsOut
  <2>2. Alone' = {} /\ Counted' = Counted \ {t}
    BY <1>8, <2>1 DEF CountsOut
  <2>3. CASE Leaving' = Leaving /\ Cardinality(Counted) > 1
    <3>1. Counted \ {t} # {}
      BY <2>1, <2>3, OthersLeft
    <3> QED
      BY <2>1, <2>2, <2>3, <3>1
  <2>4. CASE Leaving' = Leaving \cup {t} /\ Counted = {t}
    BY <2>1, <2>2, <2>4
  <2> QED
    BY <1>8, <2>3, <2>4 DEF CountsOut
<1>9. CASE LeavesLast(t)
  BY <1>9, <1>0 DEF LeavesLast
<1> QED
  BY <1>1, <1>2, <1>3, <1>4, <1>5, <1>6, <1>7, <1>8, <1>9 DEF OwnersMove

\* and so does the word, which counts them while nobody waits.
LEMMA BitsStep ==
  ASSUME Known, NEW t \in Thread, OwnersMove(t)
  PROVE  /\ ~word'.waiters => /\ ~word'.trav /\ ~word'.multi /\ word'.head = None
                              /\ word'.shared = Cardinality(Counted')
         /\ word'.waiters => word'.shared = 0
         /\ word'.multi => word'.waiters /\ word'.owned /\ Alone' = {}
         /\ word'.waiters /\ ~word'.multi => \A r, s \in Counted' \cup Leaving' : r = s
<1> USE Types, CountedOwners DEF Known, BaseInv, OwnerInv, WordInv, Owners, SameList
<1>0. /\ \A s \in Counted \cup Leaving : s \notin Alone
      /\ \A s \in Counted : s \notin Leaving
      /\ Alone \subseteq Thread /\ Counted \subseteq Thread /\ Leaving \subseteq Thread
  BY DEF Alone, Counted, Leaving
<1>1. CASE Stays
  BY <1>1 DEF Stays, SameOwners, OwnersMove
<1>2. CASE Pushes(t)
  <2>1. CASE word.waiters
    BY <1>2, <2>1, <1>0 DEF Pushes, SameOwners
  <2>2. CASE ~word.waiters
    <3>1. Leaving = {} /\ word.owned /\ ~word.multi
      BY <1>2, <2>2 DEF Pushes, Leaving
    <3>2. word.shared > 1 => Alone = {}
      BY <2>2, <1>0
    <3> QED
      BY <1>2, <2>2, <3>1, <3>2 DEF Pushes, SameOwners
  <2> QED
    BY <2>1, <2>2
<1>3. CASE TakesList
  BY <1>3 DEF TakesList, SameOwners, Free
<1>4. CASE TakesAlone(t)
  BY <1>4 DEF TakesAlone, OwnersMove
<1>5. CASE TakesShared(t)
  BY <1>5, <1>0, OneMore DEF TakesShared, OwnersMove
<1>6. CASE LeavesAlone(t)
  BY <1>6, <1>0 DEF LeavesAlone, OwnersMove
<1>7. CASE LeavesShared(t)
  BY <1>7, <1>0, OneLess DEF LeavesShared, OwnersMove
<1>8. CASE CountsOut(t)
  BY <1>8, <1>0 DEF CountsOut, OwnersMove
<1>9. CASE LeavesLast(t)
  BY <1>9, <1>0 DEF LeavesLast, OwnersMove
<1> QED
  BY <1>1, <1>2, <1>3, <1>4, <1>5, <1>6, <1>7, <1>8, <1>9 DEF OwnersMove

\* What a releaser has seen before it looks at the blocks, or wakes.
LEMMA ReleasersStep ==
  ASSUME Known, Next, NEW s \in Thread
  PROVE  /\ pc'[s] \in {"find", "count"} => s \in Counted /\ word.multi
         /\ pc'[s] = "last" => s \in Counted \cup Leaving /\ word.waiters
         /\ pc'[s] = "released" => /\ ~value'[s].owned /\ value'[s].waiters
                                   /\ ~value'[s].trav /\ ~value'[s].multi
<1> DEFINE Goal == /\ pc'[s] \in {"find", "count"} => s \in Counted /\ word.multi
                   /\ pc'[s] = "last" => s \in Counted \cup Leaving /\ word.waiters
                   /\ pc'[s] = "released" => /\ ~value'[s].owned /\ value'[s].waiters
                                             /\ ~value'[s].trav /\ ~value'[s].multi
<1> USE Types DEF Known, BaseInv, WordInv, Counted, Leaving, Traversing
<1>1. ASSUME NEW t \in Thread, PhAcquireQueuedLockExclusive(t) PROVE Goal
  BY <1>1 DEF PhAcquireQueuedLockExclusive, Go
<1>2. ASSUME NEW t \in Thread, PhTryAcquireQueuedLockExclusive(t) PROVE Goal
  BY <1>2 DEF PhTryAcquireQueuedLockExclusive, PhAcquireQueuedLockExclusive, Go
<1>3. ASSUME NEW t \in Thread, PhAcquireQueuedLockShared(t) PROVE Goal
  BY <1>3 DEF PhAcquireQueuedLockShared, Go
<1>4. ASSUME NEW t \in Thread, AcquireSlow(t) PROVE Goal
  BY <1>4 DEF AcquireSlow, Swapped, Stale, Leave, Locals, Go
<1>5. ASSUME NEW t \in Thread, PhpPushQueuedWaitBlock(t) PROVE Goal
  BY <1>5 DEF PhpPushQueuedWaitBlock, Swapped, Stale, Leave, Locals, Go,
     StartOptimize, StartWake, WaitBlock
<1>6. ASSUME NEW t \in Thread, PhpBlockOnQueuedWaitBlock(t) PROVE Goal
  BY <1>6 DEF PhpBlockOnQueuedWaitBlock, Locals, Go, NoBlock
<1>7. ASSUME NEW t \in Thread, PhpOptimizeQueuedLockListEx(t) PROVE Goal
  BY <1>7 DEF PhpOptimizeQueuedLockListEx, Advance, Go
<1>8. ASSUME NEW t \in Thread, FinishOptimize(t) PROVE Goal
  BY <1>8 DEF FinishOptimize, Swapped, Stale, Return, Leave, Locals, Go,
     StartOptimize, StartWake
<1>9. ASSUME NEW t \in Thread, GiveUpWake(t) PROVE Goal
  BY <1>9 DEF GiveUpWake, Swapped, Stale, Return, Leave, Locals, Go, StartWake
<1>10. ASSUME NEW t \in Thread, SeekLast(t) PROVE Goal
  BY <1>10 DEF SeekLast, Advance, Go
<1>11. ASSUME NEW t \in Thread, PhpPrepareToWakeQueuedLock(t) PROVE Goal
  BY <1>11 DEF PhpPrepareToWakeQueuedLock, Swapped, Stale, Locals, Go, StartWake
<1>12. ASSUME NEW t \in Thread, ClearTraversing(t) PROVE Goal
  BY <1>12 DEF ClearTraversing, Go
<1>13. ASSUME NEW t \in Thread, PhpUnblockQueuedWaitBlock(t) PROVE Goal
  BY <1>13 DEF PhpUnblockQueuedWaitBlock, NextToWake, Return, Leave, Locals, Go
<1>14. ASSUME NEW t \in Thread, NtReleaseKeyedEvent(t) PROVE Goal
  BY <1>14 DEF NtReleaseKeyedEvent, NoBlock
<1>15. ASSUME NEW t \in Thread, PhReleaseQueuedLockExclusive(t) PROVE Goal
  BY <1>15 DEF PhReleaseQueuedLockExclusive, Leave, Locals, Go, Alone, Word
<1>16. ASSUME NEW t \in Thread, PhfWakeForReleaseQueuedLock(t) PROVE Goal
  BY <1>16 DEF PhfWakeForReleaseQueuedLock, Swapped, Stale, Leave, Locals, Go,
     StartWake
<1>17. ASSUME NEW t \in Thread, PhReleaseQueuedLockShared(t) PROVE Goal
  BY <1>17 DEF PhReleaseQueuedLockShared, Leave, Locals, Go
<1>18. ASSUME NEW t \in Thread, PhfReleaseQueuedLockShared(t) PROVE Goal
  BY <1>18 DEF PhfReleaseQueuedLockShared, Swapped, Stale, Leave, Locals, Go
<1>19. ASSUME NEW t \in Thread, PhpFindLastQueuedWaitBlock(t) PROVE Goal
  BY <1>19 DEF PhpFindLastQueuedWaitBlock, Go
<1>20. ASSUME NEW t \in Thread, DecrementSharedOwners(t) PROVE Goal
  BY <1>20 DEF DecrementSharedOwners, Leave, Locals, Go
<1>21. ASSUME NEW t \in Thread, ReleaseLastShared(t) PROVE Goal
  BY <1>21 DEF ReleaseLastShared, Swapped, Stale, Leave, Locals, Go, StartWake
<1> QED
  BY <1>1, <1>2, <1>3, <1>4, <1>5, <1>6, <1>7, <1>8, <1>9, <1>10, <1>11, <1>12,
     <1>13, <1>14, <1>15, <1>16, <1>17, <1>18, <1>19, <1>20, <1>21
     DEF Next, Start, Step

\* Every step keeps the word in agreement with the owners: each of the moves does.
LEMMA WordStep ==
  Known /\ Next => WordInv'
<1> SUFFICES ASSUME Known, Next PROVE WordInv'
  OBVIOUS
<1>1. PICK t \in Thread : OwnersMove(t)
  BY OwnerMoves DEF Next
<1>2. ASSUME NEW s \in Thread
      PROVE  /\ pc'[s] \in {"find", "count"} => word'.multi
             /\ pc'[s] = "last" => word'.waiters
             /\ pc'[s] = "released" => /\ ~value'[s].owned /\ value'[s].waiters
                                       /\ ~value'[s].trav /\ ~value'[s].multi
  <2>1. /\ \A r \in Counted : r \notin Leaving
        /\ Alone \subseteq Thread /\ Counted \subseteq Thread /\ Leaving \subseteq Thread
    BY DEF Alone, Counted, Leaving
  <2>2. s \in Counted /\ word.multi => word'.multi
    BY <1>1, <2>1 DEF Known, BaseInv, OwnersMove, OwnerInv, WordInv, Owners,
       SameList, Stays,
       Pushes, TakesList, TakesAlone, TakesShared, LeavesAlone, LeavesShared, CountsOut, LeavesLast
  <2>3. s \in Counted \cup Leaving /\ word.waiters => word'.waiters
    BY <1>1 DEF Known, BaseInv, OwnersMove, OwnerInv, WordInv, Owners, SameList,
       Stays,
       Pushes, TakesList, TakesAlone, TakesShared, LeavesAlone, LeavesShared, CountsOut, LeavesLast
  <2> QED
    BY <2>2, <2>3, ReleasersStep
<1> QED
  BY <1>1, <1>2, BitsStep DEF WordInv


-----------------------------------------------------------------------------
(***************************************************************************)
(* The types.                                                              *)
(***************************************************************************)

\* The word counts no more owners than there are threads.
LEMMA SharedType ==
  Known /\ Next => word'.shared \in 0 .. Cardinality(Thread) /\ Cardinality(Thread) \in Nat
<1> SUFFICES ASSUME Known, Next
             PROVE  word'.shared \in 0 .. Cardinality(Thread) /\ Cardinality(Thread) \in Nat
  OBVIOUS
<1>1. PICK t \in Thread : OwnersMove(t)
  BY OwnerMoves DEF Next
<1>2. Counted' \subseteq Thread
  BY DEF Counted
<1>3. Cardinality(Counted') \in 0 .. Cardinality(Thread) /\ Cardinality(Thread) \in Nat
  BY <1>2, ThreadsAreCounted, CountedOwners
<1>4. word'.shared = 0 \/ word'.shared = Cardinality(Counted')
  BY <1>1, BitsStep
<1> QED
  BY <1>3, <1>4

\* A block that is visited.
LEMMA CurType ==
  ASSUME Known, NEW t \in Thread,
         pc[t] \in {"optimize", "seek", "take", "wake", "signal", "find", "count"}
  PROVE  cur[t] \in Thread
  BY Types DEF Known, BaseInv, BlockInUseIsAlive

\* A free word.
LEMMA FreeType ==
  Free \in Word
  BY CountedOwners DEF Free, Word

\* A word is made of its fields.
LEMMA InWord ==
  ASSUME NEW o \in BOOLEAN, NEW w \in BOOLEAN, NEW x \in BOOLEAN, NEW m \in BOOLEAN,
         NEW n \in 0 .. Cardinality(Thread), NEW h \in Thread \cup {None}
  PROVE  [owned |-> o, waiters |-> w, trav |-> x, multi |-> m, shared |-> n, head |-> h] \in Word
  BY DEF Word


\* The word,
LEMMA WordType ==
  Known /\ Next => word' \in Word
<1> SUFFICES ASSUME Known, Next PROVE word' \in Word
  OBVIOUS
<1>0. /\ TypeOK /\ word \in Word /\ None \notin Thread /\ Cardinality(Thread) \in Nat
      /\ word'.shared \in 0 .. Cardinality(Thread)
  BY Types, SharedType DEF Known, BaseInv
<1> USE Types
<1>1. ASSUME NEW t \in Thread, PhAcquireQueuedLockExclusive(t) PROVE word' \in Word
  BY <1>0, <1>1 DEF PhAcquireQueuedLockExclusive, Go, Word
<1>2. ASSUME NEW t \in Thread, PhTryAcquireQueuedLockExclusive(t) PROVE word' \in Word
  BY <1>0, <1>2 DEF PhTryAcquireQueuedLockExclusive, PhAcquireQueuedLockExclusive,
     Go, Word
<1>3. ASSUME NEW t \in Thread, PhAcquireQueuedLockShared(t) PROVE word' \in Word
  <2>1. CASE word # Free
    BY <1>0, <1>3, <2>1 DEF PhAcquireQueuedLockShared
  <2>2. CASE word = Free
    <3>1. word' = [owned |-> TRUE, waiters |-> FALSE, trav |-> FALSE, multi |-> FALSE,
                   shared |-> 1, head |-> None]
      BY <1>3, <2>2 DEF PhAcquireQueuedLockShared, Free
    <3>2. 1 \in 0 .. Cardinality(Thread)
      BY <1>0, <3>1
    <3> QED
      BY <3>1, <3>2, InWord
  <2> QED
    BY <2>1, <2>2
<1>4. ASSUME NEW t \in Thread, AcquireSlow(t) PROVE word' \in Word
  <2>1. word' = word \/ word' = [word EXCEPT !.owned = TRUE]
          \/ word' = [word EXCEPT !.owned = TRUE, !.shared = word'.shared]
    BY <1>4 DEF AcquireSlow, Swapped, Stale, Taken, Word
  <2> QED
    BY <1>0, <2>1, FreeType DEF Word
<1>5. ASSUME NEW t \in Thread, PhpPushQueuedWaitBlock(t) PROVE word' \in Word
  <2>1. CASE word # value[t]
    BY <1>0, <1>5, <2>1 DEF PhpPushQueuedWaitBlock, Swapped, Stale
  <2>2. CASE word = value[t]
    <3>1. word' = Pushed(t)
      BY <1>5, <2>2 DEF PhpPushQueuedWaitBlock, Swapped, Stale
    <3>2. 0 \in 0 .. Cardinality(Thread) /\ value[t] \in Word
      BY <1>0, <2>2
    <3>3. Pushed(t) \in Word
      BY <1>0, <3>2 DEF Pushed, Word
    <3> QED
      BY <3>1, <3>3
  <2> QED
    BY <2>1, <2>2
<1>6. ASSUME NEW t \in Thread, PhpBlockOnQueuedWaitBlock(t) PROVE word' \in Word
  BY <1>0, <1>6 DEF PhpBlockOnQueuedWaitBlock, Locals, Go, NoBlock, Word
<1>7. ASSUME NEW t \in Thread, PhpOptimizeQueuedLockListEx(t) PROVE word' \in Word
  BY <1>0, <1>7 DEF PhpOptimizeQueuedLockListEx, Advance, Go, Word
<1>8. ASSUME NEW t \in Thread, FinishOptimize(t) PROVE word' \in Word
  <2>1. word' = word \/ word' = [word EXCEPT !.trav = FALSE]
    BY <1>8 DEF FinishOptimize, Swapped, Stale
  <2> QED
    BY <1>0, <2>1 DEF Word
<1>9. ASSUME NEW t \in Thread, GiveUpWake(t) PROVE word' \in Word
  <2>1. word' = word \/ word' = [word EXCEPT !.trav = FALSE]
    BY <1>9 DEF GiveUpWake, Swapped, Stale
  <2> QED
    BY <1>0, <2>1 DEF Word
<1>10. ASSUME NEW t \in Thread, SeekLast(t) PROVE word' \in Word
  BY <1>0, <1>10 DEF SeekLast, Advance, Go, Word
<1>11. ASSUME NEW t \in Thread, PhpPrepareToWakeQueuedLock(t) PROVE word' \in Word
  <2>1. word' = word \/ word' = Free
    BY <1>11 DEF PhpPrepareToWakeQueuedLock, Swapped, Stale
  <2> QED
    BY <1>0, <2>1, FreeType DEF Word
<1>12. ASSUME NEW t \in Thread, ClearTraversing(t) PROVE word' \in Word
  BY <1>0, <1>12 DEF ClearTraversing, Go, Word
<1>13. ASSUME NEW t \in Thread, PhpUnblockQueuedWaitBlock(t) PROVE word' \in Word
  BY <1>0, <1>13 DEF PhpUnblockQueuedWaitBlock, NextToWake, Return, Leave, Locals,
     Go, Word
<1>14. ASSUME NEW t \in Thread, NtReleaseKeyedEvent(t) PROVE word' \in Word
  BY <1>0, <1>14 DEF NtReleaseKeyedEvent, NoBlock, Word
<1>15. ASSUME NEW t \in Thread, PhReleaseQueuedLockExclusive(t) PROVE word' \in Word
  BY <1>0, <1>15 DEF PhReleaseQueuedLockExclusive, Leave, Locals, Go, Word
<1>16. ASSUME NEW t \in Thread, PhfWakeForReleaseQueuedLock(t) PROVE word' \in Word
  <2>1. word' = word \/ word' = [word EXCEPT !.trav = TRUE]
    BY <1>16 DEF PhfWakeForReleaseQueuedLock, Swapped, Stale
  <2> QED
    BY <1>0, <2>1 DEF Word
<1>17. ASSUME NEW t \in Thread, PhReleaseQueuedLockShared(t) PROVE word' \in Word
  <2>1. word' = word \/ word' = Free
    BY <1>17 DEF PhReleaseQueuedLockShared
  <2> QED
    BY <1>0, <2>1, FreeType DEF Word
<1>18. ASSUME NEW t \in Thread, PhfReleaseQueuedLockShared(t) PROVE word' \in Word
  <2>1. word' = word \/ word' = Free \/ word' = [word EXCEPT !.shared = word'.shared]
    BY <1>18 DEF PhfReleaseQueuedLockShared, Swapped, Stale, Word
  <2> QED
    BY <1>0, <2>1, FreeType DEF Word
<1>19. ASSUME NEW t \in Thread, PhpFindLastQueuedWaitBlock(t) PROVE word' \in Word
  BY <1>0, <1>19 DEF PhpFindLastQueuedWaitBlock, Go, Word
<1>20. ASSUME NEW t \in Thread, DecrementSharedOwners(t) PROVE word' \in Word
  BY <1>0, <1>20 DEF DecrementSharedOwners, Leave, Locals, Go, Word
<1>21. ASSUME NEW t \in Thread, ReleaseLastShared(t) PROVE word' \in Word
  <2>1. word' = word \/ word' = [word EXCEPT !.owned = FALSE, !.multi = FALSE, !.trav = TRUE]
    BY <1>21 DEF ReleaseLastShared, Swapped, Stale
  <2> QED
    BY <1>0, <2>1, FreeType DEF Word
<1> QED
  BY <1>1, <1>2, <1>3, <1>4, <1>5, <1>6, <1>7, <1>8, <1>9, <1>10, <1>11, <1>12,
     <1>13, <1>14, <1>15, <1>16, <1>17, <1>18, <1>19, <1>20, <1>21
     DEF Next, Start, Step

\* A waiter has stopped or started to spin.
LEMMA SpinningStays ==
  ASSUME NEW B \in [Thread -> Block], NEW x, NEW y \in BOOLEAN
  PROVE  [B EXCEPT ![x].spinning = y] \in [Thread -> Block]
  BY DEF Block

\* the blocks,
LEMMA BlockType ==
  Known /\ Next => block' \in [Thread -> Block]
<1> SUFFICES ASSUME Known, Next PROVE block' \in [Thread -> Block]
  OBVIOUS
<1>0. /\ TypeOK /\ Cardinality(Thread) \in Nat
      /\ \A t \in Thread : pc[t] \in {"optimize", "seek", "take", "wake", "signal", "find", "count"} =>
           cur[t] \in Thread
  BY CurType, CountedOwners DEF Known, BaseInv
<1> USE <1>0, Types DEF Block
<1>1. ASSUME NEW t \in Thread, PhAcquireQueuedLockExclusive(t) PROVE block' \in [Thread -> Block]
  BY <1>0, <1>1 DEF PhAcquireQueuedLockExclusive, Go
<1>2. ASSUME NEW t \in Thread, PhTryAcquireQueuedLockExclusive(t) PROVE block' \in [Thread -> Block]
  BY <1>0, <1>2 DEF PhTryAcquireQueuedLockExclusive, PhAcquireQueuedLockExclusive,
     Go
<1>3. ASSUME NEW t \in Thread, PhAcquireQueuedLockShared(t) PROVE block' \in [Thread -> Block]
  BY <1>0, <1>3 DEF PhAcquireQueuedLockShared, Go
<1>4. ASSUME NEW t \in Thread, AcquireSlow(t) PROVE block' \in [Thread -> Block]
  BY <1>0, <1>4 DEF AcquireSlow, Swapped, Stale, Leave, Locals, Go, MayTake, Taken
<1>5. ASSUME NEW t \in Thread, PhpPushQueuedWaitBlock(t) PROVE block' \in [Thread -> Block]
  <2>1. WaitBlock(t) \in Block
    BY DEF WaitBlock, Word
  <2> QED
    BY <1>5, <2>1 DEF PhpPushQueuedWaitBlock
<1>6. ASSUME NEW t \in Thread, PhpBlockOnQueuedWaitBlock(t) PROVE block' \in [Thread -> Block]
  <2>1. CASE ~block[t].spinning
    <3>1. NoBlock \in Block
      BY DEF NoBlock
    <3> QED
      BY <1>6, <2>1, <3>1 DEF PhpBlockOnQueuedWaitBlock
  <2>2. CASE block[t].spinning
    <3>1. block' = [block EXCEPT ![t].spinning = FALSE] /\ block \in [Thread -> Block]
      BY <1>6, <2>2 DEF PhpBlockOnQueuedWaitBlock
    <3> QED
      BY ONLY <3>1, SpinningStays, FALSE \in BOOLEAN
  <2> QED
    BY <2>1, <2>2
<1>7. ASSUME NEW t \in Thread, PhpOptimizeQueuedLockListEx(t) PROVE block' \in [Thread -> Block]
  BY <1>0, <1>7 DEF PhpOptimizeQueuedLockListEx, Advance, Go
<1>8. ASSUME NEW t \in Thread, FinishOptimize(t) PROVE block' \in [Thread -> Block]
  BY <1>0, <1>8 DEF FinishOptimize, Swapped, Stale, Return, Leave, Locals, Go,
     StartOptimize, StartWake
<1>9. ASSUME NEW t \in Thread, GiveUpWake(t) PROVE block' \in [Thread -> Block]
  BY <1>0, <1>9 DEF GiveUpWake, Swapped, Stale, Return, Leave, Locals, Go, StartWake
<1>10. ASSUME NEW t \in Thread, SeekLast(t) PROVE block' \in [Thread -> Block]
  BY <1>0, <1>10 DEF SeekLast, Advance, Go
<1>11. ASSUME NEW t \in Thread, PhpPrepareToWakeQueuedLock(t) PROVE block' \in [Thread -> Block]
  BY <1>0, <1>11 DEF PhpPrepareToWakeQueuedLock, Swapped, Stale, Locals, Go,
     StartWake, Free
<1>12. ASSUME NEW t \in Thread, ClearTraversing(t) PROVE block' \in [Thread -> Block]
  BY <1>0, <1>12 DEF ClearTraversing, Go
<1>13. ASSUME NEW t \in Thread, PhpUnblockQueuedWaitBlock(t) PROVE block' \in [Thread -> Block]
  <2>1. cur[t] \in Thread
    BY <1>13 DEF PhpUnblockQueuedWaitBlock
  <2> DEFINE x == cur[t]
  <2>2. block' = block \/ block' = [block EXCEPT ![x].spinning = FALSE]
    BY <1>13 DEF PhpUnblockQueuedWaitBlock
  <2>3. block \in [Thread -> Block]
    BY <1>0
  <2> HIDE DEF x
  <2>4. [block EXCEPT ![x].spinning = FALSE] \in [Thread -> Block]
    BY ONLY <2>3, SpinningStays, FALSE \in BOOLEAN
  <2> QED
    BY <2>1, <2>2, <2>3, <2>4 DEF x
<1>14. ASSUME NEW t \in Thread, NtReleaseKeyedEvent(t) PROVE block' \in [Thread -> Block]
  BY <1>0, <1>14 DEF NtReleaseKeyedEvent, NoBlock
<1>15. ASSUME NEW t \in Thread, PhReleaseQueuedLockExclusive(t) PROVE block' \in [Thread -> Block]
  BY <1>0, <1>15 DEF PhReleaseQueuedLockExclusive, Leave, Locals, Go
<1>16. ASSUME NEW t \in Thread, PhfWakeForReleaseQueuedLock(t) PROVE block' \in [Thread -> Block]
  BY <1>0, <1>16 DEF PhfWakeForReleaseQueuedLock, Swapped, Stale, Leave, Locals, Go,
     StartWake
<1>17. ASSUME NEW t \in Thread, PhReleaseQueuedLockShared(t) PROVE block' \in [Thread -> Block]
  BY <1>0, <1>17 DEF PhReleaseQueuedLockShared, Leave, Locals, Go
<1>18. ASSUME NEW t \in Thread, PhfReleaseQueuedLockShared(t) PROVE block' \in [Thread -> Block]
  BY <1>0, <1>18 DEF PhfReleaseQueuedLockShared, Swapped, Stale, Leave, Locals, Go
<1>19. ASSUME NEW t \in Thread, PhpFindLastQueuedWaitBlock(t) PROVE block' \in [Thread -> Block]
  BY <1>0, <1>19 DEF PhpFindLastQueuedWaitBlock, Go
<1>20. ASSUME NEW t \in Thread, DecrementSharedOwners(t) PROVE block' \in [Thread -> Block]
  <2>1. block[cur[t]].owners - 1 \in 0 .. Cardinality(Thread)
    <3>1. pc[t] = "count" /\ t \in Counted
      BY <1>20 DEF DecrementSharedOwners, Counted
    <3>2. block[cur[t]].owners = Cardinality(Counted) /\ Cardinality(Counted) # 0
      BY <3>1, CountedOwners DEF Known
    <3>3. Cardinality(Counted) \in 0 .. Cardinality(Thread)
      BY CountedOwners
    <3> HIDE DEF Block
    <3> QED
      BY <3>2, <3>3
  <2>2. cur[t] \in Thread
    BY <1>20 DEF DecrementSharedOwners
  <2> QED
    BY <1>20, <2>1, <2>2 DEF DecrementSharedOwners
<1>21. ASSUME NEW t \in Thread, ReleaseLastShared(t) PROVE block' \in [Thread -> Block]
  BY <1>0, <1>21 DEF ReleaseLastShared, Swapped, Stale, Leave, Locals, Go, StartWake
<1> QED
  BY <1>1, <1>2, <1>3, <1>4, <1>5, <1>6, <1>7, <1>8, <1>9, <1>10, <1>11, <1>12,
     <1>13, <1>14, <1>15, <1>16, <1>17, <1>18, <1>19, <1>20, <1>21
     DEF Next, Start, Step

\* and where a thread is, and why.
PlaceType ==
  /\ pc \in [Thread -> {"idle", "acquire", "block", "sleep", "owns", "released",
                        "leave", "find", "count", "last", "wake", "signal"} \cup Traversing]
  /\ want \in [Thread -> {"exclusive", "shared", "free"}]

\* Every place a step leads to is one of these.
LEMMA PlacesHaveType ==
  Known /\ Next => PlaceType'
<1> SUFFICES ASSUME Known, Next PROVE PlaceType'
  OBVIOUS
<1>0. TypeOK
  BY DEF Known, BaseInv
<1> USE Types DEF PlaceType, Traversing
<1>1. ASSUME NEW t \in Thread, PhAcquireQueuedLockExclusive(t) PROVE PlaceType'
  BY <1>0, <1>1 DEF PhAcquireQueuedLockExclusive, Go
<1>2. ASSUME NEW t \in Thread, PhTryAcquireQueuedLockExclusive(t) PROVE PlaceType'
  BY <1>0, <1>2 DEF PhTryAcquireQueuedLockExclusive, PhAcquireQueuedLockExclusive,
     Go
<1>3. ASSUME NEW t \in Thread, PhAcquireQueuedLockShared(t) PROVE PlaceType'
  BY <1>0, <1>3 DEF PhAcquireQueuedLockShared, Go
<1>4. ASSUME NEW t \in Thread, AcquireSlow(t) PROVE PlaceType'
  BY <1>0, <1>4 DEF AcquireSlow, Swapped, Stale, Leave, Locals, Go, MayTake, Taken
<1>5. ASSUME NEW t \in Thread, PhpPushQueuedWaitBlock(t) PROVE PlaceType'
  BY <1>0, <1>5 DEF PhpPushQueuedWaitBlock, Swapped, Stale, Leave, Locals, Go,
     StartOptimize, StartWake
<1>6. ASSUME NEW t \in Thread, PhpBlockOnQueuedWaitBlock(t) PROVE PlaceType'
  BY <1>0, <1>6 DEF PhpBlockOnQueuedWaitBlock, Locals, Go, NoBlock
<1>7. ASSUME NEW t \in Thread, PhpOptimizeQueuedLockListEx(t) PROVE PlaceType'
  BY <1>0, <1>7 DEF PhpOptimizeQueuedLockListEx, Advance, Go
<1>8. ASSUME NEW t \in Thread, FinishOptimize(t) PROVE PlaceType'
  BY <1>0, <1>8 DEF FinishOptimize, Swapped, Stale, Return, Leave, Locals, Go,
     StartOptimize, StartWake
<1>9. ASSUME NEW t \in Thread, GiveUpWake(t) PROVE PlaceType'
  BY <1>0, <1>9 DEF GiveUpWake, Swapped, Stale, Return, Leave, Locals, Go, StartWake
<1>10. ASSUME NEW t \in Thread, SeekLast(t) PROVE PlaceType'
  BY <1>0, <1>10 DEF SeekLast, Advance, Go
<1>11. ASSUME NEW t \in Thread, PhpPrepareToWakeQueuedLock(t) PROVE PlaceType'
  BY <1>0, <1>11 DEF PhpPrepareToWakeQueuedLock, Swapped, Stale, Locals, Go,
     StartWake, Free
<1>12. ASSUME NEW t \in Thread, ClearTraversing(t) PROVE PlaceType'
  BY <1>0, <1>12 DEF ClearTraversing, Go
<1>13. ASSUME NEW t \in Thread, PhpUnblockQueuedWaitBlock(t) PROVE PlaceType'
  BY <1>0, <1>13 DEF PhpUnblockQueuedWaitBlock, NextToWake, Return, Leave, Locals,
     Go
<1>14. ASSUME NEW t \in Thread, NtReleaseKeyedEvent(t) PROVE PlaceType'
  BY <1>0, <1>14 DEF NtReleaseKeyedEvent, NoBlock
<1>15. ASSUME NEW t \in Thread, PhReleaseQueuedLockExclusive(t) PROVE PlaceType'
  BY <1>0, <1>15 DEF PhReleaseQueuedLockExclusive, Leave, Locals, Go
<1>16. ASSUME NEW t \in Thread, PhfWakeForReleaseQueuedLock(t) PROVE PlaceType'
  BY <1>0, <1>16 DEF PhfWakeForReleaseQueuedLock, Swapped, Stale, Leave, Locals, Go,
     StartWake
<1>17. ASSUME NEW t \in Thread, PhReleaseQueuedLockShared(t) PROVE PlaceType'
  BY <1>0, <1>17 DEF PhReleaseQueuedLockShared, Leave, Locals, Go
<1>18. ASSUME NEW t \in Thread, PhfReleaseQueuedLockShared(t) PROVE PlaceType'
  BY <1>0, <1>18 DEF PhfReleaseQueuedLockShared, Swapped, Stale, Leave, Locals, Go
<1>19. ASSUME NEW t \in Thread, PhpFindLastQueuedWaitBlock(t) PROVE PlaceType'
  BY <1>0, <1>19 DEF PhpFindLastQueuedWaitBlock, Go
<1>20. ASSUME NEW t \in Thread, DecrementSharedOwners(t) PROVE PlaceType'
  BY <1>0, <1>20 DEF DecrementSharedOwners, Leave, Locals, Go
<1>21. ASSUME NEW t \in Thread, ReleaseLastShared(t) PROVE PlaceType'
  BY <1>0, <1>21 DEF ReleaseLastShared, Swapped, Stale, Leave, Locals, Go, StartWake
<1> QED
  BY <1>1, <1>2, <1>3, <1>4, <1>5, <1>6, <1>7, <1>8, <1>9, <1>10, <1>11, <1>12,
     <1>13, <1>14, <1>15, <1>16, <1>17, <1>18, <1>19, <1>20, <1>21
     DEF Next, Start, Step

\* The locals of a thread.
LocalType ==
  value \in [Thread -> Word] /\ cur \in [Thread -> Thread \cup {None}]

\* They are set together, from a copy of the word.
LEMMA LocalsSet ==
  ASSUME LocalType, NEW t \in Thread, NEW v \in Word, NEW b \in Thread \cup {None}, Locals(t, v, b)
  PROVE  LocalType'
  BY DEF LocalType, Locals

\* So does every transfer of control that sets them.
LEMMA LocalsStart ==
  ASSUME LocalType, NEW t \in Thread
  PROVE  /\ \A to : Leave(t, to) => LocalType'
         /\ Return(t) => LocalType'
         /\ \A v \in Word : StartWake(t, v) => LocalType'
         /\ \A v \in Word : StartOptimize(t, v) => LocalType'
<1>1. \A v \in Word : v.head \in Thread \cup {None}
  BY DEF Word
<1>2. \A to : Leave(t, to) => LocalType'
  BY FreeType, LocalsSet DEF Leave
<1>3. \A v \in Word : StartWake(t, v) => LocalType'
  BY <1>1, LocalsSet DEF StartWake
<1>4. \A v \in Word : StartOptimize(t, v) => LocalType'
  BY <1>1, <1>3, LocalsSet DEF StartOptimize
<1> QED
  BY <1>2, <1>3, <1>4 DEF Return

\* The copies of the word are words, and a walk goes from block to block.
LEMMA LocalsHaveType ==
  Known /\ Next => LocalType'
<1> SUFFICES ASSUME Known, Next PROVE LocalType'
  OBVIOUS
<1>0. word \in Word /\ word' \in Word /\ LocalType /\ (\A v \in Word : v.head \in Thread \cup {None})
  BY Types, WordType DEF Known, BaseInv, LocalType, Word
<1> USE <1>0, Types, CurType DEF Known, BaseInv
<1>1. ASSUME NEW t \in Thread, PhAcquireQueuedLockExclusive(t) PROVE LocalType'
  BY <1>0, <1>1 DEF PhAcquireQueuedLockExclusive, Go, Block, LocalType
<1>2. ASSUME NEW t \in Thread, PhTryAcquireQueuedLockExclusive(t) PROVE LocalType'
  BY <1>0, <1>2 DEF PhTryAcquireQueuedLockExclusive, PhAcquireQueuedLockExclusive,
     Go, Block, LocalType
<1>3. ASSUME NEW t \in Thread, PhAcquireQueuedLockShared(t) PROVE LocalType'
  BY <1>0, <1>3 DEF PhAcquireQueuedLockShared, Go, Block, LocalType
<1>4. ASSUME NEW t \in Thread, AcquireSlow(t) PROVE LocalType'
  BY <1>4, LocalsStart, LocalsSet DEF AcquireSlow, Swapped, Stale
<1>5. ASSUME NEW t \in Thread, PhpPushQueuedWaitBlock(t) PROVE LocalType'
  <2>1. word = value[t] => word' = Pushed(t)
    BY <1>5 DEF PhpPushQueuedWaitBlock, Swapped, Stale
  <2> QED
    BY <1>5, <2>1, LocalsStart, LocalsSet DEF PhpPushQueuedWaitBlock, Swapped, Stale
<1>6. ASSUME NEW t \in Thread, PhpBlockOnQueuedWaitBlock(t) PROVE LocalType'
  BY <1>0, <1>6 DEF PhpBlockOnQueuedWaitBlock, Locals, Go, NoBlock, Block, LocalType
<1>7. ASSUME NEW t \in Thread, PhpOptimizeQueuedLockListEx(t) PROVE LocalType'
  BY <1>0, <1>7 DEF PhpOptimizeQueuedLockListEx, Advance, Go, Block, LocalType
<1>8. ASSUME NEW t \in Thread, FinishOptimize(t) PROVE LocalType'
  BY <1>8, LocalsStart, LocalsSet DEF FinishOptimize, Swapped, Stale
<1>9. ASSUME NEW t \in Thread, GiveUpWake(t) PROVE LocalType'
  BY <1>9, LocalsStart, LocalsSet DEF GiveUpWake, Swapped, Stale
<1>10. ASSUME NEW t \in Thread, SeekLast(t) PROVE LocalType'
  BY <1>0, <1>10 DEF SeekLast, Advance, Go, Block, LocalType
<1>11. ASSUME NEW t \in Thread, PhpPrepareToWakeQueuedLock(t) PROVE LocalType'
  BY <1>11, LocalsStart DEF PhpPrepareToWakeQueuedLock, Swapped, Stale, LocalType
<1>12. ASSUME NEW t \in Thread, ClearTraversing(t) PROVE LocalType'
  BY <1>0, <1>12 DEF ClearTraversing, Go, Block, LocalType
<1>13. ASSUME NEW t \in Thread, PhpUnblockQueuedWaitBlock(t) PROVE LocalType'
  <2>1. block[cur[t]].prev \in Thread \cup {None} /\ value[t] \in Word
    BY <1>13 DEF PhpUnblockQueuedWaitBlock, Block
  <2>2. NextToWake(t) \/ UNCHANGED <<value, cur>>
    BY <1>13 DEF PhpUnblockQueuedWaitBlock
  <2> QED
    BY <2>1, <2>2, LocalsStart, LocalsSet DEF NextToWake, LocalType
<1>14. ASSUME NEW t \in Thread, NtReleaseKeyedEvent(t) PROVE LocalType'
  <2>1. block[cur[t]].prev \in Thread \cup {None} /\ cur[t] \in Thread
    BY <1>14 DEF NtReleaseKeyedEvent, Block
  <2>2. cur' = [cur EXCEPT ![t] = block[cur[t]].prev]
    BY <1>14 DEF NtReleaseKeyedEvent
  <2>3. \E v \in Word : value' = [value EXCEPT ![cur[t]] = word, ![t] = v]
    BY <1>14, FreeType, <2>1 DEF NtReleaseKeyedEvent, LocalType
  <2> QED
    BY <2>1, <2>2, <2>3 DEF LocalType
<1>15. ASSUME NEW t \in Thread, PhReleaseQueuedLockExclusive(t) PROVE LocalType'
  BY <1>15, LocalsStart, LocalsSet DEF PhReleaseQueuedLockExclusive
<1>16. ASSUME NEW t \in Thread, PhfWakeForReleaseQueuedLock(t) PROVE LocalType'
  BY <1>16, LocalsStart, LocalsSet DEF PhfWakeForReleaseQueuedLock, Swapped, Stale
<1>17. ASSUME NEW t \in Thread, PhReleaseQueuedLockShared(t) PROVE LocalType'
  BY <1>17, LocalsStart, LocalsSet DEF PhReleaseQueuedLockShared
<1>18. ASSUME NEW t \in Thread, PhfReleaseQueuedLockShared(t) PROVE LocalType'
  BY <1>18, LocalsStart, LocalsSet DEF PhfReleaseQueuedLockShared, Swapped, Stale
<1>19. ASSUME NEW t \in Thread, PhpFindLastQueuedWaitBlock(t) PROVE LocalType'
  BY <1>0, <1>19 DEF PhpFindLastQueuedWaitBlock, Go, Block, LocalType
<1>20. ASSUME NEW t \in Thread, DecrementSharedOwners(t) PROVE LocalType'
  BY <1>20, LocalsStart DEF DecrementSharedOwners, LocalType
<1>21. ASSUME NEW t \in Thread, ReleaseLastShared(t) PROVE LocalType'
  BY <1>21, LocalsStart, LocalsSet DEF ReleaseLastShared, Swapped, Stale
<1> QED
  BY <1>1, <1>2, <1>3, <1>4, <1>5, <1>6, <1>7, <1>8, <1>9, <1>10, <1>11, <1>12,
     <1>13, <1>14, <1>15, <1>16, <1>17, <1>18, <1>19, <1>20, <1>21
     DEF Next, Start, Step

\* The types hold after every step.
LEMMA TypeStep ==
  Known /\ Next => TypeOK'
  BY WordType, BlockType, PlacesHaveType, LocalsHaveType DEF TypeOK, PlaceType,
     LocalType
-----------------------------------------------------------------------------
(***************************************************************************)
(* The list of wait blocks: what the steps leave as it is.                 *)
(***************************************************************************)

\* What is known of the state without the ghosts.
LEMMA KnownFromGhosts ==
  ASSUME BaseInv, NEW Q \in SUBSET Thread, NEW H \in [Thread -> Thread \cup {None}],
         NEW N \in [Thread -> Int], NEW lo \in Int, NEW mark \in Int,
         GhostInv(Q, H, N, lo, mark)
  PROVE  Known
<1> USE Types DEF BaseInv, GhostInv
<1>1. /\ \A b \in Q : block[b].used
      /\ \A b \in Thread : H[b] # None => block[b].used
  BY DEF WaitInv
<1>2. ASSUME NEW t \in Thread, pc[t] \in {"optimize", "seek", "take"}
      PROVE  cur[t] \in Q /\ value[t].head \in Q /\ (pc[t] = "take" => ~value[t].owned)
  <2>1. pc[t] \in Traversing /\ pc[t] # "unlinked"
    BY <1>2 DEF Traversing
  <2>2. TraverserInv(t, Q, N, lo, mark)
    BY <2>1 DEF TravInv
  <2> QED
    BY <1>2, <2>1, <2>2 DEF TraverserInv
<1>3. ASSUME NEW t \in Thread, pc[t] \in {"wake", "signal"}
      PROVE  cur[t] \in Thread /\ H[cur[t]] # None
  BY <1>3 DEF WakeInv, Waking
<1>4. ASSUME NEW t \in Thread, pc[t] \in {"find", "count"}
      PROVE  cur[t] \in Q
  BY <1>4 DEF ReadInv
<1>5. BlockInUseIsAlive
  BY <1>1, <1>2, <1>3, <1>4 DEF BlockInUseIsAlive
<1>6. ASSUME NEW t \in Thread, pc[t] = "count"
      PROVE  block[cur[t]].owners = Cardinality(Counted)
  BY <1>4, <1>6 DEF ReadInv, MultiInv, WordInv
<1>7. ASSUME NEW t \in Thread, pc[t] = "leave", value[t].waiters
      PROVE  word.waiters /\ value[t].multi = word.multi
  BY <1>7 DEF ReadInv
<1> QED
  BY <1>2, <1>5, <1>6, <1>7 DEF Known

\* No other thread moves.
OnlyMoves(t) ==
  \A s \in Thread \ {t} : pc'[s] = pc[s] /\ value'[s] = value[s] /\ cur'[s] = cur[s]

\* The blocks of some threads stay as they are.
SameOn(S) ==
  \A b \in S : /\ block'[b].next = block[b].next /\ block'[b].prev = block[b].prev
               /\ block'[b].last = block[b].last /\ block'[b].owners = block[b].owners
               /\ block'[b].used = block[b].used /\ block'[b].spinning = block[b].spinning

SameBlocks == SameOn(Thread)

\* A shared owner keeps the waiters and what the word says of the number of owners,
LEMMA OwnersKeepWord ==
  ASSUME Known, NEW t \in Thread, OwnersMove(t), NEW s \in Counted, word.waiters, word' \in Word
  PROVE  word'.waiters /\ word'.multi = word.multi
<1>1. Counted \subseteq Owners /\ \A r \in Counted : r \notin Leaving
  BY DEF Counted, Leaving, Owners
<1>2. word.owned /\ word.shared = 0 /\ t \notin Leaving
  BY <1>1, Types DEF Known, BaseInv, OwnerInv, WordInv
<1>3. word \in Word /\ word.waiters \in BOOLEAN /\ word'.multi \in BOOLEAN /\ word.multi \in BOOLEAN
  BY Types DEF Known, BaseInv, Word
<1>4. CASE Pushes(t)
  BY <1>2, <1>3, <1>4 DEF Pushes
<1>5. CASE ~Pushes(t)
  BY <1>2, <1>5 DEF OwnersMove, SameList, Stays, TakesList, TakesAlone,
     TakesShared, LeavesAlone, LeavesShared, CountsOut, LeavesLast
<1> QED
  BY <1>4, <1>5

\* and nobody gets the lock shared while others wait.
LEMMA NoSharersCome ==
  ASSUME Known, NEW t \in Thread, OwnersMove(t), word.waiters, Counted \cup Leaving = {}
  PROVE  Counted' \cup Leaving' = {}
  BY DEF OwnersMove, SameOwners, Stays, Pushes, TakesList, TakesAlone,
     TakesShared, LeavesAlone, LeavesShared, CountsOut, LeavesLast

\* There are no shared owners without the owned bit, and without them there are not several.
LEMMA NoSharers ==
  ASSUME BaseInv
  PROVE  /\ ~word.owned => Counted \cup Leaving = {}
         /\ Counted \cup Leaving = {} => ~word.multi
  BY Types DEF BaseInv, OwnerInv, WordInv, Owners

-----------------------------------------------------------------------------
\* The links of the list are disturbed only by a change of its blocks or its head,
LEMMA LinksStand ==
  ASSUME NEW Q \in SUBSET Thread, NEW N \in [Thread -> Int], NEW lo \in Int, NEW mark \in Int,
         ListLinks(Q, N, lo, mark), SameOn(Q), word'.waiters = word.waiters,
         word.waiters => word'.head = word.head
  PROVE  ListLinks(Q, N, lo, mark)'
  BY DEF ListLinks, SameOn

\* the number of shared owners in the last block by one that comes or goes,
LEMMA MultiStands ==
  ASSUME NEW Q \in SUBSET Thread, NEW N \in [Thread -> Int], NEW lo \in Int,
         MultiInv(Q, N, lo), SameOn(Q), word'.multi => word.multi /\ Counted' = Counted
  PROVE  MultiInv(Q, N, lo)'
  BY DEF MultiInv, SameOn

\* what the releasing readers have seen by their own step,
LEMMA ReadStands ==
  ASSUME Known, NEW Q \in SUBSET Thread, NEW N \in [Thread -> Int], NEW lo \in Int,
         ReadInv(Q, N, lo), NEW t \in Thread, OwnersMove(t), OnlyMoves(t), word' \in Word,
         pc'[t] = "leave" /\ value'[t].waiters =>
           word'.waiters /\ value'[t].multi = word'.multi /\ value'[t].head \in Q,
         pc'[t] \in {"find", "count"} => cur'[t] \in Q,
         pc'[t] = "count" => N[cur'[t]] = lo
  PROVE  ReadInv(Q, N, lo)'
<1>1. ASSUME NEW s \in Thread, s # t, pc[s] = "leave", value[s].waiters
      PROVE  word'.waiters /\ value[s].multi = word'.multi /\ value[s].head \in Q
  <2>1. s \in Counted
    BY <1>1 DEF Counted
  <2> QED
    BY <1>1, <2>1, OwnersKeepWord DEF ReadInv
<1> QED
  BY <1>1 DEF ReadInv, OnlyMoves

\* the waiting by a thread that starts or stops to sleep,
LEMMA WaitStands ==
  ASSUME NEW Q \in SUBSET Thread, NEW H \in [Thread -> Thread \cup {None}],
         WaitInv(Q, H), NEW t \in Thread, OnlyMoves(t), SameBlocks,
         pc[t] # "sleep" /\ pc'[t] # "sleep"
  PROVE  WaitInv(Q, H)'
  BY DEF WaitInv, OnlyMoves, SameBlocks, SameOn

\* and the chains of blocks to wake by a waker.
LEMMA WakeStands ==
  ASSUME NEW H \in [Thread -> Thread \cup {None}], NEW N \in [Thread -> Int],
         WakeInv(H, N), NEW t \in Thread, OnlyMoves(t), SameBlocks,
         pc[t] \notin Waking /\ pc'[t] \notin Waking, None \notin Thread
  PROVE  WakeInv(H, N)'
<1>1. \A b \in Thread : H[b] # None => H[b] # t /\ H[b] \in Thread
  BY DEF WakeInv
<1> QED
  BY <1>1 DEF WakeInv, OnlyMoves, SameBlocks, SameOn

-----------------------------------------------------------------------------
\* The owner of the traversing bit stays where it is,
LEMMA TraverserStands ==
  ASSUME Known, NEW Q \in SUBSET Thread, NEW N \in [Thread -> Int], NEW lo \in Int, NEW mark \in Int,
         NEW s \in Thread, TraverserInv(s, Q, N, lo, mark), SameOn(Q), word'.waiters,
         pc'[s] = pc[s], value'[s] = value[s], cur'[s] = cur[s],
         NEW t \in Thread, OwnersMove(t)
  PROVE  TraverserInv(s, Q, N, lo, mark)'
<1>1. Counted \cup Leaving = {} => Counted' \cup Leaving' = {}
  BY NoSharersCome DEF TraverserInv
<1> QED
  BY <1>1 DEF TraverserInv, SameOn

\* or starts at the head of the list.
LEMMA TraverserStarts ==
  ASSUME BaseInv', NEW Q \in SUBSET Thread, NEW N \in [Thread -> Int], NEW lo \in Int, NEW mark \in Int,
         ListLinks(Q, N, lo, mark)', NEW t \in Thread, word'.waiters, word'.trav,
         value'[t] = word', cur'[t] = word'.head, pc'[t] \in {"optimize", "giveUp", "seek"},
         pc'[t] = "giveUp" => Counted' \cup Leaving' = {},
         pc'[t] = "seek" => ~word'.owned
  PROVE  TraverserInv(t, Q, N, lo, mark)'
<1>1. pc'[t] \in {"giveUp", "seek"} => Counted' \cup Leaving' = {} /\ ~word'.multi
  BY DEF BaseInv, OwnerInv, WordInv, Owners
<1>2. word'.head \in Q /\ mark <= N[word'.head] /\ N[word'.head] \in Int
  BY DEF ListLinks
<1>3. \A b \in Q : N[b] >= N[word'.head] => block'[b].prev = None
  BY <1>2 DEF ListLinks
<1>4. \A b \in Q : ~(N[word'.head] <= N[b] /\ N[b] < N[word'.head])
  BY <1>2
<1> QED
  BY <1>1, <1>2, <1>3, <1>4 DEF TraverserInv

\* A step of a thread that does not walk,
LEMMA TravStands ==
  ASSUME Known, NEW Q \in SUBSET Thread, NEW N \in [Thread -> Int], NEW lo \in Int, NEW mark \in Int,
         TravInv(Q, N, lo, mark), NEW t \in Thread, OwnersMove(t), OnlyMoves(t), SameOn(Q),
         pc[t] \notin Traversing, pc'[t] \notin Traversing, word'.trav <=> word.trav,
         word.trav => word'.waiters
  PROVE  TravInv(Q, N, lo, mark)'
<1>1. ASSUME NEW s \in Thread, pc'[s] \in Traversing
      PROVE  TraverserInv(s, Q, N, lo, mark)'
  <2>1. s # t /\ pc[s] \in Traversing /\ pc'[s] = pc[s] /\ value'[s] = value[s] /\ cur'[s] = cur[s]
    BY <1>1 DEF OnlyMoves
  <2>2. TraverserInv(s, Q, N, lo, mark) /\ word.trav
    BY <2>1 DEF TravInv
  <2> QED
    BY <2>1, <2>2, TraverserStands
<1>2. \A s \in Thread : pc'[s] \in Traversing <=> pc[s] \in Traversing
  BY DEF OnlyMoves
<1> QED
  BY <1>1, <1>2 DEF TravInv

\* of the one that walks,
LEMMA TravGoes ==
  ASSUME NEW Q \in SUBSET Thread, NEW N \in [Thread -> Int], NEW lo \in Int, NEW mark \in Int,
         NEW P \in SUBSET Thread, NEW M \in [Thread -> Int], NEW low \in Int, NEW first \in Int,
         TravInv(Q, N, lo, mark), NEW t \in Thread, OnlyMoves(t),
         pc[t] \in Traversing \/ ~word.trav, pc'[t] \in Traversing, word'.trav,
         TraverserInv(t, P, M, low, first)'
  PROVE  TravInv(P, M, low, first)'
<1>1. \A s \in Thread : s # t => pc[s] \notin Traversing /\ pc'[s] \notin Traversing
  BY DEF TravInv, OnlyMoves
<1> QED
  BY <1>1 DEF TravInv

\* and of the one that stops.
LEMMA TravStops ==
  ASSUME NEW Q \in SUBSET Thread, NEW N \in [Thread -> Int], NEW lo \in Int, NEW mark \in Int,
         NEW P \in SUBSET Thread, NEW M \in [Thread -> Int], NEW low \in Int, NEW first \in Int,
         TravInv(Q, N, lo, mark), NEW t \in Thread, OnlyMoves(t),
         pc[t] \in Traversing \/ ~word.trav, pc'[t] \notin Traversing, ~word'.trav
  PROVE  TravInv(P, M, low, first)'
<1>1. \A s \in Thread : pc'[s] \notin Traversing
  BY DEF TravInv, OnlyMoves
<1> QED
  BY <1>1 DEF TravInv

-----------------------------------------------------------------------------
(***************************************************************************)
(* Steps that leave the list, and with it the ghosts, as they are.         *)
(***************************************************************************)

\* A walk starts from the head.
LEMMA WalkStarts ==
  ASSUME TypeOK, BaseInv', NEW Q \in SUBSET Thread, NEW N \in [Thread -> Int],
         NEW lo \in Int, NEW mark \in Int,
         ListLinks(Q, N, lo, mark)', NEW t \in Thread, word'.waiters, word'.trav,
         \/ StartOptimize(t, word')
         \/ StartWake(t, word') /\ (word'.owned => Counted' \cup Leaving' = {})
  PROVE  pc'[t] \in Traversing /\ TraverserInv(t, Q, N, lo, mark)'
<1>1. /\ value'[t] = word' /\ cur'[t] = word'.head /\ pc'[t] \in {"optimize", "giveUp", "seek"}
      /\ pc'[t] = "giveUp" => Counted' \cup Leaving' = {}
      /\ pc'[t] = "seek" => ~word'.owned
  BY Types DEF StartOptimize, StartWake, Locals, Go
<1>2. TraverserInv(t, Q, N, lo, mark)'
  BY <1>1, TraverserStarts
<1> QED
  BY <1>1, <1>2 DEF Traversing

\* A step that changes no block and takes none off the list.
QuietMove(t) ==
  /\ OnlyMoves(t) /\ SameBlocks
  /\ word'.waiters = word.waiters /\ (word.waiters => word'.head = word.head)
  /\ word'.multi => word.multi
  /\ t \in Counted /\ word.multi => t \in Counted'
  /\ pc[t] \notin Waking \cup {"sleep"} /\ pc'[t] \notin Waking \cup {"sleep"}

\* The number of owners is kept while there are several.
LEMMA MultiKeeps ==
  ASSUME Known, NEW t \in Thread, OwnersMove(t), word'.multi, word.multi,
         t \in Counted => t \in Counted'
  PROVE  Counted' = Counted
  BY Types DEF Known, BaseInv, WordInv, OwnersMove, SameOwners, Stays, Pushes,
     TakesList, TakesAlone,
     TakesShared, LeavesAlone, LeavesShared, CountsOut, LeavesLast, Free

\* Such a step keeps the same ghosts: no block changes its place.
LEMMA QuietStep ==
  ASSUME Known, BaseInv', NEW Q \in SUBSET Thread, NEW H \in [Thread -> Thread \cup {None}],
         NEW N \in [Thread -> Int], NEW lo \in Int, NEW mark \in Int,
         GhostInv(Q, H, N, lo, mark), NEW t \in Thread, OwnersMove(t), QuietMove(t),
         pc'[t] = "leave" /\ value'[t].waiters =>
           word'.waiters /\ value'[t].multi = word'.multi /\ value'[t].head \in Q,
         pc'[t] \in {"find", "count"} => cur'[t] \in Q,
         pc'[t] = "count" => N[cur'[t]] = lo,
         TravInv(Q, N, lo, mark)'
  PROVE  GhostInv(Q, H, N, lo, mark)'
<1>0. SameOn(Q)
  BY DEF QuietMove, SameBlocks, SameOn
<1> USE <1>0 DEF QuietMove
<1>1. ListLinks(Q, N, lo, mark)'
  BY LinksStand DEF GhostInv
<1>2. MultiInv(Q, N, lo)'
  BY MultiStands, MultiKeeps DEF GhostInv
<1>3. ReadInv(Q, N, lo)'
  <2>1. word' \in Word
    BY DEF BaseInv, TypeOK
  <2> QED
    BY <2>1, ReadStands DEF GhostInv
<1>4. WaitInv(Q, H)'
  BY WaitStands DEF GhostInv
<1>5. WakeInv(H, N)'
  BY WakeStands, ThreadsAssumption DEF GhostInv
<1> QED
  BY <1>1, <1>2, <1>3, <1>4, <1>5 DEF GhostInv

\* A thread that does not walk leaves the traversing bit.
LEMMA OutsiderStep ==
  ASSUME Known, BaseInv', NEW Q \in SUBSET Thread, NEW H \in [Thread -> Thread \cup {None}],
         NEW N \in [Thread -> Int], NEW lo \in Int, NEW mark \in Int,
         GhostInv(Q, H, N, lo, mark), NEW t \in Thread, OwnersMove(t), QuietMove(t),
         pc'[t] = "leave" /\ value'[t].waiters =>
           word'.waiters /\ value'[t].multi = word'.multi /\ value'[t].head \in Q,
         pc'[t] \in {"find", "count"} => cur'[t] \in Q,
         pc'[t] = "count" => N[cur'[t]] = lo,
         pc[t] \notin Traversing, pc'[t] \notin Traversing, word'.trav <=> word.trav
  PROVE  GhostInv(Q, H, N, lo, mark)'
<1>1. word.trav => word'.waiters
  BY DEF Known, BaseInv, WordInv, QuietMove
<1>2. TravInv(Q, N, lo, mark)'
  BY <1>1, TravStands DEF GhostInv, QuietMove, SameBlocks, SameOn
<1> QED
  BY <1>2, QuietStep

\* Blocks that no assignment mentions are the same.
LEMMA BlocksStand ==
  ASSUME UNCHANGED block
  PROVE  SameBlocks
  BY DEF SameBlocks, SameOn

\* Acquiring without waiting, and releasing.
LEMMA OutsiderSteps ==
  ASSUME Known, BaseInv', NEW Q \in SUBSET Thread, NEW H \in [Thread -> Thread \cup {None}],
         NEW N \in [Thread -> Int], NEW lo \in Int, NEW mark \in Int,
         GhostInv(Q, H, N, lo, mark), NEW t \in Thread, OwnersMove(t),
         \/ PhAcquireQueuedLockExclusive(t) \/ PhAcquireQueuedLockShared(t)
         \/ AcquireSlow(t) \/ (PhpPushQueuedWaitBlock(t) /\ word # value[t])
         \/ PhReleaseQueuedLockExclusive(t) \/ PhReleaseQueuedLockShared(t)
         \/ PhfReleaseQueuedLockShared(t) \/ PhpFindLastQueuedWaitBlock(t)
         \/ (PhfWakeForReleaseQueuedLock(t) /\ word # value[t])
         \/ (ReleaseLastShared(t) /\ (word # value[t] \/ value[t].trav))
  PROVE  GhostInv(Q, H, N, lo, mark)'
<1>0. /\ TypeOK /\ WordInv /\ (~word.waiters => ~word.trav /\ ~word.multi) /\ word \in Word
      /\ word.waiters \in BOOLEAN /\ word.trav \in BOOLEAN /\ word.multi \in BOOLEAN
      /\ \A s \in Thread : s \in Counted <=> (pc[s] = "owns" /\ want[s] = "shared")
                                              \/ pc[s] \in {"leave", "find", "count"}
      /\ \A s \in Thread : s \in Counted' <=> (pc'[s] = "owns" /\ want'[s] = "shared")
                                               \/ pc'[s] \in {"leave", "find", "count"}
  BY Types DEF Known, BaseInv, WordInv, Counted, Word
<1> DEFINE Plain == /\ QuietMove(t)
                    /\ pc[t] \notin Traversing /\ pc'[t] \notin Traversing
                    /\ word'.trav <=> word.trav
           Kept == /\ word'.waiters = word.waiters /\ (word.waiters => word'.head = word.head)
                   /\ word'.multi => word.multi
                   /\ word'.trav <=> word.trav
<1>1. CASE PhAcquireQueuedLockExclusive(t)
  <2>1. Plain /\ pc'[t] \notin {"leave", "find", "count"}
    BY <1>0, <1>1, Types, BlocksStand
       DEF PhAcquireQueuedLockExclusive, Go, QuietMove, OnlyMoves, Waking, Traversing, Word
  <2> QED
    BY <2>1, OutsiderStep
<1>2. CASE PhAcquireQueuedLockShared(t)
  <2>1. Plain /\ pc'[t] \notin {"leave", "find", "count"}
    <3>1. Kept
      BY <1>0, <1>2 DEF PhAcquireQueuedLockShared, Free
    <3>2. /\ OnlyMoves(t) /\ SameBlocks
          /\ t \in Counted /\ word.multi => t \in Counted'
          /\ pc[t] \notin Waking \cup {"sleep"} /\ pc'[t] \notin Waking \cup {"sleep"}
          /\ pc[t] \notin Traversing /\ pc'[t] \notin Traversing
          /\ pc'[t] \notin {"leave", "find", "count"}
      BY <1>0, <1>2, Types, BlocksStand
         DEF PhAcquireQueuedLockShared, Go, OnlyMoves, Waking, Traversing
    <3> QED
      BY <3>1, <3>2 DEF QuietMove
  <2> QED
    BY <2>1, OutsiderStep
<1>3. CASE AcquireSlow(t)
  <2>1. Plain /\ pc'[t] \notin {"leave", "find", "count"}
    <3>1. Kept
      <4>1. \/ word' = word \/ word' = [word EXCEPT !.owned = TRUE]
            \/ word' = [word EXCEPT !.owned = TRUE, !.shared = word.shared + 1]
        BY <1>3 DEF AcquireSlow, Swapped, Stale, Taken
      <4> QED
        BY <1>0, <4>1 DEF Word
    <3>2. /\ OnlyMoves(t) /\ SameBlocks
          /\ t \in Counted /\ word.multi => t \in Counted'
          /\ pc[t] \notin Waking \cup {"sleep"} /\ pc'[t] \notin Waking \cup {"sleep"}
          /\ pc[t] \notin Traversing /\ pc'[t] \notin Traversing
          /\ pc'[t] \notin {"leave", "find", "count"}
      BY <1>0, <1>3, Types, BlocksStand
         DEF AcquireSlow, Leave, Locals, Go, OnlyMoves, Waking, Traversing
    <3> QED
      BY <3>1, <3>2 DEF QuietMove
  <2> QED
    BY <2>1, OutsiderStep
<1>4. CASE PhpPushQueuedWaitBlock(t) /\ word # value[t]
  <2>1. Plain /\ pc'[t] \notin {"leave", "find", "count"}
    BY <1>0, <1>4, Types, BlocksStand
       DEF PhpPushQueuedWaitBlock, Swapped, Stale, Locals, QuietMove, OnlyMoves, Waking, Traversing
  <2> QED
    BY <2>1, OutsiderStep
<1>5. CASE PhReleaseQueuedLockExclusive(t)
  <2>1. Plain /\ pc'[t] \notin {"leave", "find", "count"}
    BY <1>0, <1>5, Types, BlocksStand
       DEF PhReleaseQueuedLockExclusive, Leave, Locals, Go, QuietMove, OnlyMoves, Waking, Traversing, Word
  <2> QED
    BY <2>1, OutsiderStep
<1>6. CASE PhReleaseQueuedLockShared(t)
  <2>1. Plain /\ pc'[t] \notin {"find", "count"}
    <3>1. Kept
      BY <1>0, <1>6 DEF PhReleaseQueuedLockShared, Free, Leave
    <3>2. /\ OnlyMoves(t) /\ SameBlocks
          /\ pc[t] = "owns" /\ pc'[t] \in {"idle", "leave"}
      BY <1>0, <1>6, Types, BlocksStand
         DEF PhReleaseQueuedLockShared, Leave, Locals, Go, OnlyMoves
    <3>3. word.multi => pc'[t] = "leave"
      BY <1>0, <1>6, Types DEF PhReleaseQueuedLockShared, Go, Free
    <3> QED
      BY <1>0, <3>1, <3>2, <3>3 DEF QuietMove, Waking, Traversing
  <2>2. pc'[t] = "leave" => value'[t] = word /\ word' = word
    BY <1>0, <1>6, Types DEF PhReleaseQueuedLockShared, Leave, Locals, Go
  <2>3. word.waiters => word.head \in Q
    BY DEF GhostInv, ListLinks
  <2> QED
    BY <2>1, <2>2, <2>3, OutsiderStep
<1>7. CASE PhfReleaseQueuedLockShared(t)
  <2>1. Plain /\ pc'[t] # "count"
    <3>1. Kept
      <4>1. \/ word' = word
            \/ ~word.waiters /\ (word' = Free \/ word' = [word EXCEPT !.shared = word.shared - 1])
        BY <1>7 DEF PhfReleaseQueuedLockShared, Swapped, Stale
      <4>2. CASE ~word.waiters /\ word' = Free
        BY <1>0, <4>2 DEF Free
      <4>3. CASE word' = [word EXCEPT !.shared = word.shared - 1]
        BY <1>0, <4>3 DEF Word
      <4> QED
        BY <4>1, <4>2, <4>3
    <3>2. /\ OnlyMoves(t) /\ SameBlocks
          /\ pc[t] = "leave" /\ pc'[t] \in {"idle", "leave", "find", "last"}
      BY <1>0, <1>7, Types, BlocksStand
         DEF PhfReleaseQueuedLockShared, Swapped, Stale, Leave, Locals, Go, OnlyMoves
    <3>3. word.multi => pc'[t] \in {"leave", "find"}
      <4>1. pc[t] = "leave" /\ value[t].waiters => value[t].multi = word.multi
        BY DEF Known
      <4> QED
        BY <1>0, <1>7, <4>1, Types DEF PhfReleaseQueuedLockShared, Swapped, Stale,
           Go
    <3> QED
      BY <1>0, <3>1, <3>2, <3>3 DEF QuietMove, Waking, Traversing
  <2>2. /\ pc'[t] = "leave" => value'[t] = word /\ word' = word
        /\ pc'[t] = "find" => cur'[t] = value[t].head /\ pc[t] = "leave" /\ value[t].waiters
    BY <1>0, <1>7, Types DEF PhfReleaseQueuedLockShared, Swapped, Stale, Leave,
       Locals, Go
  <2>3. /\ word.waiters => word.head \in Q
        /\ pc[t] = "leave" /\ value[t].waiters => value[t].head \in Q
    BY DEF GhostInv, ListLinks, ReadInv
  <2> QED
    BY <2>1, <2>2, <2>3, OutsiderStep
<1>8. CASE PhpFindLastQueuedWaitBlock(t)
  <2>1. Plain /\ pc'[t] \in {"find", "count"}
    BY <1>0, <1>8, Types, BlocksStand
       DEF PhpFindLastQueuedWaitBlock, Go, QuietMove, OnlyMoves, Waking, Traversing
  <2>2. cur[t] \in Q /\ word.multi
    BY <1>0, <1>8 DEF PhpFindLastQueuedWaitBlock, GhostInv, ReadInv, WordInv
  <2>3. /\ block[cur[t]].last # None =>
             cur'[t] = block[cur[t]].last /\ block[cur[t]].last \in Q /\ N[block[cur[t]].last] = lo
        /\ block[cur[t]].last = None =>
             pc'[t] = "find" /\ cur'[t] = block[cur[t]].next /\ block[cur[t]].next \in Q
    BY <1>0, <1>8, <2>2, Types DEF PhpFindLastQueuedWaitBlock, Go, GhostInv,
       MultiInv, ListLinks
  <2> QED
    BY <2>1, <2>3, OutsiderStep
<1>9. CASE PhfWakeForReleaseQueuedLock(t) /\ word # value[t]
  <2>1. Plain /\ pc'[t] \notin {"leave", "find", "count"}
    BY <1>0, <1>9, Types, BlocksStand
       DEF PhfWakeForReleaseQueuedLock, Swapped, Stale, Leave, Locals, Go, QuietMove, OnlyMoves, Waking, Traversing
  <2> QED
    BY <2>1, OutsiderStep
<1>10. CASE ReleaseLastShared(t) /\ (word # value[t] \/ value[t].trav)
  <2>1. Plain /\ pc'[t] \notin {"leave", "find", "count"}
    <3>1. Kept
      <4>1. \/ word' = word
            \/ word.trav /\ word' = [word EXCEPT !.owned = FALSE, !.multi = FALSE, !.trav = TRUE]
        BY <1>10 DEF ReleaseLastShared, Swapped, Stale
      <4> QED
        BY <1>0, <4>1 DEF Word
    <3>2. /\ OnlyMoves(t) /\ SameBlocks
          /\ t \in Counted /\ word.multi => t \in Counted'
          /\ pc[t] \notin Waking \cup {"sleep"} /\ pc'[t] \notin Waking \cup {"sleep"}
          /\ pc[t] \notin Traversing /\ pc'[t] \notin Traversing
          /\ pc'[t] \notin {"leave", "find", "count"}
      BY <1>0, <1>10, Types, BlocksStand
         DEF ReleaseLastShared, Swapped, Stale, Leave, Locals, Go, OnlyMoves, Waking, Traversing
    <3> QED
      BY <3>1, <3>2 DEF QuietMove
  <2> QED
    BY <2>1, OutsiderStep
<1> QED
  BY <1>1, <1>2, <1>3, <1>4, <1>5, <1>6, <1>7, <1>8, <1>9, <1>10

-----------------------------------------------------------------------------
(***************************************************************************)
(* The traversing bit is taken, given up, or kept.                         *)
(***************************************************************************)

\* A walk that starts, or starts again, from a fresh reading of the word.
LEMMA WalkerStarts ==
  ASSUME Known, BaseInv', NEW Q \in SUBSET Thread, NEW H \in [Thread -> Thread \cup {None}],
         NEW N \in [Thread -> Int], NEW lo \in Int, NEW mark \in Int,
         GhostInv(Q, H, N, lo, mark), NEW t \in Thread, OwnersMove(t), QuietMove(t),
         pc[t] \in Traversing \/ ~word.trav, word.waiters, word'.trav,
         \/ StartOptimize(t, word')
         \/ StartWake(t, word') /\ (word'.owned => Counted' \cup Leaving' = {})
  PROVE  GhostInv(Q, H, N, lo, mark)'
<1>0. TypeOK
  BY DEF Known, BaseInv
<1>1. ListLinks(Q, N, lo, mark)'
  BY LinksStand DEF GhostInv, QuietMove, SameBlocks, SameOn
<1>2. pc'[t] \in Traversing /\ TraverserInv(t, Q, N, lo, mark)'
  BY <1>0, <1>1, WalkStarts DEF QuietMove
<1>3. TravInv(Q, N, lo, mark)'
  BY <1>2, TravGoes DEF GhostInv, QuietMove
<1> QED
  BY <1>2, <1>3, QuietStep DEF Traversing

\* The first reading is that of a releaser.
LEMMA ReleaserSteps ==
  ASSUME Known, BaseInv', NEW Q \in SUBSET Thread, NEW H \in [Thread -> Thread \cup {None}],
         NEW N \in [Thread -> Int], NEW lo \in Int, NEW mark \in Int,
         GhostInv(Q, H, N, lo, mark), NEW t \in Thread, OwnersMove(t),
         \/ PhfWakeForReleaseQueuedLock(t) /\ word = value[t]
         \/ ReleaseLastShared(t) /\ word = value[t] /\ ~value[t].trav
  PROVE  GhostInv(Q, H, N, lo, mark)'
<1>0. TypeOK /\ word \in Word
  BY Types DEF Known, BaseInv
<1>1. CASE PhfWakeForReleaseQueuedLock(t) /\ word = value[t]
  <2>1. /\ pc[t] = "released" /\ word' = [word EXCEPT !.trav = TRUE] /\ StartWake(t, word')
        /\ word.waiters /\ ~word.trav /\ ~word.owned
    BY <1>1 DEF PhfWakeForReleaseQueuedLock, Swapped, Stale, Known, BaseInv, WordInv
  <2>2. /\ word'.waiters = word.waiters /\ word'.head = word.head /\ word'.trav
        /\ word'.multi = word.multi /\ ~word'.owned
    BY <1>0, <2>1 DEF Word
  <2>3. OnlyMoves(t) /\ pc'[t] = "seek" /\ SameBlocks
    BY <1>0, <1>1, <2>1, <2>2, Types, BlocksStand
       DEF StartWake, Locals, Go, OnlyMoves, PhfWakeForReleaseQueuedLock
  <2>4. QuietMove(t)
    BY <2>1, <2>2, <2>3 DEF QuietMove, Waking, Counted
  <2> QED
    BY <2>1, <2>2, <2>4, WalkerStarts
<1>2. CASE ReleaseLastShared(t) /\ word = value[t] /\ ~value[t].trav
  <2>1. /\ pc[t] = "last" /\ StartWake(t, word')
        /\ word' = [word EXCEPT !.owned = FALSE, !.multi = FALSE, !.trav = TRUE]
        /\ word.waiters /\ ~word.trav
    BY <1>2 DEF ReleaseLastShared, Swapped, Stale, Known, BaseInv, WordInv
  <2>2. /\ word'.waiters = word.waiters /\ word'.head = word.head /\ word'.trav
        /\ ~word'.multi /\ ~word'.owned
    BY <1>0, <2>1 DEF Word
  <2>3. OnlyMoves(t) /\ pc'[t] = "seek" /\ SameBlocks
    BY <1>0, <1>2, <2>1, <2>2, Types, BlocksStand
       DEF StartWake, Locals, Go, OnlyMoves, ReleaseLastShared
  <2>4. QuietMove(t)
    BY <2>1, <2>2, <2>3 DEF QuietMove, Waking, Counted
  <2> QED
    BY <2>1, <2>2, <2>4, WalkerStarts
<1> QED
  BY <1>1, <1>2

\* A walk that failed to change the word, or that is over.
LEMMA WalkerSteps ==
  ASSUME Known, BaseInv', NEW Q \in SUBSET Thread, NEW H \in [Thread -> Thread \cup {None}],
         NEW N \in [Thread -> Int], NEW lo \in Int, NEW mark \in Int,
         GhostInv(Q, H, N, lo, mark), NEW t \in Thread, OwnersMove(t),
         \/ FinishOptimize(t) \/ GiveUpWake(t)
         \/ /\ PhpPrepareToWakeQueuedLock(t) /\ word # value[t]
            /\ ~(block[cur[t]].exclusive /\ block[cur[t]].prev # None)
  PROVE  GhostInv(Q, H, N, lo, mark)'
<1>0. TypeOK /\ word \in Word /\ SameBlocks /\ pc[t] \in {"optimized", "giveUp", "take"}
  BY Types, BlocksStand DEF Known, BaseInv, FinishOptimize, GiveUpWake,
     PhpPrepareToWakeQueuedLock
<1>1. pc[t] \in Traversing /\ word.trav /\ word.waiters /\ t \notin Counted
  BY <1>0 DEF Traversing, GhostInv, TravInv, TraverserInv, Counted
<1>2. CASE word = value[t]
  <2>1. Return(t) /\ word' = [word EXCEPT !.trav = FALSE]
    BY <1>2 DEF FinishOptimize, GiveUpWake, Swapped, Stale
  <2>2. word'.waiters = word.waiters /\ word'.head = word.head /\ ~word'.trav /\ word'.multi = word.multi
    BY <1>0, <2>1 DEF Word
  <2>3. OnlyMoves(t) /\ pc'[t] \in {"idle", "block"}
    BY <1>0, <2>1, Types DEF Return, Leave, Locals, Go, OnlyMoves
  <2>4. QuietMove(t)
    BY <1>0, <1>1, <2>2, <2>3 DEF QuietMove, Waking
  <2>5. TravInv(Q, N, lo, mark)'
    BY <1>1, <2>2, <2>3, TravStops DEF GhostInv, Traversing
  <2> QED
    BY <2>3, <2>4, <2>5, QuietStep
<1>3. CASE word # value[t]
  <2>1. /\ word' = word
        /\ \/ StartOptimize(t, word')
           \/ StartWake(t, word') /\ pc[t] \in {"giveUp", "take"}
    BY <1>3 DEF FinishOptimize, GiveUpWake, PhpPrepareToWakeQueuedLock, Swapped,
       Stale
  <2>2. pc[t] \in {"giveUp", "take"} => Counted' \cup Leaving' = {}
    <3>1. pc[t] \in {"giveUp", "take"} => Counted \cup Leaving = {}
      BY <1>1 DEF GhostInv, TravInv, TraverserInv
    <3> QED
      BY <1>1, <3>1, NoSharersCome
  <2>3. OnlyMoves(t) /\ pc'[t] \in {"optimize", "giveUp", "seek"}
    BY <1>0, <2>1, Types DEF StartOptimize, StartWake, Locals, Go, OnlyMoves
  <2>4. QuietMove(t)
    BY <1>0, <1>1, <2>1, <2>3 DEF QuietMove, Waking
  <2> QED
    BY <1>1, <2>1, <2>2, <2>4, WalkerStarts
<1> QED
  BY <1>2, <1>3

-----------------------------------------------------------------------------
(***************************************************************************)
(* Walking.                                                                *)
(***************************************************************************)

\* Back links that are written in the list.
LEMMA WakeKeeps ==
  ASSUME NEW Q \in SUBSET Thread, NEW H \in [Thread -> Thread \cup {None}],
         NEW N \in [Thread -> Int], None \notin Thread,
         WakeInv(H, N), NEW t \in Thread, OnlyMoves(t),
         pc[t] \notin Waking, pc'[t] \notin Waking,
         \A b \in Thread : block'[b].spinning => block[b].spinning,
         \A b \in Thread : H[b] # None => block'[b].prev = block[b].prev
  PROVE  WakeInv(H, N)'
<1>1. \A b \in Thread : H[b] # None => H[b] # t /\ H[b] \in Thread
  BY DEF WakeInv
<1>2. ASSUME NEW s \in Thread, pc'[s] \in Waking
      PROVE  /\ cur'[s] \in Thread /\ H[cur'[s]] = s
             /\ pc'[s] = "unlinked" => block'[cur'[s]].prev = None
             /\ pc'[s] = "signal" => ~block'[cur'[s]].spinning
  BY <1>2 DEF WakeInv, OnlyMoves
<1>3. ASSUME NEW b \in Thread, H[b] # None
      PROVE  /\ pc'[H[b]] \in Waking /\ N[cur'[H[b]]] <= N[b]
             /\ block'[b].prev = block[b].prev
  BY <1>1, <1>3 DEF WakeInv, OnlyMoves
<1> QED
  BY <1>2, <1>3 DEF WakeInv

\* A walk moves on by one block, which it links back.
LEMMA AdvanceStep ==
  ASSUME Known, NEW Q \in SUBSET Thread, NEW H \in [Thread -> Thread \cup {None}],
         NEW N \in [Thread -> Int], NEW lo \in Int, NEW mark \in Int,
         GhostInv(Q, H, N, lo, mark), NEW t \in Thread,
         pc[t] \in {"optimize", "seek"}, Advance(t), UNCHANGED <<word, pc, want, value>>
  PROVE  GhostInv(Q, H, N, lo, mark)'
<1> DEFINE c == cur[t]
           n == block[c].next
<1>0. TypeOK /\ None \notin Thread
  BY Types DEF Known, BaseInv
<1>1. TraverserInv(t, Q, N, lo, mark) /\ word.trav /\ word.waiters
  BY DEF Traversing, GhostInv, TravInv, TraverserInv
<1>2. c \in Q /\ mark < N[c] /\ N[c] <= N[value[t].head] /\ lo <= mark /\ value[t].head \in Q
  <2>1. /\ c \in Q /\ mark <= N[c] /\ N[c] <= N[value[t].head] /\ value[t].head \in Q
        /\ block[c].last = None
    BY <1>1 DEF Advance, TraverserInv
  <2>2. lo <= mark /\ N[c] # mark
    BY <1>0, <1>1, <2>1 DEF GhostInv, ListLinks
  <2> HIDE DEF c
  <2> QED
    BY <2>1, <2>2
<1>3. n \in Q /\ N[n] = N[c] - 1 /\ n # c /\ N[n] \in Int /\ N[c] \in Int
  BY <1>2 DEF GhostInv, ListLinks
<1>4. cur'[t] = n /\ \A s \in Thread : s # t => cur'[s] = cur[s]
  BY <1>0, Types DEF Advance
<1>5. \A b \in Thread :
        /\ block'[b].prev = IF b = n THEN c ELSE block[b].prev
        /\ block'[b].next = block[b].next /\ block'[b].last = block[b].last
        /\ block'[b].owners = block[b].owners /\ block'[b].used = block[b].used
        /\ block'[b].spinning = block[b].spinning
  BY <1>0, AdvanceFields
<1> HIDE DEF c, n
<1>6. Counted' = Counted /\ Leaving' = Leaving
  BY DEF Counted, Leaving
<1>7. ListLinks(Q, N, lo, mark)'
  <2>1. c # None
    BY <1>0, <1>2
  <2> QED
    BY <1>2, <1>3, <1>5, <2>1 DEF GhostInv, ListLinks
<1>8. MultiInv(Q, N, lo)'
  BY <1>5, <1>6 DEF GhostInv, MultiInv
<1>9. ReadInv(Q, N, lo)'
  BY <1>4 DEF GhostInv, ReadInv
<1>10. WaitInv(Q, H)'
  BY <1>5 DEF GhostInv, WaitInv
<1>11. OnlyMoves(t) /\ pc[t] \notin Waking /\ pc'[t] \notin Waking
  BY <1>4 DEF OnlyMoves, Waking
<1>12. WakeInv(H, N)'
  <2>1. \A b \in Thread : H[b] # None => block'[b].prev = block[b].prev
    BY <1>3, <1>5 DEF GhostInv, WaitInv
  <2> QED
    BY <1>0, <1>5, <1>11, <2>1, WakeKeeps DEF GhostInv
<1>13. TraverserInv(t, Q, N, lo, mark)'
  <2>1. \A b \in Q : N[b] >= N[value[t].head] => block'[b].prev = None
    BY <1>1, <1>2, <1>3, <1>5 DEF TraverserInv
  <2>2. \A b \in Q : N[n] <= N[b] /\ N[b] < N[value[t].head] => block'[b].prev # None
    <3>1. ASSUME NEW b \in Q, b # n, N[n] <= N[b], N[b] < N[value[t].head]
          PROVE  block'[b].prev # None
      <4>1. N[b] # N[n]
        BY <1>3, <3>1 DEF GhostInv, ListLinks
      <4>2. N[c] <= N[b]
        BY <1>3, <3>1, <4>1
      <4> QED
        BY <1>1, <1>5, <3>1, <4>2 DEF TraverserInv, c
    <3>2. block'[n].prev # None
      BY <1>0, <1>2, <1>3, <1>5
    <3> QED
      BY <3>1, <3>2
  <2>3. mark <= N[n] /\ N[n] <= N[value[t].head]
    BY <1>2, <1>3
  <2> QED
    BY <1>1, <1>3, <1>4, <1>6, <2>1, <2>2, <2>3 DEF TraverserInv
<1>14. TravInv(Q, N, lo, mark)'
  BY <1>1, <1>11, <1>13, TravGoes DEF GhostInv, Traversing
<1> QED
  BY <1>7, <1>8, <1>9, <1>10, <1>12, <1>14 DEF GhostInv

\* The optimizing walk is over: the head points to the last block.
LEMMA OptimizedStep ==
  ASSUME Known, NEW Q \in SUBSET Thread, NEW H \in [Thread -> Thread \cup {None}],
         NEW N \in [Thread -> Int], NEW lo \in Int, NEW mark \in Int,
         GhostInv(Q, H, N, lo, mark), NEW t \in Thread,
         pc[t] = "optimize", block[cur[t]].last # None,
         block' = [block EXCEPT ![value[t].head].last = block[cur[t]].last],
         Go(t, "optimized"), UNCHANGED <<word, want, value, cur>>,
         NEW m \in Int, m = N[value[t].head]
  PROVE  GhostInv(Q, H, N, lo, m)'
<1> DEFINE h == value[t].head
           l == block[cur[t]].last
<1>0. TypeOK /\ None \notin Thread
  BY Types DEF Known, BaseInv
<1>1. TraverserInv(t, Q, N, lo, mark) /\ word.trav /\ word.waiters
  BY DEF Traversing, GhostInv, TravInv, TraverserInv
<1>2. /\ cur[t] \in Q /\ N[cur[t]] = mark /\ h \in Q /\ lo <= mark /\ mark <= m /\ N[h] = m
      /\ m <= N[word.head] /\ l \in Q /\ N[l] = lo
  BY <1>1 DEF TraverserInv, GhostInv, ListLinks
<1>3. \A b \in Q : N[b] < m => block[b].prev # None
  BY <1>1, <1>2 DEF TraverserInv, GhostInv, ListLinks
<1>4. \A b \in Thread :
        /\ block'[b].last = IF b = h THEN l ELSE block[b].last
        /\ block'[b].next = block[b].next /\ block'[b].prev = block[b].prev
        /\ block'[b].owners = block[b].owners /\ block'[b].used = block[b].used
        /\ block'[b].spinning = block[b].spinning
  BY <1>0, OptimizedFields
<1>5. /\ OnlyMoves(t) /\ pc'[t] = "optimized" /\ (\A s \in Thread : s # t => pc'[s] = pc[s])
      /\ Counted' = Counted /\ Leaving' = Leaving
  BY <1>0, Types DEF Go, OnlyMoves, Counted, Leaving
<1> HIDE DEF h, l
<1>6. ListLinks(Q, N, lo, m)'
  <2>1. ListLinks(Q, N, lo, mark)
    BY DEF GhostInv
  <2>2. \A b \in Q : N[b] = m => b = h
    BY <1>2, <2>1 DEF ListLinks
  <2>3. /\ \A b \in Q : N[b] > m => block'[b].last = None
        /\ \A b \in Q : N[b] = m => block'[b].last \in Q /\ N[block'[b].last] = lo
    BY <1>2, <1>4, <2>1, <2>2 DEF ListLinks
  <2>4. lo <= m
    BY <1>2
  <2>5. \A b \in Q : N[b] > lo => block'[b].next \in Q /\ N[block'[b].next] = N[b] - 1
    BY <1>4, <2>1 DEF ListLinks
  <2>6. \A b \in Q : block'[b].prev # None =>
          block'[b].prev \in Q /\ N[block'[b].prev] = N[b] + 1
    BY <1>4, <2>1 DEF ListLinks
  <2>7. \A b \in Q : N[b] < m => block'[b].prev # None
    BY <1>3, <1>4
  <2> QED
    BY <1>2, <2>1, <2>3, <2>4, <2>5, <2>6, <2>7 DEF ListLinks
<1>7. MultiInv(Q, N, lo)'
  BY <1>0, <1>2, <1>4, <1>5 DEF GhostInv, MultiInv
<1>8. ReadInv(Q, N, lo)'
  BY <1>5 DEF GhostInv, ReadInv
<1>9. WaitInv(Q, H)'
  BY <1>4, <1>5 DEF GhostInv, WaitInv
<1>10. WakeInv(H, N)'
  BY <1>0, <1>4, <1>5, WakeKeeps DEF GhostInv, Waking
<1>11. TraverserInv(t, Q, N, lo, m)'
  BY <1>1, <1>2, <1>4, <1>5 DEF TraverserInv, h
<1>12. TravInv(Q, N, lo, m)'
  BY <1>1, <1>5, <1>11, TravGoes DEF GhostInv, Traversing
<1> QED
  BY <1>6, <1>7, <1>8, <1>9, <1>10, <1>12 DEF GhostInv

\* The walk to the last block is over.
LEMMA SoughtStep ==
  ASSUME Known, BaseInv', NEW Q \in SUBSET Thread, NEW H \in [Thread -> Thread \cup {None}],
         NEW N \in [Thread -> Int], NEW lo \in Int, NEW mark \in Int,
         GhostInv(Q, H, N, lo, mark), NEW t \in Thread, OwnersMove(t),
         pc[t] = "seek", block[cur[t]].last # None,
         cur' = [cur EXCEPT ![t] = block[cur[t]].last],
         Go(t, "take"), UNCHANGED <<word, block, want, value>>
  PROVE  GhostInv(Q, H, N, lo, mark)'
<1> DEFINE l == block[cur[t]].last
<1>0. TypeOK /\ SameBlocks
  BY BlocksStand DEF Known, BaseInv
<1>1. TraverserInv(t, Q, N, lo, mark) /\ word.trav /\ word.waiters
  BY DEF Traversing, GhostInv, TravInv, TraverserInv
<1>2. cur[t] \in Q /\ N[cur[t]] = mark /\ l \in Q /\ N[l] = lo
  BY <1>1 DEF TraverserInv, GhostInv, ListLinks
<1>3. \A b \in Q : N[b] < N[value[t].head] => block[b].prev # None
  BY <1>1, <1>2 DEF TraverserInv, GhostInv, ListLinks
<1>4. /\ OnlyMoves(t) /\ pc'[t] = "take" /\ cur'[t] = l
      /\ Counted' = Counted /\ Leaving' = Leaving
  BY <1>0, Types DEF Go, OnlyMoves, Counted, Leaving
<1> HIDE DEF l
<1>5. TraverserInv(t, Q, N, lo, mark)'
  BY <1>1, <1>2, <1>3, <1>4 DEF TraverserInv
<1>6. TravInv(Q, N, lo, mark)'
  BY <1>1, <1>4, <1>5, TravGoes DEF GhostInv, Traversing
<1>7. QuietMove(t)
  BY <1>0, <1>4 DEF QuietMove, Waking
<1> QED
  BY <1>4, <1>6, <1>7, QuietStep

-----------------------------------------------------------------------------
(***************************************************************************)
(* Counting shared owners, and blocking.                                   *)
(***************************************************************************)

\* The last block has one owner less.
LEMMA DecrementStep ==
  ASSUME Known, BaseInv', NEW Q \in SUBSET Thread, NEW H \in [Thread -> Thread \cup {None}],
         NEW N \in [Thread -> Int], NEW lo \in Int, NEW mark \in Int,
         GhostInv(Q, H, N, lo, mark), NEW t \in Thread, OwnersMove(t), DecrementSharedOwners(t)
  PROVE  GhostInv(Q, H, N, lo, mark)'
<1> DEFINE c == cur[t]
<1>0. TypeOK /\ None \notin Thread /\ word' = word
  BY Types DEF Known, BaseInv, DecrementSharedOwners
<1>1. c \in Q /\ N[c] = lo /\ word.multi /\ word.waiters /\ block[c].owners = Cardinality(Counted)
  BY <1>0 DEF DecrementSharedOwners, GhostInv, ReadInv, MultiInv, Known, BaseInv,
     WordInv
<1>2. /\ OnlyMoves(t) /\ pc[t] = "count" /\ pc'[t] \in {"idle", "last"}
      /\ \A s \in Thread : s # t => pc'[s] = pc[s]
  BY <1>0, Types DEF DecrementSharedOwners, Leave, Locals, Go, OnlyMoves
<1>3. Counted' = Counted \ {t} /\ t \in Counted
  <2>1. want' = want
    BY DEF DecrementSharedOwners
  <2> QED
    BY <1>2, <2>1 DEF Counted
<1>4. Cardinality(Counted') = Cardinality(Counted) - 1
  BY <1>3, CountedOwners, OneLess
<1>5. \A b \in Thread :
        /\ block'[b].owners = IF b = c THEN block[b].owners - 1 ELSE block[b].owners
        /\ block'[b].next = block[b].next /\ block'[b].prev = block[b].prev
        /\ block'[b].last = block[b].last
        /\ block'[b].spinning = block[b].spinning /\ block'[b].used = block[b].used
  BY <1>0, Types, SetOwners DEF DecrementSharedOwners
<1> HIDE DEF c
<1>6. ListLinks(Q, N, lo, mark)'
  BY <1>0, <1>5 DEF GhostInv, ListLinks
<1>7. MultiInv(Q, N, lo)'
  <2>1. \A b \in Q : N[b] = lo => b = c
    BY <1>1 DEF GhostInv, ListLinks
  <2> QED
    BY <1>0, <1>1, <1>4, <1>5, <2>1 DEF GhostInv, MultiInv
<1>8. ReadInv(Q, N, lo)'
  BY <1>0, <1>2, ReadStands DEF GhostInv, BaseInv, TypeOK
<1>9. WaitInv(Q, H)'
  BY <1>2, <1>5 DEF GhostInv, WaitInv
<1>10. WakeInv(H, N)'
  BY <1>0, <1>2, <1>5, WakeKeeps DEF GhostInv, Waking
<1>11. TravInv(Q, N, lo, mark)'
  <2>1. \A s \in Thread : /\ pc'[s] \in Traversing <=> pc[s] \in Traversing
                          /\ pc[s] \in Traversing => /\ pc'[s] = pc[s]
                                                     /\ value'[s] = value[s] /\ cur'[s] = cur[s]
    BY <1>2 DEF OnlyMoves, Traversing
  <2>2. \A s \in Thread : pc[s] \in Traversing => TraverserInv(s, Q, N, lo, mark)'
    <3>1. Counted \cup Leaving = {} => Counted' \cup Leaving' = {}
      BY <1>3
    <3> QED
      BY <1>0, <1>5, <2>1, <3>1 DEF GhostInv, TravInv, TraverserInv
  <2> QED
    BY <1>0, <2>1, <2>2 DEF GhostInv, TravInv
<1> QED
  BY <1>6, <1>7, <1>8, <1>9, <1>10, <1>11 DEF GhostInv

\* A waiter that still spins goes to sleep, and one that was woken goes on.
LEMMA BlockStep ==
  ASSUME Known, BaseInv', NEW Q \in SUBSET Thread, NEW H \in [Thread -> Thread \cup {None}],
         NEW N \in [Thread -> Int], NEW lo \in Int, NEW mark \in Int,
         GhostInv(Q, H, N, lo, mark), NEW t \in Thread, OwnersMove(t), PhpBlockOnQueuedWaitBlock(t)
  PROVE  GhostInv(Q, H, N, lo, mark)'
<1>0. TypeOK /\ None \notin Thread /\ word' = word /\ pc[t] = "block" /\ block[t].used
  BY Types DEF Known, BaseInv, PlaceInv, PhpBlockOnQueuedWaitBlock
<1>1. /\ OnlyMoves(t) /\ pc'[t] \in {"acquire", "sleep"}
      /\ \A s \in Thread : s # t => pc'[s] = pc[s]
  BY <1>0, Types DEF PhpBlockOnQueuedWaitBlock, Locals, Go, OnlyMoves
<1>2. Counted' = Counted
  <2>1. want' = want
    BY DEF PhpBlockOnQueuedWaitBlock
  <2> QED
    BY <1>0, <1>1, <2>1 DEF Counted
<1>3. /\ \A b \in Thread \ {t} :
           /\ block'[b].owners = block[b].owners
           /\ block'[b].next = block[b].next /\ block'[b].prev = block[b].prev
           /\ block'[b].last = block[b].last
           /\ block'[b].spinning = block[b].spinning /\ block'[b].used = block[b].used
      /\ ~block'[t].spinning
      /\ block[t].spinning => /\ pc'[t] = "sleep"
                              /\ block'[t].owners = block[t].owners
                              /\ block'[t].next = block[t].next /\ block'[t].prev = block[t].prev
                              /\ block'[t].last = block[t].last /\ block'[t].used
      /\ ~block[t].spinning => pc'[t] = "acquire" /\ ~block'[t].used
  <2>1. CASE block[t].spinning
    <3>1. block' = [block EXCEPT ![t].spinning = FALSE] /\ pc'[t] = "sleep"
      BY <1>0, <2>1, Types DEF PhpBlockOnQueuedWaitBlock, Go
    <3> QED
      BY <1>0, <2>1, <3>1, Types, SetSpinning
  <2>2. CASE ~block[t].spinning
    <3>1. block' = [block EXCEPT ![t] = NoBlock] /\ pc'[t] = "acquire"
      BY <1>0, <2>2, Types DEF PhpBlockOnQueuedWaitBlock, Go
    <3> QED
      BY <1>0, <2>2, <3>1, Types DEF NoBlock
  <2> QED
    BY <2>1, <2>2
<1>4. ~block[t].spinning => t \notin Q /\ H[t] = None
  BY <1>0 DEF GhostInv, WaitInv
<1>5. \A b \in Q : /\ block'[b].next = block[b].next /\ block'[b].prev = block[b].prev
                   /\ block'[b].last = block[b].last /\ block'[b].owners = block[b].owners
  BY <1>3, <1>4
<1>6. ListLinks(Q, N, lo, mark)'
  BY <1>0, <1>5 DEF GhostInv, ListLinks
<1>7. MultiInv(Q, N, lo)'
  BY <1>0, <1>2, <1>5 DEF GhostInv, MultiInv
<1>8. ReadInv(Q, N, lo)'
  BY <1>0, <1>1, ReadStands DEF GhostInv, BaseInv, TypeOK
<1>9. WaitInv(Q, H)'
  BY <1>0, <1>1, <1>3, <1>4 DEF GhostInv, WaitInv
<1>10. WakeInv(H, N)'
  <2>1. \A b \in Thread : H[b] # None => block'[b].prev = block[b].prev
    BY <1>3, <1>4
  <2>2. \A b \in Thread : block'[b].spinning => block[b].spinning
    BY <1>3
  <2> QED
    BY <1>0, <1>1, <2>1, <2>2, WakeKeeps DEF GhostInv, Waking
<1>11. TravInv(Q, N, lo, mark)'
  <2>1. \A s \in Thread : /\ pc'[s] \in Traversing <=> pc[s] \in Traversing
                          /\ pc[s] \in Traversing => /\ pc'[s] = pc[s]
                                                     /\ value'[s] = value[s] /\ cur'[s] = cur[s]
    BY <1>0, <1>1 DEF OnlyMoves, Traversing
  <2>2. \A s \in Thread : pc[s] \in Traversing => TraverserInv(s, Q, N, lo, mark)'
    <3>1. Leaving' = Leaving
      BY <1>0, <1>1 DEF Leaving
    <3> QED
      BY <1>0, <1>2, <1>5, <2>1, <3>1 DEF GhostInv, TravInv, TraverserInv
  <2> QED
    BY <1>0, <2>1, <2>2 DEF GhostInv, TravInv
<1> QED
  BY <1>6, <1>7, <1>8, <1>9, <1>10, <1>11 DEF GhostInv

-----------------------------------------------------------------------------
(***************************************************************************)
(* Waking.                                                                 *)
(***************************************************************************)

\* A waker turns to the block it has, and the traversing bit may be given up.
LEMMA WakerTurns ==
  ASSUME Known, BaseInv', NEW Q \in SUBSET Thread, NEW H \in [Thread -> Thread \cup {None}],
         NEW N \in [Thread -> Int], NEW lo \in Int, NEW mark \in Int,
         GhostInv(Q, H, N, lo, mark), NEW t \in Thread, OwnersMove(t),
         \/ ClearTraversing(t)
         \/ PhpUnblockQueuedWaitBlock(t) /\ ~block[cur[t]].spinning
  PROVE  GhostInv(Q, H, N, lo, mark)'
<1>0. TypeOK /\ None \notin Thread /\ word \in Word /\ SameBlocks
  BY Types, BlocksStand DEF Known, BaseInv, ClearTraversing,
     PhpUnblockQueuedWaitBlock
<1>1. /\ word'.waiters = word.waiters /\ word'.head = word.head /\ word'.multi = word.multi
      /\ value' = value /\ cur' = cur
      /\ \/ pc[t] = "unlinked" /\ ~word'.trav /\ pc'[t] = "wake"
         \/ pc[t] = "wake" /\ word'.trav = word.trav /\ pc'[t] = "signal" /\ ~block'[cur[t]].spinning
      /\ \A s \in Thread : s # t => pc'[s] = pc[s]
  BY <1>0, Types DEF ClearTraversing, PhpUnblockQueuedWaitBlock, Go, Word
<1>2. OnlyMoves(t)
  BY <1>1 DEF OnlyMoves
<1>3. Counted' = Counted /\ Leaving' = Leaving
  <2>1. want' = want
    BY DEF ClearTraversing, PhpUnblockQueuedWaitBlock
  <2> QED
    BY <1>1, <2>1 DEF Counted, Leaving
<1>4. SameOn(Q)
  BY <1>0 DEF SameBlocks, SameOn
<1>5. ListLinks(Q, N, lo, mark)'
  BY <1>1, <1>4, LinksStand DEF GhostInv
<1>6. MultiInv(Q, N, lo)'
  BY <1>1, <1>3, <1>4, MultiStands DEF GhostInv
<1>7. ReadInv(Q, N, lo)'
  BY <1>1, <1>2, ReadStands DEF GhostInv, BaseInv, TypeOK
<1>8. WaitInv(Q, H)'
  BY <1>0, <1>1, <1>2, WaitStands DEF GhostInv
<1>9. WakeInv(H, N)'
  <2>1. \A s \in Thread : pc'[s] \in Waking <=> pc[s] \in Waking
    BY <1>1 DEF Waking
  <2>2. \A b \in Thread : block'[b].prev = block[b].prev /\ block'[b].spinning = block[b].spinning
    BY <1>0 DEF SameBlocks, SameOn
  <2>3. ASSUME NEW s \in Thread, pc'[s] \in Waking
        PROVE  /\ cur'[s] \in Thread /\ H[cur'[s]] = s
               /\ pc'[s] = "unlinked" => block'[cur'[s]].prev = None
               /\ pc'[s] = "signal" => ~block'[cur'[s]].spinning
    BY <1>1, <2>1, <2>2, <2>3 DEF GhostInv, WakeInv
  <2>4. \A b \in Thread : H[b] # None => H[b] \in Thread
    OBVIOUS
  <2> QED
    BY <1>1, <2>1, <2>2, <2>3, <2>4 DEF GhostInv, WakeInv
<1>10. TravInv(Q, N, lo, mark)'
  <2>1. CASE pc[t] = "unlinked" /\ ~word'.trav /\ pc'[t] = "wake"
    BY <1>2, <2>1, TravStops DEF GhostInv, Traversing
  <2>2. CASE pc[t] = "wake" /\ word'.trav = word.trav /\ pc'[t] = "signal"
    <3>1. word.trav => word'.waiters
      BY <1>1 DEF Known, BaseInv, WordInv
    <3> QED
      BY <1>2, <1>4, <2>2, <3>1, TravStands DEF GhostInv, Traversing
  <2> QED
    BY <1>1, <2>1, <2>2
<1> QED
  BY <1>5, <1>6, <1>7, <1>8, <1>9, <1>10 DEF GhostInv

\* A thread has woken the block "c": it goes on with the next one, if there is one,
\* and the block is its thread's again.
Wakes(t, c) ==
  /\ c = cur[t] /\ pc[t] \in {"wake", "signal"}
  /\ pc'[t] \in {"wake", "idle", "block"}
  /\ block[c].prev # None => pc'[t] = "wake" /\ cur'[t] = block[c].prev
  /\ block[c].prev = None => pc'[t] # "wake"
  /\ \A s \in Thread : s \notin {c, t} => pc'[s] = pc[s]
  /\ c # t => pc'[c] = pc[c] \/ (pc[c] = "sleep" /\ pc'[c] = "acquire")
  /\ \A s \in Thread : s # t /\ pc[s] # "sleep" => value'[s] = value[s] /\ cur'[s] = cur[s]
  /\ SameOn(Thread \ {c}) /\ ~block'[c].spinning /\ pc'[c] # "sleep"
  /\ word' = word /\ want' = want

\* The other blocks are still with their wakers.
LEMMA WakerGoesOn ==
  ASSUME NEW H \in [Thread -> Thread \cup {None}], NEW N \in [Thread -> Int], None \notin Thread,
         WakeInv(H, N), NEW t \in Thread, NEW c \in Thread, Wakes(t, c),
         NEW G, G = [H EXCEPT ![c] = None]
  PROVE  WakeInv(G, N)'
<1> /\ G \in [Thread -> Thread \cup {None}]
    /\ \A b \in Thread : G[b] = IF b = c THEN None ELSE H[b]
  OBVIOUS
<1> DEFINE p == block[c].prev
<1>0. /\ pc[t] \in {"wake", "signal"} /\ c = cur[t]
      /\ p # None => pc'[t] = "wake" /\ cur'[t] = p
      /\ p = None => pc'[t] \notin Waking
      /\ \A b \in Thread : b # c => /\ block'[b].prev = block[b].prev
                                    /\ block'[b].spinning = block[b].spinning
      /\ \A s \in Thread : s # t =>
           /\ pc'[s] \in Waking <=> pc[s] \in Waking
           /\ pc[s] \in Waking => pc'[s] = pc[s] /\ cur'[s] = cur[s]
  BY DEF Wakes, SameOn, Waking
<1>1. H[c] = t /\ (p # None => p \in Thread /\ H[p] = t /\ N[p] = N[c] + 1)
  BY <1>0 DEF WakeInv, Waking
<1>2. ASSUME NEW b \in Thread, H[b] = t, b # c
      PROVE  N[c] + 1 <= N[b] /\ p # None
  <2>1. N[c] <= N[b] /\ N[b] # N[c] /\ (p = None => N[b] <= N[c])
    BY <1>0, <1>1, <1>2 DEF WakeInv
  <2>2. \A x, y \in Int : x <= y /\ x # y => x + 1 <= y /\ ~(y <= x)
    OBVIOUS
  <2>3. N[c] \in Int /\ N[b] \in Int
    OBVIOUS
  <2> QED
    BY <2>1, <2>2, <2>3
<1>3. ASSUME NEW s \in Thread, pc'[s] \in Waking
      PROVE  /\ cur'[s] \in Thread /\ G[cur'[s]] = s
             /\ pc'[s] = "unlinked" => block'[cur'[s]].prev = None
             /\ pc'[s] = "signal" => ~block'[cur'[s]].spinning
  <2>1. CASE s = t
    BY <1>0, <1>1, <1>3, <2>1
  <2>2. CASE s # t
    <3>1. pc'[s] = pc[s] /\ cur'[s] = cur[s] /\ pc[s] \in Waking
      BY <1>0, <1>3, <2>2
    <3>2. cur[s] \in Thread /\ H[cur[s]] = s /\ cur[s] # c
      BY <1>1, <2>2, <3>1 DEF WakeInv
    <3> QED
      BY <1>0, <3>1, <3>2 DEF WakeInv
  <2> QED
    BY <2>1, <2>2
<1>4. ASSUME NEW b \in Thread, G[b] # None
      PROVE  /\ pc'[G[b]] \in Waking
             /\ N[cur'[G[b]]] <= N[b]
             /\ block'[b].prev # None =>
                  block'[b].prev \in Thread /\ G[block'[b].prev] = G[b] /\ N[block'[b].prev] = N[b] + 1
             /\ block'[b].prev = None => \A d \in Thread : G[d] = G[b] => N[d] <= N[b]
  <2>1. b # c /\ G[b] = H[b] /\ H[b] \in Thread /\ block'[b].prev = block[b].prev
    BY <1>0, <1>4
  <2>2. pc'[H[b]] \in Waking /\ N[cur'[H[b]]] <= N[b]
    <3>1. CASE H[b] = t
      BY <1>0, <1>1, <1>2, <2>1, <3>1 DEF Waking
    <3>2. CASE H[b] # t
      BY <1>0, <2>1, <3>2 DEF WakeInv
    <3> QED
      BY <3>1, <3>2
  <2>3. block[b].prev # None => block[b].prev # c
    <3>1. SUFFICES ASSUME block[b].prev = c PROVE FALSE
      BY <2>1
    <3>2. H[c] = H[b] /\ N[c] = N[b] + 1
      BY <2>1, <3>1 DEF WakeInv
    <3> QED
      BY <1>1, <1>2, <2>1, <3>2
  <2> QED
    BY <2>1, <2>2, <2>3 DEF WakeInv
<1>5. \A b, d \in Thread : G[b] # None /\ G[b] = G[d] /\ N[b] = N[d] => b = d
  BY DEF WakeInv
<1> QED
  BY <1>3, <1>4, <1>5 DEF WakeInv

\* What does not change when a block is woken.
LEMMA WokenStep ==
  ASSUME Known, NEW Q \in SUBSET Thread, NEW H \in [Thread -> Thread \cup {None}],
         NEW N \in [Thread -> Int], NEW lo \in Int, NEW mark \in Int,
         GhostInv(Q, H, N, lo, mark), NEW t \in Thread, NEW c \in Thread, Wakes(t, c),
         NEW G, G = [H EXCEPT ![c] = None]
  PROVE  GhostInv(Q, G, N, lo, mark)'
<1>0. TypeOK /\ None \notin Thread
  BY Types DEF Known, BaseInv
<1>1. /\ H[c] = t /\ c \notin Q
      /\ G \in [Thread -> Thread \cup {None}] /\ \A b \in Thread : G[b] = IF b = c THEN None ELSE H[b]
  <2>1. H[c] = t
    BY DEF GhostInv, WakeInv, Waking, Wakes
  <2>2. c \notin Q
    BY <1>0, <2>1 DEF GhostInv, WaitInv
  <2>3. G \in [Thread -> Thread \cup {None}] /\ \A b \in Thread : G[b] = IF b = c THEN None ELSE H[b]
    OBVIOUS
  <2> QED
    BY <2>1, <2>2, <2>3
<1>2. SameOn(Q)
  BY <1>1 DEF SameOn, Wakes
<1>3. \A s \in Thread :
        /\ pc[s] \in Traversing => pc'[s] = pc[s]
        /\ pc'[s] \in Traversing => pc'[s] = pc[s]
        /\ pc'[s] \in {"leave", "find", "count", "last", "owns"} <=>
             pc[s] \in {"leave", "find", "count", "last", "owns"}
        /\ pc[s] \in {"leave", "find", "count", "last", "owns"} => pc'[s] = pc[s]
        /\ s # t => (pc'[s] \in Waking <=> pc[s] \in Waking)
        /\ s # t /\ pc[s] \in Waking => pc'[s] = pc[s]
  BY DEF Traversing, Waking, Wakes
<1>4. Counted' = Counted /\ Leaving' = Leaving
  <2>1. want' = want
    BY DEF Wakes
  <2> QED
    BY <1>3, <2>1 DEF Counted, Leaving
<1>5. \A s \in Thread : pc[s] \in Traversing \cup {"leave", "find", "count"} =>
        value'[s] = value[s] /\ cur'[s] = cur[s]
  BY DEF Traversing, Wakes
<1> word' = word
  BY DEF Wakes
<1>6. ListLinks(Q, N, lo, mark)'
  BY <1>2, LinksStand DEF GhostInv
<1>7. MultiInv(Q, N, lo)'
  BY <1>2, <1>4, MultiStands DEF GhostInv
<1>8. ReadInv(Q, N, lo)'
  <2>1. ASSUME NEW s \in Thread, pc'[s] \in {"leave", "find", "count"}
        PROVE  pc'[s] = pc[s] /\ value'[s] = value[s] /\ cur'[s] = cur[s]
    BY <1>3, <1>5, <2>1
  <2> QED
    BY <2>1 DEF GhostInv, ReadInv
<1>9. WaitInv(Q, G)'
  <2>1. ASSUME NEW b \in Thread, b # c
        PROVE  /\ block'[b].used = block[b].used /\ block'[b].spinning = block[b].spinning
               /\ G[b] = H[b] /\ (pc'[b] = "sleep" <=> pc[b] = "sleep")
    BY <1>1, <2>1 DEF SameOn, Wakes
  <2>2. ~block'[c].spinning /\ pc'[c] # "sleep"
    BY DEF Wakes
  <2> QED
    BY <1>0, <1>1, <2>1, <2>2 DEF GhostInv, WaitInv
<1>10. WakeInv(G, N)'
  <2>1. WakeInv(H, N)
    BY DEF GhostInv
  <2> QED
    BY <1>0, <2>1, WakerGoesOn
<1>11. TravInv(Q, N, lo, mark)'
  <2>1. \A s \in Thread : pc'[s] \in Traversing <=> pc[s] \in Traversing
    BY <1>3
  <2>2. \A s \in Thread : pc[s] \in Traversing => TraverserInv(s, Q, N, lo, mark)'
    BY <1>2, <1>3, <1>4, <1>5 DEF GhostInv, TravInv, TraverserInv, SameOn
  <2> QED
    BY <2>1, <2>2 DEF GhostInv, TravInv
<1> QED
  BY <1>6, <1>7, <1>8, <1>9, <1>10, <1>11 DEF GhostInv

\* A thread that still spins is woken by the bit,
LEMMA UnblockStep ==
  ASSUME Known, NEW Q \in SUBSET Thread, NEW H \in [Thread -> Thread \cup {None}],
         NEW N \in [Thread -> Int], NEW lo \in Int, NEW mark \in Int,
         GhostInv(Q, H, N, lo, mark), NEW t \in Thread,
         PhpUnblockQueuedWaitBlock(t), block[cur[t]].spinning,
         NEW G, G = [H EXCEPT ![cur[t]] = None]
  PROVE  GhostInv(Q, G, N, lo, mark)'
<1> DEFINE c == cur[t]
<1>0. /\ TypeOK /\ None \notin Thread /\ word' = word /\ want' = want /\ pc[t] = "wake"
      /\ block' = [block EXCEPT ![c].spinning = FALSE] /\ NextToWake(t)
  BY Types DEF Known, BaseInv, PhpUnblockQueuedWaitBlock
<1>1. c \in Thread /\ pc[c] # "sleep"
  BY <1>0 DEF GhostInv, WakeInv, WaitInv, Waking
<1>2. /\ \A s \in Thread : s # t => pc'[s] = pc[s] /\ value'[s] = value[s] /\ cur'[s] = cur[s]
      /\ pc'[t] \in {"wake", "idle", "block"}
      /\ block[c].prev # None => pc'[t] = "wake" /\ cur'[t] = block[c].prev
      /\ block[c].prev = None => pc'[t] # "wake"
  BY <1>0, Types DEF NextToWake, Return, Leave, Locals, Go
<1> HIDE DEF c
<1>3. SameOn(Thread \ {c}) /\ ~block'[c].spinning
  BY <1>0, <1>1, Types, SetSpinning DEF SameOn
<1>4. G = [H EXCEPT ![c] = None] /\ c = cur[t]
  BY DEF c
<1>5. pc'[c] # "sleep"
  BY <1>1, <1>2
<1>6. Wakes(t, c)
  BY <1>0, <1>1, <1>2, <1>3, <1>4, <1>5 DEF Wakes
<1> QED
  BY <1>1, <1>4, <1>6, WokenStep

\* and one that sleeps by the keyed event.
LEMMA ReleaseKeyedEventStep ==
  ASSUME Known, NEW Q \in SUBSET Thread, NEW H \in [Thread -> Thread \cup {None}],
         NEW N \in [Thread -> Int], NEW lo \in Int, NEW mark \in Int,
         GhostInv(Q, H, N, lo, mark), NEW t \in Thread, NtReleaseKeyedEvent(t),
         NEW G, G = [H EXCEPT ![cur[t]] = None]
  PROVE  GhostInv(Q, G, N, lo, mark)'
<1> DEFINE c == cur[t]
<1>0. /\ TypeOK /\ None \notin Thread /\ word' = word /\ want' = want
      /\ pc[t] = "signal" /\ pc[c] = "sleep" /\ block' = [block EXCEPT ![c] = NoBlock]
  BY Types DEF Known, BaseInv, NtReleaseKeyedEvent
<1>1. c \in Thread /\ c # t
  BY <1>0 DEF GhostInv, WakeInv, Waking
<1>2. /\ \A s \in Thread : s \notin {c, t} => pc'[s] = pc[s] /\ value'[s] = value[s]
      /\ \A s \in Thread : s # t => cur'[s] = cur[s]
      /\ pc'[c] = "acquire" /\ pc'[t] \in {"wake", "idle", "block"}
      /\ block[c].prev # None => pc'[t] = "wake" /\ cur'[t] = block[c].prev
      /\ block[c].prev = None => pc'[t] # "wake"
  BY <1>0, <1>1, Types DEF NtReleaseKeyedEvent
<1> HIDE DEF c
<1>3. SameOn(Thread \ {c}) /\ ~block'[c].spinning
  BY <1>0, <1>1, Types DEF SameOn, NoBlock
<1>4. G = [H EXCEPT ![c] = None] /\ c = cur[t]
  BY DEF c
<1>5. Wakes(t, c)
  BY <1>0, <1>1, <1>2, <1>3, <1>4 DEF Wakes
<1> QED
  BY <1>1, <1>4, <1>5, WokenStep

-----------------------------------------------------------------------------
(***************************************************************************)
(* Blocks are taken off the list.                                          *)
(***************************************************************************)

\* The blocks "R" change hands from the list to the waker "t".
HandedOver(H, R, t) == [b \in Thread |-> IF b \in R THEN t ELSE H[b]]

\* They are a list of their own, which starts with the one "t" is at.
LEMMA WakerTakes ==
  ASSUME NEW H \in [Thread -> Thread \cup {None}], NEW N \in [Thread -> Int], None \notin Thread,
         WakeInv(H, N), NEW t \in Thread, OnlyMoves(t), NEW R \in SUBSET Thread,
         pc[t] \notin Waking, pc'[t] \in {"unlinked", "wake"}, cur'[t] \in R,
         pc'[t] = "unlinked" => block'[cur'[t]].prev = None,
         \A b \in R : H[b] = None /\ N[cur'[t]] <= N[b],
         \A b \in R : block'[b].prev # None =>
                        block'[b].prev \in R /\ N[block'[b].prev] = N[b] + 1,
         \A b \in R : block'[b].prev = None => \A c \in R : N[c] <= N[b],
         \A b, c \in R : N[b] = N[c] => b = c,
         \A b \in Thread : block'[b].spinning = block[b].spinning,
         \A b \in Thread \ R : block'[b].prev = block[b].prev,
         NEW G, G = HandedOver(H, R, t)
  PROVE  WakeInv(G, N)'
<1>1. /\ G \in [Thread -> Thread \cup {None}]
      /\ \A b \in Thread : G[b] = IF b \in R THEN t ELSE H[b]
  BY DEF HandedOver
<1>2. \A b \in Thread : H[b] # None => H[b] # t /\ H[b] \in Thread /\ b \notin R
  BY DEF WakeInv
<1>3. \A b \in Thread : G[b] = t <=> b \in R
  BY <1>1, <1>2
<1>4. pc'[t] \in Waking
  BY DEF Waking
<1>5. ASSUME NEW s \in Thread, pc'[s] \in Waking
      PROVE  /\ cur'[s] \in Thread /\ G[cur'[s]] = s
             /\ pc'[s] = "unlinked" => block'[cur'[s]].prev = None
             /\ pc'[s] = "signal" => ~block'[cur'[s]].spinning
  <2>1. CASE s = t
    BY <1>3, <2>1
  <2>2. CASE s # t
    <3>1. pc'[s] = pc[s] /\ cur'[s] = cur[s] /\ cur[s] \in Thread /\ H[cur[s]] = s
      BY <1>5, <2>2 DEF OnlyMoves, WakeInv
    <3>2. cur[s] \notin R
      BY <1>2, <3>1
    <3> QED
      BY <1>1, <1>5, <3>1, <3>2 DEF WakeInv
  <2> QED
    BY <2>1, <2>2
<1>6. ASSUME NEW b \in Thread, G[b] # None
      PROVE  /\ pc'[G[b]] \in Waking
             /\ N[cur'[G[b]]] <= N[b]
             /\ block'[b].prev # None =>
                  block'[b].prev \in Thread /\ G[block'[b].prev] = G[b] /\ N[block'[b].prev] = N[b] + 1
             /\ block'[b].prev = None => \A c \in Thread : G[c] = G[b] => N[c] <= N[b]
  <2>1. CASE b \in R
    BY <1>3, <1>4, <2>1
  <2>2. CASE b \notin R
    <3>1. G[b] = H[b] /\ H[b] \in Thread /\ H[b] # t /\ block'[b].prev = block[b].prev
      BY <1>1, <1>2, <1>6, <2>2
    <3>2. pc'[H[b]] = pc[H[b]] /\ cur'[H[b]] = cur[H[b]]
      BY <3>1 DEF OnlyMoves
    <3>3. \A c \in Thread : H[c] = H[b] => G[c] = H[c]
      BY <1>1, <1>2, <3>1
    <3>4. \A c \in Thread : G[c] = H[b] => H[c] = H[b]
      BY <1>1, <3>1
    <3> QED
      BY <3>1, <3>2, <3>3, <3>4 DEF WakeInv
  <2> QED
    BY <2>1, <2>2
<1>7. ASSUME NEW b \in Thread, NEW c \in Thread, G[b] # None, G[b] = G[c], N[b] = N[c]
      PROVE  b = c
  <2>1. CASE b \in R
    BY <1>3, <1>7, <2>1
  <2>2. CASE b \notin R
    BY <1>1, <1>3, <1>7, <2>2 DEF WakeInv
  <2> QED
    BY <2>1, <2>2
<1> QED
  BY <1>5, <1>6, <1>7 DEF WakeInv

\* The blocks that wait are in the list or with a waker, as before.
LEMMA WaitTakes ==
  ASSUME NEW Q \in SUBSET Thread, NEW H \in [Thread -> Thread \cup {None}], None \notin Thread,
         WaitInv(Q, H), NEW t \in Thread, OnlyMoves(t), NEW R \in SUBSET Q,
         pc[t] # "sleep" /\ pc'[t] # "sleep",
         \A b \in Thread : block'[b].used = block[b].used /\ block'[b].spinning = block[b].spinning,
         NEW G, G = HandedOver(H, R, t)
  PROVE  WaitInv(Q \ R, G)'
<1>1. \A b \in Thread : G[b] = IF b \in R THEN t ELSE H[b]
  BY DEF HandedOver
<1>2. \A b \in Thread : pc'[b] = "sleep" <=> pc[b] = "sleep"
  BY DEF OnlyMoves
<1>3. \A b \in Thread : b \in Q \ R \/ G[b] # None <=> b \in Q \/ H[b] # None
  BY <1>1
<1>4. \A b \in Q \ R : G[b] = None
  BY <1>1 DEF WaitInv
<1> QED
  BY <1>2, <1>3, <1>4 DEF WaitInv

\* Nobody reads the list who does not own the lock shared.
LEMMA NobodyReads ==
  ASSUME Counted' = {}, NEW Q, NEW N, NEW lo
  PROVE  ReadInv(Q, N, lo)'
  BY DEF ReadInv, Counted

\* The last block is unlinked alone.
LEMMA UnlinkStep ==
  ASSUME Known, NEW Q \in SUBSET Thread, NEW H \in [Thread -> Thread \cup {None}],
         NEW N \in [Thread -> Int], NEW lo \in Int, NEW mark \in Int,
         GhostInv(Q, H, N, lo, mark), NEW t \in Thread, NEW c, c = cur[t],
         PhpPrepareToWakeQueuedLock(t), block[c].exclusive, block[c].prev # None,
         NEW R \in SUBSET Thread, \A b \in Thread : b \in R <=> b = c,
         NEW G, G = HandedOver(H, R, t),
         NEW m \in Int, m = N[value[t].head]
  PROVE  GhostInv(Q \ R, G, N, lo + 1, m)'
<1> DEFINE h == value[t].head
           p == block[c].prev
           P == Q \ R
<1>0. /\ TypeOK /\ None \notin Thread /\ pc[t] = "take"
      /\ block' = Cut(block, value[t].head, c, block[c].prev) /\ Go(t, "unlinked")
      /\ UNCHANGED <<word, want, value, cur>>
  BY Types DEF Known, BaseInv, PhpPrepareToWakeQueuedLock, Cut
<1>1. TraverserInv(t, Q, N, lo, mark) /\ word.trav /\ word.waiters
  BY <1>0 DEF Traversing, GhostInv, TravInv, TraverserInv
<1>2. /\ c \in Q /\ N[c] = lo /\ h \in Q /\ N[h] = m /\ mark <= m /\ lo <= mark
      /\ m <= N[word.head] /\ word.head \in Q
      /\ ~value[t].multi /\ Counted = {} /\ Leaving = {}
  BY <1>0, <1>1 DEF TraverserInv, GhostInv, ListLinks
<1>3. /\ \A b \in Q : N[b] < m => block[b].prev # None
      /\ \A b \in Q : N[b] >= m => block[b].prev = None
  BY <1>0, <1>1 DEF TraverserInv
<1>4. p \in Q /\ N[p] = lo + 1 /\ lo < m
  BY <1>2, <1>3 DEF GhostInv, ListLinks
<1>5. \A b \in Thread :
        /\ block'[b].last = IF b = h THEN p ELSE block[b].last
        /\ block'[b].prev = IF b = c THEN None ELSE block[b].prev
        /\ block'[b].next = block[b].next /\ block'[b].owners = block[b].owners
        /\ block'[b].used = block[b].used /\ block'[b].spinning = block[b].spinning
  BY <1>0, <1>2, UnlinkedFields
<1>6. OnlyMoves(t) /\ pc'[t] = "unlinked" /\ cur'[t] = c
      /\ \A s \in Thread : s # t => pc'[s] = pc[s]
  BY <1>0, Types DEF Go, OnlyMoves
<1>7. Counted' = {} /\ Leaving' = {}
  BY <1>0, <1>2, <1>6 DEF Counted, Leaving
<1> HIDE DEF h, p, P
<1>8. \A b \in P : b \in Q /\ b # c /\ N[b] \in Int /\ lo + 1 <= N[b]
  <2>1. \A b \in Q : N[b] = lo => b = c
    BY <1>2 DEF GhostInv, ListLinks
  <2>2. \A x, y \in Int : x <= y /\ x # y => x + 1 <= y
    OBVIOUS
  <2>3. \A b \in Q : lo <= N[b] /\ N[b] \in Int
    BY DEF GhostInv, ListLinks
  <2> QED
    BY <2>1, <2>2, <2>3 DEF P
<1>9. \A b \in Q : N[b] > lo => b \in P
  BY <1>2 DEF P
<1>10. ListLinks(P, N, lo + 1, m)'
  <2>1. ListLinks(Q, N, lo, mark)
    BY DEF GhostInv
  <2>2. /\ word'.waiters /\ P # {} /\ word'.head \in P /\ lo + 1 <= m /\ m <= N[word'.head]
        /\ N[word.head] \in Int /\ word' = word
    BY <1>0, <1>1, <1>2, <1>4, <1>9
  <2>3. \A b \in P : lo + 1 <= N[b] /\ N[b] <= N[word.head]
    BY <1>8, <2>1 DEF ListLinks
  <2>4. \A b, d \in P : N[b] = N[d] => b = d
    BY <1>8, <2>1 DEF ListLinks
  <2>5. ASSUME NEW b \in P, N[b] > lo + 1
        PROVE  block'[b].next \in P /\ N[block'[b].next] = N[b] - 1
    <3>1. block[b].next \in Q /\ N[block[b].next] = N[b] - 1
      BY <1>8, <2>1, <2>5 DEF ListLinks
    <3>2. block[b].next \in P
      BY <1>8, <1>9, <2>5, <3>1
    <3> QED
      BY <1>5, <1>8, <3>1, <3>2
  <2>6. ASSUME NEW b \in P, block'[b].prev # None
        PROVE  block'[b].prev \in P /\ N[block'[b].prev] = N[b] + 1
    <3>1. block'[b].prev = block[b].prev /\ block[b].prev \in Q /\ N[block[b].prev] = N[b] + 1
      BY <1>5, <1>8, <2>1, <2>6 DEF ListLinks
    <3>2. block[b].prev \in P
      BY <1>8, <1>9, <3>1
    <3> QED
      BY <3>1, <3>2
  <2>7. ASSUME NEW b \in P, N[b] > m
        PROVE  block'[b].last = None
    <3>1. N[b] > mark /\ b # h
      BY <1>2, <1>8, <2>7
    <3> QED
      BY <1>5, <1>8, <2>1, <3>1 DEF ListLinks
  <2>8. ASSUME NEW b \in P, N[b] = m
        PROVE  block'[b].last \in P /\ N[block'[b].last] = lo + 1
    <3>1. b = h
      BY <1>2, <1>8, <2>1, <2>8 DEF ListLinks
    <3>2. block'[b].last = p /\ p \in P
      BY <1>4, <1>5, <1>9, <3>1, <1>8
    <3> QED
      BY <1>4, <3>2
  <2>9. \A b \in P : N[b] < m => block'[b].prev # None
    BY <1>3, <1>5, <1>8
  <2>10. ASSUME NEW x \in Thread, x = word.head
         PROVE  ListLinks(P, N, lo + 1, m)'
    BY <2>2, <2>3, <2>4, <2>5, <2>6, <2>7, <2>8, <2>9 DEF ListLinks
  <2> QED
    BY <1>2, <2>10
<1>11. MultiInv(P, N, lo + 1)'
  <2>1. ~word.multi
    BY <1>2, NoSharers DEF Known
  <2> QED
    BY <1>0, <2>1 DEF MultiInv
<1>12. ReadInv(P, N, lo + 1)'
  BY <1>7, NobodyReads
<1>13. WaitInv(P, G)'
  <2>1. R \in SUBSET Q /\ WaitInv(Q, H)
    BY <1>2 DEF GhostInv
  <2>2. pc[t] # "sleep" /\ pc'[t] # "sleep"
    BY <1>0, <1>6
  <2>3. \A b \in Thread : block'[b].used = block[b].used /\ block'[b].spinning = block[b].spinning
    BY <1>5
  <2> QED
    BY <1>0, <1>6, <2>1, <2>2, <2>3, WaitTakes DEF P
<1>14. WakeInv(G, N)'
  <2>1. H[c] = None
    BY <1>2 DEF GhostInv, WaitInv
  <2>2. block'[c].prev = None /\ \A b \in Thread \ {c} : block'[b].prev = block[b].prev
    BY <1>2, <1>5
  <2>3. WakeInv(H, N) /\ N[c] \in Int /\ c \in R /\ \A b \in R : b = c
    BY <1>2 DEF GhostInv
  <2>4. \A b \in Thread : block'[b].spinning = block[b].spinning
    BY <1>5
  <2>5. /\ cur'[t] \in R /\ pc[t] \notin Waking /\ pc'[t] \in {"unlinked", "wake"}
        /\ block'[cur'[t]].prev = None
        /\ \A b \in R : H[b] = None /\ N[cur'[t]] <= N[b]
        /\ \A b \in R : block'[b].prev = None
        /\ \A b, d \in R : N[b] <= N[d] /\ b = d
    BY <1>0, <1>6, <2>1, <2>2, <2>3 DEF Waking
  <2>6. \A b \in Thread \ R : block'[b].prev = block[b].prev
    BY <2>2, <2>3
  <2> QED
    BY <1>0, <1>6, <2>3, <2>4, <2>5, <2>6, WakerTakes
<1>15. TravInv(P, N, lo + 1, m)'
  <2>1. TraverserInv(t, P, N, lo + 1, m)'
    BY <1>0, <1>1, <1>2, <1>6, <1>7 DEF TraverserInv
  <2> QED
    BY <1>0, <1>1, <1>6, <2>1, TravGoes DEF GhostInv, Traversing, P
<1> QED
  BY <1>10, <1>11, <1>12, <1>13, <1>14, <1>15 DEF GhostInv, P

\* The whole list is taken.
LEMMA TakeAllStep ==
  ASSUME Known, NEW Q \in SUBSET Thread, NEW H \in [Thread -> Thread \cup {None}],
         NEW N \in [Thread -> Int], NEW lo \in Int, NEW mark \in Int,
         GhostInv(Q, H, N, lo, mark), NEW t \in Thread,
         PhpPrepareToWakeQueuedLock(t), word = value[t],
         ~(block[cur[t]].exclusive /\ block[cur[t]].prev # None),
         NEW G, G = HandedOver(H, Q, t)
  PROVE  GhostInv({}, G, N, lo, mark)'
<1>0. /\ TypeOK /\ None \notin Thread /\ pc[t] = "take" /\ Go(t, "wake") /\ word' = Free
      /\ UNCHANGED <<block, want, value, cur>>
  BY Types DEF Known, BaseInv, PhpPrepareToWakeQueuedLock, Swapped, Stale
<1>1. TraverserInv(t, Q, N, lo, mark) /\ word.trav /\ word.waiters
  BY <1>0 DEF Traversing, GhostInv, TravInv, TraverserInv
<1>2. /\ cur[t] \in Q /\ N[cur[t]] = lo /\ Counted = {}
      /\ \A b \in Q : N[b] < N[word.head] => block[b].prev # None
  BY <1>0, <1>1 DEF TraverserInv
<1>3. OnlyMoves(t) /\ pc'[t] = "wake" /\ cur'[t] = cur[t]
      /\ \A s \in Thread : s # t => pc'[s] = pc[s]
  BY <1>0, Types DEF Go, OnlyMoves
<1>4. Counted' = {}
  BY <1>0, <1>2, <1>3 DEF Counted
<1>5. ~word'.waiters /\ ~word'.multi /\ ~word'.trav
  BY <1>0 DEF Free
<1>6. ListLinks({}, N, lo, mark)' /\ MultiInv({}, N, lo)'
  BY <1>5 DEF ListLinks, MultiInv
<1>7. ReadInv({}, N, lo)'
  BY <1>4, NobodyReads
<1>8. WaitInv({}, G)'
  <2>1. WaitInv(Q \ Q, G)'
    BY <1>0, <1>3, WaitTakes DEF GhostInv
  <2> QED
    BY <2>1, Q \ Q = {}
<1>9. WakeInv(G, N)'
  <2>1. \A b \in Q : H[b] = None
    BY DEF GhostInv, WaitInv
  <2>2. /\ \A b \in Q : lo <= N[b] /\ N[b] <= N[word.head] /\ N[b] \in Int
        /\ \A b, c \in Q : N[b] = N[c] => b = c
        /\ \A b \in Q : block[b].prev # None =>
             block[b].prev \in Q /\ N[block[b].prev] = N[b] + 1
        /\ N[word.head] \in Int
    BY <1>1 DEF GhostInv, ListLinks
  <2>3. ASSUME NEW b \in Q, block[b].prev = None, NEW c \in Q
        PROVE  N[c] <= N[b]
    BY <1>2, <2>2, <2>3
  <2>4. pc[t] \notin Waking
    BY <1>0 DEF Waking
  <2>5. \A b \in Q : N[cur'[t]] <= N[b]
    BY <1>2, <1>3, <2>2
  <2>6. WakeInv(H, N) /\ block' = block
    BY <1>0 DEF GhostInv
  <2>7. \A b \in Q : block'[b].prev # None =>
          block'[b].prev \in Q /\ N[block'[b].prev] = N[b] + 1
    BY <2>2, <2>6
  <2> QED
    BY <1>0, <1>2, <1>3, <2>1, <2>2, <2>3, <2>4, <2>5, <2>6, <2>7, WakerTakes
<1>10. TravInv({}, N, lo, mark)'
  BY <1>0, <1>1, <1>3, <1>5, TravStops DEF GhostInv, Traversing
<1> QED
  BY <1>6, <1>7, <1>8, <1>9, <1>10 DEF GhostInv

-----------------------------------------------------------------------------
(***************************************************************************)
(* A block is put in front of the list.                                    *)
(***************************************************************************)

\* The numbers "M" are those of "N", but for the block that is pushed.
Numbered(M, N, t) == \A b \in Thread : b # t => M[b] = N[b]

\* What a push does, apart from the word.
Pushing(t, v) ==
  /\ pc[t] = "acquire" /\ want[t] # "free" /\ ~block[t].used
  /\ \A b \in Thread : b # t => block'[b] = block[b]
  /\ block'[t].next = v.head /\ block'[t].prev = None
  /\ block'[t].last = (IF v.waiters THEN None ELSE t)
  /\ block'[t].owners = (IF ~v.waiters /\ want[t] = "exclusive" THEN v.shared ELSE 0)
  /\ block'[t].used /\ block'[t].spinning
  /\ OnlyMoves(t) /\ want' = want
  /\ pc'[t] \in {"block", "optimize", "giveUp", "seek"}
  /\ pc'[t] # "block" <=> v.waiters /\ ~v.trav

\* PhpPushQueuedWaitBlock fills in the block, and goes on to optimize the list
\* when it has taken the traversing bit.
LEMMA PushFields ==
  ASSUME BaseInv, NEW t \in Thread, PhpPushQueuedWaitBlock(t), word = value[t]
  PROVE  Pushing(t, word)
<1>0. TypeOK /\ PlaceInv
  BY DEF BaseInv
<1>1. /\ pc[t] = "acquire" /\ block' = [block EXCEPT ![t] = WaitBlock(t)] /\ UNCHANGED want
      /\ IF value[t].waiters /\ ~value[t].trav
           THEN StartOptimize(t, Pushed(t))
           ELSE Leave(t, "block")
  BY DEF PhpPushQueuedWaitBlock, Swapped, Stale
<1>2. want[t] # "free" /\ ~block[t].used
  BY <1>0, <1>1 DEF PlaceInv, Working, Traversing
<1>3. block'[t] = WaitBlock(t) /\ \A b \in Thread : b # t => block'[b] = block[b]
  BY <1>0, <1>1, Types
<1>4. OnlyMoves(t) /\ pc'[t] \in {"block", "optimize", "giveUp", "seek"}
  BY <1>0, <1>1, Types DEF StartOptimize, StartWake, Leave, Locals, Go, OnlyMoves
<1>5. pc'[t] # "block" <=> word.waiters /\ ~word.trav
  BY <1>0, <1>1, Types DEF StartOptimize, StartWake, Leave, Locals, Go
<1>6. /\ block'[t].next = word.head /\ block'[t].prev = None
      /\ block'[t].last = (IF word.waiters THEN None ELSE t)
      /\ block'[t].owners = (IF ~word.waiters /\ want[t] = "exclusive" THEN word.shared ELSE 0)
      /\ block'[t].used /\ block'[t].spinning
  BY <1>3 DEF WaitBlock
<1> QED
  BY <1>1, <1>2, <1>3, <1>4, <1>5, <1>6 DEF Pushing

\* A thread that was not waiting has no block in the list or with a waker.
LEMMA PushIsNew ==
  ASSUME NEW Q \in SUBSET Thread, NEW H \in [Thread -> Thread \cup {None}],
         WaitInv(Q, H), NEW t \in Thread, NEW v, Pushing(t, v)
  PROVE  t \notin Q /\ H[t] = None
  BY DEF WaitInv, Pushing

\* Who waits, and who wakes.
LEMMA PushWaits ==
  ASSUME NEW Q \in SUBSET Thread, NEW H \in [Thread -> Thread \cup {None}],
         WaitInv(Q, H), NEW t \in Thread, NEW v, Pushing(t, v),
         NEW P \in SUBSET Thread, \A b \in Thread : b \in P <=> b \in Q \/ b = t
  PROVE  WaitInv(P, H)'
<1>1. t \notin Q /\ H[t] = None
  BY PushIsNew
<1>2. ASSUME NEW b \in Thread, b # t
      PROVE  block'[b] = block[b] /\ pc'[b] = pc[b] /\ (b \in P <=> b \in Q)
  BY <1>2 DEF Pushing, OnlyMoves
<1>3. block'[t].used /\ block'[t].spinning /\ pc'[t] # "sleep" /\ t \in P
  BY DEF Pushing
<1> QED
  BY <1>1, <1>2, <1>3 DEF WaitInv

\* The chains of blocks to wake do not contain the new one.
LEMMA PushWakes ==
  ASSUME NEW Q \in SUBSET Thread, NEW H \in [Thread -> Thread \cup {None}],
         NEW N \in [Thread -> Int], NEW M \in [Thread -> Int], None \notin Thread,
         WaitInv(Q, H), WakeInv(H, N), NEW t \in Thread, NEW v, Pushing(t, v), Numbered(M, N, t)
  PROVE  WakeInv(H, M)'
<1>1. H[t] = None /\ pc[t] \notin Waking /\ pc'[t] \notin Waking
  BY PushIsNew DEF Pushing, Waking
<1>2. ASSUME NEW b \in Thread, H[b] # None
      PROVE  M[b] = N[b] /\ block'[b] = block[b] /\ b # t
  BY <1>1, <1>2 DEF Pushing, Numbered
<1>3. ASSUME NEW s \in Thread, pc'[s] \in Waking
      PROVE  /\ cur[s] \in Thread /\ H[cur[s]] = s /\ cur'[s] = cur[s] /\ pc'[s] = pc[s]
             /\ pc'[s] = "unlinked" => block'[cur'[s]].prev = None
             /\ pc'[s] = "signal" => ~block'[cur'[s]].spinning
  <2>1. s # t /\ pc'[s] = pc[s] /\ cur'[s] = cur[s]
    BY <1>1, <1>3 DEF Pushing, OnlyMoves
  <2>2. cur[s] \in Thread /\ H[cur[s]] = s
    BY <1>3, <2>1 DEF WakeInv
  <2>3. block'[cur[s]] = block[cur[s]]
    BY <1>2, <2>2
  <2> QED
    BY <1>3, <2>1, <2>2, <2>3 DEF WakeInv
<1>4. ASSUME NEW b \in Thread, H[b] # None
      PROVE  /\ pc'[H[b]] \in Waking
             /\ M[cur'[H[b]]] <= M[b]
             /\ block'[b].prev # None =>
                  block'[b].prev \in Thread /\ H[block'[b].prev] = H[b] /\ M[block'[b].prev] = M[b] + 1
             /\ block'[b].prev = None => \A c \in Thread : H[c] = H[b] => M[c] <= M[b]
  <2>1. H[b] \in Thread /\ pc[H[b]] \in Waking /\ H[b] # t
    BY <1>1, <1>4 DEF WakeInv
  <2>2. pc'[H[b]] = pc[H[b]] /\ cur'[H[b]] = cur[H[b]]
    BY <2>1 DEF Pushing, OnlyMoves
  <2>3. cur[H[b]] \in Thread /\ H[cur[H[b]]] = H[b]
    BY <2>1 DEF WakeInv
  <2>4. M[cur[H[b]]] = N[cur[H[b]]] /\ M[b] = N[b] /\ block'[b] = block[b]
    BY <1>2, <1>4, <2>3
  <2>5. \A c \in Thread : H[c] = H[b] => M[c] = N[c]
    BY <1>2, <1>4
  <2>6. block[b].prev # None => M[block[b].prev] = N[block[b].prev]
    BY <1>4, <2>5 DEF WakeInv
  <2> QED
    BY <1>4, <2>1, <2>2, <2>4, <2>5, <2>6 DEF WakeInv
<1>5. ASSUME NEW b \in Thread, NEW c \in Thread, H[b] # None, H[b] = H[c], M[b] = M[c]
      PROVE  b = c
  BY <1>2, <1>5 DEF WakeInv
<1> QED
  BY <1>3, <1>4, <1>5 DEF WakeInv

\* The list starts with the block of the thread that came first,
LEMMA PushFirst ==
  ASSUME Known, NEW Q \in SUBSET Thread, NEW H \in [Thread -> Thread \cup {None}],
         NEW N \in [Thread -> Int], NEW lo \in Int, NEW mark \in Int,
         GhostInv(Q, H, N, lo, mark), NEW t \in Thread,
         PhpPushQueuedWaitBlock(t), word = value[t], ~word.waiters,
         NEW P \in SUBSET Thread, \A b \in Thread : b \in P <=> b = t,
         NEW M \in [Thread -> Int], M[t] = 0, Numbered(M, N, t)
  PROVE  GhostInv(P, H, M, 0, 0)'
<1>0. TypeOK /\ BaseInv /\ None \notin Thread
  BY Types DEF Known, BaseInv
<1>1. Pushing(t, word)
  BY <1>0, PushFields
<1>2. Q = {} /\ ~word.trav /\ ~word.multi /\ word.shared = Cardinality(Counted)
  BY <1>0 DEF GhostInv, ListLinks, BaseInv, WordInv
<1>3. /\ word'.waiters /\ word'.head = t /\ ~word'.trav
      /\ word'.multi <=> word.shared > 1
  <2>1. word' = Pushed(t) /\ word = value[t]
    BY DEF PhpPushQueuedWaitBlock, Swapped, Stale
  <2>2. word'.multi = (word.multi \/ word.shared > 1)
    BY <2>1 DEF Pushed
  <2>3. word'.waiters /\ word'.head = t /\ word'.trav = word.waiters
    BY <2>1 DEF Pushed
  <2> QED
    BY <1>2, <2>2, <2>3
<1>4. /\ \A s \in Thread : pc'[s] = pc[s] \/ (s = t /\ pc[s] = "acquire" /\ pc'[s] = "block")
      /\ pc'[t] = "block" /\ OnlyMoves(t) /\ want' = want
  BY <1>1 DEF Pushing, OnlyMoves
<1>5. Counted' = Counted
  BY <1>4 DEF Counted
<1>6. /\ block'[t].prev = None /\ block'[t].last = t
      /\ block'[t].owners = (IF want[t] = "exclusive" THEN word.shared ELSE 0)
  BY <1>1 DEF Pushing
<1>7. word'.multi => want[t] = "exclusive"
  <2>1. want[t] \in {"exclusive", "shared"}
    BY <1>0, <1>1, Types DEF Pushing
  <2>2. ~MayTake(t)
    BY DEF PhpPushQueuedWaitBlock
  <2>3. want[t] = "shared" => ~(word.shared > 0)
    BY <2>2 DEF MayTake
  <2>4. word.shared \in Int
    BY <1>2, CountedOwners
  <2> QED
    BY <1>3, <2>1, <2>3, <2>4
<1>8. ListLinks(P, M, 0, 0)'
  BY <1>0, <1>3, <1>6 DEF ListLinks
<1>9. MultiInv(P, M, 0)'
  BY <1>0, <1>2, <1>5, <1>6, <1>7 DEF MultiInv
<1>10. ReadInv(P, M, 0)'
  <2>1. ASSUME NEW s \in Thread
        PROVE  ~(pc'[s] = "leave" /\ value'[s].waiters) /\ pc'[s] \notin {"find", "count"}
    <3>1. CASE s = t
      BY <1>4, <3>1
    <3>2. CASE s # t
      <4>1. pc'[s] = pc[s] /\ value'[s] = value[s]
        BY <1>4, <3>2 DEF OnlyMoves
      <4> QED
        BY <1>2, <4>1 DEF GhostInv, ReadInv
    <3> QED
      BY <3>1, <3>2
  <2> QED
    BY <2>1 DEF ReadInv
<1>11. WaitInv(P, H)'
  BY <1>1, <1>2, PushWaits DEF GhostInv
<1>12. WakeInv(H, M)'
  BY <1>0, <1>1, PushWakes DEF GhostInv
<1>13. TravInv(P, M, 0, 0)'
  BY <1>2, <1>3, <1>4, TravStops DEF GhostInv, Traversing
<1> QED
  BY <1>8, <1>9, <1>10, <1>11, <1>12, <1>13 DEF GhostInv

\* and the later ones are put before the head.
LEMMA PushBehind ==
  ASSUME Known, BaseInv', NEW Q \in SUBSET Thread, NEW H \in [Thread -> Thread \cup {None}],
         NEW N \in [Thread -> Int], NEW lo \in Int, NEW mark \in Int,
         GhostInv(Q, H, N, lo, mark), NEW t \in Thread, OwnersMove(t),
         PhpPushQueuedWaitBlock(t), word = value[t], word.waiters,
         NEW P \in SUBSET Thread, \A b \in Thread : b \in P <=> b \in Q \/ b = t,
         NEW M \in [Thread -> Int], Numbered(M, N, t),
         NEW top \in Int, top = N[word.head], M[t] = top + 1
  PROVE  GhostInv(P, H, M, lo, mark)'
<1>0. TypeOK /\ BaseInv /\ None \notin Thread /\ word \in Word
  BY Types DEF Known, BaseInv
<1>1. Pushing(t, word) /\ t \notin Q /\ H[t] = None
  BY <1>0, PushFields, PushIsNew DEF GhostInv
<1>2. /\ word.shared = 0 /\ word.head \in Q /\ lo <= mark /\ mark <= top
      /\ \A b \in Q : lo <= N[b] /\ N[b] <= top
  BY <1>0 DEF GhostInv, ListLinks, BaseInv, WordInv
<1>3. /\ word'.waiters /\ word'.head = t /\ word'.trav /\ word' = Pushed(t)
      /\ word'.multi <=> word.multi
  <2>1. word.multi \in BOOLEAN /\ ~(word.shared > 1)
    BY <1>0, <1>2 DEF Word
  <2> QED
    BY <2>1 DEF PhpPushQueuedWaitBlock, Swapped, Stale, Pushed
<1>4. /\ OnlyMoves(t) /\ want' = want /\ pc[t] = "acquire"
      /\ pc'[t] \in {"block", "optimize", "giveUp", "seek"}
      /\ pc'[t] # "block" <=> word.waiters /\ ~word.trav
      /\ \A s \in Thread : s # t => pc'[s] = pc[s] /\ value'[s] = value[s] /\ cur'[s] = cur[s]
  BY <1>1 DEF Pushing, OnlyMoves
<1>5. Counted' = Counted /\ Leaving' = Leaving
  BY <1>4 DEF Counted, Leaving
<1>6. /\ block'[t].prev = None /\ block'[t].last = None /\ block'[t].next = word.head
      /\ \A b \in Q : block'[b] = block[b] /\ M[b] = N[b] /\ b # t
  BY <1>1 DEF Pushing, Numbered
<1>7. /\ \A b \in P : b = t \/ b \in Q
      /\ \A b \in Q : b \in P
      /\ t \in P
  OBVIOUS
<1>8. ListLinks(P, M, lo, mark)'
  <2>1. ListLinks(Q, N, lo, mark)
    BY DEF GhostInv
  <2>2. lo <= mark /\ mark <= M[t] /\ \A b \in P : lo <= M[b] /\ M[b] <= M[t]
    BY <1>2, <1>6, <1>7
  <2>3. \A b, c \in P : M[b] = M[c] => b = c
    <3>1. \A b \in Q : M[b] # M[t]
      BY <1>2, <1>6
    <3> QED
      BY <1>6, <1>7, <2>1, <3>1 DEF ListLinks
  <2>4. \A b \in P : M[b] > lo => block'[b].next \in P /\ M[block'[b].next] = M[b] - 1
    <3>1. block'[t].next \in P /\ M[block'[t].next] = M[t] - 1
      BY <1>2, <1>6, <1>7
    <3>2. ASSUME NEW b \in Q, M[b] > lo
          PROVE  block'[b].next \in P /\ M[block'[b].next] = M[b] - 1
      <4>1. block[b].next \in Q /\ N[block[b].next] = N[b] - 1 /\ block'[b] = block[b]
        BY <1>6, <2>1, <3>2 DEF ListLinks
      <4> QED
        BY <1>6, <1>7, <4>1
    <3> QED
      BY <1>7, <3>1, <3>2
  <2>5. \A b \in P : block'[b].prev # None =>
          block'[b].prev \in P /\ M[block'[b].prev] = M[b] + 1
    <3>1. ASSUME NEW b \in Q, block'[b].prev # None
          PROVE  block'[b].prev \in P /\ M[block'[b].prev] = M[b] + 1
      <4>1. block[b].prev \in Q /\ N[block[b].prev] = N[b] + 1 /\ block'[b] = block[b]
        BY <1>6, <2>1, <3>1 DEF ListLinks
      <4> QED
        BY <1>6, <1>7, <4>1
    <3> QED
      BY <1>6, <1>7, <3>1
  <2>6. \A b \in P : M[b] > mark => block'[b].last = None
    BY <1>6, <1>7, <2>1 DEF ListLinks
  <2>7. \A b \in P : M[b] = mark => block'[b].last \in P /\ M[block'[b].last] = lo
    <3>1. M[t] # mark
      BY <1>2
    <3>2. ASSUME NEW b \in Q, M[b] = mark
          PROVE  block'[b].last \in P /\ M[block'[b].last] = lo
      <4>1. block[b].last \in Q /\ N[block[b].last] = lo /\ block'[b] = block[b]
        BY <1>6, <2>1, <3>2 DEF ListLinks
      <4> QED
        BY <1>6, <1>7, <4>1
    <3> QED
      BY <1>7, <3>1, <3>2
  <2>8. \A b \in P : M[b] < mark => block'[b].prev # None
    <3>1. ~(M[t] < mark)
      BY <1>2
    <3> QED
      BY <1>6, <1>7, <2>1, <3>1 DEF ListLinks
  <2> QED
    BY <1>3, <1>7, <2>2, <2>3, <2>4, <2>5, <2>6, <2>7, <2>8 DEF ListLinks
<1>9. MultiInv(P, M, lo)'
  <2>1. CASE word.multi
    <3>1. ASSUME NEW b \in Q
          PROVE  /\ block'[b].last = None => M[b] > lo
                 /\ block'[b].last # None => block'[b].last \in P /\ M[block'[b].last] = lo
                 /\ M[b] = lo => block'[b].owners = Cardinality(Counted)
      <4>1. block'[b] = block[b] /\ M[b] = N[b]
        BY <1>6
      <4>2. block[b].last # None => block[b].last \in Q /\ N[block[b].last] = lo
        BY <2>1 DEF GhostInv, MultiInv
      <4>3. block[b].last # None => M[block[b].last] = lo
        BY <1>6, <4>2
      <4> QED
        BY <1>7, <2>1, <4>1, <4>2, <4>3 DEF GhostInv, MultiInv
    <3>2. M[t] > lo
      BY <1>2
    <3> QED
      BY <1>5, <1>6, <1>7, <3>1, <3>2 DEF MultiInv
  <2> QED
    BY <1>3, <2>1 DEF MultiInv
<1>10. ReadInv(P, M, lo)'
  <2>1. ASSUME NEW s \in Thread, s # t
        PROVE  /\ pc'[s] = "leave" /\ value'[s].waiters =>
                    word'.waiters /\ value'[s].multi = word'.multi /\ value'[s].head \in P
               /\ pc'[s] \in {"find", "count"} => cur'[s] \in P
               /\ pc'[s] = "count" => M[cur'[s]] = lo
    <3>1. pc'[s] = pc[s] /\ value'[s] = value[s] /\ cur'[s] = cur[s]
      BY <1>4, <2>1
    <3>2. pc[s] = "leave" => value[s].multi \in BOOLEAN /\ word.multi \in BOOLEAN /\ word'.multi \in BOOLEAN
      BY <1>0, Types DEF BaseInv, TypeOK, Word
    <3>3. /\ pc[s] = "leave" /\ value[s].waiters => value[s].multi = word.multi /\ value[s].head \in Q
          /\ pc[s] \in {"find", "count"} => cur[s] \in Q
          /\ pc[s] = "count" => N[cur[s]] = lo
      BY DEF GhostInv, ReadInv
    <3> QED
      BY <1>3, <1>6, <1>7, <3>1, <3>2, <3>3
  <2> QED
    BY <1>4, <2>1 DEF ReadInv
<1>11. WaitInv(P, H)'
  BY <1>1, PushWaits DEF GhostInv
<1>12. WakeInv(H, M)'
  BY <1>0, <1>1, PushWakes DEF GhostInv
<1>13. TravInv(P, M, lo, mark)'
  <2>1. CASE word.trav
    <3>1. pc[t] \notin Traversing /\ pc'[t] \notin Traversing
      BY <1>4, <2>1 DEF Traversing
    <3>2. \A s \in Thread : pc'[s] \in Traversing <=> pc[s] \in Traversing
      BY <1>4, <3>1
    <3>3. ASSUME NEW s \in Thread, pc'[s] \in Traversing
          PROVE  TraverserInv(s, P, M, lo, mark)'
      <4>1. s # t /\ pc'[s] = pc[s] /\ value'[s] = value[s] /\ cur'[s] = cur[s]
        BY <1>4, <3>1, <3>3
      <4>2. TraverserInv(s, Q, N, lo, mark)
        BY <3>3, <4>1 DEF GhostInv, TravInv
      <4>3. value[s].head \in Q => M[value[s].head] = N[value[s].head] /\ N[value[s].head] <= top
                                   /\ N[value[s].head] \in Int
        BY <1>2, <1>6
      <4>4. cur[s] \in Q => M[cur[s]] = N[cur[s]]
        BY <1>6
      <4>5. pc[s] # "unlinked" =>
              /\ value[s].waiters /\ value[s].trav /\ value[s].head \in P
              /\ mark <= M[value[s].head]
              /\ \A b \in P : M[b] >= M[value[s].head] => block'[b].prev = None
        BY <1>6, <1>7, <4>2, <4>3 DEF TraverserInv
      <4>6. pc[s] \in {"optimize", "seek"} =>
              /\ cur[s] \in P /\ mark <= M[cur[s]] /\ M[cur[s]] <= M[value[s].head]
              /\ \A b \in P : M[cur[s]] <= M[b] /\ M[b] < M[value[s].head] => block'[b].prev # None
        BY <1>6, <1>7, <4>2, <4>3, <4>4 DEF TraverserInv
      <4>7. pc[s] = "take" =>
              /\ cur[s] \in P /\ M[cur[s]] = lo
              /\ \A b \in P : M[b] < M[value[s].head] => block'[b].prev # None
        BY <1>6, <1>7, <4>2, <4>3, <4>4 DEF TraverserInv
      <4> QED
        BY <1>3, <1>5, <4>1, <4>2, <4>5, <4>6, <4>7 DEF TraverserInv
    <3> QED
      BY <1>3, <2>1, <3>2, <3>3 DEF GhostInv, TravInv
  <2>2. CASE ~word.trav
    <3>1. StartOptimize(t, word')
      BY <1>3, <2>2 DEF PhpPushQueuedWaitBlock, Swapped, Stale
    <3>2. pc'[t] \in Traversing /\ TraverserInv(t, P, M, lo, mark)'
      BY <1>0, <1>3, <1>8, <3>1, WalkStarts
    <3> QED
      BY <1>3, <1>4, <2>2, <3>2, TravGoes DEF GhostInv
  <2> QED
    BY <2>1, <2>2
<1> QED
  BY <1>8, <1>9, <1>10, <1>11, <1>12, <1>13 DEF GhostInv

-----------------------------------------------------------------------------
(***************************************************************************)
(* The invariant holds.                                                    *)
(***************************************************************************)

\* Every step has a list that fits it.
LEMMA GhostStep ==
  ASSUME Known, BaseInv', NEW Q \in SUBSET Thread, NEW H \in [Thread -> Thread \cup {None}],
         NEW N \in [Thread -> Int], NEW lo \in Int, NEW mark \in Int,
         GhostInv(Q, H, N, lo, mark), NEW t \in Thread, OwnersMove(t), Start(t) \/ Step(t)
  PROVE  \E P \in SUBSET Thread, G \in [Thread -> Thread \cup {None}],
            M \in [Thread -> Int], low \in Int, first \in Int :
           GhostInv(P, G, M, low, first)'
<1> DEFINE Goal == \E P \in SUBSET Thread, G \in [Thread -> Thread \cup {None}],
                     M \in [Thread -> Int], low \in Int, first \in Int :
                     GhostInv(P, G, M, low, first)'
<1>0. TypeOK /\ BaseInv
  BY DEF Known, BaseInv
<1>1. CASE \/ PhAcquireQueuedLockExclusive(t) \/ PhTryAcquireQueuedLockExclusive(t)
           \/ PhAcquireQueuedLockShared(t)
           \/ AcquireSlow(t) \/ (PhpPushQueuedWaitBlock(t) /\ word # value[t])
           \/ PhReleaseQueuedLockExclusive(t) \/ PhReleaseQueuedLockShared(t)
           \/ PhfReleaseQueuedLockShared(t) \/ PhpFindLastQueuedWaitBlock(t)
           \/ (PhfWakeForReleaseQueuedLock(t) /\ word # value[t])
           \/ (ReleaseLastShared(t) /\ (word # value[t] \/ value[t].trav))
  <2>1. GhostInv(Q, H, N, lo, mark)'
    BY <1>1, OutsiderSteps DEF PhTryAcquireQueuedLockExclusive
  <2> QED
    BY <2>1
<1>2. CASE \/ PhfWakeForReleaseQueuedLock(t) /\ word = value[t]
           \/ ReleaseLastShared(t) /\ word = value[t] /\ ~value[t].trav
  <2>1. GhostInv(Q, H, N, lo, mark)'
    BY <1>2, ReleaserSteps
  <2> QED
    BY <2>1
<1>3. CASE \/ FinishOptimize(t) \/ GiveUpWake(t)
           \/ /\ PhpPrepareToWakeQueuedLock(t) /\ word # value[t]
              /\ ~(block[cur[t]].exclusive /\ block[cur[t]].prev # None)
  <2>1. GhostInv(Q, H, N, lo, mark)'
    BY <1>3, WalkerSteps
  <2> QED
    BY <2>1
<1>4. CASE PhpPushQueuedWaitBlock(t) /\ word = value[t] /\ ~word.waiters
  <2>1. PICK M \in [Thread -> Int] : M[t] = 0 /\ Numbered(M, N, t)
    <3> DEFINE M == [N EXCEPT ![t] = 0]
    <3>1. M \in [Thread -> Int] /\ M[t] = 0 /\ Numbered(M, N, t)
      BY DEF Numbered
    <3> QED
      BY <3>1
  <2>2. PICK P \in SUBSET Thread : \A b \in Thread : b \in P <=> b = t
    BY {t} \in SUBSET Thread
  <2>3. GhostInv(P, H, M, 0, 0)'
    BY <1>4, <2>1, <2>2, PushFirst
  <2> QED
    BY <2>3
<1>5. CASE PhpPushQueuedWaitBlock(t) /\ word = value[t] /\ word.waiters
  <2>1. PICK top \in Int : top = N[word.head]
    <3>1. word.head \in Thread
      BY <1>5 DEF GhostInv, ListLinks
    <3> QED
      BY <3>1
  <2>2. PICK M \in [Thread -> Int] : M[t] = top + 1 /\ Numbered(M, N, t)
    <3> DEFINE M == [N EXCEPT ![t] = top + 1]
    <3>1. M \in [Thread -> Int] /\ M[t] = top + 1 /\ Numbered(M, N, t)
      BY DEF Numbered
    <3> QED
      BY <3>1
  <2>3. PICK P \in SUBSET Thread : \A b \in Thread : b \in P <=> b \in Q \/ b = t
    BY Q \cup {t} \in SUBSET Thread
  <2>4. GhostInv(P, H, M, lo, mark)'
    BY <1>5, <2>1, <2>2, <2>3, PushBehind
  <2> QED
    BY <2>4
<1>6. CASE PhpOptimizeQueuedLockListEx(t)
  <2>1. CASE Advance(t) /\ UNCHANGED pc
    <3>1. GhostInv(Q, H, N, lo, mark)'
      BY <1>6, <2>1, AdvanceStep DEF PhpOptimizeQueuedLockListEx
    <3> QED
      BY <3>1
  <2>2. CASE ~(Advance(t) /\ UNCHANGED pc)
    <3>1. /\ pc[t] = "optimize" /\ block[cur[t]].last # None
          /\ block' = [block EXCEPT ![value[t].head].last = block[cur[t]].last]
          /\ Go(t, "optimized") /\ UNCHANGED <<word, want, value, cur>>
      BY <1>6, <2>2 DEF PhpOptimizeQueuedLockListEx
    <3>2. value[t].head \in Thread
      BY <3>1 DEF Traversing, GhostInv, TravInv, TraverserInv
    <3>3. PICK m \in Int : m = N[value[t].head]
      BY <3>2
    <3>4. GhostInv(Q, H, N, lo, m)'
      BY <3>1, <3>3, OptimizedStep
    <3> QED
      BY <3>4
  <2> QED
    BY <2>1, <2>2
<1>7. CASE SeekLast(t)
  <2>1. GhostInv(Q, H, N, lo, mark)'
    <3>1. CASE Advance(t) /\ UNCHANGED pc
      BY <1>7, <3>1, AdvanceStep DEF SeekLast
    <3>2. CASE ~(Advance(t) /\ UNCHANGED pc)
      BY <1>7, <3>2, SoughtStep DEF SeekLast
    <3> QED
      BY <3>1, <3>2
  <2> QED
    BY <2>1
<1>8. CASE PhpPrepareToWakeQueuedLock(t) /\ block[cur[t]].exclusive /\ block[cur[t]].prev # None
  <2>1. PICK c \in Thread : c = cur[t]
    <3>1. cur[t] \in Thread
      BY <1>8 DEF PhpPrepareToWakeQueuedLock, Traversing, GhostInv, TravInv,
         TraverserInv
    <3> QED
      BY <3>1
  <2>2. PICK m \in Int : m = N[value[t].head]
    <3>1. value[t].head \in Thread
      BY <1>8 DEF PhpPrepareToWakeQueuedLock, Traversing, GhostInv, TravInv,
         TraverserInv
    <3> QED
      BY <3>1
  <2>3. PICK R \in SUBSET Thread : \A b \in Thread : b \in R <=> b = c
    BY {c} \in SUBSET Thread
  <2>4. PICK G \in [Thread -> Thread \cup {None}] : G = HandedOver(H, R, t)
    BY DEF HandedOver
  <2>5. GhostInv(Q \ R, G, N, lo + 1, m)'
    BY <1>8, <2>1, <2>2, <2>3, <2>4, UnlinkStep
  <2>6. Q \ R \in SUBSET Thread /\ lo + 1 \in Int
    OBVIOUS
  <2> QED
    BY <2>5, <2>6
<1>9. CASE /\ PhpPrepareToWakeQueuedLock(t) /\ word = value[t]
           /\ ~(block[cur[t]].exclusive /\ block[cur[t]].prev # None)
  <2>1. PICK G \in [Thread -> Thread \cup {None}] : G = HandedOver(H, Q, t)
    BY DEF HandedOver
  <2>2. GhostInv({}, G, N, lo, mark)'
    BY <1>9, <2>1, TakeAllStep
  <2> QED
    BY <2>2, {} \in SUBSET Thread
<1>10. CASE ClearTraversing(t) \/ (PhpUnblockQueuedWaitBlock(t) /\ ~block[cur[t]].spinning)
  <2>1. GhostInv(Q, H, N, lo, mark)'
    BY <1>10, WakerTurns
  <2> QED
    BY <2>1
<1>11. CASE NtReleaseKeyedEvent(t) \/ (PhpUnblockQueuedWaitBlock(t) /\ block[cur[t]].spinning)
  <2>1. PICK G \in [Thread -> Thread \cup {None}] : G = [H EXCEPT ![cur[t]] = None]
    <3>1. [H EXCEPT ![cur[t]] = None] \in [Thread -> Thread \cup {None}]
      OBVIOUS
    <3> QED
      BY <3>1
  <2>2. GhostInv(Q, G, N, lo, mark)'
    BY <1>11, <2>1, UnblockStep, ReleaseKeyedEventStep
  <2> QED
    BY <2>2
<1>12. CASE DecrementSharedOwners(t)
  <2>1. GhostInv(Q, H, N, lo, mark)'
    BY <1>12, DecrementStep
  <2> QED
    BY <2>1
<1>13. CASE PhpBlockOnQueuedWaitBlock(t)
  <2>1. GhostInv(Q, H, N, lo, mark)'
    BY <1>13, BlockStep
  <2> QED
    BY <2>1
<1> HIDE DEF Goal
<1> QED
  BY <1>1, <1>2, <1>3, <1>4, <1>5, <1>6, <1>7, <1>8, <1>9, <1>10, <1>11, <1>12,
     <1>13
     DEF Start, Step

\* The lock starts without owners, waiters and wait blocks.
LEMMA InitInv == Init => ListIInv
<1> SUFFICES ASSUME Init PROVE ListIInv
  OBVIOUS
<1> DEFINE H == [t \in Thread |-> None]
           N == [t \in Thread |-> 0]
<1>1. /\ word = Free /\ block = [t \in Thread |-> NoBlock]
      /\ \A t \in Thread : /\ pc[t] = "idle" /\ want[t] = "free" /\ value[t] = Free
                           /\ cur[t] = None /\ block[t] = NoBlock
  BY DEF Init
<1>2. TypeOK
  <2>1. Cardinality(Thread) \in Nat
    BY CountedOwners
  <2>2. Free \in Word /\ NoBlock \in Block
    BY <2>1 DEF Free, Word, NoBlock, Block
  <2>3. /\ pc \in [Thread -> {"idle"}] /\ want \in [Thread -> {"free"}]
        /\ value \in [Thread -> {Free}] /\ cur \in [Thread -> {None}]
        /\ block \in [Thread -> {NoBlock}]
    BY DEF Init
  <2> QED
    BY <1>1, <2>2, <2>3 DEF TypeOK
<1>3. Counted = {} /\ Leaving = {} /\ Alone = {}
  BY <1>1 DEF Counted, Leaving, Alone
<1>4. PlaceInv
  BY <1>1 DEF PlaceInv, NoBlock, Working, Traversing
<1>5. OwnerInv
  BY <1>1, <1>3 DEF OwnerInv, Owners, Free
<1>6. WordInv
  BY <1>1, <1>3, CountedOwners DEF WordInv, Free
<1>7. ListLinks({}, N, 0, 0) /\ MultiInv({}, N, 0)
  BY <1>1 DEF ListLinks, MultiInv, Free
<1>8. ReadInv({}, N, 0) /\ TravInv({}, N, 0, 0)
  BY <1>1 DEF ReadInv, TravInv, Traversing, Free
<1>9. WaitInv({}, H) /\ WakeInv(H, N)
  BY <1>1 DEF WaitInv, WakeInv, Waking, NoBlock
<1>10. GhostInv({}, H, N, 0, 0)
  BY <1>7, <1>8, <1>9 DEF GhostInv
<1>11. H \in [Thread -> Thread \cup {None}] /\ N \in [Thread -> Int] /\ {} \in SUBSET Thread
  OBVIOUS
<1> HIDE DEF H, N
<1> QED
  BY <1>2, <1>4, <1>5, <1>6, <1>10, <1>11 DEF ListIInv, BaseInv

\* The invariant is about the state only.
LEMMA ListStutter ==
  ASSUME ListIInv, UNCHANGED vars
  PROVE  ListIInv'
<1> USE DEF vars
<1>1. Counted' = Counted /\ Leaving' = Leaving /\ Alone' = Alone
  BY DEF Counted, Leaving, Alone
<1>2. TypeOK'
  BY DEF ListIInv, BaseInv, TypeOK
<1>3. PlaceInv'
  BY DEF ListIInv, BaseInv, PlaceInv
<1>4. OwnerInv'
  BY <1>1 DEF ListIInv, BaseInv, OwnerInv, Owners
<1>5. WordInv'
  BY <1>1 DEF ListIInv, BaseInv, WordInv
<1>6. PICK Q \in SUBSET Thread, H \in [Thread -> Thread \cup {None}],
           N \in [Thread -> Int], lo \in Int, mark \in Int : GhostInv(Q, H, N, lo, mark)
  BY DEF ListIInv
<1>7. ListLinks(Q, N, lo, mark)' /\ ReadInv(Q, N, lo)'
  BY <1>6 DEF GhostInv, ListLinks, ReadInv
<1>8. MultiInv(Q, N, lo)'
  BY <1>1, <1>6 DEF GhostInv, MultiInv
<1>9. WaitInv(Q, H)' /\ WakeInv(H, N)'
  BY <1>6 DEF GhostInv, WaitInv, WakeInv
<1>10. TravInv(Q, N, lo, mark)'
  BY <1>1, <1>6 DEF GhostInv, TravInv, TraverserInv
<1>11. GhostInv(Q, H, N, lo, mark)'
  BY <1>7, <1>8, <1>9, <1>10 DEF GhostInv
<1> QED
  BY <1>2, <1>3, <1>4, <1>5, <1>11 DEF ListIInv, BaseInv

\* A state of the lock is what its functions take it for.
LEMMA ListIsKnown ==
  ASSUME ListIInv
  PROVE  Known
  BY KnownFromGhosts DEF ListIInv

\* Every step of every thread keeps the invariant.
LEMMA ListIInvStep == ListIInv /\ [Next]_vars => ListIInv'
<1>1. ASSUME ListIInv, UNCHANGED vars PROVE ListIInv'
  BY <1>1, ListStutter
<1>2. ASSUME ListIInv, Next PROVE ListIInv'
  <2>1. PICK t \in Thread : Start(t) \/ Step(t)
    BY <1>2 DEF Next
  <2>2. Known
    BY <1>2, ListIsKnown
  <2>3. OwnersMove(t)
    BY <2>1, <2>2, OwnerMoves
  <2>4. BaseInv'
    <3>1. TypeOK'
      BY <1>2, <2>2, TypeStep
    <3>2. PlaceInv'
      BY <1>2, PlaceStep DEF ListIInv, BaseInv
    <3>3. OwnerInv'
      BY <2>2, <2>3, OwnerStep
    <3>4. WordInv'
      BY <1>2, <2>2, WordStep
    <3> QED
      BY <3>1, <3>2, <3>3, <3>4 DEF BaseInv
  <2>5. PICK Q \in SUBSET Thread, H \in [Thread -> Thread \cup {None}],
             N \in [Thread -> Int], lo \in Int, mark \in Int : GhostInv(Q, H, N, lo, mark)
    BY <1>2 DEF ListIInv
  <2>6. \E P \in SUBSET Thread, G \in [Thread -> Thread \cup {None}],
           M \in [Thread -> Int], low \in Int, first \in Int : GhostInv(P, G, M, low, first)'
    BY <2>1, <2>2, <2>3, <2>4, <2>5, GhostStep
  <2> QED
    BY <2>4, <2>6 DEF ListIInv
<1> QED
  BY <1>1, <1>2

\* It holds in every state the lock can be in.
LEMMA Invariance == Spec => []ListIInv
  BY InitInv, ListIInvStep, PTL DEF Spec

-----------------------------------------------------------------------------
(***************************************************************************)
(* What follows from the invariant.                                        *)
(***************************************************************************)

\* The traversing bit has at most one owner, and while it wakes nobody owns the
\* lock shared.
LEMMA TraversingIsAlone ==
  ASSUME ListIInv
  PROVE  TraversingBitIsHeld
<1> DEFINE S == {t \in Thread : pc[t] \in Traversing}
<1>1. PICK Q \in SUBSET Thread, H \in [Thread -> Thread \cup {None}],
           N \in [Thread -> Int], lo \in Int, mark \in Int : TravInv(Q, N, lo, mark)
  BY DEF ListIInv, GhostInv
<1>2. CASE word.trav
  <2>1. PICK t \in Thread : pc[t] \in Traversing
    BY <1>1, <1>2 DEF TravInv
  <2>2. S = {t}
    BY <1>1, <2>1 DEF TravInv
  <2>3. Cardinality({t}) = 1
    BY FS_Singleton
  <2> QED
    BY <1>1, <1>2, <2>2, <2>3 DEF TraversingBitIsHeld, TravInv, TraverserInv,
       Traversing
<1>3. CASE ~word.trav
  <2>1. S = {}
    BY <1>1, <1>3 DEF TravInv
  <2>2. Cardinality({}) = 0
    BY FS_EmptySet
  <2>3. \A t \in Thread : pc[t] \notin {"giveUp", "seek", "take"}
    BY <2>1 DEF Traversing
  <2> QED
    BY <1>3, <2>1, <2>2, <2>3 DEF TraversingBitIsHeld
<1> QED
  BY <1>2, <1>3

-----------------------------------------------------------------------------
(***************************************************************************)
(* No waiter is forgotten.                                                 *)
(***************************************************************************)

\* Who optimizes the list, or gives up waking, has seen an owner.
OwnerSeen ==
  \A t \in Thread : pc[t] \in {"optimize", "optimized", "giveUp"} => value[t].owned

\* What is proved together.
ServedInv == ListIInv /\ OwnerSeen /\ WaitersAreServed

\* The other threads, and whether they spin.
OthersGoOn(t) ==
  \A s \in Thread \ {t} : /\ pc'[s] = pc[s] /\ value'[s] = value[s]
                          /\ block'[s].spinning = block[s].spinning

\* A step of a thread that attends to nothing, and leaves the word as it is, leaves
\* the waiters to the same threads as before.
LEMMA StillServed ==
  ASSUME WaitersAreServed, NEW t \in Thread, ~Attends(t), word' = word, OthersGoOn(t)
  PROVE  WaitersAreServed'
  BY DEF WaitersAreServed, Attends, OthersGoOn

\* A thread that attends after the step is enough.
LEMMA ServedBy ==
  ASSUME NEW t \in Thread, Attends(t)'
  PROVE  WaitersAreServed'
  BY DEF WaitersAreServed

\* An acquisition takes the lock, or is on its way to it.
LEMMA AcquireServes ==
  ASSUME TypeOK, WaitersAreServed, NEW t \in Thread,
         \/ PhAcquireQueuedLockExclusive(t) \/ PhTryAcquireQueuedLockExclusive(t)
         \/ PhAcquireQueuedLockShared(t) \/ AcquireSlow(t)
  PROVE  WaitersAreServed'
<1> USE Types
<1>1. word'.owned \/ pc'[t] = "acquire"
  <2>1. CASE \/ PhAcquireQueuedLockExclusive(t) \/ PhTryAcquireQueuedLockExclusive(t)
    BY <2>1 DEF PhTryAcquireQueuedLockExclusive, PhAcquireQueuedLockExclusive, Go, Word
  <2>2. CASE PhAcquireQueuedLockShared(t)
    BY <2>2 DEF PhAcquireQueuedLockShared, Go, Free
  <2>3. CASE AcquireSlow(t)
    BY <2>3 DEF AcquireSlow, Swapped, Stale, Taken, Word
  <2> QED
    BY <2>1, <2>2, <2>3
<1>2. CASE word'.owned
  BY <1>2 DEF WaitersAreServed
<1>3. CASE pc'[t] = "acquire"
  BY <1>3, ServedBy DEF Attends
<1> QED
  BY <1>1, <1>2, <1>3

\* A thread that pushes its block found an owner, or sets the traversing bit.
LEMMA PushServes ==
  ASSUME TypeOK, NEW t \in Thread, PhpPushQueuedWaitBlock(t)
  PROVE  WaitersAreServed'
<1> USE Types
<1>1. CASE word = value[t]
  <2>1. word' = Pushed(t)
    BY <1>1 DEF PhpPushQueuedWaitBlock, Swapped, Stale
  <2> QED
    BY <2>1 DEF Pushed, WaitersAreServed
<1>2. CASE word # value[t]
  <2>1. pc'[t] = "acquire"
    BY <1>2 DEF PhpPushQueuedWaitBlock, Swapped, Stale
  <2> QED
    BY <2>1, ServedBy DEF Attends
<1> QED
  BY <1>1, <1>2

\* A waiter that was woken asks again; one that was not goes to sleep.
LEMMA BlockServes ==
  ASSUME TypeOK, WaitersAreServed, NEW t \in Thread, PhpBlockOnQueuedWaitBlock(t)
  PROVE  WaitersAreServed'
<1> USE Types
<1>1. CASE ~block[t].spinning
  <2>1. pc'[t] = "acquire"
    BY <1>1 DEF PhpBlockOnQueuedWaitBlock, Go
  <2> QED
    BY <2>1, ServedBy DEF Attends
<1>2. CASE block[t].spinning
  <2>1. /\ word' = word /\ pc[t] = "block" /\ Go(t, "sleep") /\ UNCHANGED value
        /\ block' = [block EXCEPT ![t].spinning = FALSE]
    BY <1>2 DEF PhpBlockOnQueuedWaitBlock
  <2>2. ~Attends(t)
    BY <1>2, <2>1 DEF Attends
  <2>3. OthersGoOn(t)
    BY <2>1 DEF OthersGoOn, Go
  <2> QED
    BY <2>1, <2>2, <2>3, StillServed
<1> QED
  BY <1>1, <1>2

\* The traverser leaves the word alone, or gives up the bit while the lock has an
\* owner, or takes the whole list.
LEMMA TraverseServes ==
  ASSUME Known, WaitersAreServed, OwnerSeen, NEW t \in Thread,
         \/ PhpOptimizeQueuedLockListEx(t) \/ FinishOptimize(t) \/ GiveUpWake(t)
         \/ SeekLast(t) \/ PhpPrepareToWakeQueuedLock(t)
  PROVE  WaitersAreServed'
<1>0. TypeOK
  BY DEF Known, BaseInv
<1> USE <1>0, Types
<1>1. ~Attends(t)
  BY DEF PhpOptimizeQueuedLockListEx, FinishOptimize, GiveUpWake, SeekLast,
     PhpPrepareToWakeQueuedLock, Attends
<1>2. CASE PhpOptimizeQueuedLockListEx(t)
  <2>1. \A b \in Thread : block'[b].spinning = block[b].spinning
    BY <1>2, AdvanceFields, OptimizedFields DEF PhpOptimizeQueuedLockListEx
  <2>2. word' = word /\ OthersGoOn(t)
    BY <1>2, <2>1 DEF PhpOptimizeQueuedLockListEx, Go, OthersGoOn
  <2> QED
    BY <1>1, <2>2, StillServed
<1>3. CASE SeekLast(t)
  <2>1. \A b \in Thread : block'[b].spinning = block[b].spinning
    BY <1>3, AdvanceFields DEF SeekLast
  <2>2. word' = word /\ OthersGoOn(t)
    BY <1>3, <2>1 DEF SeekLast, Go, OthersGoOn
  <2> QED
    BY <1>1, <2>2, StillServed
<1>4. CASE FinishOptimize(t) \/ GiveUpWake(t)
  <2>1. CASE word = value[t]
    <3>1. word' = [value[t] EXCEPT !.trav = FALSE] /\ value[t].owned
      BY <1>4, <2>1 DEF FinishOptimize, GiveUpWake, Swapped, Stale, OwnerSeen
    <3> QED
      BY <3>1 DEF WaitersAreServed, Word
  <2>2. CASE word # value[t]
    <3>1. /\ word' = word /\ block' = block
          /\ StartOptimize(t, word) \/ StartWake(t, word)
      BY <1>4, <2>2 DEF FinishOptimize, GiveUpWake, Swapped, Stale
    <3>2. OthersGoOn(t)
      BY <3>1 DEF OthersGoOn, StartOptimize, StartWake, Locals, Go
    <3> QED
      BY <1>1, <3>1, <3>2, StillServed
  <2> QED
    BY <2>1, <2>2
<1>5. CASE PhpPrepareToWakeQueuedLock(t)
  <2>1. CASE block' # block
    <3>1. /\ word' = word /\ value' = value /\ Go(t, "unlinked")
          /\ block' = [block EXCEPT ![value[t].head].last = block[cur[t]].prev,
                                    ![cur[t]].prev = None]
      BY <1>5, <2>1 DEF PhpPrepareToWakeQueuedLock
    <3>2. cur[t] \in Thread
      BY <1>5 DEF PhpPrepareToWakeQueuedLock, Known, BlockInUseIsAlive
    <3>3. \A b \in Thread : block'[b].spinning = block[b].spinning
      <4>1. block' = Cut(block, value[t].head, cur[t], block[cur[t]].prev)
        BY <3>1 DEF Cut
      <4> QED
        BY <3>2, <4>1, UnlinkedFields
    <3>4. OthersGoOn(t)
      BY <3>1, <3>3 DEF OthersGoOn, Go
    <3> QED
      BY <1>1, <3>1, <3>4, StillServed
  <2>2. CASE block' = block
    <3>1. \/ word' = Free
          \/ word' = word /\ StartWake(t, word)
          \/ word' = word /\ Go(t, "unlinked") /\ value' = value
      BY <1>5, <2>2 DEF PhpPrepareToWakeQueuedLock, Swapped, Stale
    <3>2. CASE word' = Free
      BY <3>2 DEF Free, WaitersAreServed
    <3>3. CASE word' = word /\ StartWake(t, word)
      <4>1. OthersGoOn(t)
        BY <2>2, <3>3 DEF OthersGoOn, StartWake, Locals, Go
      <4> QED
        BY <1>1, <3>3, <4>1, StillServed
    <3>4. CASE word' = word /\ Go(t, "unlinked") /\ value' = value
      <4>1. OthersGoOn(t)
        BY <2>2, <3>4 DEF OthersGoOn, Go
      <4> QED
        BY <1>1, <3>4, <4>1, StillServed
    <3> QED
      BY <3>1, <3>2, <3>3, <3>4
  <2> QED
    BY <2>1, <2>2
<1> QED
  BY <1>2, <1>3, <1>4, <1>5

\* A block with a waker is that of a thread that has not begun to sleep, and that
\* spins, or still changes the list or wakes others.
LEMMA WokenPlace ==
  ASSUME ListIInv, NEW t \in Thread, pc[t] \in {"wake", "signal"},
         block[cur[t]].spinning
  PROVE  cur[t] \in Thread /\ pc[cur[t]] \in {"block", "wake", "signal"} \cup Traversing
<1>1. PICK Q \in SUBSET Thread, H \in [Thread -> Thread \cup {None}],
           N \in [Thread -> Int], lo \in Int, mark \in Int : WaitInv(Q, H) /\ WakeInv(H, N)
  BY DEF ListIInv, GhostInv
<1>2. cur[t] \in Thread /\ H[cur[t]] = t
  BY <1>1 DEF WakeInv, Waking
<1>3. H[cur[t]] # None
  BY <1>2, ThreadsAssumption
<1>4. block[cur[t]].used /\ pc[cur[t]] # "sleep"
  BY <1>1, <1>2, <1>3 DEF WaitInv
<1> QED
  BY <1>2, <1>4 DEF ListIInv, BaseInv, PlaceInv, Working

\* Who wakes its own block has yet to get the lock.
LEMMA OwnBlockIsWanted ==
  ASSUME ListIInv, NEW t \in Thread, pc[t] = "wake", cur[t] = t
  PROVE  want[t] # "free"
<1>1. block[t].used
  BY ListIsKnown DEF Known, BlockInUseIsAlive
<1> QED
  BY <1>1 DEF ListIInv, BaseInv, PlaceInv

\* A thread that changes the list has set the traversing bit.
LEMMA BitIsSet ==
  ASSUME ListIInv, NEW t \in Thread, pc[t] \in Traversing
  PROVE  word.trav
<1>1. PICK Q \in SUBSET Thread, H \in [Thread -> Thread \cup {None}],
           N \in [Thread -> Int], lo \in Int, mark \in Int : TravInv(Q, N, lo, mark)
  BY DEF ListIInv, GhostInv
<1> QED
  BY <1>1 DEF TravInv

\* A waker goes on, and when it is through, the one it has woken last attends.
LEMMA WakeServes ==
  ASSUME ListIInv, WaitersAreServed, NEW t \in Thread,
         ClearTraversing(t) \/ PhpUnblockQueuedWaitBlock(t) \/ NtReleaseKeyedEvent(t)
  PROVE  WaitersAreServed'
<1>0. TypeOK
  BY DEF ListIInv, BaseInv
<1> USE <1>0, Types
<1>1. CASE ClearTraversing(t)
  <2>1. pc'[t] = "wake"
    BY <1>1 DEF ClearTraversing, Go
  <2> QED
    BY <2>1, ServedBy DEF Attends
<1>2. CASE NtReleaseKeyedEvent(t)
  <2>1. /\ pc[t] = "signal" /\ pc[cur[t]] = "sleep"
        /\ \E to : pc' = [pc EXCEPT ![cur[t]] = "acquire", ![t] = to]
    BY <1>2 DEF NtReleaseKeyedEvent
  <2>2. cur[t] \in Thread
    BY <2>1, ListIsKnown DEF Known, BlockInUseIsAlive
  <2>3. pc'[cur[t]] = "acquire"
    BY <2>1, <2>2
  <2> QED
    BY <2>2, <2>3, ServedBy DEF Attends
<1>3. CASE PhpUnblockQueuedWaitBlock(t) /\ ~block[cur[t]].spinning
  <2>1. pc'[t] = "signal"
    BY <1>3 DEF PhpUnblockQueuedWaitBlock, Go
  <2> QED
    BY <2>1, ServedBy DEF Attends
<1>4. CASE PhpUnblockQueuedWaitBlock(t) /\ block[cur[t]].spinning
  <2> DEFINE b == cur[t]
  <2>1. /\ pc[t] = "wake" /\ word' = word
        /\ block' = [block EXCEPT ![b].spinning = FALSE] /\ NextToWake(t)
    BY <1>4 DEF PhpUnblockQueuedWaitBlock
  <2>2. b \in Thread /\ pc[b] \in {"block", "wake", "signal"} \cup Traversing
    BY <1>4, <2>1, WokenPlace
  <2>3. ~block'[b].spinning
    BY <2>1, <2>2 DEF Block
  <2>4. /\ pc'[t] \in {"wake", "block", "idle"}
        /\ \A s \in Thread \ {t} : pc'[s] = pc[s]
    BY <2>1 DEF NextToWake, Return, Leave, Go
  <2>5. CASE pc'[t] = "wake"
    BY <2>5, ServedBy DEF Attends
  <2>6. CASE b = t /\ pc'[t] # "wake"
    <3>1. want[t] # "free"
      BY <1>4, <2>1, <2>6, OwnBlockIsWanted
    <3>2. pc'[t] = "block"
      BY <2>1, <2>6, <3>1 DEF NextToWake, Return, Leave, Go
    <3> QED
      BY <2>3, <2>6, <3>2, ServedBy DEF Attends
  <2>7. CASE b # t /\ pc[b] \in Traversing
    <3>1. word.trav
      BY <2>2, <2>7, BitIsSet
    <3> QED
      BY <2>1, <3>1 DEF WaitersAreServed
  <2>8. CASE b # t /\ pc[b] \in {"block", "wake", "signal"}
    <3>1. pc'[b] = pc[b]
      BY <2>2, <2>4, <2>8
    <3> QED
      BY <2>2, <2>3, <2>8, <3>1, ServedBy DEF Attends
  <2> QED
    BY <2>2, <2>5, <2>6, <2>7, <2>8
<1> QED
  BY <1>1, <1>2, <1>3, <1>4

\* A release with waiters is followed by a wake-up, which goes ahead unless the word
\* has changed.
LEMMA ReleaseServes ==
  ASSUME TypeOK, WaitersAreServed, NEW t \in Thread,
         PhReleaseQueuedLockExclusive(t) \/ PhfWakeForReleaseQueuedLock(t)
  PROVE  WaitersAreServed'
<1> USE Types
<1>1. CASE PhReleaseQueuedLockExclusive(t)
  <2>1. word' = [word EXCEPT !.owned = FALSE]
    BY <1>1 DEF PhReleaseQueuedLockExclusive
  <2>2. word'.waiters = word.waiters /\ word'.trav = word.trav
    BY <2>1 DEF Word
  <2>3. CASE word.waiters /\ ~word.trav
    <3>1. pc'[t] = "released" /\ value'[t] = word'
      BY <1>1, <2>3 DEF PhReleaseQueuedLockExclusive, Go, Locals
    <3> QED
      BY <3>1, ServedBy DEF Attends
  <2>4. CASE ~(word.waiters /\ ~word.trav)
    BY <2>2, <2>4 DEF WaitersAreServed
  <2> QED
    BY <2>3, <2>4
<1>2. CASE PhfWakeForReleaseQueuedLock(t)
  <2>1. CASE word = value[t]
    <3>1. word' = [value[t] EXCEPT !.trav = TRUE]
      BY <1>2, <2>1 DEF PhfWakeForReleaseQueuedLock, Swapped, Stale
    <3> QED
      BY <3>1 DEF WaitersAreServed, Word
  <2>2. CASE word # value[t]
    <3>1. word' = word /\ block' = block /\ pc[t] = "released" /\ Leave(t, "idle")
      BY <1>2, <2>2 DEF PhfWakeForReleaseQueuedLock, Swapped, Stale
    <3>2. OthersGoOn(t) /\ ~Attends(t)
      BY <2>2, <3>1 DEF OthersGoOn, Attends, Leave, Locals, Go
    <3> QED
      BY <3>1, <3>2, StillServed
  <2> QED
    BY <2>1, <2>2
<1> QED
  BY <1>1, <1>2

\* So is that of the last shared owner; the others leave the word owned or without
\* waiters.
LEMMA SharedReleaseServes ==
  ASSUME TypeOK, WaitersAreServed, NEW t \in Thread,
         \/ PhReleaseQueuedLockShared(t) \/ PhfReleaseQueuedLockShared(t)
         \/ PhpFindLastQueuedWaitBlock(t) \/ DecrementSharedOwners(t)
         \/ ReleaseLastShared(t)
  PROVE  WaitersAreServed'
<1> USE Types
<1>1. ~Attends(t)
  BY DEF PhReleaseQueuedLockShared, PhfReleaseQueuedLockShared,
     PhpFindLastQueuedWaitBlock, DecrementSharedOwners, ReleaseLastShared, Attends
<1>2. CASE word' = word
  <2>1. \A b \in Thread : block'[b].spinning = block[b].spinning
    <3>1. CASE DecrementSharedOwners(t)
      BY <3>1, SetOwners DEF DecrementSharedOwners
    <3>2. CASE ~DecrementSharedOwners(t)
      BY <3>2 DEF PhReleaseQueuedLockShared, PhfReleaseQueuedLockShared,
         PhpFindLastQueuedWaitBlock, ReleaseLastShared
    <3> QED
      BY <3>1, <3>2
  <2>2. \A s \in Thread \ {t} : pc'[s] = pc[s] /\ value'[s] = value[s]
    <3>1. CASE PhReleaseQueuedLockShared(t)
      BY <3>1 DEF PhReleaseQueuedLockShared, Leave, Locals, Go
    <3>2. CASE PhfReleaseQueuedLockShared(t)
      BY <3>2 DEF PhfReleaseQueuedLockShared, Leave, Locals, Go
    <3>3. CASE PhpFindLastQueuedWaitBlock(t) \/ DecrementSharedOwners(t)
      BY <3>3 DEF PhpFindLastQueuedWaitBlock, DecrementSharedOwners, Leave, Locals, Go
    <3>4. CASE ReleaseLastShared(t)
      BY <3>4 DEF ReleaseLastShared, StartWake, Leave, Locals, Go
    <3> QED
      BY <3>1, <3>2, <3>3, <3>4
  <2> QED
    BY <1>1, <1>2, <2>1, <2>2, StillServed DEF OthersGoOn
<1>3. CASE word' # word
  <2>1. CASE PhReleaseQueuedLockShared(t)
    BY <1>3, <2>1 DEF PhReleaseQueuedLockShared, Free, WaitersAreServed
  <2>2. CASE PhfReleaseQueuedLockShared(t)
    <3>1. /\ ~value[t].waiters
          /\ word' \in {Free, [value[t] EXCEPT !.shared = @ - 1]}
      BY <1>3, <2>2 DEF PhfReleaseQueuedLockShared, Swapped, Stale
    <3> QED
      BY <3>1 DEF Free, Word, WaitersAreServed
  <2>3. CASE ReleaseLastShared(t)
    <3>1. word' = [value[t] EXCEPT !.owned = FALSE, !.multi = FALSE, !.trav = TRUE]
      BY <1>3, <2>3 DEF ReleaseLastShared, Swapped, Stale
    <3> QED
      BY <3>1 DEF Word, WaitersAreServed
  <2> QED
    BY <1>3, <2>1, <2>2, <2>3 DEF PhpFindLastQueuedWaitBlock, DecrementSharedOwners
<1> QED
  BY <1>2, <1>3

\* Walks for an owner start, and go on, with a word that has one.
LEMMA OwnerSeenStep ==
  ASSUME TypeOK, OwnerSeen, NEW t \in Thread, Start(t) \/ Step(t)
  PROVE  OwnerSeen'
<1> USE Types DEF OwnerSeen
<1>1. CASE Start(t)
  BY <1>1 DEF Start, PhTryAcquireQueuedLockExclusive, PhAcquireQueuedLockExclusive,
     PhAcquireQueuedLockShared, Go
<1>2. CASE AcquireSlow(t)
  BY <1>2 DEF AcquireSlow, Swapped, Stale, Leave, Locals, Go
<1>3. CASE PhpPushQueuedWaitBlock(t)
  BY <1>3 DEF PhpPushQueuedWaitBlock, Swapped, Stale, StartOptimize, StartWake, Leave,
     Locals, Go
<1>4. CASE PhpBlockOnQueuedWaitBlock(t)
  BY <1>4 DEF PhpBlockOnQueuedWaitBlock, Locals, Go
<1>5. CASE PhpOptimizeQueuedLockListEx(t)
  BY <1>5 DEF PhpOptimizeQueuedLockListEx, Go
<1>6. CASE FinishOptimize(t)
  BY <1>6 DEF FinishOptimize, StartOptimize, StartWake, Return, Leave, Locals, Go
<1>7. CASE GiveUpWake(t)
  BY <1>7 DEF GiveUpWake, StartWake, Return, Leave, Locals, Go
<1>8. CASE SeekLast(t)
  BY <1>8 DEF SeekLast, Go
<1>9. CASE PhpPrepareToWakeQueuedLock(t)
  BY <1>9 DEF PhpPrepareToWakeQueuedLock, StartWake, Locals, Go
<1>10. CASE ClearTraversing(t)
  BY <1>10 DEF ClearTraversing, Go
<1>11. CASE PhpUnblockQueuedWaitBlock(t)
  BY <1>11 DEF PhpUnblockQueuedWaitBlock, NextToWake, Return, Leave, Locals, Go
<1>12. CASE NtReleaseKeyedEvent(t)
  BY <1>12 DEF NtReleaseKeyedEvent
<1>13. CASE PhReleaseQueuedLockExclusive(t)
  BY <1>13 DEF PhReleaseQueuedLockExclusive, Leave, Locals, Go
<1>14. CASE PhfWakeForReleaseQueuedLock(t)
  BY <1>14 DEF PhfWakeForReleaseQueuedLock, StartWake, Leave, Locals, Go
<1>15. CASE PhReleaseQueuedLockShared(t)
  BY <1>15 DEF PhReleaseQueuedLockShared, Leave, Locals, Go
<1>16. CASE PhfReleaseQueuedLockShared(t)
  BY <1>16 DEF PhfReleaseQueuedLockShared, Leave, Locals, Go
<1>17. CASE PhpFindLastQueuedWaitBlock(t) \/ DecrementSharedOwners(t)
  BY <1>17 DEF PhpFindLastQueuedWaitBlock, DecrementSharedOwners, Leave, Locals, Go
<1>18. CASE ReleaseLastShared(t)
  BY <1>18 DEF ReleaseLastShared, StartWake, Leave, Locals, Go
<1> QED
  BY <1>1, <1>2, <1>3, <1>4, <1>5, <1>6, <1>7, <1>8, <1>9, <1>10, <1>11, <1>12,
     <1>13, <1>14, <1>15, <1>16, <1>17, <1>18 DEF Step

\* Every step leaves the waiters to somebody.
LEMMA ServedStep == ServedInv /\ [Next]_vars => ServedInv'
<1>1. ASSUME ServedInv, UNCHANGED vars PROVE ServedInv'
  <2>1. ListIInv'
    BY <1>1, ListIInvStep DEF ServedInv
  <2>2. OwnerSeen' /\ WaitersAreServed'
    BY <1>1 DEF ServedInv, OwnerSeen, WaitersAreServed, Attends, vars
  <2> QED
    BY <2>1, <2>2 DEF ServedInv
<1>2. ASSUME ServedInv, Next PROVE ServedInv'
  <2>1. PICK t \in Thread : Start(t) \/ Step(t)
    BY <1>2 DEF Next
  <2>2. TypeOK /\ ListIInv /\ OwnerSeen /\ WaitersAreServed
    BY <1>2 DEF ServedInv, ListIInv, BaseInv
  <2>3. Known
    BY <2>2, ListIsKnown
  <2>4. WaitersAreServed'
    BY <2>1, <2>2, <2>3, AcquireServes, PushServes, BlockServes, TraverseServes, WakeServes,
       ReleaseServes, SharedReleaseServes DEF Start, Step
  <2>5. OwnerSeen'
    BY <2>1, <2>2, OwnerSeenStep
  <2>6. ListIInv'
    BY <1>2, <2>2, ListIInvStep
  <2> QED
    BY <2>4, <2>5, <2>6 DEF ServedInv
<1> QED
  BY <1>1, <1>2

\* The counts and pointers stay in their ranges, only the one thread that holds
\* the traversing bit changes the list of wait blocks, and while others wait on a
\* lock without an owner some thread sees to them (ListInv).
THEOREM ListIsSound == Spec => []ListInv
<1>1. Init => ServedInv
  BY InitInv DEF Init, Free, ServedInv, OwnerSeen, WaitersAreServed
<1>2. ServedInv => ListInv
  BY TraversingIsAlone DEF ServedInv, ListInv, ListIInv, BaseInv
<1> QED
  BY <1>1, <1>2, ServedStep, PTL DEF Spec

\* No thread visits, changes or signals the wait block of a thread that has left.
THEOREM OnlyLiveBlocks == Spec => []BlockInUseIsAlive
<1>1. ListIInv => BlockInUseIsAlive
  BY ListIsKnown DEF Known
<1> QED
  BY <1>1, Invariance, PTL

-----------------------------------------------------------------------------
(***************************************************************************)
(* The lock is a reader/writer lock.                                       *)
(***************************************************************************)

\* What a thread at a place, with what it wants, has to do with the lock.
SeenAs(place, mode) ==
  CASE place = "owns" -> mode
    [] place \in {"leave", "find", "count", "last"} -> "shared"
    [] place # "owns" /\ mode = "exclusive" -> "asksExclusive"
    [] place # "owns" /\ mode = "shared" -> "asksShared"
    [] OTHER -> "idle"

\* A thread that makes a step, and no other, changes its state.
LEMMA OneIsSeen ==
  ASSUME NEW t \in Thread, OthersStand(t)
  PROVE  /\ State[t] = SeenAs(pc[t], want[t])
         /\ State' = [State EXCEPT ![t] = SeenAs(pc'[t], want'[t])]
         /\ SeenAs(pc'[t], want'[t]) = State[t] => UNCHANGED State
<1>1. State = [s \in Thread |-> SeenAs(pc[s], want[s])]
  BY DEF State, SeenAs
<1>2. State' = [s \in Thread |-> SeenAs(pc'[s], want'[s])]
  BY DEF State, SeenAs
<1>3. \A s \in Thread : s # t => pc'[s] = pc[s] /\ want'[s] = want[s]
  BY DEF OthersStand
<1> HIDE DEF State
<1> QED
  BY <1>1, <1>2, <1>3

\* Steps of threads that do not own the lock, before or after, are not seen.
LEMMA NobodyIsSeen ==
  ASSUME want' = want,
         \A s \in Thread : pc'[s] = pc[s] \/ (Outside(s) /\ Outside(s)')
  PROVE  UNCHANGED State
<1>1. ASSUME NEW s \in Thread
      PROVE  SeenAs(pc'[s], want[s]) = SeenAs(pc[s], want[s])
  BY <1>1 DEF SeenAs, Outside
<1>2. State = [s \in Thread |-> SeenAs(pc[s], want[s])]
  BY DEF State, SeenAs
<1>3. State' = [s \in Thread |-> SeenAs(pc'[s], want[s])]
  BY DEF State, SeenAs
<1> QED
  BY <1>1, <1>2, <1>3

\* The owners the abstract lock knows.
LEMMA OwnersAreSeen ==
  ASSUME TypeOK, NEW s \in Thread
  PROVE  /\ State[s] = "exclusive" => s \in Alone
         /\ State[s] = "shared" => s \in Counted \cup Leaving
<1>1. State[s] = SeenAs(pc[s], want[s]) /\ want[s] \in {"exclusive", "shared", "free"}
  BY Types DEF State, SeenAs
<1> QED
  BY <1>1 DEF SeenAs, Alone, Counted, Leaving

\* A thread that gets the lock exclusively found no owner,
LEMMA GrantedAlone ==
  ASSUME Known, NEW t \in Thread, OwnersMove(t), OthersStand(t), Outside(t),
         pc'[t] = "owns", want'[t] = "exclusive",
         State[t] \in {"idle", "asksExclusive"}
  PROVE  [Lock!Next]_State
<1>1. t \notin Owners /\ t \in Alone' /\ t \notin Alone
  BY ComesIn DEF Owners, Alone
<1>2. ~word.owned
  BY <1>1 DEF OwnersMove, SameOwners, Stays, Pushes, TakesList, TakesAlone,
     TakesShared, LeavesAlone, LeavesShared, CountsOut, LeavesLast
<1>3. Owners = {} /\ TypeOK
  BY <1>2 DEF Known, BaseInv, OwnerInv
<1>4. \A s \in Thread : State[s] \notin {"exclusive", "shared"}
  BY <1>3, OwnersAreSeen DEF Owners
<1>5. State' = [State EXCEPT ![t] = "exclusive"]
  <2>1. SeenAs("owns", "exclusive") = "exclusive"
    BY DEF SeenAs
  <2> QED
    BY <2>1, OneIsSeen
<1>6. Lock!Grant(t)
  BY <1>4, <1>5 DEF Lock!Grant, Lock!Owner
<1> QED
  BY <1>6 DEF Lock!Next

\* and one that gets it shared found no exclusive one.
LEMMA GrantedShared ==
  ASSUME Known, NEW t \in Thread, OwnersMove(t), OthersStand(t), Outside(t),
         pc'[t] = "owns", want'[t] = "shared",
         State[t] \in {"idle", "asksShared"}
  PROVE  [Lock!Next]_State
<1>1. t \notin Counted /\ t \in Counted'
  BY DEF Counted, Outside
<1>2. Alone = {}
  BY <1>1 DEF OwnersMove, SameOwners, Stays, Pushes, TakesList, TakesAlone,
     TakesShared, LeavesAlone, LeavesShared, CountsOut, LeavesLast
<1>3. TypeOK
  BY DEF Known, BaseInv
<1>4. \A s \in Thread : State[s] # "exclusive"
  BY <1>2, <1>3, OwnersAreSeen
<1>5. State' = [State EXCEPT ![t] = "shared"]
  <2>1. SeenAs("owns", "shared") = "shared"
    BY DEF SeenAs
  <2> QED
    BY <2>1, OneIsSeen
<1>6. Lock!Grant(t)
  BY <1>4, <1>5 DEF Lock!Grant, Lock!Owner
<1> QED
  BY <1>6 DEF Lock!Next

\* A thread that has to wait for the lock asks for it.
LEMMA Asked ==
  ASSUME NEW t \in Thread, OthersStand(t), State[t] = "idle", Outside(t)',
         want'[t] \in {"exclusive", "shared"}
  PROVE  [Lock!Next]_State
<1>1. SeenAs(pc'[t], want'[t]) \in {"asksExclusive", "asksShared"}
  BY DEF SeenAs, Outside
<1>2. State' = [State EXCEPT ![t] = SeenAs(pc'[t], want'[t])]
  BY OneIsSeen
<1> QED
  BY <1>1, <1>2 DEF Lock!Next, Lock!Ask

\* An owner that is out of the lock has released it.
LEMMA Released ==
  ASSUME NEW t \in Thread, OthersStand(t), State[t] \in {"exclusive", "shared"}, Outside(t)',
         want'[t] = "free"
  PROVE  [Lock!Next]_State
<1>1. SeenAs(pc'[t], want'[t]) = "idle"
  BY DEF SeenAs, Outside
<1>2. State' = [State EXCEPT ![t] = SeenAs(pc'[t], want'[t])]
  BY OneIsSeen
<1> QED
  BY <1>1, <1>2 DEF Lock!Next, Lock!Release

\* Every step grants, releases or asks as ReaderWriterLock allows, or changes
\* nothing that the users of the lock see.
LEMMA LockStep ==
  ASSUME Known, NEW t \in Thread, OwnersMove(t), Start(t) \/ Step(t)
  PROVE  [Lock!Next]_State
<1>0. TypeOK /\ PlaceInv
  BY DEF Known, BaseInv
<1>1. CASE \/ PhAcquireQueuedLockExclusive(t) \/ PhTryAcquireQueuedLockExclusive(t)
           \/ PhAcquireQueuedLockShared(t)
  <2>1. /\ OthersStand(t) /\ pc[t] = "idle" /\ pc'[t] \in {"owns", "acquire"}
        /\ want'[t] \in {"exclusive", "shared"}
    BY <1>0, <1>1, Types DEF PhAcquireQueuedLockExclusive,
       PhTryAcquireQueuedLockExclusive,
       PhAcquireQueuedLockShared, Go, OthersStand
  <2>2. State[t] = "idle" /\ Outside(t)
    BY <1>0, <2>1 DEF PlaceInv, State, Outside
  <2>3. CASE pc'[t] = "acquire"
    BY <2>1, <2>2, <2>3, Asked DEF Outside
  <2>4. CASE pc'[t] = "owns"
    BY <2>1, <2>2, <2>4, GrantedAlone, GrantedShared
  <2> QED
    BY <2>1, <2>3, <2>4
<1>2. CASE AcquireSlow(t)
  <2>1. /\ OthersStand(t) /\ pc[t] = "acquire" /\ pc'[t] \in {"owns", "acquire"} /\ want' = want
        /\ want[t] \in {"exclusive", "shared"} /\ Outside(t)
    BY <1>0, <1>2, Types DEF AcquireSlow, Leave, Go, OthersStand, PlaceInv, Outside
  <2>2. State[t] = IF want[t] = "exclusive" THEN "asksExclusive" ELSE "asksShared"
    BY <2>1 DEF State
  <2>3. CASE pc'[t] = "acquire"
    <3>1. \A s \in Thread : pc'[s] = pc[s]
      BY <2>1, <2>3 DEF OthersStand
    <3> QED
      BY <2>1, <3>1, NobodyIsSeen
  <2>4. CASE pc'[t] = "owns"
    BY <2>1, <2>2, <2>4, GrantedAlone, GrantedShared
  <2> QED
    BY <2>1, <2>3, <2>4
<1>3. CASE \/ PhpPushQueuedWaitBlock(t) \/ PhpBlockOnQueuedWaitBlock(t)
           \/ PhpOptimizeQueuedLockListEx(t) \/ FinishOptimize(t) \/ GiveUpWake(t) \/ SeekLast(t)
           \/ PhpPrepareToWakeQueuedLock(t) \/ ClearTraversing(t) \/ PhpUnblockQueuedWaitBlock(t)
           \/ PhfWakeForReleaseQueuedLock(t)
  <2>1. want' = want
    BY <1>3 DEF PhpPushQueuedWaitBlock, PhpBlockOnQueuedWaitBlock,
       PhpOptimizeQueuedLockListEx,
       FinishOptimize, GiveUpWake, SeekLast, PhpPrepareToWakeQueuedLock, ClearTraversing,
       PhpUnblockQueuedWaitBlock, PhfWakeForReleaseQueuedLock
  <2>2. Outside(t)
    BY <1>3 DEF PhpPushQueuedWaitBlock, PhpBlockOnQueuedWaitBlock,
       PhpOptimizeQueuedLockListEx,
       FinishOptimize, GiveUpWake, SeekLast, PhpPrepareToWakeQueuedLock, ClearTraversing,
       PhpUnblockQueuedWaitBlock, PhfWakeForReleaseQueuedLock, Outside
  <2>3. \/ pc' = pc
        \/ \E to \in {"idle", "acquire", "block", "sleep", "wake", "signal"} \cup Traversing : Go(t, to)
    BY <1>3 DEF PhpPushQueuedWaitBlock, PhpBlockOnQueuedWaitBlock,
       PhpOptimizeQueuedLockListEx,
       FinishOptimize, GiveUpWake, SeekLast, PhpPrepareToWakeQueuedLock, ClearTraversing,
       PhpUnblockQueuedWaitBlock, PhfWakeForReleaseQueuedLock, NextToWake, StartOptimize, StartWake,
       Return, Leave, Traversing
  <2>4. \A s \in Thread : pc'[s] = pc[s] \/ (Outside(s) /\ Outside(s)')
    BY <1>0, <2>2, <2>3, Types DEF Go, Outside, Traversing
  <2> QED
    BY <2>1, <2>4, NobodyIsSeen
<1>4. CASE NtReleaseKeyedEvent(t)
  <2>1. /\ want' = want /\ pc[t] = "signal"
        /\ \A s \in Thread : pc'[s] = pc[s]
                              \/ (pc[s] \in {"signal", "sleep"} /\ pc'[s] \in {"acquire", "wake", "idle", "block"})
    BY <1>0, <1>4, Types DEF NtReleaseKeyedEvent
  <2>2. \A s \in Thread : pc'[s] = pc[s] \/ (Outside(s) /\ Outside(s)')
    BY <2>1 DEF Outside
  <2> QED
    BY <2>1, <2>2, NobodyIsSeen
<1>5. CASE PhReleaseQueuedLockExclusive(t)
  <2>1. /\ OthersStand(t) /\ pc'[t] \in {"released", "idle"} /\ want'[t] = "free"
        /\ State[t] = "exclusive"
    BY <1>0, <1>5, Types DEF PhReleaseQueuedLockExclusive, Leave, Go, OthersStand,
       State
  <2> QED
    BY <2>1, Released DEF Outside
<1>6. CASE \/ PhReleaseQueuedLockShared(t) \/ PhfReleaseQueuedLockShared(t)
           \/ PhpFindLastQueuedWaitBlock(t) \/ DecrementSharedOwners(t) \/ ReleaseLastShared(t)
  <2>1. /\ OthersStand(t) /\ want'[t] = "free"
        /\ (pc[t] = "owns" /\ want[t] = "shared") \/ pc[t] \in {"leave", "find", "count", "last"}
        /\ pc'[t] \in {"idle", "leave", "find", "count", "last", "giveUp", "seek"}
    <3>1. CASE PhReleaseQueuedLockShared(t)
      BY <1>0, <3>1, Types DEF PhReleaseQueuedLockShared, Leave, Go, OthersStand
    <3>2. CASE PhfReleaseQueuedLockShared(t)
      BY <1>0, <3>2, Types DEF PhfReleaseQueuedLockShared, Leave, Go, OthersStand,
         PlaceInv
    <3>3. CASE PhpFindLastQueuedWaitBlock(t) \/ DecrementSharedOwners(t)
      BY <1>0, <3>3, Types DEF PhpFindLastQueuedWaitBlock, DecrementSharedOwners,
         Leave, Go, OthersStand, PlaceInv
    <3>4. CASE ReleaseLastShared(t)
      BY <1>0, <3>4, Types DEF ReleaseLastShared, StartWake, Leave, Go, OthersStand,
         PlaceInv
    <3> QED
      BY <1>6, <3>1, <3>2, <3>3, <3>4
  <2>2. State[t] = "shared"
    BY <1>0, <2>1 DEF State, PlaceInv
  <2>3. CASE pc'[t] \in {"leave", "find", "count", "last"}
    <3>1. SeenAs(pc'[t], want'[t]) = State[t]
      BY <2>1, <2>2, <2>3 DEF SeenAs
    <3> QED
      BY <2>1, <3>1, OneIsSeen
  <2>4. CASE pc'[t] \in {"idle", "giveUp", "seek"}
    BY <2>1, <2>2, <2>4, Released DEF Outside
  <2> QED
    BY <2>1, <2>3, <2>4
<1> QED
  BY <1>1, <1>2, <1>3, <1>4, <1>5, <1>6 DEF Start, Step

\* The queued lock is a reader/writer lock: an exclusive owner is alone, and the
\* mode a thread gets is the one it asked for (LockSpec).
THEOREM IsReaderWriterLock == Spec => LockSpec
<1>1. Init => Lock!Init
  BY DEF Init, Lock!Init, State
<1>2. ListIInv /\ [Next]_vars => [Lock!Next]_State
  <2>1. ASSUME ListIInv, Next PROVE [Lock!Next]_State
    <3>1. PICK t \in Thread : Start(t) \/ Step(t)
      BY <2>1 DEF Next
    <3>2. Known /\ OwnersMove(t)
      BY <2>1, <3>1, ListIsKnown, OwnerMoves
    <3> QED
      BY <3>1, <3>2, LockStep
  <2>2. ASSUME UNCHANGED vars PROVE UNCHANGED State
    BY <2>2 DEF vars, State
  <2> QED
    BY <2>1, <2>2
<1> QED
  BY <1>1, <1>2, Invariance, PTL DEF Spec, LockSpec, Lock!Spec

=============================================================================
