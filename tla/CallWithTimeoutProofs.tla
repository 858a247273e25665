------------------------- MODULE CallWithTimeoutProofs -------------------------
(***************************************************************************)
(* No wait block of the wake event outlives the wait of its thread, and a  *)
(* thread of the pool works only for the caller that holds its context and *)
(* answers only that caller, for any number of callers and contexts.       *)
(***************************************************************************)
EXTENDS CallWithTimeout, SequenceTheorems, TLAPS

\* A block is in one list at most, once.
ListsAreDisjoint ==
  /\ \A i, j \in 1 .. Len(queued) : queued[i] = queued[j] => i = j
  /\ \A t \in Thread : \A i, j \in 1 .. Len(chain[t]) : chain[t][i] = chain[t][j] => i = j
  /\ \A t \in Thread : \A i \in 1 .. Len(queued), j \in 1 .. Len(chain[t]) :
       queued[i] # chain[t][j]
  /\ \A s, t \in Thread : s # t =>
       \A i \in 1 .. Len(chain[s]), j \in 1 .. Len(chain[t]) : chain[s][i] # chain[t][j]

\* The blocks in the lists.
Blocks(q, ch) ==
  {q[i] : i \in 1 .. Len(q)} \cup UNION {{ch[t][i] : i \in 1 .. Len(ch[t])} : t \in Thread}

\* The thread of a block that is in a list: it has not tested again yet, or it
\* waits, or it gives up the wait and will wait for the unblock.
Owed(b) ==
  /\ b \in live
  /\ b \in spinning \/ at[b] = "sleep"
  /\ (pc[b] = "again" /\ at[b] = "out") \/ at[b] \in {"cancel", "block", "sleep"}

BlockInv ==
  /\ ListsAreDisjoint
  /\ \A b \in Blocks(queued, chain) : Owed(b)
  /\ \A t \in Thread : chain[t] # << >> => at[t] \in {"set", "cancel"}

Holding ==
  {"prepare", "init", "assign", "await", "forget", "forgetArgument", "terminate",
   "release"}

\* A context has one holder or is in the pool.
OwnInv ==
  /\ \A t \in Thread : pc[t] \in Holding <=> mine[t] # None
  /\ \A t \in Thread : mine[t] \notin pool
  /\ \A s, t \in Thread : (mine[s] = mine[t] /\ mine[s] # None) => s = t

\* A context nobody uses has no call in it, and a thread that waits for one or
\* no thread at all.
Resting(c) ==
  /\ serves[c] = None /\ routine[c] = None /\ argument[c] = None
  /\ IF c \in hasThread THEN wpc[c] = "wait" /\ c \notin start \cup completed
                        ELSE wpc[c] = "none"

\* A new thread has not set the completed event, or waits for the first call.
Born(c) ==
  /\ serves[c] = None /\ routine[c] = None /\ argument[c] = None
  /\ c \in hasThread /\ c \notin start
  /\ \/ wpc[c] = "born" /\ c \notin completed
     \/ wpc[c] = "wait" /\ c \in completed

\* How far the thread is with the call of t: the completed event is set only
\* after the answer to it.
InCall(c, t) ==
  /\ c \in hasThread /\ routine[c] = t /\ argument[c] = t
  /\ serves[c] = IF wpc[c] = "run" THEN t ELSE None
  /\ \/ wpc[c] = "wait" /\ c \in start /\ c \notin completed
     \/ wpc[c] \in {"test", "load", "run"} /\ c \notin start \cup completed
     \/ wpc[c] = "finish" /\ c \notin start \cup completed /\ t \in answered
     \/ wpc[c] = "wait" /\ c \notin start /\ c \in completed /\ t \in answered

\* A call that is over in time has left its thread waiting for the next one; one
\* that is not leaves it anywhere, with the caller's query context at most.
Over(c, t) ==
  /\ c \in hasThread /\ serves[c] \in {None, t}
  /\ wpc[c] = "run" => serves[c] = t
  /\ t \notin timedOut =>
       t \in answered /\ wpc[c] = "wait" /\ c \notin start \cup completed
          /\ serves[c] = None

ContextInv ==
  /\ \A c \in Context : (\A t \in Thread : mine[t] # c) => Resting(c)
  /\ \A t \in Thread :
       /\ pc[t] \in {"prepare", "release"} => Resting(mine[t])
       /\ pc[t] = "init" => Born(mine[t])
       /\ pc[t] = "assign" => Resting(mine[t]) /\ mine[t] \in hasThread
       /\ pc[t] = "await" => InCall(mine[t], t)
       /\ pc[t] = "forget" =>
            Over(mine[t], t) /\ routine[mine[t]] = t /\ argument[mine[t]] = t
       /\ pc[t] = "forgetArgument" =>
            Over(mine[t], t) /\ routine[mine[t]] = None /\ argument[mine[t]] = t
       /\ pc[t] = "terminate" =>
            Over(mine[t], t) /\ routine[mine[t]] = None /\ argument[mine[t]] = None
       /\ pc[t] \in {"pop", "again", "prepare", "init", "assign", "await"}
          => t \notin timedOut

CallIInv == TypeOK /\ BlockInv /\ OwnInv /\ ContextInv

-----------------------------------------------------------------------------
(***************************************************************************)
(* The steps that preserve it.                                             *)
(***************************************************************************)

\* A block goes to the front of the list,
LEMMA PushFront ==
  ASSUME NEW q \in Seq(Thread), NEW t \in Thread
  PROVE  /\ <<t>> \o q \in Seq(Thread)
         /\ Len(<<t>> \o q) = Len(q) + 1
         /\ (<<t>> \o q)[1] = t
         /\ \A i \in 2 .. Len(q) + 1 : (<<t>> \o q)[i] = q[i - 1] /\ i - 1 \in 1 .. Len(q)
<1>1. <<t>> \in Seq(Thread) /\ Len(<<t>>) = 1 /\ <<t>>[1] = t /\ Len(q) \in Nat
  OBVIOUS
<1>2. /\ <<t>> \o q \in Seq(Thread)
      /\ Len(<<t>> \o q) = Len(<<t>>) + Len(q)
      /\ \A i \in 1 .. Len(<<t>>) + Len(q) :
           (<<t>> \o q)[i] = IF i <= Len(<<t>>) THEN <<t>>[i] ELSE q[i - Len(<<t>>)]
  BY <1>1, ConcatProperties
<1> QED
  BY <1>1, <1>2

\* and leaves it there.
LEMMA PopFront ==
  ASSUME NEW q \in Seq(Thread), q # << >>
  PROVE  /\ Head(q) = q[1] /\ Head(q) \in Thread /\ 1 \in 1 .. Len(q)
         /\ Tail(q) \in Seq(Thread)
         /\ \A i \in 1 .. Len(Tail(q)) : /\ Tail(q)[i] = q[i + 1]
                                         /\ i + 1 \in 1 .. Len(q) /\ i + 1 # 1
  OBVIOUS

\* All blocks are taken at once.
LEMMA SetTypes ==
  ASSUME WakeTypeOK, NEW t \in Thread, NEW place \in {"set", "cancel"},
         PhSetWakeEvent(t, place)
  PROVE  WakeTypeOK'
<1>1. queued' \in Seq(Thread)
  BY DEF PhSetWakeEvent
<1>2. chain' \in [Thread -> Seq(Thread)]
  BY DEF PhSetWakeEvent, WakeTypeOK
<1> QED
  BY <1>1, <1>2 DEF PhSetWakeEvent, WakeTypeOK, Enter

\* A block is queued that was in no list.
LEMMA QueueKeepsLists ==
  ASSUME WakeTypeOK, ListsAreDisjoint, NEW t \in Thread, t \notin Blocks(queued, chain),
         PhfQueueWakeEvent(t)
  PROVE  ListsAreDisjoint'
     /\ Blocks(queued', chain') \subseteq Blocks(queued, chain) \cup {t}
<1>1. /\ queued \in Seq(Thread) /\ queued' = <<t>> \o queued /\ chain' = chain
      /\ Len(queued) \in Nat
  BY DEF PhfQueueWakeEvent, WakeTypeOK
<1>2. /\ Len(queued') = Len(queued) + 1 /\ queued'[1] = t
      /\ \A i \in 2 .. Len(queued) + 1 : queued'[i] = queued[i - 1]
         /\ i - 1 \in 1 .. Len(queued)
  BY <1>1, PushFront
<1>3. \A i \in 1 .. Len(queued') :
        i = 1 \/ (i # 1 /\ queued'[i] = queued[i - 1] /\ i - 1 \in 1 .. Len(queued))
  BY <1>1, <1>2
<1>4. /\ \A i \in 1 .. Len(queued) : queued[i] # t
      /\ \A s \in Thread : \A i \in 1 .. Len(chain[s]) : chain[s][i] # t
  BY DEF Blocks
<1>5. \A i, j \in 1 .. Len(queued') : queued'[i] = queued'[j] => i = j
  <2> SUFFICES ASSUME NEW i \in 1 .. Len(queued'), NEW j \in 1 .. Len(queued'),
                      queued'[i] = queued'[j]
               PROVE  i = j
    OBVIOUS
  <2>1. CASE i = 1 \/ j = 1
    BY <1>2, <1>3, <1>4, <2>1
  <2>2. CASE i # 1 /\ j # 1
    <3>1. i - 1 = j - 1
      BY <1>3, <2>2 DEF ListsAreDisjoint
    <3> QED
      BY <1>1, <1>2, <3>1
  <2> QED
    BY <2>1, <2>2
<1>6. \A s \in Thread : \A i \in 1 .. Len(queued'), j \in 1 .. Len(chain[s]) :
        queued'[i] # chain[s][j]
  <2>1. \A s \in Thread : \A j \in 1 .. Len(chain[s]) : queued'[1] # chain[s][j]
    BY <1>2, <1>4
  <2>2. \A s \in Thread : \A i \in 1 .. Len(queued), j \in 1 .. Len(chain[s]) :
          queued[i] # chain[s][j]
    BY DEF ListsAreDisjoint
  <2> QED
    BY <1>3, <2>1, <2>2
<1>7. ListsAreDisjoint'
  <2>1. chain' = chain
    BY <1>1
  <2> QED
    BY <1>5, <1>6, <2>1 DEF ListsAreDisjoint
<1>8. \A i \in 1 .. Len(queued') : queued'[i] \in {queued[j] : j \in 1 .. Len(queued)} \cup {t}
  BY <1>2, <1>3
<1>9. Blocks(queued', chain') \subseteq Blocks(queued, chain) \cup {t}
  BY <1>1, <1>8 DEF Blocks
<1> QED
  BY <1>7, <1>9

\* A thread without blocks takes all that are queued.
LEMMA SetKeepsLists ==
  ASSUME WakeTypeOK, ListsAreDisjoint, NEW t \in Thread, chain[t] = << >>,
         NEW place, PhSetWakeEvent(t, place)
  PROVE  ListsAreDisjoint' /\ Blocks(queued', chain') \subseteq Blocks(queued, chain)
<1>1. /\ Len(queued') = 0 /\ chain'[t] = queued
      /\ \A s \in Thread : s # t => chain'[s] = chain[s]
  BY DEF PhSetWakeEvent, WakeTypeOK
<1>2. ListsAreDisjoint'
  BY <1>1 DEF ListsAreDisjoint
<1>3. Blocks(queued', chain') \subseteq Blocks(queued, chain)
  BY <1>1 DEF Blocks
<1> QED
  BY <1>2, <1>3

\* The block a thread has unblocked is in no list any more.
LEMMA UnblockKeepsLists ==
  ASSUME WakeTypeOK, ListsAreDisjoint, NEW t \in Thread, UnblockNext(t)
  PROVE  /\ ListsAreDisjoint'
         /\ Blocks(queued', chain') \subseteq Blocks(queued, chain) \ {Head(chain[t])}
         /\ Head(chain[t]) \in Blocks(queued, chain) \cap Thread
<1>1. /\ queued' = queued /\ chain'[t] = Tail(chain[t])
      /\ \A s \in Thread : s # t => chain'[s] = chain[s]
      /\ chain[t] \in Seq(Thread) /\ chain[t] # << >>
  BY DEF UnblockNext, WakeTypeOK
<1>2. /\ Head(chain[t]) = chain[t][1] /\ Head(chain[t]) \in Thread
         /\ 1 \in 1 .. Len(chain[t])
      /\ \A i \in 1 .. Len(chain'[t]) : /\ chain'[t][i] = chain[t][i + 1]
                                        /\ i + 1 \in 1 .. Len(chain[t]) /\ i + 1 # 1
  BY <1>1, PopFront
<1>3. \A i, j \in 1 .. Len(chain'[t]) : i + 1 = j + 1 => i = j
  OBVIOUS
<1>4. /\ \A i, j \in 1 .. Len(chain'[t]) : chain'[t][i] = chain'[t][j] => i = j
      /\ \A i \in 1 .. Len(chain'[t]) : chain'[t][i] # Head(chain[t])
  BY <1>2, <1>3 DEF ListsAreDisjoint
<1>5. \A s \in Thread : \A i \in 1 .. Len(chain'[s]) :
        \E j \in 1 .. Len(chain[s]) : chain'[s][i] = chain[s][j]
  <2>1. \A i \in 1 .. Len(chain'[t]) :
          \E j \in 1 .. Len(chain[t]) : chain'[t][i] = chain[t][j]
    BY <1>2
  <2>2. \A s \in Thread : s # t => chain'[s] = chain[s]
    BY <1>1
  <2> QED
    BY <2>1, <2>2
<1>6. ListsAreDisjoint'
  <2>1. \A s \in Thread : \A i, j \in 1 .. Len(chain'[s]) :
          chain'[s][i] = chain'[s][j] => i = j
    BY <1>1, <1>4 DEF ListsAreDisjoint
  <2>2. \A s \in Thread : \A i \in 1 .. Len(queued), j \in 1 .. Len(chain'[s]) :
          queued[i] # chain'[s][j]
    BY <1>5 DEF ListsAreDisjoint
  <2>3. \A r, s \in Thread : r # s =>
          \A i \in 1 .. Len(chain'[r]), j \in 1 .. Len(chain'[s]) : chain'[r][i] # chain'[s][j]
    BY <1>5 DEF ListsAreDisjoint
  <2>4. queued' = queued
    BY <1>1
  <2> QED
    BY <2>1, <2>2, <2>3, <2>4 DEF ListsAreDisjoint
<1>7. /\ \A i \in 1 .. Len(queued) : queued[i] # Head(chain[t])
      /\ \A s \in Thread : s # t =>
           \A i \in 1 .. Len(chain[s]) : chain[s][i] # Head(chain[t])
  BY <1>2 DEF ListsAreDisjoint
<1>8. Blocks(queued', chain') \subseteq Blocks(queued, chain) \ {Head(chain[t])}
  <2>1. \A s \in Thread : \A i \in 1 .. Len(chain'[s]) : chain'[s][i] # Head(chain[t])
    BY <1>1, <1>4, <1>7
  <2>2. queued' = queued
    BY <1>1
  <2>3. ASSUME NEW b \in Blocks(queued', chain')
        PROVE  b \in Blocks(queued, chain) /\ b # Head(chain[t])
    <3>1. CASE b \in {queued[i] : i \in 1 .. Len(queued)}
      BY <1>7, <3>1 DEF Blocks
    <3>2. ASSUME NEW s \in Thread, NEW i \in 1 .. Len(chain'[s]), b = chain'[s][i]
          PROVE  b \in Blocks(queued, chain) /\ b # Head(chain[t])
      <4>1. PICK j \in 1 .. Len(chain[s]) : b = chain[s][j]
        BY <1>5, <3>2
      <4>2. b # Head(chain[t])
        BY <2>1, <3>2
      <4> QED
        BY <4>1, <4>2 DEF Blocks
    <3> QED
      BY <2>2, <2>3, <3>1, <3>2 DEF Blocks
  <2> QED
    BY <2>3
<1>9. Head(chain[t]) \in Blocks(queued, chain)
  BY <1>2 DEF Blocks
<1> QED
  BY <1>2, <1>6, <1>8, <1>9

\* A caller that has no block in a list moves, or a thread of the pool.
LEMMA ListsRest ==
  ASSUME TypeOK, BlockInv, UNCHANGED wakeVars,
         \A s \in Thread : pc'[s] = pc[s] \/ ~(pc[s] = "again" /\ at[s] = "out")
  PROVE  BlockInv'
<1>1. /\ queued' = queued /\ chain' = chain /\ spinning' = spinning /\ live' = live
      /\ at' = at
  BY DEF wakeVars
<1>2. ListsAreDisjoint'
  BY <1>1 DEF BlockInv, ListsAreDisjoint
<1>3. \A b \in Blocks(queued, chain) : b \in Thread
  BY DEF Blocks, TypeOK, WakeTypeOK
<1>4. \A b \in Blocks(queued, chain) : Owed(b)'
  BY <1>1, <1>3 DEF BlockInv, Owed
<1>5. Blocks(queued', chain') = Blocks(queued, chain)
  BY <1>1
<1>6. \A s \in Thread : chain'[s] # << >> => at'[s] \in {"set", "cancel"}
  BY <1>1 DEF BlockInv
<1> QED
  BY <1>2, <1>4, <1>5, <1>6 DEF BlockInv

\* Every step keeps the types of the event,
LEMMA WakeTypeStep ==
  WakeTypeOK /\ [Next]_vars => WakeTypeOK'
<1> SUFFICES ASSUME WakeTypeOK, [Next]_vars PROVE WakeTypeOK'
  OBVIOUS
<1> USE DEF WakeTypeOK, wakeVars, At, Go
<1>1. ASSUME NEW t \in Thread, PhCallWithTimeout(t) PROVE WakeTypeOK'
  BY <1>1 DEF PhCallWithTimeout
<1>2. ASSUME NEW t \in Thread, PhpAcquireCallWithTimeoutThread(t) PROVE WakeTypeOK'
  <2>1. CASE UNCHANGED wakeVars
    BY <2>1
  <2>2. CASE PhfQueueWakeEvent(t)
    <3>1. queued' \in Seq(Thread)
      BY <2>2, PushFront DEF PhfQueueWakeEvent
    <3> QED
      BY <2>2, <3>1 DEF PhfQueueWakeEvent
  <2> QED
    BY <1>2, <2>1, <2>2 DEF PhpAcquireCallWithTimeoutThread
<1>3. ASSUME NEW t \in Thread, PopAgain(t) PROVE WakeTypeOK'
  <2>1. CASE PhSetWakeEvent(t, "cancel")
    BY <2>1, SetTypes
  <2>2. CASE PhWaitForWakeEvent(t)
    BY <2>2 DEF PhWaitForWakeEvent, Enter
  <2> QED
    BY <1>3, <2>1, <2>2 DEF PopAgain
<1>4. ASSUME NEW t \in Thread, PhpReleaseCallWithTimeoutThread(t) PROVE WakeTypeOK'
  <2>1. CASE UNCHANGED wakeVars
    BY <2>1
  <2>2. CASE PhSetWakeEvent(t, "set")
    BY <2>2, SetTypes
  <2> QED
    BY <1>4, <2>1, <2>2 DEF PhpReleaseCallWithTimeoutThread
<1>5. ASSUME NEW t \in Thread, PrepareThread(t) PROVE WakeTypeOK'
  BY <1>5 DEF PrepareThread
<1>6. ASSUME NEW t \in Thread, ThreadInitialized(t) PROVE WakeTypeOK'
  BY <1>6 DEF ThreadInitialized
<1>7. ASSUME NEW t \in Thread, StartRoutine(t) PROVE WakeTypeOK'
  BY <1>7 DEF StartRoutine
<1>8. ASSUME NEW t \in Thread, RoutineCompleted(t) PROVE WakeTypeOK'
  BY <1>8 DEF RoutineCompleted
<1>9. ASSUME NEW t \in Thread, CallTimesOut(t) PROVE WakeTypeOK'
  BY <1>9 DEF CallTimesOut
<1>10. ASSUME NEW t \in Thread, ForgetRoutine(t) PROVE WakeTypeOK'
  BY <1>10 DEF ForgetRoutine
<1>11. ASSUME NEW t \in Thread, TerminateThread(t) PROVE WakeTypeOK'
  BY <1>11 DEF TerminateThread
<1>12. ASSUME NEW t \in Thread, UnblockNext(t) /\ UNCHANGED callVars
      PROVE  WakeTypeOK'
  <2>1. chain[t] \in Seq(Thread) /\ chain[t] # << >>
    BY <1>12 DEF UnblockNext
  <2>2. Tail(chain[t]) \in Seq(Thread) /\ Head(chain[t]) \in Thread
    BY <2>1, PopFront
  <2>3. chain' \in [Thread -> Seq(Thread)]
    BY <1>12, <2>2 DEF UnblockNext
  <2>4. at' \in [Thread -> {"out", "set", "cancel", "block", "sleep"}]
    BY <1>12 DEF UnblockNext, Enter
  <2> QED
    BY <1>12, <2>3, <2>4 DEF UnblockNext
<1>13. ASSUME NEW t \in Thread, PhfSetWakeEvent(t) /\ UNCHANGED callVars
      PROVE  WakeTypeOK'
  BY <1>13 DEF PhfSetWakeEvent, Enter, callVars
<1>14. ASSUME NEW t \in Thread, PhpBlockOnQueuedWaitBlock(t) /\ UNCHANGED callVars
      PROVE  WakeTypeOK'
  BY <1>14 DEF PhpBlockOnQueuedWaitBlock, Enter, callVars
<1>15. ASSUME NEW c \in Context, SetCompleted(c) PROVE WakeTypeOK'
  BY <1>15 DEF SetCompleted, Move, ThreadIdle
<1>16. ASSUME NEW c \in Context, WaitForStart(c) PROVE WakeTypeOK'
  BY <1>16 DEF WaitForStart, Move, ThreadIdle
<1>17. ASSUME NEW c \in Context, TestRoutine(c) PROVE WakeTypeOK'
  BY <1>17 DEF TestRoutine, Move, ThreadIdle
<1>18. ASSUME NEW c \in Context, CallRoutine(c) PROVE WakeTypeOK'
  BY <1>18 DEF CallRoutine, Move, ThreadIdle
<1>19. ASSUME NEW c \in Context, RoutineReturns(c) PROVE WakeTypeOK'
  BY <1>19 DEF RoutineReturns, Move, ThreadIdle
<1>20. CASE UNCHANGED vars
  BY <1>20 DEF vars
<1> QED
  BY <1>1, <1>2, <1>3, <1>4, <1>5, <1>6, <1>7, <1>8, <1>9, <1>10, <1>11, <1>12, <1>13,
     <1>14, <1>15, <1>16, <1>17, <1>18, <1>19, <1>20
     DEF Next, CallerStep, WakeStep, ThreadStep

\* and those of the calls.
LEMMA CallTypeStep ==
  CallTypeOK /\ OwnInv /\ ContextInv /\ [Next]_vars => CallTypeOK'
<1> SUFFICES ASSUME CallTypeOK, OwnInv, ContextInv, [Next]_vars PROVE CallTypeOK'
  OBVIOUS
<1> USE CallAssumption DEF CallTypeOK, OwnInv, Holding, At, Go
<1>1. ASSUME NEW t \in Thread, PhCallWithTimeout(t) PROVE CallTypeOK'
  BY <1>1 DEF PhCallWithTimeout
<1>2. ASSUME NEW t \in Thread, PhpAcquireCallWithTimeoutThread(t) PROVE CallTypeOK'
  BY <1>2 DEF PhpAcquireCallWithTimeoutThread, Pop, PhfQueueWakeEvent
<1>3. ASSUME NEW t \in Thread, PopAgain(t) PROVE CallTypeOK'
  BY <1>3 DEF PopAgain, Pop, PhSetWakeEvent, PhWaitForWakeEvent, Enter
<1>4. ASSUME NEW t \in Thread, PhpReleaseCallWithTimeoutThread(t) PROVE CallTypeOK'
  BY <1>4 DEF PhpReleaseCallWithTimeoutThread, PhSetWakeEvent, Enter
<1>5. ASSUME NEW t \in Thread, PrepareThread(t) PROVE CallTypeOK'
  BY <1>5 DEF PrepareThread
<1>6. ASSUME NEW t \in Thread, ThreadInitialized(t) PROVE CallTypeOK'
  BY <1>6 DEF ThreadInitialized
<1>7. ASSUME NEW t \in Thread, StartRoutine(t) PROVE CallTypeOK'
  BY <1>7 DEF StartRoutine
<1>8. ASSUME NEW t \in Thread, RoutineCompleted(t) PROVE CallTypeOK'
  BY <1>8 DEF RoutineCompleted
<1>9. ASSUME NEW t \in Thread, CallTimesOut(t) PROVE CallTypeOK'
  BY <1>9 DEF CallTimesOut
<1>10. ASSUME NEW t \in Thread, ForgetRoutine(t) PROVE CallTypeOK'
  BY <1>10 DEF ForgetRoutine
<1>11. ASSUME NEW t \in Thread, TerminateThread(t) PROVE CallTypeOK'
  BY <1>11 DEF TerminateThread
<1>12. ASSUME NEW t \in Thread, UnblockNext(t) /\ UNCHANGED callVars
      PROVE  CallTypeOK'
  BY <1>12 DEF UnblockNext, Enter, callVars
<1>13. ASSUME NEW t \in Thread, PhfSetWakeEvent(t) /\ UNCHANGED callVars
      PROVE  CallTypeOK'
  BY <1>13 DEF PhfSetWakeEvent, Enter, callVars
<1>14. ASSUME NEW t \in Thread, PhpBlockOnQueuedWaitBlock(t) /\ UNCHANGED callVars
      PROVE  CallTypeOK'
  BY <1>14 DEF PhpBlockOnQueuedWaitBlock, Enter, callVars
<1>15. ASSUME NEW c \in Context, SetCompleted(c) PROVE CallTypeOK'
  <2>1. wpc' = [wpc EXCEPT ![c] = "wait"]
    BY <1>15 DEF SetCompleted, Move
  <2> QED
    BY <1>15, <2>1 DEF SetCompleted, ThreadIdle
<1>16. ASSUME NEW c \in Context, WaitForStart(c) PROVE CallTypeOK'
  BY <1>16 DEF WaitForStart, Move, ThreadIdle
<1>17. ASSUME NEW c \in Context, TestRoutine(c) PROVE CallTypeOK'
  BY <1>17 DEF TestRoutine, Move, ThreadIdle
<1>18. ASSUME NEW c \in Context, CallRoutine(c) PROVE CallTypeOK'
  <2>1. wpc' = [wpc EXCEPT ![c] = "run"] \/ wpc' = [wpc EXCEPT ![c] = "fault"]
    BY <1>18 DEF CallRoutine, Move
  <2>2. wpc' \in [Context -> {"none", "born", "wait", "test", "load", "run", "finish", "fault"}]
    BY <2>1
  <2> QED
    BY <1>18, <2>2 DEF CallRoutine, ThreadIdle
<1>19. ASSUME NEW c \in Context, RoutineReturns(c) PROVE CallTypeOK'
  <2>1. serves[c] \in Thread /\ wpc[c] = "run"
    BY <1>19 DEF RoutineReturns, Move, ContextInv, Resting, Born, InCall, Over
  <2> QED
    BY <1>19, <2>1 DEF RoutineReturns, Move, ThreadIdle
<1>20. CASE UNCHANGED vars
  BY <1>20 DEF vars
<1> QED
  BY <1>1, <1>2, <1>3, <1>4, <1>5, <1>6, <1>7, <1>8, <1>9, <1>10, <1>11, <1>12, <1>13,
     <1>14, <1>15, <1>16, <1>17, <1>18, <1>19, <1>20
     DEF Next, CallerStep, WakeStep, ThreadStep

\* A context that is taken leaves the pool, and one that is given back leaves its
\* holder.
LEMMA OwnStep ==
  TypeOK /\ OwnInv /\ [Next]_vars => OwnInv'
<1> SUFFICES ASSUME TypeOK, OwnInv, [Next]_vars PROVE OwnInv'
  OBVIOUS
<1> USE CallAssumption DEF TypeOK, CallTypeOK, OwnInv, Holding, wakeVars, At, Go
<1>1. ASSUME NEW t \in Thread, PhCallWithTimeout(t) PROVE OwnInv'
  BY <1>1 DEF PhCallWithTimeout
<1>2. ASSUME NEW t \in Thread, PhpAcquireCallWithTimeoutThread(t) PROVE OwnInv'
  BY <1>2 DEF PhpAcquireCallWithTimeoutThread, Pop, PhfQueueWakeEvent
<1>3. ASSUME NEW t \in Thread, PopAgain(t) PROVE OwnInv'
  BY <1>3 DEF PopAgain, Pop, PhSetWakeEvent, PhWaitForWakeEvent, Enter
<1>4. ASSUME NEW t \in Thread, PhpReleaseCallWithTimeoutThread(t) PROVE OwnInv'
  BY <1>4 DEF PhpReleaseCallWithTimeoutThread, PhSetWakeEvent, Enter
<1>5. ASSUME NEW t \in Thread, PrepareThread(t) PROVE OwnInv'
  BY <1>5 DEF PrepareThread
<1>6. ASSUME NEW t \in Thread, ThreadInitialized(t) PROVE OwnInv'
  BY <1>6 DEF ThreadInitialized
<1>7. ASSUME NEW t \in Thread, StartRoutine(t) PROVE OwnInv'
  BY <1>7 DEF StartRoutine
<1>8. ASSUME NEW t \in Thread, RoutineCompleted(t) PROVE OwnInv'
  BY <1>8 DEF RoutineCompleted
<1>9. ASSUME NEW t \in Thread, CallTimesOut(t) PROVE OwnInv'
  BY <1>9 DEF CallTimesOut
<1>10. ASSUME NEW t \in Thread, ForgetRoutine(t) PROVE OwnInv'
  BY <1>10 DEF ForgetRoutine
<1>11. ASSUME NEW t \in Thread, TerminateThread(t) PROVE OwnInv'
  BY <1>11 DEF TerminateThread
<1>12. ASSUME NEW t \in Thread, UnblockNext(t) /\ UNCHANGED callVars PROVE OwnInv'
  BY <1>12 DEF UnblockNext, Enter, callVars
<1>13. ASSUME NEW t \in Thread, PhfSetWakeEvent(t) /\ UNCHANGED callVars
      PROVE  OwnInv'
  BY <1>13 DEF PhfSetWakeEvent, Enter, callVars
<1>14. ASSUME NEW t \in Thread, PhpBlockOnQueuedWaitBlock(t) /\ UNCHANGED callVars
      PROVE  OwnInv'
  BY <1>14 DEF PhpBlockOnQueuedWaitBlock, Enter, callVars
<1>15. ASSUME NEW c \in Context, SetCompleted(c) PROVE OwnInv'
  BY <1>15 DEF SetCompleted, Move, ThreadIdle
<1>16. ASSUME NEW c \in Context, WaitForStart(c) PROVE OwnInv'
  BY <1>16 DEF WaitForStart, Move, ThreadIdle
<1>17. ASSUME NEW c \in Context, TestRoutine(c) PROVE OwnInv'
  BY <1>17 DEF TestRoutine, Move, ThreadIdle
<1>18. ASSUME NEW c \in Context, CallRoutine(c) PROVE OwnInv'
  BY <1>18 DEF CallRoutine, Move, ThreadIdle
<1>19. ASSUME NEW c \in Context, RoutineReturns(c) PROVE OwnInv'
  BY <1>19 DEF RoutineReturns, Move, ThreadIdle
<1>20. CASE UNCHANGED vars
  BY <1>20 DEF vars
<1> QED
  BY <1>1, <1>2, <1>3, <1>4, <1>5, <1>6, <1>7, <1>8, <1>9, <1>10, <1>11, <1>12, <1>13,
     <1>14, <1>15, <1>16, <1>17, <1>18, <1>19, <1>20
     DEF Next, CallerStep, WakeStep, ThreadStep

\* A block that is taken from its list is unblocked before its thread goes on.
LEMMA BlockStep ==
  TypeOK /\ BlockInv /\ [Next]_vars => BlockInv'
<1> SUFFICES ASSUME TypeOK, BlockInv, [Next]_vars PROVE BlockInv'
  OBVIOUS
<1> USE DEF At, Go
<1>1. ASSUME NEW t \in Thread, PhCallWithTimeout(t) PROVE BlockInv'
  BY <1>1, ListsRest DEF PhCallWithTimeout, TypeOK, CallTypeOK
<1>2. ASSUME NEW t \in Thread, PhpAcquireCallWithTimeoutThread(t) PROVE BlockInv'
  <2> USE DEF TypeOK, WakeTypeOK, CallTypeOK, BlockInv, Owed
  <2>1. /\ t \notin Blocks(queued, chain) /\ pc[t] = "pop" /\ at[t] = "out"
        /\ \A s \in Thread : s # t => pc'[s] = pc[s]
    BY <1>2 DEF PhpAcquireCallWithTimeoutThread, Pop
  <2>2. CASE UNCHANGED wakeVars
    BY <2>1, <2>2, ListsRest
  <2>3. CASE PhfQueueWakeEvent(t) /\ pc' = [pc EXCEPT ![t] = "again"]
    <3>1. ListsAreDisjoint'
          /\ Blocks(queued', chain') \subseteq Blocks(queued, chain) \cup {t}
      BY <2>1, <2>3, QueueKeepsLists
    <3>2. /\ at' = at /\ chain' = chain /\ t \in spinning' /\ t \in live'
          /\ spinning \subseteq spinning' /\ live \subseteq live' /\ pc'[t] = "again"
      BY <2>3 DEF PhfQueueWakeEvent
    <3>3. \A s \in Blocks(queued, chain) : s \in Thread
      BY DEF Blocks
    <3>4. ASSUME NEW s \in Blocks(queued, chain) PROVE Owed(s)'
      BY <2>1, <3>2, <3>3
    <3>5. Owed(t)'
      BY <2>1, <3>2
    <3>6. \A s \in Blocks(queued', chain') : Owed(s)'
      BY <3>1, <3>4, <3>5
    <3> QED
      BY <3>1, <3>2, <3>6
  <2> QED
    BY <1>2, <2>2, <2>3 DEF PhpAcquireCallWithTimeoutThread
<1>3. ASSUME NEW t \in Thread, PopAgain(t) PROVE BlockInv'
  <2> USE DEF TypeOK, WakeTypeOK, CallTypeOK, BlockInv, Owed
  <2>1. /\ pc[t] = "again" /\ at[t] = "out"
        /\ \A s \in Thread : s # t => pc'[s] = pc[s]
    BY <1>3 DEF PopAgain, Pop
  <2>2. CASE PhSetWakeEvent(t, "cancel")
    <3>1. ListsAreDisjoint' /\ Blocks(queued', chain') \subseteq Blocks(queued, chain)
      BY <2>1, <2>2, SetKeepsLists
    <3> QED
      BY <2>1, <2>2, <3>1 DEF PhSetWakeEvent, Enter
  <2>3. CASE PhWaitForWakeEvent(t)
    BY <2>1, <2>3 DEF PhWaitForWakeEvent, Enter, ListsAreDisjoint
  <2> QED
    BY <1>3, <2>2, <2>3 DEF PopAgain
<1>4. ASSUME NEW t \in Thread, PhpReleaseCallWithTimeoutThread(t) PROVE BlockInv'
  <2> USE DEF TypeOK, WakeTypeOK, CallTypeOK, BlockInv, Owed
  <2>1. /\ t \notin Blocks(queued, chain) /\ at[t] = "out" /\ pc[t] # "again"
        /\ \A s \in Thread : s # t => pc'[s] = pc[s]
    BY <1>4 DEF PhpReleaseCallWithTimeoutThread
  <2>2. CASE UNCHANGED wakeVars
    BY <2>1, <2>2, ListsRest
  <2>3. CASE PhSetWakeEvent(t, "set")
    <3>1. ListsAreDisjoint' /\ Blocks(queued', chain') \subseteq Blocks(queued, chain)
      BY <2>1, <2>3, SetKeepsLists
    <3> QED
      BY <2>1, <2>3, <3>1 DEF PhSetWakeEvent, Enter
  <2> QED
    BY <1>4, <2>2, <2>3 DEF PhpReleaseCallWithTimeoutThread
<1>5. ASSUME NEW t \in Thread, PrepareThread(t) PROVE BlockInv'
  BY <1>5, ListsRest DEF PrepareThread, TypeOK, CallTypeOK
<1>6. ASSUME NEW t \in Thread, ThreadInitialized(t) PROVE BlockInv'
  BY <1>6, ListsRest DEF ThreadInitialized, TypeOK, CallTypeOK
<1>7. ASSUME NEW t \in Thread, StartRoutine(t) PROVE BlockInv'
  BY <1>7, ListsRest DEF StartRoutine, TypeOK, CallTypeOK
<1>8. ASSUME NEW t \in Thread, RoutineCompleted(t) PROVE BlockInv'
  BY <1>8, ListsRest DEF RoutineCompleted, TypeOK, CallTypeOK
<1>9. ASSUME NEW t \in Thread, CallTimesOut(t) PROVE BlockInv'
  BY <1>9, ListsRest DEF CallTimesOut, TypeOK, CallTypeOK
<1>10. ASSUME NEW t \in Thread, ForgetRoutine(t) PROVE BlockInv'
  BY <1>10, ListsRest DEF ForgetRoutine, TypeOK, CallTypeOK
<1>11. ASSUME NEW t \in Thread, TerminateThread(t) PROVE BlockInv'
  BY <1>11, ListsRest DEF TerminateThread, TypeOK, CallTypeOK
<1>12. ASSUME NEW t \in Thread, UnblockNext(t) /\ UNCHANGED callVars PROVE BlockInv'
  <2> USE DEF TypeOK, WakeTypeOK, CallTypeOK, BlockInv, Owed
  <2> DEFINE b == Head(chain[t])
  <2>1. /\ ListsAreDisjoint'
           /\ Blocks(queued', chain') \subseteq Blocks(queued, chain) \ {b}
        /\ b \in Blocks(queued, chain) \cap Thread
    BY <1>12, UnblockKeepsLists
  <2>2. /\ pc' = pc /\ spinning \ {b} \subseteq spinning' /\ live \ {b} \subseteq live'
        /\ \A s \in Thread : s # b => at'[s] = at[s]
        /\ at'[b] # at[b] => at[b] = "sleep"
        /\ \A s \in Thread : s # t => chain'[s] = chain[s]
        /\ at[t] \in {"set", "cancel"}
    BY <1>12, <2>1 DEF UnblockNext, Enter, callVars
  <2>3. \A s \in Blocks(queued, chain) : s \in Thread
    BY DEF Blocks
  <2>4. \A s \in Blocks(queued', chain') : Owed(s)'
    BY <2>1, <2>2, <2>3
  <2>5. \A s \in Thread : chain'[s] # << >> => at'[s] \in {"set", "cancel"}
    BY <2>2
  <2> QED
    BY <2>1, <2>4, <2>5
<1>13. ASSUME NEW t \in Thread, PhfSetWakeEvent(t) /\ UNCHANGED callVars
      PROVE  BlockInv'
  <2> USE DEF TypeOK, WakeTypeOK, CallTypeOK, BlockInv, Owed
  <2>1. /\ pc' = pc /\ queued' = queued /\ chain' = chain /\ spinning' = spinning
        /\ chain[t] = << >> /\ at[t] # "sleep"
        /\ \A s \in Thread : s # t => at'[s] = at[s] /\ (s \in live => s \in live')
    BY <1>13 DEF PhfSetWakeEvent, Enter, callVars
  <2>2. t \in Blocks(queued, chain) => at'[t] = "block" /\ live' = live
    BY <1>13 DEF PhfSetWakeEvent, Enter
  <2>3. \A s \in Blocks(queued, chain) : s \in Thread
    BY DEF Blocks
  <2>4. \A s \in Blocks(queued, chain) : Owed(s)'
    BY <2>1, <2>2, <2>3
  <2>5. ListsAreDisjoint'
    <3>1. ListsAreDisjoint /\ queued' = queued /\ chain' = chain
      BY <2>1
    <3> HIDE DEF TypeOK, WakeTypeOK, CallTypeOK, BlockInv, Owed
    <3> QED
      BY <3>1 DEF ListsAreDisjoint
  <2>6. Blocks(queued', chain') = Blocks(queued, chain)
    BY <2>1
  <2>7. \A s \in Thread : chain'[s] # << >> => at'[s] \in {"set", "cancel"}
    <3>1. /\ chain' = chain /\ chain[t] = << >>
          /\ \A s \in Thread : s # t => at'[s] = at[s]
      BY <2>1
    <3>2. \A s \in Thread : chain[s] # << >> => at[s] \in {"set", "cancel"}
      OBVIOUS
    <3> HIDE DEF TypeOK, WakeTypeOK, CallTypeOK, BlockInv, Owed
    <3> QED
      BY <3>1, <3>2
  <2> QED
    BY <2>4, <2>5, <2>6, <2>7
<1>14. ASSUME NEW t \in Thread, PhpBlockOnQueuedWaitBlock(t) /\ UNCHANGED callVars
      PROVE  BlockInv'
  <2> USE DEF TypeOK, WakeTypeOK, CallTypeOK, BlockInv, Owed
  <2>1. /\ pc' = pc /\ queued' = queued /\ chain' = chain /\ at[t] = "block"
        /\ \A s \in Thread : s # t => /\ at'[s] = at[s] /\ (s \in live => s \in live')
                                      /\ (s \in spinning => s \in spinning')
    BY <1>14 DEF PhpBlockOnQueuedWaitBlock, Enter, callVars
  <2>2. t \in Blocks(queued, chain) => at'[t] = "sleep" /\ live' = live
    BY <1>14 DEF PhpBlockOnQueuedWaitBlock, Enter
  <2>3. \A s \in Blocks(queued, chain) : s \in Thread
    BY DEF Blocks
  <2>4. \A s \in Blocks(queued, chain) : Owed(s)'
    BY <2>1, <2>2, <2>3
  <2>5. ListsAreDisjoint'
    <3>1. ListsAreDisjoint /\ queued' = queued /\ chain' = chain
      BY <2>1
    <3> HIDE DEF TypeOK, WakeTypeOK, CallTypeOK, BlockInv, Owed
    <3> QED
      BY <3>1 DEF ListsAreDisjoint
  <2>6. Blocks(queued', chain') = Blocks(queued, chain)
    BY <2>1
  <2>7. \A s \in Thread : chain'[s] # << >> => at'[s] \in {"set", "cancel"}
    <3>1. /\ chain' = chain /\ at[t] = "block"
          /\ \A s \in Thread : s # t => at'[s] = at[s]
      BY <2>1
    <3>2. \A s \in Thread : chain[s] # << >> => at[s] \in {"set", "cancel"}
      OBVIOUS
    <3> HIDE DEF TypeOK, WakeTypeOK, CallTypeOK, BlockInv, Owed
    <3> QED
      BY <3>1, <3>2
  <2> QED
    BY <2>4, <2>5, <2>6, <2>7
<1>15. ASSUME NEW c \in Context, SetCompleted(c) PROVE BlockInv'
  BY <1>15, ListsRest DEF SetCompleted, ThreadIdle
<1>16. ASSUME NEW c \in Context, WaitForStart(c) PROVE BlockInv'
  BY <1>16, ListsRest DEF WaitForStart, ThreadIdle
<1>17. ASSUME NEW c \in Context, TestRoutine(c) PROVE BlockInv'
  BY <1>17, ListsRest DEF TestRoutine, ThreadIdle
<1>18. ASSUME NEW c \in Context, CallRoutine(c) PROVE BlockInv'
  BY <1>18, ListsRest DEF CallRoutine, ThreadIdle
<1>19. ASSUME NEW c \in Context, RoutineReturns(c) PROVE BlockInv'
  BY <1>19, ListsRest DEF RoutineReturns, ThreadIdle
<1>20. CASE UNCHANGED vars
  <2>1. UNCHANGED wakeVars /\ pc' = pc
    BY <1>20, Zenon DEF vars, wakeVars
  <2> QED
    BY <2>1, ListsRest
<1> QED
  BY <1>1, <1>2, <1>3, <1>4, <1>5, <1>6, <1>7, <1>8, <1>9, <1>10, <1>11, <1>12, <1>13,
     <1>14, <1>15, <1>16, <1>17, <1>18, <1>19, <1>20
     DEF Next, CallerStep, WakeStep, ThreadStep

\* The completed event of a context stays with the call it is about.
LEMMA ContextStep ==
  TypeOK /\ OwnInv /\ ContextInv /\ [Next]_vars => ContextInv'
<1> SUFFICES ASSUME TypeOK, OwnInv, ContextInv, [Next]_vars PROVE ContextInv'
  OBVIOUS
<1> USE CallAssumption DEF TypeOK, CallTypeOK, OwnInv, ContextInv, Resting, Born,
      InCall, Over, Holding, wakeVars, At, Go
<1>1. ASSUME NEW t \in Thread, PhCallWithTimeout(t) PROVE ContextInv'
  BY <1>1 DEF PhCallWithTimeout
<1>2. ASSUME NEW t \in Thread, PhpAcquireCallWithTimeoutThread(t) PROVE ContextInv'
  BY <1>2 DEF PhpAcquireCallWithTimeoutThread, Pop, PhfQueueWakeEvent
<1>3. ASSUME NEW t \in Thread, PopAgain(t) PROVE ContextInv'
  BY <1>3 DEF PopAgain, Pop, PhSetWakeEvent, PhWaitForWakeEvent, Enter
<1>4. ASSUME NEW t \in Thread, PhpReleaseCallWithTimeoutThread(t) PROVE ContextInv'
  BY <1>4 DEF PhpReleaseCallWithTimeoutThread, PhSetWakeEvent, Enter
<1>5. ASSUME NEW t \in Thread, PrepareThread(t) PROVE ContextInv'
  BY <1>5 DEF PrepareThread
<1>6. ASSUME NEW t \in Thread, ThreadInitialized(t) PROVE ContextInv'
  BY <1>6 DEF ThreadInitialized
<1>7. ASSUME NEW t \in Thread, StartRoutine(t) PROVE ContextInv'
  BY <1>7 DEF StartRoutine
<1>8. ASSUME NEW t \in Thread, RoutineCompleted(t) PROVE ContextInv'
  BY <1>8 DEF RoutineCompleted
<1>9. ASSUME NEW t \in Thread, CallTimesOut(t) PROVE ContextInv'
  BY <1>9 DEF CallTimesOut
<1>10. ASSUME NEW t \in Thread, ForgetRoutine(t) PROVE ContextInv'
  BY <1>10 DEF ForgetRoutine
<1>11. ASSUME NEW t \in Thread, TerminateThread(t) PROVE ContextInv'
  BY <1>11 DEF TerminateThread
<1>12. ASSUME NEW t \in Thread, UnblockNext(t) /\ UNCHANGED callVars
      PROVE  ContextInv'
  BY <1>12 DEF UnblockNext, Enter, callVars
<1>13. ASSUME NEW t \in Thread, PhfSetWakeEvent(t) /\ UNCHANGED callVars
      PROVE  ContextInv'
  BY <1>13 DEF PhfSetWakeEvent, Enter, callVars
<1>14. ASSUME NEW t \in Thread, PhpBlockOnQueuedWaitBlock(t) /\ UNCHANGED callVars
      PROVE  ContextInv'
  BY <1>14 DEF PhpBlockOnQueuedWaitBlock, Enter, callVars
<1>15. ASSUME NEW c \in Context, SetCompleted(c) PROVE ContextInv'
  BY <1>15 DEF SetCompleted, Move, ThreadIdle
<1>16. ASSUME NEW c \in Context, WaitForStart(c) PROVE ContextInv'
  BY <1>16 DEF WaitForStart, Move, ThreadIdle
<1>17. ASSUME NEW c \in Context, TestRoutine(c) PROVE ContextInv'
  BY <1>17 DEF TestRoutine, Move, ThreadIdle
<1>18. ASSUME NEW c \in Context, CallRoutine(c) PROVE ContextInv'
  BY <1>18 DEF CallRoutine, Move, ThreadIdle
<1>19. ASSUME NEW c \in Context, RoutineReturns(c) PROVE ContextInv'
  BY <1>19 DEF RoutineReturns, Move, ThreadIdle
<1>20. CASE UNCHANGED vars
  BY <1>20 DEF vars
<1> QED
  BY <1>1, <1>2, <1>3, <1>4, <1>5, <1>6, <1>7, <1>8, <1>9, <1>10, <1>11, <1>12, <1>13,
     <1>14, <1>15, <1>16, <1>17, <1>18, <1>19, <1>20
     DEF Next, CallerStep, WakeStep, ThreadStep

-----------------------------------------------------------------------------
(***************************************************************************)
(* The theorems.                                                           *)
(***************************************************************************)

\* The event is made without blocks, the contexts without threads.
LEMMA InitInv == Init => CallIInv
<1> SUFFICES ASSUME Init PROVE CallIInv
  OBVIOUS
<1>1. TypeOK
  BY DEF Init, WakeInit, TypeOK, WakeTypeOK, CallTypeOK
<1>2. BlockInv
  <2>1. Len(queued) = 0 /\ \A t \in Thread : chain[t] = << >> /\ Len(chain[t]) = 0
    BY DEF Init, WakeInit
  <2>2. ListsAreDisjoint
    BY <2>1 DEF ListsAreDisjoint
  <2>3. Blocks(queued, chain) = {}
    BY <2>1 DEF Blocks
  <2> QED
    BY <2>1, <2>2, <2>3 DEF BlockInv
<1>3. OwnInv
  BY CallAssumption DEF Init, OwnInv, Holding
<1>4. ContextInv
  BY DEF Init, ContextInv, Resting
<1> QED
  BY <1>1, <1>2, <1>3, <1>4 DEF CallIInv

\* The wake event and the pool keep the inductive invariant.
THEOREM Invariance == Spec => []CallIInv
<1>1. CallIInv /\ [Next]_vars => CallIInv'
  BY WakeTypeStep, CallTypeStep, BlockStep, OwnStep, ContextStep DEF CallIInv, TypeOK
<1> QED
  BY InitInv, <1>1, PTL DEF Spec

\* The wait block on a stack is queued, or popped by a thread that sets the event,
\* only while its thread waits or cancels the wait, whoever else does the same.
THEOREM BlocksAreLive == Spec => []WaitInv
<1>1. CallIInv => WaitInv
  <2> SUFFICES ASSUME CallIInv PROVE QueuedBlockIsLive
    BY DEF CallIInv, WaitInv
  <2>1. \A b \in Blocks(queued, chain) : b \in live
    BY DEF CallIInv, BlockInv, Owed
  <2> QED
    BY <2>1 DEF QueuedBlockIsLive, Blocks
<1> QED
  BY <1>1, Invariance, PTL

\* A thread of the pool, also a late one, works on the query context of the
\* caller that holds its context, until that caller has seen its end.
THEOREM LateThreadsAreEnded == Spec => []RoutineHasItsCaller
<1>1. CallIInv => RoutineHasItsCaller
  <2> SUFFICES ASSUME CallIInv, NEW c \in Context, serves[c] # None
               PROVE  pc[serves[c]] \notin {"idle", "pop"} /\ mine[serves[c]] = c
    BY DEF RoutineHasItsCaller
  <2>1. PICK t \in Thread : mine[t] = c
    BY DEF CallIInv, ContextInv, Resting
  <2>2. pc[t] \in Holding
    BY <2>1, CallAssumption DEF CallIInv, OwnInv
  <2>3. serves[c] = t
    BY <2>1, <2>2 DEF CallIInv, ContextInv, Holding, Resting, Born, InCall, Over
  <2> QED
    BY <2>1, <2>2, <2>3 DEF Holding
<1> QED
  BY <1>1, Invariance, PTL

\* PhCallWithTimeout reports a call over in time only when its own routine has
\* returned, whatever earlier threads of the context left in its events.
THEOREM AnswersAreOwn == Spec => []SuccessIsOwnAnswer
<1>1. CallIInv => SuccessIsOwnAnswer
  BY DEF CallIInv, ContextInv, Over, SuccessIsOwnAnswer
<1> QED
  BY <1>1, Invariance, PTL

=============================================================================
