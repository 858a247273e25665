------------------------------- MODULE WakeEvent --------------------------------
(***************************************************************************)
(* The wake event of the support library (phlib/queuedlock.c):             *)
(* PhfQueueWakeEvent, PhfSetWakeEvent and PhfWaitForWakeEvent without a    *)
(* timeout (no caller in the library gives one).  A thread queues the wait *)
(* block on its stack, tests once more what it would wait for, and then    *)
(* waits or cancels the wait.                                              *)
(*                                                                         *)
(* This module has the event's part of the state and the steps inside its  *)
(* functions; a client EXTENDS it and starts them.  The keyed event is     *)
(* external: a release waits for the thread that sleeps on the block.      *)
(***************************************************************************)
EXTENDS Naturals, Sequences

CONSTANT Thread       \* threads, and the wait block on the stack of each

VARIABLES
  queued,     \* WakeEvent->Value: the blocks queued, the newest first
  chain,      \* the blocks a thread has popped and not yet unblocked
  spinning,   \* blocks with PH_QUEUED_WAITER_SPINNING
  live,       \* blocks whose thread has not left the functions of the event
  at          \* where a thread is in them

wakeVars == <<queued, chain, spinning, live, at>>

Enter(t, to) == at' = [at EXCEPT ![t] = to]

\* PhfQueueWakeEvent: a block is pushed.
PhfQueueWakeEvent(t) ==
  /\ queued' = <<t>> \o queued
  /\ spinning' = spinning \cup {t}
  /\ live' = live \cup {t}
  /\ UNCHANGED <<chain, at>>

\* PhSetWakeEvent, in place "set", or "cancel" for a wait that is given up: all
\* blocks are popped at once.
PhSetWakeEvent(t, place) ==
  /\ chain' = [chain EXCEPT ![t] = queued]
  /\ queued' = << >>
  /\ Enter(t, place)
  /\ UNCHANGED <<spinning, live>>

\* PhWaitForWakeEvent.
PhWaitForWakeEvent(t) == Enter(t, "block") /\ UNCHANGED <<queued, chain, spinning, live>>

\* PhpUnblockQueuedWaitBlock on the next block: the bit is enough while its
\* thread spins, a thread that sleeps is woken by the keyed event.
UnblockNext(t) ==
  /\ at[t] \in {"set", "cancel"} /\ chain[t] # << >>
  /\ LET b == Head(chain[t]) IN
       \/ /\ b \in spinning
          /\ spinning' = spinning \ {b}
          /\ UNCHANGED <<live, at>>
       \/ /\ b \notin spinning /\ at[b] = "sleep"
          /\ live' = live \ {b}
          /\ Enter(b, "out")
          /\ UNCHANGED spinning
  /\ chain' = [chain EXCEPT ![t] = Tail(@)]
  /\ UNCHANGED queued

\* Mutant: a cancelled wait returns at once.
PhfSetWakeEvent_early(t) ==
  /\ at[t] \in {"set", "cancel"} /\ chain[t] = << >>
  /\ Enter(t, "out")
  /\ live' = live \ {t}
  /\ UNCHANGED <<queued, chain, spinning>>

\* The end of PhfSetWakeEvent: a cancelled wait still waits for an unblock that
\* another thread owes it.
PhfSetWakeEvent(t) ==
  /\ at[t] \in {"set", "cancel"} /\ chain[t] = << >>
  /\ IF at[t] = "cancel" /\ t \in spinning
       THEN Enter(t, "block") /\ UNCHANGED live
       ELSE Enter(t, "out") /\ live' = live \ {t}
  /\ UNCHANGED <<queued, chain, spinning>>

\* PhpBlockOnQueuedWaitBlock: the bit is found clear, or cleared to sleep.
PhpBlockOnQueuedWaitBlock(t) ==
  /\ at[t] = "block"
  /\ IF t \in spinning
       THEN spinning' = spinning \ {t} /\ Enter(t, "sleep") /\ UNCHANGED live
       ELSE live' = live \ {t} /\ Enter(t, "out") /\ UNCHANGED spinning
  /\ UNCHANGED <<queued, chain>>

WakeInit ==
  /\ queued = << >>
  /\ chain = [t \in Thread |-> << >>]
  /\ spinning = {}
  /\ live = {}
  /\ at = [t \in Thread |-> "out"]

WakeStep(t) ==
  \/ UnblockNext(t)
  \/ PhfSetWakeEvent(t)
  \/ PhpBlockOnQueuedWaitBlock(t)

\* The types of the event's part of the state.
WakeTypeOK ==
  /\ queued \in Seq(Thread)
  /\ chain \in [Thread -> Seq(Thread)]
  /\ spinning \subseteq Thread
  /\ live \subseteq Thread
  /\ at \in [Thread -> {"out", "set", "cancel", "block", "sleep"}]

=============================================================================
