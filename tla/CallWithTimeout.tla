----------------------------- MODULE CallWithTimeout -----------------------------
(***************************************************************************)
(* PhCallWithTimeout of the support library (phlib/hndlinfo.c): a call     *)
(* that may hang is made on the thread of a context taken from a small     *)
(* pool; when it is not over in time that thread is terminated.  Callers   *)
(* that find the pool empty wait on a wake event.                          *)
(*                                                                         *)
(* What a routine works on is the query context its caller has allocated   *)
(* and frees on return, named after the caller.  Kernel events (auto-reset *)
(* here) and threads are external.                                         *)
(***************************************************************************)
EXTENDS WakeEvent

CONSTANTS
  Context,       \* the contexts of the pool and the thread each may have
  CreateFails,   \* creating events or a thread may fail
  None           \* NULL

ASSUME CallAssumption ==
  CreateFails \in BOOLEAN /\ None \notin Thread \cup Context

VARIABLES
  pc,          \* where a caller is
  mine,        \* the context a caller has acquired
  timedOut,    \* callers whose call was not over in time
  answered,    \* callers whose routine has run to its end
  pool,        \* PhpCallWithTimeoutThreadListHead
  routine,     \* ThreadContext->Routine: the caller whose routine it is
  argument,    \* ThreadContext->Context
  start,       \* contexts with StartEventHandle set
  completed,   \* contexts with CompletedEventHandle set
  hasThread,   \* contexts with a ThreadHandle
  wpc,         \* where the thread of a context is
  serves       \* whose query context it works on

callVars == <<pc, mine, timedOut, answered, pool, routine, argument, start,
              completed, hasThread, wpc, serves>>
vars     == <<queued, chain, spinning, live, at, pc, mine, timedOut, answered,
              pool, routine, argument, start, completed, hasThread, wpc, serves>>

Go(t, to) == pc' = [pc EXCEPT ![t] = to]

\* A caller takes its next step when it is out of the functions of the event.
At(t, place) == pc[t] = place /\ at[t] = "out"

-----------------------------------------------------------------------------
(***************************************************************************)
(* The pool.                                                               *)
(***************************************************************************)

PhCallWithTimeout(t) ==
  /\ At(t, "idle")
  /\ Go(t, "pop")
  /\ answered' = answered \ {t}
  /\ timedOut' = timedOut \ {t}
  /\ UNCHANGED <<wakeVars, mine, pool, routine, argument, start, completed,
                 hasThread, wpc, serves>>

\* RtlInterlockedPopEntrySList.
Pop(t, c) ==
  /\ c \in pool
  /\ pool' = pool \ {c}
  /\ mine' = [mine EXCEPT ![t] = c]
  /\ Go(t, "prepare")

\* PhpAcquireCallWithTimeoutThread takes a context, queues a wait block, or
\* fails when the timeout is zero.
PhpAcquireCallWithTimeoutThread(t) ==
  /\ At(t, "pop")
  /\ \/ (\E c \in Context : Pop(t, c)) /\ UNCHANGED wakeVars
     \/ /\ pool = {}
        /\ PhfQueueWakeEvent(t)
        /\ Go(t, "again")
        /\ UNCHANGED <<pool, mine>>
     \/ /\ pool = {}
        /\ Go(t, "idle")
        /\ UNCHANGED <<wakeVars, pool, mine>>
  /\ UNCHANGED <<timedOut, answered, routine, argument, start, completed,
                 hasThread, wpc, serves>>

\* It looks once more, and cancels the wait or waits.
PopAgain(t) ==
  /\ At(t, "again")
  /\ \/ (\E c \in Context : Pop(t, c)) /\ PhSetWakeEvent(t, "cancel")
     \/ /\ pool = {}
        /\ PhWaitForWakeEvent(t)
        /\ Go(t, "pop")
        /\ UNCHANGED <<pool, mine>>
  /\ UNCHANGED <<timedOut, answered, routine, argument, start, completed,
                 hasThread, wpc, serves>>

\* Mutant: the wake event is set before the context is back.
PhpReleaseCallWithTimeoutThread_early(t) ==
  /\ At(t, "release") \/ At(t, "push")
  /\ IF pc[t] = "release"
       THEN PhSetWakeEvent(t, "set") /\ Go(t, "push") /\ UNCHANGED <<pool, mine>>
       ELSE /\ pool' = pool \cup {mine[t]}
            /\ mine' = [mine EXCEPT ![t] = None]
            /\ Go(t, "idle")
            /\ UNCHANGED wakeVars
  /\ UNCHANGED <<timedOut, answered, routine, argument, start, completed,
                 hasThread, wpc, serves>>

\* PhpReleaseCallWithTimeoutThread puts the context back, then wakes.
PhpReleaseCallWithTimeoutThread(t) ==
  /\ At(t, "release") \/ At(t, "push")
  /\ IF pc[t] = "release"
       THEN /\ pool' = pool \cup {mine[t]}
            /\ mine' = [mine EXCEPT ![t] = None]
            /\ Go(t, "push")
            /\ UNCHANGED wakeVars
       ELSE PhSetWakeEvent(t, "set") /\ Go(t, "idle") /\ UNCHANGED <<pool, mine>>
  /\ UNCHANGED <<timedOut, answered, routine, argument, start, completed,
                 hasThread, wpc, serves>>

-----------------------------------------------------------------------------
(***************************************************************************)
(* PhpCallWithTimeout.                                                     *)
(***************************************************************************)

\* Mutant: the events keep what an earlier thread left in them.
PrepareThread_dirty(t) ==
  /\ At(t, "prepare")
  /\ IF mine[t] \in hasThread
       THEN Go(t, "assign") /\ UNCHANGED <<hasThread, wpc, start, completed>>
       ELSE /\ hasThread' = hasThread \cup {mine[t]}
            /\ wpc' = [wpc EXCEPT ![mine[t]] = "born"]
            /\ Go(t, "init")
            /\ UNCHANGED <<start, completed>>
  /\ UNCHANGED <<wakeVars, mine, timedOut, answered, pool, routine, argument, serves>>

\* Without a thread both events are cleared and a thread is created; the call
\* ends when something cannot be created.
PrepareThread(t) ==
  /\ At(t, "prepare")
  /\ \/ /\ mine[t] \in hasThread
        /\ Go(t, "assign")
        /\ UNCHANGED <<hasThread, wpc, start, completed>>
     \/ /\ mine[t] \notin hasThread
        /\ start' = start \ {mine[t]}
        /\ completed' = completed \ {mine[t]}
        /\ \/ /\ hasThread' = hasThread \cup {mine[t]}
              /\ wpc' = [wpc EXCEPT ![mine[t]] = "born"]
              /\ Go(t, "init")
           \/ CreateFails /\ Go(t, "release") /\ UNCHANGED <<hasThread, wpc>>
  /\ UNCHANGED <<wakeVars, mine, timedOut, answered, pool, routine, argument, serves>>

\* "Wait for the thread to initialize."
ThreadInitialized(t) ==
  /\ At(t, "init") /\ mine[t] \in completed
  /\ completed' = completed \ {mine[t]}
  /\ Go(t, "assign")
  /\ UNCHANGED <<wakeVars, mine, timedOut, answered, pool, routine, argument,
                 start, hasThread, wpc, serves>>

\* Routine and Context are set, then the start event.
StartRoutine(t) ==
  /\ At(t, "assign")
  /\ routine' = [routine EXCEPT ![mine[t]] = t]
  /\ argument' = [argument EXCEPT ![mine[t]] = t]
  /\ start' = start \cup {mine[t]}
  /\ Go(t, "await")
  /\ UNCHANGED <<wakeVars, mine, timedOut, answered, pool, completed, hasThread,
                 wpc, serves>>

\* The call is over, or the timeout is.
RoutineCompleted(t) ==
  /\ At(t, "await") /\ mine[t] \in completed
  /\ completed' = completed \ {mine[t]}
  /\ Go(t, "forget")
  /\ UNCHANGED <<wakeVars, mine, timedOut, answered, pool, routine, argument,
                 start, hasThread, wpc, serves>>

CallTimesOut(t) ==
  /\ At(t, "await")
  /\ timedOut' = timedOut \cup {t}
  /\ Go(t, "forget")
  /\ UNCHANGED <<wakeVars, mine, answered, pool, routine, argument, start,
                 completed, hasThread, wpc, serves>>

\* Routine is cleared before Context, with a barrier in between.
ForgetRoutine(t) ==
  /\ At(t, "forget") \/ At(t, "forgetArgument")
  /\ IF pc[t] = "forget"
       THEN routine' = [routine EXCEPT ![mine[t]] = None] /\ UNCHANGED argument
       ELSE argument' = [argument EXCEPT ![mine[t]] = None] /\ UNCHANGED routine
  /\ Go(t, CASE pc[t] = "forget" -> "forgetArgument"
             [] pc[t] # "forget" /\ t \in timedOut -> "terminate"
             [] OTHER -> "release")
  /\ UNCHANGED <<wakeVars, mine, timedOut, answered, pool, start, completed,
                 hasThread, wpc, serves>>

\* Mutant: nobody waits for the end of the thread.
TerminateThread_async(t) ==
  /\ At(t, "terminate")
  /\ hasThread' = hasThread \ {mine[t]}
  /\ Go(t, "release")
  /\ UNCHANGED <<wakeVars, mine, timedOut, answered, pool, routine, argument,
                 start, completed, wpc, serves>>

\* NtTerminateThread, and the wait for the end of the thread.
TerminateThread(t) ==
  /\ At(t, "terminate")
  /\ hasThread' = hasThread \ {mine[t]}
  /\ wpc' = [wpc EXCEPT ![mine[t]] = "none"]
  /\ serves' = [serves EXCEPT ![mine[t]] = None]
  /\ Go(t, "release")
  /\ UNCHANGED <<wakeVars, mine, timedOut, answered, pool, routine, argument,
                 start, completed>>

-----------------------------------------------------------------------------
(***************************************************************************)
(* PhpCallWithTimeoutThreadStart.                                          *)
(***************************************************************************)

Move(c, from, to) == wpc[c] = from /\ wpc' = [wpc EXCEPT ![c] = to]

ThreadIdle ==
  UNCHANGED <<wakeVars, pc, mine, timedOut, pool, routine, argument, hasThread>>

\* The completed event is set when the thread is ready and after every routine.
SetCompleted(c) ==
  /\ Move(c, "born", "wait") \/ Move(c, "finish", "wait")
  /\ completed' = completed \cup {c}
  /\ UNCHANGED <<start, answered, serves>> /\ ThreadIdle

WaitForStart(c) ==
  /\ c \in start
  /\ Move(c, "wait", "test")
  /\ start' = start \ {c}
  /\ UNCHANGED <<completed, answered, serves>> /\ ThreadIdle

\* Routine is tested,
TestRoutine(c) ==
  /\ IF routine[c] # None THEN Move(c, "test", "load") ELSE Move(c, "test", "finish")
  /\ UNCHANGED <<start, completed, answered, serves>> /\ ThreadIdle

\* and read again with Context for the call.  Once the caller has cleared them
\* the call faults, and the process is lost.
CallRoutine(c) ==
  /\ \/ argument[c] # None /\ Move(c, "load", "run")
     \/ routine[c] = None /\ Move(c, "load", "fault")
  /\ serves' = [serves EXCEPT ![c] = argument[c]]
  /\ UNCHANGED <<start, completed, answered>> /\ ThreadIdle

\* The routine returns, unless it hangs.
RoutineReturns(c) ==
  /\ Move(c, "run", "finish")
  /\ answered' = answered \cup {serves[c]}
  /\ serves' = [serves EXCEPT ![c] = None]
  /\ UNCHANGED <<start, completed>> /\ ThreadIdle

-----------------------------------------------------------------------------
Init ==
  /\ WakeInit
  /\ pc = [t \in Thread |-> "idle"]
  /\ mine = [t \in Thread |-> None]
  /\ timedOut = {}
  /\ answered = {}
  /\ pool = Context
  /\ routine = [c \in Context |-> None]
  /\ argument = [c \in Context |-> None]
  /\ start = {}
  /\ completed = {}
  /\ hasThread = {}
  /\ wpc = [c \in Context |-> "none"]
  /\ serves = [c \in Context |-> None]

\* Nothing moves any more after a fault.
Faulted == \E c \in Context : wpc[c] = "fault"

CallerStep(t) ==
  \/ PhpAcquireCallWithTimeoutThread(t)
  \/ PopAgain(t)
  \/ PhpReleaseCallWithTimeoutThread(t)
  \/ PrepareThread(t)
  \/ ThreadInitialized(t)
  \/ StartRoutine(t)
  \/ RoutineCompleted(t)
  \/ CallTimesOut(t)
  \/ ForgetRoutine(t)
  \/ TerminateThread(t)
  \/ WakeStep(t) /\ UNCHANGED callVars

ThreadStep(c) ==
  \/ SetCompleted(c)
  \/ WaitForStart(c)
  \/ TestRoutine(c)
  \/ CallRoutine(c)

Next ==
  /\ ~Faulted
  /\ \/ \E t \in Thread : PhCallWithTimeout(t) \/ CallerStep(t)
     \/ \E c \in Context : ThreadStep(c) \/ RoutineReturns(c)

Spec == Init /\ [][Next]_vars

\* Callers and threads run and the call timeout ends.  A routine may hang.
Fairness ==
  /\ \A t \in Thread : WF_vars(~Faulted /\ CallerStep(t))
  /\ \A c \in Context : WF_vars(~Faulted /\ ThreadStep(c))

FairSpec == Spec /\ Fairness

-----------------------------------------------------------------------------
(***************************************************************************)
(* Properties.                                                             *)
(***************************************************************************)

\* The types of the calls' part of the state, and of all of it.
CallTypeOK ==
  /\ pc \in [Thread -> {"idle", "pop", "again", "prepare", "init", "assign",
                        "await", "forget", "forgetArgument", "terminate",
                        "release", "push"}]
  /\ mine \in [Thread -> Context \cup {None}]
  /\ timedOut \subseteq Thread /\ answered \subseteq Thread
  /\ pool \subseteq Context
  /\ routine \in [Context -> Thread \cup {None}]
  /\ argument \in [Context -> Thread \cup {None}]
  /\ start \subseteq Context /\ completed \subseteq Context
  /\ hasThread \subseteq Context
  /\ wpc \in [Context -> {"none", "born", "wait", "test", "load", "run", "finish",
                          "fault"}]
  /\ serves \in [Context -> Thread \cup {None}]

TypeOK == WakeTypeOK /\ CallTypeOK

\* A cancelled wait races with a thread that has popped the wait block: "The
\* solution is to (always) wait for an unblock", so that no queued or popped
\* block belongs to a thread that has returned.
QueuedBlockIsLive ==
  \A t \in Thread :
    \A b \in {queued[i] : i \in 1 .. Len(queued)} \cup
             {chain[t][i] : i \in 1 .. Len(chain[t])} : b \in live

\* The types, and no block on the wake event of a thread that has gone on.
WaitInv == TypeOK /\ QueuedBlockIsLive

\* A late thread never works on the query context of a caller that has
\* returned, nor for a caller other than the one that holds its context.
RoutineHasItsCaller ==
  \A c \in Context :
    serves[c] # None => pc[serves[c]] \notin {"idle", "pop"} /\ mine[serves[c]] = c

\* An answer in time is the answer to this call: a completion left behind by a
\* terminated thread, or by the start of a new one, is not taken for it.
SuccessIsOwnAnswer ==
  \A t \in Thread :
    pc[t] \in {"forget", "forgetArgument"} /\ t \notin timedOut => t \in answered

\* Once nobody calls any more every call returns, however many routines hang,
\* or the process is lost.
EveryCallReturns ==
  <>[][\A t \in Thread : ~PhCallWithTimeout(t)]_vars =>
    \A t \in Thread : pc[t] # "idle" ~> pc[t] = "idle" \/ Faulted

=============================================================================
