-------------------------------- MODULE InitOnce --------------------------------
(***************************************************************************)
(* The event of the support library and the one-time initialization built  *)
(* on it (phlib/sync.c with the inline functions of                        *)
(* phlib/include/phbase.h).                                                *)
(*                                                                         *)
(* The first thread to call PhBeginInitOnce initializes and sets the       *)
(* event, the others wait for it.  The event is a word with a set bit and  *)
(* a reference count, and a kernel event that the first waiter creates and *)
(* the last user closes.  Every access of the word or of the handle is a   *)
(* step of its own.  The kernel events are external.                       *)
(***************************************************************************)
EXTENDS Naturals, FiniteSets

CONSTANTS
  Thread,     \* threads, and the kernel event each of them may create
  Timeouts,   \* a wait may time out, after which the thread calls again
  None        \* NULL

ASSUME ConstantsAssumption ==
  IsFiniteSet(Thread) /\ Timeouts \in BOOLEAN /\ None \notin Thread

VARIABLES
  set, refs,      \* Event->Value
  begun,          \* its PH_INITONCE_INITIALIZING bit
  eventHandle,    \* Event->EventHandle
  open,           \* kernel events whose handle is open
  signaled,       \* kernel events that are set
  initialized,    \* what is to be initialized, is
  pc,             \* where a thread is
  handle          \* the local eventHandle of a thread

vars == <<set, refs, begun, eventHandle, open, signaled, initialized, pc, handle>>

Go(t, to) == pc' = [pc EXCEPT ![t] = to]

\* The function returns, and the local is gone.
Leave(t, to) == Go(t, to) /\ handle' = [handle EXCEPT ![t] = None]

-----------------------------------------------------------------------------
(***************************************************************************)
(* Initialization.                                                         *)
(***************************************************************************)

\* Mutant: the bit is tested and set in two steps, and the test is too early.
PhfBeginInitOnce_racy(t) ==
  /\ pc[t] = "idle" /\ ~set
  /\ begun' = TRUE
  /\ Go(t, IF ~initialized THEN "initialize" ELSE "wait")
  /\ UNCHANGED <<set, refs, eventHandle, open, signaled, initialized, handle>>

\* The initializing bit is tested and set.
PhfBeginInitOnce(t) ==
  /\ pc[t] = "idle" /\ ~set
  /\ begun' = TRUE
  /\ Go(t, IF begun THEN "wait" ELSE "initialize")
  /\ UNCHANGED <<set, refs, eventHandle, open, signaled, initialized, handle>>

\* PhBeginInitOnce returns at once when the event is set.
PhTestEvent(t) ==
  /\ pc[t] = "idle" /\ set
  /\ Leave(t, "done")
  /\ UNCHANGED <<set, refs, begun, eventHandle, open, signaled, initialized>>

Initialize(t) ==
  /\ pc[t] = "initialize" /\ ~initialized
  /\ initialized' = TRUE
  /\ UNCHANGED <<set, refs, begun, eventHandle, open, signaled, pc, handle>>

\* PhfEndInitOnce calls PhfSetEvent, which sets the bit first.
PhfSetEvent(t) ==
  /\ pc[t] = "initialize" /\ initialized
  /\ set' = TRUE
  /\ Go(t, "set")
  /\ UNCHANGED <<refs, begun, eventHandle, open, signaled, initialized, handle>>

\* It reads the handle,
ReadToSet(t) ==
  /\ pc[t] = "set"
  /\ handle' = [handle EXCEPT ![t] = eventHandle]
  /\ Go(t, "notify")
  /\ UNCHANGED <<set, refs, begun, eventHandle, open, signaled, initialized>>

\* and sets the kernel event if there is one.
NtSetEvent(t) ==
  /\ pc[t] = "notify"
  /\ signaled' = signaled \cup ({handle[t]} \ {None})
  /\ Go(t, "drop")
  /\ UNCHANGED <<set, refs, begun, eventHandle, open, initialized, handle>>

-----------------------------------------------------------------------------
(***************************************************************************)
(* Waiting.                                                                *)
(***************************************************************************)

\* PhfWaitForEvent returns at once when the event is set, and otherwise takes
\* a reference, which is one step later.
PhfWaitForEvent(t) ==
  /\ pc[t] = "wait"
  /\ IF set THEN Leave(t, "done") ELSE Go(t, "reference") /\ UNCHANGED handle
  /\ UNCHANGED <<set, refs, begun, eventHandle, open, signaled, initialized>>

\* Mutant: no reference is taken.
PhpReferenceEvent_missing(t) ==
  /\ pc[t] = "reference"
  /\ Go(t, "look")
  /\ UNCHANGED <<set, refs, begun, eventHandle, open, signaled, initialized, handle>>

PhpReferenceEvent(t) ==
  /\ pc[t] = "reference"
  /\ refs' = refs + 1
  /\ Go(t, "look")
  /\ UNCHANGED <<set, begun, eventHandle, open, signaled, initialized, handle>>

ReadToWait(t) ==
  /\ pc[t] = "look"
  /\ handle' = [handle EXCEPT ![t] = eventHandle]
  /\ Go(t, IF eventHandle = None THEN "create" ELSE "check")
  /\ UNCHANGED <<set, refs, begun, eventHandle, open, signaled, initialized>>

NtCreateEvent(t) ==
  /\ pc[t] = "create"
  /\ handle' = [handle EXCEPT ![t] = t]
  /\ open' = open \cup {t}
  /\ signaled' = signaled \ {t}
  /\ Go(t, "store")
  /\ UNCHANGED <<set, refs, begun, eventHandle, initialized>>

\* The handle is stored, or closed because someone else was first.
StoreHandle(t) ==
  /\ pc[t] = "store"
  /\ IF eventHandle = None
       THEN eventHandle' = t /\ Go(t, "check") /\ UNCHANGED <<open, handle>>
       ELSE /\ open' = open \ {t}
            /\ handle' = [handle EXCEPT ![t] = None]
            /\ Go(t, "reload")
            /\ UNCHANGED eventHandle
  /\ UNCHANGED <<set, refs, begun, signaled, initialized>>

ReloadHandle(t) ==
  /\ pc[t] = "reload"
  /\ handle' = [handle EXCEPT ![t] = eventHandle]
  /\ Go(t, "check")
  /\ UNCHANGED <<set, refs, begun, eventHandle, open, signaled, initialized>>

\* Mutant: the event is not checked again.
CheckEvent_missing(t) ==
  /\ pc[t] = "check"
  /\ Go(t, "sleep")
  /\ UNCHANGED <<set, refs, begun, eventHandle, open, signaled, initialized, handle>>

\* "Essential: check the event one last time to see if it is set."
CheckEvent(t) ==
  /\ pc[t] = "check"
  /\ Go(t, IF set THEN "drop" ELSE "sleep")
  /\ UNCHANGED <<set, refs, begun, eventHandle, open, signaled, initialized, handle>>

\* NtWaitForSingleObject returns when the kernel event is set,
NtWaitForSingleObject(t) ==
  /\ pc[t] = "sleep" /\ handle[t] \in signaled
  /\ Go(t, "drop")
  /\ UNCHANGED <<set, refs, begun, eventHandle, open, signaled, initialized, handle>>

\* or when the caller's timeout is over.
WaitTimesOut(t) ==
  /\ Timeouts
  /\ pc[t] = "sleep"
  /\ Go(t, "giveUp")
  /\ UNCHANGED <<set, refs, begun, eventHandle, open, signaled, initialized, handle>>

\* Where PhpDereferenceEvent returns to: a timed out wait is tried again.
Returned(t) == IF pc[t] \in {"giveUp", "closeLate", "clearLate"} THEN "idle" ELSE "done"

\* The last reference takes the kernel event with it, if the caller knows it.
PhpDereferenceEvent(t) ==
  /\ pc[t] \in {"drop", "giveUp"}
  /\ refs' = refs - 1
  /\ IF refs = 1 /\ handle[t] # None
       THEN Go(t, IF pc[t] = "drop" THEN "close" ELSE "closeLate") /\ UNCHANGED handle
       ELSE Leave(t, Returned(t))
  /\ UNCHANGED <<set, begun, eventHandle, open, signaled, initialized>>

NtClose(t) ==
  /\ pc[t] \in {"close", "closeLate"}
  /\ open' = open \ {handle[t]}
  /\ Go(t, IF pc[t] = "close" THEN "clear" ELSE "clearLate")
  /\ UNCHANGED <<set, refs, begun, eventHandle, signaled, initialized, handle>>

ClearHandle(t) ==
  /\ pc[t] \in {"clear", "clearLate"}
  /\ eventHandle' = None
  /\ Leave(t, Returned(t))
  /\ UNCHANGED <<set, refs, begun, open, signaled, initialized>>

-----------------------------------------------------------------------------
\* PhfInitializeInitOnce: the reference is that of the thread that will set.
Init ==
  /\ set = FALSE
  /\ refs = 1
  /\ begun = FALSE
  /\ eventHandle = None
  /\ open = {}
  /\ signaled = {}
  /\ initialized = FALSE
  /\ pc = [t \in Thread |-> "idle"]
  /\ handle = [t \in Thread |-> None]

Step(t) ==
  \/ PhTestEvent(t)
  \/ PhfBeginInitOnce(t)
  \/ Initialize(t)
  \/ PhfSetEvent(t)
  \/ ReadToSet(t)
  \/ NtSetEvent(t)
  \/ PhfWaitForEvent(t)
  \/ PhpReferenceEvent(t)
  \/ ReadToWait(t)
  \/ NtCreateEvent(t)
  \/ StoreHandle(t)
  \/ ReloadHandle(t)
  \/ CheckEvent(t)
  \/ NtWaitForSingleObject(t)
  \/ PhpDereferenceEvent(t)
  \/ NtClose(t)
  \/ ClearHandle(t)

Next == \E t \in Thread : Step(t) \/ WaitTimesOut(t)

Spec == Init /\ [][Next]_vars

\* Threads run, and the initialization ends.  No wait has to time out.
FairSpec == Spec /\ \A t \in Thread : WF_vars(Step(t))

-----------------------------------------------------------------------------
(***************************************************************************)
(* Properties.                                                             *)
(***************************************************************************)

\* The types of the state; the reference count does not fall below zero.
TypeOK ==
  /\ set \in BOOLEAN
  /\ refs \in 0 .. Cardinality(Thread) + 1
  /\ begun \in BOOLEAN
  /\ eventHandle \in Thread \cup {None}
  /\ open \subseteq Thread
  /\ signaled \subseteq Thread
  /\ initialized \in BOOLEAN
  /\ pc \in [Thread -> {"idle", "initialize", "set", "notify", "wait", "reference",
                        "look", "create", "store", "reload", "check", "sleep",
                        "drop", "giveUp", "close", "closeLate", "clear",
                        "clearLate", "done"}]
  /\ handle \in [Thread -> Thread \cup {None}]

\* One thread initializes, and the others go on only when it has.
InitializedOnce ==
  /\ Cardinality({t \in Thread : pc[t] \in {"initialize", "set", "notify"}}) <= 1
  /\ (\E t \in Thread : pc[t] = "done") => initialized

\* "Prevent the event from being invalidated": a thread waits on a kernel event
\* that is open, and is the one that will be set.
SleeperWillBeWoken ==
  \A t \in Thread :
    pc[t] = "sleep" =>
      /\ handle[t] \in open
      /\ handle[t] = eventHandle \/ handle[t] \in signaled

\* The event is not freed under its users: its reference count stays in range
\* and every sleeper is on a handle that will be set.
EventInv == TypeOK /\ SleeperWillBeWoken

\* Every thread comes out of PhBeginInitOnce.
EveryCallReturns == \A t \in Thread : <>(pc[t] = "done")

=============================================================================
