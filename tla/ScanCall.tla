------------------------------- MODULE ScanCall -------------------------------
(***************************************************************************)
(* What HsFilterScanFile promises its caller, whatever happens between the *)
(* driver and the service: one outcome per call, about the file of that    *)
(* very call.  A clean answer may also come from a service that gave up.   *)
(***************************************************************************)
CONSTANTS
  Caller,    \* threads of the driver
  File,      \* files
  Infected,  \* the files the engine reports
  None

VARIABLES
  phase,     \* "idle", "asked" or "done"
  file,      \* the file a call is about
  outcome    \* "failed", "clean", "infected"

vars == <<phase, file, outcome>>

Init ==
  /\ phase = [c \in Caller |-> "idle"]
  /\ file = [c \in Caller |-> None]
  /\ outcome = [c \in Caller |-> "none"]

Ask(c, f) ==
  /\ phase[c] = "idle"
  /\ phase' = [phase EXCEPT ![c] = "asked"]
  /\ file' = [file EXCEPT ![c] = f]
  /\ UNCHANGED outcome

\* The outcomes a call about f may have.
Outcome(f) == {"failed", "clean"} \cup (IF f \in Infected THEN {"infected"} ELSE {})

\* One call is answered, or all open calls fail together.
Settle(c) ==
  /\ phase[c] = "asked"
  /\ \E o \in Outcome(file[c]) : outcome' = [outcome EXCEPT ![c] = o]
  /\ phase' = [phase EXCEPT ![c] = "done"]
  /\ UNCHANGED file

Disconnect(calls) ==
  /\ \A c \in calls : phase[c] = "asked"
  /\ phase' = [c \in Caller |-> IF c \in calls THEN "done" ELSE phase[c]]
  /\ outcome' = [c \in Caller |-> IF c \in calls THEN "failed" ELSE outcome[c]]
  /\ UNCHANGED file

Return(c) ==
  /\ phase[c] = "done"
  /\ phase' = [phase EXCEPT ![c] = "idle"]
  /\ file' = [file EXCEPT ![c] = None]
  /\ outcome' = [outcome EXCEPT ![c] = "none"]

Next ==
  \/ \E c \in Caller : (\E f \in File : Ask(c, f)) \/ Settle(c) \/ Return(c)
  \/ \E calls \in SUBSET Caller : Disconnect(calls)

Spec == Init /\ [][Next]_vars

=============================================================================
