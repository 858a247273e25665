---------------------------- MODULE ReaderWriterLock ----------------------------
(***************************************************************************)
(* What a lock with an exclusive and a shared mode promises: a thread that *)
(* asks in a mode is granted that mode, and an exclusive owner is alone.   *)
(* PH_QUEUED_LOCK and PH_FAST_LOCK implement it.                           *)
(***************************************************************************)
CONSTANT Thread

VARIABLE state     \* what a thread has to do with the lock

Owner(mode) == {t \in Thread : state[t] = mode}

Init == state = [t \in Thread |-> "idle"]

Ask(t) ==
  /\ state[t] = "idle"
  /\ \E want \in {"asksExclusive", "asksShared"} :
       state' = [state EXCEPT ![t] = want]

\* Mode "exclusive" is granted when there is no owner, "shared" when there is
\* no exclusive one.  A thread that asks may also be granted at once.
Grant(t) ==
  \/ /\ state[t] \in {"idle", "asksExclusive"}
     /\ Owner("exclusive") \cup Owner("shared") = {}
     /\ state' = [state EXCEPT ![t] = "exclusive"]
  \/ /\ state[t] \in {"idle", "asksShared"}
     /\ Owner("exclusive") = {}
     /\ state' = [state EXCEPT ![t] = "shared"]

Release(t) ==
  /\ state[t] \in {"exclusive", "shared"}
  /\ state' = [state EXCEPT ![t] = "idle"]

Next == \E t \in Thread : Ask(t) \/ Grant(t) \/ Release(t)

Spec == Init /\ [][Next]_state

=============================================================================
