----------------------------- MODULE MCQueuedLock ------------------------------
(***************************************************************************)
(* Instances of QueuedLock for TLC.                                        *)
(***************************************************************************)
EXTENDS QueuedLock

=============================================================================
