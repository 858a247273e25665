------------------------------ MODULE MCFastLock ------------------------------
(***************************************************************************)
(* Instances of FastLock for TLC.                                          *)
(***************************************************************************)
EXTENDS FastLock

=============================================================================
