------------------------------ MODULE MCInitOnce ------------------------------
(***************************************************************************)
(* Instances of InitOnce for TLC.                                          *)
(***************************************************************************)
EXTENDS InitOnce

=============================================================================
