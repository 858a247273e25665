------------------------------ MODULE MCWorkQueue -------------------------------
(***************************************************************************)
(* Instances of WorkQueue for TLC.                                         *)
(***************************************************************************)
EXTENDS WorkQueue

=============================================================================
