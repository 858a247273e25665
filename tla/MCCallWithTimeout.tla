--------------------------- MODULE MCCallWithTimeout ---------------------------
(***************************************************************************)
(* Instances of CallWithTimeout for TLC.                                   *)
(***************************************************************************)
EXTENDS CallWithTimeout

=============================================================================
