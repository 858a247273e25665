------------------------------ MODULE MCProtector ------------------------------
(***************************************************************************)
(* Small instances of Protector for TLC.                                   *)
(***************************************************************************)
EXTENDS Protector, TLC

CONSTANTS p1, p2, p3

Symmetry == Permutations(Process)

=============================================================================
