------------------------------ MODULE MCScanPort ------------------------------
(***************************************************************************)
(* Small instances of ScanPort for TLC.                                    *)
(***************************************************************************)
EXTENDS ScanPort, TLC

CONSTANTS c1, c2, w1, w2, good, bad

Symmetry == Permutations(Caller) \cup Permutations(Worker)

=============================================================================
