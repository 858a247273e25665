----------------------------- MODULE MCStreamScan -----------------------------
(***************************************************************************)
(* Small instances of StreamScan for TLC.                                  *)
(***************************************************************************)
EXTENDS StreamScan, TLC

CONSTANTS f1, f2, main, good, bad, frn1

\* A single stream and its file.
Single == main :> frn1

\* HS_MIN_FILE_SCAN_SIZE and HS_MAX_FILE_SCAN_SIZE are 64 and 52428800; the
\* instances use 2 and 4, and these sizes lie inside.
InRange    == good :> 3 @@ bad :> 3
OutOfRange == good :> 1 @@ bad :> 5

=============================================================================
