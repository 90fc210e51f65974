---------------------------- MODULE MCLogBuffer -----------------------------
(***************************************************************************)
(* A log of one or two characters and newlines.                            *)
(***************************************************************************)
EXTENDS LogBuffer

CONSTANTS x, y, nl
=============================================================================
