--------------------------- MODULE MCEventStream ----------------------------
(***************************************************************************)
(* One build followed by two browsers.                                     *)
(***************************************************************************)
EXTENDS EventStream

CONSTANTS tab1, tab2, g1, g2
=============================================================================
