-------------------------- MODULE MCDagAlgorithms ---------------------------
(***************************************************************************)
(* All graphs of a few nodes.                                              *)
(***************************************************************************)
EXTENDS DagAlgorithms

CONSTANTS n1, n2, n3, ghost

Added == <<n1, n2, n3>>
\* Lists of up to two names: doubled ones and dangling ones too.
ShortLists == UNION {[1 .. len -> {n1, n2, n3, ghost}] : len \in 0 .. 2}
=============================================================================
