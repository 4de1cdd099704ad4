--------------------------- MODULE MCStateStore ---------------------------
(***************************************************************************)
(* A small instance of StateStore: release 1, a file of release 2.         *)
(***************************************************************************)
EXTENDS StateStore

CONSTANTS p1, p2, p3
=============================================================================
