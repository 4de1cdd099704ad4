------------------------- MODULE MCHistoryFirstUse -------------------------
(***************************************************************************)
(* Up to three processes that use the history for the first time.          *)
(***************************************************************************)
EXTENDS HistoryFirstUse

CONSTANTS p1, p2, p3
=============================================================================
