------------------------- MODULE MCDesiredHistory -------------------------
(***************************************************************************)
(* A small instance of DesiredHistory: all three documents, one body, so   *)
(* two versions of each document (without and with the header).            *)
(***************************************************************************)
EXTENDS DesiredHistory, TLC

CONSTANTS body, meaning

MCBodies == {body}
MCAsText == [d \in Docs |-> d]
MCMeans == body :> meaning
=============================================================================
