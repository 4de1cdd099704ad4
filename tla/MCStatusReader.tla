--------------------------- MODULE MCStatusReader ---------------------------
(***************************************************************************)
(* StatusReader with the documents, files and intents of MCNetworkState.   *)
(***************************************************************************)
EXTENDS MCNetworkState, StatusReader
=============================================================================
