--------------------------- MODULE MCCommandLine ----------------------------
(***************************************************************************)
(* CommandLine with the documents, files and intents of MCNetworkState.    *)
(***************************************************************************)
EXTENDS MCNetworkState, CommandLine
=============================================================================
