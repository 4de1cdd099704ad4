------------------------------ MODULE Absence ------------------------------
(***************************************************************************)
(* The two values the other modules share for what is not there.           *)
(***************************************************************************)
CONSTANTS
  Absent,  \* what a file holds that does not exist
  None     \* no call under way, no record
=============================================================================
