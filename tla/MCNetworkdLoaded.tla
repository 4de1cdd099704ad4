-------------------------- MODULE MCNetworkdLoaded --------------------------
(***************************************************************************)
(* A small instance of NetworkdLoaded: two managed files and three         *)
(* candidates, so that a call may add, replace, keep and remove files.     *)
(***************************************************************************)
EXTENDS NetworkdLoaded, TLC

CONSTANTS a1, a2, c1, c2, raw

MCCandidates == {
  a1 :> c1 @@ a2 :> c1,
  a1 :> c2 @@ a2 :> Absent,
  a1 :> Absent @@ a2 :> c1 }

\* None of the contents has line ends that text mode would change.
MCReadText == [c \in Contents |-> c]
=============================================================================
