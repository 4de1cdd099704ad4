---------------------------- MODULE NativeApply ----------------------------
(***************************************************************************)
(* What networkd.apply promises its caller: while the directory is left to *)
(* it, the managed files change from the previous set to the candidate in  *)
(* one step, or the caller is told and they do not change; and a call that *)
(* ends with nothing handled leaves of each file one of the two or none.   *)
(***************************************************************************)
CONSTANTS ArtifactNames, Artifacts, Candidates, Absent, None

VARIABLES
  installed,  \* the managed files, as they count for the caller
  wanted,     \* the candidate of the call, or None
  call,       \* "idle", "applying", "succeeded" or "failed"
  meddled     \* whether others changed the files since the call began

nativeVars == <<installed, wanted, call, meddled>>

NativeInit ==
  installed \in Artifacts /\ wanted = None /\ call = "idle" /\ meddled = FALSE

Start(candidate) ==
  /\ call = "idle"
  /\ call' = "applying"
  /\ wanted' = candidate
  /\ UNCHANGED <<installed, meddled>>

Succeed ==
  /\ call = "applying"
  /\ call' = "succeeded"
  /\ installed' = wanted \/ (meddled /\ installed' \in Artifacts)
  /\ UNCHANGED <<wanted, meddled>>

Fail ==
  /\ call = "applying"
  /\ call' = "failed"
  /\ installed' = installed \/ (meddled /\ installed' \in Artifacts)
  /\ UNCHANGED <<wanted, meddled>>

Return ==
  /\ call \in {"succeeded", "failed"}
  /\ call' = "idle" /\ wanted' = None /\ meddled' = FALSE
  /\ UNCHANGED installed

\* Nothing was handled: the process died, or the restore itself failed.
Break ==
  /\ call = "applying"
  /\ call' = "idle" /\ wanted' = None /\ meddled' = FALSE
  /\ installed' \in Artifacts
  /\ meddled \/ \A a \in ArtifactNames :
                  installed'[a] \in {installed[a], wanted[a], Absent}

\* External: somebody else changes the directory.
Meddle ==
  /\ installed' \in Artifacts
  /\ meddled' = (call # "idle")
  /\ UNCHANGED <<wanted, call>>

NativeNext ==
  \/ \E c \in Candidates : Start(c)
  \/ Succeed \/ Fail \/ Return \/ Break \/ Meddle

NativeSpec ==
  /\ NativeInit
  /\ [][NativeNext]_nativeVars
  /\ WF_nativeVars(Succeed \/ Fail \/ Break)
=============================================================================
