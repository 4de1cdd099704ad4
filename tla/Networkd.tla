----------------------------- MODULE Networkd -----------------------------
(***************************************************************************)
(* backends/networkd.py apply(): the managed files are read one by one,    *)
(* the new ones installed, those no longer wanted unlinked, networkd is    *)
(* told to reload, and any OSError or refusal after the reading unlinks    *)
(* every managed file and writes the previous ones back.  Others may       *)
(* change the directory meanwhile.                                         *)
(*                                                                         *)
(* `networkd' is what the managed files (10-kavernis-...) of the directory *)
(* hold, `native' the call of apply() under way: its phase, the files it   *)
(* read, the files it installs, the names the phase has still to treat     *)
(* and whether somebody else changed the directory since it began.         *)
(***************************************************************************)
EXTENDS Naturals, Absence

CONSTANTS
  ArtifactNames,  \* names of managed files
  Contents,       \* what such a file can hold
  Undecodable,    \* contents that are not UTF-8
  ReadText,       \* content |-> the same with the line ends text mode reads
  Candidates,     \* the sets of files that are generated
  CanDrift,       \* whether others change the managed files
  CanAbandon      \* whether a call may end with nothing handled: the process
                  \* dies or is interrupted, or an operation of _restore fails

Artifacts == [ArtifactNames -> Contents \cup {Absent}]
NoArtifacts == [a \in ArtifactNames |-> Absent]
Phases == {"read", "write", "prune", "reload", "clear", "restore", "reload again",
           "succeeded", "failed"}
Calls == [phase : Phases, previous : Artifacts, candidate : Artifacts,
          todo : SUBSET ArtifactNames, meddled : BOOLEAN]

ASSUME NetworkdAssumption ==
  /\ Absent \notin Contents
  /\ Undecodable \subseteq Contents
  /\ ReadText \in [Contents -> Contents]
  /\ Candidates \subseteq [ArtifactNames -> (Contents \ Undecodable) \cup {Absent}]
  /\ None \notin Calls
  /\ CanDrift \in BOOLEAN
  /\ CanAbandon \in BOOLEAN

VARIABLES networkd, native

networkdVars == <<networkd, native>>

Held(files) == {a \in ArtifactNames : files[a] # Absent}
InPhase(phase) == native # None /\ native.phase = phase
Applying == native # None /\ native.phase \notin {"succeeded", "failed"}
Changing == Applying /\ ~InPhase("read")

(* ------------------------------ the call ------------------------------- *)

\* apply() begins by listing the managed files there are.
Begin(candidate) ==
  /\ native = None
  /\ native' = [phase |-> "read", previous |-> NoArtifacts, candidate |-> candidate,
                todo |-> Held(networkd), meddled |-> FALSE]
  /\ UNCHANGED networkd

GoTo(phase, todo) == native' = [native EXCEPT !.phase = phase, !.todo = todo]
Done(a) == native' = [native EXCEPT !.todo = @ \ {a}]

\* A listed file is decoded, or skipped when it is no longer a file.
ReadPrevious(a) ==
  /\ InPhase("read") /\ a \in native.todo
  /\ networkd[a] \notin Undecodable
  /\ native' = [native EXCEPT !.previous[a] = networkd[a], !.todo = @ \ {a}]
  /\ UNCHANGED networkd

AllRead ==
  /\ InPhase("read") /\ native.todo = {}
  /\ GoTo("write", Held(native.candidate))
  /\ UNCHANGED networkd

Write(a) ==
  /\ InPhase("write") /\ a \in native.todo
  /\ networkd' = [networkd EXCEPT ![a] = native.candidate[a]]
  /\ Done(a)

\* Mutant: reload before the unwanted files are removed.
AllWrittenNoPrune ==
  /\ InPhase("write") /\ native.todo = {}
  /\ GoTo("reload", {})
  /\ UNCHANGED networkd

AllWritten ==
  /\ InPhase("write") /\ native.todo = {}
  /\ GoTo("prune", Held(native.previous) \ Held(native.candidate))
  /\ UNCHANGED networkd

\* unlink() without missing_ok: a file that is gone is an error.
Prune(a) ==
  /\ InPhase("prune") /\ a \in native.todo
  /\ networkd[a] # Absent
  /\ networkd' = [networkd EXCEPT ![a] = Absent]
  /\ Done(a)

AllPruned ==
  /\ InPhase("prune") /\ native.todo = {}
  /\ GoTo("reload", {})
  /\ UNCHANGED networkd

Reload ==
  /\ InPhase("reload")
  /\ GoTo("succeeded", {})
  /\ UNCHANGED networkd

\* Mutant: the error is reported without restoring.
RefuseNoRestore ==
  /\ InPhase("write") \/ InPhase("prune") \/ InPhase("reload")
  /\ GoTo("failed", {})
  /\ UNCHANGED networkd

\* Mutant: the previous files are written back over what there is.
RefuseNoClear ==
  /\ InPhase("write") \/ InPhase("prune") \/ InPhase("reload")
  /\ GoTo("restore", Held(native.previous))
  /\ UNCHANGED networkd

\* mkdir, a write, an unlink or the reload fails: _restore begins by listing
\* the managed files there are.
Refuse ==
  /\ InPhase("write") \/ InPhase("prune") \/ InPhase("reload")
  /\ GoTo("clear", Held(networkd))
  /\ UNCHANGED networkd

\* A listed file is unlinked, or skipped when it is no longer a file.
Clear(a) ==
  /\ InPhase("clear") /\ a \in native.todo
  /\ networkd' = [networkd EXCEPT ![a] = Absent]
  /\ Done(a)

AllCleared ==
  /\ InPhase("clear") /\ native.todo = {}
  /\ GoTo("restore", Held(native.previous))
  /\ UNCHANGED networkd

\* What is written back went through read_text().
Restore(a) ==
  /\ InPhase("restore") /\ a \in native.todo
  /\ networkd' = [networkd EXCEPT ![a] = ReadText[native.previous[a]]]
  /\ Done(a)

AllRestored ==
  /\ InPhase("restore") /\ native.todo = {}
  /\ GoTo("reload again", {})
  /\ UNCHANGED networkd

\* The second reload's result is ignored; NetworkdApplyError is raised.
ReloadAgain ==
  /\ InPhase("reload again")
  /\ GoTo("failed", {})
  /\ UNCHANGED networkd

\* One step of the call as the code drives it.
CallStep ==
  \/ AllRead \/ AllWritten \/ AllPruned \/ Reload \/ Refuse
  \/ AllCleared \/ AllRestored \/ ReloadAgain
  \/ \E a \in ArtifactNames :
       ReadPrevious(a) \/ Write(a) \/ Prune(a) \/ Clear(a) \/ Restore(a)

\* The caller has dealt with the outcome.
Return ==
  /\ InPhase("succeeded") \/ InPhase("failed")
  /\ native' = None
  /\ UNCHANGED networkd

\* A listed file goes after it was seen to be a file and before it is read,
\* or unlinked by _restore, or is not UTF-8: nothing handles the exception.
Stumbles ==
  \/ InPhase("read")
     /\ \E a \in native.todo : networkd[a] \in Undecodable \cup {Absent}
  \/ InPhase("clear") /\ \E a \in native.todo : networkd[a] = Absent

Abandon ==
  /\ Applying
  /\ CanAbandon \/ Stumbles
  /\ native' = None
  /\ UNCHANGED networkd

(* --------------------------- everybody else ---------------------------- *)

\* External: somebody writes or removes a managed file.
Drift(a, c) ==
  /\ CanDrift
  /\ networkd[a] # c
  /\ networkd' = [networkd EXCEPT ![a] = c]
  /\ native' = IF native = None THEN None ELSE [native EXCEPT !.meddled = TRUE]

NetworkdInit == networkd = NoArtifacts /\ native = None

NetworkdNext ==
  \/ \E c \in Candidates : Begin(c)
  \/ CallStep
  \/ Return
  \/ Abandon
  \/ \E a \in ArtifactNames, c \in Contents \cup {Absent} : Drift(a, c)

\* apply() runs to its end: its file operations and networkctl return.
NetworkdSpec ==
  /\ NetworkdInit
  /\ [][NetworkdNext]_networkdVars
  /\ WF_networkdVars(CallStep \/ Abandon)

(* ----------------------------- properties ------------------------------ *)

NetworkdTypeOK ==
  /\ networkd \in Artifacts
  /\ native \in Calls \cup {None}

\* networkd is asked to read the directory only when it holds a complete set:
\* the candidate before the first reload, the previous set before the second.
NeverReloadsPartial ==
  native # None /\ ~native.meddled =>
    /\ native.phase = "reload" => networkd = native.candidate
    /\ native.phase = "reload again" => networkd = native.previous

\* A call as its caller sees it: once the files are read, what was read
\* counts until the call is over.
Installed == IF Changing THEN native.previous ELSE networkd
Wanted == IF native = None THEN None ELSE native.candidate
Call == CASE native = None -> "idle"
          [] InPhase("succeeded") -> "succeeded"
          [] InPhase("failed") -> "failed"
          [] OTHER -> "applying"
Meddled == native # None /\ native.meddled

Promise == INSTANCE NativeApply WITH
  installed <- Installed, wanted <- Wanted, call <- Call, meddled <- Meddled

\* Seen by its caller a call is one step or none, and it ends: "If networkctl
\* cannot activate the candidate, the previously managed files are restored
\* before the error is reported", whichever step failed.
NativeApplied == Promise!NativeSpec
=============================================================================
