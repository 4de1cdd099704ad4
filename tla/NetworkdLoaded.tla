--------------------------- MODULE NetworkdLoaded ---------------------------
(***************************************************************************)
(* What systemd-networkd runs with: `loaded' is what the managed files     *)
(* held when it last read them.  It reads them when networkctl asks it to, *)
(* and a reload that fails may have done so or not.  apply() looks at the  *)
(* result of its first reload only: after a failure the files are the      *)
(* previous ones again, but networkd may go on with the refused ones.      *)
(***************************************************************************)
EXTENDS Networkd

VARIABLES
  loaded,
  disturbed  \* whether, since the last success, a call was cut short or
             \* somebody else changed the files; no step looks at it

loadedVars == <<networkdVars, loaded, disturbed>>

LoadedInit == NetworkdInit /\ loaded = networkd /\ disturbed = FALSE

Succeeds ==
  /\ Reload
  /\ loaded' = networkd
  /\ disturbed' = native.meddled

\* The first reload fails, or cannot even be asked for.
RefusedReload ==
  /\ InPhase("reload") /\ Refuse
  /\ loaded' \in {loaded, networkd}
  /\ UNCHANGED disturbed

SecondReload ==
  /\ ReloadAgain
  /\ loaded' \in {loaded, networkd}
  /\ UNCHANGED disturbed

\* Every other step touches the files only.
FileStep ==
  /\ \/ \E c \in Candidates : Begin(c)
     \/ AllRead \/ AllWritten \/ AllPruned \/ (~InPhase("reload") /\ Refuse)
     \/ AllCleared \/ AllRestored \/ Return
     \/ \E a \in ArtifactNames :
          ReadPrevious(a) \/ Write(a) \/ Prune(a) \/ Clear(a) \/ Restore(a)
  /\ UNCHANGED <<loaded, disturbed>>

Disturb ==
  /\ Abandon \/ \E a \in ArtifactNames, c \in Contents \cup {Absent} : Drift(a, c)
  /\ disturbed' = TRUE
  /\ UNCHANGED loaded

LoadedNext == Succeeds \/ RefusedReload \/ SecondReload \/ FileStep \/ Disturb
LoadedSpec == LoadedInit /\ [][LoadedNext]_loadedVars

\* As in NetworkdSpec, apply() runs to its end.
FairLoadedSpec == LoadedSpec /\ WF_networkdVars(CallStep \/ Abandon)

(* ----------------------------- properties ------------------------------ *)

\* Whatever fails, networkd runs with a whole generated set, the refused one
\* perhaps, and never with a mixture of two: from one undisturbed success on,
\* until a call is cut short or somebody else changes the files.
RunsWholeSet == ~disturbed => loaded \in Candidates \cup {NoArtifacts}
=============================================================================
