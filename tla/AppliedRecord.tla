--------------------------- MODULE AppliedRecord ---------------------------
(***************************************************************************)
(* What the applied-state store promises whoever records an outcome: the   *)
(* record is made in one step, whole, before the call returns; a call that *)
(* raises has recorded nothing; and no other call changes what is there.   *)
(***************************************************************************)
EXTENDS Naturals

CONSTANTS Processes, MaxRecords

VARIABLES
  applied,   \* number of the apply that succeeded last, or 0
  failures,  \* numbers of the applies recorded as failed
  calls      \* per process: the outcome it is recording

recordVars == <<applied, failures, calls>>

NoCall == [op |-> "none", number |-> 0, state |-> "none"]
Pending(p, op) == calls[p].op = op /\ calls[p].state = "asked"

RecordInit ==
  /\ applied = 0
  /\ failures = {}
  /\ calls = [p \in Processes |-> NoCall]

Ask(p, op, n) ==
  /\ calls[p] = NoCall
  /\ calls' = [calls EXCEPT ![p] = [op |-> op, number |-> n, state |-> "asked"]]
  /\ UNCHANGED <<applied, failures>>

RecordSuccess(p) ==
  /\ Pending(p, "success")
  /\ applied' = calls[p].number
  /\ calls' = [calls EXCEPT ![p].state = "recorded"]
  /\ UNCHANGED failures

RecordFailure(p) ==
  /\ Pending(p, "failure")
  /\ failures' = failures \cup {calls[p].number}
  /\ calls' = [calls EXCEPT ![p].state = "recorded"]
  /\ UNCHANGED applied

\* StateStoreError, or the process is gone.
Raise(p) ==
  /\ Pending(p, "success") \/ Pending(p, "failure")
  /\ calls' = [calls EXCEPT ![p] = NoCall]
  /\ UNCHANGED <<applied, failures>>

Answer(p) ==
  /\ calls[p].state = "recorded"
  /\ calls' = [calls EXCEPT ![p] = NoCall]
  /\ UNCHANGED <<applied, failures>>

RecordNext ==
  \E p \in Processes :
    \/ \E op \in {"success", "failure"}, n \in 1 .. MaxRecords : Ask(p, op, n)
    \/ RecordSuccess(p) \/ RecordFailure(p) \/ Raise(p) \/ Answer(p)

RecordSpec ==
  /\ RecordInit
  /\ [][RecordNext]_recordVars
  /\ \A p \in Processes :
       WF_recordVars(RecordSuccess(p) \/ RecordFailure(p) \/ Raise(p))
=============================================================================
