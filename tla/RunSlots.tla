------------------------------- MODULE RunSlots -------------------------------
(***************************************************************************)
(* What the orchestrator promises of a pipeline_run, whatever executes it: *)
(* a run is queued, is claimed at most once and only while fewer than      *)
(* MaxConcurrent runs are running, and never leaves a settled status for   *)
(* the queue or for a slot.  A settled run may be settled again: cancel    *)
(* and completion write the status without looking at it.                  *)
(***************************************************************************)
EXTENDS RunService

VARIABLE runStatus

Init == runStatus = [r \in Runs |-> "absent"]

Enqueue(r) ==
    /\ runStatus[r] = "absent"
    /\ runStatus' = [runStatus EXCEPT ![r] = "pending"]

Claim(r) ==
    /\ runStatus[r] = "pending"
    /\ Cardinality(RunningRuns(runStatus)) < MaxConcurrent
    /\ runStatus' = [runStatus EXCEPT ![r] = "running"]

Settle(r) ==
    /\ runStatus[r] # "absent"
    /\ \E s \in Settled : runStatus' = [runStatus EXCEPT ![r] = s]

Next == \E r \in Runs : Enqueue(r) \/ Claim(r) \/ Settle(r)

Spec == Init /\ [][Next]_runStatus

===============================================================================
