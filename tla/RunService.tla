------------------------------ MODULE RunService ------------------------------
(***************************************************************************)
(* The rows of pipeline_run and stage_run and the operations of            *)
(* PipelineRunService on them (core/orchestrator/pipeline-run-service.ts), *)
(* as operators without state: the modules that own the tables apply them. *)
(* A pipeline_run is named by its position in created_at order, so the     *)
(* FIFO queue of pending runs is the order of the naturals.                *)
(***************************************************************************)
EXTENDS Integers, Sequences, FiniteSets

CONSTANTS NumRuns,         \* pipeline_run rows that may ever be inserted
          Stages,          \* pipeline_stage rows of the pipeline
          MaxConcurrent    \* EventOrchestratorConfig.maxConcurrentRuns

ASSUME RunServiceAssumption ==
    /\ NumRuns \in Nat
    /\ MaxConcurrent \in Nat

Runs == 1..NumRuns

-------------------------------------------------------------------------------
(* Statuses. "absent" stands for a row that is not inserted yet.  A run in *)
(* Settled has been through completeRun; "blocked" is settled too, though  *)
(* PIPELINE_RUN_TERMINAL does not hold it.                                 *)

Settled == {"completed", "failed", "blocked", "cancelled"}
RunStatus == {"absent", "pending", "running"} \union Settled

StageTerminal == {"completed", "failed", "cancelled"}
StageStatus == {"pending", "launching", "running"} \union StageTerminal

\* A stage_run row; pid says whether recordPid has committed.
StageRun == [stage : Stages, attempt : Nat, status : StageStatus, pid : BOOLEAN]

-------------------------------------------------------------------------------
(* pipeline_run. *)

RunningRuns(status) == {r \in Runs : status[r] = "running"}

PendingRuns(status) == {r \in Runs : status[r] = "pending"}

\* Mutants of CanAcquire: the limit off by one; the status not tested again.
CanAcquireOneMore(status, r) ==
    /\ status[r] = "pending"
    /\ Cardinality(RunningRuns(status)) <= MaxConcurrent

CanAcquireAnyStatus(status, r) ==
    Cardinality(RunningRuns(status)) < MaxConcurrent

\* The WHERE clause of tryAcquireRunningSlot, evaluated under the advisory
\* lock: one statement that sees every committed claim.
CanAcquire(status, r) ==
    /\ status[r] = "pending"
    /\ Cardinality(RunningRuns(status)) < MaxConcurrent

-------------------------------------------------------------------------------
(* stage_run: the rows of one run, in created_at order. *)

StageRunsOf(rows, s) == {i \in DOMAIN rows : rows[i].stage = s}

\* attempt = coalesce(max(attempt), 0) + 1.  Rows are never deleted and are
\* numbered from 1 without a gap, so the maximum is their number.
CreateStageRun(rows, s) ==
    Append(rows, [stage |-> s,
                  attempt |-> Cardinality(StageRunsOf(rows, s)) + 1,
                  status |-> "pending",
                  pid |-> FALSE])

\* updateStageRunStatus writes whatever the row holds.
UpdateStageRunStatus(rows, i, status) == [rows EXCEPT ![i].status = status]

\* Mutant of CompleteStageRun: no guard.
CompleteStageRunUnguarded(rows, i, status) == [rows EXCEPT ![i].status = status]

\* completeStageRun spares a cancelled row, except to cancel it.
CompleteStageRun(rows, i, status) ==
    IF rows[i].status = "cancelled" /\ status # "cancelled"
    THEN rows
    ELSE [rows EXCEPT ![i].status = status]

RecordPid(rows, i) == [rows EXCEPT ![i].pid = TRUE]

StageRunsWith(rows, status) == {i \in DOMAIN rows : rows[i].status = status}

OpenStageRuns(rows) == {i \in DOMAIN rows : rows[i].status \notin StageTerminal}

===============================================================================
