------------------------ MODULE MCPipelineOrchestrator ------------------------
(***************************************************************************)
(* Constants for the model checking of PipelineOrchestrator.               *)
(***************************************************************************)
EXTENDS PipelineOrchestrator, TLC

CONSTANTS build, review, approve, bare     \* model values

\* One stage: it completes, reworks itself, or ends in a dead end.
OneStageRouting ==
    build :> [proceed |-> "__complete__", rework |-> build, hold |-> "none"]

\* build, then approve, which is gated.
TwoStageRouting ==
    build :> [proceed |-> approve, rework |-> build, hold |-> "__blocked__"]
    @@ approve :> [proceed |-> "__complete__", rework |-> build, hold |-> "none"]

\* build and review run a driver, approve is gated and bare has no driver.
FourStageRouting ==
    build :> [proceed |-> review, rework |-> bare, hold |-> approve]
    @@ review :> [proceed |-> "__complete__", rework |-> "none", hold |-> "__blocked__"]
    @@ [s \in {approve, bare} |->
          [proceed |-> "__complete__", rework |-> build, hold |-> "none"]]

RetryOnce == [s \in Stages |-> 1]
NoRetry == [s \in Stages |-> 0]

\* Who asks for what: users act on the first run only, on every run, or on none.
CancelFirst == [r \in Runs |-> {"dispatch"} \union (IF r = 1 THEN {"cancel"} ELSE {})]
ActOnAll == [r \in Runs |-> RequestKinds]
DecideAll == [r \in Runs |-> {"dispatch", "decide"}]
DispatchAll == [r \in Runs |-> {"dispatch"}]

===============================================================================
