---------------------------- MODULE MCEnvironments ----------------------------
(***************************************************************************)
(* The environments of the runs of an issue, for model checking.           *)
(***************************************************************************)
EXTENDS Environments, TLC

===============================================================================
