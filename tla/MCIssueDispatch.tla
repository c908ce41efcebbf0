---------------------------- MODULE MCIssueDispatch ----------------------------
(***************************************************************************)
(* Constants for the model checking of IssueDispatch.                      *)
(***************************************************************************)
EXTENDS IssueDispatch, TLC

CONSTANTS filed     \* a model value: the issue that is filed

===============================================================================
