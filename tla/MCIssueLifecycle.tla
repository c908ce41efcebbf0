--------------------------- MODULE MCIssueLifecycle ---------------------------
(***************************************************************************)
(* Constants for the model checking of IssueLifecycle: a theme with one    *)
(* epic of two children, to which a third may be added, and one comment.   *)
(***************************************************************************)
EXTENDS IssueLifecycle, TLC

CONSTANTS theme, epic, left, right, added, note, reply, retort,   \* rows
          closeLeft, closeRight, closeUnlogged, reopenLeft, moveEpic, editEpic,
          blockEpic, add, drop, retire,                      \* requests for issues
          addReply, addRetort, editNote, rewriteNote, eraseNote   \* for comments

Tree == theme :> None @@ epic :> theme @@ left :> epic @@ right :> epic @@ added :> epic

AtStart == theme :> 1 @@ epic :> 2 @@ left :> 3 @@ right :> 4 @@ note :> 1

\* States 1 and 2 are open, 3 and 4 terminal.
Asked(o, n, s) == [op |-> o, on |-> n, to |-> s]

Calls ==
    closeLeft :> Asked("close", left, 3) @@ closeRight :> Asked("move", right, 4)
    @@ closeUnlogged :> Asked("move", right, 4) @@ reopenLeft :> Asked("reopen", left, 1)
    @@ moveEpic :> Asked("move", epic, 2) @@ editEpic :> Asked("fields", epic, 1)
    @@ blockEpic :> Asked("block", epic, 1) @@ add :> Asked("create", added, 1)
    @@ drop :> Asked("delete", right, 1) @@ retire :> Asked("deactivate", theme, 3)
    @@ addReply :> Asked("create", reply, 1) @@ addRetort :> Asked("create", retort, 1)
    @@ editNote :> Asked("edit", note, 1) @@ rewriteNote :> Asked("edit", note, 1)
    @@ eraseNote :> Asked("erase", note, 1)

Together ==
    {{closeLeft, closeRight, editEpic, blockEpic},        \* conflicts over the epic
     {closeLeft, closeRight, reopenLeft, add},            \* children that open again
     {closeLeft, closeRight, moveEpic, retire},
     {closeLeft, closeUnlogged, drop, retire},            \* closings that get lost
     {closeLeft, closeRight, drop, add},
     {addReply, addRetort, editNote, eraseNote},
     {editNote, rewriteNote, eraseNote}}

===============================================================================
