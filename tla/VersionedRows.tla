----------------------------- MODULE VersionedRows -----------------------------
(***************************************************************************)
(* What optimistic concurrency promises (docs/invariants.md, invariant     *)
(* 12): a row is only ever replaced by a writer whose view of it is its    *)
(* present content.  A writer holds a view, the row as it read it, until   *)
(* it writes or gives up; several writers may hold views of one row, and   *)
(* the first to write invalidates the others.                              *)
(***************************************************************************)
EXTENDS Naturals

CONSTANTS Rows,        \* names of rows
          Writers,
          Contents,    \* what a row may hold
          Nothing,     \* the content of a row that is not in the table
          NoView

VARIABLES row,     \* [Rows -> [version, content]]
          view     \* [Writers -> NoView or [name, version, content]]

See(n) == [name |-> n, version |-> row[n].version, content |-> row[n].content]

Init ==
    /\ row \in [Rows -> [version : {0, 1}, content : Contents \union {Nothing}]]
    /\ view = [w \in Writers |-> NoView]

Look(w, n) ==
    /\ view' = [view EXCEPT ![w] = See(n)]
    /\ UNCHANGED row

Replace(w, n) ==
    /\ view[w] = See(n)
    /\ row[n].content # Nothing
    /\ row'[n].content \in Contents
    /\ row' = [row EXCEPT ![n] = [version |-> row[n].version + 1,
                                 content |-> row'[n].content]]
    /\ view' = [view EXCEPT ![w] = NoView]

GiveUp(w) ==
    /\ view' = [view EXCEPT ![w] = NoView]
    /\ UNCHANGED row

\* A row is inserted once, and may be deleted whatever anyone has seen.
Insert(n) ==
    /\ row[n] = [version |-> 0, content |-> Nothing]
    /\ row'[n].content \in Contents
    /\ row' = [row EXCEPT ![n] = [version |-> 1, content |-> row'[n].content]]
    /\ UNCHANGED view

Delete(n) ==
    /\ row' = [row EXCEPT ![n].content = Nothing]
    /\ UNCHANGED view

Next ==
    \/ \E w \in Writers : GiveUp(w) \/ \E n \in Rows : Look(w, n) \/ Replace(w, n)
    \/ \E n \in Rows : Insert(n) \/ Delete(n)

Spec == Init /\ [][Next]_<<row, view>>

===============================================================================
