---------------------------- MODULE IssueLifecycle ----------------------------
(***************************************************************************)
(* Issues, their comments and their epics under concurrent requests        *)
(* (core/services/issue.ts, issue-comment.ts, issue-catalog.ts, behind     *)
(* server/routers/issue.ts and blockIssueOnRun of the daemon).             *)
(*                                                                         *)
(* A request is one call of the web process or of the daemon, from the     *)
(* moment its page reads the row it will change; pc names the await it is  *)
(* suspended at.  A request that closes an issue goes on to close the      *)
(* issue's ancestors (maybeAutoCloseParent), before it returns.            *)
(***************************************************************************)
EXTENDS Integers, FiniteSets

CONSTANTS
    Issues, Comments,   \* rows that are ever in the tables
    FirstNumber,        \* [rows in the tables at the start -> number]
    MaxNumber,          \* bound: numbers ever given
    Parent,             \* [Issues -> Issues or None]: parent_issue_id, set at creation
    NumStates,          \* issue_state rows, named by sort_order
    Terminal,           \* those with is_terminal
    Requests,
    Ask,                \* [Requests -> [op, on, to]]
    EventFails,         \* requests whose insertions of an issue_event may fail
    MayVanish,          \* requests whose process may end under them
    Batches,            \* bound: the sets of requests that occur together
    None

States == 1..NumStates
Rows == Issues \union Comments
Moves == {"move", "close", "reopen"}
PageOps == Moves \union {"fields", "edit", "erase"}
Ops == PageOps \union {"block", "create", "delete", "deactivate"}

ASSUME IssueAssumption ==
    /\ Issues \intersect Comments = {}
    /\ MaxNumber \in Nat
    /\ \E S \in SUBSET Rows : FirstNumber \in [S -> 1..MaxNumber]
    /\ \A m, n \in DOMAIN FirstNumber :
          (m \in Issues <=> n \in Issues) /\ FirstNumber[m] = FirstNumber[n] => m = n
    /\ \A m \in Comments \intersect DOMAIN FirstNumber, k \in 1..MaxNumber :
          k < FirstNumber[m] =>
              \E n \in Comments \intersect DOMAIN FirstNumber : FirstNumber[n] = k
    /\ None \notin Issues
    /\ Parent \in [Issues -> Issues \union {None}]
    /\ \A c \in Issues \intersect DOMAIN FirstNumber :        \* its foreign key
          Parent[c] # None => Parent[c] \in DOMAIN FirstNumber
    /\ NumStates \in Nat /\ Terminal \subseteq States
    /\ 1 \in States \ Terminal
    /\ Ask \in [Requests -> [op : Ops, on : Rows, to : States]]
    /\ \A q \in Requests :
          /\ Ask[q].op \in Moves \union {"fields", "block", "delete"} => Ask[q].on \in Issues
          /\ Ask[q].op \in {"edit", "erase"} => Ask[q].on \in Comments
    /\ EventFails \subseteq Requests
    /\ MayVanish \subseteq Requests
    /\ None \notin Requests
    /\ Batches \subseteq SUBSET Requests

VARIABLES
    row,      \* the rows of issue and issue_comment
    active,   \* issue_state rows with is_active
    trail,    \* the bodies of each comment that issue_event rows hold
    req       \* where each request stands

vars == <<row, active, trail, req>>

-------------------------------------------------------------------------------
(* Rows.  A comment uses body, closed (is_deleted), number and version.    *)
(* The body is named by the request that wrote it; None is the empty one.  *)

Row == [exists : BOOLEAN, version : Nat, number : Nat, state : States,
        blocked : BOOLEAN, closed : BOOLEAN, body : Requests \union {None, "first"}]

Absent == [exists |-> FALSE, version |-> 0, number |-> 0, state |-> 1,
           blocked |-> FALSE, closed |-> FALSE, body |-> None]

\* What an insert writes; state 1 is the first non-terminal state.
Fresh(n, state) == [exists |-> TRUE, version |-> 1, number |-> n, state |-> state,
                    blocked |-> FALSE, closed |-> FALSE, body |-> "first"]

Table(n) == IF n \in Issues THEN Issues ELSE Comments

Numbers(tab) == {row[n].number : n \in {m \in tab : row[m].exists}}

\* findTerminalState, findNonTerminalState: the first active one, if any.
FirstState(choice) == {s \in choice : \A t \in choice : s <= t}

ClosingState == FirstState(active \intersect Terminal)
OpeningState == FirstState(active \ Terminal)

Request ==
    [pc : {"idle", "page", "write", "number", "insert", "ascend", "read",
           "count", "close", "done"},
     seen : Row,                  \* the row the request has read and will write
     to : States,                 \* the state it moves its issue to
     child : Issues \union {None},     \* the closed issue whose parent is looked at
     attempt : 1..2,              \* of closing that parent
     wrote : BOOLEAN,             \* has the request's own write committed?
     end : {"none", "ok", "error", "raced", "lost"}]

NoRequest == [pc |-> "idle", seen |-> Absent, to |-> 1, child |-> None, attempt |-> 1,
              wrote |-> FALSE, end |-> "none"]

TypeOK ==
    /\ row \in [Rows -> Row]
    /\ active \subseteq States
    /\ trail \in [Comments -> SUBSET (Requests \union {None, "first"})]
    /\ req \in [Requests -> Request]

Init ==
    /\ row = [n \in Rows |-> IF n \in DOMAIN FirstNumber
                             THEN Fresh(FirstNumber[n], 1) ELSE Absent]
    /\ active = States
    /\ trail = [c \in Comments |-> {}]
    /\ req = [q \in Requests |-> NoRequest]

\* Mutant of IsNextNumber: the number is drawn from a sequence, before the row
\* is inserted.
IsNextOfSequence(k, tab) ==
    LET drawn == Numbers(tab) \union {req[q].seen.number : q \in
                     {p \in Requests : req[p].pc # "idle" /\ Ask[p].on \in tab}} IN
    /\ \A j \in drawn : j < k
    /\ k - 1 \in drawn \union {0}

\* k = COALESCE(MAX(number), 0) + 1
IsNextNumber(k, tab) ==
    /\ \A j \in Numbers(tab) : j < k
    /\ k - 1 \in Numbers(tab) \union {0}

Children(p) == {c \in Issues : row[c].exists /\ Parent[c] = p}

OpenChildren(p) == {c \in Children(p) : ~row[c].closed}

End(q, how) == req' = [req EXCEPT ![q].pc = "done", ![q].end = how]

Goto(q, pc) == req' = [req EXCEPT ![q].pc = pc]

Starts(q, ops) ==
    /\ req[q].pc = "idle" /\ Ask[q].op \in ops
    /\ \E b \in Batches : {q} \union {r \in Requests : req[r].pc # "idle"} \subseteq b

-------------------------------------------------------------------------------
(* A request that changes a row: the page reads it, the handler reads it   *)
(* again and compares, the UPDATE compares once more.                      *)

\* The user has loaded the page and submits what it shows.
Load(q) ==
    /\ Starts(q, PageOps)
    /\ row[Ask[q].on].exists
    /\ req' = [req EXCEPT ![q].pc = "page", ![q].seen = row[Ask[q].on]]
    /\ UNCHANGED <<row, active, trail>>

\* Where a request moves its issue: close and reopen look the first state of
\* their kind up, transition and stateOverride are given one.
Target(q) ==
    CASE Ask[q].op = "close" -> ClosingState
      [] Ask[q].op = "reopen" -> OpeningState
      [] OTHER -> {Ask[q].to}

\* The handler's own SELECT, and assertVersion.
Check(q) ==
    /\ req[q].pc = "page"
    /\ \/ /\ row[Ask[q].on].exists
          /\ row[Ask[q].on].version = req[q].seen.version
          /\ \E s \in Target(q) : req' = [req EXCEPT ![q].pc = "write", ![q].to = s]
       \/ /\ \/ ~row[Ask[q].on].exists \/ Target(q) = {}
             \/ row[Ask[q].on].version # req[q].seen.version
          /\ End(q, "error")
    /\ UNCHANGED <<row, active, trail>>

\* blockIssueOnRun: reads the issue itself; an issue that is gone is a no-op.
ReadToBlock(q) ==
    /\ Starts(q, {"block"})
    /\ IF row[Ask[q].on].exists
       THEN req' = [req EXCEPT ![q].pc = "write", ![q].seen = row[Ask[q].on]]
       ELSE End(q, "ok")
    /\ UNCHANGED <<row, active, trail>>

\* Mutant of Matches: UPDATE ... WHERE id = ?.
MatchesAnyVersion(r, seen) == r.exists

\* UPDATE ... WHERE id = ? AND version = ?
Matches(r, seen) == r.exists /\ r.version = seen.version

\* UPDATE ... SET version = ? + 1 WHERE id = ? AND version = ?, of the row that
\* the request has in hand.
Update(q, new) ==
    row' = [row EXCEPT ![Ask[q].on] = [new EXCEPT !.version = req[q].seen.version + 1]]

Conflicts(q) ==
    /\ ~Matches(row[Ask[q].on], req[q].seen)
    /\ End(q, "error")
    /\ UNCHANGED <<row, trail>>

\* Whether the event that a request inserts fails.
Fails(q) == {FALSE, (q \in EventFails)}

\* The event of an issue is inserted after the row was updated, by a statement
\* of its own; its failure ends the request there.
Recorded(q, pc) ==
    \E fails \in Fails(q) :
        req' = [req EXCEPT ![q].wrote = TRUE, ![q].child = Ask[q].on,
                           ![q].pc = IF fails THEN "done" ELSE pc,
                           ![q].end = IF fails THEN "error" ELSE "ok"]

At(q, ops) == req[q].pc = "write" /\ Ask[q].op \in ops

UpdateFields(q) ==
    LET r == row[Ask[q].on] IN
    /\ At(q, {"fields"})
    /\ \/ Conflicts(q)
       \/ /\ Matches(r, req[q].seen)
          /\ Update(q, [r EXCEPT !.body = q])
          /\ Recorded(q, "done")
          /\ UNCHANGED trail
    /\ UNCHANGED active

\* transition and stateOverride, the latter also behind close and reopen.
Transition(q) ==
    LET r == row[Ask[q].on]
        closed == req[q].to \in Terminal IN
    /\ At(q, Moves)
    /\ \/ Conflicts(q)
       \/ /\ Matches(r, req[q].seen)
          /\ Update(q, [r EXCEPT !.state = req[q].to, !.closed = closed])
          /\ Recorded(q, IF closed THEN "ascend" ELSE "done")
          /\ UNCHANGED trail
    /\ UNCHANGED active

UpdateStatus(q) ==
    LET r == row[Ask[q].on] IN
    /\ At(q, {"block"})
    /\ \/ Conflicts(q)
       \/ /\ Matches(r, req[q].seen)
          /\ Update(q, [r EXCEPT !.blocked = TRUE])
          /\ Recorded(q, "done")
          /\ UNCHANGED trail
    /\ UNCHANGED active

\* Mutant of Captured: the event is written with the body as it will be.
CapturedLate(q) == {q}

\* The body that the event of an edit or a deletion of a comment keeps: the one
\* that the transaction has read.
Captured(q) == {req[q].seen.body}

\* The edit of a comment and its event are one transaction.
Revise(q, new) ==
    LET n == Ask[q].on IN
    /\ \/ Conflicts(q)
       \/ /\ Matches(row[n], req[q].seen)
          /\ \/ q \in EventFails /\ End(q, "error") /\ UNCHANGED <<row, trail>>
             \/ /\ Update(q, new)
                /\ trail' = [trail EXCEPT ![n] = @ \union Captured(q)]
                /\ req' = [req EXCEPT ![q].pc = "done", ![q].end = "ok",
                                      ![q].wrote = TRUE]
    /\ UNCHANGED active

UpdateComment(q) ==
    /\ At(q, {"edit"})
    /\ Revise(q, [row[Ask[q].on] EXCEPT !.body = q])

SoftDelete(q) ==
    /\ At(q, {"erase"})
    /\ Revise(q, [row[Ask[q].on] EXCEPT !.body = None, !.closed = TRUE])

-------------------------------------------------------------------------------
(* Inserting and deleting. *)

\* The state, the status and the parent are looked for (an issue may find none,
\* or its parent in another project), and a transaction begun; its SELECT ...
\* FOR UPDATE sees what was committed when it began, and the rows it waits for
\* do not show it the rows inserted meanwhile.
Number(q) ==
    LET n == Ask[q].on IN
    /\ Starts(q, {"create"})
    /\ \/ /\ n \in Issues /\ Parent[n] # None => row[Parent[n]].exists
          /\ \E k \in 1..MaxNumber, s \in IF n \in Issues THEN OpeningState ELSE {1} :
                /\ IsNextNumber(k, Table(n))
                /\ req' = [req EXCEPT ![q].pc = "insert", ![q].seen = Fresh(k, s)]
       \/ n \in Issues /\ End(q, "error")
    /\ UNCHANGED <<row, active, trail>>

\* The unique index on the number, the foreign key on the parent.
MayInsert(q, n) ==
    /\ req[q].seen.number \notin Numbers(Table(n))
    /\ n \in Issues /\ Parent[n] # None => row[Parent[n]].exists

Insert(q) ==
    LET n == Ask[q].on IN
    /\ req[q].pc = "insert"
    /\ \/ /\ MayInsert(q, n)
          /\ row[n].version = 0        \* its id was generated for this request
          /\ row' = [row EXCEPT ![n] = req[q].seen]
          /\ req' = [req EXCEPT ![q].wrote = TRUE, ![q].pc = "done", ![q].end = "ok"]
       \/ /\ ~MayInsert(q, n) \/ q \in EventFails
          /\ End(q, "error")
          /\ UNCHANGED row
    /\ UNCHANGED <<active, trail>>

\* ON DELETE RESTRICT: not while it has children.  No version is asked for,
\* and no ancestor is looked at.
Delete(q) ==
    LET n == Ask[q].on IN
    /\ Starts(q, {"delete"})
    /\ IF n \in Issues /\ Children(n) # {}
       THEN End(q, "error") /\ UNCHANGED row
       ELSE /\ row' = [row EXCEPT ![n] = [Absent EXCEPT !.version = row[n].version]]
            /\ req' = [req EXCEPT ![q].pc = "done", ![q].end = "ok", ![q].wrote = TRUE,
                                  ![q].seen = row[n]]
    /\ UNCHANGED <<active, trail>>

\* issueCatalog.states.deactivate
Deactivate(q) ==
    /\ Starts(q, {"deactivate"})
    /\ active' = active \ {Ask[q].to}
    /\ End(q, "ok")
    /\ UNCHANGED <<row, trail>>

-------------------------------------------------------------------------------
(* maybeAutoCloseParent(child), and its recursion to the grandparent: when *)
(* a parent was closed, nothing is left to do but the parent's own parent. *)

Ascend(q) ==
    LET c == req[q].child IN
    /\ req[q].pc = "ascend"
    /\ IF row[c].exists /\ Parent[c] # None
       THEN req' = [req EXCEPT ![q].pc = "read", ![q].attempt = 1]
       ELSE End(q, "ok")
    /\ UNCHANGED <<row, active, trail>>

ReadParent(q) ==
    LET p == Parent[req[q].child] IN
    /\ req[q].pc = "read"
    /\ IF row[p].exists /\ ~row[p].closed
       THEN req' = [req EXCEPT ![q].pc = "count", ![q].seen = row[p]]
       ELSE End(q, "ok")
    /\ UNCHANGED <<row, active, trail>>

\* Mutant of HasOpen: the child at hand is counted among the open ones.
HasOpenOther(p) == Cardinality(OpenChildren(p)) > 1

HasOpen(p) == OpenChildren(p) # {}

CountOpen(q) ==
    /\ req[q].pc = "count"
    /\ IF HasOpen(Parent[req[q].child]) THEN End(q, "ok") ELSE Goto(q, "close")
    /\ UNCHANGED <<row, active, trail>>

\* Mutants of Conflict: attempts without end; no second attempt.
ConflictAgain(q) ==
    req' = [req EXCEPT ![q].pc = "read", ![q].attempt = @ + 1]

ConflictGivesUp(q) == End(q, "ok")

\* The attempt raced or threw: one more, then a warning.
Conflict(q) ==
    IF req[q].attempt = 1
    THEN req' = [req EXCEPT ![q].pc = "read", ![q].attempt = 2]
    ELSE End(q, "raced")

CloseParent(q) ==
    LET p == Parent[req[q].child] IN
    /\ req[q].pc = "close"
    /\ \/ /\ ClosingState = {} \/ ~Matches(row[p], req[q].seen)
          /\ Conflict(q)
          /\ UNCHANGED row
       \/ /\ Matches(row[p], req[q].seen)
          /\ \E s \in ClosingState :
                row' = [row EXCEPT ![p] = [@ EXCEPT !.state = s, !.closed = TRUE,
                                          !.version = req[q].seen.version + 1]]
          /\ \/ q \in EventFails /\ Conflict(q)
             \/ req' = [req EXCEPT ![q].pc = "ascend", ![q].child = p]
    /\ UNCHANGED <<active, trail>>

\* The process that served the request ends, or the connection is lost.
Vanish(q) ==
    /\ q \in MayVanish
    /\ req[q].pc \notin {"idle", "done"}
    /\ End(q, "lost")
    /\ UNCHANGED <<row, active, trail>>

Next == \E q \in Requests :
    \/ Load(q) \/ Check(q) \/ ReadToBlock(q)
    \/ UpdateFields(q) \/ Transition(q) \/ UpdateStatus(q)
    \/ UpdateComment(q) \/ SoftDelete(q)
    \/ Number(q) \/ Insert(q) \/ Delete(q) \/ Deactivate(q)
    \/ Ascend(q) \/ ReadParent(q) \/ CountOpen(q) \/ CloseParent(q)
    \/ Vanish(q)

Spec == Init /\ [][Next]_vars

-------------------------------------------------------------------------------
(* Properties. *)

\* What a row holds, its version apart, and the view a request has of a row.
Content(r) == [r EXCEPT !.version = 0]

Contents == [exists : {TRUE}, version : {0}, number : 0..MaxNumber, state : States,
             blocked : BOOLEAN, closed : BOOLEAN, body : Requests \union {None, "first"}]

View(q) ==
    LET of(n) == [name |-> n, version |-> req[q].seen.version,
                  content |-> Content(req[q].seen)] IN
    CASE req[q].pc \in {"page", "write"} -> of(Ask[q].on)
      [] req[q].pc \in {"count", "close"} -> of(Parent[req[q].child])
      [] OTHER -> None

Optimistic == INSTANCE VersionedRows
    WITH Writers <- Requests, Nothing <- Absent, NoView <- None,
         row <- [n \in Rows |-> [version |-> row[n].version, content |-> Content(row[n])]],
         view <- [q \in Requests |-> View(q)]

\* No update is lost, of an issue or of a comment, by a user, by the daemon
\* or by the automatic closing of an epic: whoever replaces a row replaces
\* exactly what it had read, whatever was committed between its read and its
\* write (docs/invariants.md, invariant 12).
NoLostUpdate == Optimistic!Spec

Handled(q) == req[q].pc \notin {"idle", "page", "done"}

\* Why an epic p may stay open although its children are closed: the request
\* that closed the last one raced twice, was lost or could not record its
\* event, or closed it as an epic whose event it could not record; a child was
\* deleted (an open one, or the last one between its close and the look at its
\* parent); or a user reopened the epic.
LeftOpen(p, q) ==
    LET c == req[q].child IN
    /\ req[q].wrote
    /\ \/ c # None /\ Parent[c] = p /\ req[q].end \in {"raced", "lost", "error"}
       \/ /\ q \in EventFails /\ req[q].attempt = 2
          /\ c # None /\ Parent[c] # None /\ Parent[Parent[c]] = p
       \/ Ask[q].op = "delete" /\ Ask[q].on \in Issues /\ Parent[Ask[q].on] = p
       \/ Ask[q].op \in Moves /\ Ask[q].on = p /\ req[q].seen.closed

\* An epic closes with its last child, however the closings of the children,
\* edits of the epic and its block by the daemon interleave, and so does the
\* epic's own parent: once no request is being handled, an epic with children
\* and no open one is closed, unless one of the accidents above happened
\* (maybeAutoCloseParent: count after the own write, retry once).
EpicClosesWithLastChild ==
    (\A q \in Requests : ~Handled(q)) =>
        \A p \in Issues :
            row[p].exists /\ Children(p) # {} /\ OpenChildren(p) = {} =>
                row[p].closed \/ \E q \in Requests : LeftOpen(p, q)

\* An epic is never closed over a child that was open all along: a closed
\* issue has an open child only if a user closed the issue, created the child
\* or reopened it, the last two possibly between the count and the close.
OpenChildKeepsEpicOpen ==
    \A p \in Issues : row[p].exists /\ row[p].closed =>
        \A c \in OpenChildren(p) : \E q \in Requests :
            /\ req[q].wrote
            /\ \/ Ask[q].op \in Moves /\ Ask[q].on = p /\ req[q].to \in Terminal
               \/ Ask[q].op = "create" /\ Ask[q].on = c
               \/ Ask[q].op \in Moves /\ Ask[q].on = c /\ req[q].seen.closed

\* The numbers of an issue's comments have no gap, whatever creations race,
\* compute one number, fail or are lost, and whatever is erased: a creation
\* takes the number after the last it has seen in the table, and a comment,
\* erased or not, keeps its row and its number (issue-comment.ts, create).
CommentsNumberedInTurn ==
    \A j \in Numbers(Comments), k \in 1..MaxNumber :
        k < j => k \in Numbers(Comments)

\* Every body a comment ever had, and no longer shows, is in the audit trail,
\* in whatever order edits and deletions of the comment commit (softDelete
\* captures the body before it clears it).
CommentTrailComplete ==
    \A c \in Comments :
        LET written == {q \in Requests : /\ Ask[q].op = "edit" /\ Ask[q].on = c
                                         /\ req[q].wrote} IN
        row[c].version > 0 =>
            written \union {"first"} \subseteq trail[c] \union {row[c].body}

===============================================================================
