------------------------- MODULE IssueLifecycle_proofs -------------------------
(***************************************************************************)
(* Issues and comments for every set of rows, requests and numbers: the    *)
(* comments' numbers have no gap, no update is lost, no body of a comment  *)
(* vanishes from its trail.                                                *)
(*                                                                         *)
(* A request holds the row it has read; the row in the table has the same  *)
(* version only if it is still that row.  This (SeenInv) is what makes     *)
(* "UPDATE ... WHERE version = ?" optimistic concurrency, and it needs the *)
(* versions to grow, and a row deleted never to come back, which TypeInv   *)
(* says of the rows and of what the requests hold.                         *)
(*                                                                         *)
(* Of epics: none is closed over a child that was open all along, and none *)
(* is forgotten.  Every issue that is open or closed against its children  *)
(* has a request that answers for it (OpenInv, EpicInv): one on its way to *)
(* the issue, or one that is done and says why.                            *)
(***************************************************************************)
EXTENDS IssueLifecycle, TLAPS

\* A row that was never inserted is blank; one in the table has been.
RowOK(r) ==
    /\ r.version = 0 => r = Absent
    /\ r.exists => r.version >= 1
    /\ r.number <= MaxNumber

Viewing == {"page", "write"}
Closing == {"count", "close"}

RequestOK(q) ==
    LET r == req[q] IN
    /\ r.pc = "page" => Ask[q].op \in PageOps
    /\ r.pc \in Viewing =>
          /\ r.seen.version >= 1
          /\ Ask[q].op \in PageOps \union {"block"}
          /\ r.seen.version <= row[Ask[q].on].version
    /\ r.pc = "ascend" => r.child \in Issues
    /\ r.pc \in {"read"} \union Closing => r.child \in Issues /\ Parent[r.child] # None
    /\ r.pc \in Closing =>
          r.seen.version >= 1 /\ r.seen.version <= row[Parent[r.child]].version
    /\ r.pc = "insert" =>
          /\ r.seen.exists /\ r.seen.version = 1 /\ r.seen.number \in 1..MaxNumber
          /\ r.seen.body = "first" /\ Ask[q].op = "create"

RowsInv == \A n \in Rows : RowOK(row[n])
RequestsInv == \A q \in Requests : RequestOK(q)

TypeInv == TypeOK /\ RowsInv /\ RequestsInv

-------------------------------------------------------------------------------
(* Types. *)

LEMMA Constant ==
    /\ MaxNumber \in Nat /\ 1 \in States /\ Terminal \subseteq States
    /\ None \notin Issues /\ Issues \subseteq Rows /\ Comments \subseteq Rows
    /\ \A p \in Issues : Parent[p] # None => Parent[p] \in Issues
    /\ \A q \in Requests :
          /\ Ask[q].op \in Ops /\ Ask[q].on \in Rows /\ Ask[q].to \in States
          /\ Ask[q].op \in Moves \union {"fields", "block", "delete"} => Ask[q].on \in Issues
          /\ Ask[q].op \in {"edit", "erase"} => Ask[q].on \in Comments
<1>1. \A q \in Requests : Ask[q] \in [op : Ops, on : Rows, to : States]
  BY IssueAssumption
<1>2. \A p \in Issues : Parent[p] \in Issues \union {None}
  BY IssueAssumption
<1> QED BY <1>1, <1>2, IssueAssumption DEF Rows

LEMMA SetVersion ==
    ASSUME NEW r \in Row, NEW v \in Nat
    PROVE  LET x == [r EXCEPT !.version = v] IN
           x \in Row /\ x.version = v /\ x.exists = r.exists /\ x.number = r.number
BY DEF Row

LEMMA EndTypes ==
    ASSUME TypeOK, NEW q \in Requests, NEW how \in {"ok", "error", "raced", "lost"},
           End(q, how)
    PROVE  /\ req' \in [Requests -> Request]
           /\ req'[q].pc = "done" /\ \A p \in Requests \ {q} : req'[p] = req[p]
           /\ req'[q].seen = req[q].seen /\ req'[q].wrote = req[q].wrote
<1> DEFINE r == [req[q] EXCEPT !.pc = "done", !.end = how]
<1>1. req[q] \in Request /\ req \in [Requests -> Request]
  BY DEF TypeOK
<1>2. r \in Request /\ r.pc = "done" /\ r.seen = req[q].seen /\ r.wrote = req[q].wrote
  BY <1>1 DEF Request
<1>3. req' = [req EXCEPT ![q] = r]
  BY <1>1 DEF End
<1> HIDE DEF r
<1> QED BY <1>1, <1>2, <1>3

LEMMA Put ==
    ASSUME TypeOK, NEW q \in Requests, NEW r \in Request, req' = [req EXCEPT ![q] = r]
    PROVE  /\ req' \in [Requests -> Request] /\ req'[q] = r
           /\ \A p \in Requests \ {q} : req'[p] = req[p]
BY DEF TypeOK

LEMMA FirstStates ==
    ASSUME TypeOK
    PROVE  /\ ClosingState \subseteq States \intersect Terminal
           /\ OpeningState \subseteq States
           /\ \A q \in Requests : Target(q) \subseteq States
<1>1. /\ ClosingState \subseteq States \intersect Terminal /\ OpeningState \subseteq States
  BY DEF TypeOK, ClosingState, OpeningState, FirstState
<1> QED BY <1>1, Constant DEF Target

-------------------------------------------------------------------------------
(* What the step of one request does to that request. *)

Step(q) ==
    \/ Load(q) \/ Check(q) \/ ReadToBlock(q)
    \/ UpdateFields(q) \/ Transition(q) \/ UpdateStatus(q)
    \/ UpdateComment(q) \/ SoftDelete(q)
    \/ Number(q) \/ Insert(q) \/ Delete(q) \/ Deactivate(q)
    \/ Ascend(q) \/ ReadParent(q) \/ CountOpen(q) \/ CloseParent(q)
    \/ Vanish(q)

\* The row that a request has read, or would write, at its pc.
RowAt(pc, child, q) == IF pc \in Viewing THEN Ask[q].on ELSE Parent[child]

\* A view is taken of a row in the table, is kept, or is given up.
Views(q) ==
    LET r == req[q]
        s == req'[q]
        n == RowAt(s.pc, s.child, q) IN
    \/ /\ s.pc \in Viewing \union Closing /\ UNCHANGED row
       /\ n \in Rows /\ row[n].exists /\ s.seen = row[n]
    \/ /\ \/ r.pc \in Viewing /\ s.pc \in Viewing
          \/ r.pc \in Closing /\ s.pc \in Closing /\ s.child = r.child
       /\ s.seen = r.seen /\ UNCHANGED row
    \/ s.pc \notin Viewing \union Closing

\* What the request may rely on at its next pc, versions apart.
Stands(q) ==
    LET r == req'[q] IN
    /\ r.pc = "page" => Ask[q].op \in PageOps
    /\ r.pc \in Viewing => Ask[q].op \in PageOps \union {"block"}
    /\ r.pc = "ascend" => r.child \in Issues
    /\ r.pc \in {"read"} \union Closing => r.child \in Issues /\ Parent[r.child] # None
    /\ r.pc = "insert" =>
          /\ r.seen.exists /\ r.seen.version = 1 /\ r.seen.number \in 1..MaxNumber
          /\ r.seen.body = "first" /\ Ask[q].op = "create"
          /\ UNCHANGED row
          /\ r.seen.number - 1 \in Numbers(Table(Ask[q].on)) \union {0}

Moved(q) ==
    /\ req' \in [Requests -> Request] /\ \A p \in Requests \ {q} : req'[p] = req[p]
    /\ Views(q) /\ Stands(q)

LEMMA EndMoves ==
    ASSUME TypeOK, NEW q \in Requests, NEW how \in {"ok", "error", "raced", "lost"},
           End(q, how)
    PROVE  Moved(q)
BY EndTypes DEF Moved, Views, Stands, Viewing, Closing

LEMMA RestMoves ==
    ASSUME TypeOK, NEW q \in Requests, NEW r \in Request,
           req' = [req EXCEPT ![q] = r], r.pc = "done"
    PROVE  Moved(q)
BY Put DEF Moved, Views, Stands, Viewing, Closing

LEMMA PageMoves ==
    ASSUME TypeInv, NEW q \in Requests, Load(q) \/ Check(q) \/ ReadToBlock(q)
    PROVE  Moved(q)
<1>0. /\ req[q] \in Request /\ req \in [Requests -> Request]
      /\ row[Ask[q].on] \in Row /\ Ask[q].on \in Rows
  BY Constant DEF TypeInv, TypeOK
<1>1. ASSUME Load(q) \/ ReadToBlock(q), NEW pc \in {"page", "write"}, row[Ask[q].on].exists,
             pc = "page" => Ask[q].op \in PageOps, Ask[q].op \in PageOps \union {"block"},
             req' = [req EXCEPT ![q].pc = pc, ![q].seen = row[Ask[q].on]]
      PROVE  Moved(q)
  <2> DEFINE r == [req[q] EXCEPT !.pc = pc, !.seen = row[Ask[q].on]]
  <2>1. r \in Request /\ r.pc = pc /\ r.seen = row[Ask[q].on]
    BY <1>0 DEF Request
  <2>2. req' = [req EXCEPT ![q] = r]
    BY <1>0, <1>1
  <2>3. UNCHANGED row
    BY <1>1 DEF Load, ReadToBlock
  <2> HIDE DEF r
  <2> QED BY <1>0, <1>1, <2>1, <2>2, <2>3, Put
          DEF Moved, Views, Stands, Viewing, Closing, RowAt, TypeInv
<1>2. CASE Load(q)
  BY <1>1, <1>2 DEF Load, Starts
<1>3. CASE ReadToBlock(q)
  BY <1>1, <1>3, EndMoves DEF ReadToBlock, Starts, TypeInv
<1>4. CASE Check(q)
  <2>1. ASSUME NEW s \in States, req' = [req EXCEPT ![q].pc = "write", ![q].to = s]
        PROVE  Moved(q)
    <3> DEFINE r == [req[q] EXCEPT !.pc = "write", !.to = s]
    <3>1. r \in Request /\ r.pc = "write" /\ r.seen = req[q].seen
      BY <1>0 DEF Request
    <3>2. req' = [req EXCEPT ![q] = r]
      BY <1>0, <2>1
    <3>3. req[q].pc = "page" /\ UNCHANGED row
      BY <1>4 DEF Check
    <3>4. Ask[q].op \in PageOps
      BY <3>3 DEF TypeInv, RequestsInv, RequestOK
    <3> HIDE DEF r
    <3> QED BY <3>1, <3>2, <3>3, <3>4, Put
            DEF Moved, Views, Stands, Viewing, Closing, TypeInv
  <2> QED BY <1>4, <2>1, EndMoves, FirstStates DEF Check, TypeInv
<1> QED BY <1>2, <1>3, <1>4

LEMMA RecordedMoves ==
    ASSUME TypeInv, NEW q \in Requests, NEW pc \in {"done", "ascend"},
           Ask[q].on \in Issues, Recorded(q, pc)
    PROVE  Moved(q) /\ req'[q].pc \notin Viewing \union Closing
<1>0. req[q] \in Request /\ req \in [Requests -> Request]
  BY DEF TypeInv, TypeOK
<1>1. PICK p \in {"done", "ascend"}, e \in {"ok", "error"} :
         req' = [req EXCEPT ![q].wrote = TRUE, ![q].child = Ask[q].on,
                            ![q].pc = p, ![q].end = e]
  BY DEF Recorded
<1> DEFINE r == [req[q] EXCEPT !.wrote = TRUE, !.child = Ask[q].on, !.pc = p, !.end = e]
<1>2. r \in Request /\ r.pc = p /\ r.child = Ask[q].on
  BY <1>0 DEF Request
<1>3. req' = [req EXCEPT ![q] = r]
  BY <1>0, <1>1
<1> HIDE DEF r
<1> QED BY <1>2, <1>3, Put DEF Moved, Views, Stands, Viewing, Closing, TypeInv

LEMMA WriteMoves ==
    ASSUME TypeInv, NEW q \in Requests,
           \/ UpdateFields(q) \/ Transition(q) \/ UpdateStatus(q)
           \/ UpdateComment(q) \/ SoftDelete(q)
    PROVE  Moved(q) /\ req'[q].pc \notin Viewing \union Closing
<1>0. req[q] \in Request /\ req \in [Requests -> Request] /\ TypeOK
  BY DEF TypeInv, TypeOK
<1>1. ASSUME NEW how \in {"ok", "error"}, End(q, how)
      PROVE  Moved(q) /\ req'[q].pc \notin Viewing \union Closing
  BY <1>0, <1>1, EndMoves, EndTypes DEF Viewing, Closing
<1>2. CASE UpdateFields(q) \/ Transition(q) \/ UpdateStatus(q)
  <2>1. Ask[q].on \in Issues
    BY <1>2, Constant DEF UpdateFields, Transition, UpdateStatus, At, Moves
  <2>2. End(q, "error") \/ \E pc \in {"done", "ascend"} : Recorded(q, pc)
    BY <1>2 DEF UpdateFields, Transition, UpdateStatus, Conflicts
  <2> QED BY <1>1, <2>1, <2>2, RecordedMoves
<1>3. CASE UpdateComment(q) \/ SoftDelete(q)
  <2> DEFINE r == [req[q] EXCEPT !.pc = "done", !.end = "ok", !.wrote = TRUE]
  <2>1. \/ End(q, "error")
        \/ req' = [req EXCEPT ![q].pc = "done", ![q].end = "ok", ![q].wrote = TRUE]
    BY <1>3 DEF UpdateComment, SoftDelete, Revise, Conflicts
  <2>2. r \in Request /\ r.pc = "done"
    BY <1>0 DEF Request
  <2>3. End(q, "error") \/ req' = [req EXCEPT ![q] = r]
    BY <1>0, <2>1
  <2> HIDE DEF r
  <2> QED BY <1>0, <1>1, <2>2, <2>3, RestMoves, Put DEF Viewing, Closing
<1> QED BY <1>2, <1>3

LEMMA TableMoves ==
    ASSUME TypeInv, NEW q \in Requests,
           Number(q) \/ Insert(q) \/ Delete(q) \/ Deactivate(q)
    PROVE  Moved(q) /\ req'[q].pc \notin Viewing \union Closing
<1>0. /\ req[q] \in Request /\ req \in [Requests -> Request] /\ TypeOK
      /\ row[Ask[q].on] \in Row
  BY Constant DEF TypeInv, TypeOK
<1>1. ASSUME NEW how \in {"ok", "error"}, End(q, how)
      PROVE  Moved(q) /\ req'[q].pc \notin Viewing \union Closing
  BY <1>0, <1>1, EndMoves, EndTypes DEF Viewing, Closing
<1>2. ASSUME NEW r \in Request, req' = [req EXCEPT ![q] = r], r.pc = "done"
      PROVE  Moved(q) /\ req'[q].pc \notin Viewing \union Closing
  BY <1>0, <1>2, RestMoves, Put DEF Viewing, Closing
<1>3. CASE Number(q) /\ ~End(q, "error")
  <2>1. PICK k \in 1..MaxNumber, s \in States :
           /\ IsNextNumber(k, Table(Ask[q].on))
           /\ req' = [req EXCEPT ![q].pc = "insert", ![q].seen = Fresh(k, s)]
    BY <1>0, <1>3, FirstStates, Constant DEF Number
  <2>0. Ask[q].op = "create" /\ UNCHANGED row
    BY <1>3 DEF Number, Starts
  <2>n. k - 1 \in Numbers(Table(Ask[q].on)) \union {0}
    BY <2>1 DEF IsNextNumber
  <2> DEFINE r == [req[q] EXCEPT !.pc = "insert", !.seen = Fresh(k, s)]
  <2>2. /\ Fresh(k, s) \in Row /\ Fresh(k, s).exists /\ Fresh(k, s).version = 1
        /\ Fresh(k, s).number = k /\ Fresh(k, s).body = "first"
    BY Constant DEF Fresh, Row
  <2>3. r \in Request /\ r.pc = "insert" /\ r.seen = Fresh(k, s)
    BY <1>0, <2>2 DEF Request
  <2>4. req' = [req EXCEPT ![q] = r]
    BY <1>0, <2>1
  <2> HIDE DEF r
  <2> QED BY <1>0, <2>0, <2>n, <2>2, <2>3, <2>4, Put
          DEF Moved, Views, Stands, Viewing, Closing
<1>4. CASE Insert(q)
  <2> DEFINE r == [req[q] EXCEPT !.wrote = TRUE, !.pc = "done", !.end = "ok"]
  <2>1. r \in Request /\ r.pc = "done"
    BY <1>0 DEF Request
  <2>2. End(q, "error") \/ req' = [req EXCEPT ![q] = r]
    BY <1>0, <1>4 DEF Insert
  <2> HIDE DEF r
  <2> QED BY <1>1, <1>2, <2>1, <2>2
<1>5. CASE Delete(q)
  <2> DEFINE r == [req[q] EXCEPT !.pc = "done", !.end = "ok", !.wrote = TRUE,
                                 !.seen = row[Ask[q].on]]
  <2>1. r \in Request /\ r.pc = "done"
    BY <1>0 DEF Request
  <2>2. End(q, "error") \/ req' = [req EXCEPT ![q] = r]
    BY <1>0, <1>5 DEF Delete
  <2> HIDE DEF r
  <2> QED BY <1>1, <1>2, <2>1, <2>2
<1>6. CASE Deactivate(q)
  BY <1>1, <1>6 DEF Deactivate
<1> QED BY <1>1, <1>3, <1>4, <1>5, <1>6

LEMMA ParentMoves ==
    ASSUME TypeInv, NEW q \in Requests,
           Ascend(q) \/ ReadParent(q) \/ CountOpen(q) \/ CloseParent(q) \/ Vanish(q)
    PROVE  Moved(q) /\ (CloseParent(q) => req'[q].pc \notin Viewing \union Closing)
<1>0. /\ req[q] \in Request /\ req \in [Requests -> Request] /\ TypeOK
      /\ req[q].pc = "ascend" => req[q].child \in Issues
      /\ req[q].pc \in {"read", "count", "close"} =>
            /\ req[q].child \in Issues /\ Parent[req[q].child] \in Issues
            /\ Parent[req[q].child] # None
  BY Constant DEF TypeInv, TypeOK, RequestsInv, RequestOK, Closing
<1>1. ASSUME NEW how \in {"ok", "lost", "raced"}, End(q, how)
      PROVE  Moved(q) /\ req'[q].pc \notin Viewing \union Closing
  BY <1>0, <1>1, EndMoves, EndTypes DEF Viewing, Closing
<1>2. ASSUME req[q].pc \in {"ascend", "close"}, req[q].child \in Issues,
             Parent[req[q].child] # None, NEW a \in 1..2,
             req' = [req EXCEPT ![q].pc = "read", ![q].attempt = a]
      PROVE  Moved(q) /\ req'[q].pc \notin Viewing \union Closing
  <2> DEFINE r == [req[q] EXCEPT !.pc = "read", !.attempt = a]
  <2>1. r \in Request /\ r.pc = "read" /\ r.child = req[q].child
    BY <1>0 DEF Request
  <2>2. req' = [req EXCEPT ![q] = r]
    BY <1>0, <1>2
  <2> HIDE DEF r
  <2> QED BY <1>0, <1>2, <2>1, <2>2, Put DEF Moved, Views, Stands, Viewing, Closing
<1>3. CASE Ascend(q)
  BY <1>0, <1>1, <1>2, <1>3 DEF Ascend
<1>4. CASE ReadParent(q)
  <2> DEFINE n == Parent[req[q].child]
             r == [req[q] EXCEPT !.pc = "count", !.seen = row[n]]
  <2>0. req[q].pc = "read" /\ UNCHANGED row /\ n \in Rows /\ row[n] \in Row
    BY <1>0, <1>4, Constant DEF ReadParent, TypeOK
  <2>1. CASE End(q, "ok")
    BY <1>1, <2>1, <2>0, <1>4 DEF CloseParent
  <2>2. CASE row[n].exists /\ req' = [req EXCEPT ![q].pc = "count", ![q].seen = row[n]]
    <3>1. r \in Request /\ r.pc = "count" /\ r.child = req[q].child /\ r.seen = row[n]
      BY <1>0, <2>0 DEF Request
    <3>2. req' = [req EXCEPT ![q] = r]
      BY <1>0, <2>2
    <3> HIDE DEF r
    <3> QED BY <1>0, <2>0, <2>2, <3>1, <3>2, Put
            DEF Moved, Views, Stands, Viewing, Closing, RowAt, CloseParent
  <2> QED BY <1>4, <2>1, <2>2 DEF ReadParent
<1>5. CASE CountOpen(q)
  <2> DEFINE r == [req[q] EXCEPT !.pc = "close"]
  <2>0. req[q].pc = "count" /\ UNCHANGED row
    BY <1>5 DEF CountOpen
  <2>1. r \in Request /\ r.pc = "close" /\ r.child = req[q].child /\ r.seen = req[q].seen
    BY <1>0 DEF Request
  <2>2. End(q, "ok") \/ req' = [req EXCEPT ![q] = r]
    BY <1>0, <1>5 DEF CountOpen, Goto
  <2> HIDE DEF r
  <2>3. CASE req' = [req EXCEPT ![q] = r]
    BY <1>0, <2>0, <2>1, <2>3, Put
       DEF Moved, Views, Stands, Viewing, Closing, RowAt, CloseParent
  <2> QED BY <1>1, <2>0, <2>2, <2>3 DEF CloseParent
<1>6. CASE CloseParent(q)
  <2> DEFINE n == Parent[req[q].child]
             r == [req[q] EXCEPT !.pc = "ascend", !.child = n]
  <2>0. req[q].pc = "close" /\ n \in Issues
    BY <1>0, <1>6 DEF CloseParent
  <2>1. r \in Request /\ r.pc = "ascend" /\ r.child = n
    BY <1>0, <2>0 DEF Request
  <2>2. Conflict(q) \/ req' = [req EXCEPT ![q] = r]
    BY <1>0, <1>6 DEF CloseParent
  <2>3. CASE Conflict(q)
    BY <1>0, <1>1, <1>2, <2>0, <2>3 DEF Conflict
  <2> HIDE DEF r
  <2>4. CASE req' = [req EXCEPT ![q] = r]
    BY <1>0, <2>0, <2>1, <2>4, Put DEF Moved, Views, Stands, Viewing, Closing
  <2> QED BY <2>2, <2>3, <2>4
<1>7. CASE Vanish(q)
  BY <1>1, <1>7 DEF Vanish
<1> QED BY <1>3, <1>4, <1>5, <1>6, <1>7

LEMMA StepMoves ==
    ASSUME TypeInv, NEW q \in Requests, Step(q)
    PROVE  Moved(q)
BY PageMoves, WriteMoves, TableMoves, ParentMoves DEF Step

-------------------------------------------------------------------------------
(* What the step of one request does to the rows. *)

\* One row is replaced by the request that holds its version.
Replaced(q, n, x) ==
    /\ \/ req[q].pc = "write" /\ n = Ask[q].on
       \/ req[q].pc = "close" /\ n = Parent[req[q].child] /\ n \in Issues
    /\ Matches(row[n], req[q].seen)
    /\ row' = [row EXCEPT ![n] = x]
    /\ x.version = req[q].seen.version + 1 /\ x.exists /\ x.number = row[n].number

Inserted(q) ==
    LET n == Ask[q].on IN
    /\ req[q].pc = "insert" /\ MayInsert(q, n) /\ row[n].version = 0
    /\ row' = [row EXCEPT ![n] = req[q].seen]

Deleted(q) ==
    LET n == Ask[q].on IN
    /\ Ask[q].op = "delete" /\ req[q].pc = "idle"
    /\ row' = [row EXCEPT ![n] = [Absent EXCEPT !.version = row[n].version]]

RowsMoved(q) ==
    \/ UNCHANGED row
    \/ /\ req'[q].pc \notin Viewing \union Closing
       /\ \E n \in Rows, x \in Row : Replaced(q, n, x)
    \/ Inserted(q) /\ req'[q].pc \notin Viewing \union Closing
    \/ Deleted(q) /\ req'[q].pc \notin Viewing \union Closing

LEMMA UpdateReplaces ==
    ASSUME TypeInv, NEW q \in Requests, req[q].pc = "write",
           Matches(row[Ask[q].on], req[q].seen),
           NEW new \in Row, new.exists, new.number = row[Ask[q].on].number, Update(q, new)
    PROVE  \E x \in Row : Replaced(q, Ask[q].on, x)
<1> DEFINE x == [new EXCEPT !.version = req[q].seen.version + 1]
<1>1. req[q].seen \in Row
  BY DEF TypeInv, TypeOK, Request
<1>2. req[q].seen.version \in Nat
  BY <1>1 DEF Row
<1>3. /\ x \in Row /\ x.version = req[q].seen.version + 1
      /\ x.exists = new.exists /\ x.number = new.number
  <2>1. req[q].seen.version + 1 \in Nat
    BY <1>2
  <2> QED BY <2>1, SetVersion
<1>4. row' = [row EXCEPT ![Ask[q].on] = x]
  BY DEF Update
<1> HIDE DEF x
<1> QED BY <1>3, <1>4 DEF Replaced

LEMMA WriteRows ==
    ASSUME TypeInv, NEW q \in Requests,
           \/ UpdateFields(q) \/ Transition(q) \/ UpdateStatus(q)
           \/ UpdateComment(q) \/ SoftDelete(q)
    PROVE  RowsMoved(q)
<1> DEFINE n == Ask[q].on
           r == row[n]
<1>0. r \in Row /\ n \in Rows /\ req[q] \in Request
  BY Constant DEF TypeInv, TypeOK
<1>pc. req[q].pc = "write" /\ req[q].to \in States
  BY <1>0 DEF UpdateFields, Transition, UpdateStatus, UpdateComment, SoftDelete, At, Request
<1>1. ASSUME Matches(r, req[q].seen), NEW new \in Row,
             new.exists = r.exists, new.number = r.number, Update(q, new)
      PROVE  RowsMoved(q)
  <2>1. new.exists /\ new.number = row[Ask[q].on].number
    BY <1>1 DEF Matches
  <2>2. \E x \in Row : Replaced(q, n, x)
    BY <1>1, <1>pc, <2>1, UpdateReplaces
  <2> QED BY <1>0, <2>2, WriteMoves DEF RowsMoved
<1>2. CASE UNCHANGED row
  BY <1>2 DEF RowsMoved
<1>3. CASE UpdateFields(q)
  <2> DEFINE new == [r EXCEPT !.body = q]
  <2>1. new \in Row /\ new.exists = r.exists /\ new.number = r.number
    BY <1>0 DEF Row
  <2>2. UNCHANGED row \/ (Matches(r, req[q].seen) /\ Update(q, new))
    BY <1>3 DEF UpdateFields, Conflicts
  <2> HIDE DEF new, r, n
  <2> QED BY <1>1, <1>2, <2>1, <2>2
<1>4. CASE Transition(q)
  <2> DEFINE c == req[q].to \in Terminal
             new == [r EXCEPT !.state = req[q].to, !.closed = c]
  <2>0. c \in BOOLEAN
    OBVIOUS
  <2>1. new \in Row /\ new.exists = r.exists /\ new.number = r.number
    <3> HIDE DEF c
    <3> QED BY <1>0, <1>pc, <2>0 DEF Row
  <2>2. UNCHANGED row \/ (Matches(r, req[q].seen) /\ Update(q, new))
    BY <1>4 DEF Transition, Conflicts
  <2> HIDE DEF new, r, n
  <2> QED BY <1>1, <1>2, <2>1, <2>2
<1>5. CASE UpdateStatus(q)
  <2> DEFINE new == [r EXCEPT !.blocked = TRUE]
  <2>1. new \in Row /\ new.exists = r.exists /\ new.number = r.number
    BY <1>0 DEF Row
  <2>2. UNCHANGED row \/ (Matches(r, req[q].seen) /\ Update(q, new))
    BY <1>5 DEF UpdateStatus, Conflicts
  <2> HIDE DEF new, r, n
  <2> QED BY <1>1, <1>2, <2>1, <2>2
<1>6. CASE UpdateComment(q)
  <2> DEFINE new == [r EXCEPT !.body = q]
  <2>1. new \in Row /\ new.exists = r.exists /\ new.number = r.number
    BY <1>0 DEF Row
  <2>2. UNCHANGED row \/ (Matches(r, req[q].seen) /\ Update(q, new))
    BY <1>6 DEF UpdateComment, Revise, Conflicts
  <2> HIDE DEF new, r, n
  <2> QED BY <1>1, <1>2, <2>1, <2>2
<1>7. CASE SoftDelete(q)
  <2> DEFINE new == [r EXCEPT !.body = None, !.closed = TRUE]
  <2>1. new \in Row /\ new.exists = r.exists /\ new.number = r.number
    BY <1>0 DEF Row
  <2>2. UNCHANGED row \/ (Matches(r, req[q].seen) /\ Update(q, new))
    BY <1>7 DEF SoftDelete, Revise, Conflicts
  <2> HIDE DEF new, r, n
  <2> QED BY <1>1, <1>2, <2>1, <2>2
<1> QED BY <1>3, <1>4, <1>5, <1>6, <1>7

LEMMA CloseRows ==
    ASSUME TypeInv, NEW q \in Requests, CloseParent(q)
    PROVE  RowsMoved(q)
<1> DEFINE n == Parent[req[q].child]
<1>0. /\ req[q].pc = "close" /\ n \in Issues /\ n \in Rows /\ row[n] \in Row
      /\ req[q].seen \in Row /\ row \in [Rows -> Row]
  BY Constant DEF TypeInv, TypeOK, RequestsInv, RequestOK, Closing, CloseParent, Request
<1>1. CASE UNCHANGED row
  BY <1>1 DEF RowsMoved
<1>2. ASSUME NEW s \in ClosingState, Matches(row[n], req[q].seen),
             row' = [row EXCEPT ![n] = [@ EXCEPT !.state = s, !.closed = TRUE,
                                                !.version = req[q].seen.version + 1]]
      PROVE  RowsMoved(q)
  <2> DEFINE x == [row[n] EXCEPT !.state = s, !.closed = TRUE,
                                 !.version = req[q].seen.version + 1]
  <2>1. s \in States /\ req[q].seen.version \in Nat /\ row[n].exists
    BY <1>0, <1>2, FirstStates DEF TypeInv, Row, Matches
  <2>2. /\ x \in Row /\ x.version = req[q].seen.version + 1
        /\ x.exists /\ x.number = row[n].number
    <3>1. req[q].seen.version + 1 \in Nat /\ row[n] \in Row
      BY <1>0, <2>1
    <3>2. /\ x \in Row /\ x.version = req[q].seen.version + 1
          /\ x.exists = row[n].exists /\ x.number = row[n].number
      <4> DEFINE v == req[q].seen.version + 1
                 old == row[n]
      <4>1. old \in Row /\ v \in Nat /\ s \in States
        BY <2>1, <3>1
      <4>2. x = [old EXCEPT !.state = s, !.closed = TRUE, !.version = v]
        OBVIOUS
      <4> HIDE DEF x, v, old
      <4>3. /\ x \in Row /\ x.version = v
            /\ x.exists = old.exists /\ x.number = old.number
        BY <4>1, <4>2 DEF Row
      <4> QED BY <4>3 DEF v, old
    <3> QED BY <2>1, <3>2
  <2>3. row' = [row EXCEPT ![n] = x]
    BY <1>0, <1>2
  <2> HIDE DEF x
  <2>4. Replaced(q, n, x)
    BY <1>0, <1>2, <2>2, <2>3 DEF Replaced
  <2> QED BY <1>0, <2>2, <2>4, ParentMoves DEF RowsMoved
<1> QED BY <1>1, <1>2 DEF CloseParent

LEMMA StepRows ==
    ASSUME TypeInv, NEW q \in Requests, Step(q)
    PROVE  RowsMoved(q)
<1>1. CASE UNCHANGED row
  BY <1>1 DEF RowsMoved
<1>2. CASE Insert(q)
  BY <1>1, <1>2, TableMoves DEF Insert, Inserted, RowsMoved
<1>3. CASE Delete(q)
  BY <1>1, <1>3, TableMoves DEF Delete, Deleted, RowsMoved, Starts
<1> QED BY <1>1, <1>2, <1>3, WriteRows, CloseRows
        DEF Step, Load, Check, ReadToBlock, Number, Deactivate, Ascend, ReadParent,
            CountOpen, Vanish

LEMMA OneRequest == [Next]_vars => UNCHANGED vars \/ \E q \in Requests : Step(q)
BY DEF Next, Step

\* What becomes of a row: it is kept, replaced, inserted or deleted.
LEMMA RowSteps ==
    ASSUME TypeInv, NEW q \in Requests, RowsMoved(q), NEW m \in Rows
    PROVE  \/ row'[m] = row[m]
           \/ /\ row'[m] \in Row /\ row'[m].version = row[m].version + 1 /\ row'[m].exists
              /\ row[m].exists /\ row'[m].number = row[m].number
           \/ /\ Inserted(q) /\ m = Ask[q].on /\ row[m].version = 0
              /\ row'[m] = req[q].seen
           \/ /\ Deleted(q) /\ m = Ask[q].on
              /\ row'[m] = [Absent EXCEPT !.version = row[m].version]
<1>0. row \in [Rows -> Row] /\ Ask[q].on \in Rows
  BY Constant DEF TypeInv, TypeOK
<1>1. ASSUME NEW n \in Rows, NEW x \in Row, Replaced(q, n, x)
      PROVE  \/ row'[m] = row[m]
             \/ /\ row'[m] \in Row /\ row'[m].version = row[m].version + 1 /\ row'[m].exists
                /\ row[m].exists /\ row'[m].number = row[m].number
  <2>1. /\ row' = [row EXCEPT ![n] = x] /\ row[n].exists
        /\ x.version = row[n].version + 1 /\ x.exists /\ x.number = row[n].number
    BY <1>1 DEF Replaced, Matches
  <2> QED BY <1>0, <2>1
<1>2. CASE Inserted(q)
  <2>1. row' = [row EXCEPT ![Ask[q].on] = req[q].seen] /\ row[Ask[q].on].version = 0
    BY <1>2 DEF Inserted
  <2> QED BY <1>0, <1>2, <2>1
<1>3. CASE Deleted(q)
  <2>1. row' = [row EXCEPT ![Ask[q].on] = [Absent EXCEPT !.version = row[Ask[q].on].version]]
    BY <1>3 DEF Deleted
  <2> QED BY <1>0, <1>3, <2>1
<1> QED BY <1>1, <1>2, <1>3 DEF RowsMoved

\* A row stays well-formed, and its version never falls.
LEMMA RowKept ==
    ASSUME TypeInv, NEW q \in Requests, RowsMoved(q), NEW m \in Rows
    PROVE  row'[m] \in Row /\ RowOK(row'[m]) /\ row'[m].version >= row[m].version
<1>0. /\ row[m] \in Row /\ RowOK(row[m]) /\ req[q].seen \in Row
      /\ req[q].pc = "insert" =>
            req[q].seen.exists /\ req[q].seen.version = 1 /\ req[q].seen.number \in 1..MaxNumber
  BY DEF TypeInv, TypeOK, RowsInv, RequestsInv, RequestOK, Request
<1>v. row[m].version \in Nat /\ MaxNumber \in Nat
  BY <1>0, Constant DEF Row
<1>1. CASE row'[m] = row[m]
  BY <1>0, <1>1, <1>v
<1>2. CASE /\ row'[m] \in Row /\ row'[m].version = row[m].version + 1 /\ row'[m].exists
           /\ row[m].exists /\ row'[m].number = row[m].number
  BY <1>0, <1>2, <1>v DEF RowOK
<1>3. CASE Inserted(q) /\ row[m].version = 0 /\ row'[m] = req[q].seen
  BY <1>0, <1>3, <1>v DEF RowOK, Inserted
<1>4. CASE row'[m] = [Absent EXCEPT !.version = row[m].version]
  <2> DEFINE x == [Absent EXCEPT !.version = row[m].version]
  <2>1. x \in Row /\ x.version = row[m].version /\ x.exists = FALSE /\ x.number = 0
    BY <1>v, Constant DEF Absent, Row
  <2>2. [Absent EXCEPT !.version = 0] = Absent
    <3>1. Absent \in Row /\ Absent.version = 0
      BY Constant DEF Absent, Row
    <3> QED BY <3>1 DEF Row
  <2>3. row'[m] = x /\ (row[m].version = 0 => x = Absent)
    BY <1>4, <2>2
  <2> HIDE DEF x
  <2> QED BY <1>v, <2>1, <2>3 DEF RowOK
<1> QED BY <1>1, <1>2, <1>3, <1>4, RowSteps

LEMMA SideTypes ==
    ASSUME TypeInv, NEW q \in Requests, Step(q)
    PROVE  /\ active' \subseteq States
           /\ trail' \in [Comments -> SUBSET (Requests \union {None, "first"})]
<1>0. /\ active \subseteq States
      /\ trail \in [Comments -> SUBSET (Requests \union {None, "first"})]
      /\ req[q].seen \in Row
  BY DEF TypeInv, TypeOK, Request
<1>1. CASE UNCHANGED <<active, trail>>
  BY <1>0, <1>1
<1>2. CASE Deactivate(q)
  BY <1>0, <1>2 DEF Deactivate
<1>3. CASE UpdateComment(q) \/ SoftDelete(q)
  <2>1. Captured(q) \subseteq Requests \union {None, "first"}
    BY <1>0 DEF Captured, Row
  <2>2. /\ active' = active
        /\ \/ trail' = trail
           \/ trail' = [trail EXCEPT ![Ask[q].on] = @ \union Captured(q)]
    BY <1>3 DEF UpdateComment, SoftDelete, Revise, Conflicts
  <2> QED BY <1>0, <2>1, <2>2
<1> QED BY <1>1, <1>2, <1>3
        DEF Step, Load, Check, ReadToBlock, UpdateFields, Transition, UpdateStatus, Conflicts,
            Number, Insert, Delete, Ascend, ReadParent, CountOpen, CloseParent, Vanish

LEMMA RequestKept ==
    ASSUME TypeInv, NEW q \in Requests, Moved(q), RowsMoved(q), NEW p \in Requests
    PROVE  RequestOK(p)'
<1>0. /\ \A n \in Rows : row'[n].version >= row[n].version /\ row'[n] \in Row
      /\ \A n \in Rows : row[n].version \in Nat /\ RowOK(row[n])
      /\ \A n \in Rows : row'[n].version \in Nat
  BY RowKept DEF TypeInv, TypeOK, RowsInv, Row
<1>r. req[p] \in Request /\ RequestOK(p)
  BY DEF TypeInv, TypeOK, RequestsInv
<1>v. req[p].seen.version \in Nat
  <2>1. req[p].seen \in Row
    BY <1>r DEF Request
  <2> QED BY <2>1 DEF Row
<1>n. /\ Ask[p].on \in Rows
      /\ \A c \in Issues : Parent[c] # None => Parent[c] \in Rows
  BY Constant
<1>1. CASE p # q
  <2>1. req'[p] = req[p]
    BY <1>1 DEF Moved
  <2> QED BY <1>0, <1>r, <1>v, <1>n, <2>1 DEF RequestOK, Closing
<1>2. CASE p = q
  <2> SUFFICES ASSUME req'[q].pc \in Viewing \union Closing
               PROVE  LET n == RowAt(req'[q].pc, req'[q].child, q) IN
                      req'[q].seen.version >= 1 /\ req'[q].seen.version <= row'[n].version
    BY <1>2 DEF Moved, Stands, RequestOK, RowAt, Viewing, Closing
  <2> DEFINE n == RowAt(req'[q].pc, req'[q].child, q)
  <2>1. CASE row' = row /\ n \in Rows /\ row[n].exists /\ req'[q].seen = row[n]
    BY <1>0, <2>1 DEF RowOK
  <2>2. CASE /\ \/ req[q].pc \in Viewing /\ req'[q].pc \in Viewing
                \/ /\ req[q].pc \in Closing /\ req'[q].pc \in Closing
                   /\ req'[q].child = req[q].child
             /\ req'[q].seen = req[q].seen /\ row' = row
    BY <1>2, <1>r, <2>2 DEF RequestOK, RowAt, Viewing, Closing
  <2> QED BY <2>1, <2>2 DEF Moved, Views
<1> QED BY <1>1, <1>2

LEMMA TypeInvStep == TypeInv /\ [Next]_vars => TypeInv'
<1> SUFFICES ASSUME TypeInv, [Next]_vars
             PROVE  TypeInv'
  OBVIOUS
<1>1. CASE UNCHANGED vars
  BY <1>1 DEF vars, TypeInv, TypeOK, RowsInv, RequestsInv, RequestOK
<1>2. ASSUME NEW q \in Requests, Step(q)
      PROVE  TypeInv'
  <2>1. Moved(q) /\ RowsMoved(q)
    BY <1>2, StepMoves, StepRows
  <2>2. RowsInv' /\ \A m \in Rows : row'[m] \in Row
    BY <2>1, RowKept DEF RowsInv
  <2>3. row' \in [Rows -> Row]
    <3>1. \/ row' = row
          \/ \E n, x : row' = [row EXCEPT ![n] = x]
      BY <2>1 DEF RowsMoved, Replaced, Inserted, Deleted
    <3>2. row \in [Rows -> Row]
      BY DEF TypeInv, TypeOK
    <3>3. row' = [m \in Rows |-> row'[m]]
      BY <3>1, <3>2
    <3> QED BY <2>2, <3>3
  <2>4. RequestsInv'
    BY <2>1, RequestKept DEF RequestsInv
  <2>5. req' \in [Requests -> Request]
    BY <2>1 DEF Moved
  <2> QED BY <1>2, <2>2, <2>3, <2>4, <2>5, SideTypes DEF TypeInv, TypeOK
<1> QED BY <1>1, <1>2, OneRequest

LEMMA InitTypes == Init => TypeInv
<1> SUFFICES ASSUME Init
             PROVE  TypeInv
  OBVIOUS
<1>1. PICK S \in SUBSET Rows : FirstNumber \in [S -> 1..MaxNumber]
  BY IssueAssumption
<1>2. Absent \in Row /\ RowOK(Absent)
  BY Constant DEF Absent, Row, RowOK
<1>3. \A k \in 1..MaxNumber : Fresh(k, 1) \in Row /\ RowOK(Fresh(k, 1))
  BY Constant DEF Fresh, Row, RowOK
<1>4. row \in [Rows -> Row] /\ RowsInv
  BY <1>1, <1>2, <1>3 DEF Init, RowsInv
<1>5. NoRequest \in Request /\ NoRequest.pc = "idle"
  BY <1>2, Constant DEF NoRequest, Request
<1>6. RequestsInv /\ req \in [Requests -> Request]
  BY <1>5 DEF Init, RequestsInv, RequestOK, Viewing, Closing
<1> QED BY <1>4, <1>6 DEF Init, TypeInv, TypeOK

THEOREM TypeInvHolds == Spec => []TypeInv
BY InitTypes, TypeInvStep, PTL DEF Spec

\* Rows, requests and trails keep their types, whatever requests interleave,
\* fail half-way or vanish (issue.ts, issue-comment.ts).
THEOREM TypeCorrect == Spec => []TypeOK
<1>1. TypeInv => TypeOK
  BY DEF TypeInv
<1> QED BY <1>1, TypeInvHolds, PTL

-------------------------------------------------------------------------------
(* Numbers. *)

\* A creation holds a number whose predecessor was in the table, and is.
NumbersInv ==
    /\ CommentsNumberedInTurn
    /\ \A q \in Requests :
          req[q].pc = "insert" /\ Ask[q].on \in Comments =>
              req[q].seen.number - 1 \in Numbers(Comments) \union {0}

\* A comment keeps its number, and no comment leaves the table.
LEMMA CommentStays ==
    ASSUME TypeInv, NEW q \in Requests, RowsMoved(q), NEW m \in Comments
    PROVE  \/ (row'[m].exists <=> row[m].exists) /\ row'[m].number = row[m].number
           \/ Inserted(q) /\ m = Ask[q].on /\ ~row[m].exists /\ row'[m] = req[q].seen
<1>0. m \in Rows /\ row[m] \in Row
  BY Constant DEF TypeInv, TypeOK
<1>1. row[m].version = 0 => ~row[m].exists
  BY <1>0 DEF TypeInv, RowsInv, RowOK, Absent
<1>2. ~(Deleted(q) /\ m = Ask[q].on)
  BY Constant, IssueAssumption DEF Deleted
<1> QED BY <1>0, <1>1, <1>2, RowSteps

LEMMA NumbersStep == TypeInv /\ NumbersInv /\ [Next]_vars => NumbersInv'
<1> SUFFICES ASSUME TypeInv, NumbersInv, [Next]_vars
             PROVE  NumbersInv'
  OBVIOUS
<1>1. CASE UNCHANGED vars
  BY <1>1 DEF vars, NumbersInv, CommentsNumberedInTurn, Numbers
<1>2. ASSUME NEW q \in Requests, Step(q)
      PROVE  NumbersInv'
  <2>0. RowsMoved(q) /\ Moved(q)
    BY <1>2, StepRows, StepMoves
  <2>1. Numbers(Comments) \subseteq Numbers(Comments)'
    BY <2>0, CommentStays DEF Numbers
  <2>2. ASSUME NEW j \in Numbers(Comments)', j \notin Numbers(Comments)
        PROVE  j - 1 \in Numbers(Comments) \union {0} /\ j \in 1..MaxNumber
    <3>1. PICK m \in Comments : row'[m].exists /\ row'[m].number = j
      BY DEF Numbers
    <3>2. Inserted(q) /\ m = Ask[q].on /\ row'[m] = req[q].seen
      BY <2>0, <2>2, <3>1, CommentStays DEF Numbers
    <3>3. req[q].seen.number \in 1..MaxNumber
      BY <3>2 DEF Inserted, TypeInv, RequestsInv, RequestOK
    <3> QED BY <3>1, <3>2, <3>3 DEF Inserted, NumbersInv
  <2>3. CommentsNumberedInTurn'
    <3> SUFFICES ASSUME NEW j \in Numbers(Comments)', NEW k \in 1..MaxNumber, k < j
                 PROVE  k \in Numbers(Comments)'
      BY DEF CommentsNumberedInTurn
    <3>1. CASE j \in Numbers(Comments)
      BY <2>1, <3>1 DEF NumbersInv, CommentsNumberedInTurn
    <3>2. CASE j \notin Numbers(Comments)
      <4>1. j - 1 \in Numbers(Comments) \union {0} /\ j \in Int
        BY <2>2, <3>2
      <4>2. k = j - 1 \/ (k < j - 1 /\ j - 1 # 0)
        BY <4>1
      <4>3. j - 1 \in Numbers(Comments)
        BY <4>1, <4>2
      <4> QED BY <2>1, <4>2, <4>3 DEF NumbersInv, CommentsNumberedInTurn
    <3> QED BY <3>1, <3>2
  <2>4. ASSUME NEW p \in Requests, req'[p].pc = "insert", Ask[p].on \in Comments
        PROVE  req'[p].seen.number - 1 \in Numbers(Comments)' \union {0}
    <3>1. CASE p = q
      <4>1. Table(Ask[p].on) = Comments
        BY <2>4, IssueAssumption DEF Table
      <4> QED BY <2>0, <2>1, <2>4, <3>1, <4>1 DEF Moved, Stands
    <3>2. CASE p # q
      <4>1. req'[p] = req[p]
        BY <2>0, <3>2 DEF Moved
      <4> QED BY <2>1, <2>4, <4>1 DEF NumbersInv
    <3> QED BY <3>1, <3>2
  <2> QED BY <2>3, <2>4 DEF NumbersInv
<1> QED BY <1>1, <1>2, OneRequest

\* The comments of an issue are numbered without a gap, however many creations
\* race, fail or get lost: the number after the last that a creation has seen
\* is, when it is inserted, still one that closes up (issue-comment.ts, create).
THEOREM CommentNumbersHold == Spec => []CommentsNumberedInTurn
<1>1. Init => NumbersInv
  <2> SUFFICES ASSUME Init
               PROVE  NumbersInv
    OBVIOUS
  <2>1. \A n \in Rows : row[n].exists <=> n \in DOMAIN FirstNumber
    BY DEF Init, Absent, Fresh
  <2>2. \A n \in Rows : n \in DOMAIN FirstNumber => row[n].number = FirstNumber[n]
    BY DEF Init, Fresh
  <2>3. CommentsNumberedInTurn
    <3> SUFFICES ASSUME NEW j \in Numbers(Comments), NEW k \in 1..MaxNumber, k < j
                 PROVE  k \in Numbers(Comments)
      BY DEF CommentsNumberedInTurn
    <3>1. PICK m \in Comments : m \in DOMAIN FirstNumber /\ FirstNumber[m] = j
      BY <2>1, <2>2, Constant DEF Numbers
    <3>2. PICK n \in Comments \intersect DOMAIN FirstNumber : FirstNumber[n] = k
      BY <3>1, IssueAssumption
    <3> QED BY <2>1, <2>2, <3>2, Constant DEF Numbers
  <2>4. \A q \in Requests : req[q].pc = "idle"
    BY DEF Init, NoRequest
  <2> QED BY <2>3, <2>4 DEF NumbersInv
<1>2. NumbersInv => CommentsNumberedInTurn
  BY DEF NumbersInv
<1> QED BY <1>1, <1>2, NumbersStep, TypeInvHolds, PTL DEF Spec

-------------------------------------------------------------------------------
(* Optimistic concurrency: the requests implement VersionedRows. *)

\* The row a request has in view.
Target0(q) == RowAt(req[q].pc, req[q].child, q)

\* One version of a row has one content, as long as the row is in the table.
SeenInv ==
    \A q \in Requests :
        /\ req[q].pc \in Viewing \union Closing
        /\ Matches(row[Target0(q)], req[q].seen)
        => req[q].seen = row[Target0(q)]

LEMMA TargetRow ==
    ASSUME TypeInv, NEW q \in Requests, req[q].pc \in Viewing \union Closing
    PROVE  /\ Target0(q) \in Rows /\ req[q].seen \in Row
           /\ req[q].seen.version \in Nat /\ req[q].seen.version >= 1
           /\ req[q].seen.version <= row[Target0(q)].version
<1>1. req[q] \in Request /\ RequestOK(q)
  BY DEF TypeInv, TypeOK, RequestsInv
<1>2. Target0(q) \in Rows
  BY <1>1, Constant DEF Target0, RowAt, RequestOK
<1>3. req[q].seen \in Row
  BY <1>1 DEF Request
<1>4. req[q].seen.version \in Nat
  BY <1>3 DEF Row
<1> QED BY <1>1, <1>2, <1>3, <1>4 DEF Target0, RowAt, RequestOK

LEMMA SeenStep == TypeInv /\ SeenInv /\ [Next]_vars => SeenInv'
<1> SUFFICES ASSUME TypeInv, SeenInv, [Next]_vars
             PROVE  SeenInv'
  OBVIOUS
<1>1. CASE UNCHANGED vars
  BY <1>1 DEF vars, SeenInv, Target0
<1>2. ASSUME NEW q \in Requests, Step(q)
      PROVE  SeenInv'
  <2>0. RowsMoved(q) /\ Moved(q)
    BY <1>2, StepRows, StepMoves
  <2> SUFFICES ASSUME NEW p \in Requests, req'[p].pc \in Viewing \union Closing,
                      Matches(row'[Target0(p)'], req'[p].seen)
               PROVE  req'[p].seen = row'[Target0(p)']
    BY DEF SeenInv, Matches
  <2>1. CASE p = q
    <3>1. CASE row' = row /\ req'[q].seen = row[RowAt(req'[q].pc, req'[q].child, q)]
      BY <2>1, <3>1 DEF Target0
    <3>2. CASE /\ \/ req[q].pc \in Viewing /\ req'[q].pc \in Viewing
                  \/ /\ req[q].pc \in Closing /\ req'[q].pc \in Closing
                     /\ req'[q].child = req[q].child
               /\ req'[q].seen = req[q].seen /\ row' = row
      <4>1. Target0(q)' = Target0(q)
        BY <3>2 DEF Target0, RowAt, Viewing, Closing
      <4> QED BY <2>1, <3>2, <4>1 DEF SeenInv, Matches
    <3> QED BY <2>0, <2>1, <3>1, <3>2 DEF Moved, Views
  <2>2. CASE p # q
    <3> DEFINE n == Target0(p)
    <3>1. req'[p] = req[p] /\ Target0(p)' = n
      BY <2>0, <2>2 DEF Moved, Target0
    <3>2. /\ n \in Rows /\ req[p].seen.version \in Nat /\ req[p].seen.version >= 1
          /\ req[p].seen.version <= row[n].version
      BY <3>1, TargetRow
    <3>3. row[n].version \in Nat
      BY <3>2 DEF TypeInv, TypeOK, Row
    <3>4. row'[n].exists /\ row'[n].version = req[p].seen.version
      BY <3>1 DEF Matches
    <3>5. [Absent EXCEPT !.version = row[n].version].exists = FALSE
      BY <3>3 DEF Absent
    <3>6. row'[n] = row[n]
      <4> HIDE DEF n
      <4>1. \/ row'[n] = row[n]
            \/ row'[n].version = row[n].version + 1
            \/ row[n].version = 0
            \/ row'[n] = [Absent EXCEPT !.version = row[n].version]
        BY <2>0, <3>2, RowSteps
      <4>2. row'[n].version # row[n].version + 1 /\ row[n].version # 0
        BY <3>2, <3>3, <3>4
      <4> QED BY <3>4, <3>5, <4>1, <4>2
    <3> QED BY <3>1, <3>6 DEF SeenInv, Matches
  <2> QED BY <2>1, <2>2
<1> QED BY <1>1, <1>2, OneRequest

LEMMA SeenInvHolds == Spec => []SeenInv
<1>1. Init => SeenInv
  <2>1. NoRequest.pc = "idle"
    BY DEF NoRequest
  <2> QED BY <2>1 DEF Init, SeenInv, Viewing, Closing
<1> QED BY <1>1, SeenStep, TypeInvHolds, PTL DEF Spec

Row0 == [n \in Rows |-> [version |-> row[n].version, content |-> Content(row[n])]]
View0 == [q \in Requests |-> View(q)]

LEMMA SeeRow ==
    ASSUME NEW n \in Rows
    PROVE  Optimistic!See(n) = [name |-> n, version |-> row[n].version,
                                content |-> Content(row[n])]
BY DEF Optimistic!See

LEMMA Viewed ==
    ASSUME TypeInv, NEW q \in Requests
    PROVE  /\ req[q].pc \in Viewing \union Closing =>
                 View(q) = [name |-> Target0(q), version |-> req[q].seen.version,
                            content |-> Content(req[q].seen)]
           /\ req[q].pc \notin Viewing \union Closing => View(q) = None
BY DEF View, Viewing, Closing, Target0, RowAt

LEMMA ContentTypes ==
    ASSUME NEW r \in Row, r.exists, r.number <= MaxNumber
    PROVE  Content(r) \in Contents /\ Content(r) # Absent
<1> DEFINE x == Content(r)
<1>1. Content(r) \in Contents
  <2>1. x \in Row
    BY DEF Content, Row
  <2>2. x.exists /\ x.version = 0 /\ x.number \in 0..MaxNumber
    BY Constant DEF Content, Row
  <2> HIDE DEF x
  <2>3. x.exists \in {TRUE} /\ x.version \in {0}
    BY <2>1, <2>2 DEF Row
  <2>4. x \in Contents
    BY <2>1, <2>2, <2>3 DEF Contents, Row
  <2> QED BY <2>4 DEF x
<1>2. Content(r).exists = TRUE /\ Absent.exists = FALSE
  BY DEF Content, Row, Absent
<1> QED BY <1>1, <1>2

\* A write of one row is a write of its version and its content.
LEMMA RowWritten ==
    ASSUME TypeInv, NEW n \in Rows, NEW x, row' = [row EXCEPT ![n] = x]
    PROVE  Row0' = [Row0 EXCEPT ![n] = [version |-> x.version, content |-> Content(x)]]
BY DEF TypeInv, TypeOK, Row0

\* Every step is one of VersionedRows or none.
LEMMA VersionedStep ==
    TypeInv /\ TypeInv' /\ SeenInv /\ [Next]_vars => [Optimistic!Next]_<<Row0, View0>>
<1> SUFFICES ASSUME TypeInv, TypeInv', SeenInv, [Next]_vars
             PROVE  Optimistic!Next \/ UNCHANGED <<Row0, View0>>
  OBVIOUS
<1>0. row \in [Rows -> Row] /\ req \in [Requests -> Request]
  BY DEF TypeInv, TypeOK
<1>1. CASE UNCHANGED vars
  BY <1>1 DEF vars, Row0, View0, View
<1>2. ASSUME NEW q \in Requests, Step(q)
      PROVE  Optimistic!Next \/ UNCHANGED <<Row0, View0>>
  <2>0. Moved(q) /\ RowsMoved(q)
    BY <1>2, StepMoves, StepRows
  <2>1. View0' = [View0 EXCEPT ![q] = View(q)']
    BY <2>0 DEF Moved, View0, View
  <2>2. req'[q].pc \notin Viewing \union Closing => View(q)' = None
    BY DEF View, Viewing, Closing
  <2>3. ASSUME UNCHANGED row
        PROVE  Optimistic!Next \/ UNCHANGED <<Row0, View0>>
    <3>0. UNCHANGED Row0
      BY <2>3 DEF Row0
    <3>1. CASE /\ req'[q].pc \in Viewing \union Closing
               /\ RowAt(req'[q].pc, req'[q].child, q) \in Rows
               /\ req'[q].seen = row[RowAt(req'[q].pc, req'[q].child, q)]
      <4> DEFINE n == RowAt(req'[q].pc, req'[q].child, q)
      <4>1. View(q)' = [name |-> n, version |-> req'[q].seen.version,
                        content |-> Content(req'[q].seen)]
        BY <3>1 DEF View, Viewing, Closing, RowAt, Content
      <4> HIDE DEF n
      <4>2. View(q)' = Optimistic!See(n)
        BY <3>1, <4>1, SeeRow DEF n
      <4>3. n \in Rows /\ Optimistic!Look(q, n)
        BY <2>1, <3>0, <3>1, <4>2 DEF Optimistic!Look, View0, Row0, n
      <4> QED BY <4>3 DEF Optimistic!Next
    <3>2. CASE /\ \/ req[q].pc \in Viewing /\ req'[q].pc \in Viewing
                  \/ /\ req[q].pc \in Closing /\ req'[q].pc \in Closing
                     /\ req'[q].child = req[q].child
               /\ req'[q].seen = req[q].seen
      <4>1. View(q)' = View(q)
        BY <3>2 DEF View, Viewing, Closing, Content
      <4> QED BY <2>1, <3>0, <4>1 DEF View0
    <3>3. CASE req'[q].pc \notin Viewing \union Closing
      <4>1. Optimistic!GiveUp(q)
        BY <2>1, <2>2, <3>0, <3>3 DEF Optimistic!GiveUp, View0, Row0
      <4> QED BY <4>1 DEF Optimistic!Next
    <3> QED BY <2>0, <3>1, <3>2, <3>3 DEF Moved, Views
  <2>4. ASSUME NEW n \in Rows, NEW x \in Row, Replaced(q, n, x),
               req'[q].pc \notin Viewing \union Closing
        PROVE  Optimistic!Replace(q, n)
    <3>1. /\ req[q].pc \in Viewing \union Closing /\ n = Target0(q)
          /\ Matches(row[n], req[q].seen)
          /\ row' = [row EXCEPT ![n] = x] /\ x.version = req[q].seen.version + 1 /\ x.exists
      BY <2>4 DEF Replaced, Target0, RowAt, Viewing, Closing
    <3>2. req[q].seen = row[n]
      BY <3>1 DEF SeenInv
    <3>3. View(q) = Optimistic!See(n)
      BY <3>1, <3>2, Viewed, SeeRow
    <3>4. x.number <= MaxNumber /\ row[n].number <= MaxNumber /\ row[n] \in Row /\ row[n].exists
      <4>1. x.number = row[n].number
        BY <2>4 DEF Replaced
      <4> QED BY <3>1, <4>1 DEF TypeInv, TypeOK, RowsInv, RowOK, Matches
    <3>5. Content(x) \in Contents /\ Content(row[n]) # Absent
      BY <3>1, <3>4, ContentTypes
    <3>6. Row0' = [Row0 EXCEPT ![n] = [version |-> row[n].version + 1, content |-> Content(x)]]
      <4>1. Row0' = [Row0 EXCEPT ![n] = [version |-> x.version, content |-> Content(x)]]
        BY <3>1, RowWritten
      <4>2. x.version = row[n].version + 1
        BY <3>1, <3>2
      <4> QED BY <4>1, <4>2
    <3>7. /\ Row0'[n].content = Content(x)
          /\ Row0[n].version = row[n].version /\ Row0[n].content = Content(row[n])
      BY <3>6 DEF Row0
    <3>8. View0' = [View0 EXCEPT ![q] = None] /\ View0[q] = Optimistic!See(n)
      BY <2>1, <2>2, <2>4, <3>3 DEF View0
    <3> QED BY <3>5, <3>6, <3>7, <3>8 DEF Optimistic!Replace, Row0, View0
  <2>5. ASSUME req[q].pc \notin Viewing \union Closing, req'[q].pc \notin Viewing \union Closing
        PROVE  UNCHANGED View0
    BY <2>1, <2>2, <2>5, Viewed DEF View0
  <2>6. ASSUME Inserted(q), req'[q].pc \notin Viewing \union Closing
        PROVE  Optimistic!Insert(Ask[q].on) /\ Ask[q].on \in Rows
    <3> DEFINE n == Ask[q].on
               x == req[q].seen
    <3>1. /\ req[q].pc = "insert" /\ n \in Rows /\ row[n].version = 0
          /\ row' = [row EXCEPT ![n] = x]
      BY <2>6, Constant DEF Inserted
    <3>2. /\ x \in Row /\ x.exists /\ x.version = 1 /\ x.number <= MaxNumber
          /\ row[n] = Absent
      <4>1. x \in Row /\ x.exists /\ x.version = 1 /\ x.number \in 1..MaxNumber
        BY <1>0, <3>1 DEF Request, TypeInv, RequestsInv, RequestOK
      <4>2. row[n] = Absent
        BY <3>1 DEF TypeInv, RowsInv, RowOK
      <4> QED BY <4>1, <4>2, Constant
    <3>3. Content(Absent) = Absent
      <4>1. Absent \in Row /\ Absent.version = 0
        BY Constant DEF Absent, Row
      <4> QED BY <4>1 DEF Content, Row
    <3> HIDE DEF x, n
    <3>4. Row0' = [Row0 EXCEPT ![n] = [version |-> 1, content |-> Content(x)]]
      <4>1. Row0' = [Row0 EXCEPT ![n] = [version |-> x.version, content |-> Content(x)]]
        BY <3>1, RowWritten
      <4> QED BY <4>1, <3>2
    <3>5. Row0[n] = [version |-> 0, content |-> Absent] /\ Row0'[n].content = Content(x)
      BY <3>1, <3>2, <3>3, <3>4 DEF Row0
    <3>6. Content(x) \in Contents
      BY <3>2, ContentTypes
    <3>7. UNCHANGED View0
      BY <2>5, <2>6, <3>1 DEF Viewing, Closing
    <3>8. Optimistic!Insert(n)
      BY <3>4, <3>5, <3>6, <3>7 DEF Optimistic!Insert, Row0, View0
    <3> QED BY <3>1, <3>8 DEF n
  <2>7. ASSUME Deleted(q), req'[q].pc \notin Viewing \union Closing
        PROVE  Optimistic!Delete(Ask[q].on) /\ Ask[q].on \in Rows
    <3> DEFINE n == Ask[q].on
               x == [Absent EXCEPT !.version = row[n].version]
    <3>1. /\ req[q].pc = "idle" /\ n \in Rows
          /\ row' = [row EXCEPT ![n] = x]
      BY <2>7, Constant DEF Deleted
    <3>2. row[n].version \in Nat
      BY <1>0, <3>1 DEF Row
    <3>3. x.version = row[n].version /\ Content(x) = Absent
      <4>1. Absent \in Row /\ Absent.version = 0
        BY Constant DEF Absent, Row
      <4> QED BY <3>2, <4>1 DEF Content, Row
    <3> HIDE DEF x, n
    <3>4. Row0' = [Row0 EXCEPT ![n] = [version |-> row[n].version, content |-> Absent]]
      BY <3>1, <3>3, RowWritten
    <3>5. [Row0 EXCEPT ![n].content = Absent]
          = [Row0 EXCEPT ![n] = [version |-> row[n].version, content |-> Absent]]
      <4>1. Row0[n] = [version |-> row[n].version, content |-> Content(row[n])]
        BY <3>1 DEF Row0
      <4>2. [Row0[n] EXCEPT !.content = Absent]
            = [version |-> row[n].version, content |-> Absent]
        BY <4>1
      <4> QED BY <4>2
    <3>6. UNCHANGED View0
      BY <2>5, <2>7, <3>1 DEF Viewing, Closing
    <3>7. Optimistic!Delete(n)
      BY <3>4, <3>5, <3>6 DEF Optimistic!Delete, Row0, View0
    <3> QED BY <3>1, <3>7 DEF n
  <2> QED BY <2>0, <2>3, <2>4, <2>6, <2>7 DEF RowsMoved, Optimistic!Next
<1> QED BY <1>1, <1>2, OneRequest

\* Whoever replaces an issue or a comment replaces exactly what it had read:
\* users, the daemon's blocks and the automatic closing of epics implement
\* VersionedRows (assertVersion and the UPDATE's own WHERE version).
THEOREM NoLostUpdateHolds == Spec => NoLostUpdate
<1>2. Init => Optimistic!Init
  <2> SUFFICES ASSUME Init
               PROVE  Optimistic!Init
    OBVIOUS
  <2>1. \A n \in Rows : row[n] = Absent \/ \E k \in 1..MaxNumber : row[n] = Fresh(k, 1)
    <3>1. PICK S \in SUBSET Rows : FirstNumber \in [S -> 1..MaxNumber]
      BY IssueAssumption
    <3> QED BY <3>1 DEF Init
  <2>2. Absent \in Row /\ Absent.version = 0
    BY Constant DEF Absent, Row
  <2>3. Content(Absent) = Absent
    BY <2>2 DEF Content, Row
  <2>4. \A k \in 1..MaxNumber : Fresh(k, 1).version = 1 /\ Content(Fresh(k, 1)) \in Contents
    <3>1. \A k \in 1..MaxNumber : /\ Fresh(k, 1) \in Row /\ Fresh(k, 1).exists
                                  /\ Fresh(k, 1).number = k /\ Fresh(k, 1).version = 1
      BY Constant DEF Fresh, Row
    <3>2. \A k \in 1..MaxNumber : k <= MaxNumber
      BY Constant
    <3> QED BY <3>1, <3>2, ContentTypes
  <2>5. Row0 \in [Rows -> [version : {0, 1}, content : Contents \union {Absent}]]
    BY <2>1, <2>2, <2>3, <2>4 DEF Row0
  <2>6. View0 = [q \in Requests |-> None]
    <3>1. \A q \in Requests : req[q].pc = "idle"
      BY DEF Init, NoRequest
    <3> QED BY <3>1, InitTypes, Viewed DEF View0, Viewing, Closing
  <2> QED BY <2>5, <2>6 DEF Optimistic!Init, Row0, View0
<1>3. TypeInv /\ TypeInv' /\ SeenInv /\ [Next]_vars
      => [Optimistic!Next]_<<[n \in Rows |-> [version |-> row[n].version,
                                              content |-> Content(row[n])]],
                             [q \in Requests |-> View(q)]>>
  BY VersionedStep DEF Row0, View0
<1> QED BY <1>2, <1>3, TypeInvHolds, SeenInvHolds, PTL
        DEF Spec, NoLostUpdate, Optimistic!Spec

-------------------------------------------------------------------------------
(* The trail of comments. *)

Written(c) == {q \in Requests : Ask[q].op = "edit" /\ Ask[q].on = c /\ req[q].wrote}

\* An edit that was written found its comment.
EditInv ==
    \A q \in Requests :
        Ask[q].op = "edit" /\ req[q].wrote => row[Ask[q].on].version >= 1

TrailInv == EditInv /\ CommentTrailComplete

\* Nothing is done to a comment.
Elsewhere(q) ==
    /\ UNCHANGED trail /\ \A c \in Comments : row'[c] = row[c]
    /\ Ask[q].op = "edit" => req'[q].wrote = req[q].wrote

\* A comment is edited or erased.
Revised(q) ==
    LET c == Ask[q].on IN
    /\ c \in Comments /\ req[q].pc = "write" /\ Matches(row[c], req[q].seen)
    /\ trail' = [trail EXCEPT ![c] = @ \union {req[q].seen.body}]
    /\ row'[c].version >= 1 /\ \A m \in Comments \ {c} : row'[m] = row[m]
    /\ Ask[q].op = "edit" => row'[c].body = q

\* A comment, or an issue, is inserted.
Entered(q) ==
    /\ UNCHANGED trail /\ req[q].pc = "insert" /\ row[Ask[q].on].version = 0
    /\ row' = [row EXCEPT ![Ask[q].on] = req[q].seen]

TrailMoved(q) == Elsewhere(q) \/ Revised(q) \/ Entered(q)

LEMMA RequestThen ==
    ASSUME TypeInv, NEW q \in Requests
    PROVE  /\ req \in [Requests -> Request] /\ row \in [Rows -> Row]
           /\ req[q] \in Request /\ req[q].seen \in Row /\ req[q].seen.version \in Nat
           /\ Ask[q].on \in Rows /\ row[Ask[q].on] \in Row
           /\ trail \in [Comments -> SUBSET (Requests \union {None, "first"})]
<1>1. /\ req \in [Requests -> Request] /\ row \in [Rows -> Row] /\ Ask[q].on \in Rows
      /\ trail \in [Comments -> SUBSET (Requests \union {None, "first"})]
  BY Constant DEF TypeInv, TypeOK
<1>2. req[q].seen \in Row
  BY <1>1 DEF Request
<1> QED BY <1>1, <1>2 DEF Row

\* An edit or a deletion of a comment.
LEMMA ReviseTrail ==
    ASSUME TypeInv, NEW q \in Requests, NEW new, req[q].pc = "write",
           Ask[q].on \in Comments, new \in Row, Ask[q].op = "edit" => new.body = q,
           Revise(q, new)
    PROVE  TrailMoved(q)
<1> DEFINE c == Ask[q].on
           v == req[q].seen.version + 1
           x == [new EXCEPT !.version = v]
<1>0. req[q].seen.version \in Nat /\ c \in Rows /\ row \in [Rows -> Row]
  BY RequestThen
<1>1. CASE UNCHANGED <<row, trail>> /\ End(q, "error")
  <2>1. req'[q].wrote = req[q].wrote
    BY <1>1, EndTypes DEF TypeInv
  <2> QED BY <1>1, <2>1 DEF TrailMoved, Elsewhere
<1>2. CASE Matches(row[c], req[q].seen) /\ Update(q, new)
           /\ trail' = [trail EXCEPT ![c] = @ \union Captured(q)]
  <2>1. row' = [row EXCEPT ![c] = x]
    BY <1>2 DEF Update
  <2>2. x.version >= 1 /\ x.body = new.body
    <3>1. v \in Nat /\ v >= 1
      BY <1>0
    <3> HIDE DEF v
    <3> QED BY <3>1 DEF Row
  <2> HIDE DEF x
  <2>3. row'[c] = x /\ \A m \in Comments \ {c} : row'[m] = row[m]
    BY <1>0, <2>1, Constant
  <2> QED BY <1>2, <2>2, <2>3 DEF TrailMoved, Revised, Captured
<1> QED BY <1>1, <1>2 DEF Revise, Conflicts

LEMMA StepTrail ==
    ASSUME TypeInv, NEW q \in Requests, Step(q)
    PROVE  TrailMoved(q)
<1>0. /\ req \in [Requests -> Request] /\ row \in [Rows -> Row]
      /\ req[q] \in Request /\ req[q].seen \in Row /\ req[q].seen.version \in Nat
      /\ Ask[q].on \in Rows /\ row[Ask[q].on] \in Row
  BY RequestThen
<1>t. TypeOK
  BY DEF TypeInv
<1>i. \A n \in Issues : n \notin Comments
  BY IssueAssumption
<1>e. ASSUME NEW how \in {"ok", "error", "raced", "lost"}, End(q, how)
      PROVE  req'[q].wrote = req[q].wrote
  BY <1>e, <1>t, EndTypes
<1>1. CASE UpdateComment(q)
  <2> DEFINE new == [row[Ask[q].on] EXCEPT !.body = q]
  <2>1. new \in Row /\ new.body = q
    BY <1>0 DEF Row
  <2>2. req[q].pc = "write" /\ Ask[q].op = "edit" /\ Revise(q, new) /\ Ask[q].on \in Comments
    BY <1>1, Constant DEF UpdateComment, At
  <2> HIDE DEF new
  <2> QED BY <2>1, <2>2, ReviseTrail
<1>2. CASE SoftDelete(q)
  <2> DEFINE new == [row[Ask[q].on] EXCEPT !.body = None, !.closed = TRUE]
  <2>1. new \in Row
    BY <1>0 DEF Row
  <2>2. req[q].pc = "write" /\ Ask[q].op = "erase" /\ Revise(q, new) /\ Ask[q].on \in Comments
    BY <1>2, Constant DEF SoftDelete, At
  <2> HIDE DEF new
  <2> QED BY <2>1, <2>2, ReviseTrail
<1>3. CASE Insert(q)
  <2>1. CASE End(q, "error") /\ UNCHANGED row
    BY <1>3, <1>e, <2>1 DEF Insert, TrailMoved, Elsewhere
  <2> QED BY <1>3, <2>1 DEF Insert, TrailMoved, Entered
<1>4. ASSUME Ask[q].op # "edit", UNCHANGED trail,
             UNCHANGED row \/ \E n \in Issues : \E x : row' = [row EXCEPT ![n] = x]
      PROVE  TrailMoved(q)
  BY <1>0, <1>4, <1>i, Constant DEF TrailMoved, Elsewhere
<1>5. CASE UpdateFields(q) \/ Transition(q) \/ UpdateStatus(q)
  <2>1. Ask[q].op \in Moves \union {"fields", "block"} /\ Ask[q].op # "edit"
    BY <1>5 DEF UpdateFields, Transition, UpdateStatus, At, Moves
  <2>2. Ask[q].on \in Issues
    BY <2>1, Constant
  <2>3. UNCHANGED trail /\ (UNCHANGED row \/ \E x : row' = [row EXCEPT ![Ask[q].on] = x])
    BY <1>5 DEF UpdateFields, Transition, UpdateStatus, Conflicts, Update
  <2> QED BY <1>4, <2>1, <2>2, <2>3
<1>6. CASE Delete(q)
  <2>1. Ask[q].op = "delete" /\ Ask[q].on \in Issues
    BY <1>6, Constant DEF Delete, Starts
  <2>2. UNCHANGED trail /\ (UNCHANGED row \/ \E x : row' = [row EXCEPT ![Ask[q].on] = x])
    BY <1>6 DEF Delete
  <2> QED BY <1>4, <2>1, <2>2
<1>7. ASSUME UNCHANGED <<row, trail>>, req'[q].wrote = req[q].wrote
      PROVE  TrailMoved(q)
  BY <1>7 DEF TrailMoved, Elsewhere
<1>8. CASE CloseParent(q)
  <2> DEFINE n == Parent[req[q].child]
  <2>1. n \in Issues
    BY <1>8, Constant DEF CloseParent, TypeInv, RequestsInv, RequestOK, Closing
  <2>2. req'[q].wrote = req[q].wrote
    <3>1. CASE Conflict(q)
      BY <1>0, <1>e, <3>1 DEF Conflict, Request
    <3>2. CASE req' = [req EXCEPT ![q].pc = "ascend", ![q].child = n]
      BY <1>0, <3>2
    <3> QED BY <1>8, <3>1, <3>2 DEF CloseParent
  <2>3. UNCHANGED trail /\ (UNCHANGED row \/ \E x : row' = [row EXCEPT ![n] = x])
    BY <1>8 DEF CloseParent
  <2>4. \A c \in Comments : row'[c] = row[c]
    BY <1>0, <1>i, <2>1, <2>3, Constant
  <2> QED BY <2>2, <2>3, <2>4 DEF TrailMoved, Elsewhere
<1>9. CASE Load(q) \/ Check(q) \/ ReadToBlock(q) \/ Number(q) \/ Deactivate(q)
  <2>1. req'[q].wrote = req[q].wrote
    <3>1. CASE Load(q)
      BY <1>0, <3>1 DEF Load
    <3>2. CASE Check(q)
      <4>1. \/ \E how \in {"ok", "error", "raced", "lost"} : End(q, how)
            \/ \E x : req' = [req EXCEPT ![q].pc = "write", ![q].to = x]
        BY <3>2 DEF Check
      <4>2. CASE \E x : req' = [req EXCEPT ![q].pc = "write", ![q].to = x]
        BY <1>0, <4>2
      <4> QED BY <1>e, <4>1, <4>2
    <3>3. CASE ReadToBlock(q)
      <4>1. \/ \E how \in {"ok", "error", "raced", "lost"} : End(q, how)
            \/ \E x : req' = [req EXCEPT ![q].pc = "write", ![q].seen = x]
        BY <3>3 DEF ReadToBlock
      <4>2. CASE \E x : req' = [req EXCEPT ![q].pc = "write", ![q].seen = x]
        BY <1>0, <4>2
      <4> QED BY <1>e, <4>1, <4>2
    <3>4. CASE Number(q)
      <4>1. CASE End(q, "error")
        BY <1>e, <4>1
      <4>2. CASE \E x : req' = [req EXCEPT ![q].pc = "insert", ![q].seen = x]
        BY <1>0, <4>2
      <4> QED BY <3>4, <4>1, <4>2 DEF Number
    <3>5. CASE Deactivate(q)
      BY <1>e, <3>5 DEF Deactivate
    <3> QED BY <1>9, <3>1, <3>2, <3>3, <3>4, <3>5
  <2> QED BY <1>7, <1>9, <2>1 DEF Load, Check, ReadToBlock, Number, Deactivate
<1>10. CASE Ascend(q) \/ ReadParent(q) \/ CountOpen(q) \/ Vanish(q)
  <2>1. req'[q].wrote = req[q].wrote
    <3>1. CASE Ascend(q)
      <4>1. \/ \E how \in {"ok", "error", "raced", "lost"} : End(q, how)
            \/ req' = [req EXCEPT ![q].pc = "read", ![q].attempt = 1]
        BY <3>1 DEF Ascend
      <4>2. CASE req' = [req EXCEPT ![q].pc = "read", ![q].attempt = 1]
        BY <1>0, <4>2
      <4> QED BY <1>e, <4>1, <4>2
    <3>2. CASE ReadParent(q)
      <4>1. \/ \E how \in {"ok", "error", "raced", "lost"} : End(q, how)
            \/ \E x : req' = [req EXCEPT ![q].pc = "count", ![q].seen = x]
        BY <3>2 DEF ReadParent
      <4>2. CASE \E x : req' = [req EXCEPT ![q].pc = "count", ![q].seen = x]
        BY <1>0, <4>2
      <4> QED BY <1>e, <4>1, <4>2
    <3>3. CASE CountOpen(q)
      <4>1. \/ \E how \in {"ok", "error", "raced", "lost"} : End(q, how)
            \/ req' = [req EXCEPT ![q].pc = "close"]
        BY <3>3 DEF CountOpen, Goto
      <4>2. CASE req' = [req EXCEPT ![q].pc = "close"]
        BY <1>0, <4>2
      <4> QED BY <1>e, <4>1, <4>2
    <3>4. CASE Vanish(q)
      BY <1>e, <3>4 DEF Vanish
    <3> QED BY <1>10, <3>1, <3>2, <3>3, <3>4
  <2> QED BY <1>7, <1>10, <2>1 DEF Ascend, ReadParent, CountOpen, Vanish
<1> QED BY <1>1, <1>2, <1>3, <1>5, <1>6, <1>8, <1>9, <1>10 DEF Step

LEMMA EditStep ==
    ASSUME TypeInv, EditInv, NEW q \in Requests, Step(q)
    PROVE  EditInv'
<1>1. RowsMoved(q) /\ Moved(q) /\ TrailMoved(q)
  BY StepRows, StepMoves, StepTrail
<1>2. \A n \in Rows : row[n].version \in Nat /\ row'[n].version >= row[n].version
                      /\ row'[n].version \in Nat
  BY <1>1, RowKept DEF TypeInv, TypeOK, Row
<1> SUFFICES ASSUME NEW p \in Requests, Ask[p].op = "edit", req'[p].wrote
             PROVE  row'[Ask[p].on].version >= 1
  BY DEF EditInv
<1>3. Ask[p].on \in Rows
  BY Constant
<1>4. CASE req[p].wrote
  BY <1>2, <1>3, <1>4 DEF EditInv
<1>5. CASE ~req[p].wrote
  <2>1. p = q
    BY <1>1, <1>5 DEF Moved
  <2>2. ~Elsewhere(q)
    BY <1>5, <2>1 DEF Elsewhere
  <2>3. ~Entered(q)
    BY <2>1 DEF Entered, TypeInv, RequestsInv, RequestOK
  <2> QED BY <1>1, <2>1, <2>2, <2>3 DEF TrailMoved, Revised
<1> QED BY <1>4, <1>5

LEMMA TrailStep ==
    ASSUME TypeInv, TypeInv', SeenInv, EditInv, CommentTrailComplete,
           NEW q \in Requests, Step(q)
    PROVE  CommentTrailComplete'
<1>0. Moved(q) /\ TrailMoved(q)
  BY StepMoves, StepTrail
<1>r. /\ row \in [Rows -> Row] /\ Ask[q].on \in Rows
      /\ trail \in [Comments -> SUBSET (Requests \union {None, "first"})]
  BY RequestThen
<1>v. \A c \in Comments : c \in Rows /\ row[c].version \in Nat
  BY <1>r, Constant DEF Row
<1> SUFFICES ASSUME NEW c \in Comments, row'[c].version > 0
             PROVE  Written(c)' \union {"first"} \subseteq trail'[c] \union {row'[c].body}
  BY DEF CommentTrailComplete, Written
<1>1. row[c].version > 0 => Written(c) \union {"first"} \subseteq trail[c] \union {row[c].body}
  BY DEF CommentTrailComplete, Written
<1>2. \A p \in Written(c)' : p \in Written(c) \/ (p = q /\ Ask[q].op = "edit" /\ Ask[q].on = c)
  BY <1>0 DEF Written, Moved
<1>3. CASE Elsewhere(q)
  <2>1. Written(c)' \subseteq Written(c)
    BY <1>2, <1>3 DEF Elsewhere, Written
  <2> QED BY <1>1, <1>3, <2>1 DEF Elsewhere
<1>4. CASE Revised(q) /\ c # Ask[q].on
  <2>1. row'[c] = row[c] /\ trail'[c] = trail[c] /\ Written(c)' \subseteq Written(c)
    BY <1>2, <1>4, <1>r DEF Revised
  <2> QED BY <1>1, <2>1
<1>5. CASE Revised(q) /\ c = Ask[q].on
  <2>1. /\ req[q].pc = "write" /\ Matches(row[c], req[q].seen)
        /\ trail'[c] = trail[c] \union {req[q].seen.body}
        /\ Ask[q].op = "edit" => row'[c].body = q
    BY <1>5, <1>r DEF Revised
  <2>2. Target0(q) = c /\ req[q].seen = row[c]
    BY <1>5, <2>1 DEF SeenInv, Target0, RowAt, Viewing, Closing
  <2>3. row[c].version > 0
    <3>1. row[c].exists => row[c].version >= 1
      BY <1>v DEF TypeInv, RowsInv, RowOK
    <3> QED BY <1>v, <2>1, <3>1 DEF Matches
  <2> QED BY <1>1, <1>2, <2>1, <2>2, <2>3
<1>6. CASE Entered(q)
  <2>1. /\ req[q].pc = "insert" /\ Ask[q].op = "create" /\ req[q].seen.body = "first"
        /\ row' = [row EXCEPT ![Ask[q].on] = req[q].seen] /\ row[Ask[q].on].version = 0
        /\ trail' = trail
    BY <1>6 DEF Entered, TypeInv, RequestsInv, RequestOK
  <2>2. Written(c)' \subseteq Written(c)
    BY <1>2, <2>1
  <2>3. CASE c = Ask[q].on
    <3>1. row'[c].body = "first" /\ row[c].version = 0
      BY <1>r, <2>1, <2>3
    <3>2. Written(c) = {}
      BY <3>1 DEF EditInv, Written
    <3> QED BY <2>2, <3>1, <3>2
  <2>4. CASE c # Ask[q].on
    <3>1. row'[c] = row[c]
      BY <1>r, <1>v, <2>1, <2>4
    <3> QED BY <1>1, <2>1, <2>2, <3>1
  <2> QED BY <2>3, <2>4
<1> QED BY <1>0, <1>3, <1>4, <1>5, <1>6 DEF TrailMoved

LEMMA TrailInvStep == TypeInv /\ TypeInv' /\ SeenInv /\ TrailInv /\ [Next]_vars => TrailInv'
<1> SUFFICES ASSUME TypeInv, TypeInv', SeenInv, TrailInv, [Next]_vars
             PROVE  TrailInv'
  OBVIOUS
<1>1. CASE UNCHANGED vars
  BY <1>1 DEF vars, TrailInv, EditInv, CommentTrailComplete
<1>2. ASSUME NEW q \in Requests, Step(q)
      PROVE  TrailInv'
  BY <1>2, EditStep, TrailStep DEF TrailInv
<1> QED BY <1>1, <1>2, OneRequest

LEMMA InitTrail == Init => TrailInv
<1> SUFFICES ASSUME Init
             PROVE  TrailInv
  OBVIOUS
<1>1. \A q \in Requests : ~req[q].wrote
  BY DEF Init, NoRequest
<1>2. \A c \in Comments : row[c].version > 0 => row[c].body = "first"
  <2>1. \A n \in Rows : row[n] = Absent \/ \E k \in 1..MaxNumber : row[n] = Fresh(k, 1)
    <3>1. PICK S \in SUBSET Rows : FirstNumber \in [S -> 1..MaxNumber]
      BY IssueAssumption
    <3> QED BY <3>1 DEF Init
  <2>2. Absent.version = 0 /\ \A k \in 1..MaxNumber : Fresh(k, 1).body = "first"
    BY DEF Absent, Fresh
  <2> QED BY <2>1, <2>2, Constant
<1> QED BY <1>1, <1>2 DEF TrailInv, EditInv, CommentTrailComplete

\* No body of a comment disappears without a trace, in whatever order edits
\* and deletions commit: the event keeps the body that the transaction has
\* read, and the comparison of versions makes that the one it overwrites
\* (issue-comment.ts, update and softDelete).
THEOREM CommentTrailHolds == Spec => []CommentTrailComplete
<1>1. TrailInv => CommentTrailComplete
  BY DEF TrailInv
<1> QED BY <1>1, InitTrail, TrailInvStep, TypeInvHolds, SeenInvHolds, PTL DEF Spec

-------------------------------------------------------------------------------
(* Epics.  What the step of one request does to the issues that are open,  *)
(* and to the request itself.                                              *)

Chase == {"ascend", "read", "count", "close"}

Same(n) == row'[n].exists = row[n].exists /\ row'[n].closed = row[n].closed

\* The request goes on to pc, with the issue c behind it; or it ends.
Becomes(q, pc, c, a) ==
    /\ req'[q].pc = pc /\ req'[q].child = c /\ req'[q].attempt = a
    /\ req'[q].wrote = req[q].wrote /\ req'[q].to = req[q].to

Stops(q, how) ==
    /\ Becomes(q, "done", req[q].child, req[q].attempt)
    /\ req'[q].end = how /\ req'[q].seen = req[q].seen

Commits(q) == req'[q].pc = "done" /\ req'[q].wrote

\* Nothing is written yet.
Prepares(q) ==
    /\ UNCHANGED row
    /\ req[q].pc \in {"idle", "page"} /\ req'[q].pc \in {"page", "write", "insert"}
    /\ req'[q].wrote = req[q].wrote
    /\ req'[q].pc = "insert" => ~req'[q].seen.closed

Refuses(q) ==
    /\ UNCHANGED row
    /\ req[q].pc \in {"idle", "page", "write", "insert"}
    /\ Stops(q, "ok") \/ Stops(q, "error")

\* A write that opens and closes no issue.
Touches(q) ==
    /\ \A n \in Issues : Same(n)
    /\ req[q].pc \in {"idle", "write", "insert"} /\ Commits(q)

\* A user moves an issue.
Shifts(q) ==
    LET n == Ask[q].on IN
    /\ req[q].pc = "write" /\ Ask[q].op \in Moves /\ n \in Issues
    /\ Matches(row[n], req[q].seen)
    /\ row'[n].exists /\ (row'[n].closed <=> req[q].to \in Terminal)
    /\ \A m \in Issues \ {n} : Same(m)
    /\ req'[q].wrote /\ req'[q].to = req[q].to /\ req'[q].child = n
    /\ req'[q].seen = req[q].seen
    /\ \/ req'[q].pc = "done" /\ req'[q].end = "error"
       \/ req[q].to \in Terminal /\ req'[q].pc = "ascend"
       \/ req[q].to \notin Terminal /\ req'[q].pc = "done"

Grows(q) ==
    LET n == Ask[q].on IN
    /\ req[q].pc = "insert" /\ Ask[q].op = "create" /\ n \in Issues
    /\ ~row[n].exists /\ row'[n].exists /\ row'[n].closed = req[q].seen.closed
    /\ Parent[n] # None => row[Parent[n]].exists
    /\ \A m \in Issues \ {n} : Same(m)
    /\ Commits(q)

Shrinks(q) ==
    LET n == Ask[q].on IN
    /\ req[q].pc = "idle" /\ Ask[q].op = "delete" /\ n \in Issues
    /\ Children(n) = {} /\ ~row'[n].exists
    /\ \A m \in Issues \ {n} : Same(m)
    /\ Commits(q)

\* The parent of a closed issue is looked for, read, its children counted.
Climbs(q) ==
    LET r == req[q]
        p == Parent[r.child] IN
    /\ UNCHANGED row
    /\ \/ /\ r.pc = "ascend"
          /\ IF row[r.child].exists /\ p # None
             THEN Becomes(q, "read", r.child, 1) ELSE Stops(q, "ok")
       \/ /\ r.pc = "read"
          /\ IF row[p].exists /\ ~row[p].closed
             THEN Becomes(q, "count", r.child, r.attempt) ELSE Stops(q, "ok")
       \/ /\ r.pc = "count"
          /\ IF HasOpen(p)
             THEN Stops(q, "ok") ELSE Becomes(q, "close", r.child, r.attempt)

Retries(q) ==
    IF req[q].attempt = 1 THEN Becomes(q, "read", req[q].child, 2) ELSE Stops(q, "raced")

\* The parent is closed, or a conflict is met.
Gathers(q) ==
    LET p == Parent[req[q].child] IN
    /\ req[q].pc = "close" /\ row[p].exists /\ row'[p].exists /\ row'[p].closed
    /\ \A m \in Issues \ {p} : Same(m)
    /\ \/ q \in EventFails /\ Retries(q)
       \/ Becomes(q, "ascend", p, req[q].attempt)

Misses(q) == req[q].pc = "close" /\ UNCHANGED row /\ Retries(q)

Vanishes(q) == UNCHANGED row /\ req[q].pc \notin {"idle", "done"} /\ Stops(q, "lost")

Fate(q) ==
    \/ Prepares(q) \/ Refuses(q) \/ Touches(q) \/ Shifts(q) \/ Grows(q) \/ Shrinks(q)
    \/ Climbs(q) \/ Gathers(q) \/ Misses(q) \/ Vanishes(q)

LEMMA Stopped ==
    ASSUME TypeInv, NEW q \in Requests, NEW how \in {"ok", "error", "raced", "lost"},
           End(q, how)
    PROVE  Stops(q, how)
<1> DEFINE r == [req[q] EXCEPT !.pc = "done", !.end = how]
<1>1. req[q] \in Request /\ req \in [Requests -> Request]
  BY RequestThen
<1>2. /\ r.pc = "done" /\ r.end = how /\ r.child = req[q].child
      /\ r.attempt = req[q].attempt /\ r.wrote = req[q].wrote /\ r.to = req[q].to
      /\ r.seen = req[q].seen
  BY <1>1 DEF Request
<1>3. req' = [req EXCEPT ![q] = r]
  BY <1>1 DEF End
<1> HIDE DEF r
<1>4. req'[q] = r
  BY <1>1, <1>3
<1> QED BY <1>2, <1>4 DEF Stops, Becomes

\* The fields of a request that goes on: to count or close, to the next
\* attempt, or to the parent of the issue that it has closed.
LEMMA GoesOn ==
    ASSUME TypeInv, NEW q \in Requests, req' = [req EXCEPT ![q].pc = "close"]
    PROVE  Becomes(q, "close", req[q].child, req[q].attempt)
<1> DEFINE r == [req[q] EXCEPT !.pc = "close"]
<1>1. req[q] \in Request /\ req \in [Requests -> Request]
  BY RequestThen
<1>2. /\ r.pc = "close" /\ r.child = req[q].child /\ r.attempt = req[q].attempt
      /\ r.wrote = req[q].wrote /\ r.to = req[q].to
  BY <1>1 DEF Request
<1>3. req' = [req EXCEPT ![q] = r]
  BY <1>1
<1> HIDE DEF r
<1> QED BY <1>1, <1>2, <1>3 DEF Becomes

LEMMA Attempts ==
    ASSUME TypeInv, NEW q \in Requests, NEW a \in 1..2,
           req' = [req EXCEPT ![q].pc = "read", ![q].attempt = a]
    PROVE  Becomes(q, "read", req[q].child, a)
<1> DEFINE r == [req[q] EXCEPT !.pc = "read", !.attempt = a]
<1>1. req[q] \in Request /\ req \in [Requests -> Request]
  BY RequestThen
<1>2. /\ r.pc = "read" /\ r.child = req[q].child /\ r.attempt = a
      /\ r.wrote = req[q].wrote /\ r.to = req[q].to
  BY <1>1 DEF Request
<1>3. req' = [req EXCEPT ![q] = r]
  BY <1>1
<1> HIDE DEF r
<1> QED BY <1>1, <1>2, <1>3 DEF Becomes

LEMMA GoesUp ==
    ASSUME TypeInv, NEW q \in Requests, NEW p \in Issues,
           req' = [req EXCEPT ![q].pc = "ascend", ![q].child = p]
    PROVE  Becomes(q, "ascend", p, req[q].attempt)
<1> DEFINE r == [req[q] EXCEPT !.pc = "ascend", !.child = p]
<1>1. req[q] \in Request /\ req \in [Requests -> Request]
  BY RequestThen
<1>2. /\ r.pc = "ascend" /\ r.child = p /\ r.attempt = req[q].attempt
      /\ r.wrote = req[q].wrote /\ r.to = req[q].to
  BY <1>1 DEF Request
<1>3. req' = [req EXCEPT ![q] = r]
  BY <1>1
<1> HIDE DEF r
<1> QED BY <1>1, <1>2, <1>3 DEF Becomes

\* The fields of a request that reads, or is to write.
LEMMA Reads ==
    ASSUME TypeInv, NEW q \in Requests, NEW pc \in {"page", "write", "insert", "count"},
           NEW x \in Row, req' = [req EXCEPT ![q].pc = pc, ![q].seen = x]
    PROVE  /\ Becomes(q, pc, req[q].child, req[q].attempt)
           /\ req'[q].seen = x
<1> DEFINE r == [req[q] EXCEPT !.pc = pc, !.seen = x]
<1>1. req[q] \in Request /\ req \in [Requests -> Request]
  BY RequestThen
<1>2. /\ r.pc = pc /\ r.child = req[q].child /\ r.attempt = req[q].attempt
      /\ r.wrote = req[q].wrote /\ r.to = req[q].to /\ r.seen = x
  BY <1>1 DEF Request
<1>3. req' = [req EXCEPT ![q] = r]
  BY <1>1
<1> HIDE DEF r
<1>4. req'[q] = r
  BY <1>1, <1>3
<1> QED BY <1>2, <1>4 DEF Becomes

LEMMA Checks ==
    ASSUME TypeInv, NEW q \in Requests, NEW s \in States,
           req' = [req EXCEPT ![q].pc = "write", ![q].to = s]
    PROVE  req'[q].pc = "write" /\ req'[q].wrote = req[q].wrote
<1> DEFINE r == [req[q] EXCEPT !.pc = "write", !.to = s]
<1>1. req[q] \in Request /\ req \in [Requests -> Request]
  BY RequestThen
<1>2. r.pc = "write" /\ r.wrote = req[q].wrote
  BY <1>1 DEF Request
<1>3. req' = [req EXCEPT ![q] = r]
  BY <1>1
<1> HIDE DEF r
<1>4. req'[q] = r
  BY <1>1, <1>3
<1> QED BY <1>2, <1>4

LEMMA Retried ==
    ASSUME TypeInv, NEW q \in Requests, Conflict(q)
    PROVE  Retries(q)
<1>2. CASE req[q].attempt = 1
  BY <1>2, Attempts DEF Conflict, Retries
<1>3. CASE req[q].attempt # 1
  BY <1>3, Stopped DEF Conflict, Retries
<1> QED BY <1>2, <1>3

LEMMA PageFate ==
    ASSUME TypeInv, NEW q \in Requests,
           Load(q) \/ Check(q) \/ ReadToBlock(q) \/ Number(q) \/ Deactivate(q)
    PROVE  Prepares(q) \/ Refuses(q)
<1>1. CASE Load(q)
  BY <1>1, RequestThen, Reads DEF Load, Starts, Prepares, Becomes
<1>2. CASE Check(q)
  <2>1. CASE End(q, "error")
    BY <1>2, <2>1, Stopped DEF Check, Refuses
  <2>2. CASE \E s \in States : req' = [req EXCEPT ![q].pc = "write", ![q].to = s]
    BY <1>2, <2>2, Checks DEF Check, Prepares
  <2> QED BY <1>2, <2>1, <2>2, FirstStates DEF Check, TypeInv
<1>3. CASE ReadToBlock(q)
  <2>1. CASE End(q, "ok")
    BY <1>3, <2>1, Stopped DEF ReadToBlock, Starts, Refuses
  <2>2. CASE req' = [req EXCEPT ![q].pc = "write", ![q].seen = row[Ask[q].on]]
    BY <1>3, <2>2, RequestThen, Reads DEF ReadToBlock, Starts, Prepares, Becomes
  <2> QED BY <1>3, <2>1, <2>2 DEF ReadToBlock
<1>4. CASE Number(q) /\ End(q, "error")
  BY <1>4, Stopped DEF Number, Starts, Refuses
<1>6. CASE Number(q) /\ ~End(q, "error")
  <2>1. PICK k \in 1..MaxNumber, s \in States :
           req' = [req EXCEPT ![q].pc = "insert", ![q].seen = Fresh(k, s)]
    BY <1>6, FirstStates, Constant DEF Number, TypeInv
  <2>2. Fresh(k, s).closed = FALSE /\ Fresh(k, s) \in Row
    BY Constant DEF Fresh, Row
  <2>3. req'[q].pc = "insert" /\ req'[q].seen = Fresh(k, s) /\ req'[q].wrote = req[q].wrote
    BY <2>1, <2>2, Reads DEF Becomes
  <2> QED BY <1>6, <2>2, <2>3 DEF Number, Starts, Prepares
<1>5. CASE Deactivate(q)
  BY <1>5, Stopped DEF Deactivate, Starts, Refuses
<1> QED BY <1>1, <1>2, <1>3, <1>4, <1>5, <1>6

LEMMA ClimbFate ==
    ASSUME TypeInv, NEW q \in Requests,
           Ascend(q) \/ ReadParent(q) \/ CountOpen(q) \/ CloseParent(q) \/ Vanish(q)
    PROVE  Climbs(q) \/ Gathers(q) \/ Misses(q) \/ Vanishes(q)
<1>0. /\ req[q] \in Request /\ req \in [Requests -> Request] /\ row \in [Rows -> Row]
      /\ req[q].attempt \in 1..2
  BY RequestThen DEF Request
<1>c. req[q].pc \in Chase => req[q].child \in Issues
  BY DEF TypeInv, RequestsInv, RequestOK, Chase, Closing
<1>p. req[q].pc \in {"read", "count", "close"} =>
         Parent[req[q].child] \in Issues /\ Parent[req[q].child] \in Rows
  <2>1. req[q].pc \in {"read", "count", "close"} =>
           req[q].child \in Issues /\ Parent[req[q].child] # None
    BY DEF TypeInv, RequestsInv, RequestOK, Closing
  <2> QED BY <2>1, Constant
<1>1. CASE Ascend(q)
  <2>1. CASE row[req[q].child].exists /\ Parent[req[q].child] # None
    <3>1. req' = [req EXCEPT ![q].pc = "read", ![q].attempt = 1]
      BY <1>1, <2>1 DEF Ascend
    <3>2. Becomes(q, "read", req[q].child, 1)
      <4>1. 1 \in 1..2
        OBVIOUS
      <4> QED BY <3>1, <4>1, Attempts
    <3> QED BY <1>1, <2>1, <3>2 DEF Ascend, Climbs
  <2> QED BY <1>1, <2>1, Stopped DEF Ascend, Climbs
<1>2. CASE ReadParent(q)
  <2> DEFINE p == Parent[req[q].child]
  <2>1. CASE row[p].exists /\ ~row[p].closed
    <3>1. req' = [req EXCEPT ![q].pc = "count", ![q].seen = row[p]]
      BY <1>2, <2>1 DEF ReadParent
    <3>2. Becomes(q, "count", req[q].child, req[q].attempt)
      <4>1. row[p] \in Row
        BY <1>0, <1>2, <1>p DEF ReadParent
      <4> QED BY <3>1, <4>1, Reads
    <3> QED BY <1>2, <2>1, <3>2 DEF ReadParent, Climbs
  <2> QED BY <1>2, <2>1, Stopped DEF ReadParent, Climbs
<1>3. CASE CountOpen(q)
  <2>1. CASE ~HasOpen(Parent[req[q].child])
    <3>1. req' = [req EXCEPT ![q].pc = "close"]
      BY <1>3, <2>1 DEF CountOpen, Goto
    <3>2. Becomes(q, "close", req[q].child, req[q].attempt)
      BY <3>1, GoesOn
    <3> QED BY <1>3, <2>1, <3>2 DEF CountOpen, Climbs
  <2> QED BY <1>3, <2>1, Stopped DEF CountOpen, Climbs
<1>4. CASE CloseParent(q)
  <2> DEFINE p == Parent[req[q].child]
             x(s) == [row[p] EXCEPT !.state = s, !.closed = TRUE,
                                    !.version = req[q].seen.version + 1]
  <2>0. req[q].pc = "close" /\ req[q].child \in Issues /\ p \in Issues /\ p \in Rows
    BY <1>4, <1>c, <1>p DEF CloseParent, Chase
  <2>1. CASE UNCHANGED row /\ Conflict(q)
    BY <2>0, <2>1, Retried DEF Misses
  <2>2. ASSUME NEW s, Matches(row[p], req[q].seen), row' = [row EXCEPT ![p] = x(s)],
               \/ q \in EventFails /\ Conflict(q)
               \/ req' = [req EXCEPT ![q].pc = "ascend", ![q].child = p]
        PROVE  Gathers(q)
    <3>1. /\ \A v : [row[p] EXCEPT !.state = s, !.closed = TRUE, !.version = v].exists
                    = row[p].exists
          /\ \A v : [row[p] EXCEPT !.state = s, !.closed = TRUE, !.version = v].closed = TRUE
      <4>1. row[p] \in Row
        BY <1>0, <2>0
      <4> QED BY <4>1 DEF Row
    <3>2. x(s).exists = row[p].exists /\ x(s).closed = TRUE
      BY <3>1
    <3> HIDE DEF x
    <3>3. row'[p] = x(s) /\ \A m \in Issues \ {p} : row'[m] = row[m]
      BY <1>0, <2>0, <2>2, Constant
    <3>4. \/ q \in EventFails /\ Retries(q)
          \/ Becomes(q, "ascend", p, req[q].attempt)
      <4>1. CASE req' = [req EXCEPT ![q].pc = "ascend", ![q].child = p]
        BY <2>0, <4>1, GoesUp
      <4> QED BY <2>2, <4>1, Retried
    <3> QED BY <2>0, <2>2, <3>2, <3>3, <3>4 DEF Gathers, Same, Matches
  <2>3. \/ UNCHANGED row /\ Conflict(q)
        \/ /\ Matches(row[p], req[q].seen)
           /\ \E s \in ClosingState : row' = [row EXCEPT ![p] = x(s)]
           /\ \/ q \in EventFails /\ Conflict(q)
              \/ req' = [req EXCEPT ![q].pc = "ascend", ![q].child = p]
    <3>1. CASE UNCHANGED row /\ Conflict(q)
      BY <3>1
    <3>2. ASSUME NEW s \in ClosingState,
                 row' = [row EXCEPT ![p] = [@ EXCEPT !.state = s, !.closed = TRUE,
                                                    !.version = req[q].seen.version + 1]]
          PROVE  row' = [row EXCEPT ![p] = x(s)]
      BY <1>0, <2>0, <3>2
    <3> QED BY <1>4, <3>1, <3>2 DEF CloseParent
  <2> HIDE DEF x, p
  <2> QED BY <2>1, <2>2, <2>3
<1>5. CASE Vanish(q)
  BY <1>5, Stopped DEF Vanish, Vanishes
<1> QED BY <1>1, <1>2, <1>3, <1>4, <1>5

\* The fields of a request that has written a row, and the event of it.
LEMMA Records ==
    ASSUME TypeInv, NEW q \in Requests, NEW pc \in {"done", "ascend"},
           Ask[q].on \in Issues, Recorded(q, pc)
    PROVE  /\ req'[q].wrote /\ req'[q].to = req[q].to /\ req'[q].child = Ask[q].on
           /\ req'[q].seen = req[q].seen
           /\ \/ req'[q].pc = "done" /\ req'[q].end = "error"
              \/ req'[q].pc = pc
<1>1. req[q] \in Request /\ req \in [Requests -> Request]
  BY RequestThen
<1>2. PICK p \in {"done", "ascend"}, e \in {"ok", "error"} :
         /\ req' = [req EXCEPT ![q].wrote = TRUE, ![q].child = Ask[q].on,
                               ![q].pc = p, ![q].end = e]
         /\ p = pc \/ (p = "done" /\ e = "error")
  BY DEF Recorded
<1> DEFINE r == [req[q] EXCEPT !.wrote = TRUE, !.child = Ask[q].on, !.pc = p, !.end = e]
<1>3. /\ r.wrote = TRUE /\ r.to = req[q].to /\ r.child = Ask[q].on
      /\ r.seen = req[q].seen /\ r.pc = p /\ r.end = e
  BY <1>1 DEF Request
<1>4. req' = [req EXCEPT ![q] = r]
  BY <1>1, <1>2
<1> HIDE DEF r
<1>5. req'[q] = r
  BY <1>1, <1>4
<1> QED BY <1>2, <1>3, <1>5

LEMMA Committed ==
    ASSUME TypeInv, NEW q \in Requests,
           \/ req' = [req EXCEPT ![q].pc = "done", ![q].end = "ok", ![q].wrote = TRUE]
           \/ req' = [req EXCEPT ![q].wrote = TRUE, ![q].pc = "done", ![q].end = "ok"]
           \/ req' = [req EXCEPT ![q].pc = "done", ![q].end = "ok", ![q].wrote = TRUE,
                                 ![q].seen = row[Ask[q].on]]
    PROVE  Commits(q)
<1> DEFINE r == [req[q] EXCEPT !.pc = "done", !.end = "ok", !.wrote = TRUE]
           s == [req[q] EXCEPT !.wrote = TRUE, !.pc = "done", !.end = "ok"]
           t == [req[q] EXCEPT !.pc = "done", !.end = "ok", !.wrote = TRUE,
                               !.seen = row[Ask[q].on]]
<1>1. req[q] \in Request /\ req \in [Requests -> Request]
  BY RequestThen
<1>2. r.pc = "done" /\ r.wrote /\ s.pc = "done" /\ s.wrote /\ t.pc = "done" /\ t.wrote
  BY <1>1 DEF Request
<1>3. \/ req' = [req EXCEPT ![q] = r]
      \/ req' = [req EXCEPT ![q] = s]
      \/ req' = [req EXCEPT ![q] = t]
  BY <1>1
<1> HIDE DEF r, s, t
<1> QED BY <1>1, <1>2, <1>3 DEF Commits

\* The version of a row apart, an update is what the handler sets.
LEMMA Updated ==
    ASSUME TypeInv, NEW q \in Requests, NEW new \in Row, Update(q, new)
    PROVE  /\ row'[Ask[q].on].exists = new.exists /\ row'[Ask[q].on].closed = new.closed
           /\ \A m \in Rows \ {Ask[q].on} : row'[m] = row[m]
<1> DEFINE v == req[q].seen.version + 1
           x == [new EXCEPT !.version = v]
<1>1. row \in [Rows -> Row] /\ Ask[q].on \in Rows
  BY RequestThen
<1>2. row' = [row EXCEPT ![Ask[q].on] = x]
  BY DEF Update
<1> HIDE DEF v
<1>3. x.exists = new.exists /\ x.closed = new.closed
  BY DEF Row
<1> HIDE DEF x
<1> QED BY <1>1, <1>2, <1>3

LEMMA WriteFate ==
    ASSUME TypeInv, NEW q \in Requests,
           UpdateFields(q) \/ Transition(q) \/ UpdateStatus(q)
    PROVE  Refuses(q) \/ Touches(q) \/ Shifts(q)
<1> DEFINE n == Ask[q].on
           r == row[n]
<1>0. r \in Row /\ n \in Rows /\ req[q].to \in States
  BY RequestThen DEF Request
<1>1. req[q].pc = "write" /\ n \in Issues
  BY Constant DEF UpdateFields, Transition, UpdateStatus, At, Moves
<1>2. CASE Conflicts(q)
  BY <1>1, <1>2, Stopped DEF Conflicts, Refuses
<1>3. ASSUME NEW new \in Row, new.exists = r.exists, new.closed = r.closed,
             Update(q, new), Recorded(q, "done")
      PROVE  Touches(q)
  <2>1. Commits(q)
    BY <1>1, <1>3, Records DEF Commits
  <2>2. \A m \in Issues : Same(m)
    BY <1>3, Updated, Constant DEF Same
  <2> QED BY <1>1, <2>1, <2>2 DEF Touches
<1>4. CASE UpdateFields(q) /\ ~Conflicts(q)
  <2> DEFINE new == [r EXCEPT !.body = q]
  <2>1. new \in Row /\ new.exists = r.exists /\ new.closed = r.closed
    BY <1>0 DEF Row
  <2>2. Update(q, new) /\ Recorded(q, "done")
    BY <1>4 DEF UpdateFields
  <2> HIDE DEF new, r, n
  <2> QED BY <1>3, <2>1, <2>2
<1>5. CASE UpdateStatus(q) /\ ~Conflicts(q)
  <2> DEFINE new == [r EXCEPT !.blocked = TRUE]
  <2>1. new \in Row /\ new.exists = r.exists /\ new.closed = r.closed
    BY <1>0 DEF Row
  <2>2. Update(q, new) /\ Recorded(q, "done")
    BY <1>5 DEF UpdateStatus
  <2> HIDE DEF new, r, n
  <2> QED BY <1>3, <2>1, <2>2
<1>6. CASE Transition(q) /\ ~Conflicts(q)
  <2> DEFINE c == req[q].to \in Terminal
             new == [r EXCEPT !.state = req[q].to, !.closed = c]
  <2>0. c \in BOOLEAN
    OBVIOUS
  <2>1. new \in Row /\ new.exists = r.exists /\ new.closed = c
    <3> HIDE DEF c
    <3> QED BY <1>0, <2>0 DEF Row
  <2>2. /\ Matches(r, req[q].seen) /\ Update(q, new) /\ Ask[q].op \in Moves
        /\ Recorded(q, IF c THEN "ascend" ELSE "done")
    BY <1>6 DEF Transition, At
  <2>3. \E pc \in {"done", "ascend"} :
           Recorded(q, pc) /\ pc = IF c THEN "ascend" ELSE "done"
    BY <2>2
  <2>4. /\ req'[q].wrote /\ req'[q].to = req[q].to /\ req'[q].child = n
        /\ req'[q].seen = req[q].seen
        /\ \/ req'[q].pc = "done" /\ req'[q].end = "error"
           \/ c /\ req'[q].pc = "ascend"
           \/ ~c /\ req'[q].pc = "done"
    <3> HIDE DEF c
    <3> QED BY <1>1, <2>3, Records
  <2>5. /\ row'[n].exists = new.exists /\ row'[n].closed = new.closed
        /\ \A m \in Rows \ {n} : row'[m] = row[m]
    <3> HIDE DEF new, c
    <3> QED BY <2>1, <2>2, Updated
  <2>6. row'[n].exists /\ (row'[n].closed <=> c)
    <3> HIDE DEF new, c
    <3> QED BY <2>0, <2>1, <2>2, <2>5 DEF Matches
  <2>7. \A m \in Issues \ {n} : Same(m)
    BY <2>5, Constant DEF Same
  <2> HIDE DEF new
  <2> QED BY <1>1, <2>2, <2>4, <2>6, <2>7 DEF Shifts
<1> QED BY <1>2, <1>4, <1>5, <1>6

LEMMA TableFate ==
    ASSUME TypeInv, NEW q \in Requests,
           UpdateComment(q) \/ SoftDelete(q) \/ Insert(q) \/ Delete(q)
    PROVE  Refuses(q) \/ Touches(q) \/ Grows(q) \/ Shrinks(q)
<1> DEFINE n == Ask[q].on
<1>0. row \in [Rows -> Row] /\ n \in Rows /\ row[n] \in Row
  BY RequestThen
<1>i. \A m \in Issues : m \notin Comments /\ m \in Rows
  BY IssueAssumption, Constant
<1>1. CASE UpdateComment(q) \/ SoftDelete(q)
  <2>1. n \in Comments /\ req[q].pc = "write"
    BY <1>1, Constant DEF UpdateComment, SoftDelete, At
  <2>2. CASE UNCHANGED row /\ End(q, "error")
    BY <2>1, <2>2, Stopped DEF Refuses
  <2>3. CASE /\ \E x : row' = [row EXCEPT ![n] = x]
             /\ req' = [req EXCEPT ![q].pc = "done", ![q].end = "ok", ![q].wrote = TRUE]
    <3>1. Commits(q)
      BY <2>3, Committed, Zenon
    <3>2. \A m \in Issues : Same(m)
      BY <1>0, <1>i, <2>1, <2>3 DEF Same
    <3> QED BY <2>1, <3>1, <3>2 DEF Touches
  <2> QED BY <1>1, <2>2, <2>3 DEF UpdateComment, SoftDelete, Revise, Conflicts, Update
<1>2. CASE Insert(q)
  <2>1. CASE UNCHANGED row /\ End(q, "error")
    BY <1>2, <2>1, Stopped DEF Refuses, Insert
  <2>2. CASE /\ MayInsert(q, n) /\ row[n].version = 0 /\ row' = [row EXCEPT ![n] = req[q].seen]
             /\ req' = [req EXCEPT ![q].wrote = TRUE, ![q].pc = "done", ![q].end = "ok"]
    <3>1. Commits(q)
      BY <2>2, Committed, Zenon
    <3>2. /\ req[q].pc = "insert" /\ Ask[q].op = "create" /\ req[q].seen.exists
      BY <1>2 DEF Insert, TypeInv, RequestsInv, RequestOK
    <3>3. ~row[n].exists
      BY <1>0, <2>2 DEF TypeInv, RowsInv, RowOK
    <3>4. row'[n] = req[q].seen /\ \A m \in Issues \ {n} : Same(m)
      BY <1>0, <1>i, <2>2 DEF Same
    <3>5. CASE n \in Issues
      BY <2>2, <3>1, <3>2, <3>3, <3>4, <3>5 DEF Grows, MayInsert
    <3>6. CASE n \notin Issues
      BY <3>1, <3>2, <3>4, <3>6 DEF Touches
    <3> QED BY <3>5, <3>6
  <2> QED BY <1>2, <2>1, <2>2 DEF Insert
<1>3. CASE Delete(q)
  <2>0. req[q].pc = "idle" /\ Ask[q].op = "delete" /\ n \in Issues
    BY <1>3, Constant DEF Delete, Starts
  <2>1. CASE UNCHANGED row /\ End(q, "error")
    BY <2>0, <2>1, Stopped DEF Refuses
  <2>2. CASE /\ Children(n) = {}
             /\ row' = [row EXCEPT ![n] = [Absent EXCEPT !.version = row[n].version]]
             /\ req' = [req EXCEPT ![q].pc = "done", ![q].end = "ok", ![q].wrote = TRUE,
                                   ![q].seen = row[n]]
    <3>1. Commits(q)
      BY <2>2, Committed, Zenon
    <3>2. ~[Absent EXCEPT !.version = row[n].version].exists
      <4>1. row[n].version \in Nat
        BY <1>0 DEF Row
      <4> QED BY <4>1 DEF Absent
    <3>3. ~row'[n].exists /\ \A m \in Issues \ {n} : Same(m)
      BY <1>0, <1>i, <2>2, <3>2 DEF Same
    <3> QED BY <2>0, <2>2, <3>1, <3>3 DEF Shrinks
  <2> QED BY <1>3, <2>0, <2>1, <2>2 DEF Delete
<1> QED BY <1>1, <1>2, <1>3

LEMMA StepFate ==
    ASSUME TypeInv, NEW q \in Requests, Step(q)
    PROVE  Fate(q)
BY PageFate, ClimbFate, WriteFate, TableFate DEF Step, Fate

-------------------------------------------------------------------------------
(* Which issues are open, and why.  What an issue owes its state to is     *)
(* read off the requests that are done, or that go on to the parent.       *)

\* A request goes on to a parent only after its own write, and a row about to
\* be inserted is open.
Marks(q) ==
    LET r == req[q] IN
    /\ r.pc \in Chase => r.wrote
    /\ r.wrote => r.pc \in Chase \union {"done"}
    /\ r.pc = "insert" => ~r.seen.closed

MarksInv == \A q \in Requests : Marks(q)

\* parent_issue_id is a foreign key.
KeyInv == \A c \in Issues : row[c].exists /\ Parent[c] # None => row[Parent[c]].exists

\* A user closed p; c was created, or opened again.
ClosedIt(p, q) ==
    req[q].wrote /\ Ask[q].op \in Moves /\ Ask[q].on = p /\ req[q].to \in Terminal

Opened(c, q) ==
    /\ req[q].wrote /\ req[q].pc = "done" /\ Ask[q].on = c
    /\ \/ Ask[q].op = "create"
       \/ Ask[q].op \in Moves /\ req[q].to \notin Terminal /\ req[q].seen.closed

\* OpenChildKeepsEpicOpen, with the requests between their count and their
\* close: what they counted has changed only by a child that was opened since.
OpenInv ==
    /\ \A p \in Issues : row[p].exists /\ row[p].closed =>
          \A c \in OpenChildren(p) : \E q \in Requests : ClosedIt(p, q) \/ Opened(c, q)
    /\ \A q \in Requests : req[q].pc = "close" =>
          \A c \in OpenChildren(Parent[req[q].child]) : \E r \in Requests : Opened(c, r)

LEMMA StepFates ==
    ASSUME TypeInv, NEW q \in Requests, Step(q)
    PROVE  /\ Fate(q) /\ req[q].pc # "done"
           /\ \A p \in Requests \ {q} : req'[p] = req[p]
<1>1. Fate(q) /\ Moved(q)
  BY StepFate, StepMoves
<1>2. req[q].pc # "done"
  BY <1>1 DEF Fate, Prepares, Refuses, Touches, Shifts, Grows, Shrinks, Climbs, Gathers,
              Misses, Vanishes
<1> QED BY <1>1, <1>2 DEF Moved

LEMMA MarksStep ==
    ASSUME TypeInv, MarksInv, NEW q \in Requests, Step(q)
    PROVE  MarksInv'
<1>1. Fate(q) /\ Marks(q) /\ \A p \in Requests \ {q} : req'[p] = req[p]
  BY StepFates DEF MarksInv
<1>2. \A p \in Requests \ {q} : Marks(p)'
  BY <1>1 DEF MarksInv, Marks
<1>3. Marks(q)'
  <2>1. CASE Prepares(q)
    BY <1>1, <2>1 DEF Prepares, Marks, Chase
  <2>2. CASE Refuses(q) \/ Vanishes(q)
    BY <1>1, <2>2 DEF Refuses, Vanishes, Stops, Becomes, Marks, Chase
  <2>3. CASE Touches(q) \/ Grows(q) \/ Shrinks(q)
    BY <2>3 DEF Touches, Grows, Shrinks, Commits, Marks, Chase
  <2>4. CASE Shifts(q)
    BY <2>4 DEF Shifts, Marks, Chase
  <2>5. CASE Climbs(q)
    BY <1>1, <2>5 DEF Climbs, Stops, Becomes, Marks, Chase
  <2>6. CASE Gathers(q) \/ Misses(q)
    BY <1>1, <2>6 DEF Gathers, Misses, Retries, Stops, Becomes, Marks, Chase
  <2> QED BY <1>1, <2>1, <2>2, <2>3, <2>4, <2>5, <2>6 DEF Fate
<1> QED BY <1>2, <1>3 DEF MarksInv

LEMMA KeyStep ==
    ASSUME TypeInv, KeyInv, NEW q \in Requests, Step(q)
    PROVE  KeyInv'
<1> SUFFICES ASSUME NEW c \in Issues, row'[c].exists, Parent[c] # None
             PROVE  row'[Parent[c]].exists
  BY DEF KeyInv
<1>1. Fate(q) /\ Parent[c] \in Issues
  BY StepFates, Constant
<1>2. ASSUME \A n \in Issues : row[n].exists => row'[n].exists, row[c].exists
      PROVE  row'[Parent[c]].exists
  BY <1>1, <1>2 DEF KeyInv
<1>3. CASE \A n \in Issues : Same(n)
  BY <1>2, <1>3 DEF Same
<1>4. CASE Shifts(q) \/ Gathers(q)
  BY <1>2, <1>4 DEF Shifts, Gathers, Same, Matches
<1>5. CASE Grows(q)
  BY <1>1, <1>2, <1>5 DEF Grows, Same
<1>6. CASE Shrinks(q)
  <2>1. c # Ask[q].on /\ row[c].exists
    BY <1>6 DEF Shrinks, Same
  <2>2. Parent[c] # Ask[q].on
    BY <1>6, <2>1 DEF Shrinks, Children
  <2> QED BY <1>1, <1>6, <2>1, <2>2 DEF Shrinks, Same, KeyInv
<1> QED BY <1>1, <1>3, <1>4, <1>5, <1>6
        DEF Fate, Prepares, Refuses, Touches, Climbs, Misses, Vanishes, Same

\* What a request has done, it has done.
LEMMA OpenedStays ==
    ASSUME TypeInv, NEW q \in Requests, Step(q), NEW c, NEW r \in Requests, Opened(c, r)
    PROVE  Opened(c, r)'
BY StepFates DEF Opened

LEMMA ClosedStays ==
    ASSUME TypeInv, MarksInv, NEW q \in Requests, Step(q),
           NEW p, NEW r \in Requests, ClosedIt(p, r)
    PROVE  ClosedIt(p, r)'
<1>1. Fate(q) /\ req[q].pc # "done" /\ \A s \in Requests \ {q} : req'[s] = req[s]
  BY StepFates
<1>2. CASE r # q
  BY <1>1, <1>2 DEF ClosedIt
<1>3. CASE r = q
  <2>1. req[q].pc \in Chase
    BY <1>1, <1>3 DEF ClosedIt, MarksInv, Marks
  <2>2. Climbs(q) \/ Gathers(q) \/ Misses(q) \/ Vanishes(q)
    BY <1>1, <2>1 DEF Fate, Prepares, Refuses, Touches, Shifts, Grows, Shrinks, Chase
  <2>3. req'[q].wrote = req[q].wrote /\ req'[q].to = req[q].to
    BY <2>2 DEF Climbs, Gathers, Misses, Vanishes, Retries, Stops, Becomes
  <2> QED BY <1>3, <2>3 DEF ClosedIt
<1> QED BY <1>2, <1>3

\* An issue opens only by its creation, or when a user opens it again.
LEMMA Opens ==
    ASSUME TypeInv, SeenInv, NEW q \in Requests, Step(q),
           NEW c \in Issues, row'[c].exists, ~row'[c].closed
    PROVE  \/ row[c].exists /\ ~row[c].closed
           \/ Opened(c, q)'
<1>1. Fate(q)
  BY StepFates
<1>2. CASE Same(c)
  BY <1>2 DEF Same
<1>3. CASE Shifts(q) /\ c = Ask[q].on /\ row[c].closed
  <2>1. req[q].seen = row[c]
    BY <1>3 DEF Shifts, SeenInv, Target0, RowAt, Viewing
  <2> QED BY <1>3, <2>1 DEF Shifts, Opened
<1>4. CASE Shifts(q) /\ c = Ask[q].on /\ ~row[c].closed
  BY <1>4 DEF Shifts, Matches
<1>5. CASE Grows(q) /\ c = Ask[q].on
  BY <1>5 DEF Grows, Commits, Opened
<1>6. CASE Shrinks(q) /\ c = Ask[q].on
  BY <1>6 DEF Shrinks
<1>7. CASE Gathers(q) /\ c = Parent[req[q].child]
  BY <1>7 DEF Gathers
<1>8. \/ Same(c) \/ (Shifts(q) /\ c = Ask[q].on) \/ (Grows(q) /\ c = Ask[q].on)
      \/ (Shrinks(q) /\ c = Ask[q].on) \/ (Gathers(q) /\ c = Parent[req[q].child])
  <2>1. CASE UNCHANGED row
    BY <2>1 DEF Same
  <2>2. CASE Touches(q)
    BY <2>2 DEF Touches
  <2>3. CASE Shifts(q)
    BY <2>3 DEF Shifts
  <2>4. CASE Grows(q)
    BY <2>4 DEF Grows
  <2>5. CASE Shrinks(q)
    BY <2>5 DEF Shrinks
  <2>6. CASE Gathers(q)
    BY <2>6 DEF Gathers
  <2> QED BY <1>1, <2>1, <2>2, <2>3, <2>4, <2>5, <2>6
          DEF Fate, Prepares, Refuses, Climbs, Misses, Vanishes
<1> QED BY <1>2, <1>3, <1>4, <1>5, <1>6, <1>7, <1>8

\* An issue closes only by a user's move, or after its children were counted.
LEMMA Closes ==
    ASSUME TypeInv, MarksInv, NEW q \in Requests, Step(q),
           NEW p \in Issues, row'[p].exists, row'[p].closed
    PROVE  \/ row[p].exists /\ row[p].closed
           \/ ClosedIt(p, q)'
           \/ req[q].pc = "close" /\ p = Parent[req[q].child]
<1>1. Fate(q)
  BY StepFates
<1>2. CASE Same(p)
  BY <1>2 DEF Same
<1>3. CASE Shifts(q) /\ p = Ask[q].on
  BY <1>3 DEF Shifts, ClosedIt
<1>4. CASE Grows(q) /\ p = Ask[q].on
  BY <1>4 DEF Grows, MarksInv, Marks
<1>5. CASE Shrinks(q)
  BY <1>5 DEF Shrinks, Same
<1>6. CASE Gathers(q)
  BY <1>6 DEF Gathers, Same
<1> QED BY <1>1, <1>2, <1>3, <1>4, <1>5, <1>6
        DEF Fate, Prepares, Refuses, Touches, Climbs, Misses, Vanishes, Shifts, Grows, Same

LEMMA OpenStep ==
    ASSUME TypeInv, SeenInv, MarksInv, OpenInv, NEW q \in Requests, Step(q)
    PROVE  OpenInv'
<1>1. Fate(q) /\ \A r \in Requests \ {q} : req'[r] = req[r]
  BY StepFates
<1>2. ASSUME NEW p \in Issues, row'[p].exists, row'[p].closed,
             NEW c \in Issues, Parent[c] = p, row'[c].exists, ~row'[c].closed
      PROVE  \E r \in Requests : ClosedIt(p, r)' \/ Opened(c, r)'
  <2>1. CASE Opened(c, q)' \/ ClosedIt(p, q)'
    BY <2>1
  <2>2. CASE row[c].exists /\ ~row[c].closed /\ row[p].exists /\ row[p].closed
    <3>1. PICK r \in Requests : ClosedIt(p, r) \/ Opened(c, r)
      BY <1>2, <2>2 DEF OpenInv, OpenChildren, Children
    <3> QED BY <3>1, OpenedStays, ClosedStays
  <2>3. CASE row[c].exists /\ ~row[c].closed /\ req[q].pc = "close" /\ p = Parent[req[q].child]
    <3>1. PICK r \in Requests : Opened(c, r)
      BY <1>2, <2>3 DEF OpenInv, OpenChildren, Children
    <3> QED BY <3>1, OpenedStays
  <2> QED BY <1>2, <2>1, <2>2, <2>3, Opens, Closes
<1>3. ASSUME NEW r \in Requests, req'[r].pc = "close",
             NEW c \in Issues, Parent[c] = Parent[req'[r].child], row'[c].exists, ~row'[c].closed
      PROVE  \E s \in Requests : Opened(c, s)'
  <2>1. CASE Opened(c, q)'
    BY <2>1
  <2>2. CASE row[c].exists /\ ~row[c].closed /\ r # q
    <3>1. PICK s \in Requests : Opened(c, s)
      BY <1>1, <1>3, <2>2 DEF OpenInv, OpenChildren, Children
    <3> QED BY <3>1, OpenedStays
  <2>3. CASE row[c].exists /\ ~row[c].closed /\ r = q
    <3>1. /\ UNCHANGED row /\ ~HasOpen(Parent[req[q].child])
          /\ req'[q].child = req[q].child
      BY <1>1, <1>3, <2>3
         DEF Fate, Prepares, Refuses, Touches, Shifts, Grows, Shrinks, Climbs, Gathers, Misses,
             Vanishes, Retries, Stops, Becomes, Commits
    <3> QED BY <1>3, <2>3, <3>1 DEF HasOpen, OpenChildren, Children
  <2> QED BY <1>3, <2>1, <2>2, <2>3, Opens
<1> QED BY <1>2, <1>3 DEF OpenInv, OpenChildren, Children, ClosedIt, Opened

-------------------------------------------------------------------------------
(* Epics close.  An epic that is open over closed children has a request   *)
(* that will look at it, or one that is done and is the reason why not.    *)

Stalled(p) ==
    row[p].exists /\ ~row[p].closed /\ Children(p) # {} /\ OpenChildren(p) = {}

Chasing(p, q) == req[q].pc \in Chase /\ Parent[req[q].child] = p

\* An epic whose event could not be recorded keeps its own parent open.
Unrecorded(p, q) ==
    LET r == req[q] IN
    /\ q \in EventFails /\ r.wrote /\ r.pc \in {"read", "count", "close", "done"}
    /\ r.attempt = 2 /\ r.child # None /\ Parent[r.child] # None
    /\ Parent[Parent[r.child]] = p

Excused(p, q) ==
    LET r == req[q] IN
    /\ r.wrote /\ r.pc = "done"
    /\ \/ r.child # None /\ Parent[r.child] = p /\ r.end \in {"raced", "lost", "error"}
       \/ Ask[q].op = "delete" /\ Ask[q].on \in Issues /\ Parent[Ask[q].on] = p
       \/ Ask[q].op \in Moves /\ Ask[q].on = p /\ r.seen.closed

Answers(p, q) == Chasing(p, q) \/ Unrecorded(p, q) \/ Excused(p, q)

DeletedIt(c, q) ==
    req[q].wrote /\ req[q].pc = "done" /\ Ask[q].op = "delete" /\ Ask[q].on = c

EpicInv ==
    /\ \A p \in Issues : Stalled(p) => \E q \in Requests : Answers(p, q)
    /\ \A q \in Requests : req[q].pc = "ascend" =>
          row[req[q].child].exists \/ \E r \in Requests : DeletedIt(req[q].child, r)

\* An epic that has someone to answer for it still has, or is closed, or has
\* an open child.
LEMMA AnswerKept ==
    ASSUME TypeInv, MarksInv, EpicInv, NEW q \in Requests, Step(q), NEW p \in Issues,
           Stalled(p), Stalled(p)'
    PROVE  \E r \in Requests : Answers(p, r)'
<1>0. /\ Fate(q) /\ req[q].pc # "done" /\ Marks(q)
      /\ \A r \in Requests \ {q} : req'[r] = req[r]
      /\ req[q].pc \in Chase => req[q].child \in Issues /\ req[q].child # None
      /\ req[q].pc \in {"read", "count", "close"} => Parent[req[q].child] # None
      /\ req[q].attempt \in 1..2
  <2>1. req[q].attempt \in 1..2
    BY RequestThen DEF Request
  <2>2. RequestOK(q)
    BY DEF TypeInv, RequestsInv
  <2> QED BY <2>1, <2>2, StepFates, Constant DEF MarksInv, RequestOK, Chase, Closing
<1>1. PICK r \in Requests : Answers(p, r)
  BY DEF EpicInv
<1>2. CASE r # q
  BY <1>0, <1>1, <1>2 DEF Answers, Chasing, Unrecorded, Excused
<1>3. CASE r = q /\ Chasing(p, q)
  <2>0. /\ req[q].pc \in Chase /\ Parent[req[q].child] = p /\ req[q].wrote
        /\ req[q].child # None
    BY <1>0, <1>3 DEF Chasing, Marks
  <2>1. CASE Becomes(q, "read", req[q].child, 1) \/ Becomes(q, "read", req[q].child, 2)
    BY <2>0, <2>1 DEF Becomes, Answers, Chasing, Chase
  <2>2. CASE Stops(q, "raced") \/ Stops(q, "lost")
    BY <2>0, <2>2 DEF Stops, Becomes, Answers, Excused
  <2>3. CASE Climbs(q) /\ req[q].pc = "ascend"
    <3>1. CASE row[req[q].child].exists
      BY <2>0, <2>1, <2>3, <3>1, Constant DEF Climbs
    <3>2. CASE \E s \in Requests : DeletedIt(req[q].child, s)
      <4>1. PICK s \in Requests : DeletedIt(req[q].child, s)
        BY <3>2
      <4>2. req'[s] = req[s]
        BY <1>0, <4>1 DEF DeletedIt
      <4> QED BY <1>0, <2>0, <4>1, <4>2 DEF DeletedIt, Answers, Excused
    <3> QED BY <2>3, <3>1, <3>2 DEF EpicInv
  <2>4. CASE Climbs(q) /\ req[q].pc = "read"
    BY <2>0, <2>4 DEF Climbs, Stalled, Becomes, Answers, Chasing, Chase
  <2>5. CASE Climbs(q) /\ req[q].pc = "count"
    BY <2>0, <2>5 DEF Climbs, Stalled, HasOpen, Becomes, Answers, Chasing, Chase
  <2>6. CASE Gathers(q)
    BY <2>0, <2>6 DEF Gathers, Stalled
  <2>7. CASE Misses(q)
    BY <2>1, <2>2, <2>7 DEF Misses, Retries
  <2>8. CASE Vanishes(q)
    BY <2>2, <2>8 DEF Vanishes
  <2> QED BY <1>0, <2>0, <2>3, <2>4, <2>5, <2>6, <2>7, <2>8
          DEF Fate, Prepares, Refuses, Touches, Shifts, Grows, Shrinks, Climbs, Chase
<1>4. CASE r = q /\ Unrecorded(p, q)
  <2>0. /\ q \in EventFails /\ req[q].wrote /\ req[q].pc \in {"read", "count", "close"}
        /\ req[q].attempt = 2 /\ req[q].child # None /\ Parent[req[q].child] # None
        /\ Parent[Parent[req[q].child]] = p
    BY <1>0, <1>4 DEF Unrecorded
  <2>1. ASSUME NEW pc \in {"read", "count", "close", "done"},
               Becomes(q, pc, req[q].child, req[q].attempt)
        PROVE  Unrecorded(p, q)'
    BY <2>0, <2>1 DEF Becomes, Unrecorded
  <2>2. CASE Becomes(q, "ascend", Parent[req[q].child], req[q].attempt)
    BY <2>0, <2>2 DEF Becomes, Answers, Chasing, Chase
  <2>3. \/ Becomes(q, "ascend", Parent[req[q].child], req[q].attempt)
        \/ \E pc \in {"read", "count", "close", "done"} :
              Becomes(q, pc, req[q].child, req[q].attempt)
    BY <1>0, <2>0 DEF Fate, Prepares, Refuses, Touches, Shifts, Grows, Shrinks, Climbs,
                      Gathers, Misses, Vanishes, Retries, Stops
  <2> QED BY <2>1, <2>2, <2>3 DEF Answers
<1>5. CASE r = q /\ Excused(p, q)
  BY <1>0, <1>5 DEF Excused
<1> QED BY <1>1, <1>2, <1>3, <1>4, <1>5 DEF Answers

\* Whoever closes or deletes the last open child of an epic, or opens an epic
\* over closed children, answers for it.
LEMMA AnswerFound ==
    ASSUME TypeInv, SeenInv, MarksInv, KeyInv, NEW q \in Requests, Step(q), NEW p \in Issues,
           ~Stalled(p), Stalled(p)'
    PROVE  Answers(p, q)'
<1>0. /\ Fate(q) /\ Marks(q) /\ req[q].attempt \in 1..2
      /\ req[q].pc = "close" => req[q].child \in Issues /\ Parent[req[q].child] \in Issues
      /\ None \notin Issues
  <2>1. req[q].attempt \in 1..2
    BY RequestThen DEF Request
  <2>2. RequestOK(q)
    BY DEF TypeInv, RequestsInv
  <2>3. req[q].pc = "close" => req[q].child \in Issues /\ Parent[req[q].child] # None
    BY <2>2 DEF RequestOK, Closing
  <2> QED BY <2>1, <2>3, StepFates, Constant DEF MarksInv
<1>1. /\ row'[p].exists /\ ~row'[p].closed
      /\ \E c \in Issues : row'[c].exists /\ Parent[c] = p
      /\ \A c \in Issues : row'[c].exists /\ Parent[c] = p => row'[c].closed
  BY DEF Stalled, Children, OpenChildren
<1>2. \/ ~row[p].exists \/ row[p].closed
      \/ \A c \in Issues : row[c].exists => Parent[c] # p
      \/ \E c \in Issues : row[c].exists /\ Parent[c] = p /\ ~row[c].closed
  BY DEF Stalled, Children, OpenChildren
<1>3. CASE \A n \in Issues : Same(n)
  BY <1>1, <1>2, <1>3 DEF Same
<1>4. CASE Shifts(q)
  <2> DEFINE n == Ask[q].on
  <2>0. /\ n \in Issues /\ row[n].exists /\ row'[n].exists
        /\ row'[n].closed <=> req[q].to \in Terminal
        /\ \A m \in Issues \ {n} : Same(m)
    BY <1>4 DEF Shifts, Matches
  <2>1. CASE p = n /\ row[n].closed
    <3>1. req[q].seen = row[n]
      BY <1>4 DEF Shifts, SeenInv, Target0, RowAt, Viewing
    <3>2. req[q].to \notin Terminal
      BY <1>1, <2>0, <2>1
    <3> QED BY <1>4, <2>1, <3>1, <3>2 DEF Shifts, Answers, Excused
  <2>2. CASE p # n \/ ~row[n].closed
    <3>1. Parent[n] = p /\ row'[n].closed
      BY <1>1, <1>2, <2>0, <2>2 DEF Same
    <3>2. req'[q].wrote /\ req'[q].child = n
      BY <1>4 DEF Shifts
    <3>3. req'[q].pc = "ascend" \/ (req'[q].pc = "done" /\ req'[q].end = "error")
      BY <1>4, <2>0, <3>1 DEF Shifts
    <3>4. n # None
      BY <1>0, <2>0
    <3> HIDE DEF n
    <3> QED BY <3>1, <3>2, <3>3, <3>4 DEF Answers, Chasing, Excused, Chase
  <2> QED BY <2>1, <2>2
<1>5. CASE Grows(q)
  <2> DEFINE n == Ask[q].on
  <2>0. /\ n \in Issues /\ ~row[n].exists /\ row'[n].exists /\ ~row'[n].closed
        /\ \A m \in Issues \ {n} : Same(m)
    BY <1>0, <1>5 DEF Grows, Marks
  <2>1. Parent[n] # p
    BY <1>1, <2>0
  <2>2. p = n
    BY <1>1, <1>2, <2>0, <2>1 DEF Same
  <2>3. PICK c \in Issues : row[c].exists /\ Parent[c] = p
    BY <1>1, <2>0, <2>1 DEF Same
  <2> QED BY <1>0, <2>0, <2>2, <2>3 DEF KeyInv
<1>6. CASE Shrinks(q)
  <2> DEFINE n == Ask[q].on
  <2>0. n \in Issues /\ ~row'[n].exists /\ \A m \in Issues \ {n} : Same(m)
    BY <1>6 DEF Shrinks
  <2>1. Parent[n] = p
    BY <1>1, <1>2, <2>0 DEF Same
  <2> QED BY <1>6, <2>0, <2>1 DEF Shrinks, Commits, Answers, Excused
<1>7. CASE Gathers(q)
  <2> DEFINE n == Parent[req[q].child]
  <2>0. /\ req[q].pc = "close" /\ n \in Issues /\ row[n].exists /\ row'[n].exists
        /\ row'[n].closed /\ \A m \in Issues \ {n} : Same(m)
    BY <1>0, <1>7 DEF Gathers
  <2>1. Parent[n] = p
    BY <1>1, <1>2, <2>0 DEF Same
  <2>2. CASE Becomes(q, "ascend", n, req[q].attempt)
    BY <2>1, <2>2 DEF Becomes, Answers, Chasing, Chase
  <2>3. CASE q \in EventFails /\ Retries(q)
    <3>1. req[q].wrote /\ req[q].child \in Issues
      BY <1>0, <2>0 DEF Marks, Chase
    <3>2. /\ req'[q].wrote /\ req'[q].child = req[q].child /\ req'[q].attempt = 2
          /\ req'[q].pc \in {"read", "done"}
      <4>1. \/ Becomes(q, "read", req[q].child, 2)
            \/ req[q].attempt = 2 /\ Becomes(q, "done", req[q].child, req[q].attempt)
        BY <1>0, <2>3 DEF Retries, Stops
      <4> QED BY <3>1, <4>1 DEF Becomes
    <3> QED BY <1>0, <2>0, <2>1, <2>3, <3>1, <3>2 DEF Answers, Unrecorded
  <2> QED BY <1>7, <2>2, <2>3 DEF Gathers
<1> QED BY <1>0, <1>3, <1>4, <1>5, <1>6, <1>7
        DEF Fate, Prepares, Refuses, Touches, Climbs, Misses, Vanishes, Same

\* The issue a request ascends from is there, unless it was deleted since.
LEMMA AscendStep ==
    ASSUME TypeInv, EpicInv, NEW q \in Requests, Step(q), NEW r \in Requests,
           req'[r].pc = "ascend"
    PROVE  (row[req[r].child].exists \/ \E s \in Requests : DeletedIt(req[r].child, s))'
<1>0. /\ Fate(q) /\ req[q].pc # "done" /\ \A s \in Requests \ {q} : req'[s] = req[s]
  BY StepFates
<1>1. CASE r = q
  BY <1>0, <1>1 DEF Fate, Prepares, Refuses, Touches, Shifts, Grows, Shrinks, Climbs,
                    Gathers, Misses, Vanishes, Retries, Stops, Becomes, Commits
<1>2. CASE r # q
  <2> DEFINE c == req[r].child
  <2>0. req'[r] = req[r] /\ c \in Issues
    BY <1>0, <1>2 DEF TypeInv, RequestsInv, RequestOK
  <2>1. CASE \E s \in Requests : DeletedIt(c, s)
    <3>1. PICK s \in Requests : DeletedIt(c, s)
      BY <2>1
    <3>2. req'[s] = req[s]
      BY <1>0, <3>1 DEF DeletedIt
    <3> QED BY <2>0, <3>1, <3>2 DEF DeletedIt
  <2>2. CASE row[c].exists
    <3>1. CASE row'[c].exists
      BY <2>0, <3>1
    <3>2. CASE ~row'[c].exists
      <4>1. Shrinks(q) /\ c = Ask[q].on
        <5> HIDE DEF c
        <5> QED BY <1>0, <2>0, <2>2, <3>2
                DEF Fate, Prepares, Refuses, Touches, Shifts, Grows, Shrinks, Climbs, Gathers,
                    Misses, Vanishes, Same
      <4>2. DeletedIt(c, q)'
        BY <2>0, <4>1 DEF Shrinks, Commits, DeletedIt
      <4> QED BY <2>0, <4>2 DEF DeletedIt
    <3> QED BY <3>1, <3>2
  <2> QED BY <2>0, <2>1, <2>2 DEF EpicInv
<1> QED BY <1>1, <1>2

LEMMA EpicStep ==
    ASSUME TypeInv, SeenInv, MarksInv, KeyInv, EpicInv, NEW q \in Requests, Step(q)
    PROVE  EpicInv'
<1>1. ASSUME NEW p \in Issues, Stalled(p)'
      PROVE  \E r \in Requests : Answers(p, r)'
  BY <1>1, AnswerKept, AnswerFound
<1>2. ASSUME NEW r \in Requests, req'[r].pc = "ascend"
      PROVE  (row[req[r].child].exists \/ \E s \in Requests : DeletedIt(req[r].child, s))'
  BY <1>2, AscendStep
<1> QED BY <1>1, <1>2 DEF EpicInv

TreeInv == MarksInv /\ KeyInv /\ OpenInv /\ EpicInv

LEMMA TreeStep == TypeInv /\ SeenInv /\ TreeInv /\ [Next]_vars => TreeInv'
<1> SUFFICES ASSUME TypeInv, SeenInv, TreeInv, [Next]_vars
             PROVE  TreeInv'
  OBVIOUS
<1>1. CASE UNCHANGED vars
  <2>1. MarksInv' /\ KeyInv'
    BY <1>1 DEF vars, TreeInv, MarksInv, Marks, KeyInv
  <2>2. OpenInv'
    BY <1>1 DEF vars, TreeInv, OpenInv, OpenChildren, Children, ClosedIt, Opened
  <2>3. EpicInv'
    BY <1>1 DEF vars, TreeInv, EpicInv, Stalled, OpenChildren, Children, Answers, Chasing,
                Unrecorded, Excused, DeletedIt
  <2> QED BY <2>1, <2>2, <2>3 DEF TreeInv
<1>2. ASSUME NEW q \in Requests, Step(q)
      PROVE  TreeInv'
  BY <1>2, MarksStep, KeyStep, OpenStep, EpicStep DEF TreeInv
<1> QED BY <1>1, <1>2, OneRequest

LEMMA InitTree == Init => TreeInv
<1> SUFFICES ASSUME Init
             PROVE  TreeInv
  OBVIOUS
<1>1. \A q \in Requests : req[q].pc = "idle" /\ ~req[q].wrote
  BY DEF Init, NoRequest
<1>2. \A n \in Rows : (row[n].exists <=> n \in DOMAIN FirstNumber) /\ ~row[n].closed
  <2>1. ~Absent.exists /\ ~Absent.closed
    BY DEF Absent
  <2>2. \A k : Fresh(k, 1).exists /\ ~Fresh(k, 1).closed
    BY DEF Fresh
  <2> HIDE DEF Absent, Fresh
  <2> QED BY <2>1, <2>2 DEF Init
<1>3. MarksInv
  BY <1>1 DEF MarksInv, Marks, Chase
<1>4. KeyInv
  <2> SUFFICES ASSUME NEW c \in Issues, row[c].exists, Parent[c] # None
               PROVE  row[Parent[c]].exists
    BY DEF KeyInv
  <2>1. c \in Issues \intersect DOMAIN FirstNumber /\ Parent[c] \in Rows
    BY <1>2, Constant
  <2> QED BY <1>2, <2>1, IssueAssumption
<1>5. OpenInv
  BY <1>1, <1>2, Constant DEF OpenInv
<1>6. EpicInv
  BY <1>1, <1>2, Constant DEF EpicInv, Stalled, Children, OpenChildren
<1> QED BY <1>3, <1>4, <1>5, <1>6 DEF TreeInv

LEMMA TreeInvHolds == Spec => []TreeInv
BY InitTree, TreeStep, TypeInvHolds, SeenInvHolds, PTL DEF Spec

\* No epic is closed over a child that was open all along, whatever closings,
\* reopenings and creations interleave with the count and the close of the
\* epic, which are two statements (issue.ts, maybeAutoCloseParent).
THEOREM OpenChildHolds == Spec => []OpenChildKeepsEpicOpen
<1>1. TreeInv => OpenChildKeepsEpicOpen
  BY DEF TreeInv, OpenInv, OpenChildKeepsEpicOpen, ClosedIt, Opened
<1> QED BY <1>1, TreeInvHolds, PTL

\* When no request is being handled, every epic whose children are all closed
\* is closed, up to the root, however the closings raced, unless one of the
\* accidents of LeftOpen is on record for it (issue.ts, maybeAutoCloseParent).
THEOREM EpicClosesHolds == Spec => []EpicClosesWithLastChild
<1>1. TreeInv => EpicClosesWithLastChild
  <2> SUFFICES ASSUME TreeInv, \A q \in Requests : ~Handled(q), NEW p \in Issues, Stalled(p)
               PROVE  \E q \in Requests : LeftOpen(p, q)
    BY DEF EpicClosesWithLastChild, Stalled
  <2>1. PICK q \in Requests : Answers(p, q)
    BY DEF TreeInv, EpicInv
  <2>2. req[q].pc \in {"idle", "page", "done"}
    BY DEF Handled
  <2> QED BY <2>1, <2>2 DEF Answers, Chasing, Unrecorded, Excused, LeftOpen, Chase
<1> QED BY <1>1, TreeInvHolds, PTL

===============================================================================
