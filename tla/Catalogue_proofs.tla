---------------------------- MODULE Catalogue_proofs ----------------------------
(***************************************************************************)
(* What holds of the catalogue for every set of rows, scopes, gates and    *)
(* requests: types, histories, references, look-ups and recorded verdicts. *)
(*                                                                         *)
(* Every property is drawn from an inductive invariant of its own on top   *)
(* of TypeInv, which also says what a request that waits at each await has *)
(* seen: nobody holds a row that was never in the table, a number that was *)
(* computed is at most one past the revisions, and only a skill is         *)
(* numbered outside a transaction.                                         *)
(***************************************************************************)
EXTENDS Catalogue, Gates_proofs

Tables == {Skills, Drivers, Personas}

\* A row that is in the table has a version; one without was never there.
RowsInv ==
    \A id \in Rows :
        /\ Exists(id) => row[id].version >= 1
        /\ row[id].version = 0 => revs[id] = <<>>

\* What a request that has left its page has seen and computed.
RequestOK(q, r) ==
    /\ r.pc \in {"page", "write", "number", "append", "delete"} =>
          /\ Ask[q].op \in {"save", "revert", "delete"}
          /\ r.seen.version >= 1
          /\ r.seen.version <= row[Ask[q].on].version
    /\ r.pc \in {"write", "number", "append"} =>
          /\ Ask[q].op \in {"save", "revert"}
          /\ r.content \in Names
    /\ r.pc \in {"number", "append"} => Ask[q].on \in Skills
    /\ r.pc = "append" =>
          /\ r.number \in Nat \ {0}
          /\ Exists(Ask[q].on) => r.number <= Len(revs[Ask[q].on]) + 1
    /\ r.pc = "record" => Ask[q].op = "gate"
    /\ r.pc = "delete" => Ask[q].op = "delete"

RequestsInv == \A q \in Requests : RequestOK(q, req[q])

TypeInv ==
    /\ TypeOK
    /\ revs \in [Rows -> Seq(Revision)]
    /\ RowsInv
    /\ RequestsInv

-------------------------------------------------------------------------------
(* Facts about the inputs. *)

\* What a request of each kind is about (the input schemas of the routers).
LEMMA AskTypes ==
    ASSUME NEW q \in Requests
    PROVE  /\ Ask[q].op \in {"save", "revert", "delete", "create"} => Ask[q].on \in Rows
           /\ Ask[q].op \in {"save", "create"} => Ask[q].to \in Names
           /\ Ask[q].op = "revert" => Ask[q].to \in Nat \ {0}
           /\ Ask[q].op \in {"attach", "detach"} => Ask[q].on \in Personas /\ Ask[q].to \in Skills
           /\ Ask[q].op = "driver" => Ask[q].on \in Stages /\ Ask[q].to \in Drivers \union {None}
           /\ Ask[q].op = "persona" => Ask[q].on \in Stages /\ Ask[q].to \in Personas
           /\ Ask[q].op \in {"rules", "gate"} => Ask[q].on \in Stages
<1>1. Ask[q] \in Asks
  BY CatalogueAssumption
<1> QED BY <1>1 DEF Asks, Rows

\* The verdict of a gate is one the orchestrator knows (actionToVerdict).
LEMMA VerdictType ==
    ASSUME NEW g \in Gate
    PROVE  EvaluateGate(g) \in Verdicts
<1>1. g.mode \in Modes
  BY DEF Gate
<1>2. ASSUME NEW r \in Worst(g)
      PROVE  ActionToVerdict(g.onFail[r]) \in Verdicts
  <2>1. r \in Rules
    BY DEF Worst, EffectiveFailures, MiddleFailures, InnerFailures, Failures, RulesIn
  <2>2. g.onFail[r] \in Actions
    BY <2>1 DEF Gate
  <2> QED BY <2>2 DEF ActionToVerdict, Actions, Verdicts
<1>3. RulesVerdict(g) \in Verdicts
  BY <1>2 DEF RulesVerdict, Verdicts
<1> QED BY <1>1, <1>3 DEF EvaluateGate, Modes, Verdicts

-------------------------------------------------------------------------------
(* Types. *)

\* No row loses a version, or its revisions but by being deleted for good.
RowsGrow ==
    \A id \in Rows : row[id].version >= 1 =>
        /\ row'[id].version >= row[id].version
        /\ Exists(id)' => Exists(id) /\ Len(revs'[id]) >= Len(revs[id])

\* What a request has seen stays as good when rows grow.
LEMMA OthersStay ==
    ASSUME TypeInv, RowsGrow, NEW q \in Requests, RequestOK(q, req[q]),
           row' \in [Rows -> Row], revs' \in [Rows -> Seq(Revision)], req'[q] = req[q]
    PROVE  RequestOK(q, req[q])'
<1> DEFINE r == req[q]
           id == Ask[q].on
<1>1. CASE r.pc \in {"page", "write", "number", "append", "delete"}
  <2>1. /\ Ask[q].op \in {"save", "revert", "delete"} /\ id \in Rows
        /\ r.seen.version >= 1 /\ r.seen.version <= row[id].version
    BY <1>1, AskTypes DEF RequestOK
  <2>2. r.seen.version \in Nat /\ row[id].version \in Nat /\ row'[id].version \in Nat
    BY <2>1 DEF TypeInv, TypeOK, Request, Row
  <2>3. row[id].version >= 1 /\ r.seen.version <= row'[id].version
    BY <2>1, <2>2 DEF RowsGrow
  <2>4. CASE r.pc = "append" /\ Exists(id)'
    <3>1. Len(revs'[id]) >= Len(revs[id]) /\ r.number <= Len(revs[id]) + 1
      BY <2>1, <2>3, <2>4 DEF RowsGrow, RequestOK
    <3>2. Len(revs'[id]) \in Nat /\ Len(revs[id]) \in Nat /\ r.number \in Nat
      <4>1. revs[id] \in Seq(Revision) /\ revs'[id] \in Seq(Revision)
        BY <2>1 DEF TypeInv
      <4>2. r.number \in Nat
        BY DEF TypeInv, TypeOK, Request
      <4> HIDE DEF r, id
      <4> QED BY <4>1, <4>2
    <3>3. r.number <= Len(revs'[id]) + 1
      BY <3>1, <3>2
    <3> QED BY <2>1, <2>3, <2>4, <3>3 DEF RequestOK
  <2>5. CASE ~(r.pc = "append" /\ Exists(id)')
    BY <2>1, <2>3, <2>5 DEF RequestOK
  <2> QED BY <2>4, <2>5
<1>2. CASE r.pc \notin {"page", "write", "number", "append", "delete"}
  BY <1>2 DEF RequestOK
<1> QED BY <1>1, <1>2

\* A step changes one request, and rows so that they grow.
LEMMA TypeInvKept ==
    ASSUME TypeInv, NEW q \in Requests,
           row' \in [Rows -> Row], revs' \in [Rows -> Seq(Revision)], RowsInv', RowsGrow,
           bound' \subseteq Personas \X Skills,
           stage' \in [Stages -> [driver : Drivers \union {None},
                                  persona : Personas \union {None}, gate : Gate]],
           \A a \in audit' : a.gate \in Gate /\ a.verdict \in Verdicts,
           req' \in [Requests -> Request],
           \A p \in Requests \ {q} : req'[p] = req[p],
           RequestOK(q, req[q])'
    PROVE  TypeInv'
<1>1. \A p \in Requests : RequestOK(p, req[p])'
  <2> TAKE p \in Requests
  <2>1. CASE p = q
    BY <2>1
  <2>2. CASE p # q
    <3>1. RequestOK(p, req[p])
      BY DEF TypeInv, RequestsInv
    <3> QED BY <2>2, <3>1, OthersStay
  <2> QED BY <2>1, <2>2
<1>2. TypeOK'
  BY DEF TypeOK
<1> QED BY <1>1, <1>2 DEF TypeInv, RequestsInv

\* A request that only reads, or ends.
LEMMA ReaderKeepsTypes ==
    ASSUME TypeInv, UNCHANGED <<row, revs, bound, stage, audit>>,
           NEW q \in Requests, NEW r \in Request, req' = [req EXCEPT ![q] = r],
           RequestOK(q, r)
    PROVE  TypeInv'
<1>1. RowsInv' /\ RowsGrow
  <2>1. RowsInv'
    BY DEF TypeInv, RowsInv, Exists
  <2>2. ASSUME NEW id \in Rows
        PROVE  row[id].version \in Nat /\ Len(revs[id]) \in Nat
    <3>1. row[id] \in Row /\ revs[id] \in Seq(Revision)
      BY DEF TypeInv, TypeOK
    <3> QED BY <3>1 DEF Row
  <2> QED BY <2>1, <2>2 DEF RowsGrow, Exists
<1>2. /\ req' \in [Requests -> Request] /\ req'[q] = r
      /\ \A p \in Requests \ {q} : req'[p] = req[p]
  BY DEF TypeInv, TypeOK
<1>3. RequestOK(q, req[q])'
  BY <1>2 DEF RequestOK, Exists
<1> QED BY <1>1, <1>2, <1>3, TypeInvKept DEF TypeInv, TypeOK

\* The end of a request leaves nothing to say of it.
LEMMA EndKeepsTypes ==
    ASSUME TypeInv, NEW q \in Requests, NEW how \in {"ok", "error", "conflict", "lost"},
           End(q, how)
    PROVE  /\ req' \in [Requests -> Request]
           /\ \A p \in Requests \ {q} : req'[p] = req[p]
           /\ req'[q].pc = "done"
           /\ RequestOK(q, req[q])'
           /\ \E r \in Request : req' = [req EXCEPT ![q] = r] /\ RequestOK(q, r)
<1>1. req \in [Requests -> Request]
  BY DEF TypeInv, TypeOK
<1>2. req' = [req EXCEPT ![q] = [req[q] EXCEPT !.pc = "done", !.end = how]]
  BY <1>1 DEF End
<1>3. /\ [req[q] EXCEPT !.pc = "done", !.end = how] \in Request
      /\ [req[q] EXCEPT !.pc = "done", !.end = how].pc = "done"
  BY <1>1 DEF Request
<1>4. req'[q].pc = "done"
  BY <1>1, <1>2 DEF Request
<1>5. RequestOK(q, [req[q] EXCEPT !.pc = "done", !.end = how])
  BY <1>3 DEF RequestOK
<1> QED BY <1>1, <1>2, <1>3, <1>4, <1>5 DEF RequestOK

(***************************************************************************)
(* One lemma for the readers, one for the writers of references, one for   *)
(* each action that writes a row or its revisions.                         *)
(***************************************************************************)
LEMMA ReadersKeepTypes ==
    ASSUME TypeInv, NEW q \in Requests,
           Load(q) \/ ReadTarget(q) \/ Number(q) \/ Vanish(q) \/ Count(q) \/ ReadGate(q)
    PROVE  TypeInv'
<1> DEFINE id == Ask[q].on
<1>0. /\ req \in [Requests -> Request] /\ req[q] \in Request
      /\ RequestOK(q, req[q])
      /\ row \in [Rows -> Row] /\ revs \in [Rows -> Seq(Revision)]
  BY DEF TypeInv, TypeOK, RequestsInv
<1>1. UNCHANGED <<row, revs, bound, stage, audit>>
  BY DEF Load, ReadTarget, Number, Vanish, Count, ReadGate
<1>2. CASE \E how \in {"ok", "error", "conflict", "lost"} : End(q, how)
  BY <1>1, <1>2, EndKeepsTypes, ReaderKeepsTypes
<1>3. CASE Load(q)
  <2>1. Ask[q].op \in {"save", "revert", "delete"} /\ Exists(id)
    BY <1>3 DEF Load, Starts
  <2>2. id \in Rows /\ (Ask[q].op = "save" => Ask[q].to \in Names)
    BY <2>1, AskTypes
  <2>3. row[id] \in Row /\ row[id].version >= 1
    BY <1>0, <2>1, <2>2 DEF TypeInv, RowsInv
  <2> DEFINE r == [req[q] EXCEPT
                      !.seen = row[id],
                      !.pc = IF Ask[q].op = "save" THEN "write" ELSE "page",
                      !.content = IF Ask[q].op = "save" THEN Ask[q].to ELSE None]
  <2>4. req' = [req EXCEPT ![q] = r]
    BY <1>0, <1>3 DEF Load
  <2>5. r \in Request
    BY <1>0, <2>2, <2>3 DEF Request
  <2>7. /\ r.seen = row[id]
        /\ r.pc = IF Ask[q].op = "save" THEN "write" ELSE "page"
        /\ r.content = IF Ask[q].op = "save" THEN Ask[q].to ELSE None
    BY <1>0 DEF Request
  <2>8. row[id].version \in Nat
    BY <2>3 DEF Row
  <2> HIDE DEF r
  <2>9. RequestOK(q, r)
    BY <1>1, <2>1, <2>2, <2>3, <2>7, <2>8 DEF RequestOK
  <2> QED BY <1>1, <2>4, <2>5, <2>9, ReaderKeepsTypes
<1>4. ASSUME ReadTarget(q), ~End(q, "error")
      PROVE  TypeInv'
  <2>1. /\ req[q].pc = "page" /\ Ask[q].op = "revert"
        /\ Ask[q].to \in DOMAIN revs[id]
        /\ req' = [req EXCEPT ![q].pc = "write",
                              ![q].content = revs[id][Ask[q].to].content]
    BY <1>4 DEF ReadTarget
  <2>2. revs[id] \in Seq(Revision) /\ id \in Rows
    BY <1>0, <2>1, AskTypes
  <2>3. revs[id][Ask[q].to].content \in Names
    <3>1. Ask[q].to \in 1..Len(revs[id])
      BY <2>1, <2>2
    <3>2. revs[id][Ask[q].to] \in Revision
      BY <2>2, <3>1
    <3> QED BY <3>2 DEF Revision
  <2> DEFINE r == [req[q] EXCEPT !.pc = "write", !.content = revs[id][Ask[q].to].content]
  <2>4. req' = [req EXCEPT ![q] = r]
    BY <1>0, <2>1
  <2>5. r \in Request
    BY <1>0, <2>3 DEF Request
  <2>7. /\ r.seen = req[q].seen /\ r.pc = "write"
        /\ r.content = revs[id][Ask[q].to].content
    BY <1>0 DEF Request
  <2> HIDE DEF r
  <2>8. RequestOK(q, r)
    BY <1>0, <1>1, <2>1, <2>3, <2>7 DEF RequestOK
  <2> QED BY <1>1, <2>4, <2>5, <2>8, ReaderKeepsTypes
<1>5. CASE Number(q)
  <2>1. /\ req[q].pc = "number"
        /\ req' = [req EXCEPT ![q].pc = "append", ![q].number = Len(revs[id]) + 1]
    BY <1>5 DEF Number
  <2>2. id \in Skills /\ id \in Rows
    BY <1>0, <2>1 DEF RequestOK, Rows
  <2>3. Len(revs[id]) \in Nat
    BY <1>0, <2>2
  <2> DEFINE n == Len(revs[id]) + 1
             r == [req[q] EXCEPT !.pc = "append", !.number = n]
  <2>9. n \in Nat \ {0}
    BY <2>3
  <2> HIDE DEF n
  <2>4. req' = [req EXCEPT ![q] = r]
    BY <1>0, <2>1 DEF n
  <2>5. r \in Request
    BY <1>0, <2>9 DEF Request
  <2>7. /\ r.seen = req[q].seen /\ r.content = req[q].content /\ r.pc = "append"
        /\ r.number = n
    BY <1>0 DEF Request
  <2> HIDE DEF r
  <2>8. RequestOK(q, r)
    BY <1>0, <2>1, <2>2, <2>3, <2>7, <2>9 DEF RequestOK, n
  <2> QED BY <1>1, <2>4, <2>5, <2>8, ReaderKeepsTypes
<1>6. CASE Vanish(q)
  BY <1>1, <1>6, EndKeepsTypes, ReaderKeepsTypes DEF Vanish
<1>7. ASSUME Count(q), ~End(q, "error")
      PROVE  TypeInv'
  <2>1. req[q].pc = "page" /\ Ask[q].op = "delete" /\ req' = [req EXCEPT ![q].pc = "delete"]
    BY <1>7 DEF Count, Goto
  <2> DEFINE r == [req[q] EXCEPT !.pc = "delete"]
  <2>2. req' = [req EXCEPT ![q] = r] /\ r \in Request
    BY <1>0, <2>1 DEF Request
  <2>4. r.seen = req[q].seen /\ r.pc = "delete"
    BY <1>0 DEF Request
  <2> HIDE DEF r
  <2>5. RequestOK(q, r)
    BY <1>0, <1>1, <2>1, <2>4 DEF RequestOK
  <2> QED BY <1>1, <2>2, <2>5, ReaderKeepsTypes
<1>8. CASE ReadGate(q)
  <2>1. /\ Ask[q].op = "gate"
        /\ req' = [req EXCEPT ![q].pc = "record", ![q].gate = stage[id].gate]
    BY <1>8 DEF ReadGate, Starts
  <2>2. stage[id].gate \in Gate
    BY <2>1, AskTypes DEF TypeInv, TypeOK
  <2> DEFINE r == [req[q] EXCEPT !.pc = "record", !.gate = stage[id].gate]
  <2>3. req' = [req EXCEPT ![q] = r] /\ r \in Request
    BY <1>0, <2>1, <2>2 DEF Request
  <2>5. r.pc = "record"
    BY <1>0 DEF Request
  <2> HIDE DEF r
  <2>6. RequestOK(q, r)
    BY <2>1, <2>5 DEF RequestOK
  <2> QED BY <1>1, <2>3, <2>6, ReaderKeepsTypes
<1> QED BY <1>2, <1>3, <1>4, <1>5, <1>6, <1>7, <1>8

LEMMA ReferencesKeepTypes ==
    ASSUME TypeInv, NEW q \in Requests,
           \/ Attach(q) \/ Detach(q) \/ SetDriver(q) \/ SetPersona(q) \/ SetGate(q)
           \/ RecordVerdict(q)
    PROVE  TypeInv'
<1>0. /\ row \in [Rows -> Row] /\ revs \in [Rows -> Seq(Revision)]
      /\ stage \in [Stages -> [driver : Drivers \union {None},
                               persona : Personas \union {None}, gate : Gate]]
  BY DEF TypeInv, TypeOK
<1>1. UNCHANGED <<row, revs>>
  BY DEF Attach, Detach, SetDriver, SetPersona, SetGate, RecordVerdict
<1>2. PICK how \in {"ok", "error", "conflict", "lost"} : End(q, how)
  BY DEF Attach, Detach, SetDriver, SetPersona, SetGate, RecordVerdict
<1>3. /\ req' \in [Requests -> Request]
      /\ \A p \in Requests \ {q} : req'[p] = req[p]
      /\ RequestOK(q, req[q])'
  BY <1>2, EndKeepsTypes
<1>4. RowsInv'
  BY <1>1 DEF TypeInv, RowsInv, Exists
<1>5. RowsGrow
  <2>1. \A id \in Rows : row[id].version \in Nat /\ Len(revs[id]) \in Nat
    BY <1>0 DEF Row
  <2> QED BY <1>1, <2>1 DEF RowsGrow, Exists
<1>6. bound' \subseteq Personas \X Skills
  <2>1. CASE UNCHANGED bound
    BY <2>1 DEF TypeInv, TypeOK
  <2>2. CASE Attach(q) \/ Detach(q)
    <3>1. Ask[q].on \in Personas /\ Ask[q].to \in Skills
      BY <2>2, AskTypes DEF Attach, Detach, Starts
    <3> QED BY <2>2, <3>1 DEF TypeInv, TypeOK, Attach, Detach
  <2> QED BY <2>1, <2>2 DEF SetDriver, SetPersona, SetGate, RecordVerdict
<1>7. stage' \in [Stages -> [driver : Drivers \union {None},
                             persona : Personas \union {None}, gate : Gate]]
  <2>1. CASE UNCHANGED stage
    BY <1>0, <2>1
  <2>2. CASE SetDriver(q)
    <3>1. Ask[q].on \in Stages /\ Ask[q].to \in Drivers \union {None}
      BY <2>2, AskTypes DEF SetDriver, Starts
    <3> QED BY <1>0, <2>2, <3>1 DEF SetDriver
  <2>3. CASE SetPersona(q)
    <3>1. Ask[q].on \in Stages /\ Ask[q].to \in Personas
      BY <2>3, AskTypes DEF SetPersona, Starts
    <3> QED BY <1>0, <2>3, <3>1 DEF SetPersona
  <2>4. CASE SetGate(q)
    <3>1. Ask[q].on \in Stages
      BY <2>4, AskTypes DEF SetGate, Starts
    <3>2. PICK g \in Gate : stage' = [stage EXCEPT ![Ask[q].on].gate = g]
      BY <2>4, CatalogueAssumption DEF SetGate
    <3> QED BY <1>0, <3>1, <3>2
  <2> QED BY <2>1, <2>2, <2>3, <2>4 DEF Attach, Detach, RecordVerdict
<1>8. \A a \in audit' : a.gate \in Gate /\ a.verdict \in Verdicts
  <2>1. CASE UNCHANGED audit
    BY <2>1 DEF TypeInv, TypeOK
  <2>2. CASE RecordVerdict(q)
    <3>1. req[q].gate \in Gate
      BY DEF TypeInv, TypeOK, Request
    <3>2. EvaluateGate(req[q].gate) \in Verdicts
      BY <3>1, VerdictType
    <3> QED BY <2>2, <3>1, <3>2 DEF RecordVerdict, TypeInv, TypeOK
  <2> QED BY <2>1, <2>2 DEF Attach, Detach, SetDriver, SetPersona, SetGate
<1> QED BY <1>0, <1>1, <1>3, <1>4, <1>5, <1>6, <1>7, <1>8, TypeInvKept

-------------------------------------------------------------------------------
(* The steps that write rows. *)

Saved(q) ==
    LET id == Ask[q].on
        revision == [content |-> req[q].content, version |-> row[id].version + 1] IN
    /\ id \in Rows /\ req[q].content \in Names
    /\ Matches(id, req[q].seen) /\ ~NameTaken(id, req[q].content)
    /\ row' = [row EXCEPT ![id] = [version |-> row[id].version + 1,
                                   content |-> req[q].content]]
    /\ IF id \in Drivers THEN revs' = [revs EXCEPT ![id] = Append(revs[id], revision)]
       ELSE UNCHANGED revs
    /\ UNCHANGED <<bound, stage, audit>>

Appended(q) ==
    LET id == Ask[q].on
        revision == [content |-> req[q].content, version |-> req[q].seen.version + 1] IN
    /\ id \in Skills /\ req[q].content \in Names /\ Exists(id)
    /\ revs' = [revs EXCEPT ![id] = Append(revs[id], revision)]
    /\ UNCHANGED <<row, bound, stage, audit>>

Created(q) ==
    LET id == Ask[q].on IN
    /\ id \in Rows /\ row[id] = NoRow /\ Ask[q].to \in Names /\ ~NameTaken(id, Ask[q].to)
    /\ row' = [row EXCEPT ![id] = [version |-> 1, content |-> Ask[q].to]]
    /\ UNCHANGED <<revs, bound, stage, audit>>

Deleted(q) ==
    LET id == Ask[q].on IN
    /\ id \in Rows /\ ~Restricts(id)
    /\ row' = [row EXCEPT ![id] = [version |-> row[id].version, content |-> None]]
    /\ revs' = [revs EXCEPT ![id] = <<>>]
    /\ UNCHANGED <<bound, stage, audit>>

\* Every writer has read its row before, and either writes it as here or not at
\* all.
LEMMA SaveWrites ==
    ASSUME TypeInv, NEW q \in Requests, Save(q)
    PROVE  UNCHANGED <<row, revs>> \/ Saved(q)
<1> DEFINE id == Ask[q].on
<1>0. /\ RequestOK(q, req[q])
      /\ row \in [Rows -> Row] /\ revs \in [Rows -> Seq(Revision)]
  BY DEF TypeInv, TypeOK, RequestsInv
<1>1. CASE Matches(id, req[q].seen) /\ ~NameTaken(id, req[q].content)
  <2>1. /\ Ask[q].op \in {"save", "revert"} /\ req[q].content \in Names
    BY <1>0 DEF Save, RequestOK
  <2>2. id \in Rows
    BY <2>1, AskTypes
  <2>3. row' = [row EXCEPT ![id] = [version |-> row[id].version + 1,
                                    content |-> req[q].content]]
    BY <1>0, <1>1, <2>2 DEF Save, Updated
  <2>4. revs' = IF id \in Drivers
                THEN [revs EXCEPT ![id] = Append(revs[id],
                        [content |-> req[q].content, version |-> row[id].version + 1])]
                ELSE revs
    BY <1>0, <1>1, <2>2 DEF Save, InTransaction
  <2> QED BY <1>1, <2>1, <2>2, <2>3, <2>4 DEF Saved, Save
<1>2. CASE ~(Matches(id, req[q].seen) /\ ~NameTaken(id, req[q].content))
  BY <1>2 DEF Save
<1> QED BY <1>1, <1>2

LEMMA AppendWrites ==
    ASSUME TypeInv, NEW q \in Requests, AppendRevision(q)
    PROVE  UNCHANGED <<row, revs>> \/ Appended(q)
<1> DEFINE id == Ask[q].on
           n == req[q].number
           kept == [content |-> req[q].content, version |-> req[q].seen.version + 1]
<1>0. /\ req \in [Requests -> Request] /\ req[q] \in Request /\ RequestOK(q, req[q])
      /\ row \in [Rows -> Row] /\ revs \in [Rows -> Seq(Revision)]
  BY DEF TypeInv, TypeOK, RequestsInv
<1>1. CASE ~MayAppend(id, n)
  BY <1>1 DEF AppendRevision
<1>2. CASE MayAppend(id, n)
  <2>1. /\ req[q].pc = "append" /\ UNCHANGED row
        /\ revs' = [revs EXCEPT ![id] = [m \in DOMAIN @ \union {n} |->
                                            IF m = n THEN kept ELSE @[m]]]
    BY <1>2 DEF AppendRevision
  <2>2. /\ id \in Skills /\ id \in Rows /\ req[q].content \in Names /\ Exists(id)
        /\ n \in Nat \ {0} /\ n <= Len(revs[id]) + 1
    BY <1>0, <1>2, <2>1 DEF RequestOK, MayAppend, Rows
  <2>3. kept \in Revision
    <3>1. req[q].seen.version \in Nat
      BY <1>0 DEF Request, Row
    <3> QED BY <2>2, <3>1 DEF Revision
  <2>4. revs[id] \in Seq(Revision)
    BY <1>0, <2>2
  <2>5. n \notin DOMAIN revs[id]
    BY <1>2 DEF MayAppend
  <2>6. [m \in DOMAIN revs[id] \union {n} |-> IF m = n THEN kept ELSE revs[id][m]]
        = Append(revs[id], kept)
    <3> HIDE DEF id, n, kept
    <3>1. DOMAIN revs[id] = 1..Len(revs[id]) /\ Len(revs[id]) \in Nat
      BY <2>4
    <3>2. n = Len(revs[id]) + 1
      BY <2>2, <2>5, <3>1
    <3>3. DOMAIN revs[id] \union {n} = 1..Len(revs[id]) + 1
      BY <3>1, <3>2
    <3>4. Append(revs[id], kept)
          = [m \in 1..Len(revs[id]) + 1 |->
               IF m = Len(revs[id]) + 1 THEN kept ELSE revs[id][m]]
      BY <2>3, <2>4, <3>1
    <3> QED BY <3>2, <3>3, <3>4
  <2> QED BY <2>1, <2>2, <2>6 DEF Appended, AppendRevision
<1> QED BY <1>1, <1>2

LEMMA CreateWrites ==
    ASSUME TypeInv, NEW q \in Requests, Create(q)
    PROVE  UNCHANGED <<row, revs>> \/ Created(q)
<1>1. Ask[q].on \in Rows /\ Ask[q].to \in Names
  BY AskTypes DEF Create, Starts
<1> QED BY <1>1 DEF Create, Created

LEMMA DeleteWrites ==
    ASSUME TypeInv, NEW q \in Requests, Delete(q)
    PROVE  UNCHANGED <<row, revs>> \/ Deleted(q)
<1> DEFINE id == Ask[q].on
<1>0. RequestOK(q, req[q]) /\ row \in [Rows -> Row]
  BY DEF TypeInv, TypeOK, RequestsInv
<1>1. id \in Rows
  BY <1>0, AskTypes DEF Delete, RequestOK
<1>2. row[id] \in Row
  BY <1>0, <1>1
<1>3. [row[id] EXCEPT !.content = None] = [version |-> row[id].version, content |-> None]
  BY <1>2 DEF Row
<1> QED BY <1>0, <1>1, <1>3 DEF Delete, Deleted

-------------------------------------------------------------------------------
(* Types, of the writers. *)

\* What a writer of one row has to show of that row.
LEMMA WriterKeepsTypes ==
    ASSUME TypeInv, UNCHANGED <<bound, stage, audit>>,
           NEW q \in Requests, NEW id \in Rows, NEW new \in Row, NEW history \in Seq(Revision),
           row' = [row EXCEPT ![id] = new], revs' = [revs EXCEPT ![id] = history],
           new.content # None => new.version >= 1,
           new.version = 0 => history = <<>>,
           row[id].version >= 1 =>
              /\ new.version >= row[id].version
              /\ new.content # None => Exists(id) /\ Len(history) >= Len(revs[id]),
           req' \in [Requests -> Request],
           \A p \in Requests \ {q} : req'[p] = req[p],
           RequestOK(q, req[q])'
    PROVE  TypeInv'
<1>0. row \in [Rows -> Row] /\ revs \in [Rows -> Seq(Revision)]
  BY DEF TypeInv, TypeOK
<1>1. row' \in [Rows -> Row] /\ revs' \in [Rows -> Seq(Revision)]
  BY <1>0
<1>2. /\ row'[id] = new /\ revs'[id] = history
      /\ \A o \in Rows \ {id} : row'[o] = row[o] /\ revs'[o] = revs[o]
  BY <1>0
<1>3. RowsInv'
  BY <1>2 DEF TypeInv, RowsInv, Exists
<1>4. RowsGrow
  <2>1. ASSUME NEW o \in Rows
        PROVE  row[o].version \in Nat /\ Len(revs[o]) \in Nat
    <3>1. row[o] \in Row /\ revs[o] \in Seq(Revision)
      BY <1>0
    <3> QED BY <3>1 DEF Row
  <2> QED BY <1>2, <2>1 DEF RowsGrow, Exists
<1> QED BY <1>1, <1>3, <1>4, TypeInvKept DEF TypeInv, TypeOK

LEMMA SaveKeepsTypes ==
    ASSUME TypeInv, NEW q \in Requests, Save(q)
    PROVE  TypeInv'
<1> DEFINE id == Ask[q].on
           new == [version |-> row[id].version + 1, content |-> req[q].content]
           kept == [content |-> req[q].content, version |-> row[id].version + 1]
           history == IF InTransaction(id) THEN Append(revs[id], kept) ELSE revs[id]
<1>0. /\ req \in [Requests -> Request] /\ req[q] \in Request /\ RequestOK(q, req[q])
      /\ row \in [Rows -> Row] /\ revs \in [Rows -> Seq(Revision)]
  BY DEF TypeInv, TypeOK, RequestsInv
<1>1. CASE ~(Matches(id, req[q].seen) /\ ~NameTaken(id, req[q].content))
  <2>1. UNCHANGED <<row, revs, bound, stage, audit>>
        /\ \E how \in {"ok", "error", "conflict", "lost"} : End(q, how)
    BY <1>1 DEF Save
  <2> QED BY <2>1, EndKeepsTypes, ReaderKeepsTypes
<1>2. CASE Matches(id, req[q].seen) /\ ~NameTaken(id, req[q].content)
  <2>1. /\ req[q].pc = "write" /\ UNCHANGED <<bound, stage, audit>>
        /\ row' = [row EXCEPT ![id] = [version |-> @.version + 1, content |-> req[q].content]]
        /\ revs' = IF InTransaction(id)
                   THEN [revs EXCEPT ![id] = Append(@, kept)] ELSE revs
        /\ IF id \in Skills \union Drivers /\ ~InTransaction(id)
           THEN Goto(q, "number") ELSE End(q, "ok")
    BY <1>2 DEF Save, Updated
  <2>2. /\ Ask[q].op \in {"save", "revert"} /\ req[q].content \in Names
        /\ req[q].seen.version >= 1 /\ req[q].seen.version <= row[id].version
    BY <1>0, <2>1 DEF RequestOK
  <2>3. id \in Rows
    BY <2>2, AskTypes, CatalogueAssumption DEF Asks, Rows
  <2>4. row[id] \in Row /\ row[id].version \in Nat /\ req[q].seen.version \in Nat
    BY <1>0, <2>3 DEF Row, Request
  <2>5. new \in Row /\ kept \in Revision
    BY <2>2, <2>4 DEF Row, Revision
  <2>6. history \in Seq(Revision) /\ Len(history) >= Len(revs[id])
    <3>1. revs[id] \in Seq(Revision)
      BY <1>0, <2>3
    <3> HIDE DEF kept, id
    <3> QED BY <2>5, <3>1
  <2>7. row' = [row EXCEPT ![id] = new] /\ revs' = [revs EXCEPT ![id] = history]
    BY <1>0, <2>1, <2>3
  <2>8. Exists(id) /\ row[id].version >= 1
    BY <1>2, <2>2, <2>4 DEF Matches
  <2>9. /\ req' \in [Requests -> Request]
        /\ \A p \in Requests \ {q} : req'[p] = req[p]
        /\ RequestOK(q, req[q])'
    <3>1. CASE End(q, "ok")
      BY <3>1, EndKeepsTypes
    <3>2. CASE Goto(q, "number") /\ id \in Skills
      <4> DEFINE r == [req[q] EXCEPT !.pc = "number"]
      <4>1. req' = [req EXCEPT ![q] = r] /\ r \in Request
        BY <1>0, <3>2 DEF Goto, Request
      <4>2. /\ req' \in [Requests -> Request] /\ req'[q] = r
            /\ \A p \in Requests \ {q} : req'[p] = req[p]
        BY <1>0, <4>1
      <4>3. r.pc = "number" /\ r.seen = req[q].seen /\ r.content = req[q].content
        BY <1>0 DEF Request
      <4>4. row'[id].version = row[id].version + 1
        BY <1>0, <2>3, <2>7
      <4> HIDE DEF r
      <4>5. req[q].seen.version <= row'[id].version
        BY <2>2, <2>4, <4>4
      <4> QED BY <2>2, <3>2, <4>2, <4>3, <4>5 DEF RequestOK
    <3> QED BY <2>1, <3>1, <3>2 DEF InTransaction
  <2>10. /\ new.content # None => new.version >= 1
         /\ new.version = 0 => history = <<>>
         /\ new.version >= row[id].version
    BY <2>4
  <2> HIDE DEF new, history, id
  <2> QED BY <2>1, <2>3, <2>5, <2>6, <2>7, <2>8, <2>9, <2>10, WriterKeepsTypes
<1> QED BY <1>1, <1>2

LEMMA AppendKeepsTypes ==
    ASSUME TypeInv, NEW q \in Requests, AppendRevision(q)
    PROVE  TypeInv'
<1> DEFINE id == Ask[q].on
           kept == [content |-> req[q].content, version |-> req[q].seen.version + 1]
<1>0. /\ req[q] \in Request /\ row \in [Rows -> Row] /\ revs \in [Rows -> Seq(Revision)]
  BY DEF TypeInv, TypeOK
<1>1. CASE ~MayAppend(id, req[q].number)
  BY <1>1, EndKeepsTypes, ReaderKeepsTypes DEF AppendRevision
<1>2. CASE MayAppend(id, req[q].number)
  <2>1. UNCHANGED <<row, bound, stage, audit>> /\ End(q, "ok")
    BY <1>2 DEF AppendRevision
  <2>2. CASE UNCHANGED revs
    BY <2>1, <2>2, EndKeepsTypes, ReaderKeepsTypes
  <2>3. CASE Appended(q)
    <3>1. /\ id \in Rows /\ req[q].content \in Names /\ Exists(id)
          /\ revs' = [revs EXCEPT ![id] = Append(revs[id], kept)]
      BY <2>3 DEF Appended, Rows
    <3>2. /\ row[id] \in Row /\ row[id].version \in Nat /\ req[q].seen.version \in Nat
          /\ revs[id] \in Seq(Revision)
      BY <1>0, <3>1 DEF Row, Request
    <3>3. kept \in Revision
      BY <3>1, <3>2 DEF Revision
    <3> HIDE DEF kept
    <3>4. Append(revs[id], kept) \in Seq(Revision)
          /\ Len(Append(revs[id], kept)) >= Len(revs[id])
      <4> HIDE DEF id
      <4> QED BY <3>2, <3>3
    <3>5. /\ row' = [row EXCEPT ![id] = row[id]] /\ row[id].version >= row[id].version
          /\ row[id].version >= 1 /\ row[id].version # 0
      BY <1>0, <2>1, <3>1, <3>2 DEF TypeInv, RowsInv
    <3>6. /\ req' \in [Requests -> Request]
          /\ \A p \in Requests \ {q} : req'[p] = req[p]
          /\ RequestOK(q, req[q])'
      BY <2>1, EndKeepsTypes
    <3> HIDE DEF id
    <3> QED BY <2>1, <3>1, <3>2, <3>4, <3>5, <3>6, WriterKeepsTypes
  <2> QED BY <2>1, <2>2, <2>3, AppendWrites
<1> QED BY <1>1, <1>2

LEMMA CreateKeepsTypes ==
    ASSUME TypeInv, NEW q \in Requests, Create(q)
    PROVE  TypeInv'
<1> DEFINE id == Ask[q].on
           new == [version |-> 1, content |-> Ask[q].to]
<1>0. row \in [Rows -> Row] /\ revs \in [Rows -> Seq(Revision)]
  BY DEF TypeInv, TypeOK
<1>1. CASE NameTaken(id, Ask[q].to)
  BY <1>1, EndKeepsTypes, ReaderKeepsTypes DEF Create
<1>2. CASE ~NameTaken(id, Ask[q].to)
  <2>1. /\ Ask[q].op = "create" /\ row[id] = NoRow
        /\ row' = [row EXCEPT ![id] = new] /\ End(q, "ok")
        /\ UNCHANGED <<revs, bound, stage, audit>>
    BY <1>2 DEF Create, Starts
  <2>2. id \in Rows /\ Ask[q].to \in Names
    BY <2>1, AskTypes
  <2>3. new \in Row /\ new.version = 1 /\ row[id].version = 0
    BY <2>1, <2>2 DEF Row, NoRow
  <2>4. revs[id] \in Seq(Revision) /\ revs' = [revs EXCEPT ![id] = revs[id]]
    BY <1>0, <2>1, <2>2
  <2>5. /\ req' \in [Requests -> Request]
        /\ \A p \in Requests \ {q} : req'[p] = req[p]
        /\ RequestOK(q, req[q])'
    BY <2>1, EndKeepsTypes
  <2> HIDE DEF new, id
  <2>6. /\ ~(row[id].version >= 1) /\ new.version # 0 /\ new.version >= 1
        /\ UNCHANGED <<bound, stage, audit>> /\ row' = [row EXCEPT ![id] = new]
    BY <2>1, <2>3
  <2> QED BY <2>2, <2>3, <2>4, <2>5, <2>6, WriterKeepsTypes
<1> QED BY <1>1, <1>2

LEMMA DeleteKeepsTypes ==
    ASSUME TypeInv, NEW q \in Requests, Delete(q)
    PROVE  TypeInv'
<1> DEFINE id == Ask[q].on
           new == [row[id] EXCEPT !.content = None]
<1>0. /\ row \in [Rows -> Row] /\ revs \in [Rows -> Seq(Revision)]
      /\ RequestOK(q, req[q])
  BY DEF TypeInv, TypeOK, RequestsInv
<1>1. CASE ~(Matches(id, req[q].seen) /\ ~Restricts(id))
  <2>1. UNCHANGED <<row, revs, bound, stage, audit>>
        /\ \E how \in {"ok", "error", "conflict", "lost"} : End(q, how)
    BY <1>1 DEF Delete
  <2> QED BY <2>1, EndKeepsTypes, ReaderKeepsTypes
<1>2. CASE Matches(id, req[q].seen) /\ ~Restricts(id)
  <2>1. /\ req[q].pc = "delete" /\ row' = [row EXCEPT ![id].content = None]
        /\ revs' = [revs EXCEPT ![id] = <<>>] /\ End(q, "ok")
        /\ UNCHANGED <<bound, stage, audit>>
    BY <1>2 DEF Delete
  <2>2. id \in Rows
    BY <1>0, <2>1, AskTypes DEF RequestOK
  <2>3. row[id] \in Row /\ new \in Row /\ new.content = None
        /\ new.version = row[id].version /\ new.version \in Nat
    BY <1>0, <2>2 DEF Row
  <2>4. row' = [row EXCEPT ![id] = new] /\ <<>> \in Seq(Revision)
    BY <1>0, <2>1, <2>2
  <2>5. /\ req' \in [Requests -> Request]
        /\ \A p \in Requests \ {q} : req'[p] = req[p]
        /\ RequestOK(q, req[q])'
    BY <2>1, EndKeepsTypes
  <2> HIDE DEF new, id
  <2>6. row[id].version >= 1 => new.version >= row[id].version
    BY <2>3
  <2> QED BY <2>1, <2>2, <2>3, <2>4, <2>5, <2>6, WriterKeepsTypes
<1> QED BY <1>1, <1>2

LEMMA TypeInvInit == Init => TypeInv
<1> SUFFICES ASSUME Init
             PROVE  TypeInv
  OBVIOUS
<1>1. PICK S \in SUBSET Rows : FirstName \in [S -> Names]
  BY CatalogueAssumption
<1>2. row \in [Rows -> Row]
  BY <1>1 DEF Init, Row, NoRow
<1>3. revs \in [Rows -> Seq(Revision)] /\ DOMAIN revs = Rows
      /\ \A id \in Rows : revs[id] = <<>>
  BY DEF Init
<1>4. NoRequest \in Request /\ NoRequest.pc = "idle"
  BY CatalogueAssumption DEF NoRequest, NoRow, Request, Row
<1>5. req \in [Requests -> Request] /\ \A q \in Requests : req[q].pc = "idle"
  BY <1>4 DEF Init
<1>6. stage \in [Stages -> [driver : Drivers \union {None},
                            persona : Personas \union {None}, gate : Gate]]
  BY CatalogueAssumption DEF Init
<1>7. bound \subseteq Personas \X Skills /\ audit = {}
  BY DEF Init
<1>8. RequestsInv
  BY <1>5 DEF RequestsInv, RequestOK
<1>9. RowsInv
  <2> SUFFICES ASSUME NEW id \in Rows, Exists(id)
               PROVE  row[id].version >= 1
    BY <1>3 DEF RowsInv
  <2> QED BY DEF Init, Exists, NoRow
<1> QED BY <1>2, <1>3, <1>5, <1>6, <1>7, <1>8, <1>9 DEF TypeInv, TypeOK

LEMMA TypeInvStep == TypeInv /\ [Next]_vars => TypeInv'
<1> SUFFICES ASSUME TypeInv, [Next]_vars
             PROVE  TypeInv'
  OBVIOUS
<1>1. CASE UNCHANGED vars
  BY <1>1 DEF vars, TypeInv, TypeOK, RowsInv, RequestsInv, RequestOK, Exists
<1>2. CASE Next
  BY <1>2, ReadersKeepTypes, ReferencesKeepTypes, SaveKeepsTypes, AppendKeepsTypes,
     CreateKeepsTypes, DeleteKeepsTypes DEF Next
<1> QED BY <1>1, <1>2

THEOREM TypeInvHolds == Spec => []TypeInv
  BY TypeInvInit, TypeInvStep, PTL DEF Spec

(***************************************************************************)
(* Rows, revisions, references and requests keep their types; of the       *)
(* revisions this says that their numbers have no gap, although numbering  *)
(* and insertion are two statements (snapshotSkillRevision).               *)
(***************************************************************************)
THEOREM TypeCorrect == Spec => []TypeOK
  BY TypeInvHolds, PTL DEF TypeInv

-------------------------------------------------------------------------------
(* Histories. *)

LEMMA RowSteps ==
    ASSUME TypeInv, [Next]_vars
    PROVE  \/ UNCHANGED <<row, revs>>
           \/ \E q \in Requests : Saved(q) \/ Appended(q) \/ Created(q) \/ Deleted(q)
<1>1. CASE UNCHANGED vars
  BY <1>1 DEF vars
<1>2. ASSUME NEW q \in Requests,
             \/ Load(q) \/ ReadTarget(q) \/ Number(q) \/ Vanish(q) \/ Count(q) \/ ReadGate(q)
             \/ Attach(q) \/ Detach(q) \/ SetDriver(q) \/ SetPersona(q) \/ SetGate(q)
             \/ RecordVerdict(q)
      PROVE  UNCHANGED <<row, revs>>
  BY <1>2 DEF Load, ReadTarget, Number, Vanish, Count, ReadGate, Attach, Detach, SetDriver,
     SetPersona, SetGate, RecordVerdict
<1>3. ASSUME NEW q \in Requests,
             Save(q) \/ AppendRevision(q) \/ Create(q) \/ Delete(q)
      PROVE  UNCHANGED <<row, revs>> \/ Saved(q) \/ Appended(q) \/ Created(q) \/ Deleted(q)
  BY <1>3, SaveWrites, AppendWrites, CreateWrites, DeleteWrites
<1> QED BY <1>1, <1>2, <1>3 DEF Next

\* The property of one driver; a step changes one row.
History(d) ==
    Exists(d) =>
        /\ Len(revs[d]) = row[d].version - 1
        /\ \A n \in DOMAIN revs[d] : revs[d][n].version = n + 1
        /\ revs[d] # <<>> => revs[d][Len(revs[d])].content = row[d].content

LEMMA HistoryStep ==
    TypeInv /\ HistoryFollowsDriver /\ [Next]_vars => HistoryFollowsDriver'
<1> SUFFICES ASSUME TypeInv, HistoryFollowsDriver, [Next]_vars, NEW d \in Drivers
             PROVE  History(d)'
  BY DEF HistoryFollowsDriver, History
<1>0. /\ row \in [Rows -> Row] /\ revs \in [Rows -> Seq(Revision)]
      /\ d \in Rows /\ row[d] \in Row /\ revs[d] \in Seq(Revision)
  BY DEF TypeInv, TypeOK, Rows
<1>1. History(d)
  BY DEF HistoryFollowsDriver, History
<1>2. CASE UNCHANGED <<row, revs>>
  BY <1>1, <1>2 DEF History, Exists
<1>3. ASSUME NEW q \in Requests, Saved(q) \/ Appended(q) \/ Created(q) \/ Deleted(q),
             Ask[q].on # d
      PROVE  History(d)'
  <2>1. row'[d] = row[d] /\ revs'[d] = revs[d]
    BY <1>0, <1>3 DEF Saved, Appended, Created, Deleted
  <2> QED BY <1>1, <2>1 DEF History, Exists
<1>4. ASSUME NEW q \in Requests, Saved(q), Ask[q].on = d
      PROVE  History(d)'
  <2> DEFINE revision == [content |-> req[q].content, version |-> row[d].version + 1]
  <2>1. /\ row'[d] = [version |-> row[d].version + 1, content |-> req[q].content]
        /\ revs'[d] = Append(revs[d], revision)
        /\ Exists(d) /\ req[q].content \in Names
    BY <1>0, <1>4 DEF Saved, Matches
  <2>2. row[d].version \in Nat /\ revision \in Revision
    BY <1>0, <2>1 DEF Row, Revision
  <2>3. /\ revision.version = row[d].version + 1 /\ revision.content = req[q].content
        /\ row'[d].version = row[d].version + 1 /\ row'[d].content = req[q].content
    BY <2>1
  <2>4. /\ Len(revs[d]) = row[d].version - 1
        /\ \A n \in DOMAIN revs[d] : revs[d][n].version = n + 1
    BY <1>1, <2>1 DEF History
  <2> HIDE DEF revision
  <2>5. /\ Len(revs'[d]) = Len(revs[d]) + 1
        /\ revs'[d][Len(revs[d]) + 1] = revision
        /\ \A n \in DOMAIN revs[d] : revs'[d][n] = revs[d][n]
        /\ DOMAIN revs'[d] = DOMAIN revs[d] \union {Len(revs[d]) + 1}
    BY <1>0, <2>1, <2>2
  <2>6. \A n \in DOMAIN revs'[d] : revs'[d][n].version = n + 1
    BY <2>2, <2>3, <2>4, <2>5
  <2>7. Len(revs'[d]) = row'[d].version - 1
    BY <2>2, <2>3, <2>4, <2>5
  <2> QED BY <2>3, <2>5, <2>6, <2>7 DEF History
<1>5. ASSUME NEW q \in Requests, Created(q), Ask[q].on = d
      PROVE  History(d)'
  <2>1. /\ row[d] = NoRow /\ revs' = revs
        /\ row'[d] = [version |-> 1, content |-> Ask[q].to]
    BY <1>0, <1>5 DEF Created
  <2>2. revs[d] = <<>>
    BY <1>0, <2>1 DEF TypeInv, RowsInv, NoRow
  <2> QED BY <2>1, <2>2 DEF History
<1>6. ASSUME NEW q \in Requests, Deleted(q), Ask[q].on = d
      PROVE  History(d)'
  <2>1. row'[d].content = None
    BY <1>0, <1>6 DEF Deleted
  <2> QED BY <2>1 DEF History, Exists
<1>7. ASSUME NEW q \in Requests, Appended(q)
      PROVE  Ask[q].on # d
  BY <1>7, CatalogueAssumption DEF Appended
<1> QED BY <1>2, <1>3, <1>4, <1>5, <1>6, <1>7, RowSteps

(***************************************************************************)
(* The history of a driver is that of its row, whatever saves, reverts and *)
(* deletions race for it: row and revision are written in one transaction  *)
(* (driver.ts, update and revertToRevision).                               *)
(***************************************************************************)
THEOREM DriverHistoryHolds == Spec => []HistoryFollowsDriver
<1>1. Init => HistoryFollowsDriver
  <2> SUFFICES ASSUME Init, NEW d \in Drivers, Exists(d)
               PROVE  Len(revs[d]) = row[d].version - 1 /\ revs[d] = <<>>
    BY DEF HistoryFollowsDriver
  <2> QED BY DEF Init, Exists, NoRow, Rows
<1> QED BY <1>1, TypeInvHolds, HistoryStep, PTL DEF Spec

-------------------------------------------------------------------------------
(* Revisions outside a transaction. *)

\* Saved, and about to write its revision.
Numbering(q) == req[q].pc \in {"number", "append"}

Recorded(s, v) == \E n \in DOMAIN revs[s] : revs[s][n].version = v

\* The versions of a skill: each recorded once, or in the hands of one request.
Accounts(s) ==
    Exists(s) =>
        /\ \A m, n \in DOMAIN revs[s] : revs[s][m].version = revs[s][n].version => m = n
        /\ \A n \in DOMAIN revs[s] : revs[s][n].version <= row[s].version
        /\ \A q \in Requests : Ask[q].on = s /\ Numbering(q) =>
              /\ req[q].seen.version + 1 <= row[s].version
              /\ ~Recorded(s, req[q].seen.version + 1)
        /\ \A q, p \in Requests :
              /\ Ask[q].on = s /\ Numbering(q) /\ Ask[p].on = s /\ Numbering(p) /\ p # q
              => req[q].seen.version # req[p].seen.version

AccountsInv == \A s \in Skills : Accounts(s)

\* A skill that is not written keeps its accounts, if the request that takes the
\* step takes nothing into its hands.
LEMMA UntouchedAccounts ==
    ASSUME NEW s \in Skills, Accounts(s), NEW q \in Requests,
           row'[s] = row[s], revs'[s] = revs[s],
           \A p \in Requests \ {q} : req'[p] = req[p],
           Ask[q].on = s /\ Numbering(q)' => Numbering(q) /\ req'[q].seen = req[q].seen
    PROVE  Accounts(s)'
<1> SUFFICES ASSUME Exists(s)
             PROVE  Accounts(s)'
  BY DEF Accounts, Exists
<1>1. \A p \in Requests : Ask[p].on = s /\ Numbering(p)' =>
          Numbering(p) /\ req'[p].seen = req[p].seen
  BY DEF Numbering
<1>3. \A v : Recorded(s, v)' <=> Recorded(s, v)
  BY DEF Recorded
<1>4. /\ \A m, n \in DOMAIN revs'[s] : revs'[s][m].version = revs'[s][n].version => m = n
      /\ \A n \in DOMAIN revs'[s] : revs'[s][n].version <= row'[s].version
  BY DEF Accounts
<1>5. \A p \in Requests : Ask[p].on = s /\ Numbering(p)' =>
          /\ req'[p].seen.version + 1 <= row'[s].version
          /\ ~Recorded(s, req[p].seen.version + 1)'
  BY <1>1, <1>3 DEF Accounts
<1>6. \A r, p \in Requests :
          /\ Ask[r].on = s /\ Numbering(r)' /\ Ask[p].on = s /\ Numbering(p)' /\ p # r
          => req'[r].seen.version # req'[p].seen.version
  BY <1>1 DEF Accounts
<1> QED BY <1>4, <1>5, <1>6 DEF Accounts

\* A save hands the new version to its own request.
LEMMA SavedAccounts ==
    ASSUME TypeInv, NEW s \in Skills, Accounts(s), NEW q \in Requests, Ask[q].on = s,
           Save(q), Saved(q)
    PROVE  Accounts(s)'
<1>0. /\ row \in [Rows -> Row] /\ req \in [Requests -> Request] /\ s \in Rows
      /\ \A p \in Requests : req[p].seen.version \in Nat
      /\ \A n \in DOMAIN revs[s] : revs[s][n].version \in Nat
  <2>1. row \in [Rows -> Row] /\ req \in [Requests -> Request] /\ s \in Rows
    BY DEF TypeInv, TypeOK, Rows
  <2>2. revs[s] \in Seq(Revision)
    BY <2>1 DEF TypeInv
  <2>3. \A n \in DOMAIN revs[s] : revs[s][n] \in Revision
    BY <2>2
  <2> QED BY <2>1, <2>3 DEF Request, Row, Revision
<1>1. /\ Exists(s) /\ row[s].version = req[q].seen.version
      /\ row'[s].version = row[s].version + 1 /\ revs' = revs
  BY <1>0, CatalogueAssumption DEF Saved, Matches
<1>2. row[s].version \in Nat
  BY <1>0, <1>1
<1>3. row' # row
  <2>1. row'[s].version # row[s].version
    BY <1>1, <1>2
  <2> QED BY <2>1
<1>4. /\ req[q].pc = "write" /\ Goto(q, "number")
  BY <1>3, CatalogueAssumption DEF Save, InTransaction
<1>5. /\ req'[q].pc = "number" /\ req'[q].seen = req[q].seen
      /\ \A p \in Requests \ {q} : req'[p] = req[p]
      /\ ~Numbering(q)
  BY <1>0, <1>4 DEF Goto, Numbering, Request
<1>6. \A v : Recorded(s, v)' <=> Recorded(s, v)
  BY <1>1 DEF Recorded
<1>7. \A n \in DOMAIN revs[s] : revs[s][n].version <= row[s].version
  BY <1>1 DEF Accounts
<1>8. ~Recorded(s, row[s].version + 1)
  BY <1>0, <1>2, <1>7 DEF Recorded
<1>9. \A p \in Requests : Ask[p].on = s /\ Numbering(p)' /\ p # q =>
          /\ Numbering(p) /\ req'[p].seen = req[p].seen
          /\ req[p].seen.version + 1 <= row[s].version
          /\ ~Recorded(s, req[p].seen.version + 1)
  BY <1>1, <1>5 DEF Accounts, Numbering
<1>10. /\ \A m, n \in DOMAIN revs'[s] : revs'[s][m].version = revs'[s][n].version => m = n
       /\ \A n \in DOMAIN revs'[s] : revs'[s][n].version <= row'[s].version
  <2>1. \A m, n \in DOMAIN revs[s] : revs[s][m].version = revs[s][n].version => m = n
    BY <1>1 DEF Accounts
  <2> QED BY <1>0, <1>1, <1>2, <1>7, <2>1
<1>11. \A p \in Requests : Ask[p].on = s /\ Numbering(p)' =>
          /\ req'[p].seen.version + 1 <= row'[s].version
          /\ ~Recorded(s, req[p].seen.version + 1)'
  <2> SUFFICES ASSUME NEW p \in Requests, Ask[p].on = s, Numbering(p)'
               PROVE  /\ req'[p].seen.version + 1 <= row'[s].version
                      /\ ~Recorded(s, req'[p].seen.version + 1)
    BY <1>6
  <2>1. CASE p = q
    BY <1>1, <1>2, <1>5, <1>8, <2>1
  <2>2. CASE p # q
    BY <1>0, <1>1, <1>2, <1>9, <2>2
  <2> QED BY <2>1, <2>2
<1>12. \A r, p \in Requests :
          /\ Ask[r].on = s /\ Numbering(r)' /\ Ask[p].on = s /\ Numbering(p)' /\ p # r
          => req'[r].seen.version # req'[p].seen.version
  <2> SUFFICES ASSUME NEW r \in Requests, NEW p \in Requests, Ask[r].on = s, Numbering(r)',
                      Ask[p].on = s, Numbering(p)', p # r
               PROVE  req'[r].seen.version # req'[p].seen.version
    OBVIOUS
  <2>1. CASE p # q /\ r # q
    BY <1>1, <1>9, <2>1 DEF Accounts
  <2>2. CASE p = q \/ r = q
    BY <1>0, <1>1, <1>2, <1>5, <1>9, <2>2
  <2> QED BY <2>1, <2>2
<1> QED BY <1>10, <1>11, <1>12 DEF Accounts

\* A revision that is written takes its version out of its request's hands.
LEMMA AppendedAccounts ==
    ASSUME TypeInv, NEW s \in Skills, Accounts(s), NEW q \in Requests, Ask[q].on = s,
           Numbering(q), Appended(q), End(q, "ok")
    PROVE  Accounts(s)'
<1> DEFINE kept == [content |-> req[q].content, version |-> req[q].seen.version + 1]
           w == req[q].seen.version + 1
<1>0. /\ revs \in [Rows -> Seq(Revision)] /\ req \in [Requests -> Request] /\ s \in Rows
      /\ revs[s] \in Seq(Revision)
      /\ \A p \in Requests : req[p].seen.version \in Nat
  BY DEF TypeInv, TypeOK, Rows, Request, Row
<1>1. /\ Exists(s) /\ row' = row /\ revs'[s] = Append(revs[s], kept)
      /\ req[q].content \in Names
  BY <1>0 DEF Appended
<1>2. /\ req'[q].pc = "done" /\ req'[q].end = "ok"
      /\ \A p \in Requests \ {q} : req'[p] = req[p]
  BY <1>0 DEF End, Request
<1>3. kept \in Revision /\ kept.version = w /\ w \in Nat
  BY <1>0, <1>1 DEF Revision
<1> HIDE DEF kept
<1>4. /\ DOMAIN revs'[s] = DOMAIN revs[s] \union {Len(revs[s]) + 1}
      /\ Len(revs[s]) + 1 \notin DOMAIN revs[s]
      /\ revs'[s][Len(revs[s]) + 1] = kept
      /\ \A n \in DOMAIN revs[s] : revs'[s][n] = revs[s][n]
  BY <1>0, <1>1, <1>3
<1>5. \A v : Recorded(s, v)' <=> Recorded(s, v) \/ v = w
  BY <1>3, <1>4 DEF Recorded
<1>6. w <= row[s].version /\ ~Recorded(s, w)
  BY <1>1 DEF Accounts
<1>7. \A p \in Requests : Ask[p].on = s /\ Numbering(p)' =>
          /\ p # q /\ Numbering(p) /\ req'[p] = req[p]
          /\ req[p].seen.version + 1 <= row[s].version
          /\ ~Recorded(s, req[p].seen.version + 1)
          /\ req[p].seen.version # req[q].seen.version
  BY <1>1, <1>2 DEF Accounts, Numbering
<1>8. /\ \A m, n \in DOMAIN revs'[s] : revs'[s][m].version = revs'[s][n].version => m = n
      /\ \A n \in DOMAIN revs'[s] : revs'[s][n].version <= row'[s].version
  <2>1. /\ \A m, n \in DOMAIN revs[s] : revs[s][m].version = revs[s][n].version => m = n
        /\ \A n \in DOMAIN revs[s] : revs[s][n].version <= row[s].version
    BY <1>1 DEF Accounts
  <2>2. \A n \in DOMAIN revs[s] : revs[s][n].version # w
    BY <1>6 DEF Recorded
  <2> QED BY <1>1, <1>3, <1>4, <1>6, <2>1, <2>2
<1>9. \A p \in Requests : Ask[p].on = s /\ Numbering(p)' =>
          /\ req'[p].seen.version + 1 <= row'[s].version
          /\ ~Recorded(s, req[p].seen.version + 1)'
  <2> SUFFICES ASSUME NEW p \in Requests, Ask[p].on = s, Numbering(p)'
               PROVE  /\ req'[p].seen.version + 1 <= row'[s].version
                      /\ ~Recorded(s, req'[p].seen.version + 1) /\ req'[p].seen.version + 1 # w
    BY <1>5
  <2> QED BY <1>0, <1>1, <1>7
<1>10. \A r, p \in Requests :
          /\ Ask[r].on = s /\ Numbering(r)' /\ Ask[p].on = s /\ Numbering(p)' /\ p # r
          => req'[r].seen.version # req'[p].seen.version
  BY <1>1, <1>7 DEF Accounts
<1> QED BY <1>8, <1>9, <1>10 DEF Accounts

\* A save or a revert of a skill that was answered as done.
Settled(q, s) ==
    /\ Ask[q].on = s /\ Ask[q].op \in {"save", "revert"}
    /\ req[q].pc = "done" /\ req[q].end = "ok"

\* What an action does to the request that takes it, as far as numbering goes:
\* only a save makes it a request that numbers, and only the revision settles it.
LEMMA NumberingSteps ==
    ASSUME TypeInv, NEW q \in Requests
    PROVE  /\ \/ Load(q) \/ ReadTarget(q) \/ Create(q) \/ Count(q) \/ Delete(q) \/ Attach(q)
              \/ Detach(q) \/ SetDriver(q) \/ SetPersona(q) \/ SetGate(q) \/ ReadGate(q)
              \/ RecordVerdict(q) \/ (Save(q) /\ ~Saved(q)) \/ Vanish(q)
              \/ AppendRevision(q)
              => ~Numbering(q)'
           /\ Number(q) => Numbering(q) /\ req'[q].seen = req[q].seen
           /\ AppendRevision(q) => Numbering(q)
           /\ \/ Load(q) \/ ReadTarget(q) \/ Create(q) \/ Count(q) \/ Delete(q) \/ Attach(q)
              \/ Detach(q) \/ SetDriver(q) \/ SetPersona(q) \/ SetGate(q) \/ ReadGate(q)
              \/ RecordVerdict(q) \/ Save(q) \/ Vanish(q) \/ Number(q)
              \/ (AppendRevision(q) /\ ~Appended(q))
              => \A s \in Skills : ~Settled(q, s)'
<1>0. req \in [Requests -> Request] /\ req[q] \in Request /\ RequestOK(q, req[q])
  BY DEF TypeInv, TypeOK, RequestsInv
<1>1. \A how : End(q, how) => /\ req'[q].pc = "done" /\ req'[q].end = how
                              /\ req'[q].seen = req[q].seen
  BY <1>0 DEF End, Request
<1>2. \A pc : Goto(q, pc) => req'[q].pc = pc /\ req'[q].seen = req[q].seen
  BY <1>0 DEF Goto, Request
<1>3. ASSUME \/ Create(q) \/ Attach(q) \/ Detach(q) \/ SetDriver(q) \/ SetPersona(q)
             \/ SetGate(q) \/ Delete(q) \/ RecordVerdict(q)
      PROVE  ~Numbering(q)' /\ \A s \in Skills : ~Settled(q, s)'
  <2>1. \E how : End(q, how)
    BY <1>3 DEF Create, Attach, Detach, SetDriver, SetPersona, SetGate, Delete, RecordVerdict
  <2>2. Ask[q].op \notin {"save", "revert"}
    BY <1>0, <1>3 DEF Create, Attach, Detach, SetDriver, SetPersona, SetGate, Delete,
       RecordVerdict, Starts, RequestOK
  <2> QED BY <1>1, <2>1, <2>2 DEF Numbering, Settled
<1>4. ASSUME Load(q) \/ ReadTarget(q) \/ Count(q) \/ ReadGate(q) \/ Vanish(q)
      PROVE  ~Numbering(q)' /\ \A s \in Skills : ~Settled(q, s)'
  <2>2. \/ req'[q].pc \in {"page", "write", "delete", "record"}
        \/ req'[q].pc = "done" /\ req'[q].end \in {"error", "lost"}
    <3>1. CASE Load(q)
      BY <1>0, <3>1 DEF Load, Request
    <3>2. CASE ReadTarget(q)
      <4>1. CASE End(q, "error")
        BY <1>1, <4>1
      <4>2. CASE \E c : req' = [req EXCEPT ![q].pc = "write", ![q].content = c]
        BY <1>0, <4>2 DEF Request
      <4> QED BY <3>2, <4>1, <4>2 DEF ReadTarget
    <3>3. CASE Count(q)
      BY <1>1, <1>2, <3>3 DEF Count
    <3>4. CASE ReadGate(q)
      BY <1>0, <3>4 DEF ReadGate, Request
    <3>5. CASE Vanish(q)
      BY <1>1, <3>5 DEF Vanish
    <3> QED BY <1>4, <3>1, <3>2, <3>3, <3>4, <3>5
  <2> QED BY <2>2 DEF Numbering, Settled
<1>5. ASSUME Save(q), ~Saved(q)
      PROVE  ~Numbering(q)'
  <2>1. UNCHANGED <<row, revs>>
    BY <1>5, SaveWrites
  <2>2. ~(Matches(Ask[q].on, req[q].seen) /\ ~NameTaken(Ask[q].on, req[q].content))
    <3> SUFFICES ASSUME Matches(Ask[q].on, req[q].seen), ~NameTaken(Ask[q].on, req[q].content)
                 PROVE  FALSE
      OBVIOUS
    <3>1. Ask[q].on \in Rows
      <4>1. Ask[q].op \in {"save", "revert"}
        BY <1>5 DEF Save, TypeInv, RequestsInv, RequestOK
      <4> QED BY <4>1, AskTypes
    <3>2. row[Ask[q].on] \in Row /\ row \in [Rows -> Row]
      BY <3>1 DEF TypeInv, TypeOK
    <3>3. row'[Ask[q].on].version = row[Ask[q].on].version + 1
      BY <1>5, <3>1, <3>2 DEF Save, Updated
    <3>4. row[Ask[q].on].version \in Nat
      BY <3>2 DEF Row
    <3> QED BY <2>1, <3>3, <3>4
  <2>3. \E how : End(q, how)
    BY <1>5, <2>2 DEF Save
  <2> QED BY <1>1, <2>3 DEF Numbering
<1>6. ASSUME Save(q), Ask[q].on \in Skills
      PROVE  \A s \in Skills : ~Settled(q, s)'
  <2>1. ~InTransaction(Ask[q].on)
    BY <1>6, CatalogueAssumption DEF InTransaction
  <2>2. Goto(q, "number") \/ End(q, "error") \/ End(q, "conflict")
    BY <1>6, <2>1 DEF Save
  <2> QED BY <1>1, <1>2, <2>2 DEF Settled
<1>7. Number(q) => /\ Numbering(q) /\ req'[q].seen = req[q].seen
                   /\ \A s \in Skills : ~Settled(q, s)'
  BY <1>0 DEF Number, Numbering, Settled, Request
<1>8. AppendRevision(q) => Numbering(q) /\ ~Numbering(q)'
  <2>1. AppendRevision(q) => \E how : End(q, how)
    BY DEF AppendRevision
  <2> QED BY <1>1, <2>1 DEF AppendRevision, Numbering
<1>9. ASSUME AppendRevision(q), ~Appended(q)
      PROVE  \A s \in Skills : ~Settled(q, s)'
  <2>1. ~MayAppend(Ask[q].on, req[q].number)
    <3> SUFFICES ASSUME MayAppend(Ask[q].on, req[q].number)
                 PROVE  FALSE
      OBVIOUS
    <3>1. UNCHANGED revs
      BY <1>9, AppendWrites
    <3>2. Ask[q].on \in Rows /\ revs \in [Rows -> Seq(Revision)]
      BY <1>9 DEF AppendRevision, TypeInv, RequestsInv, RequestOK, Rows
    <3>3. DOMAIN revs'[Ask[q].on] = DOMAIN revs[Ask[q].on] \union {req[q].number}
      BY <1>9, <3>2 DEF AppendRevision
    <3>4. req[q].number \notin DOMAIN revs[Ask[q].on]
      BY DEF MayAppend
    <3> QED BY <3>1, <3>3, <3>4
  <2> QED BY <1>1, <1>9, <2>1 DEF AppendRevision, Settled
<1>10. Save(q) => \A s \in Skills : ~Settled(q, s)'
  <2>1. CASE Ask[q].on \in Skills
    BY <1>6, <2>1
  <2>2. CASE Ask[q].on \notin Skills
    BY <2>2 DEF Settled
  <2> QED BY <2>1, <2>2
<1> QED BY <1>3, <1>4, <1>5, <1>7, <1>8, <1>9, <1>10

LEMMA AccountsStep == TypeInv /\ AccountsInv /\ [Next]_vars => AccountsInv'
<1> SUFFICES ASSUME TypeInv, AccountsInv, [Next]_vars, NEW s \in Skills
             PROVE  Accounts(s)'
  BY DEF AccountsInv
<1>0. /\ row \in [Rows -> Row] /\ revs \in [Rows -> Seq(Revision)]
      /\ req \in [Requests -> Request] /\ s \in Rows /\ Accounts(s)
  BY DEF TypeInv, TypeOK, Rows, AccountsInv
<1>1. CASE UNCHANGED vars
  BY <1>0, <1>1 DEF vars, Accounts, Exists, Recorded, Numbering
<1> DEFINE Quiet(q) == \/ Load(q) \/ ReadTarget(q) \/ Number(q) \/ Vanish(q) \/ Count(q)
                       \/ Attach(q) \/ Detach(q) \/ SetDriver(q) \/ SetPersona(q)
                       \/ SetGate(q) \/ ReadGate(q) \/ RecordVerdict(q)
           Writes(q) == Save(q) \/ AppendRevision(q) \/ Create(q) \/ Delete(q)
<1>2. ASSUME NEW q \in Requests, Quiet(q) \/ Writes(q)
      PROVE  \A p \in Requests \ {q} : req'[p] = req[p]
  BY <1>0, <1>2 DEF Load, ReadTarget, Number, Vanish, Count, Attach, Detach, SetDriver,
     SetPersona, SetGate, ReadGate, RecordVerdict, Save, AppendRevision, Create, Delete,
     End, Goto
<1>3. ASSUME NEW q \in Requests, Quiet(q)
      PROVE  Accounts(s)'
  <2>1. UNCHANGED <<row, revs>>
    BY <1>3 DEF Load, ReadTarget, Number, Vanish, Count, Attach, Detach, SetDriver,
       SetPersona, SetGate, ReadGate, RecordVerdict
  <2>2. Numbering(q)' => Numbering(q) /\ req'[q].seen = req[q].seen
    BY <1>3, NumberingSteps
  <2> QED BY <1>0, <1>2, <1>3, <2>1, <2>2, UntouchedAccounts
<1>4. ASSUME NEW q \in Requests, Writes(q), Ask[q].on # s
      PROVE  Accounts(s)'
  <2>1. row'[s] = row[s] /\ revs'[s] = revs[s]
    <3>1. UNCHANGED <<row, revs>> \/ Saved(q) \/ Appended(q) \/ Created(q) \/ Deleted(q)
      BY <1>4, SaveWrites, AppendWrites, CreateWrites, DeleteWrites
    <3> QED BY <1>0, <1>4, <3>1 DEF Saved, Appended, Created, Deleted
  <2> QED BY <1>0, <1>2, <1>4, <2>1, UntouchedAccounts
<1>5. ASSUME NEW q \in Requests, Writes(q), Ask[q].on = s
      PROVE  Accounts(s)'
  <2>1. CASE Save(q) /\ Saved(q)
    BY <1>0, <1>5, <2>1, SavedAccounts
  <2>2. CASE AppendRevision(q) /\ Appended(q)
    <3>1. Numbering(q)
      BY <2>2, NumberingSteps
    <3>2. revs'[s] # revs[s]
      <4>1. revs[s] \in Seq(Revision) /\ s \in DOMAIN revs
        BY <1>0
      <4>2. \E r : revs'[s] = Append(revs[s], r)
        BY <1>0, <1>5, <2>2 DEF Appended
      <4>3. PICK r : revs'[s] = Append(revs[s], r)
        BY <4>2
      <4>4. Len(revs'[s]) = Len(revs[s]) + 1 /\ Len(revs[s]) \in Nat
        BY <4>1, <4>3
      <4> QED BY <4>4
    <3>3. End(q, "ok")
      BY <2>2, <3>2 DEF AppendRevision
    <3> QED BY <1>0, <1>5, <2>2, <3>1, <3>3, AppendedAccounts
  <2>3. CASE Save(q) /\ ~Saved(q)
    <3>1. UNCHANGED <<row, revs>> /\ ~Numbering(q)'
      BY <2>3, SaveWrites, NumberingSteps
    <3> QED BY <1>0, <1>2, <1>5, <3>1, UntouchedAccounts
  <2>4. CASE AppendRevision(q) /\ ~Appended(q)
    <3>1. UNCHANGED <<row, revs>> /\ ~Numbering(q)'
      BY <2>4, AppendWrites, NumberingSteps
    <3> QED BY <1>0, <1>2, <1>5, <3>1, UntouchedAccounts
  <2>5. CASE (Create(q) \/ Delete(q)) /\ UNCHANGED <<row, revs>>
    <3>1. ~Numbering(q)'
      BY <2>5, NumberingSteps
    <3> QED BY <1>0, <1>2, <1>5, <2>5, <3>1, UntouchedAccounts
  <2>6. CASE Delete(q) /\ Deleted(q)
    <3>1. ~Exists(s)'
      BY <1>0, <1>5, <2>6 DEF Deleted, Exists
    <3> QED BY <3>1 DEF Accounts
  <2>7. CASE Create(q) /\ Created(q)
    <3>1. row[s] = NoRow /\ row'[s].version = 1 /\ revs'[s] = <<>>
      BY <1>0, <1>5, <2>7 DEF Created, NoRow, TypeInv, RowsInv
    <3>2. \A p \in Requests : Ask[p].on = s => ~Numbering(p)
      <4> SUFFICES ASSUME NEW p \in Requests, Ask[p].on = s, Numbering(p)
                   PROVE  FALSE
        OBVIOUS
      <4>1. req[p].seen.version >= 1 /\ req[p].seen.version <= row[s].version
        BY DEF TypeInv, RequestsInv, RequestOK, Numbering
      <4>2. req[p].seen.version \in Nat /\ row[s].version = 0
        <5>1. req[p].seen \in Row
          BY <1>0 DEF Request
        <5> QED BY <3>1, <5>1 DEF Row, NoRow
      <4> QED BY <4>1, <4>2
    <3>3. \A p \in Requests : Ask[p].on = s => ~Numbering(p)'
      <4>1. ~Numbering(q)'
        BY <2>7, NumberingSteps
      <4> QED BY <1>2, <1>5, <3>2, <4>1 DEF Numbering
    <3>4. DOMAIN revs'[s] = {}
      BY <3>1
    <3> QED BY <3>3, <3>4 DEF Accounts
  <2> QED BY <1>5, <2>1, <2>2, <2>3, <2>4, <2>5, <2>6, <2>7, CreateWrites, DeleteWrites
<1> QED BY <1>1, <1>3, <1>4, <1>5 DEF Next

\* Of an answered save or revert of a skill: the skill was there, and as long as
\* it is, the history holds what was written.
Kept(q, s) == \E n \in DOMAIN revs[s] :
                 revs[s][n] = [content |-> req[q].content,
                               version |-> req[q].seen.version + 1]

Answer(q, s) == Settled(q, s) => row[s].version # 0 /\ (Exists(s) => Kept(q, s))

AnswersInv == \A q \in Requests, s \in Skills : Answer(q, s)

\* A request that is settled was settled before, or wrote its revision now.
LEMMA SettledBefore ==
    ASSUME TypeInv, [Next]_vars, NEW p \in Requests, NEW s \in Skills, Settled(p, s)'
    PROVE  \/ Settled(p, s) /\ req'[p] = req[p]
           \/ AppendRevision(p) /\ Appended(p)
<1>0. req \in [Requests -> Request]
  BY DEF TypeInv, TypeOK
<1>1. CASE UNCHANGED vars
  BY <1>1 DEF vars, Settled
<1>2. ASSUME NEW q \in Requests, q # p,
             \/ Load(q) \/ ReadTarget(q) \/ Save(q) \/ Number(q) \/ AppendRevision(q)
             \/ Vanish(q) \/ Create(q) \/ Count(q) \/ Delete(q) \/ Attach(q) \/ Detach(q)
             \/ SetDriver(q) \/ SetPersona(q) \/ SetGate(q) \/ ReadGate(q) \/ RecordVerdict(q)
      PROVE  Settled(p, s) /\ req'[p] = req[p]
  <2>1. req'[p] = req[p]
    BY <1>0, <1>2 DEF Load, ReadTarget, Number, Vanish, Count, Attach, Detach, SetDriver,
       SetPersona, SetGate, ReadGate, RecordVerdict, Save, AppendRevision, Create, Delete,
       End, Goto
  <2> QED BY <2>1 DEF Settled
<1>3. ASSUME \/ Load(p) \/ ReadTarget(p) \/ Save(p) \/ Number(p) \/ AppendRevision(p)
             \/ Vanish(p) \/ Create(p) \/ Count(p) \/ Delete(p) \/ Attach(p) \/ Detach(p)
             \/ SetDriver(p) \/ SetPersona(p) \/ SetGate(p) \/ ReadGate(p) \/ RecordVerdict(p)
      PROVE  AppendRevision(p) /\ Appended(p)
  BY <1>3, NumberingSteps
<1> QED BY <1>1, <1>2, <1>3 DEF Next

LEMMA AnswersStep == TypeInv /\ AnswersInv /\ [Next]_vars => AnswersInv'
<1> SUFFICES ASSUME TypeInv, AnswersInv, [Next]_vars, NEW q \in Requests, NEW s \in Skills,
                    Settled(q, s)'
             PROVE  row'[s].version # 0 /\ (Exists(s)' => Kept(q, s)')
  BY DEF AnswersInv, Answer
<1>0. /\ row \in [Rows -> Row] /\ revs \in [Rows -> Seq(Revision)] /\ s \in Rows
      /\ row[s] \in Row /\ row[s].version \in Nat /\ revs[s] \in Seq(Revision)
      /\ req \in [Requests -> Request] /\ s \notin Drivers
  <2>1. row \in [Rows -> Row] /\ revs \in [Rows -> Seq(Revision)] /\ s \in Rows
        /\ req \in [Requests -> Request] /\ s \notin Drivers
    BY CatalogueAssumption DEF TypeInv, TypeOK, Rows
  <2> QED BY <2>1 DEF Row
<1> DEFINE kept(p) == [content |-> req[p].content, version |-> req[p].seen.version + 1]
<1>1. ASSUME NEW p \in Requests, Appended(p), Ask[p].on = s
      PROVE  /\ row' = row /\ Exists(s) /\ row[s].version # 0
             /\ \A n \in DOMAIN revs[s] : n \in DOMAIN revs'[s] /\ revs'[s][n] = revs[s][n]
             /\ \E n \in DOMAIN revs'[s] : revs'[s][n] = kept(p)
  <2>1. /\ row' = row /\ Exists(s) /\ revs'[s] = Append(revs[s], kept(p))
        /\ req[p].content \in Names
    BY <1>0, <1>1 DEF Appended
  <2>2. row[s].version >= 1
    BY <1>0, <2>1 DEF TypeInv, RowsInv
  <2>3. kept(p) \in Revision
    <3>1. req[p].seen.version \in Nat
      BY <1>0 DEF Request, Row
    <3> QED BY <2>1, <3>1 DEF Revision
  <2> HIDE DEF kept
  <2>4. /\ Len(revs[s]) + 1 \in DOMAIN revs'[s] /\ revs'[s][Len(revs[s]) + 1] = kept(p)
        /\ \A n \in DOMAIN revs[s] : n \in DOMAIN revs'[s] /\ revs'[s][n] = revs[s][n]
    BY <1>0, <2>1, <2>3
  <2> QED BY <1>0, <2>1, <2>2, <2>4
<1>2. CASE AppendRevision(q) /\ Appended(q)
  <2>1. Ask[q].on = s
    BY DEF Settled
  <2>2. req'[q].content = req[q].content /\ req'[q].seen = req[q].seen
    <3>1. \E how : End(q, how)
      BY <1>2 DEF AppendRevision
    <3> QED BY <1>0, <3>1 DEF End, Request
  <2> QED BY <1>1, <1>2, <2>1, <2>2 DEF Kept
<1>3. CASE Settled(q, s) /\ req'[q] = req[q]
  <2>1. row[s].version # 0 /\ (Exists(s) => Kept(q, s))
    BY <1>3 DEF AnswersInv, Answer
  <2>2. CASE row'[s] = row[s] /\ revs'[s] = revs[s]
    BY <1>3, <2>1, <2>2 DEF Exists, Kept
  <2>3. ASSUME NEW p \in Requests, Appended(p), Ask[p].on = s
        PROVE  row'[s].version # 0 /\ (Exists(s)' => Kept(q, s)')
    BY <1>1, <1>3, <2>1, <2>3 DEF Kept
  <2>4. ASSUME NEW p \in Requests, Saved(p), Ask[p].on = s
        PROVE  row'[s].version # 0 /\ (Exists(s)' => Kept(q, s)')
    <3>1. row'[s].version = row[s].version + 1 /\ revs' = revs /\ Exists(s)
      BY <1>0, <2>4 DEF Saved, Matches
    <3>2. row'[s].version # 0
      BY <1>0, <3>1
    <3> QED BY <1>3, <2>1, <3>1, <3>2 DEF Kept
  <2>5. ASSUME NEW p \in Requests, Created(p), Ask[p].on = s
        PROVE  FALSE
    BY <2>1, <2>5 DEF Created, NoRow
  <2>6. ASSUME NEW p \in Requests, Deleted(p), Ask[p].on = s
        PROVE  row'[s].version # 0 /\ ~Exists(s)'
    <3>1. row'[s] = [version |-> row[s].version, content |-> None]
      BY <1>0, <2>6 DEF Deleted
    <3> QED BY <2>1, <3>1 DEF Exists
  <2>7. ASSUME NEW p \in Requests, Saved(p) \/ Appended(p) \/ Created(p) \/ Deleted(p),
               Ask[p].on # s
        PROVE  row'[s] = row[s] /\ revs'[s] = revs[s]
    BY <1>0, <2>7 DEF Saved, Appended, Created, Deleted
  <2> QED BY <2>2, <2>3, <2>4, <2>5, <2>6, <2>7, RowSteps
<1> QED BY <1>2, <1>3, SettledBefore

(***************************************************************************)
(* A save or a revert of a skill that was answered as done stays in its    *)
(* history, and no version is there twice, although numbering and          *)
(* insertion are two statements outside any transaction                    *)
(* (snapshotSkillRevision, skill.ts, revertToRevision).                    *)
(***************************************************************************)
THEOREM SavedIsRecordedHolds == Spec => []SavedIsRecorded
<1>1. Init => AccountsInv /\ AnswersInv
  <2> SUFFICES ASSUME Init, NEW s \in Skills
               PROVE  Accounts(s) /\ \A q \in Requests : ~Settled(q, s)
    BY DEF AccountsInv, AnswersInv, Answer
  <2>1. revs[s] = <<>> /\ \A q \in Requests : ~Numbering(q) /\ ~Settled(q, s)
    BY DEF Init, Rows, Numbering, Settled, NoRequest
  <2>2. DOMAIN revs[s] = {}
    BY <2>1
  <2> QED BY <2>1, <2>2 DEF Accounts
<1>2. TypeInv /\ AccountsInv /\ AnswersInv => SavedIsRecorded
  BY DEF AccountsInv, Accounts, AnswersInv, Answer, SavedIsRecorded, Settled, Kept
<1> QED BY <1>1, <1>2, TypeInvHolds, AccountsStep, AnswersStep, PTL DEF Spec

-------------------------------------------------------------------------------
(* Optimistic concurrency: the requests implement VersionedRows. *)

\* One version of a row has one content, as long as the row is in the table.
SeenInv ==
    \A q \in Requests :
        /\ req[q].pc \in {"page", "write"}
        /\ Exists(Ask[q].on) /\ req[q].seen.version = row[Ask[q].on].version
        => req[q].seen = row[Ask[q].on]

LEMMA OneRequest ==
    ASSUME TypeInv, Next
    PROVE  \E q \in Requests :
              /\ \A p \in Requests \ {q} : req'[p] = req[p]
              /\ \/ Load(q) \/ ReadTarget(q) \/ Save(q) \/ Number(q) \/ AppendRevision(q)
                 \/ Vanish(q) \/ Create(q) \/ Count(q) \/ Delete(q) \/ Attach(q)
                 \/ Detach(q) \/ SetDriver(q) \/ SetPersona(q) \/ SetGate(q) \/ ReadGate(q)
                 \/ RecordVerdict(q)
<1>0. req \in [Requests -> Request]
  BY DEF TypeInv, TypeOK
<1>1. ASSUME NEW q \in Requests,
             \/ Load(q) \/ ReadTarget(q) \/ Save(q) \/ Number(q) \/ AppendRevision(q)
             \/ Vanish(q) \/ Create(q) \/ Count(q) \/ Delete(q) \/ Attach(q)
             \/ Detach(q) \/ SetDriver(q) \/ SetPersona(q) \/ SetGate(q) \/ ReadGate(q)
             \/ RecordVerdict(q)
      PROVE  \A p \in Requests \ {q} : req'[p] = req[p]
  BY <1>0, <1>1 DEF Load, ReadTarget, Number, Vanish, Count, Attach, Detach, SetDriver,
     SetPersona, SetGate, ReadGate, RecordVerdict, Save, AppendRevision, Create, Delete,
     End, Goto
<1> QED BY <1>1 DEF Next

\* A view is taken from the row, kept, or given up.
LEMMA ViewSteps ==
    ASSUME TypeInv, NEW q \in Requests,
           \/ Load(q) \/ ReadTarget(q) \/ Save(q) \/ Number(q) \/ AppendRevision(q)
           \/ Vanish(q) \/ Create(q) \/ Count(q) \/ Delete(q) \/ Attach(q)
           \/ Detach(q) \/ SetDriver(q) \/ SetPersona(q) \/ SetGate(q) \/ ReadGate(q)
           \/ RecordVerdict(q)
    PROVE  \/ /\ Load(q) /\ req'[q].pc \in {"page", "write"} /\ req'[q].seen = row[Ask[q].on]
              /\ Ask[q].on \in Rows /\ UNCHANGED row
           \/ /\ req[q].pc \in {"page", "write"} /\ req'[q].pc \in {"page", "write"}
              /\ req'[q].seen = req[q].seen /\ UNCHANGED row
           \/ req'[q].pc \notin {"page", "write"}
<1>0. req \in [Requests -> Request] /\ req[q] \in Request
  BY DEF TypeInv, TypeOK
<1>1. \A how : End(q, how) => req'[q].pc = "done"
  BY <1>0 DEF End, Request
<1>2. \A pc : Goto(q, pc) => req'[q].pc = pc
  BY <1>0 DEF Goto, Request
<1>3. CASE Load(q)
  <2>1. Ask[q].on \in Rows
    BY <1>3, AskTypes DEF Load, Starts
  <2>2. req'[q].pc \in {"page", "write"} /\ req'[q].seen = row[Ask[q].on]
    BY <1>0, <1>3 DEF Load, Request
  <2> QED BY <1>3, <2>1, <2>2 DEF Load
<1>4. CASE ReadTarget(q)
  <2>1. \/ End(q, "error")
        \/ \E c : req' = [req EXCEPT ![q].pc = "write", ![q].content = c]
    BY <1>4 DEF ReadTarget
  <2>2. req'[q].pc = "done" \/ (req'[q].pc = "write" /\ req'[q].seen = req[q].seen)
    BY <1>0, <1>1, <2>1 DEF Request
  <2> QED BY <1>4, <2>2 DEF ReadTarget
<1>5. ASSUME \/ Create(q) \/ Attach(q) \/ Detach(q) \/ SetDriver(q) \/ SetPersona(q)
             \/ SetGate(q) \/ Delete(q) \/ RecordVerdict(q) \/ Vanish(q) \/ AppendRevision(q)
             \/ Save(q) \/ Count(q)
      PROVE  req'[q].pc \notin {"page", "write"}
  <2>1. Goto(q, "number") \/ Goto(q, "delete") \/ \E how : End(q, how)
    BY <1>5 DEF Create, Attach, Detach, SetDriver, SetPersona, SetGate, Delete, RecordVerdict,
       Vanish, AppendRevision, Save, Count
  <2> QED BY <1>1, <1>2, <2>1
<1>6. ASSUME Number(q) \/ ReadGate(q)
      PROVE  req'[q].pc \notin {"page", "write"}
  BY <1>0, <1>6 DEF Number, ReadGate, Request
<1> QED BY <1>3, <1>4, <1>5, <1>6

LEMMA SeenStep == TypeInv /\ SeenInv /\ [Next]_vars => SeenInv'
<1> SUFFICES ASSUME TypeInv, SeenInv, [Next]_vars,
                    NEW q \in Requests, req'[q].pc \in {"page", "write"},
                    Exists(Ask[q].on)', req'[q].seen.version = row'[Ask[q].on].version
             PROVE  req'[q].seen = row'[Ask[q].on]
  BY DEF SeenInv
<1> DEFINE id == Ask[q].on
<1>0. row \in [Rows -> Row] /\ req \in [Requests -> Request]
  BY DEF TypeInv, TypeOK
<1>1. CASE UNCHANGED vars
  BY <1>1 DEF vars, SeenInv, Exists
<1>2. CASE Next
  <2>1. PICK r \in Requests :
          /\ \A p \in Requests \ {r} : req'[p] = req[p]
          /\ \/ Load(r) \/ ReadTarget(r) \/ Save(r) \/ Number(r) \/ AppendRevision(r)
             \/ Vanish(r) \/ Create(r) \/ Count(r) \/ Delete(r) \/ Attach(r)
             \/ Detach(r) \/ SetDriver(r) \/ SetPersona(r) \/ SetGate(r) \/ ReadGate(r)
             \/ RecordVerdict(r)
    BY <1>2, OneRequest
  <2>2. CASE r = q
    BY <2>1, <2>2, ViewSteps DEF SeenInv, Exists
  <2>3. CASE r # q
    <3>1. req'[q] = req[q] /\ req[q].pc \in {"page", "write"}
      BY <2>1, <2>3
    <3>2. /\ id \in Rows /\ req[q].seen.version <= row[id].version
          /\ req[q].seen.version >= 1
      <4>1. /\ Ask[q].op \in {"save", "revert", "delete"}
            /\ req[q].seen.version <= row[id].version /\ req[q].seen.version >= 1
        BY <3>1 DEF TypeInv, RequestsInv, RequestOK
      <4> QED BY <4>1, AskTypes
    <3>3. row[id] \in Row /\ row[id].version \in Nat /\ req[q].seen.version \in Nat
      <4>1. req[q].seen \in Row /\ row[id] \in Row
        BY <1>0, <3>2 DEF Request
      <4> QED BY <4>1 DEF Row
    <3>4. CASE row'[id] = row[id]
      BY <3>1, <3>4 DEF SeenInv, Exists
    <3>5. ASSUME NEW p \in Requests, Saved(p), Ask[p].on = id
          PROVE  FALSE
      <4>1. row'[id].version = row[id].version + 1
        BY <1>0, <3>2, <3>5 DEF Saved
      <4> QED BY <3>1, <3>2, <3>3, <4>1
    <3>6. ASSUME NEW p \in Requests, Created(p), Ask[p].on = id
          PROVE  FALSE
      <4>1. row[id].version = 0
        BY <3>6 DEF Created, NoRow
      <4> QED BY <3>2, <3>3, <4>1
    <3>7. ASSUME NEW p \in Requests, Deleted(p), Ask[p].on = id
          PROVE  FALSE
      <4>1. row'[id].content = None
        BY <1>0, <3>7 DEF Deleted
      <4> QED BY <4>1 DEF Exists
    <3>8. \/ row'[id] = row[id]
          \/ \E p \in Requests : Ask[p].on = id /\ (Saved(p) \/ Created(p) \/ Deleted(p))
      BY <1>0, <3>2, RowSteps DEF Saved, Appended, Created, Deleted
    <3> QED BY <3>4, <3>5, <3>6, <3>7, <3>8
  <2> QED BY <2>2, <2>3
<1> QED BY <1>1, <1>2

View0 == [q \in Requests |-> View(q)]

\* Every step is one of VersionedRows or none.
LEMMA VersionedStep ==
    TypeInv /\ TypeInv' /\ SeenInv /\ [Next]_vars => [Versioned!Next]_<<row, View0>>
<1> SUFFICES ASSUME TypeInv, SeenInv, [Next]_vars
             PROVE  Versioned!Next \/ UNCHANGED <<row, View0>>
  OBVIOUS
<1>0. row \in [Rows -> Row] /\ req \in [Requests -> Request]
  BY DEF TypeInv, TypeOK
<1>1. CASE UNCHANGED vars
  BY <1>1 DEF vars, View0, View
<1>2. CASE Next
  <2>1. PICK q \in Requests :
          /\ \A p \in Requests \ {q} : req'[p] = req[p]
          /\ \/ Load(q) \/ ReadTarget(q) \/ Save(q) \/ Number(q) \/ AppendRevision(q)
             \/ Vanish(q) \/ Create(q) \/ Count(q) \/ Delete(q) \/ Attach(q)
             \/ Detach(q) \/ SetDriver(q) \/ SetPersona(q) \/ SetGate(q) \/ ReadGate(q)
             \/ RecordVerdict(q)
    BY <1>2, OneRequest
  <2> DEFINE id == Ask[q].on
  <2>2. View0' = [View0 EXCEPT ![q] = View(q)']
    BY <2>1 DEF View0, View
  <2>3. ASSUME UNCHANGED row
        PROVE  Versioned!Next \/ UNCHANGED <<row, View0>>
    <3>1. CASE /\ Load(q) /\ req'[q].pc \in {"page", "write"} /\ req'[q].seen = row[id]
               /\ id \in Rows
      <4>1. View(q)' = Versioned!See(id)
        BY <3>1 DEF View, Versioned!See
      <4>2. Versioned!Look(q, id)
        BY <2>2, <2>3, <4>1 DEF Versioned!Look, View0
      <4> QED BY <3>1, <4>2 DEF Versioned!Next
    <3>2. CASE /\ req[q].pc \in {"page", "write"} /\ req'[q].pc \in {"page", "write"}
               /\ req'[q].seen = req[q].seen
      <4>1. View(q)' = View(q)
        BY <3>2 DEF View
      <4> QED BY <2>2, <2>3, <4>1 DEF View0
    <3>3. CASE req'[q].pc \notin {"page", "write"}
      <4>1. View(q)' = None
        BY <3>3 DEF View
      <4>2. Versioned!GiveUp(q)
        BY <2>2, <2>3, <4>1 DEF Versioned!GiveUp, View0
      <4> QED BY <4>2 DEF Versioned!Next
    <3> QED BY <2>1, <3>1, <3>2, <3>3, ViewSteps
  <2>4. ASSUME Save(q), Saved(q)
        PROVE  Versioned!Replace(q, id) /\ id \in Rows
    <3>1. /\ id \in Rows /\ req[q].content \in Names /\ req[q].pc = "write"
          /\ Exists(id) /\ req[q].seen.version = row[id].version
          /\ row' = [row EXCEPT ![id] = [version |-> row[id].version + 1,
                                         content |-> req[q].content]]
      BY <2>4 DEF Saved, Save, Matches
    <3>2. req[q].seen = row[id]
      BY <3>1 DEF SeenInv
    <3>3. View(q) = Versioned!See(id)
      BY <3>1, <3>2 DEF View, Versioned!See
    <3>4. row'[id].content = req[q].content
      BY <1>0, <3>1
    <3>5. View(q)' = None
      <4>1. req'[q].pc \notin {"page", "write"}
        <5>1. Goto(q, "number") \/ \E how : End(q, how)
          BY <2>4 DEF Save
        <5> QED BY <1>0, <5>1 DEF Goto, End, Request
      <4> QED BY <4>1 DEF View
    <3> QED BY <2>2, <3>1, <3>3, <3>4, <3>5 DEF Versioned!Replace, View0, Exists
  <2>6. ASSUME Create(q), Created(q)
        PROVE  Versioned!Insert(id) /\ id \in Rows
    <3>1. req[q].pc = "idle"
      BY <2>6 DEF Create, Starts
    <3>2. View0' = View0
      <4>1. \E how : End(q, how)
        BY <2>6 DEF Create
      <4>2. req'[q].pc = "done"
        BY <1>0, <4>1 DEF End, Request
      <4>3. View(q)' = View(q)
        BY <3>1, <4>2 DEF View
      <4> QED BY <2>2, <4>3 DEF View0
    <3>3. /\ id \in Rows /\ row[id] = [version |-> 0, content |-> None]
          /\ Ask[q].to \in Names
          /\ row' = [row EXCEPT ![id] = [version |-> 1, content |-> Ask[q].to]]
      BY <2>6 DEF Created, NoRow
    <3>4. row'[id].content = Ask[q].to
      BY <1>0, <3>3
    <3> QED BY <3>2, <3>3, <3>4 DEF Versioned!Insert, View0
  <2>7. ASSUME Delete(q), Deleted(q)
        PROVE  Versioned!Delete(id) /\ id \in Rows
    <3>1. req[q].pc = "delete"
      BY <2>7 DEF Delete
    <3>2. View0' = View0
      <4>1. \E how : End(q, how)
        BY <2>7 DEF Delete
      <4>2. req'[q].pc = "done"
        BY <1>0, <4>1 DEF End, Request
      <4>3. View(q)' = View(q)
        BY <3>1, <4>2 DEF View
      <4> QED BY <2>2, <4>3 DEF View0
    <3>3. id \in Rows
      BY <2>7 DEF Deleted
    <3>4. row' = [row EXCEPT ![id].content = None]
      <4>1. row[id] \in Row
        BY <1>0, <3>3
      <4>2. [row[id] EXCEPT !.content = None]
            = [version |-> row[id].version, content |-> None]
        BY <4>1 DEF Row
      <4> QED BY <1>0, <2>7, <3>3, <4>2 DEF Deleted
    <3> QED BY <3>2, <3>3, <3>4 DEF Versioned!Delete, View0
  <2>8. CASE ~(Save(q) \/ Create(q) \/ Delete(q))
    <3>1. UNCHANGED row
      BY <2>1, <2>8 DEF Load, ReadTarget, Number, Vanish, Count, ReadGate, Attach, Detach,
         SetDriver, SetPersona, SetGate, RecordVerdict, AppendRevision
    <3> QED BY <2>3, <3>1
  <2> QED BY <2>3, <2>4, <2>6, <2>7, <2>8, SaveWrites, CreateWrites, DeleteWrites
       DEF Versioned!Next
<1> QED BY <1>1, <1>2

(***************************************************************************)
(* Saves, reverts and deletions of one row are made by users who have seen *)
(* the row as it is, or not at all: the requests implement VersionedRows,  *)
(* a view being what a page showed (updateWithVersion, revertToRevision).  *)
(***************************************************************************)
THEOREM NoLostUpdateHolds == Spec => NoLostUpdate
<1>1. Init => SeenInv
  <2>1. Init => \A q \in Requests : req[q].pc = "idle"
    <3>1. NoRequest.pc = "idle"
      BY DEF NoRequest
    <3> QED BY <3>1 DEF Init
  <2> QED BY <2>1 DEF SeenInv
<1>2. Init => Versioned!Init
  <2> SUFFICES ASSUME Init
               PROVE  Versioned!Init
    OBVIOUS
  <2>1. PICK S \in SUBSET Rows : FirstName \in [S -> Names]
    BY CatalogueAssumption
  <2>2. row \in [Rows -> [version : {0, 1}, content : Names \union {None}]]
    BY <2>1 DEF Init, NoRow
  <2>3. View0 = [q \in Requests |-> None]
    BY DEF Init, View0, View, NoRequest
  <2> QED BY <2>2, <2>3 DEF Versioned!Init, View0
<1>3. TypeInv /\ TypeInv' /\ SeenInv /\ [Next]_vars => [Versioned!Next]_<<row, [q \in Requests |-> View(q)]>>
  BY VersionedStep DEF View0
<1> QED BY <1>1, <1>2, <1>3, TypeInvHolds, SeenStep, PTL DEF Spec, NoLostUpdate, Versioned!Spec

-------------------------------------------------------------------------------
(* References and look-ups. *)

\* What a step leaves in the table: all but a row that nothing refers to.
LEMMA RowsStay ==
    ASSUME TypeInv, [Next]_vars, NEW id \in Rows, Exists(id)
    PROVE  Exists(id)' \/ (~Restricts(id) /\ UNCHANGED <<bound, stage>>)
<1>0. row \in [Rows -> Row]
  BY DEF TypeInv, TypeOK
<1>1. CASE UNCHANGED row
  BY <1>1 DEF Exists
<1>2. ASSUME NEW q \in Requests, Saved(q)
      PROVE  Exists(id)'
  <2>1. /\ Ask[q].on \in Rows /\ req[q].content # None
        /\ row' = [row EXCEPT ![Ask[q].on] = [version |-> row[Ask[q].on].version + 1,
                                              content |-> req[q].content]]
    BY <1>2, CatalogueAssumption DEF Saved
  <2> QED BY <1>0, <2>1 DEF Exists
<1>3. ASSUME NEW q \in Requests, Created(q)
      PROVE  Exists(id)'
  <2>1. /\ Ask[q].on \in Rows /\ Ask[q].to # None
        /\ row' = [row EXCEPT ![Ask[q].on] = [version |-> 1, content |-> Ask[q].to]]
    BY <1>3, CatalogueAssumption DEF Created
  <2> QED BY <1>0, <2>1 DEF Exists
<1>4. ASSUME NEW q \in Requests, Deleted(q)
      PROVE  Exists(id)' \/ (~Restricts(id) /\ UNCHANGED <<bound, stage>>)
  <2>1. CASE Ask[q].on = id
    BY <1>4, <2>1 DEF Deleted
  <2>2. CASE Ask[q].on # id
    BY <1>0, <1>4, <2>2 DEF Deleted, Exists
  <2> QED BY <2>1, <2>2
<1> QED BY <1>1, <1>2, <1>3, <1>4, RowSteps DEF Appended

\* A reference is only made to what exists.
LEMMA ReferencesExist ==
    ASSUME TypeInv, [Next]_vars
    PROVE  /\ \A b \in bound' : b \in bound \/ (Exists(b[1])' /\ Exists(b[2])')
           /\ \A s \in Stages : \/ stage'[s].driver \in {None, stage[s].driver}
                                \/ Exists(stage[s].driver)'
<1>0. stage \in [Stages -> [driver : Drivers \union {None},
                            persona : Personas \union {None}, gate : Gate]]
  BY DEF TypeInv, TypeOK
<1>1. CASE UNCHANGED <<bound, stage>>
  BY <1>1
<1>2. ASSUME NEW q \in Requests, Attach(q) \/ Detach(q)
      PROVE  /\ \A b \in bound' : b \in bound \/ (Exists(b[1])' /\ Exists(b[2])')
             /\ UNCHANGED stage
  BY <1>2 DEF Attach, Detach, Exists
<1>3. ASSUME NEW q \in Requests, SetDriver(q)
      PROVE  /\ UNCHANGED bound
             /\ \A s \in Stages : \/ stage'[s].driver \in {None, stage[s].driver}
                                  \/ Exists(stage[s].driver)'
  <2>1. CASE UNCHANGED stage
    BY <1>3, <2>1 DEF SetDriver
  <2>2. CASE Ask[q].to # None => Exists(Ask[q].to)
    <3>1. /\ Ask[q].to # None => Exists(Ask[q].to)
          /\ UNCHANGED <<row, bound>>
          /\ stage' = [stage EXCEPT ![Ask[q].on].driver = Ask[q].to]
      BY <1>3, <2>2 DEF SetDriver
    <3>2. \A s \in Stages : stage'[s].driver \in {stage[s].driver, Ask[q].to}
      <4>1. Ask[q].to \in Drivers \union {None}
        BY <1>3, AskTypes DEF SetDriver, Starts
      <4> QED BY <1>0, <3>1, <4>1
    <3>3. \A s \in Stages : stage'[s].driver \in {None, stage[s].driver}
                            \/ (stage'[s].driver = Ask[q].to /\ Exists(Ask[q].to))
      BY <3>1, <3>2
    <3>4. \A s \in Stages : stage'[s].driver = Ask[q].to /\ Exists(Ask[q].to)
                            => Exists(stage[s].driver)'
      BY <3>1 DEF Exists
    <3> QED BY <3>1, <3>3, <3>4
  <2> QED BY <1>3, <2>1, <2>2 DEF SetDriver
<1>4. ASSUME NEW q \in Requests, SetPersona(q) \/ SetGate(q)
      PROVE  UNCHANGED bound /\ \A s \in Stages : stage'[s].driver = stage[s].driver
  <2>1. CASE SetPersona(q)
    BY <1>0, <2>1, AskTypes DEF SetPersona, Starts
  <2>2. CASE SetGate(q)
    <3>1. UNCHANGED bound /\ \E g \in Gate : stage' = [stage EXCEPT ![Ask[q].on].gate = g]
      BY <2>2, CatalogueAssumption DEF SetGate
    <3> QED BY <1>0, <3>1
  <2> QED BY <1>4, <2>1, <2>2
<1>5. ASSUME NEW q \in Requests,
             \/ Load(q) \/ ReadTarget(q) \/ Save(q) \/ Number(q) \/ AppendRevision(q)
             \/ Vanish(q) \/ Create(q) \/ Count(q) \/ Delete(q) \/ ReadGate(q)
             \/ RecordVerdict(q)
      PROVE  UNCHANGED <<bound, stage>>
  BY <1>5 DEF Load, ReadTarget, Save, Number, AppendRevision, Vanish, Create, Count, Delete,
     ReadGate, RecordVerdict
<1> QED BY <1>1, <1>2, <1>3, <1>4, <1>5 DEF Next, vars

LEMMA NoOrphansStep == TypeInv /\ NoOrphans /\ [Next]_vars => NoOrphans'
<1> SUFFICES ASSUME TypeInv, NoOrphans, [Next]_vars
             PROVE  NoOrphans'
  OBVIOUS
<1>0. /\ bound \subseteq Personas \X Skills
      /\ \A s \in Stages : stage[s].driver \in Drivers \union {None}
  BY DEF TypeInv, TypeOK
<1>1. ASSUME NEW b \in bound'
      PROVE  Exists(b[1])' /\ Exists(b[2])'
  <2>1. CASE b \in bound
    <3>1. Exists(b[1]) /\ Exists(b[2]) /\ b[1] \in Rows /\ b[2] \in Rows
      BY <1>0, <2>1 DEF NoOrphans, Rows
    <3>2. b \in Bindings(b[1]) /\ b \in Bindings(b[2])
      BY <2>1 DEF Bindings
    <3> QED BY <3>1, <3>2, RowsStay DEF Restricts
  <2> QED BY <1>1, <2>1, ReferencesExist
<1>2. ASSUME NEW s \in Stages, stage'[s].driver # None
      PROVE  Exists(stage[s].driver)'
  <2>1. CASE stage'[s].driver = stage[s].driver
    <3>1. Exists(stage[s].driver) /\ stage[s].driver \in Rows
      BY <1>0, <1>2, <2>1 DEF NoOrphans, Rows
    <3>2. Restricts(stage[s].driver)
      BY DEF Restricts
    <3> QED BY <2>1, <3>1, <3>2, RowsStay DEF Exists
  <2> QED BY <1>2, <2>1, ReferencesExist
<1> QED BY <1>1, <1>2 DEF NoOrphans

(***************************************************************************)
(* A deletion never leaves a binding or a stage's driver pointing nowhere, *)
(* even when it was attached between the count of the references and the   *)
(* DELETE: the foreign keys decide (driver.ts, delete; persona.ts).        *)
(***************************************************************************)
THEOREM NoOrphansHolds == Spec => []NoOrphans
<1>1. Init => NoOrphans
  BY DEF Init, NoOrphans
<1> QED BY <1>1, TypeInvHolds, NoOrphansStep, PTL DEF Spec

LEMMA TableFacts ==
    ASSUME NEW id \in Rows
    PROVE  /\ Table(id) \in Tables /\ id \in Table(id) /\ Table(id) \subseteq Rows
           /\ \A other \in Table(id) : Table(other) = Table(id)
<1>1. \E t \in Tables : id \in t
  BY DEF Tables, Rows
<1>2. Table(id) \in Tables /\ id \in Table(id)
  BY <1>1 DEF Table, Tables
<1>3. \A other : \A t, u \in Tables : other \in t /\ other \in u => t = u
  BY CatalogueAssumption DEF Tables
<1>4. ASSUME NEW other \in Table(id)
      PROVE  Table(other) = Table(id)
  <2>1. Table(other) \in Tables /\ other \in Table(other)
    BY <1>2, <1>4 DEF Table, Tables
  <2> QED BY <1>2, <1>3, <1>4, <2>1
<1> QED BY <1>2, <1>4 DEF Tables, Rows

\* What the unique indexes say of the rows.
NamesUnique ==
    \A id \in Rows : \A other \in Table(id) \ {id} :
        ScopeOf[other] = ScopeOf[id] /\ Exists(id) => row[other].content # row[id].content

\* A row whose content was not taken is written.
LEMMA WriteKeepsNames ==
    ASSUME TypeInv, NamesUnique, NEW id \in Rows, NEW content \in Names, NEW v,
           ~NameTaken(id, content),
           row' = [row EXCEPT ![id] = [version |-> v, content |-> content]]
    PROVE  NamesUnique'
<1> SUFFICES ASSUME NEW x \in Rows, NEW y \in Table(x) \ {x}, ScopeOf[y] = ScopeOf[x],
                    Exists(x)'
             PROVE  row'[y].content # row'[x].content
  BY DEF NamesUnique
<1>0. row \in [Rows -> Row] /\ y \in Rows
  BY TableFacts DEF TypeInv, TypeOK
<1>1. /\ row'[id].content = content
      /\ \A o \in Rows \ {id} : row'[o] = row[o]
  BY <1>0
<1>2. \A o \in Table(id) \ {id} : ScopeOf[o] = ScopeOf[id] => row[o].content # content
  BY DEF NameTaken
<1>3. CASE x = id
  BY <1>0, <1>1, <1>2, <1>3
<1>4. CASE y = id
  <2>1. x \in Table(id) \ {id}
    BY <1>4, TableFacts
  <2> QED BY <1>1, <1>2, <1>4, <2>1
<1>5. CASE x # id /\ y # id
  BY <1>0, <1>1, <1>5 DEF NamesUnique, Exists
<1> QED BY <1>3, <1>4, <1>5

LEMMA NamesStep == TypeInv /\ NamesUnique /\ [Next]_vars => NamesUnique'
<1> SUFFICES ASSUME TypeInv, NamesUnique, [Next]_vars
             PROVE  NamesUnique'
  OBVIOUS
<1>0. row \in [Rows -> Row]
  BY DEF TypeInv, TypeOK
<1>1. CASE UNCHANGED row
  BY <1>1 DEF NamesUnique, Exists
<1>2. ASSUME NEW q \in Requests, Saved(q)
      PROVE  NamesUnique'
  BY <1>2, WriteKeepsNames DEF Saved
<1>3. ASSUME NEW q \in Requests, Created(q)
      PROVE  NamesUnique'
  BY <1>3, WriteKeepsNames DEF Created
<1>4. ASSUME NEW q \in Requests, Deleted(q)
      PROVE  NamesUnique'
  <2>1. /\ Ask[q].on \in Rows /\ row'[Ask[q].on].content = None
        /\ \A o \in Rows \ {Ask[q].on} : row'[o] = row[o]
    BY <1>0, <1>4 DEF Deleted
  <2> SUFFICES ASSUME NEW x \in Rows, NEW y \in Table(x) \ {x}, ScopeOf[y] = ScopeOf[x],
                      Exists(x)'
               PROVE  row'[y].content # row'[x].content
    BY DEF NamesUnique
  <2>2. y \in Rows /\ x # Ask[q].on
    BY <2>1, TableFacts DEF Exists
  <2>3. CASE y = Ask[q].on
    BY <2>1, <2>3 DEF Exists
  <2>4. CASE y # Ask[q].on
    BY <2>1, <2>2, <2>4 DEF NamesUnique, Exists
  <2> QED BY <2>3, <2>4
<1> QED BY <1>1, <1>2, <1>3, <1>4, RowSteps DEF Appended

LEMMA UniqueNamesDetermine == TypeInv /\ NamesUnique => EffectiveIsDetermined
<1> SUFFICES ASSUME NamesUnique, NEW id \in Rows, NEW context \in Contexts, Exists(id),
                    NEW a \in ResolveEffectiveById(id, context),
                    NEW b \in ResolveEffectiveById(id, context)
             PROVE  a = b
  BY DEF EffectiveIsDetermined
<1>1. /\ a \in Candidates(id, context) /\ b \in Candidates(id, context)
      /\ Priority(a, context) <= Priority(b, context)
      /\ Priority(b, context) <= Priority(a, context)
  BY DEF ResolveEffectiveById
<1>2. /\ a \in Table(id) /\ b \in Table(id) /\ row[a].content = row[b].content
      /\ Visible(a, context) /\ Visible(b, context)
  BY <1>1 DEF Candidates
<1>3. /\ Priority(a, context) \in DOMAIN context /\ context[Priority(a, context)] = ScopeOf[a]
      /\ Priority(b, context) \in DOMAIN context /\ context[Priority(b, context)] = ScopeOf[b]
  BY <1>2 DEF Visible, Priority
<1>4. DOMAIN context \subseteq Nat
  <2>1. context \in Seq(Scopes)
    BY CatalogueAssumption
  <2> QED BY <2>1
<1>5. Priority(a, context) = Priority(b, context)
  <2>1. Priority(a, context) \in Nat /\ Priority(b, context) \in Nat
    BY <1>3, <1>4
  <2> QED BY <1>1, <2>1
<1>6. ScopeOf[a] = ScopeOf[b]
  BY <1>3, <1>5
<1>7. a \in Rows /\ b \in Table(a)
  BY <1>2, TableFacts
<1> QED BY <1>2, <1>6, <1>7 DEF NamesUnique, Visible

(***************************************************************************)
(* A look-up has one row to return: in no layer do two rows of one table   *)
(* have one name, however creations, renames and reverts race, so that the *)
(* nearest layer of a waterfall holds one (resolveScoped, and the indexes  *)
(* of migration 0030).                                                     *)
(***************************************************************************)
THEOREM EffectiveIsDeterminedHolds == Spec => []EffectiveIsDetermined
<1>1. Init => NamesUnique
  <2> SUFFICES ASSUME Init, NEW x \in Rows, NEW y \in Table(x) \ {x}, ScopeOf[y] = ScopeOf[x],
                      Exists(x), row[y].content = row[x].content
               PROVE  FALSE
    BY DEF NamesUnique
  <2>1. PICK t \in Tables : x \in t /\ y \in t /\ y \in Rows
    BY TableFacts
  <2>2. Exists(y)
    BY DEF Exists
  <2>3. x \in DOMAIN FirstName /\ y \in DOMAIN FirstName
    BY <2>1, <2>2 DEF Init, Exists, NoRow
  <2>4. row[x].content = FirstName[x] /\ row[y].content = FirstName[y]
    BY <2>1, <2>3 DEF Init
  <2> QED BY <2>1, <2>3, <2>4, CatalogueAssumption DEF Tables
<1> QED BY <1>1, TypeInvHolds, NamesStep, UniqueNamesDetermine, PTL DEF Spec

-------------------------------------------------------------------------------
(* Verdicts. *)

\* What was recorded was evaluated, of a gate the engine accepts.
AuditInv ==
    \A a \in audit : /\ a.gate \in Gate
                     /\ a.gate.mode = "rules" => ~TooDeep(a.gate)
                     /\ a.verdict = EvaluateGate(a.gate)

LEMMA AuditStep == TypeInv /\ AuditInv /\ [Next]_vars => AuditInv'
<1> SUFFICES ASSUME TypeInv, AuditInv, [Next]_vars
             PROVE  AuditInv'
  OBVIOUS
<1>1. CASE UNCHANGED audit
  BY <1>1 DEF AuditInv
<1>2. ASSUME NEW q \in Requests, RecordVerdict(q)
      PROVE  AuditInv'
  <2>1. req[q].gate \in Gate
    BY DEF TypeInv, TypeOK, Request
  <2> QED BY <1>2, <2>1 DEF RecordVerdict, AuditInv
<1> QED BY <1>1, <1>2 DEF Next, vars, Load, ReadTarget, Save, Number, AppendRevision,
           Vanish, Create, Count, Delete, Attach, Detach, SetDriver, SetPersona, SetGate,
           ReadGate

THEOREM AuditInvHolds == Spec => []AuditInv
<1>1. Init => AuditInv
  BY DEF Init, AuditInv
<1> QED BY <1>1, TypeInvHolds, AuditStep, PTL DEF Spec

(***************************************************************************)
(* The failures behind a recorded verdict are exactly those that count: as *)
(* many as explain why the gate did not pass, and none from a group that   *)
(* passed (evaluateStageGate, collectEffectiveFailures).                   *)
(***************************************************************************)
THEOREM BlameIsExactHolds == Spec => []BlameIsExact
<1>1. AuditInv => BlameIsExact
  BY BlameSufficient, BlameNecessary DEF AuditInv, BlameIsExact
<1> QED BY <1>1, AuditInvHolds, PTL

(***************************************************************************)
(* Nor would a recorded verdict have been worse had more rules passed      *)
(* (evaluateStageGate, resolveWorstAction).                                *)
(***************************************************************************)
THEOREM MendingHelpsHolds == Spec => []MendingHelps
<1>1. AuditInv => MendingHelps
  BY MendingHarmless DEF AuditInv, MendingHelps
<1> QED BY <1>1, AuditInvHolds, PTL

===============================================================================
