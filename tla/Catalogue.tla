------------------------------- MODULE Catalogue -------------------------------
(***************************************************************************)
(* What a pipeline stage is configured with, edited by concurrent requests *)
(* of the web process: drivers, skills and personas (core/services/skill,  *)
(* driver, persona, crud-factory, resolve-scoped, db/revision.ts behind    *)
(* their routers), the skills bound to personas, and the stages that name  *)
(* a driver, a persona and a gate.                                         *)
(*                                                                         *)
(* A request goes from the moment its page reads the row to its answer; pc *)
(* names the await it is suspended at.  The content of a row is its name,  *)
(* by which a launch looks up the row that is effective in its project.    *)
(***************************************************************************)
EXTENDS Gates, Sequences, FiniteSets

CONSTANTS
    Skills, Drivers, Personas, Stages,   \* rows that are ever in the tables
    Names,          \* contents of a row
    FirstName,      \* [rows in the tables at the start -> name]
    Scopes, ScopeOf,     \* the layer a row belongs to, with its owner
    Contexts,       \* the waterfalls of the projects: Seq(Scopes), nearest first
    GateConfigs,    \* gates a stage may be given
    FirstGate,
    Requests,
    Ask,            \* [Requests -> [op, on, to]]
    MayVanish,      \* requests whose process may end under them
    Batches,        \* bound: the sets of requests that occur together
    None

Rows == Skills \union Drivers \union Personas

\* What the requests of each kind name beside the row they are about.
Asks ==
    [op : {"save"}, on : Rows, to : Names]
    \union [op : {"revert"}, on : Skills \union Drivers, to : Nat \ {0}]
    \union [op : {"create"}, on : Rows, to : Names]
    \union [op : {"delete"}, on : Rows, to : {None}]
    \union [op : {"attach", "detach"}, on : Personas, to : Skills]
    \union [op : {"driver"}, on : Stages, to : Drivers \union {None}]
    \union [op : {"persona"}, on : Stages, to : Personas]
    \union [op : {"rules", "gate"}, on : Stages, to : {None}]

ASSUME CatalogueAssumption ==
    /\ Skills \intersect (Drivers \union Personas) = {}
    /\ Drivers \intersect Personas = {}
    /\ \E S \in SUBSET Rows : FirstName \in [S -> Names]
    /\ None \notin Names \union Rows \union Requests
    /\ ScopeOf \in [Rows -> Scopes]
    /\ \A t \in {Skills, Drivers, Personas} :       \* the indexes hold at the start
          \A m, n \in t \intersect DOMAIN FirstName :
              m # n /\ ScopeOf[m] = ScopeOf[n] => FirstName[m] # FirstName[n]
    /\ Contexts \subseteq Seq(Scopes)
    /\ GateConfigs \subseteq Gate /\ FirstGate \in Gate
    /\ \A q \in Requests : Ask[q] \in Asks
    /\ MayVanish \subseteq Requests
    /\ Batches \subseteq SUBSET Requests

VARIABLES
    row,     \* the rows of skill, driver and persona
    revs,    \* skill_revision, driver_revision: by revision_number, for each row
    bound,   \* persona_skill
    stage,   \* the columns driver_id, persona_id and gate of pipeline_stage
    audit,   \* stage_gate_result
    req

vars == <<row, revs, bound, stage, audit, req>>

-------------------------------------------------------------------------------
Row == [version : Nat, content : Names \union {None}]

Exists(id) == row[id].content # None

Table(id) == CHOOSE t \in {Skills, Drivers, Personas} : id \in t

\* The version is a history variable: the code's revisions do not keep it.
Revision == [content : Names, version : Nat]

Request ==
    [pc : {"idle", "page", "write", "number", "append", "delete", "record", "done"},
     seen : Row,                        \* the row as its page showed it
     content : Names \union {None},     \* what the request will write
     number : Nat,                      \* the revision number it has computed
     gate : Gate,                       \* the gate it has read
     end : {"", "ok", "error", "conflict", "lost"}]

NoRow == [version |-> 0, content |-> None]

NoRequest == [pc |-> "idle", seen |-> NoRow, content |-> None, number |-> 0,
              gate |-> FirstGate, end |-> ""]

TypeOK ==
    /\ row \in [Rows -> Row]
    /\ DOMAIN revs = Rows
    /\ \A id \in Rows : revs[id] \in Seq(Revision)
    /\ bound \subseteq Personas \X Skills
    /\ stage \in [Stages -> [driver : Drivers \union {None},
                             persona : Personas \union {None}, gate : Gate]]
    /\ \A a \in audit : a.gate \in Gate /\ a.verdict \in Verdicts
    /\ req \in [Requests -> Request]

Init ==
    /\ row = [id \in Rows |-> IF id \in DOMAIN FirstName
                              THEN [version |-> 1, content |-> FirstName[id]]
                              ELSE NoRow]
    /\ revs = [id \in Rows |-> <<>>]
    /\ bound = {}
    /\ stage = [s \in Stages |-> [driver |-> None, persona |-> None, gate |-> FirstGate]]
    /\ audit = {}
    /\ req = [q \in Requests |-> NoRequest]

Starts(q, ops) ==
    /\ req[q].pc = "idle" /\ Ask[q].op \in ops
    /\ \E b \in Batches : {q} \union {r \in Requests : req[r].pc # "idle"} \subseteq b

Goto(q, pc) == req' = [req EXCEPT ![q].pc = pc]

End(q, how) == req' = [req EXCEPT ![q].pc = "done", ![q].end = how]

-------------------------------------------------------------------------------
(* Saving a row, with its revision if the table keeps a history *)

\* The user has loaded the page and submits it.
Load(q) ==
    LET id == Ask[q].on IN
    /\ Starts(q, {"save", "revert", "delete"})
    /\ Exists(id)
    /\ req' = [req EXCEPT ![q].seen = row[id],
                          ![q].pc = IF Ask[q].op = "save" THEN "write" ELSE "page",
                          ![q].content = IF Ask[q].op = "save" THEN Ask[q].to ELSE None]
    /\ UNCHANGED <<row, revs, bound, stage, audit>>

\* The revision to revert to is read before the row is written.
ReadTarget(q) ==
    LET id == Ask[q].on n == Ask[q].to IN
    /\ req[q].pc = "page" /\ Ask[q].op = "revert"
    /\ IF n \in DOMAIN revs[id]
       THEN req' = [req EXCEPT ![q].pc = "write", ![q].content = revs[id][n].content]
       ELSE End(q, "error")
    /\ UNCHANGED <<row, revs, bound, stage, audit>>

\* Mutant of Matches: the row is updated by its id.
MatchesId(id, seen) == Exists(id)

\* where id = ... and version = expectedVersion
Matches(id, seen) == Exists(id) /\ row[id].version = seen.version

\* Mutant of NameTaken: an index over (project_id, name) alone, in which the
\* NULLs of the catalog are distinct.
NameTakenInProject(id, content) ==
    /\ ScopeOf[id] # "catalog"
    /\ \E other \in Table(id) \ {id} :
          ScopeOf[other] = ScopeOf[id] /\ row[other].content = content

\* The unique indexes on the name, one for each layer.
NameTaken(id, content) ==
    \E other \in Table(id) \ {id} :
        ScopeOf[other] = ScopeOf[id] /\ row[other].content = content

\* Mutant of InTransaction: a driver is saved as a skill is.
NeverInTransaction(id) == FALSE

\* The services of drivers write row and revision in one transaction: the lock
\* on the row keeps a second writer from numbering a revision meanwhile.
InTransaction(id) == id \in Drivers

Updated(id, content) ==
    row' = [row EXCEPT ![id] = [version |-> @.version + 1, content |-> content]]

Save(q) ==
    LET id == Ask[q].on content == req[q].content IN
    /\ req[q].pc = "write"
    /\ IF Matches(id, req[q].seen) /\ ~NameTaken(id, content)
       THEN /\ Updated(id, content)
            /\ IF id \in Skills \union Drivers /\ ~InTransaction(id)
               THEN Goto(q, "number") ELSE End(q, "ok")
            /\ IF InTransaction(id)
               THEN revs' = [revs EXCEPT ![id] =
                        Append(@, [content |-> content, version |-> row[id].version + 1])]
               ELSE UNCHANGED revs
       ELSE /\ End(q, IF Matches(id, req[q].seen) THEN "error" ELSE "conflict")
            /\ UNCHANGED <<row, revs>>
    /\ UNCHANGED <<bound, stage, audit>>

\* A revision outside a transaction.  The subquery for MAX + 1 does not see
\* what is inserted beside it ...
Number(q) ==
    /\ req[q].pc = "number"
    /\ req' = [req EXCEPT ![q].pc = "append", ![q].number = Len(revs[Ask[q].on]) + 1]
    /\ UNCHANGED <<row, revs, bound, stage, audit>>

\* Mutant of MayAppend: no unique index, a number is used again.
MayAppendAgain(id, n) == Exists(id)

\* ... the unique index on the number does, and the foreign key the deletion
\* of the row.
MayAppend(id, n) == Exists(id) /\ n \notin DOMAIN revs[id]

AppendRevision(q) ==
    LET id == Ask[q].on
        revision == [content |-> req[q].content, version |-> req[q].seen.version + 1] IN
    /\ req[q].pc = "append"
    /\ IF MayAppend(id, req[q].number)
       THEN /\ revs' = [revs EXCEPT ![id] =
                    [n \in DOMAIN @ \union {req[q].number} |->
                        IF n = req[q].number THEN revision ELSE @[n]]]
            /\ End(q, "ok")
       ELSE End(q, "lost") /\ UNCHANGED revs
    /\ UNCHANGED <<row, bound, stage, audit>>

\* The process ends.  A transaction is rolled back; a skill may have been saved.
Vanish(q) ==
    /\ q \in MayVanish /\ req[q].pc \notin {"idle", "done"}
    /\ End(q, IF req[q].pc \in {"number", "append"} THEN "lost" ELSE "error")
    /\ UNCHANGED <<row, revs, bound, stage, audit>>

-------------------------------------------------------------------------------
(* Creating and deleting rows *)

Create(q) ==
    LET id == Ask[q].on IN
    /\ Starts(q, {"create"})
    /\ row[id] = NoRow
    /\ IF NameTaken(id, Ask[q].to)
       THEN End(q, "error") /\ UNCHANGED row
       ELSE /\ row' = [row EXCEPT ![id] = [version |-> 1, content |-> Ask[q].to]]
            /\ End(q, "ok")
    /\ UNCHANGED <<revs, bound, stage, audit>>

StagesWith(id) == {s \in Stages : stage[s].driver = id \/ stage[s].persona = id}
Bindings(id) == {b \in bound : id \in {b[1], b[2]}}

\* countReferences of a skill looks at persona_skill, that of the other two at
\* pipeline_stage.  (That of skills and drivers counts the columns of stage_run
\* too, and they are foreign keys: the daemon's writing them is left out, so that
\* a row may be deleted here in more states than there.)
Counted(id) == IF id \in Skills THEN Bindings(id) ELSE StagesWith(id)

\* Mutant of Restricts: no foreign key, the count in the transaction has to do.
RestrictsNothing(id) == FALSE

\* The foreign keys.  pipeline_stage.persona_id is not one.
Restricts(id) ==
    \/ Bindings(id) # {}
    \/ \E s \in Stages : stage[s].driver = id

Count(q) ==
    /\ req[q].pc = "page" /\ Ask[q].op = "delete"
    /\ IF Counted(Ask[q].on) # {} THEN End(q, "error") ELSE Goto(q, "delete")
    /\ UNCHANGED <<row, revs, bound, stage, audit>>

\* The same transaction, but another statement: it sees what was committed since.
Delete(q) ==
    LET id == Ask[q].on IN
    /\ req[q].pc = "delete"
    /\ IF Matches(id, req[q].seen) /\ ~Restricts(id)
       THEN /\ row' = [row EXCEPT ![id].content = None]
            /\ revs' = [revs EXCEPT ![id] = <<>>]      \* ON DELETE CASCADE
            /\ End(q, "ok")
       ELSE /\ End(q, IF Matches(id, req[q].seen) THEN "error" ELSE "conflict")
            /\ UNCHANGED <<row, revs>>
    /\ UNCHANGED <<bound, stage, audit>>

-------------------------------------------------------------------------------
(* References: skills of personas, and what a stage is configured with *)

Attach(q) ==
    LET b == <<Ask[q].on, Ask[q].to>> IN
    /\ Starts(q, {"attach"})
    /\ IF Exists(b[1]) /\ Exists(b[2])
       THEN bound' = bound \union {b} /\ End(q, "ok")
       ELSE End(q, "error") /\ UNCHANGED bound
    /\ UNCHANGED <<row, revs, stage, audit>>

Detach(q) ==
    /\ Starts(q, {"detach"})
    /\ bound' = bound \ {<<Ask[q].on, Ask[q].to>>}
    /\ End(q, "ok")
    /\ UNCHANGED <<row, revs, stage, audit>>

\* stages.update knows no version, and the page it comes from may be old.
SetDriver(q) ==
    /\ Starts(q, {"driver"})
    /\ IF Ask[q].to # None => Exists(Ask[q].to)
       THEN stage' = [stage EXCEPT ![Ask[q].on].driver = Ask[q].to] /\ End(q, "ok")
       ELSE End(q, "error") /\ UNCHANGED stage
    /\ UNCHANGED <<row, revs, bound, audit>>

SetPersona(q) ==
    /\ Starts(q, {"persona"})
    /\ stage' = [stage EXCEPT ![Ask[q].on].persona = Ask[q].to]
    /\ End(q, "ok")
    /\ UNCHANGED <<row, revs, bound, audit>>

SetGate(q) ==
    /\ Starts(q, {"rules"})
    /\ \E g \in GateConfigs : stage' = [stage EXCEPT ![Ask[q].on].gate = g]
    /\ End(q, "ok")
    /\ UNCHANGED <<row, revs, bound, audit>>

\* evaluateStageGate reads the gate, evaluates it, and keeps what it evaluated.
ReadGate(q) ==
    /\ Starts(q, {"gate"})
    /\ req' = [req EXCEPT ![q].pc = "record", ![q].gate = stage[Ask[q].on].gate]
    /\ UNCHANGED <<row, revs, bound, stage, audit>>

RecordVerdict(q) ==
    LET g == req[q].gate IN
    /\ req[q].pc = "record"
    /\ IF g.mode = "rules" /\ TooDeep(g)
       THEN End(q, "error") /\ UNCHANGED audit
       ELSE /\ audit' = audit \union {[gate |-> g, verdict |-> EvaluateGate(g)]}
            /\ End(q, "ok")
    /\ UNCHANGED <<row, revs, bound, stage>>

Next ==
    \E q \in Requests :
        \/ Load(q) \/ ReadTarget(q) \/ Save(q) \/ Number(q) \/ AppendRevision(q)
        \/ Vanish(q) \/ Create(q) \/ Count(q) \/ Delete(q) \/ Attach(q) \/ Detach(q)
        \/ SetDriver(q) \/ SetPersona(q) \/ SetGate(q) \/ ReadGate(q) \/ RecordVerdict(q)

Spec == Init /\ [][Next]_vars

-------------------------------------------------------------------------------
(* Looking rows up (resolve-scoped.ts) *)

\* The position of a row's layer in the waterfall of a project; scopedWhere
\* admits the rows that have one.
Priority(id, context) == CHOOSE i \in DOMAIN context : context[i] = ScopeOf[id]

Visible(id, context) == Exists(id) /\ \E i \in DOMAIN context : context[i] = ScopeOf[id]

Candidates(id, context) ==
    {other \in Table(id) : Visible(other, context) /\ row[other].content = row[id].content}

\* The rows that ORDER BY priority LIMIT 1 may return.
ResolveEffectiveById(id, context) ==
    {other \in Candidates(id, context) :
        \A o \in Candidates(id, context) : Priority(other, context) <= Priority(o, context)}

-------------------------------------------------------------------------------
(* Properties *)

\* Saves, reverts and deletions of one row: each is made by a user who has seen
\* the row as it is, or not at all (updateWithVersion, revertToRevision).
View(q) ==
    IF req[q].pc \in {"page", "write"}
    THEN [name |-> Ask[q].on, version |-> req[q].seen.version,
          content |-> req[q].seen.content]
    ELSE None

Versioned == INSTANCE VersionedRows WITH
    Writers <- Requests, Contents <- Names, Nothing <- None, NoView <- None,
    view <- [q \in Requests |-> View(q)]

NoLostUpdate == Versioned!Spec

\* The history of a driver is that of its row: as many revisions as saves, and
\* the last one is the row, whatever saves and reverts race for it.
HistoryFollowsDriver ==
    \A d \in Drivers : Exists(d) =>
        /\ Len(revs[d]) = row[d].version - 1
        /\ \A n \in DOMAIN revs[d] : revs[d][n].version = n + 1
        /\ revs[d] # <<>> => revs[d][Len(revs[d])].content = row[d].content

\* A skill's revisions are written after the save has committed, each by a
\* request of its own that has computed its number before.  A save or a revert
\* that was answered as done is in the history as long as the skill is, with the
\* version and the content it wrote, and no version is there twice.
SavedIsRecorded ==
    \A s \in Skills : Exists(s) =>
        /\ \A m, n \in DOMAIN revs[s] :
              revs[s][m].version = revs[s][n].version => m = n
        /\ \A q \in Requests :
              /\ Ask[q].on = s /\ Ask[q].op \in {"save", "revert"}
              /\ req[q].pc = "done" /\ req[q].end = "ok"
              => \E n \in DOMAIN revs[s] :
                    revs[s][n] = [content |-> req[q].content,
                                  version |-> req[q].seen.version + 1]

\* A deletion never leaves a binding or a stage's driver pointing nowhere, even
\* when it was attached between the count and the DELETE.  (A stage's persona
\* has no foreign key and may.)
NoOrphans ==
    /\ \A b \in bound : Exists(b[1]) /\ Exists(b[2])
    /\ \A s \in Stages : stage[s].driver # None => Exists(stage[s].driver)

\* What a launch finds for a row is at most one row: no race of creations,
\* renames and reverts leaves two of one name in the nearest layer, for LIMIT 1
\* to choose from.
EffectiveIsDetermined ==
    \A id \in Rows, context \in Contexts :
        Exists(id) => \A a, b \in ResolveEffectiveById(id, context) : a = b

\* The failures behind a recorded verdict are exactly those that count.
BlameIsExact ==
    \A a \in audit :
        a.gate.mode = "rules" => BlameSuffices(a.gate) /\ BlameNeeded(a.gate)

\* Nor would a recorded verdict have been worse had more rules passed.
MendingHelps ==
    \A a \in audit : a.gate.mode = "rules" => MendingNeverHurts(a.gate)

===============================================================================
