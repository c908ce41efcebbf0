--------------------- MODULE PipelineOrchestrator_proofs ----------------------
(***************************************************************************)
(* Proofs about PipelineOrchestrator, for every value of its constants:    *)
(* type correctness; that runs are claimed before anything works for them; *)
(* that the run statuses implement RunSlots; and the slot limit.           *)
(***************************************************************************)
EXTENDS PipelineOrchestrator, TLAPS, FiniteSetTheorems, SequenceTheorems

-------------------------------------------------------------------------------
(* The operations of RunService on the stage_run rows of one run. *)

\* Writing a status leaves a sequence of rows of the same length, in which
\* every row keeps its stage, and every row but the i-th its status.
LEMMA UpdateStageRunStatusType ==
    ASSUME NEW rs \in Seq(StageRun), NEW i, NEW status \in StageStatus
    PROVE  LET new == UpdateStageRunStatus(rs, i, status) IN
           /\ new \in Seq(StageRun)
           /\ DOMAIN new = DOMAIN rs
           /\ \A j \in DOMAIN rs : new[j].status = rs[j].status \/ new[j].status = status
<1> DEFINE new == UpdateStageRunStatus(rs, i, status)
<1>1. /\ Len(rs) \in Nat /\ DOMAIN rs = 1..Len(rs) /\ rs \in [1..Len(rs) -> StageRun]
  BY LenProperties
<1>2. new \in [1..Len(rs) -> StageRun]
  <2> SUFFICES [rs EXCEPT ![i].status = status] \in [1..Len(rs) -> StageRun]
    BY DEF UpdateStageRunStatus
  <2>1. \A j \in 1..Len(rs) : [rs[j] EXCEPT !.status = status] \in StageRun
    BY <1>1 DEF StageRun
  <2> QED BY <1>1, <2>1
<1>3. new \in Seq(StageRun)
  <2> HIDE DEF new
  <2> QED BY <1>1, <1>2, SeqDef
<1>4. \A j \in DOMAIN rs : new[j].status = rs[j].status \/ new[j].status = status
  BY <1>1 DEF UpdateStageRunStatus, StageRun
<1> QED BY <1>1, <1>2, <1>3, <1>4

\* completeStageRun writes a terminal status or nothing.
LEMMA CompleteStageRunType ==
    ASSUME NEW rs \in Seq(StageRun), NEW i, NEW status \in StageTerminal
    PROVE  LET new == CompleteStageRun(rs, i, status) IN
           /\ new \in Seq(StageRun)
           /\ DOMAIN new = DOMAIN rs
           /\ \A j \in DOMAIN rs : new[j].status = rs[j].status \/ new[j].status = status
<1> status \in StageStatus
  BY DEF StageTerminal, StageStatus
<1> QED
  BY UpdateStageRunStatusType DEF CompleteStageRun, UpdateStageRunStatus

\* recordPid changes no status.
LEMMA RecordPidType ==
    ASSUME NEW rs \in Seq(StageRun), NEW i
    PROVE  LET new == RecordPid(rs, i) IN
           /\ new \in Seq(StageRun)
           /\ DOMAIN new = DOMAIN rs
           /\ \A j \in DOMAIN rs : new[j].status = rs[j].status
<1> DEFINE new == RecordPid(rs, i)
<1>1. /\ Len(rs) \in Nat /\ DOMAIN rs = 1..Len(rs) /\ rs \in [1..Len(rs) -> StageRun]
  BY LenProperties
<1>2. \A j \in 1..Len(rs) : [rs[j] EXCEPT !.pid = TRUE] \in StageRun
  BY <1>1 DEF StageRun
<1>3. new \in [1..Len(rs) -> StageRun]
  BY <1>1, <1>2 DEF RecordPid
<1>4. \A j \in DOMAIN rs : new[j].status = rs[j].status
  BY <1>1 DEF RecordPid, StageRun
<1>5. new \in Seq(StageRun)
  <2> HIDE DEF new
  <2> QED BY <1>1, <1>3, SeqDef
<1> QED BY <1>1, <1>3, <1>4, <1>5

\* createStageRun appends one pending row.
LEMMA CreateStageRunType ==
    ASSUME NEW rs \in Seq(StageRun), NEW s \in Stages
    PROVE  LET new == CreateStageRun(rs, s) IN
           /\ new \in Seq(StageRun)
           /\ DOMAIN new = DOMAIN rs \union {Len(rs) + 1}
           /\ \A j \in DOMAIN rs : new[j] = rs[j]
           /\ new[Len(rs) + 1].status = "pending"
<1> DEFINE attempt == Cardinality(StageRunsOf(rs, s)) + 1
           row == [stage |-> s, attempt |-> attempt, status |-> "pending", pid |-> FALSE]
<1>1. Len(rs) \in Nat /\ DOMAIN rs = 1..Len(rs)
  BY LenProperties
<1>2. attempt \in Nat
  <2>1. IsFiniteSet(DOMAIN rs)
    BY <1>1, FS_Interval
  <2>2. StageRunsOf(rs, s) \in SUBSET DOMAIN rs
    BY DEF StageRunsOf
  <2>3. Cardinality(StageRunsOf(rs, s)) \in Nat
    BY <2>1, <2>2, FS_Subset, FS_CardinalityType
  <2> QED BY <2>3
<1>3. row \in StageRun
  BY <1>2 DEF StageRun, StageStatus
<1> HIDE DEF row
<1>4. CreateStageRun(rs, s) = Append(rs, row)
  BY DEF CreateStageRun, row
<1>5. row.status = "pending"
  BY DEF row
<1> QED BY <1>1, <1>3, <1>4, <1>5

-------------------------------------------------------------------------------
(* Moving between chains. *)

\* The variables that the moves assign keep their types.
MovesTyped ==
    /\ chain' \in [Callers -> Chain]
    /\ loop' \in [Runs -> Loop]
    /\ daemon' \in {"down", "booting", "started", "up"}
    /\ drains' \in Nat

\* A chain that does not stay where ch has it ends, goes back to its sweep, or
\* begins to handle its own run: none is put to work on a run.
Quiet(ch) ==
    \A c \in Callers :
       \/ chain'[c] = ch[c]
       \/ chain'[c].pc \in {"idle", "sweep", "await"}
       \/ c \in Runs /\ chain'[c].pc = "fetch" /\ chain'[c].run = c

LEMMA IdleType == Idle \in Chain /\ Idle.pc = "idle" /\ NoLoop \in Loop
BY OrchestratorAssumption DEF Idle, Chain, NoLoop, Loop

LEMMA HandlingType ==
    ASSUME NEW r \in Runs
    PROVE  Handling(r) \in Chain /\ Handling(r).pc = "fetch" /\ Handling(r).run = r
BY OrchestratorAssumption DEF Handling, Idle, Chain, HandlerPc

LEMMA GoSweepType ==
    LET go == [Idle EXCEPT !.pc = "sweep"] IN go \in Chain /\ go.pc = "sweep"
BY OrchestratorAssumption DEF Idle, Chain, SweepPc

\* The moves of a drain loop, wherever the chains stood before.
LEMMA ContinueDrainMoves ==
    ASSUME TypeOK,
           NEW todo \in SUBSET Runs, NEW owner \in Sweeps \union {NoSweep},
           NEW ch \in [Callers -> Chain], NEW lp \in [Runs -> Loop],
           NEW fired \in Int, drains + fired \in Nat,
           ContinueDrain(todo, owner, ch, lp, fired)
    PROVE  MovesTyped /\ Quiet(ch)
<1> DEFINE free == {r \in todo : ~InFlight(ch, r)}
<1>1. CASE EndDrain(owner, ch, lp, fired)
  <2>1. chain' \in [Callers -> Chain] /\ loop' \in [Runs -> Loop]
    BY <1>1, IdleType DEF EndDrain
  <2>2. daemon' \in {"down", "booting", "started", "up"} /\ drains' \in Nat
    BY <1>1 DEF EndDrain, TypeOK
  <2>3. Quiet(ch)
    BY <1>1, IdleType DEF EndDrain, Quiet
  <2> QED BY <2>1, <2>2, <2>3 DEF MovesTyped
<1>2. ASSUME NEW r \in free,
             chain' = [ch EXCEPT ![r] = Handling(r)],
             loop' = [lp EXCEPT ![r] = [todo |-> {q \in todo : q > r}, owner |-> owner]],
             daemon' = daemon,
             drains' = drains + fired
      PROVE  MovesTyped /\ Quiet(ch)
  <2>1. r \in Runs /\ r \in Callers
    BY DEF Callers
  <2>2. chain' \in [Callers -> Chain]
    BY <1>2, <2>1, HandlingType
  <2>3. [todo |-> {q \in todo : q > r}, owner |-> owner] \in Loop
    BY DEF Loop
  <2>4. loop' \in [Runs -> Loop]
    BY <1>2, <2>1, <2>3
  <2>5. Quiet(ch)
    BY <1>2, <2>1, HandlingType DEF Quiet
  <2> QED BY <1>2, <2>2, <2>4, <2>5 DEF MovesTyped, TypeOK
<1> QED BY <1>1, <1>2 DEF ContinueDrain

LEMMA ReturnMoves ==
    ASSUME TypeOK, NEW c \in Callers, NEW fired \in {0, 1}, Return(c, fired)
    PROVE  MovesTyped /\ Quiet(chain)
<1>1. CASE c \in Runs
  <2> DEFINE ch == [chain EXCEPT ![c] = Idle]
             lp == [loop EXCEPT ![c] = NoLoop]
  <2>1. /\ loop[c].todo \in SUBSET Runs /\ loop[c].owner \in Sweeps \union {NoSweep}
        /\ ch \in [Callers -> Chain] /\ lp \in [Runs -> Loop]
        /\ fired \in Int /\ drains + fired \in Nat
    BY <1>1, IdleType DEF TypeOK, Loop
  <2>2. ContinueDrain(loop[c].todo, loop[c].owner, ch, lp, fired)
    BY <1>1 DEF Return
  <2> HIDE DEF ch, lp
  <2>3. MovesTyped /\ Quiet(ch)
    BY <2>1, <2>2, ContinueDrainMoves
  <2>4. \A d \in Callers : ch[d] = chain[d] \/ ch[d].pc = "idle"
    BY IdleType DEF ch, TypeOK
  <2> QED BY <2>3, <2>4 DEF Quiet
<1>2. CASE c \notin Runs
  <2>1. /\ chain' = [chain EXCEPT ![c] = [Idle EXCEPT !.pc = "sweep"]]
        /\ drains' = drains + fired /\ loop' = loop /\ daemon' = daemon
    BY <1>2 DEF Return
  <2> QED BY <2>1, GoSweepType DEF MovesTyped, Quiet, TypeOK
<1> QED BY <1>1, <1>2

\* What becomes of the rest of the daemon's state when chains are abandoned.
RestTyped ==
    /\ stale' \in [Sweeps -> SUBSET StaleRow]
    /\ \A s \in Sweeps : stale'[s] \subseteq stale[s]
    /\ proc' \in [Runs -> SUBSET Nat]
    /\ events' \subseteq Runs

RestShrinks == RestTyped /\ \A r \in Runs : proc'[r] \subseteq proc[r]

LEMMA ExitMoves ==
    ASSUME TypeOK, Exit
    PROVE  MovesTyped /\ Quiet(chain) /\ RestShrinks
<1>1. MovesTyped /\ Quiet(chain)
  BY IdleType DEF Exit, MovesTyped, Quiet
<1>2. RestShrinks
  BY DEF Exit, RestShrinks, RestTyped, TypeOK
<1> QED BY <1>1, <1>2

LEMMA ThrowMoves ==
    ASSUME TypeOK, NEW c \in Callers, NEW fired \in {0, 1}, Throw(c, fired)
    PROVE  MovesTyped /\ Quiet(chain) /\ RestShrinks
<1>1. CASE Exit
  BY <1>1, ExitMoves
<1>2. CASE ~Exit
  <2> DEFINE top == IF c \in Runs THEN loop[c].owner ELSE c
  <2>1. /\ chain' = [d \in Callers |-> IF d \in {c, top} THEN Idle ELSE chain[d]]
        /\ loop' = [r \in Runs |-> IF r = c THEN NoLoop ELSE loop[r]]
        /\ stale' = [s \in Sweeps |-> IF s = top THEN {} ELSE stale[s]]
        /\ drains' = drains + fired
        /\ daemon' = daemon /\ proc' = proc /\ events' = events
    BY <1>2 DEF Throw
  <2> HIDE DEF top
  <2>2. MovesTyped
    BY <2>1, IdleType DEF MovesTyped, TypeOK
  <2>3. Quiet(chain)
    BY <2>1, IdleType DEF Quiet
  <2>4. RestShrinks
    BY <2>1 DEF RestShrinks, RestTyped, TypeOK
  <2> QED BY <2>2, <2>3, <2>4
<1> QED BY <1>1, <1>2

\* A chain that moves by itself moves to a well-typed place.
LEMMA GotoMoves ==
    ASSUME TypeOK, NEW c \in Callers, NEW next \in Chain, Goto(c, next)
    PROVE  /\ MovesTyped
           /\ chain'[c] = next
           /\ \A d \in Callers : d # c => chain'[d] = chain[d]
BY DEF Goto, MovesTyped, TypeOK

-------------------------------------------------------------------------------
(* Writing the rows. *)

\* Rows are only added, and none becomes running.
RowsGrow ==
    /\ rows' \in [Runs -> Seq(StageRun)]
    /\ \A r \in Runs : DOMAIN rows[r] \subseteq DOMAIN rows'[r]

NoneStarts ==
    \A r \in Runs : \A i \in DOMAIN rows'[r] :
       rows'[r][i].status = "running" => i \in DOMAIN rows[r] /\ rows[r][i].status = "running"

LEMMA UpdateRowGrows ==
    ASSUME TypeOK, NEW r, NEW i, NEW status \in StageStatus,
           WriteRows(r, UpdateStageRunStatus(rows[r], i, status))
    PROVE  RowsGrow /\ (status # "running" => NoneStarts)
<1>1. rows \in [Runs -> Seq(StageRun)]
  BY DEF TypeOK
<1>2. CASE r \in Runs
  <2> DEFINE new == UpdateStageRunStatus(rows[r], i, status)
  <2>1. /\ new \in Seq(StageRun) /\ DOMAIN new = DOMAIN rows[r]
        /\ \A j \in DOMAIN rows[r] :
              new[j].status = rows[r][j].status \/ new[j].status = status
    BY <1>1, <1>2, UpdateStageRunStatusType
  <2>2. rows' = [rows EXCEPT ![r] = new]
    BY DEF WriteRows
  <2> HIDE DEF new
  <2> QED BY <1>1, <1>2, <2>1, <2>2 DEF RowsGrow, NoneStarts
<1>3. CASE r \notin Runs
  <2>1. rows' = rows
    BY <1>1, <1>3 DEF WriteRows
  <2> QED BY <1>1, <2>1 DEF RowsGrow, NoneStarts
<1> QED BY <1>2, <1>3

LEMMA CompleteRowGrows ==
    ASSUME TypeOK, NEW r, NEW i, NEW status \in StageTerminal,
           WriteRows(r, CompleteStageRun(rows[r], i, status))
    PROVE  RowsGrow /\ NoneStarts
<1>1. rows \in [Runs -> Seq(StageRun)]
  BY DEF TypeOK
<1>2. CASE r \in Runs
  <2> DEFINE new == CompleteStageRun(rows[r], i, status)
  <2>1. /\ new \in Seq(StageRun) /\ DOMAIN new = DOMAIN rows[r]
        /\ \A j \in DOMAIN rows[r] :
              new[j].status = rows[r][j].status \/ new[j].status = status
    BY <1>1, <1>2, CompleteStageRunType
  <2>2. rows' = [rows EXCEPT ![r] = new]
    BY DEF WriteRows
  <2>3. status # "running"
    BY DEF StageTerminal
  <2> HIDE DEF new
  <2> QED BY <1>1, <1>2, <2>1, <2>2, <2>3 DEF RowsGrow, NoneStarts
<1>3. CASE r \notin Runs
  <2>1. rows' = rows
    BY <1>1, <1>3 DEF WriteRows
  <2> QED BY <1>1, <2>1 DEF RowsGrow, NoneStarts
<1> QED BY <1>2, <1>3

LEMMA RecordPidGrows ==
    ASSUME TypeOK, NEW r \in Runs, NEW i, WriteRows(r, RecordPid(rows[r], i))
    PROVE  RowsGrow /\ NoneStarts
<1>1. rows \in [Runs -> Seq(StageRun)]
  BY DEF TypeOK
<1> DEFINE new == RecordPid(rows[r], i)
<1>2. /\ new \in Seq(StageRun) /\ DOMAIN new = DOMAIN rows[r]
      /\ \A j \in DOMAIN rows[r] : new[j].status = rows[r][j].status
  BY <1>1, RecordPidType
<1>3. rows' = [rows EXCEPT ![r] = new]
  BY DEF WriteRows
<1> HIDE DEF new
<1> QED BY <1>1, <1>2, <1>3 DEF RowsGrow, NoneStarts

LEMMA CreateRowGrows ==
    ASSUME TypeOK, NEW r \in Runs, NEW s \in Stages,
           WriteRows(r, CreateStageRun(rows[r], s))
    PROVE  RowsGrow /\ NoneStarts
<1>1. rows \in [Runs -> Seq(StageRun)]
  BY DEF TypeOK
<1> DEFINE new == CreateStageRun(rows[r], s)
<1>2. /\ new \in Seq(StageRun)
      /\ DOMAIN new = DOMAIN rows[r] \union {Len(rows[r]) + 1}
      /\ \A j \in DOMAIN rows[r] : new[j] = rows[r][j]
      /\ new[Len(rows[r]) + 1].status = "pending"
  BY <1>1, CreateStageRunType
<1>3. rows' = [rows EXCEPT ![r] = new]
  BY DEF WriteRows
<1> HIDE DEF new
<1> QED BY <1>1, <1>2, <1>3 DEF RowsGrow, NoneStarts

\* The bulk update of a cancel.
LEMMA CancelRowsGrow ==
    ASSUME TypeOK, NEW r \in Runs, CancelStageRuns(r)
    PROVE  RowsGrow /\ NoneStarts
<1> DEFINE rs == rows[r]
           mark(i) == IF i \in web[r].picked THEN [rs[i] EXCEPT !.status = "cancelled"] ELSE rs[i]
           new == [i \in DOMAIN rs |-> mark(i)]
<1>1. rows \in [Runs -> Seq(StageRun)] /\ rs \in Seq(StageRun)
  BY DEF TypeOK
<1>2. Len(rs) \in Nat /\ DOMAIN rs = 1..Len(rs) /\ rs \in [1..Len(rs) -> StageRun]
  BY <1>1, LenProperties
<1>3. \A i \in DOMAIN rs : /\ mark(i) \in StageRun
                           /\ mark(i).status \in {rs[i].status, "cancelled"}
  BY <1>2 DEF StageRun, StageStatus, StageTerminal
<1>4. new \in [1..Len(rs) -> StageRun]
  BY <1>2, <1>3
<1>5. new \in Seq(StageRun)
  <2> HIDE DEF new
  <2> QED BY <1>2, <1>4, SeqDef
<1>6. \A i \in DOMAIN rs : new[i].status \in {rs[i].status, "cancelled"}
  BY <1>3
<1>7. DOMAIN new = DOMAIN rs
  OBVIOUS
<1>8. rows' = [rows EXCEPT ![r] = new]
  BY DEF CancelStageRuns, WriteRows
<1> HIDE DEF new
<1> QED BY <1>1, <1>5, <1>6, <1>7, <1>8 DEF RowsGrow, NoneStarts

-------------------------------------------------------------------------------
(* Type correctness.  TypeOK alone is not inductive: a chain that works on a *)
(* run must hold one, and a row that a sweep has read must be one of its run. *)

ChainsRun ==
    \A c \in Callers :
       /\ chain[c].pc \in LaunchPc => chain[c].run \in Runs
       /\ chain[c].pc \in HandlerPc => c \in Runs /\ chain[c].run = c

StaleKnown == \A s \in Sweeps : \A e \in stale[s] : e.row \in DOMAIN rows[e.run]

TypeInv == TypeOK /\ ChainsRun /\ StaleKnown

LEMMA RowsSame ==
    ASSUME TypeOK, UNCHANGED rows
    PROVE  RowsGrow /\ NoneStarts
BY DEF TypeOK, RowsGrow, NoneStarts

LEMMA RestSame ==
    ASSUME TypeOK, UNCHANGED <<stale, proc, events>>
    PROVE  RestShrinks
BY DEF TypeOK, RestShrinks, RestTyped

LEMMA MovesSame ==
    ASSUME TypeOK, UNCHANGED <<chain, loop, daemon, drains>>
    PROVE  MovesTyped /\ Quiet(chain)
BY DEF TypeOK, MovesTyped, Quiet

LEMMA QuietChains ==
    ASSUME TypeInv, Quiet(chain)
    PROVE  ChainsRun'
BY DEF TypeInv, Quiet, ChainsRun, HandlerPc, LaunchPc

LEMMA GotoChains ==
    ASSUME TypeInv, NEW c \in Callers, NEW next \in Chain, Goto(c, next),
           next.pc \in LaunchPc => next.run \in Runs,
           next.pc \in HandlerPc => c \in Runs /\ next.run = c
    PROVE  MovesTyped /\ ChainsRun'
BY GotoMoves DEF TypeInv, ChainsRun

\* A launch chain that goes on with the same run.
LEMMA ToChains ==
    ASSUME TypeInv, NEW c \in Callers, chain[c].pc \in LaunchPc \union {"seed"},
           NEW next \in Chain, next.run = chain[c].run, next.pc \in LaunchPc,
           Goto(c, next)
    PROVE  MovesTyped /\ ChainsRun' /\ next.run \in Runs
<1>1. chain[c].run \in Runs
  BY DEF TypeInv, ChainsRun, HandlerPc
<1>2. next.pc \notin HandlerPc
  BY DEF LaunchPc, HandlerPc
<1> QED BY <1>1, <1>2, GotoChains

\* What is left to show of a step whose parts are typed.
LEMMA StepTyped ==
    ASSUME TypeInv, MovesTyped, ChainsRun', RowsGrow, RestTyped,
           runStatus' \in [Runs -> RunStatus],
           env' \in [Runs -> BOOLEAN],
           deployed' \in [Runs -> Nat],
           crashes' \in Nat,
           web' \in [Runs -> Web]
    PROVE  TypeInv'
<1>1. TypeOK'
  BY DEF MovesTyped, RowsGrow, RestTyped, TypeOK
<1>2. StaleKnown'
  <2> SUFFICES ASSUME NEW s \in Sweeps, NEW e \in stale'[s]
               PROVE  e.row \in DOMAIN rows'[e.run]
    BY DEF StaleKnown
  <2>1. e \in stale[s] /\ e \in StaleRow
    BY DEF RestTyped, TypeInv, TypeOK
  <2>2. e.run \in Runs /\ e.row \in DOMAIN rows[e.run]
    BY <2>1 DEF TypeInv, StaleKnown, StaleRow
  <2> QED BY <2>2 DEF RowsGrow
<1> QED BY <1>1, <1>2 DEF TypeInv

Args == {"", "ok", "error", "dead_end"} \union Verdicts \union Settled

LEMMA ToTyped ==
    ASSUME TypeInv, NEW c \in Callers, chain[c].pc \in LaunchPc,
           NEW pc \in LaunchPc, NEW arg \in Args, To(c, pc, arg)
    PROVE  MovesTyped /\ ChainsRun'
<1> DEFINE next == [chain[c] EXCEPT !.pc = pc, !.arg = arg]
<1>1. chain[c] \in Chain
  BY DEF TypeInv, TypeOK
<1>2. next \in Chain /\ next.run = chain[c].run /\ next.pc = pc
  BY <1>1 DEF Chain, Args
<1>3. Goto(c, next)
  BY DEF To
<1> HIDE DEF next
<1> QED BY <1>2, <1>3, ToChains

\* The chain goes on to create a row for stage s of the same run.
LEMMA ToCreateTyped ==
    ASSUME TypeInv, NEW c \in Callers, chain[c].pc \in LaunchPc,
           NEW s \in Stages, NEW arg \in Args,
           Goto(c, [chain[c] EXCEPT !.pc = "create", !.row = 0, !.stage = s, !.arg = arg])
    PROVE  MovesTyped /\ ChainsRun'
<1> DEFINE next == [chain[c] EXCEPT !.pc = "create", !.row = 0, !.stage = s, !.arg = arg]
<1>1. chain[c] \in Chain
  BY DEF TypeInv, TypeOK
<1>2. next \in Chain /\ next.run = chain[c].run /\ next.pc \in LaunchPc
  BY <1>1 DEF Chain, Args, LaunchPc
<1> HIDE DEF next
<1> QED BY <1>2, ToChains DEF next

\* Every launch step keeps the types.
LEMMA LaunchTyped ==
    ASSUME TypeInv, NEW c \in Callers, Launch(c)
    PROVE  TypeInv'
<1>0. /\ TypeOK /\ chain[c] \in Chain /\ chain[c].stage \in Stages
      /\ chain[c].arg \in Args /\ chain[c].row \in Nat
      /\ runStatus \in [Runs -> RunStatus] /\ env \in [Runs -> BOOLEAN]
      /\ deployed \in [Runs -> Nat] /\ crashes \in Nat /\ web \in [Runs -> Web]
  BY DEF TypeInv, TypeOK, Chain, Args
<1>run. ASSUME chain[c].pc \in LaunchPc
        PROVE  RunOf(c) \in Runs /\ rows[RunOf(c)] \in Seq(StageRun)
  BY <1>run, <1>0 DEF TypeInv, TypeOK, ChainsRun, RunOf
<1>term. {"failed", "completed"} \subseteq StageTerminal
  BY DEF StageTerminal
<1>1. CASE CreateRow(c)
  <2> DEFINE r == RunOf(c)
             next == [chain[c] EXCEPT !.pc = "gate", !.row = Len(rows[r]) + 1]
  <2>1. r \in Runs /\ rows[r] \in Seq(StageRun)
    BY <1>1, <1>run DEF CreateRow, At, LaunchPc
  <2>2. RowsGrow
    BY <1>1, <1>0, <2>1, CreateRowGrows DEF CreateRow
  <2>3. Len(rows[r]) + 1 \in Nat
    BY <2>1, LenProperties
  <2>4. next \in Chain /\ next.run = chain[c].run /\ next.pc \in LaunchPc
    BY <1>0, <2>3 DEF Chain, LaunchPc
  <2>5. chain[c].pc \in LaunchPc /\ Goto(c, next)
    BY <1>1 DEF CreateRow, At, LaunchPc
  <2>6. MovesTyped /\ ChainsRun'
    <3> HIDE DEF next
    <3> QED BY <2>4, <2>5, ToChains
  <2>7. RestTyped
    BY <1>0, <1>1, RestSame DEF CreateRow, RestShrinks
  <2> QED BY <1>0, <1>1, <2>2, <2>6, <2>7, StepTyped DEF CreateRow
<1>2. CASE HoldAtGate(c)
  <2>1. MovesTyped /\ ChainsRun'
    BY <1>0, <1>2, ReturnMoves, QuietChains DEF HoldAtGate
  <2>2. RowsGrow
    BY <1>0, <1>2, UpdateRowGrows DEF HoldAtGate, StageStatus
  <2>3. RestTyped
    BY <1>0, <1>2, RestSame DEF HoldAtGate, RestShrinks
  <2> QED BY <1>0, <1>2, <2>1, <2>2, <2>3, StepTyped DEF HoldAtGate
<1>3. CASE RefuseNoDriver(c)
  <2>1. MovesTyped /\ ChainsRun'
    BY <1>3, ToTyped DEF RefuseNoDriver, PassGate, At, LaunchPc, Args, Settled
  <2>2. RowsGrow
    BY <1>0, <1>3, <1>term, CompleteRowGrows DEF RefuseNoDriver
  <2>3. RestTyped
    BY <1>0, <1>3, RestSame DEF RefuseNoDriver, RestShrinks
  <2> QED BY <1>0, <1>3, <2>1, <2>2, <2>3, StepTyped DEF RefuseNoDriver
<1>4. CASE AcquireEnv(c)
  <2>1. chain[c].pc \in LaunchPc
    BY <1>4 DEF AcquireEnv, Acquired, PassGate, At, LaunchPc
  <2>2. /\ RowsGrow
        /\ UNCHANGED <<runStatus, deployed, crashes, web>>
        /\ env' \in [Runs -> BOOLEAN]
    BY <1>0, <1>4, RowsSame DEF AcquireEnv, Acquired
  <2>3. MovesTyped /\ ChainsRun'
    BY <1>4, <2>1, ToTyped DEF AcquireEnv, LaunchPc, Args
  <2>4. RestTyped
    BY <1>0, <1>4, RestSame DEF AcquireEnv, RestShrinks
  <2> QED BY <1>0, <2>2, <2>3, <2>4, StepTyped
<1>13. CASE RefuseNoArtifacts(c)
  <2>1. MovesTyped /\ ChainsRun'
    BY <1>13, ToTyped DEF RefuseNoArtifacts, Acquired, PassGate, At, LaunchPc, Args, Settled
  <2>2. RowsGrow
    BY <1>0, <1>13, <1>term, CompleteRowGrows DEF RefuseNoArtifacts
  <2>3. RestTyped
    BY <1>0, <1>13, RestSame DEF RefuseNoArtifacts, RestShrinks
  <2>4. env' \in [Runs -> BOOLEAN]
    BY <1>0, <1>13 DEF RefuseNoArtifacts, Acquired
  <2> QED BY <1>0, <1>13, <2>1, <2>2, <2>3, <2>4, StepTyped DEF RefuseNoArtifacts
<1>14. CASE ThrowAtPrompt(c)
  <2>1. RowsGrow
    BY <1>0, <1>14, RowsSame DEF ThrowAtPrompt
  <2>2. env' \in [Runs -> BOOLEAN]
    BY <1>0, <1>14 DEF ThrowAtPrompt, Acquired
  <2>3. MovesTyped /\ Quiet(chain) /\ RestTyped
    BY <1>0, <1>14, ThrowMoves DEF ThrowAtPrompt, RestShrinks
  <2> QED BY <1>0, <1>14, <2>1, <2>2, <2>3, QuietChains, StepTyped DEF ThrowAtPrompt
<1>5. CASE MarkRunning(c)
  <2>1. MovesTyped /\ ChainsRun'
    BY <1>5, ToTyped DEF MarkRunning, At, LaunchPc, Args
  <2>2. RowsGrow
    BY <1>0, <1>5, UpdateRowGrows DEF MarkRunning, StageStatus
  <2>3. RestTyped
    BY <1>0, <1>5, RestSame DEF MarkRunning, RestShrinks
  <2> QED BY <1>0, <1>5, <2>1, <2>2, <2>3, StepTyped DEF MarkRunning
<1>6. CASE SpawnDriver(c)
  <2>1. MovesTyped /\ ChainsRun'
    BY <1>6, ToTyped DEF SpawnDriver, At, LaunchPc, Args
  <2>2. RowsGrow
    BY <1>0, <1>6, RowsSame DEF SpawnDriver, dbVars
  <2>3. RestTyped
    BY <1>0, <1>6 DEF SpawnDriver, RestTyped, TypeOK
  <2> QED BY <1>0, <1>6, <2>1, <2>2, <2>3, StepTyped DEF SpawnDriver, dbVars
<1>7. CASE DriverExit(c)
  <2>1. MovesTyped /\ ChainsRun'
    BY <1>7, ToTyped DEF DriverExit, At, LaunchPc, Args
  <2>2. RowsGrow
    BY <1>0, <1>7, RowsSame DEF DriverExit, dbVars
  <2>3. RestTyped
    BY <1>0, <1>7 DEF DriverExit, RestTyped, TypeOK
  <2> QED BY <1>0, <1>7, <2>1, <2>2, <2>3, StepTyped DEF DriverExit, dbVars
<1>8. CASE Settle(c)
  <2>1. MovesTyped /\ ChainsRun'
    <3>1. PICK pc \in {"finish", "failed", "done"}, arg \in {"cancelled", ""} \union Verdicts :
              To(c, pc, arg)
      BY <1>8 DEF Settle, Verdicts
    <3>2. pc \in LaunchPc /\ arg \in Args /\ chain[c].pc \in LaunchPc
      BY <1>8 DEF Settle, At, LaunchPc, Args, Settled
    <3> QED BY <3>1, <3>2, ToTyped
  <2>2. RowsGrow
    BY <1>0, <1>8, RowsSame DEF Settle, dbVars
  <2>3. RestTyped
    BY <1>0, <1>8, RestSame DEF Settle, RestShrinks
  <2> QED BY <1>0, <1>8, <2>1, <2>2, <2>3, StepTyped DEF Settle, dbVars
<1>9. CASE StageFailed(c)
  <2>1. chain[c].pc \in LaunchPc
    BY <1>9 DEF StageFailed, At, LaunchPc
  <2>2. MovesTyped /\ ChainsRun'
    <3>1. CASE To(c, "finish", "failed")
      BY <2>1, <3>1, ToTyped DEF LaunchPc, Args, Settled
    <3>2. CASE Goto(c, [chain[c] EXCEPT !.pc = "create", !.row = 0])
      <4>1. [chain[c] EXCEPT !.pc = "create", !.row = 0]
              = [chain[c] EXCEPT !.pc = "create", !.row = 0,
                                 !.stage = chain[c].stage, !.arg = chain[c].arg]
        BY <1>0 DEF Chain
      <4> QED BY <1>0, <2>1, <3>2, <4>1, ToCreateTyped
    <3> QED BY <1>9, <3>1, <3>2 DEF StageFailed
  <2>3. RowsGrow
    BY <1>0, <1>9, <1>term, CompleteRowGrows DEF StageFailed
  <2>4. RestTyped
    BY <1>0, <1>9, RestSame DEF StageFailed, RestShrinks
  <2> QED BY <1>0, <1>9, <2>2, <2>3, <2>4, StepTyped DEF StageFailed
<1>10. CASE StageCompleted(c)
  <2>1. chain[c].pc \in LaunchPc
    BY <1>10 DEF StageCompleted, At, LaunchPc
  <2>2. RowsGrow /\ UNCHANGED <<runStatus, env, deployed, crashes, web>>
    BY <1>0, <1>10, <1>term, CompleteRowGrows DEF StageCompleted
  <2>3. CASE Throw(c, 0)
    BY <1>0, <2>2, <2>3, ThrowMoves, QuietChains, StepTyped DEF RestShrinks
  <2>4. CASE ~Throw(c, 0)
    <3>1. RestTyped
      BY <1>0, <1>10, <2>4, RestSame DEF StageCompleted, RestShrinks
    <3>2. CASE \E arg \in {"failed", "completed", "blocked", "dead_end"} : To(c, "finish", arg)
      <4>1. MovesTyped /\ ChainsRun'
        BY <2>1, <3>2, ToTyped DEF LaunchPc, Args, Settled
      <4> QED BY <1>0, <2>2, <3>1, <4>1, StepTyped
    <3>3. ASSUME NEW s \in Stages,
                 Goto(c, [chain[c] EXCEPT !.pc = "create", !.row = 0, !.stage = s, !.arg = ""])
          PROVE  TypeInv'
      <4>1. MovesTyped /\ ChainsRun'
        BY <2>1, <3>3, ToCreateTyped DEF Args
      <4> QED BY <1>0, <2>2, <3>1, <4>1, StepTyped
    <3> QED BY <1>10, <2>4, <3>2, <3>3 DEF StageCompleted
  <2> QED BY <2>3, <2>4
<1>11. CASE FinishRun(c)
  <2>1. MovesTyped /\ ChainsRun'
    BY <1>0, <1>11, ToTyped DEF FinishRun, At, LaunchPc
  <2>2. RowsGrow
    BY <1>0, <1>11, RowsSame DEF FinishRun
  <2>3. RestTyped
    BY <1>0, <1>11, RestSame DEF FinishRun, RestShrinks
  <2>4. runStatus' \in [Runs -> RunStatus]
    BY <1>0, <1>11 DEF FinishRun, StatusOf, RunStatus, Settled
  <2> QED BY <1>0, <1>11, <2>1, <2>2, <2>3, <2>4, StepTyped DEF FinishRun
<1>12. CASE TerminalHook(c)
  <2>1. /\ UNCHANGED <<runStatus, crashes, web>>
        /\ env' \in [Runs -> BOOLEAN]
        /\ deployed' \in [Runs -> Nat]
    <3>1. UNCHANGED <<runStatus, crashes, web>> /\ env' \in [Runs -> BOOLEAN]
      BY <1>0, <1>12 DEF TerminalHook
    <3>2. deployed' \in {deployed, [deployed EXCEPT ![RunOf(c)] = @ + 1]}
      BY <1>12 DEF TerminalHook
    <3>3. RunOf(c) \in Runs
      BY <1>12, <1>run DEF TerminalHook, At, LaunchPc
    <3> QED BY <1>0, <3>1, <3>2, <3>3
  <2>2. RowsGrow
    BY <1>0, <1>12, RowsSame DEF TerminalHook
  <2>3. MovesTyped /\ Quiet(chain) /\ RestTyped
    <3>1. CASE Throw(c, 1)
      BY <1>0, <3>1, ThrowMoves DEF RestShrinks
    <3>2. CASE Return(c, 1) /\ UNCHANGED <<proc, stale, events>>
      BY <1>0, <3>2, ReturnMoves, RestSame DEF RestShrinks
    <3> QED BY <1>12, <3>1, <3>2 DEF TerminalHook
  <2> QED BY <1>0, <2>1, <2>2, <2>3, QuietChains, StepTyped
<1> QED
  BY <1>1, <1>2, <1>3, <1>4, <1>5, <1>6, <1>7, <1>8, <1>9, <1>10, <1>11, <1>12,
     <1>13, <1>14 DEF Launch

\* The steps of a handler.
LEMMA HandleTyped ==
    ASSUME TypeInv, NEW r \in Runs, Deliver(r) \/ Handle(r)
    PROVE  TypeInv'
<1>0. /\ TypeOK /\ r \in Callers /\ chain[r] \in Chain
      /\ rows \in [Runs -> Seq(StageRun)] /\ runStatus \in [Runs -> RunStatus]
      /\ env \in [Runs -> BOOLEAN] /\ deployed \in [Runs -> Nat]
      /\ crashes \in Nat /\ web \in [Runs -> Web]
  BY DEF TypeInv, TypeOK, Callers
<1>go. ASSUME NEW next \in Chain, next.pc \in HandlerPc, next.run = r, Goto(r, next)
       PROVE  MovesTyped /\ ChainsRun'
  BY <1>0, <1>go, GotoChains DEF HandlerPc, LaunchPc
<1>1. CASE Deliver(r)
  <2>1. RestTyped /\ RowsGrow
    BY <1>0, <1>1, RowsSame DEF Deliver, dbVars, RestTyped, TypeOK
  <2>2. MovesTyped /\ Quiet(chain)
    BY <1>0, <1>1, HandlingType DEF Deliver, TypeOK, MovesTyped, Quiet
  <2> QED BY <1>0, <1>1, <2>1, <2>2, QuietChains, StepTyped DEF Deliver, dbVars
<1>2. CASE Fetch(r)
  <2>1. RestTyped /\ RowsGrow
    BY <1>0, <1>2, RowsSame, RestSame DEF Fetch, dbVars, RestShrinks
  <2>2. MovesTyped /\ ChainsRun'
    <3>1. CASE Return(r, 0)
      BY <1>0, <3>1, ReturnMoves, QuietChains
    <3>2. ASSUME NEW pc \in {"slot", "stageless"}, Goto(r, [chain[r] EXCEPT !.pc = pc])
          PROVE  MovesTyped /\ ChainsRun'
      <4>1. chain[r].run = r
        BY <1>0, <1>2 DEF Fetch, HandlerPc, TypeInv, ChainsRun
      <4>2. [chain[r] EXCEPT !.pc = pc] \in Chain
        BY <1>0 DEF Chain, HandlerPc
      <4> QED BY <1>0, <1>go, <3>2, <4>1, <4>2 DEF Chain, HandlerPc
    <3> QED BY <1>2, <3>1, <3>2 DEF Fetch
  <2> QED BY <1>0, <1>2, <2>1, <2>2, StepTyped DEF Fetch, dbVars
<1>6. CASE FailStageless(r)
  <2>1. RestTyped /\ RowsGrow
    BY <1>0, <1>6, RowsSame, RestSame DEF FailStageless, RestShrinks
  <2>2. runStatus' \in [Runs -> RunStatus]
    BY <1>0, <1>6 DEF FailStageless, RunStatus, Settled
  <2>3. MovesTyped /\ ChainsRun'
    BY <1>0, <1>6, ReturnMoves, QuietChains DEF FailStageless
  <2> QED BY <1>0, <1>6, <2>1, <2>2, <2>3, StepTyped DEF FailStageless
<1>3. CASE TryAcquireRunningSlot(r)
  <2>1. RestTyped /\ RowsGrow
    BY <1>0, <1>3, RowsSame, RestSame DEF TryAcquireRunningSlot, RestShrinks
  <2>2. runStatus' \in [Runs -> RunStatus]
    BY <1>0, <1>3 DEF TryAcquireRunningSlot, RunStatus
  <2>3. MovesTyped /\ ChainsRun'
    <3>1. PICK pc \in {"seed", "denied"} : Goto(r, [chain[r] EXCEPT !.pc = pc])
      BY <1>3 DEF TryAcquireRunningSlot
    <3>2. chain[r].run = r
      BY <1>0, <1>3 DEF TryAcquireRunningSlot, HandlerPc, TypeInv, ChainsRun
    <3>3. [chain[r] EXCEPT !.pc = pc] \in Chain
      BY <1>0 DEF Chain, HandlerPc
    <3> QED BY <1>0, <1>go, <3>1, <3>2, <3>3 DEF Chain, HandlerPc
  <2> QED BY <1>0, <1>3, <2>1, <2>2, <2>3, StepTyped DEF TryAcquireRunningSlot
<1>4. CASE Denied(r)
  <2>1. RestTyped /\ RowsGrow
    BY <1>0, <1>4, RowsSame, RestSame DEF Denied, dbVars, RestShrinks
  <2>2. MovesTyped /\ ChainsRun'
    BY <1>0, <1>4, ReturnMoves, QuietChains DEF Denied
  <2> QED BY <1>0, <1>4, <2>1, <2>2, StepTyped DEF Denied, dbVars
<1>5. CASE ChooseStage(r)
  <2>1. RestTyped /\ RowsGrow
    BY <1>0, <1>5, RowsSame, RestSame DEF ChooseStage, dbVars, RestShrinks
  <2>2. chain[r].run = r
    BY <1>0, <1>5 DEF ChooseStage, HandlerPc, TypeInv, ChainsRun
  <2>3. MovesTyped /\ ChainsRun'
    <3>1. ASSUME Goto(r, [chain[r] EXCEPT !.pc = "create", !.stage = FirstStage])
          PROVE  MovesTyped /\ ChainsRun'
      <4> DEFINE next == [chain[r] EXCEPT !.pc = "create", !.stage = FirstStage]
      <4>1. next \in Chain /\ next.run = chain[r].run /\ next.pc \in LaunchPc
        BY <1>0, OrchestratorAssumption DEF Chain, LaunchPc
      <4> HIDE DEF next
      <4> QED BY <1>0, <1>5, <3>1, <4>1, ToChains DEF ChooseStage, next
    <3>2. ASSUME NEW i \in StageRunsWith(rows[r], "pending"),
                 Goto(r, [chain[r] EXCEPT !.pc = "gate", !.row = i,
                                          !.stage = rows[r][i].stage])
          PROVE  MovesTyped /\ ChainsRun'
      <4> DEFINE next == [chain[r] EXCEPT !.pc = "gate", !.row = i,
                                          !.stage = rows[r][i].stage]
      <4>1. i \in Nat /\ rows[r][i].stage \in Stages
        <5>1. rows[r] \in Seq(StageRun)
          BY <1>0
        <5>2. /\ Len(rows[r]) \in Nat /\ DOMAIN rows[r] = 1..Len(rows[r])
              /\ rows[r] \in [1..Len(rows[r]) -> StageRun]
          BY <5>1, LenProperties
        <5>3. i \in 1..Len(rows[r])
          BY <5>2 DEF StageRunsWith
        <5>4. rows[r][i] \in StageRun
          BY <5>2, <5>3
        <5> QED BY <5>2, <5>3, <5>4 DEF StageRun
      <4>2. next \in Chain /\ next.run = chain[r].run /\ next.pc \in LaunchPc
        BY <1>0, <4>1 DEF Chain, LaunchPc
      <4> HIDE DEF next
      <4> QED BY <1>0, <1>5, <3>2, <4>2, ToChains DEF ChooseStage, next
    <3> QED BY <1>5, <3>1, <3>2 DEF ChooseStage
  <2> QED BY <1>0, <1>5, <2>1, <2>3, StepTyped DEF ChooseStage, dbVars
<1> QED BY <1>1, <1>2, <1>3, <1>4, <1>5, <1>6 DEF Handle

LEMMA DrainPendingTyped ==
    ASSUME TypeInv, DrainPending
    PROVE  TypeInv'
<1>1. /\ TypeOK /\ PendingRuns(runStatus) \in SUBSET Runs /\ -1 \in Int
      /\ drains + -1 \in Nat /\ chain \in [Callers -> Chain]
      /\ loop \in [Runs -> Loop]
  BY DEF DrainPending, PendingRuns, TypeInv, TypeOK
<1>2. MovesTyped /\ Quiet(chain)
  BY <1>1, ContinueDrainMoves DEF DrainPending
<1>3. RowsGrow /\ RestTyped
  BY <1>1, RowsSame, RestSame DEF DrainPending, dbVars, RestShrinks
<1> QED BY <1>1, <1>2, <1>3, QuietChains, StepTyped DEF DrainPending, dbVars, TypeOK

\* The steps of recovery, of the process as a whole, and recordPid.
LEMMA StaleRowsType ==
    ASSUME TypeOK
    PROVE  /\ StaleRows \in SUBSET StaleRow
           /\ \A e \in StaleRows : /\ e.run \in Runs
                                   /\ e.row \in DOMAIN rows[e.run]
                                   /\ rows[e.run][e.row].status = "running"
<1>1. ASSUME NEW e \in StaleRows
      PROVE  /\ e \in StaleRow /\ e.run \in Runs
             /\ e.row \in DOMAIN rows[e.run]
             /\ rows[e.run][e.row].status = "running"
  <2>1. PICK r \in Runs : \E i \in StageRunsWith(rows[r], "running") :
               e = [run |-> r, row |-> i, pid |-> rows[r][i].pid]
    BY <1>1 DEF StaleRows
  <2>2. rows[r] \in Seq(StageRun)
    BY DEF TypeOK
  <2>3. /\ Len(rows[r]) \in Nat /\ DOMAIN rows[r] = 1..Len(rows[r])
        /\ rows[r] \in [1..Len(rows[r]) -> StageRun]
    BY <2>2, LenProperties
  <2> PICK i \in StageRunsWith(rows[r], "running") :
               e = [run |-> r, row |-> i, pid |-> rows[r][i].pid]
    BY <2>1
  <2>4. i \in 1..Len(rows[r]) /\ rows[r][i].status = "running"
    BY <2>3 DEF StageRunsWith
  <2>5. rows[r][i] \in StageRun
    BY <2>3, <2>4
  <2>6. i \in Nat /\ rows[r][i].pid \in BOOLEAN
    BY <2>3, <2>4, <2>5 DEF StageRun
  <2> QED BY <2>1, <2>3, <2>4, <2>6 DEF StaleRow
<1> QED BY <1>1

LEMMA StartSweepTyped ==
    ASSUME TypeInv, NEW s \in Sweeps, StartSweep(s),
           daemon' \in {"down", "booting", "started", "up"},
           UNCHANGED <<runStatus, rows, env, deployed, proc, loop, drains, crashes,
                       events, web>>
    PROVE  TypeInv'
<1>1. TypeOK'
  BY StaleRowsType, GoSweepType DEF StartSweep, TypeInv, TypeOK
<1>2. ChainsRun'
  BY GoSweepType DEF StartSweep, TypeInv, TypeOK, ChainsRun, LaunchPc, HandlerPc
<1>3. StaleKnown'
  BY StaleRowsType DEF StartSweep, TypeInv, TypeOK, StaleKnown
<1> QED BY <1>1, <1>2, <1>3 DEF TypeInv

LEMMA SweepTyped ==
    ASSUME TypeInv,
           NEW s \in Sweeps, Sweep(s) \/ Tick(s) \/ StartDaemon \/ Crash
    PROVE  TypeInv'
<1>0. /\ TypeOK /\ s \in Callers /\ chain[s] \in Chain
      /\ rows \in [Runs -> Seq(StageRun)] /\ runStatus \in [Runs -> RunStatus]
      /\ env \in [Runs -> BOOLEAN] /\ deployed \in [Runs -> Nat]
      /\ crashes \in Nat /\ web \in [Runs -> Web]
  BY DEF TypeInv, TypeOK, Callers
<1>1. CASE SweepRow(s)
  <2>0. UNCHANGED <<runStatus, env, deployed, proc, daemon, loop, drains, crashes,
                    events, web>>
    BY <1>1 DEF SweepRow
  <2>1. PICK e \in stale[s] :
           /\ stale' = [stale EXCEPT ![s] = @ \ {e}]
           /\ \/ UNCHANGED <<rows, chain>>
              \/ /\ WriteRows(e.run, CompleteStageRun(rows[e.run], e.row, "failed"))
                 /\ \/ chain' = [chain EXCEPT ![s] = [Idle EXCEPT
                           !.pc = "create", !.run = e.run,
                           !.stage = rows[e.run][e.row].stage]]
                    \/ chain' = [chain EXCEPT ![s] = [Idle EXCEPT
                           !.pc = "finish", !.run = e.run,
                           !.stage = rows[e.run][e.row].stage, !.arg = "failed"]]
    BY <1>1 DEF SweepRow
  <2>2. e \in StaleRow /\ e.run \in Runs /\ e.row \in DOMAIN rows[e.run]
    BY <1>0 DEF TypeOK, TypeInv, StaleKnown, StaleRow
  <2>3. rows[e.run][e.row].stage \in Stages
    <3>1. rows[e.run] \in [1..Len(rows[e.run]) -> StageRun]
      BY <1>0, <2>2, LenProperties
    <3>2. rows[e.run][e.row] \in StageRun
      BY <2>2, <3>1
    <3> QED BY <3>2 DEF StageRun
  <2>4. RestTyped
    BY <1>0, <2>0, <2>1 DEF RestTyped, TypeOK
  <2>5. RowsGrow
    <3>1. "failed" \in StageTerminal
      BY DEF StageTerminal
    <3> QED BY <1>0, <2>1, <3>1, RowsSame, CompleteRowGrows
  <2>6. MovesTyped /\ ChainsRun'
    <3>1. CASE UNCHANGED chain
      BY <1>0, <2>0, <3>1, MovesSame, QuietChains
    <3>2. ASSUME NEW next \in Chain, next.pc \in {"create", "finish"},
                 next.run = e.run, chain' = [chain EXCEPT ![s] = next]
          PROVE  MovesTyped /\ ChainsRun'
      <4>1. next.pc \in LaunchPc /\ next.pc \notin HandlerPc
        BY <3>2 DEF LaunchPc, HandlerPc
      <4>2. Goto(s, next)
        BY <2>0, <3>2 DEF Goto
      <4> QED BY <1>0, <2>2, <3>2, <4>1, <4>2, GotoChains
    <3> DEFINE create == [Idle EXCEPT !.pc = "create", !.run = e.run,
                                      !.stage = rows[e.run][e.row].stage]
               finish == [Idle EXCEPT !.pc = "finish", !.run = e.run,
                                      !.stage = rows[e.run][e.row].stage, !.arg = "failed"]
    <3>3. create \in Chain /\ create.pc = "create" /\ create.run = e.run
      BY <2>2, <2>3 DEF Idle, Chain, LaunchPc
    <3>4. finish \in Chain /\ finish.pc = "finish" /\ finish.run = e.run
      BY <2>2, <2>3 DEF Idle, Chain, LaunchPc, Settled
    <3> QED BY <2>1, <3>1, <3>2, <3>3, <3>4
  <2> QED BY <1>0, <2>0, <2>4, <2>5, <2>6, StepTyped
<1>2. CASE SweepEnd(s)
  <2>1. RestTyped /\ RowsGrow
    BY <1>0, <1>2, RowsSame, RestSame DEF SweepEnd, dbVars, RestShrinks
  <2> DEFINE next == [Idle EXCEPT !.pc = "drain"]
  <2>2. next \in Chain /\ next.pc \notin LaunchPc \union HandlerPc
    BY OrchestratorAssumption DEF Idle, Chain, SweepPc, LaunchPc, HandlerPc
  <2>3. Goto(s, next)
    BY <1>2 DEF SweepEnd, Goto
  <2>4. MovesTyped /\ ChainsRun'
    <3> HIDE DEF next
    <3> QED BY <1>0, <2>2, <2>3, GotoChains
  <2> QED BY <1>0, <1>2, <2>1, <2>4, StepTyped DEF SweepEnd, dbVars
<1>3. CASE SweepDrain(s)
  <2>1. RestTyped /\ RowsGrow
    BY <1>0, <1>3, RowsSame, RestSame DEF SweepDrain, dbVars, RestShrinks
  <2> DEFINE go == [Idle EXCEPT !.pc = "await"]
             ch == [chain EXCEPT ![s] = go]
  <2>2. go \in Chain /\ go.pc = "await"
    BY OrchestratorAssumption DEF Idle, Chain, SweepPc
  <2>3. MovesTyped /\ Quiet(ch)
    <3>1. /\ PendingRuns(runStatus) \in SUBSET Runs /\ 0 \in Int
          /\ drains + 0 \in Nat /\ ch \in [Callers -> Chain]
          /\ loop \in [Runs -> Loop]
      BY <1>0, <2>2 DEF PendingRuns, TypeOK
    <3>2. ContinueDrain(PendingRuns(runStatus), s, ch, loop, 0)
      BY <1>3 DEF SweepDrain
    <3> HIDE DEF ch
    <3> QED BY <1>0, <3>1, <3>2, ContinueDrainMoves
  <2>4. \A d \in Callers : ch[d] = chain[d] \/ ch[d].pc = "await"
    BY <1>0, <2>2 DEF TypeOK
  <2>5. Quiet(chain)
    <3> HIDE DEF ch
    <3> QED BY <2>3, <2>4 DEF Quiet
  <2> QED BY <1>0, <1>3, <2>1, <2>3, <2>5, QuietChains, StepTyped DEF SweepDrain, dbVars
<1>4. CASE Tick(s)
  BY <1>0, <1>4, StartSweepTyped DEF Tick, dbVars, TypeOK
<1>5. CASE StartDaemon
  BY <1>0, <1>5, StartSweepTyped, OrchestratorAssumption DEF StartDaemon, dbVars
<1>6. CASE Crash
  <2>1. MovesTyped /\ Quiet(chain) /\ RestTyped /\ RowsGrow
    BY <1>0, <1>6, ExitMoves, RowsSame DEF Crash, dbVars, RestShrinks
  <2> QED BY <1>0, <1>6, <2>1, QuietChains, StepTyped DEF Crash, dbVars
<1> QED BY <1>1, <1>2, <1>3, <1>4, <1>5, <1>6 DEF Sweep

LEMMA PidRecordedTyped ==
    ASSUME TypeInv, NEW c \in Callers, PidRecorded(c)
    PROVE  TypeInv'
<1>1. TypeOK /\ RunOf(c) \in Runs
  BY DEF PidRecorded, At, LaunchPc, RunOf, TypeInv, ChainsRun
<1>2. MovesTyped /\ ChainsRun'
  BY <1>1, MovesSame, QuietChains DEF PidRecorded
<1>3. RowsGrow /\ RestTyped
  BY <1>1, RecordPidGrows, RestSame DEF PidRecorded, RestShrinks
<1> QED BY <1>1, <1>2, <1>3, StepTyped DEF PidRecorded, TypeOK

\* The Realtime channel.
LEMMA ChannelTyped ==
    ASSUME TypeInv, Join \/ Disconnect
    PROVE  TypeInv'
<1>0. /\ TypeOK
      /\ runStatus' \in [Runs -> RunStatus] /\ env' \in [Runs -> BOOLEAN]
      /\ deployed' \in [Runs -> Nat] /\ crashes' \in Nat /\ web' \in [Runs -> Web]
  BY DEF Join, Disconnect, dbVars, TypeInv, TypeOK
<1>1. MovesTyped /\ Quiet(chain)
  BY <1>0 DEF Join, Disconnect, MovesTyped, Quiet, TypeOK
<1>2. RowsGrow
  BY <1>0, RowsSame DEF Join, Disconnect, dbVars
<1>3. RestTyped
  BY <1>0 DEF Join, Disconnect, RestTyped, TypeOK
<1> QED BY <1>0, <1>1, <1>2, <1>3, QuietChains, StepTyped

\* The web process.
LEMMA UserTyped ==
    ASSUME TypeInv, User
    PROVE  TypeInv'
<1>0. /\ TypeOK
      /\ rows \in [Runs -> Seq(StageRun)] /\ runStatus \in [Runs -> RunStatus]
      /\ env \in [Runs -> BOOLEAN] /\ deployed \in [Runs -> Nat]
      /\ crashes \in Nat /\ web \in [Runs -> Web]
  BY DEF TypeInv, TypeOK
<1>1. ASSUME NEW r \in Runs, NEW request \in Web, Insert(r, request)
      PROVE  TypeInv'
  <2>1. MovesTyped /\ ChainsRun'
    BY <1>0, <1>1, MovesSame, QuietChains DEF Insert
  <2>2. RowsGrow /\ RestTyped
    BY <1>0, <1>1, RowsSame DEF Insert, RestTyped, TypeOK
  <2>3. runStatus' \in [Runs -> RunStatus] /\ web' \in [Runs -> Web]
    BY <1>0, <1>1 DEF Insert, RunStatus
  <2> QED BY <1>0, <1>1, <2>1, <2>2, <2>3, StepTyped DEF Insert
<1>2. ASSUME NEW r \in Runs, NEW s \in Stages, Trigger(r, s)
      PROVE  TypeInv'
  <2>1. [pc |-> "seed", stage |-> s, picked |-> {}] \in Web
    BY DEF Web
  <2> QED BY <1>1, <1>2, <2>1 DEF Trigger
<1>3. ASSUME NEW r \in Runs, AutoDispatch(r)
      PROVE  TypeInv'
  <2>1. [pc |-> "idle", stage |-> FirstStage, picked |-> {}] \in Web
    BY OrchestratorAssumption DEF Web
  <2> QED BY <1>1, <1>3, <2>1 DEF AutoDispatch
<1>web. ASSUME NEW r \in Runs, NEW pc, NEW request \in Web, WebStep(r, pc, request),
               RowsGrow, runStatus' \in [Runs -> RunStatus]
        PROVE  TypeInv'
  <2>1. MovesTyped /\ ChainsRun'
    BY <1>0, <1>web, MovesSame, QuietChains DEF WebStep
  <2>2. RestTyped /\ web' \in [Runs -> Web]
    BY <1>0, <1>web, RestSame DEF WebStep, RestShrinks
  <2> QED BY <1>0, <1>web, <2>1, <2>2, StepTyped DEF WebStep
<1>4. ASSUME NEW r \in Runs, Seed(r)
      PROVE  TypeInv'
  <2>1. web[r].stage \in Stages /\ [web[r] EXCEPT !.pc = "idle"] \in Web
    BY <1>0 DEF Web
  <2>2. RowsGrow
    BY <1>0, <1>4, <2>1, CreateRowGrows DEF Seed
  <2> QED BY <1>0, <1>4, <1>web, <2>1, <2>2 DEF Seed
<1>5. ASSUME NEW r \in Runs, Cancel(r)
      PROVE  TypeInv'
  <2>1. CASE ReadCancel(r)
    <3>1. PICK picked \in {OpenStageRuns(rows[r])}
                            \union {{i} : i \in DOMAIN rows[r]} :
             WebStep(r, "idle", [web[r] EXCEPT !.pc = "cancel", !.picked = picked])
      BY <2>1 DEF ReadCancel
    <3>2. OpenStageRuns(rows[r]) \in SUBSET Nat /\ DOMAIN rows[r] \in SUBSET Nat
      <4>1. rows[r] \in Seq(StageRun)
        BY <1>0
      <4>2. DOMAIN rows[r] = 1..Len(rows[r]) /\ Len(rows[r]) \in Nat
        BY <4>1, LenProperties
      <4> QED BY <4>2 DEF OpenStageRuns
    <3>3. picked \in SUBSET Nat
      BY <3>2
    <3>4. [web[r] EXCEPT !.pc = "cancel", !.picked = picked] \in Web
      BY <1>0, <3>3 DEF Web
    <3> QED BY <1>0, <1>web, <2>1, <3>1, <3>4, RowsSame DEF ReadCancel
  <2>2. CASE CancelStageRuns(r)
    <3>1. [web[r] EXCEPT !.pc = "close", !.picked = {}] \in Web
      BY <1>0 DEF Web
    <3> QED BY <1>0, <1>web, <2>2, <3>1, CancelRowsGrow DEF CancelStageRuns
  <2>3. CASE CancelRun(r)
    <3>1. [web[r] EXCEPT !.pc = "over"] \in Web
      BY <1>0 DEF Web
    <3>2. runStatus' \in [Runs -> RunStatus]
      BY <1>0, <2>3 DEF CancelRun, RunStatus, Settled
    <3> QED BY <1>0, <1>web, <2>3, <3>1, <3>2, RowsSame DEF CancelRun
  <2> QED BY <1>5, <2>1, <2>2, <2>3 DEF Cancel
<1>6. ASSUME NEW r \in Runs, Decide(r)
      PROVE  TypeInv'
  <2>1. MovesTyped /\ ChainsRun'
    BY <1>0, <1>6, MovesSame, QuietChains DEF Decide
  <2>2. RowsGrow
    BY <1>0, <1>6, UpdateRowGrows, CompleteRowGrows DEF Decide, StageStatus, StageTerminal
  <2>3. RestTyped
    BY <1>0, <1>6, RestSame DEF Decide, RestShrinks
  <2> QED BY <1>0, <1>6, <2>1, <2>2, <2>3, StepTyped DEF Decide
<1> QED BY <1>2, <1>3, <1>4, <1>5, <1>6 DEF User

\* TypeInv is inductive.
THEOREM TypeInvHolds == Spec => []TypeInv
<1>1. Init => TypeInv
  <2> SUFFICES ASSUME Init PROVE TypeInv
    OBVIOUS
  <2>1. [pc |-> "none", stage |-> FirstStage, picked |-> {}] \in Web
    BY OrchestratorAssumption DEF Web
  <2>2. TypeOK
    BY <2>1, IdleType, EmptySeq DEF Init, TypeOK, RunStatus
  <2>3. ChainsRun /\ StaleKnown
    BY IdleType DEF Init, ChainsRun, StaleKnown, LaunchPc, HandlerPc
  <2> QED BY <2>2, <2>3 DEF TypeInv
<1>2. TypeInv /\ [Next]_vars => TypeInv'
  <2> SUFFICES ASSUME TypeInv, [Next]_vars PROVE TypeInv'
    OBVIOUS
  <2>1. CASE \E r \in Runs : Deliver(r) \/ Handle(r)
    BY <2>1, HandleTyped
  <2>2. CASE \E c \in Callers : Launch(c) \/ PidRecorded(c)
    BY <2>2, LaunchTyped, PidRecordedTyped
  <2>3. CASE \E s \in Sweeps : Sweep(s) \/ Tick(s) \/ StartDaemon \/ Crash
    BY <2>3, SweepTyped
  <2>4. CASE DrainPending
    BY <2>4, DrainPendingTyped
  <2>5. CASE User
    BY <2>5, UserTyped
  <2>6. CASE UNCHANGED vars
    BY <2>6 DEF vars, TypeInv, TypeOK, ChainsRun, StaleKnown
  <2>7. CASE Join \/ Disconnect
    BY <2>7, ChannelTyped
  <2> QED
    BY <2>1, <2>2, <2>3, <2>4, <2>5, <2>6, <2>7, OrchestratorAssumption DEF Next, System
<1> QED BY <1>1, <1>2, PTL DEF Spec

\* The variables of the model always hold values of their types, however the
\* daemon, its sweeps and the web process interleave.
THEOREM TypeCorrect == Spec => []TypeOK
<1>1. TypeInv => TypeOK
  BY DEF TypeInv
<1> QED BY <1>1, TypeInvHolds, PTL

===============================================================================
