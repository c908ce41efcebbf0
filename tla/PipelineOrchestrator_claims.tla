--------------------- MODULE PipelineOrchestrator_claims ----------------------
(***************************************************************************)
(* The daemon, the web process and their races implement RunSlots; no      *)
(* driver works for a run that was not claimed; and the slot limit, which  *)
(* follows from RunSlots alone.                                            *)
(*                                                                         *)
(* Neither is inductive as it stands.  A chain ends a run it was launched  *)
(* for, perhaps by a sweep, on behalf of a stage_run some other chain had  *)
(* marked as running before a crash; so the invariant follows the claim    *)
(* from the handler to the rows, to what a sweep reads, and back.          *)
(***************************************************************************)
EXTENDS PipelineOrchestrator_proofs

\* Where a chain acts for a run without looking at the run's status again.
WorkingPc == LaunchPc \union {"seed"}

Claimed(r) == runStatus[r] \notin {"absent", "pending"}

\* A handler that is to fail its run for want of stages has seen it queued.
WorkersClaimed ==
    \A c \in Callers :
       /\ chain[c].pc \in WorkingPc => Claimed(chain[c].run)
       /\ chain[c].pc = "stageless" => runStatus[chain[c].run] # "absent"

RunningRowsClaimed ==
    \A r \in Runs : \A i \in DOMAIN rows[r] : rows[r][i].status = "running" => Claimed(r)

StaleClaimed == \A s \in Sweeps : \A e \in stale[s] : Claimed(e.run)

RequestsQueued == \A r \in Runs : web[r].pc # "none" => runStatus[r] # "absent"

ClaimInv ==
    /\ WorkersClaimed
    /\ RunningRowsClaimed
    /\ StaleClaimed
    /\ DriversAreClaimed
    /\ RequestsQueued

-------------------------------------------------------------------------------
(* What a step of RunSlots leaves true of every run. *)

ClaimsKept ==
    \A r \in Runs : /\ Claimed(r) => runStatus'[r] \notin {"absent", "pending"}
                    /\ runStatus[r] # "absent" => runStatus'[r] # "absent"

LEMMA SlotStepKeepsClaims ==
    ASSUME TypeInv, [Slots!Next]_runStatus
    PROVE  ClaimsKept
<1>0. runStatus \in [Runs -> RunStatus] /\ Slots!Runs = Runs /\ Slots!Settled = Settled
  BY DEF TypeInv, TypeOK, Slots!Runs, Runs, Slots!Settled, Settled
<1>1. CASE UNCHANGED runStatus
  BY <1>1 DEF ClaimsKept, Claimed
<1>2. ASSUME NEW r \in Runs, Slots!Enqueue(r) \/ Slots!Claim(r) \/ Slots!Settle(r)
      PROVE  ClaimsKept
  <2>1. PICK status \in {"pending", "running"} \union Settled :
           /\ runStatus' = [runStatus EXCEPT ![r] = status]
           /\ status = "pending" => runStatus[r] = "absent"
    BY <1>0, <1>2 DEF Slots!Enqueue, Slots!Claim, Slots!Settle, Settled
  <2> QED BY <1>0, <2>1 DEF ClaimsKept, Claimed, Settled
<1> QED BY <1>0, <1>1, <1>2 DEF Slots!Next

LEMMA SameStatus ==
    ASSUME UNCHANGED runStatus
    PROVE  ClaimsKept
BY DEF ClaimsKept, Claimed

-------------------------------------------------------------------------------
(* The parts of ClaimInv across a step that keeps the claims. *)

LEMMA WorkerRuns ==
    ASSUME TypeInv, NEW c \in Callers, chain[c].pc \in WorkingPc \union {"stageless"}
    PROVE  chain[c].run \in Runs
BY DEF TypeInv, ChainsRun, WorkingPc, HandlerPc

LEMMA QuietWorkers ==
    ASSUME TypeInv, ClaimInv, ClaimsKept, Quiet(chain)
    PROVE  WorkersClaimed'
<1> SUFFICES ASSUME NEW c \in Callers, chain'[c].pc \in WorkingPc \union {"stageless"}
             PROVE  /\ chain'[c] = chain[c]
                    /\ chain[c].run \in Runs
  BY DEF ClaimInv, WorkersClaimed, ClaimsKept, Claimed
<1>1. chain'[c] = chain[c]
  BY DEF Quiet, WorkingPc, LaunchPc
<1> QED BY <1>1, WorkerRuns

LEMMA GotoWorkers ==
    ASSUME TypeInv, ClaimInv, ClaimsKept,
           NEW c \in Callers, NEW next \in Chain, Goto(c, next),
           next.pc \in WorkingPc => runStatus'[next.run] \notin {"absent", "pending"},
           next.pc = "stageless" => runStatus'[next.run] # "absent"
    PROVE  WorkersClaimed'
<1>1. chain'[c] = next /\ \A d \in Callers : d # c => chain'[d] = chain[d]
  BY GotoMoves DEF TypeInv
<1>2. ASSUME NEW d \in Callers, chain'[d].pc \in WorkingPc
      PROVE  runStatus'[chain'[d].run] \notin {"absent", "pending"}
  BY <1>1, <1>2, WorkerRuns DEF ClaimInv, WorkersClaimed, ClaimsKept
<1>3. ASSUME NEW d \in Callers, chain'[d].pc = "stageless"
      PROVE  runStatus'[chain'[d].run] # "absent"
  BY <1>1, <1>3, WorkerRuns DEF ClaimInv, WorkersClaimed, ClaimsKept
<1> QED BY <1>2, <1>3 DEF WorkersClaimed, Claimed

\* A chain that goes on working for the same run.
LEMMA SameRunWorkers ==
    ASSUME TypeInv, ClaimInv, ClaimsKept,
           NEW c \in Callers, NEW next \in Chain, Goto(c, next),
           chain[c].pc \in WorkingPc, next.run = chain[c].run
    PROVE  WorkersClaimed'
<1>1. runStatus'[next.run] \notin {"absent", "pending"}
  BY WorkerRuns DEF ClaimInv, WorkersClaimed, ClaimsKept
<1> QED BY <1>1, GotoWorkers

LEMMA ToWorkers ==
    ASSUME TypeInv, ClaimInv, ClaimsKept,
           NEW c \in Callers, chain[c].pc \in LaunchPc,
           NEW pc \in LaunchPc, NEW arg \in Args, To(c, pc, arg)
    PROVE  WorkersClaimed'
<1> DEFINE next == [chain[c] EXCEPT !.pc = pc, !.arg = arg]
<1>1. chain[c] \in Chain
  BY DEF TypeInv, TypeOK
<1>2. next \in Chain /\ next.run = chain[c].run
  BY <1>1 DEF Chain, Args
<1>3. Goto(c, next) /\ chain[c].pc \in WorkingPc
  BY DEF To, WorkingPc
<1> HIDE DEF next
<1> QED BY <1>2, <1>3, SameRunWorkers

LEMMA ToCreateWorkers ==
    ASSUME TypeInv, ClaimInv, ClaimsKept,
           NEW c \in Callers, chain[c].pc \in LaunchPc,
           NEW s \in Stages, NEW arg \in Args,
           Goto(c, [chain[c] EXCEPT !.pc = "create", !.row = 0, !.stage = s, !.arg = arg])
    PROVE  WorkersClaimed'
<1> DEFINE next == [chain[c] EXCEPT !.pc = "create", !.row = 0, !.stage = s, !.arg = arg]
<1>1. chain[c] \in Chain
  BY DEF TypeInv, TypeOK
<1>2. next \in Chain /\ next.run = chain[c].run
  BY <1>1 DEF Chain, Args, LaunchPc
<1>3. chain[c].pc \in WorkingPc
  BY DEF WorkingPc
<1> HIDE DEF next
<1> QED BY <1>2, <1>3, SameRunWorkers DEF next

LEMMA RunningRowsKept ==
    ASSUME TypeInv, ClaimInv, ClaimsKept, RowsGrow, NoneStarts
    PROVE  RunningRowsClaimed'
BY DEF ClaimInv, RunningRowsClaimed, ClaimsKept, NoneStarts, Claimed

LEMMA RestClaimed ==
    ASSUME TypeInv, ClaimInv, ClaimsKept, RestShrinks
    PROVE  StaleClaimed' /\ DriversAreClaimed'
<1>1. StaleClaimed'
  <2> SUFFICES ASSUME NEW s \in Sweeps, NEW e \in stale'[s]
               PROVE  runStatus'[e.run] \notin {"absent", "pending"}
    BY DEF StaleClaimed, Claimed
  <2>1. e \in stale[s] /\ e \in StaleRow
    BY DEF RestShrinks, RestTyped, TypeInv, TypeOK
  <2>2. e.run \in Runs
    BY <2>1 DEF StaleRow
  <2> QED BY <2>1, <2>2 DEF ClaimInv, StaleClaimed, ClaimsKept
<1>2. DriversAreClaimed'
  <2> SUFFICES ASSUME NEW r \in Runs, proc'[r] # {}
               PROVE  runStatus'[r] \notin {"absent", "pending"}
    BY DEF DriversAreClaimed
  <2>1. proc[r] # {}
    BY DEF RestShrinks
  <2> QED BY <2>1 DEF ClaimInv, DriversAreClaimed, ClaimsKept, Claimed
<1> QED BY <1>1, <1>2

LEMMA RequestsKept ==
    ASSUME TypeInv, ClaimInv, ClaimsKept, UNCHANGED web
    PROVE  RequestsQueued'
BY DEF ClaimInv, RequestsQueued, ClaimsKept

\* The daemon's steps that start no driver and no row.
LEMMA CalmStep ==
    ASSUME TypeInv, ClaimInv, ClaimsKept, WorkersClaimed',
           RowsGrow, NoneStarts, RestShrinks, UNCHANGED web
    PROVE  ClaimInv'
BY RunningRowsKept, RestClaimed, RequestsKept DEF ClaimInv

-------------------------------------------------------------------------------
(* The steps, one lemma per group of actions. *)

\* RunSlots has its own copies of what it takes from RunService.
LEMMA SlotNames ==
    /\ Slots!Runs = Runs /\ Slots!Settled = Settled
    /\ Slots!RunningRuns(runStatus) = RunningRuns(runStatus)
    /\ \A S : Slots!Cardinality(S) = Cardinality(S)
<1>1. \A S : Slots!Cardinality(S) = Cardinality(S)
  BY DEF Slots!Cardinality, Cardinality
<1>2. Slots!RunningRuns(runStatus) = RunningRuns(runStatus)
  BY DEF Slots!Runs, Runs, Slots!RunningRuns, RunningRuns
<1> QED BY <1>1, <1>2 DEF Slots!Runs, Runs, Slots!Settled, Settled

\* Only finishRun writes the status of a run from a launch chain, and the run
\* was claimed before.
LEMMA LaunchClaims ==
    ASSUME TypeInv, ClaimInv, NEW c \in Callers, Launch(c)
    PROVE  [Slots!Next]_runStatus /\ ClaimInv'
<1>0. /\ TypeOK /\ chain[c] \in Chain /\ chain[c].stage \in Stages
      /\ chain[c].arg \in Args
  BY DEF TypeInv, TypeOK, Chain, Args
<1>run. ASSUME chain[c].pc \in LaunchPc
        PROVE  RunOf(c) \in Runs /\ chain[c].pc \in WorkingPc /\ Claimed(RunOf(c))
  BY <1>run DEF TypeInv, ChainsRun, RunOf, WorkingPc, ClaimInv, WorkersClaimed
<1>term. {"failed", "completed"} \subseteq StageTerminal /\ "pending" \in StageStatus
  BY DEF StageTerminal, StageStatus
<1>throw. ASSUME NEW fired \in {0, 1}, Throw(c, fired), RowsGrow, NoneStarts,
                 UNCHANGED <<runStatus, web>>
          PROVE  [Slots!Next]_runStatus /\ ClaimInv'
  BY <1>0, <1>throw, ThrowMoves, SameStatus, QuietWorkers, CalmStep
<1>1. CASE CreateRow(c)
  <2> DEFINE r == RunOf(c)
             next == [chain[c] EXCEPT !.pc = "gate", !.row = Len(rows[r]) + 1]
  <2>1. r \in Runs /\ chain[c].pc \in WorkingPc /\ rows[r] \in Seq(StageRun)
    BY <1>0, <1>1, <1>run DEF CreateRow, At, LaunchPc, TypeOK
  <2>2. Len(rows[r]) + 1 \in Nat
    BY <2>1, LenProperties
  <2>3. next \in Chain /\ next.run = chain[c].run
    BY <1>0, <2>2 DEF Chain, LaunchPc
  <2>4. Goto(c, next) /\ UNCHANGED <<runStatus, proc, stale, events, web>>
    BY <1>1 DEF CreateRow
  <2>5. WorkersClaimed'
    <3> HIDE DEF next
    <3> QED BY <2>1, <2>3, <2>4, SameStatus, SameRunWorkers
  <2>6. RowsGrow /\ NoneStarts
    BY <1>0, <1>1, <2>1, CreateRowGrows DEF CreateRow
  <2> QED BY <1>0, <2>4, <2>5, <2>6, SameStatus, RestSame, CalmStep
<1>2. CASE HoldAtGate(c)
  <2>1. RowsGrow /\ NoneStarts
    BY <1>0, <1>2, <1>term, UpdateRowGrows DEF HoldAtGate
  <2>2. WorkersClaimed' /\ UNCHANGED <<runStatus, proc, stale, events, web>>
    BY <1>0, <1>2, ReturnMoves, SameStatus, QuietWorkers DEF HoldAtGate
  <2> QED BY <1>0, <2>1, <2>2, SameStatus, RestSame, CalmStep
<1>3. CASE RefuseNoDriver(c)
  <2>1. RowsGrow /\ NoneStarts
    BY <1>0, <1>3, <1>term, CompleteRowGrows DEF RefuseNoDriver
  <2>2. UNCHANGED <<runStatus, proc, stale, events, web>>
    BY <1>3 DEF RefuseNoDriver
  <2>3. WorkersClaimed'
    BY <1>3, <2>2, SameStatus, ToWorkers
       DEF RefuseNoDriver, PassGate, At, LaunchPc, Args, Settled
  <2> QED BY <1>0, <2>1, <2>2, <2>3, SameStatus, RestSame, CalmStep
<1>4. CASE AcquireEnv(c)
  <2>1. /\ UNCHANGED <<runStatus, rows, proc, stale, events, web>>
        /\ chain[c].pc \in LaunchPc
    BY <1>4 DEF AcquireEnv, Acquired, PassGate, At, LaunchPc
  <2>2. WorkersClaimed'
    BY <1>4, <2>1, SameStatus, ToWorkers DEF AcquireEnv, LaunchPc, Args
  <2> QED BY <1>0, <2>1, <2>2, SameStatus, RowsSame, RestSame, CalmStep
<1>13. CASE RefuseNoArtifacts(c)
  <2>1. RowsGrow /\ NoneStarts
    BY <1>0, <1>13, <1>term, CompleteRowGrows DEF RefuseNoArtifacts
  <2>2. UNCHANGED <<runStatus, proc, stale, events, web>>
    BY <1>13 DEF RefuseNoArtifacts
  <2>3. WorkersClaimed'
    BY <1>13, <2>2, SameStatus, ToWorkers
       DEF RefuseNoArtifacts, Acquired, PassGate, At, LaunchPc, Args, Settled
  <2> QED BY <1>0, <2>1, <2>2, <2>3, SameStatus, RestSame, CalmStep
<1>14. CASE ThrowAtPrompt(c)
  BY <1>0, <1>14, <1>throw, RowsSame DEF ThrowAtPrompt
<1>5. CASE MarkRunning(c)
  <2> DEFINE r == RunOf(c)
  <2>1. r \in Runs /\ Claimed(r) /\ chain[c].pc \in LaunchPc
    BY <1>5, <1>run DEF MarkRunning, At, LaunchPc
  <2>2. UNCHANGED <<runStatus, proc, stale, events, web>>
    BY <1>5 DEF MarkRunning
  <2>3. WorkersClaimed'
    BY <1>5, <2>1, <2>2, SameStatus, ToWorkers DEF MarkRunning, LaunchPc, Args
  <2>4. RunningRowsClaimed'
    <3>1. \A q \in Runs : q # r => rows'[q] = rows[q]
      BY <1>0, <1>5, <2>1 DEF MarkRunning, WriteRows, TypeOK
    <3> QED BY <2>1, <2>2, <3>1 DEF ClaimInv, RunningRowsClaimed, Claimed
  <2> QED BY <1>0, <2>2, <2>3, <2>4, SameStatus, RestSame, RestClaimed, RequestsKept
          DEF ClaimInv
<1>6. CASE SpawnDriver(c)
  <2> DEFINE r == RunOf(c)
  <2>1. r \in Runs /\ Claimed(r) /\ chain[c].pc \in LaunchPc
    BY <1>6, <1>run DEF SpawnDriver, At, LaunchPc
  <2>2. UNCHANGED <<runStatus, rows, stale, events, web>>
    BY <1>6 DEF SpawnDriver, dbVars
  <2>3. WorkersClaimed'
    BY <1>6, <2>1, <2>2, SameStatus, ToWorkers DEF SpawnDriver, LaunchPc, Args
  <2>4. DriversAreClaimed'
    <3>1. \A q \in Runs : q # r => proc'[q] = proc[q]
      BY <1>0, <1>6, <2>1 DEF SpawnDriver, TypeOK
    <3> QED BY <2>1, <2>2, <3>1 DEF ClaimInv, DriversAreClaimed, Claimed
  <2>5. StaleClaimed' /\ RunningRowsClaimed' /\ RequestsQueued'
    BY <2>2 DEF ClaimInv, StaleClaimed, RunningRowsClaimed, RequestsQueued, Claimed
  <2> QED BY <2>2, <2>3, <2>4, <2>5 DEF ClaimInv
<1>7. CASE DriverExit(c)
  <2>1. UNCHANGED <<runStatus, rows, stale, events, web>> /\ chain[c].pc \in LaunchPc
    BY <1>7 DEF DriverExit, dbVars, At, LaunchPc
  <2>2. WorkersClaimed'
    BY <1>7, <2>1, SameStatus, ToWorkers DEF DriverExit, LaunchPc, Args
  <2>3. RestShrinks
    BY <1>0, <1>7, <2>1 DEF DriverExit, RestShrinks, RestTyped, TypeOK
  <2> QED BY <1>0, <2>1, <2>2, <2>3, SameStatus, RowsSame, CalmStep
<1>8. CASE Settle(c)
  <2>1. UNCHANGED <<runStatus, rows, proc, stale, events, web>> /\ chain[c].pc \in LaunchPc
    BY <1>8 DEF Settle, dbVars, At, LaunchPc
  <2>2. PICK pc \in {"finish", "failed", "done"}, arg \in {"cancelled", ""} \union Verdicts :
            To(c, pc, arg)
    BY <1>8 DEF Settle, Verdicts
  <2>3. pc \in LaunchPc /\ arg \in Args
    BY DEF LaunchPc, Args, Settled
  <2>4. WorkersClaimed'
    BY <2>1, <2>2, <2>3, SameStatus, ToWorkers
  <2> QED BY <1>0, <2>1, <2>4, SameStatus, RowsSame, RestSame, CalmStep
<1>9. CASE StageFailed(c)
  <2>1. UNCHANGED <<runStatus, proc, stale, events, web>> /\ chain[c].pc \in LaunchPc
    BY <1>9 DEF StageFailed, At, LaunchPc
  <2>2. RowsGrow /\ NoneStarts
    BY <1>0, <1>9, <1>term, CompleteRowGrows DEF StageFailed
  <2>3. WorkersClaimed'
    <3>1. CASE To(c, "finish", "failed")
      BY <2>1, <3>1, SameStatus, ToWorkers DEF LaunchPc, Args, Settled
    <3>2. CASE Goto(c, [chain[c] EXCEPT !.pc = "create", !.row = 0])
      <4>1. [chain[c] EXCEPT !.pc = "create", !.row = 0]
              = [chain[c] EXCEPT !.pc = "create", !.row = 0,
                                 !.stage = chain[c].stage, !.arg = chain[c].arg]
        BY <1>0 DEF Chain
      <4> QED BY <1>0, <2>1, <3>2, <4>1, SameStatus, ToCreateWorkers
    <3> QED BY <1>9, <3>1, <3>2 DEF StageFailed
  <2> QED BY <1>0, <2>1, <2>2, <2>3, SameStatus, RestSame, CalmStep
<1>10. CASE StageCompleted(c)
  <2>1. UNCHANGED <<runStatus, web>> /\ chain[c].pc \in LaunchPc
    BY <1>10 DEF StageCompleted, At, LaunchPc
  <2>2. RowsGrow /\ NoneStarts
    BY <1>0, <1>10, <1>term, CompleteRowGrows DEF StageCompleted
  <2>3. CASE Throw(c, 0)
    BY <2>1, <2>2, <2>3, <1>throw
  <2>4. CASE UNCHANGED <<proc, stale, events>> /\
             \E arg \in {"failed", "completed", "blocked", "dead_end"} : To(c, "finish", arg)
    <3>1. WorkersClaimed'
      BY <2>1, <2>4, SameStatus, ToWorkers DEF LaunchPc, Args, Settled
    <3> QED BY <1>0, <2>1, <2>2, <2>4, <3>1, SameStatus, RestSame, CalmStep
  <2>5. ASSUME NEW s \in Stages, UNCHANGED <<proc, stale, events>>,
               Goto(c, [chain[c] EXCEPT !.pc = "create", !.row = 0, !.stage = s, !.arg = ""])
        PROVE  [Slots!Next]_runStatus /\ ClaimInv'
    <3>1. WorkersClaimed'
      BY <2>1, <2>5, SameStatus, ToCreateWorkers DEF Args
    <3> QED BY <1>0, <2>1, <2>2, <2>5, <3>1, SameStatus, RestSame, CalmStep
  <2> QED BY <1>10, <2>3, <2>4, <2>5 DEF StageCompleted
<1>11. CASE FinishRun(c)
  <2> DEFINE r == RunOf(c)
  <2>1. r \in Runs /\ Claimed(r) /\ chain[c].pc \in LaunchPc
    BY <1>11, <1>run DEF FinishRun, At, LaunchPc
  <2>2. UNCHANGED <<rows, proc, stale, events, web>>
    BY <1>11 DEF FinishRun
  <2>3. StatusOf(chain[c].arg) \in Settled
    BY DEF StatusOf, Settled
  <2>4. Slots!Settle(r)
    BY <1>11, <2>1, <2>3, SlotNames DEF FinishRun, Slots!Settle, Claimed
  <2>5. [Slots!Next]_runStatus
    BY <2>1, <2>4, SlotNames DEF Slots!Next
  <2>6. WorkersClaimed'
    BY <1>0, <1>11, <2>1, <2>5, SlotStepKeepsClaims, ToWorkers DEF FinishRun, LaunchPc
  <2> QED BY <1>0, <2>2, <2>5, <2>6, SlotStepKeepsClaims, RowsSame, RestSame, CalmStep
<1>12. CASE TerminalHook(c)
  <2>1. UNCHANGED <<runStatus, rows, web>> /\ RowsGrow /\ NoneStarts
    BY <1>0, <1>12, RowsSame DEF TerminalHook
  <2>2. CASE Throw(c, 1)
    BY <2>1, <2>2, <1>throw
  <2>3. CASE Return(c, 1) /\ UNCHANGED <<proc, stale, events>>
    <3>1. WorkersClaimed'
      BY <1>0, <2>1, <2>3, ReturnMoves, SameStatus, QuietWorkers
    <3> QED BY <1>0, <2>1, <2>3, <3>1, SameStatus, RestSame, CalmStep
  <2> QED BY <1>12, <2>2, <2>3 DEF TerminalHook
<1> QED
  BY <1>1, <1>2, <1>3, <1>4, <1>5, <1>6, <1>7, <1>8, <1>9, <1>10, <1>11, <1>12,
     <1>13, <1>14 DEF Launch

\* A handler fails a run without stages, or claims its run; the steps that
\* follow a claim rely on it.
LEMMA HandleClaims ==
    ASSUME TypeInv, ClaimInv, NEW r \in Runs, Deliver(r) \/ Handle(r)
    PROVE  [Slots!Next]_runStatus /\ ClaimInv'
<1>0. /\ TypeOK /\ r \in Callers /\ chain[r] \in Chain
      /\ runStatus \in [Runs -> RunStatus]
  BY DEF TypeInv, TypeOK, Callers
<1>1. CASE Deliver(r)
  <2>1. UNCHANGED <<runStatus, rows, web>> /\ RestShrinks
    BY <1>0, <1>1 DEF Deliver, dbVars, RestShrinks, RestTyped, TypeOK
  <2>2. Quiet(chain)
    BY <1>0, <1>1, HandlingType DEF Deliver, TypeOK, Quiet
  <2> QED BY <1>0, <2>1, <2>2, SameStatus, RowsSame, QuietWorkers, CalmStep
<1>2. CASE Fetch(r)
  <2>1. UNCHANGED <<runStatus, rows, proc, stale, events, web>>
    BY <1>2 DEF Fetch, dbVars
  <2>2. WorkersClaimed'
    <3>1. CASE Return(r, 0)
      BY <1>0, <2>1, <3>1, ReturnMoves, SameStatus, QuietWorkers
    <3>2. ASSUME NEW pc \in {"slot", "stageless"}, Goto(r, [chain[r] EXCEPT !.pc = pc]),
                 runStatus[r] = "pending"
          PROVE  WorkersClaimed'
      <4> DEFINE next == [chain[r] EXCEPT !.pc = pc]
      <4>1. next \in Chain /\ next.pc \notin WorkingPc
        BY <1>0 DEF Chain, HandlerPc, WorkingPc, LaunchPc
      <4>2. chain[r].run = r
        BY <1>0, <1>2 DEF Fetch, HandlerPc, TypeInv, ChainsRun
      <4>3. next.run = r
        BY <1>0, <4>2 DEF Chain
      <4> HIDE DEF next
      <4> QED BY <1>0, <2>1, <3>2, <4>1, <4>3, SameStatus, GotoWorkers DEF next
    <3> QED BY <1>2, <3>1, <3>2 DEF Fetch
  <2> QED BY <1>0, <2>1, <2>2, SameStatus, RowsSame, RestSame, CalmStep
<1>6. CASE FailStageless(r)
  <2>1. UNCHANGED <<rows, proc, stale, events, web>>
    BY <1>6 DEF FailStageless
  <2>2. runStatus[r] # "absent"
    BY <1>0, <1>6 DEF FailStageless, HandlerPc, TypeInv, ChainsRun, ClaimInv, WorkersClaimed
  <2>3. [Slots!Next]_runStatus
    <3>1. Slots!Settle(r)
      BY <1>6, <2>2, SlotNames DEF FailStageless, Slots!Settle, Settled
    <3> QED BY <3>1, SlotNames DEF Slots!Next
  <2>4. WorkersClaimed'
    BY <1>0, <1>6, <2>3, SlotStepKeepsClaims, ReturnMoves, QuietWorkers DEF FailStageless
  <2> QED BY <1>0, <2>1, <2>3, <2>4, SlotStepKeepsClaims, RowsSame, RestSame, CalmStep
<1>3. CASE TryAcquireRunningSlot(r)
  <2>1. UNCHANGED <<rows, proc, stale, events, web>>
    BY <1>3 DEF TryAcquireRunningSlot
  <2>2. chain[r].run = r
    BY <1>0, <1>3 DEF TryAcquireRunningSlot, HandlerPc, TypeInv, ChainsRun
  <2>3. CASE CanAcquire(runStatus, r)
    <3> DEFINE next == [chain[r] EXCEPT !.pc = "seed"]
    <3>1. runStatus' = [runStatus EXCEPT ![r] = "running"] /\ Goto(r, next)
      BY <1>3, <2>3 DEF TryAcquireRunningSlot
    <3>2. Slots!Claim(r)
      BY <2>3, <3>1, SlotNames DEF Slots!Claim, CanAcquire
    <3>3. [Slots!Next]_runStatus
      BY <3>2, SlotNames DEF Slots!Next
    <3>4. next \in Chain /\ next.run = r
      BY <1>0, <2>2 DEF Chain, HandlerPc
    <3>5. runStatus'[r] \notin {"absent", "pending"}
      BY <1>0, <3>1
    <3>6. WorkersClaimed'
      <4> HIDE DEF next
      <4> QED BY <1>0, <3>1, <3>3, <3>4, <3>5, SlotStepKeepsClaims, GotoWorkers
    <3> QED BY <1>0, <2>1, <3>3, <3>6, SlotStepKeepsClaims, RowsSame, RestSame, CalmStep
  <2>4. CASE ~CanAcquire(runStatus, r)
    <3> DEFINE next == [chain[r] EXCEPT !.pc = "denied"]
    <3>1. UNCHANGED runStatus /\ Goto(r, next)
      BY <1>3, <2>4 DEF TryAcquireRunningSlot
    <3>2. next \in Chain /\ next.pc \notin WorkingPc \union {"stageless"}
      BY <1>0 DEF Chain, HandlerPc, WorkingPc, LaunchPc
    <3>3. WorkersClaimed'
      <4> HIDE DEF next
      <4> QED BY <1>0, <3>1, <3>2, SameStatus, GotoWorkers
    <3> QED BY <1>0, <2>1, <3>1, <3>3, SameStatus, RowsSame, RestSame, CalmStep
  <2> QED BY <2>3, <2>4
<1>4. CASE Denied(r)
  <2>1. UNCHANGED <<runStatus, rows, proc, stale, events, web>>
    BY <1>4 DEF Denied, dbVars
  <2>2. WorkersClaimed'
    BY <1>0, <1>4, <2>1, ReturnMoves, SameStatus, QuietWorkers DEF Denied
  <2> QED BY <1>0, <2>1, <2>2, SameStatus, RowsSame, RestSame, CalmStep
<1>5. CASE ChooseStage(r)
  <2>1. UNCHANGED <<runStatus, rows, proc, stale, events, web>>
    BY <1>5 DEF ChooseStage, dbVars
  <2>2. chain[r].run = r /\ chain[r].pc \in WorkingPc
    BY <1>0, <1>5 DEF ChooseStage, HandlerPc, TypeInv, ChainsRun, WorkingPc
  <2>3. Claimed(r)
    BY <1>0, <2>2 DEF ClaimInv, WorkersClaimed
  <2>4. WorkersClaimed'
    <3>1. \E next : chain' = [chain EXCEPT ![r] = next] /\ next.run = r
      <4>1. [chain[r] EXCEPT !.pc = "create", !.stage = FirstStage].run = r
        BY <1>0, <2>2 DEF Chain
      <4>2. \A i : [chain[r] EXCEPT !.pc = "gate", !.row = i,
                                   !.stage = rows[r][i].stage].run = r
        BY <1>0, <2>2 DEF Chain
      <4> QED BY <1>5, <4>1, <4>2 DEF ChooseStage, Goto
    <3>2. chain'[r].run = r /\ \A d \in Callers : d # r => chain'[d] = chain[d]
      BY <1>0, <3>1 DEF TypeOK
    <3> QED BY <2>1, <2>3, <3>2 DEF ClaimInv, WorkersClaimed, Claimed
  <2> QED BY <1>0, <2>1, <2>4, SameStatus, RowsSame, RestSame, CalmStep
<1> QED BY <1>1, <1>2, <1>3, <1>4, <1>5, <1>6 DEF Handle

LEMMA DrainPendingClaims ==
    ASSUME TypeInv, ClaimInv, DrainPending
    PROVE  [Slots!Next]_runStatus /\ ClaimInv'
<1>1. /\ TypeOK /\ PendingRuns(runStatus) \in SUBSET Runs /\ -1 \in Int
      /\ drains + -1 \in Nat /\ chain \in [Callers -> Chain]
      /\ loop \in [Runs -> Loop]
  BY DEF DrainPending, PendingRuns, TypeInv, TypeOK
<1>2. Quiet(chain)
  BY <1>1, ContinueDrainMoves DEF DrainPending
<1>3. UNCHANGED <<runStatus, rows, proc, stale, events, web>>
  BY DEF DrainPending, dbVars
<1> QED BY <1>1, <1>2, <1>3, SameStatus, RowsSame, RestSame, QuietWorkers, CalmStep

LEMMA PidRecordedClaims ==
    ASSUME TypeInv, ClaimInv, NEW c \in Callers, PidRecorded(c)
    PROVE  [Slots!Next]_runStatus /\ ClaimInv'
<1>1. TypeOK /\ RunOf(c) \in Runs
  BY DEF PidRecorded, At, LaunchPc, RunOf, TypeInv, ChainsRun
<1>2. Quiet(chain) /\ UNCHANGED <<runStatus, proc, stale, events, web>>
  BY <1>1, MovesSame DEF PidRecorded
<1>3. RowsGrow /\ NoneStarts
  BY <1>1, RecordPidGrows DEF PidRecorded
<1> QED BY <1>1, <1>2, <1>3, SameStatus, RestSame, QuietWorkers, CalmStep

\* A sweep only reads rows that say running, so it only works for claimed runs.
LEMMA StartSweepClaims ==
    ASSUME TypeInv, ClaimInv, NEW s \in Sweeps, StartSweep(s),
           UNCHANGED <<runStatus, rows, proc, web>>
    PROVE  [Slots!Next]_runStatus /\ ClaimInv'
<1>1. WorkersClaimed'
  BY GoSweepType DEF StartSweep, TypeInv, TypeOK, ClaimInv, WorkersClaimed, Claimed,
                     WorkingPc, LaunchPc
<1>2. StaleClaimed'
  <2> SUFFICES ASSUME NEW t \in Sweeps, NEW e \in stale'[t]
               PROVE  runStatus[e.run] \notin {"absent", "pending"}
    BY DEF StaleClaimed, Claimed
  <2>1. e \in stale[t] \/ e \in StaleRows
    BY DEF StartSweep, TypeInv, TypeOK
  <2>2. CASE e \in stale[t]
    BY <2>2 DEF ClaimInv, StaleClaimed, Claimed
  <2>3. CASE e \in StaleRows
    BY <2>3, StaleRowsType DEF TypeInv, ClaimInv, RunningRowsClaimed, Claimed
  <2> QED BY <2>1, <2>2, <2>3
<1>3. RunningRowsClaimed' /\ DriversAreClaimed' /\ RequestsQueued'
  BY DEF ClaimInv, RunningRowsClaimed, DriversAreClaimed, RequestsQueued, Claimed
<1> QED BY <1>1, <1>2, <1>3 DEF ClaimInv

LEMMA SweepClaims ==
    ASSUME TypeInv, ClaimInv,
           NEW s \in Sweeps, Sweep(s) \/ Tick(s) \/ StartDaemon \/ Crash
    PROVE  [Slots!Next]_runStatus /\ ClaimInv'
<1>0. TypeOK /\ s \in Callers
  BY DEF TypeInv, Callers
<1>1. CASE SweepRow(s)
  <2>0. UNCHANGED <<runStatus, proc, daemon, loop, drains, events, web>>
    BY <1>1 DEF SweepRow
  <2>1. PICK e \in stale[s] :
           /\ stale' = [stale EXCEPT ![s] = @ \ {e}]
           /\ \/ UNCHANGED <<rows, chain>>
              \/ /\ WriteRows(e.run, CompleteStageRun(rows[e.run], e.row, "failed"))
                 /\ \/ chain' = [chain EXCEPT ![s] = [Idle EXCEPT
                           !.pc = "create", !.run = e.run,
                           !.stage = rows[e.run][e.row].stage]]
                    \/ chain' = [chain EXCEPT ![s] = [Idle EXCEPT
                           !.pc = "finish", !.run = e.run,
                           !.stage = rows[e.run][e.row].stage, !.arg = "failed"]]
    BY <1>1 DEF SweepRow
  <2>2. Claimed(e.run)
    BY DEF ClaimInv, StaleClaimed
  <2>3. RestShrinks
    BY <1>0, <2>0, <2>1 DEF RestShrinks, RestTyped, TypeOK
  <2>4. RowsGrow /\ NoneStarts
    <3>1. "failed" \in StageTerminal
      BY DEF StageTerminal
    <3> QED BY <1>0, <2>1, <3>1, RowsSame, CompleteRowGrows
  <2>5. WorkersClaimed'
    <3>1. \A d \in Callers : chain'[d] = chain[d] \/ chain'[d].run = e.run
      BY <1>0, <2>1 DEF TypeOK, Idle
    <3> QED BY <2>0, <2>2, <3>1 DEF ClaimInv, WorkersClaimed, Claimed
  <2> QED BY <2>0, <2>3, <2>4, <2>5, SameStatus, CalmStep
<1>2. CASE SweepEnd(s)
  <2>1. UNCHANGED <<runStatus, rows, proc, stale, events, web>>
    BY <1>2 DEF SweepEnd, dbVars
  <2>2. WorkersClaimed'
    BY <1>0, <1>2 DEF SweepEnd, dbVars, TypeOK, ClaimInv, WorkersClaimed, Claimed,
                      WorkingPc, LaunchPc, Idle
  <2> QED BY <1>0, <2>1, <2>2, SameStatus, RowsSame, RestSame, CalmStep
<1>3. CASE SweepDrain(s)
  <2> DEFINE go == [Idle EXCEPT !.pc = "await"]
             ch == [chain EXCEPT ![s] = go]
  <2>1. go \in Chain /\ go.pc = "await"
    BY OrchestratorAssumption DEF Idle, Chain, SweepPc
  <2>2. Quiet(ch)
    <3>1. /\ PendingRuns(runStatus) \in SUBSET Runs /\ 0 \in Int
          /\ drains + 0 \in Nat /\ ch \in [Callers -> Chain]
          /\ loop \in [Runs -> Loop]
      BY <1>0, <2>1 DEF PendingRuns, TypeOK
    <3>2. ContinueDrain(PendingRuns(runStatus), s, ch, loop, 0)
      BY <1>3 DEF SweepDrain
    <3> HIDE DEF ch
    <3> QED BY <1>0, <3>1, <3>2, ContinueDrainMoves
  <2>3. \A d \in Callers : ch[d] = chain[d] \/ ch[d].pc = "await"
    BY <1>0, <2>1 DEF TypeOK
  <2>4. Quiet(chain)
    <3> HIDE DEF ch
    <3> QED BY <2>2, <2>3 DEF Quiet
  <2>5. UNCHANGED <<runStatus, rows, proc, stale, events, web>>
    BY <1>3 DEF SweepDrain, dbVars
  <2> QED BY <1>0, <2>4, <2>5, SameStatus, RowsSame, RestSame, QuietWorkers, CalmStep
<1>4. CASE Tick(s)
  BY <1>4, StartSweepClaims DEF Tick, dbVars
<1>5. CASE StartDaemon
  BY <1>5, StartSweepClaims, OrchestratorAssumption DEF StartDaemon, dbVars
<1>6. CASE Crash
  <2>1. UNCHANGED <<runStatus, rows, web>> /\ Exit
    BY <1>6 DEF Crash, dbVars
  <2> QED BY <1>0, <2>1, ExitMoves, SameStatus, RowsSame, QuietWorkers, CalmStep
<1> QED BY <1>1, <1>2, <1>3, <1>4, <1>5, <1>6 DEF Sweep

\* What Realtime announces is nobody's claim.
LEMMA ChannelClaims ==
    ASSUME TypeInv, ClaimInv, Join \/ Disconnect
    PROVE  [Slots!Next]_runStatus /\ ClaimInv'
<1>1. UNCHANGED <<runStatus, rows, proc, stale, chain, web>> /\ events' \subseteq Runs
  BY DEF Join, Disconnect, dbVars, TypeInv, TypeOK
<1>2. Quiet(chain) /\ RestShrinks /\ RowsGrow /\ NoneStarts
  BY <1>1, RowsSame DEF Quiet, RestShrinks, RestTyped, TypeInv, TypeOK
<1> QED BY <1>1, <1>2, SameStatus, QuietWorkers, CalmStep

\* The web process queues runs and settles the ones it was asked to cancel.
LEMMA UserClaims ==
    ASSUME TypeInv, ClaimInv, User
    PROVE  [Slots!Next]_runStatus /\ ClaimInv'
<1>0. TypeOK /\ runStatus \in [Runs -> RunStatus] /\ web \in [Runs -> Web]
  BY DEF TypeInv, TypeOK
<1>part. ASSUME [Slots!Next]_runStatus, RowsGrow, NoneStarts, RequestsQueued',
                UNCHANGED <<chain, loop, daemon, drains, proc, stale>>,
                events' \subseteq Runs
         PROVE  [Slots!Next]_runStatus /\ ClaimInv'
  <2>1. ClaimsKept /\ Quiet(chain)
    BY <1>0, <1>part, SlotStepKeepsClaims, MovesSame
  <2>2. RestShrinks
    BY <1>0, <1>part DEF RestShrinks, RestTyped, TypeOK
  <2> QED BY <1>part, <2>1, <2>2, QuietWorkers, RunningRowsKept, RestClaimed DEF ClaimInv
<1>1. ASSUME NEW r \in Runs, NEW request, Insert(r, request)
      PROVE  [Slots!Next]_runStatus /\ ClaimInv'
  <2>1. Slots!Enqueue(r)
    BY <1>1 DEF Insert, Slots!Enqueue
  <2>2. [Slots!Next]_runStatus
    BY <2>1, SlotNames DEF Slots!Next
  <2>3. RequestsQueued'
    BY <1>0, <1>1 DEF Insert, ClaimInv, RequestsQueued
  <2>4. /\ RowsGrow /\ NoneStarts /\ events' \subseteq Runs
        /\ UNCHANGED <<chain, loop, daemon, drains, proc, stale>>
    BY <1>0, <1>1, RowsSame DEF Insert, TypeOK
  <2> QED BY <1>part, <2>2, <2>3, <2>4
<1>web. ASSUME NEW r \in Runs, NEW pc, NEW request, pc # "none", WebStep(r, pc, request),
               [Slots!Next]_runStatus, RowsGrow, NoneStarts
        PROVE  [Slots!Next]_runStatus /\ ClaimInv'
  <2>1. RequestsQueued'
    BY <1>0, <1>web, SlotStepKeepsClaims DEF WebStep, ClaimInv, RequestsQueued, ClaimsKept
  <2> QED BY <1>0, <1>part, <1>web, <2>1 DEF WebStep, TypeOK
<1>2. ASSUME NEW r \in Runs, Seed(r)
      PROVE  [Slots!Next]_runStatus /\ ClaimInv'
  <2>1. web[r].stage \in Stages
    BY <1>0 DEF Web
  <2> QED BY <1>0, <1>2, <1>web, <2>1, CreateRowGrows DEF Seed
<1>3. ASSUME NEW r \in Runs, ReadCancel(r)
      PROVE  [Slots!Next]_runStatus /\ ClaimInv'
  BY <1>0, <1>3, <1>web, RowsSame DEF ReadCancel
<1>4. ASSUME NEW r \in Runs, CancelStageRuns(r)
      PROVE  [Slots!Next]_runStatus /\ ClaimInv'
  BY <1>0, <1>4, <1>web, CancelRowsGrow DEF CancelStageRuns
<1>5. ASSUME NEW r \in Runs, CancelRun(r)
      PROVE  [Slots!Next]_runStatus /\ ClaimInv'
  <2>1. runStatus[r] # "absent"
    BY <1>5 DEF CancelRun, WebStep, ClaimInv, RequestsQueued
  <2>2. Slots!Settle(r)
    BY <1>5, <2>1, SlotNames DEF CancelRun, Slots!Settle, Settled
  <2>3. [Slots!Next]_runStatus
    BY <2>2, SlotNames DEF Slots!Next
  <2> QED BY <1>0, <1>5, <1>web, <2>3, RowsSame DEF CancelRun
<1>6. ASSUME NEW r \in Runs, Decide(r)
      PROVE  [Slots!Next]_runStatus /\ ClaimInv'
  <2>1. RowsGrow /\ NoneStarts
    BY <1>0, <1>6, UpdateRowGrows, CompleteRowGrows DEF Decide, StageStatus, StageTerminal
  <2>2. UNCHANGED <<runStatus, chain, loop, daemon, drains, proc, stale, events, web>>
    BY <1>6 DEF Decide
  <2>3. RequestsQueued'
    BY <2>2 DEF ClaimInv, RequestsQueued
  <2> QED BY <1>0, <1>part, <2>1, <2>2, <2>3 DEF TypeOK
<1> QED
  BY <1>1, <1>2, <1>3, <1>4, <1>5, <1>6 DEF User, Cancel, Trigger, AutoDispatch

-------------------------------------------------------------------------------
(* The theorems. *)

LEMMA ClaimsInit == Init => ClaimInv /\ Slots!Init
<1> SUFFICES ASSUME Init PROVE ClaimInv /\ Slots!Init
  OBVIOUS
<1>1. ClaimInv
  BY IdleType DEF Init, ClaimInv, WorkersClaimed, RunningRowsClaimed, StaleClaimed,
                  DriversAreClaimed, RequestsQueued, WorkingPc, LaunchPc
<1>2. Slots!Init
  BY SlotNames DEF Init, Slots!Init
<1> QED BY <1>1, <1>2

LEMMA ClaimsNext ==
    TypeInv /\ ClaimInv /\ [Next]_vars => [Slots!Next]_runStatus /\ ClaimInv'
<1> SUFFICES ASSUME TypeInv, ClaimInv, [Next]_vars
             PROVE  [Slots!Next]_runStatus /\ ClaimInv'
  OBVIOUS
<1>1. CASE \E r \in Runs : Deliver(r) \/ Handle(r)
  BY <1>1, HandleClaims
<1>2. CASE \E c \in Callers : Launch(c) \/ PidRecorded(c)
  BY <1>2, LaunchClaims, PidRecordedClaims
<1>3. CASE \E s \in Sweeps : Sweep(s) \/ Tick(s) \/ StartDaemon \/ Crash
  BY <1>3, SweepClaims
<1>4. CASE DrainPending
  BY <1>4, DrainPendingClaims
<1>5. CASE User
  BY <1>5, UserClaims
<1>6. CASE Join \/ Disconnect
  BY <1>6, ChannelClaims
<1>7. CASE UNCHANGED vars
  BY <1>7 DEF vars, ClaimInv, WorkersClaimed, RunningRowsClaimed, StaleClaimed,
              DriversAreClaimed, RequestsQueued, Claimed
<1> QED
  BY <1>1, <1>2, <1>3, <1>4, <1>5, <1>6, <1>7, OrchestratorAssumption DEF Next, System

\* Every behaviour of the daemon and the web process, seen through the status
\* of the runs, is one of the queue and slots of RunSlots: no run is claimed
\* twice or past the limit, and no settled run is queued or claimed again.
THEOREM SlotsImplemented == Spec => ImplementsRunSlots
BY ClaimsInit, ClaimsNext, TypeInvHolds, PTL DEF Spec, ImplementsRunSlots, Slots!Spec

\* No driver process works for a run that was not claimed through
\* tryAcquireRunningSlot, whoever launched it: a handler, a drain or a sweep.
THEOREM DriversClaimed == Spec => []DriversAreClaimed
<1>1. ClaimInv => DriversAreClaimed
  BY DEF ClaimInv
<1> QED BY <1>1, ClaimsInit, ClaimsNext, TypeInvHolds, PTL DEF Spec

\* One step of RunSlots never exceeds the limit: a claim counts the running
\* runs and adds itself, every other step adds none.
LEMMA SlotLimitStep ==
    ASSUME runStatus \in [Runs -> RunStatus], SlotLimit, [Slots!Next]_runStatus
    PROVE  SlotLimit'
<1> DEFINE before == RunningRuns(runStatus)
           after == RunningRuns(runStatus')
<1>0. IsFiniteSet(before) /\ Cardinality(before) \in Nat /\ MaxConcurrent \in Nat
  <2>1. IsFiniteSet(Runs)
    BY FS_Interval, RunServiceAssumption DEF Runs
  <2>2. before \in SUBSET Runs
    BY DEF RunningRuns
  <2> QED BY <2>1, <2>2, FS_Subset, FS_CardinalityType, RunServiceAssumption
<1>1. CASE after \subseteq before
  <2>1. Cardinality(after) <= Cardinality(before) /\ Cardinality(after) \in Nat
    BY <1>0, <1>1, FS_Subset, FS_CardinalityType
  <2> QED BY <1>0, <2>1 DEF SlotLimit
<1>2. ASSUME NEW r \in Runs, Slots!Claim(r)
      PROVE  SlotLimit'
  <2>1. Cardinality(before) < MaxConcurrent
    BY <1>2, SlotNames DEF Slots!Claim
  <2>2. after = before \union {r} /\ r \notin before
    BY <1>2 DEF Slots!Claim, RunningRuns
  <2>3. Cardinality(after) = Cardinality(before) + 1
    BY <1>0, <2>2, FS_AddElement
  <2> QED BY <1>0, <2>1, <2>3 DEF SlotLimit
<1>3. ASSUME NEW r \in Runs, Slots!Enqueue(r) \/ Slots!Settle(r)
      PROVE  after \subseteq before
  <2>1. PICK status \in {"pending"} \union Settled : runStatus' = [runStatus EXCEPT ![r] = status]
    BY <1>3, SlotNames DEF Slots!Enqueue, Slots!Settle
  <2> QED BY <2>1 DEF RunningRuns, Settled
<1>4. CASE UNCHANGED runStatus
  BY <1>1, <1>4
<1> QED BY <1>1, <1>2, <1>3, <1>4, SlotNames DEF Slots!Next

\* However many handlers, drains and sweeps race for a slot, at most
\* maxConcurrentRuns runs are running.
THEOREM SlotLimitHolds == Spec => []SlotLimit
<1>1. Init => SlotLimit
  <2> SUFFICES ASSUME Init PROVE SlotLimit
    OBVIOUS
  <2>1. RunningRuns(runStatus) = {}
    BY DEF Init, RunningRuns
  <2> QED BY <2>1, FS_EmptySet, RunServiceAssumption DEF SlotLimit
<1>2. TypeInv /\ ClaimInv /\ SlotLimit /\ [Next]_vars => SlotLimit'
  BY ClaimsNext, SlotLimitStep DEF TypeInv, TypeOK
<1> QED BY <1>1, <1>2, ClaimsInit, ClaimsNext, TypeInvHolds, PTL DEF Spec

===============================================================================
