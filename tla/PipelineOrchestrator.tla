------------------------- MODULE PipelineOrchestrator -------------------------
(***************************************************************************)
(* The daemon that drives pipeline runs (core/orchestrator/                *)
(* event-orchestrator.ts, stage-executor.ts) together with the web         *)
(* process that queues, cancels, approves and rejects them                 *)
(* (server/routers/pipeline.ts).  They share nothing but the database.     *)
(*                                                                         *)
(* A "chain" is one asynchronous call chain of the daemon: handleNewRun of *)
(* a run (the caller is the run itself: inFlight admits one), or one       *)
(* invocation of recoverOnStartup (the caller is a sweep).  A step of the  *)
(* model is the code between two awaits whose order another actor can      *)
(* observe; pc names the await the chain is suspended at.                  *)
(***************************************************************************)
EXTENDS RunService

CONSTANTS
    FirstStage,      \* stages[0]: the pipeline's lowest sort_order
    Routing,         \* [Stages -> [verdict -> target]]: onPass, onFail, fallback
    MaxRetries,      \* [Stages -> Nat]
    Gated,           \* stages whose gate_mode is hold or manual
    NoDriver,        \* stages with no driver, or one without a binary
    Stageless,       \* runs of a pipeline that has no stages
    Sweeps,          \* invocations of recoverOnStartup; 0 is the one at boot
    Requests,        \* [Runs -> kinds of request made for the run]
    ChannelDrops,    \* may the Realtime channel drop while the daemon runs?
    MaxStageRuns,    \* bound: rows of a run before outcomes stop repeating stages
    MaxCrashes       \* bound: crashes of the daemon

Boot == 0
NoSweep == -1
Callers == Runs \union Sweeps

RequestKinds == {"trigger", "dispatch", "cancel", "decide"}

Verdicts == {"proceed", "rework", "hold"}
Sentinels == {"__complete__", "__blocked__", "none"}    \* "none": null or dangling

ASSUME OrchestratorAssumption ==
    /\ FirstStage \in Stages
    /\ Routing \in [Stages -> [Verdicts -> Stages \union Sentinels]]
    /\ MaxRetries \in [Stages -> Nat]
    /\ Gated \subseteq Stages /\ NoDriver \subseteq Stages
    /\ Stageless \subseteq Runs
    /\ Sweeps \subseteq Int \ Runs
    /\ Boot \in Sweeps /\ NoSweep \notin Sweeps /\ NoSweep \notin Runs
    /\ Requests \in [Runs -> SUBSET RequestKinds]
    /\ ChannelDrops \in BOOLEAN
    /\ MaxStageRuns \in Nat
    /\ MaxCrashes \in Nat

VARIABLES
    \* The database and the host, which survive the daemon.
    runStatus,   \* pipeline_run.status
    rows,        \* the stage_run rows of each run, in created_at order
    env,         \* does the run hold an active isolation environment?
    deployed,    \* how often deployBridge.deploy was invoked for the run
    proc,        \* the rows of the run whose driver process is alive
    \* The daemon.
    daemon,      \* "down", "booting" (recovering), "started" (subscribed, the
                 \* channel not joined) or "up" (the channel is joined)
    chain,       \* where each caller's chain stands
    loop,        \* the rest of the drainPending loop that awaits a handler
    drains,      \* drainPending calls that have not read the queue yet
    stale,       \* rows a sweep read as running and has not looked at yet
    crashes,
    \* Realtime, and the web process.
    events,      \* runs with a pipeline_run change still to be delivered
    web          \* the request in progress on each run

dbVars == <<runStatus, rows, env, deployed>>
vars == <<runStatus, rows, env, deployed, proc, daemon, chain, loop, drains,
          stale, crashes, events, web>>

-------------------------------------------------------------------------------
(* Types. *)

HandlerPc == {"fetch", "stageless", "slot", "denied", "seed"}
LaunchPc == {"create", "gate", "mark", "prepare", "exec", "settle", "done",
             "failed", "finish", "hook"}
SweepPc == {"sweep", "drain", "await"}

Chain == [pc : {"idle"} \union HandlerPc \union LaunchPc \union SweepPc,
          run : Runs \union {0},
          stage : Stages,
          row : Nat,                          \* 0: no stage_run row yet
          arg : {"", "ok", "error", "dead_end"} \union Verdicts \union Settled]

Loop == [todo : SUBSET Runs, owner : Sweeps \union {NoSweep}]

StaleRow == [run : Runs, row : Nat, pid : BOOLEAN]

Web == [pc : {"none", "seed", "idle", "cancel", "close", "over"},
        stage : Stages,                       \* the stage the run is to start at
        picked : SUBSET Nat]                  \* the rows a cancel will mark

Idle == [pc |-> "idle", run |-> 0, stage |-> FirstStage, row |-> 0, arg |-> ""]
NoLoop == [todo |-> {}, owner |-> NoSweep]

TypeOK ==
    /\ runStatus \in [Runs -> RunStatus]
    /\ rows \in [Runs -> Seq(StageRun)]
    /\ env \in [Runs -> BOOLEAN]
    /\ deployed \in [Runs -> Nat]
    /\ proc \in [Runs -> SUBSET Nat]
    /\ daemon \in {"down", "booting", "started", "up"}
    /\ chain \in [Callers -> Chain]
    /\ loop \in [Runs -> Loop]
    /\ drains \in Nat
    /\ stale \in [Sweeps -> SUBSET StaleRow]
    /\ crashes \in Nat
    /\ events \subseteq Runs
    /\ web \in [Runs -> Web]

Init ==
    /\ runStatus = [r \in Runs |-> "absent"]
    /\ rows = [r \in Runs |-> <<>>]
    /\ env = [r \in Runs |-> FALSE]
    /\ deployed = [r \in Runs |-> 0]
    /\ proc = [r \in Runs |-> {}]
    /\ daemon = "up"
    /\ chain = [c \in Callers |-> Idle]
    /\ loop = [r \in Runs |-> NoLoop]
    /\ drains = 0
    /\ stale = [s \in Sweeps |-> {}]
    /\ crashes = 0
    /\ events = {}
    /\ web = [r \in Runs |-> [pc |-> "none", stage |-> FirstStage, picked |-> {}]]

-------------------------------------------------------------------------------
(* Moving between chains.  These operators assign chain, loop, daemon and  *)
(* drains; fired is what the step itself adds to the fired drains.         *)

InFlight(ch, r) == ch[r].pc # "idle"

Handling(r) == [Idle EXCEPT !.pc = "fetch", !.run = r]

\* Mutant of EndDrain: start() subscribes without draining.
EndDrainSilent(owner, ch, lp, fired) ==
    /\ loop' = lp
    /\ chain' = [c \in Callers |-> IF c = owner THEN Idle ELSE ch[c]]
    /\ daemon' = IF owner = Boot THEN "started" ELSE daemon
    /\ drains' = drains + fired

\* The drain loop is over: whoever awaited it resumes.  At boot that is start:
\* it asks for the subscription, whose channel joins later, and fires a drain.
EndDrain(owner, ch, lp, fired) ==
    /\ loop' = lp
    /\ chain' = [c \in Callers |-> IF c = owner THEN Idle ELSE ch[c]]
    /\ daemon' = IF owner = Boot THEN "started" ELSE daemon
    /\ drains' = drains + fired + (IF owner = Boot THEN 1 ELSE 0)

\* The for loop of drainPending over the ids in todo, in created_at order:
\* handleNewRun returns at once for a run in flight, and is awaited until
\* the run's pipeline is over for the first one that is not.
ContinueDrain(todo, owner, ch, lp, fired) ==
    LET free == {r \in todo : ~InFlight(ch, r)} IN
    \/ /\ free = {}
       /\ EndDrain(owner, ch, lp, fired)
    \/ \E r \in free :
          /\ \A q \in free : r <= q
          /\ chain' = [ch EXCEPT ![r] = Handling(r)]
          /\ loop' = [lp EXCEPT ![r] = [todo |-> {q \in todo : q > r},
                                        owner |-> owner]]
          /\ daemon' = daemon
          /\ drains' = drains + fired

\* The chain's function returns: a handler to the loop that awaits it, if
\* any, a launch made by a sweep to the sweep.
Return(c, fired) ==
    IF c \in Runs
    THEN ContinueDrain(loop[c].todo, loop[c].owner,
                       [chain EXCEPT ![c] = Idle],
                       [loop EXCEPT ![c] = NoLoop], fired)
    ELSE /\ chain' = [chain EXCEPT ![c] = [Idle EXCEPT !.pc = "sweep"]]
         /\ drains' = drains + fired
         /\ UNCHANGED <<loop, daemon>>

Goto(c, next) ==
    /\ chain' = [chain EXCEPT ![c] = next]
    /\ UNCHANGED <<daemon, loop, drains>>

\* Mutant of Exit: the drivers survive the daemon.
ExitOrphaning ==
    /\ daemon' = "down"
    /\ chain' = [c \in Callers |-> Idle]
    /\ loop' = [r \in Runs |-> NoLoop]
    /\ drains' = 0
    /\ stale' = [s \in Sweeps |-> {}]
    /\ events' = {}
    /\ UNCHANGED proc

\* The process ends.  The supervisor kills what is left of its control
\* group, the drivers included; undelivered changes are not replayed.
Exit ==
    /\ daemon' = "down"
    /\ chain' = [c \in Callers |-> Idle]
    /\ loop' = [r \in Runs |-> NoLoop]
    /\ drains' = 0
    /\ stale' = [s \in Sweeps |-> {}]
    /\ proc' = [r \in Runs |-> {}]
    /\ events' = {}

\* An exception leaves the chain: logged, or, inside the awaited recovery at
\* boot, fatal to the daemon.  The loop or the sweep above it is abandoned.
Throw(c, fired) ==
    LET top == IF c \in Runs THEN loop[c].owner ELSE c IN
    \/ top = Boot /\ Exit
    \/ /\ top # Boot
       /\ chain' = [d \in Callers |-> IF d \in {c, top} THEN Idle ELSE chain[d]]
       /\ loop' = [r \in Runs |-> IF r = c THEN NoLoop ELSE loop[r]]
       /\ stale' = [s \in Sweeps |-> IF s = top THEN {} ELSE stale[s]]
       /\ drains' = drains + fired
       /\ UNCHANGED <<daemon, proc, events>>

-------------------------------------------------------------------------------
(* handleNewRun. *)

\* Mutant of Deliver: inFlight is one flag for all runs.
DeliverOneAtATime(r) ==
    /\ r \in events /\ daemon = "up"
    /\ events' \in {events, events \ {r}}
    /\ IF \E q \in Runs : InFlight(chain, q)
       THEN UNCHANGED chain
       ELSE chain' = [chain EXCEPT ![r] = Handling(r)]
    /\ UNCHANGED <<dbVars, proc, daemon, loop, drains, stale, crashes, web>>

\* Realtime delivers a change of a run whose payload says pending; it may
\* deliver it again.
Deliver(r) ==
    /\ r \in events /\ daemon = "up"
    /\ events' \in {events, events \ {r}}
    /\ IF InFlight(chain, r)
       THEN UNCHANGED chain
       ELSE chain' = [chain EXCEPT ![r] = Handling(r)]
    /\ UNCHANGED <<dbVars, proc, daemon, loop, drains, stale, crashes, web>>

\* getRun and getStages.
Fetch(r) ==
    /\ chain[r].pc = "fetch"
    /\ \/ runStatus[r] # "pending" /\ Return(r, 0)
       \/ /\ runStatus[r] = "pending"
          /\ Goto(r, [chain[r] EXCEPT !.pc = IF r \in Stageless THEN "stageless"
                                                               ELSE "slot"])
    /\ UNCHANGED <<dbVars, proc, stale, crashes, events, web>>

\* A pipeline without stages fails the run, whatever it has become meanwhile.
FailStageless(r) ==
    /\ chain[r].pc = "stageless"
    /\ runStatus' = [runStatus EXCEPT ![r] = "failed"]
    /\ Return(r, 0)
    /\ UNCHANGED <<rows, env, deployed, proc, stale, crashes, events, web>>

\* Mutant of TryAcquireRunningSlot: the handler goes on when it is refused.
TryAcquireIgnored(r) ==
    /\ chain[r].pc = "slot"
    /\ runStatus' = IF CanAcquire(runStatus, r)
                    THEN [runStatus EXCEPT ![r] = "running"]
                    ELSE runStatus
    /\ Goto(r, [chain[r] EXCEPT !.pc = "seed"])
    /\ UNCHANGED <<rows, env, deployed, proc, stale, crashes, events, web>>

TryAcquireRunningSlot(r) ==
    /\ chain[r].pc = "slot"
    /\ IF CanAcquire(runStatus, r)
       THEN /\ runStatus' = [runStatus EXCEPT ![r] = "running"]
            /\ Goto(r, [chain[r] EXCEPT !.pc = "seed"])
       ELSE /\ Goto(r, [chain[r] EXCEPT !.pc = "denied"])
            /\ UNCHANGED runStatus
    /\ UNCHANGED <<rows, env, deployed, proc, stale, crashes, events, web>>

\* The answer of a refused claim reaches the handler, which leaves inFlight.
Denied(r) ==
    /\ chain[r].pc = "denied"
    /\ Return(r, 0)
    /\ UNCHANGED <<dbVars, proc, stale, crashes, events, web>>

\* Start at the oldest pending stage_run if there is one, else at stages[0].
ChooseStage(r) ==
    LET seeds == StageRunsWith(rows[r], "pending") IN
    /\ chain[r].pc = "seed"
    /\ \/ /\ seeds = {}
          /\ Goto(r, [chain[r] EXCEPT !.pc = "create", !.stage = FirstStage])
       \/ \E i \in seeds :
             /\ \A j \in seeds : i <= j
             /\ Goto(r, [chain[r] EXCEPT !.pc = "gate", !.row = i,
                                         !.stage = rows[r][i].stage])
    /\ UNCHANGED <<dbVars, proc, stale, crashes, events, web>>

\* A fired drainPending reads the queue.
DrainPending ==
    /\ daemon # "down" /\ drains > 0
    /\ ContinueDrain(PendingRuns(runStatus), NoSweep, chain, loop, -1)
    /\ UNCHANGED <<dbVars, proc, stale, crashes, events, web>>

-------------------------------------------------------------------------------
(* launchStage, for the chain of any caller. *)

RunOf(c) == chain[c].run
RowOf(c) == rows[chain[c].run][chain[c].row]

At(c, pc) == chain[c].pc = pc

To(c, pc, arg) == Goto(c, [chain[c] EXCEPT !.pc = pc, !.arg = arg])

\* Mutant of HasBudget: one retry too many.
HasBudgetInclusive(stage, attempt) == attempt <= MaxRetries[stage] + 1

HasBudget(stage, attempt) == attempt < MaxRetries[stage] + 1

\* Outcomes that repeat a stage are drawn while the run has few rows.
MayRepeat(r) == Len(rows[r]) < MaxStageRuns

MayFail(c) == MayRepeat(RunOf(c)) \/ ~HasBudget(chain[c].stage, RowOf(c).attempt)

WriteRows(r, rs) == rows' = [rows EXCEPT ![r] = rs]

CreateRow(c) ==
    LET r == RunOf(c) IN
    /\ At(c, "create")
    /\ WriteRows(r, CreateStageRun(rows[r], chain[c].stage))
    /\ Goto(c, [chain[c] EXCEPT !.pc = "gate", !.row = Len(rows[r]) + 1])
    /\ UNCHANGED <<runStatus, env, deployed, proc, stale, crashes, events, web>>

\* The pre-gate: a hold or manual stage is parked and the chain returns,
\* leaving the run as it is.
HoldAtGate(c) ==
    /\ At(c, "gate") /\ chain[c].stage \in Gated
    /\ WriteRows(RunOf(c),
                 UpdateStageRunStatus(rows[RunOf(c)], chain[c].row, "pending"))
    /\ Return(c, 0)
    /\ UNCHANGED <<runStatus, env, deployed, proc, stale, crashes, events, web>>

PassGate(c) == At(c, "gate") /\ chain[c].stage \notin Gated

RefuseNoDriver(c) ==
    /\ PassGate(c) /\ chain[c].stage \in NoDriver
    /\ WriteRows(RunOf(c), CompleteStageRun(rows[RunOf(c)], chain[c].row, "failed"))
    /\ To(c, "finish", "failed")
    /\ UNCHANGED <<runStatus, env, deployed, proc, stale, crashes, events, web>>

Acquired(c) ==
    /\ PassGate(c) /\ chain[c].stage \notin NoDriver
    /\ env' = [env EXCEPT ![RunOf(c)] = TRUE]

\* acquire is re-entrant: it creates the worktree or finds the run's own.
AcquireEnv(c) ==
    /\ \/ Acquired(c) /\ To(c, "mark", "")
       \/ /\ PassGate(c) /\ chain[c].stage \notin NoDriver
          /\ MayFail(c)
          /\ To(c, "failed", "")
          /\ UNCHANGED env
    /\ UNCHANGED <<runStatus, rows, deployed, proc, stale, crashes, events, web>>

\* The provider names no artifacts directory: the run fails, without a retry.
RefuseNoArtifacts(c) ==
    /\ Acquired(c)
    /\ WriteRows(RunOf(c), CompleteStageRun(rows[RunOf(c)], chain[c].row, "failed"))
    /\ To(c, "finish", "failed")
    /\ UNCHANGED <<runStatus, deployed, proc, stale, crashes, events, web>>

\* The prompt cannot be composed: the stage has no persona, the persona no soul,
\* the driver's arguments are no list, or the issue has been deleted meanwhile,
\* which no foreign key of pipeline_run prevents.
ThrowAtPrompt(c) ==
    /\ Acquired(c)
    /\ Throw(c, 0)
    /\ UNCHANGED <<runStatus, rows, deployed, crashes, web>>

\* updateStageRunStatus(running), whatever the row has become meanwhile.
MarkRunning(c) ==
    /\ At(c, "mark")
    /\ WriteRows(RunOf(c),
                 UpdateStageRunStatus(rows[RunOf(c)], chain[c].row, "running"))
    /\ To(c, "prepare", "")
    /\ UNCHANGED <<runStatus, env, deployed, proc, stale, crashes, events, web>>

\* The prepare node writes the skeleton result document; then the driver is
\* spawned.  When either fails the graph carries the error to its end.
SpawnDriver(c) ==
    /\ At(c, "prepare")
    /\ \/ /\ proc' = [proc EXCEPT ![RunOf(c)] = @ \union {chain[c].row}]
          /\ To(c, "exec", "")
       \/ /\ MayFail(c)
          /\ To(c, "settle", "error")
          /\ UNCHANGED proc
    /\ UNCHANGED <<dbVars, stale, crashes, events, web>>

\* onDriverStart's recordPid commits, some time after the spawn.
PidRecorded(c) ==
    /\ At(c, "exec") /\ ~RowOf(c).pid
    /\ WriteRows(RunOf(c), RecordPid(rows[RunOf(c)], chain[c].row))
    /\ UNCHANGED <<runStatus, env, deployed, proc, daemon, chain, loop, drains,
                   stale, crashes, events, web>>

\* The driver exits, by itself or on a signal, or is killed at timeoutSec;
\* the ingest node follows.
DriverExit(c) ==
    /\ At(c, "exec")
    /\ proc' = [proc EXCEPT ![RunOf(c)] = @ \ {chain[c].row}]
    /\ \/ To(c, "settle", "ok")
       \/ MayFail(c) /\ To(c, "settle", "error")
    /\ UNCHANGED <<dbVars, stale, crashes, events, web>>

\* wasCancelled, then the verdict of the ingested document: an invalid one
\* counts as proceed, an unreadable one as a failure.
Settle(c) ==
    /\ At(c, "settle")
    /\ \/ /\ RowOf(c).status = "cancelled"
          /\ To(c, "finish", "cancelled")
       \/ /\ RowOf(c).status # "cancelled" /\ chain[c].arg = "error"
          /\ To(c, "failed", "")
       \/ /\ RowOf(c).status # "cancelled" /\ chain[c].arg = "ok"
          /\ \/ \E v \in Verdicts \ {"rework"} : To(c, "done", v)
             \/ MayRepeat(RunOf(c)) /\ To(c, "done", "rework")
             \/ MayFail(c) /\ To(c, "failed", "")
    /\ UNCHANGED <<dbVars, proc, stale, crashes, events, web>>

\* Mutant of StageFailed: the last failure does not end the run.
StageFailedQuietly(c) ==
    /\ At(c, "failed")
    /\ WriteRows(RunOf(c), CompleteStageRun(rows[RunOf(c)], chain[c].row, "failed"))
    /\ IF HasBudget(chain[c].stage, RowOf(c).attempt)
       THEN Goto(c, [chain[c] EXCEPT !.pc = "create", !.row = 0])
       ELSE Return(c, 0)
    /\ UNCHANGED <<runStatus, env, deployed, proc, stale, crashes, events, web>>

\* completeStageRun(failed), then handleStageFailed: retry, or give up.
StageFailed(c) ==
    LET s == chain[c].stage IN
    /\ At(c, "failed")
    /\ WriteRows(RunOf(c), CompleteStageRun(rows[RunOf(c)], chain[c].row, "failed"))
    /\ IF HasBudget(s, RowOf(c).attempt)
       THEN Goto(c, [chain[c] EXCEPT !.pc = "create", !.row = 0])
       ELSE To(c, "finish", "failed")
    /\ UNCHANGED <<runStatus, env, deployed, proc, stale, crashes, events, web>>

\* completeStageRun(completed), then applyVerdict.  A deleted issue fails the
\* run.  The blocked sentinel updates the issue first, which throws when a
\* concurrent edit has moved the issue's version.
StageCompleted(c) ==
    LET target == Routing[chain[c].stage][chain[c].arg] IN
    /\ At(c, "done")
    /\ WriteRows(RunOf(c),
                 CompleteStageRun(rows[RunOf(c)], chain[c].row, "completed"))
    /\ \/ /\ \/ To(c, "finish", "failed")
             \/ target = "__complete__" /\ To(c, "finish", "completed")
             \/ target = "__blocked__" /\ To(c, "finish", "blocked")
             \/ target = "none" /\ To(c, "finish", "dead_end")
             \/ /\ target \in Stages
                /\ Goto(c, [chain[c] EXCEPT !.pc = "create", !.row = 0,
                                            !.stage = target, !.arg = ""])
          /\ UNCHANGED <<proc, stale, events>>
       \/ target = "__blocked__" /\ Throw(c, 0)
    /\ UNCHANGED <<runStatus, env, deployed, crashes, web>>

\* Mutant of StatusOf: what ended the run is written as its status.
StatusVerbatim(arg) == arg

StatusOf(arg) == IF arg \in Settled THEN arg ELSE "blocked"

\* finishRun: completeRun writes the status unconditionally ...
FinishRun(c) ==
    /\ At(c, "finish")
    /\ runStatus' = [runStatus EXCEPT ![RunOf(c)] = StatusOf(chain[c].arg)]
    /\ To(c, "hook", chain[c].arg)
    /\ UNCHANGED <<rows, env, deployed, proc, stale, crashes, events, web>>

\* Mutant of TerminalHook: the hook is tried again when the release fails.
TerminalHookRetried(c) ==
    /\ At(c, "hook")
    /\ deployed' = IF chain[c].arg = "completed"
                   THEN [deployed EXCEPT ![RunOf(c)] = @ + 1]
                   ELSE deployed
    /\ \/ env' = [env EXCEPT ![RunOf(c)] = FALSE] /\ Return(c, 1)
       \/ UNCHANGED <<env, chain, loop, daemon, drains>>
    /\ UNCHANGED <<runStatus, rows, proc, stale, crashes, events, web>>

\* ... and the terminal hook deploys a completed run and releases the
\* environment, unless it is dirty; then a drain is fired.  After a dead end
\* the issue is blocked last, and that may throw.
TerminalHook(c) ==
    /\ At(c, "hook")
    /\ deployed' = IF chain[c].arg = "completed"
                   THEN [deployed EXCEPT ![RunOf(c)] = @ + 1]
                   ELSE deployed
    /\ \/ env' = [env EXCEPT ![RunOf(c)] = FALSE]
       \/ UNCHANGED env
    /\ \/ Return(c, 1) /\ UNCHANGED <<proc, stale, events>>
       \/ chain[c].arg = "dead_end" /\ Throw(c, 1)
    /\ UNCHANGED <<runStatus, rows, crashes, web>>

Launch(c) ==
    \/ CreateRow(c) \/ HoldAtGate(c) \/ RefuseNoDriver(c) \/ AcquireEnv(c)
    \/ RefuseNoArtifacts(c) \/ ThrowAtPrompt(c) \/ MarkRunning(c) \/ SpawnDriver(c)
    \/ DriverExit(c) \/ Settle(c)
    \/ StageFailed(c) \/ StageCompleted(c) \/ FinishRun(c) \/ TerminalHook(c)

-------------------------------------------------------------------------------
(* recoverOnStartup: at boot, and every recoverySweepIntervalMin if set. *)

\* The rows that say running, with the pid they hold when they are read.
StaleRows == UNION {{[run |-> r, row |-> i, pid |-> rows[r][i].pid] :
                        i \in StageRunsWith(rows[r], "running")} : r \in Runs}

StartSweep(s) ==
    /\ chain' = [chain EXCEPT ![s] = [Idle EXCEPT !.pc = "sweep"]]
    /\ stale' = [stale EXCEPT ![s] = StaleRows]

\* The supervisor restarts the daemon, which recovers before it subscribes.
StartDaemon ==
    /\ daemon = "down"
    /\ daemon' = "booting"
    /\ StartSweep(Boot)
    /\ UNCHANGED <<dbVars, proc, loop, drains, crashes, events, web>>

Tick(s) ==
    /\ daemon \in {"started", "up"} /\ s # Boot /\ At(s, "idle")
    /\ StartSweep(s)
    /\ UNCHANGED <<dbVars, proc, daemon, loop, drains, crashes, events, web>>

\* Mutant of SweepRow: a row without a pid is not dead yet.
SweepRowTrusting(s) ==
    /\ At(s, "sweep")
    /\ \E e \in stale[s] :
          /\ stale' = [stale EXCEPT ![s] = @ \ {e}]
          /\ IF e.pid => e.row \in proc[e.run]
             THEN UNCHANGED <<rows, chain>>
             ELSE /\ WriteRows(e.run, CompleteStageRun(rows[e.run], e.row, "failed"))
                  /\ chain' = [chain EXCEPT ![s] = [Idle EXCEPT !.pc = "finish",
                                  !.run = e.run, !.arg = "failed"]]
    /\ UNCHANGED <<runStatus, env, deployed, proc, daemon, loop, drains,
                   crashes, events, web>>

\* One row of the sweep, in the order the query returned them.  A row whose
\* recorded process is alive is left alone; any other fails, and its stage is
\* launched again within the budget, else the run is failed.
SweepRow(s) ==
    /\ At(s, "sweep")
    /\ \E e \in stale[s] :
          LET r == e.run
              row == rows[r][e.row] IN
          /\ stale' = [stale EXCEPT ![s] = @ \ {e}]
          /\ IF e.pid /\ e.row \in proc[r]
             THEN UNCHANGED <<rows, chain>>
             ELSE /\ WriteRows(r, CompleteStageRun(rows[r], e.row, "failed"))
                  /\ chain' = [chain EXCEPT ![s] =
                        IF HasBudget(row.stage, row.attempt)
                        THEN [Idle EXCEPT !.pc = "create", !.run = r,
                                          !.stage = row.stage]
                        ELSE [Idle EXCEPT !.pc = "finish", !.run = r,
                                          !.stage = row.stage, !.arg = "failed"]]
    /\ UNCHANGED <<runStatus, env, deployed, proc, daemon, loop, drains,
                   crashes, events, web>>

\* No row is left: drainPending, awaited.
SweepEnd(s) ==
    /\ At(s, "sweep") /\ stale[s] = {}
    /\ chain' = [chain EXCEPT ![s] = [Idle EXCEPT !.pc = "drain"]]
    /\ UNCHANGED <<dbVars, proc, daemon, loop, drains, stale, crashes, events, web>>

SweepDrain(s) ==
    /\ At(s, "drain")
    /\ ContinueDrain(PendingRuns(runStatus), s,
                     [chain EXCEPT ![s] = [Idle EXCEPT !.pc = "await"]], loop, 0)
    /\ UNCHANGED <<dbVars, proc, stale, crashes, events, web>>

\* A crash, or a shutdown whose grace period ends with stages running.
Crash ==
    /\ daemon # "down" /\ crashes < MaxCrashes
    /\ crashes' = crashes + 1
    /\ Exit
    /\ UNCHANGED <<dbVars, web>>

-------------------------------------------------------------------------------
(* The Realtime channel, as adapters/supabase/realtime.ts uses it.  What    *)
(* subscribe returns says nothing of the channel, and no status is handled: *)
(* what is committed while the channel is not joined is announced to nobody.*)

Join ==
    /\ daemon = "started"
    /\ daemon' = "up"
    /\ UNCHANGED <<dbVars, proc, chain, loop, drains, stale, crashes, events, web>>

Disconnect ==
    /\ ChannelDrops /\ daemon = "up"
    /\ daemon' = "started"
    /\ events' = {}
    /\ UNCHANGED <<dbVars, proc, chain, loop, drains, stale, crashes, web>>

-------------------------------------------------------------------------------
(* The web process, and the issue watcher as far as it inserts runs. *)

Insert(r, request) ==
    /\ runStatus[r] = "absent"
    /\ \A q \in Runs : q < r => runStatus[q] # "absent"
    /\ runStatus' = [runStatus EXCEPT ![r] = "pending"]
    /\ events' = IF daemon = "up" THEN events \union {r} ELSE events
    /\ web' = [web EXCEPT ![r] = request]
    /\ UNCHANGED <<rows, env, deployed, proc, daemon, chain, loop, drains, stale,
                   crashes>>

\* pipeline.runs.trigger inserts the run, and then the stage_run it is to
\* start at; the issue watcher only inserts the run.
Trigger(r, s) ==
    "trigger" \in Requests[r] /\ Insert(r, [pc |-> "seed", stage |-> s, picked |-> {}])

AutoDispatch(r) ==
    /\ "dispatch" \in Requests[r]
    /\ Insert(r, [pc |-> "idle", stage |-> FirstStage, picked |-> {}])

WebStep(r, pc, request) ==
    /\ web[r].pc = pc
    /\ web' = [web EXCEPT ![r] = request]
    /\ UNCHANGED <<env, deployed, proc, daemon, chain, loop, drains, stale,
                   crashes, events>>

Seed(r) ==
    /\ WebStep(r, "seed", [web[r] EXCEPT !.pc = "idle"])
    /\ WriteRows(r, CreateStageRun(rows[r], web[r].stage))
    /\ UNCHANGED runStatus

\* pipeline.runs.cancel reads the rows that are not terminal; cancelStage
\* takes the one it is given, whatever it holds.
ReadCancel(r) ==
    /\ "cancel" \in Requests[r]
    /\ \E picked \in {OpenStageRuns(rows[r])} \union {{i} : i \in DOMAIN rows[r]} :
          WebStep(r, "idle", [web[r] EXCEPT !.pc = "cancel", !.picked = picked])
    /\ UNCHANGED <<runStatus, rows>>

\* SIGTERM to the recorded pids (DriverExit is what a driver makes of it),
\* and completeStageRun(cancelled) ...
CancelStageRuns(r) ==
    /\ WebStep(r, "cancel", [web[r] EXCEPT !.pc = "close", !.picked = {}])
    /\ WriteRows(r, [i \in DOMAIN rows[r] |->
                       IF i \in web[r].picked
                       THEN [rows[r][i] EXCEPT !.status = "cancelled"]
                       ELSE rows[r][i]])
    /\ UNCHANGED runStatus

\* Mutant of CancelRun: the web process releases the environment at once.
CancelRunReleasing(r) ==
    /\ web[r].pc = "close"
    /\ web' = [web EXCEPT ![r].pc = "over"]
    /\ runStatus' = [runStatus EXCEPT ![r] = "cancelled"]
    /\ env' = [env EXCEPT ![r] = FALSE]
    /\ UNCHANGED <<rows, deployed, proc, daemon, chain, loop, drains, stale,
                   crashes, events>>

\* ... then completeRun(cancelled), whatever the run has become.
CancelRun(r) ==
    /\ WebStep(r, "close", [web[r] EXCEPT !.pc = "over"])
    /\ runStatus' = [runStatus EXCEPT ![r] = "cancelled"]
    /\ UNCHANGED rows

Cancel(r) == ReadCancel(r) \/ CancelStageRuns(r) \/ CancelRun(r)

\* approveStage (and executeStage) and rejectStage: they ask no row what it
\* holds, so a page that is no longer true decides a row that has gone on.
Decide(r) ==
    /\ "decide" \in Requests[r]
    /\ \E i \in DOMAIN rows[r] :
          \/ WriteRows(r, UpdateStageRunStatus(rows[r], i, "launching"))
          \/ \E status \in {"failed", "cancelled"} :
                WriteRows(r, CompleteStageRun(rows[r], i, status))
    /\ UNCHANGED <<runStatus, env, deployed, proc, daemon, chain, loop, drains,
                   stale, crashes, events, web>>

-------------------------------------------------------------------------------

Handle(r) ==
    Fetch(r) \/ FailStageless(r) \/ TryAcquireRunningSlot(r) \/ Denied(r) \/ ChooseStage(r)

Sweep(s) == SweepRow(s) \/ SweepEnd(s) \/ SweepDrain(s)

\* What the daemon, its drivers and the supervisor do by themselves.
System ==
    \/ \E r \in Runs : Deliver(r) \/ Handle(r)
    \/ \E c \in Callers : Launch(c) \/ PidRecorded(c)
    \/ \E s \in Sweeps : Sweep(s) \/ Tick(s)
    \/ DrainPending \/ StartDaemon \/ Join

User ==
    \E r \in Runs :
       \/ \E s \in Stages : Trigger(r, s)
       \/ AutoDispatch(r) \/ Seed(r) \/ Cancel(r) \/ Decide(r)

Next == System \/ User \/ Crash \/ Disconnect

Spec == Init /\ [][Next]_vars

\* The event loop resumes every chain whose await has returned, a driver ends
\* at timeoutSec at the latest, the channel joins and delivers while it is
\* joined, and the supervisor restarts the daemon.  Nothing obliges users, the
\* periodic sweep, recordPid, a crash or a drop of the channel.
Fairness ==
    /\ \A r \in Runs : WF_vars(Deliver(r)) /\ WF_vars(Handle(r))
    /\ \A c \in Callers : WF_vars(Launch(c))
    /\ \A s \in Sweeps : WF_vars(Sweep(s))
    /\ WF_vars(DrainPending) /\ WF_vars(StartDaemon) /\ WF_vars(Join)

FairSpec == Spec /\ Fairness

-------------------------------------------------------------------------------
(* Properties. *)

\* At most maxConcurrentRuns runs are running, however many handlers, drains
\* and sweeps race for the slots (tryAcquireRunningSlot, FLX-199).
SlotLimit == Cardinality(RunningRuns(runStatus)) <= MaxConcurrent

\* A driver process only ever works for a run that was claimed: no path
\* around tryAcquireRunningSlot reaches a spawn (docs/invariants.md, the
\* daemon is the sole path from pending to running).
DriversAreClaimed ==
    \A r \in Runs : proc[r] # {} => runStatus[r] \notin {"absent", "pending"}

\* Two drivers never share a run, hence its worktree and its result.json:
\* neither a retry, nor a restart, nor a drain racing a Realtime event starts
\* a second one next to the first (inFlight, recoverOnStartup).
OneDriverPerRun == \A r \in Runs : Cardinality(proc[r]) <= 1

\* The worktree of a run is not released under a driver that works in it,
\* whoever ended the run meanwhile (acquireIsolationEnv, terminal hook).
WorktreeHeldWhileDriven == \A r \in Runs : proc[r] # {} => env[r]

\* A run is deployed at most once, whatever crashes and recovers between its
\* completion and the terminal hook: a second deploy is a second pull request.
DeployAtMostOnce == \A r \in Runs : deployed[r] <= 1

\* Something the daemon will do looks at the run while it is pending: a change
\* to deliver, a drain, a handler before its claim, the rest of a loop, a sweep
\* that ends in a drain, or, before start, the drain of start.
Attended(r) ==
    \/ daemon \in {"down", "booting"} \/ drains > 0 \/ r \in events
    \/ chain[r].pc \in {"fetch", "stageless", "slot"}
    \/ \E q \in Runs : r \in loop[q].todo
    \/ \E s \in Sweeps : chain[s].pc \notin {"idle", "await"}

\* The claim of the run is refused, or the refusal has not reached its handler.
Refused(r) == At(r, "denied") \/ (At(r, "slot") /\ ~CanAcquire(runStatus, r))

\* An exception leaves a chain, and with it the loop or the sweep above it.
Abandoned(r) ==
    \E c \in Callers :
       /\ \/ At(c, "gate") /\ chain[c].stage \notin Gated
          \/ At(c, "done") /\ Routing[chain[c].stage][chain[c].arg] = "__blocked__"
       /\ chain'[c] = Idle
       /\ c \in Sweeps \/ r \in loop[c].todo

\* The channel drops with the change that announces the run.
Unannounced(r) == r \in events /\ Disconnect

\* The daemon does not forget a pending run it has heard of, or could hear of:
\* from an insertion that the joined channel announces, or that precedes
\* start, something the daemon will do looks at the run, whatever it is busy
\* with, until the run leaves the queue, is refused for want of a slot, or an
\* exception abandons the loop it waits in (handleNewRun's inFlight,
\* drainPending and its callers).  Only what the channel itself loses is
\* outside: an insertion while it is not joined, and a change it drops with.
QueuedRunNotForgotten ==
    [][\A r \in Runs :
          /\ Attended(r) \/ (runStatus[r] = "absent" /\ daemon # "started")
          /\ runStatus'[r] = "pending"
          => Attended(r)' \/ Refused(r) \/ Abandoned(r) \/ Unannounced(r)]_vars

\* The driver of a stage fails at most maxRetries + 1 times in a run, the
\* failures declared by crash recovery included (handleStageFailed and the
\* budget test of recoverOnStartup).  A user's rejection also writes failed,
\* so the property is about the runs nobody decides on.
RetryBudget ==
    \A r \in Runs, s \in Stages :
       "decide" \notin Requests[r] =>
          Cardinality({i \in StageRunsOf(rows[r], s) :
                         rows[r][i].status = "failed" /\ rows[r][i].pid})
             <= MaxRetries[s] + 1

\* A stage_run that was cancelled once its driver was recorded is past the
\* daemon's reach: no bookkeeping of the unwinding stage, no recovery and no
\* rejection overwrites it (the guard of completeStageRun, FLX-266).  Only an
\* approval does, which writes launching over anything.
CancelledRowFinal ==
    [][\A r \in Runs : \A i \in DOMAIN rows[r] :
          rows[r][i].status = "cancelled" /\ rows[r][i].pid
             => rows'[r][i].status \in {"cancelled", "launching"}]_vars

\* The daemon, the web process and their races implement the queue and the
\* slots that RunSlots promises; in particular no settled run is claimed.
Slots == INSTANCE RunSlots
ImplementsRunSlots == Slots!Spec

\* A stage_run that says running settles, even when its daemon dies: whatever
\* the crash left behind, recoverOnStartup finds it.
RunningStageSettles ==
    \A r \in Runs : StageRunsWith(rows[r], "running") # {}
                      ~> StageRunsWith(rows[r], "running") = {}

\* No chain works for the run.
Unattached(r) == \A c \in Callers : chain[c].run # r

LastRow(r) == {rows[r][i] : i \in DOMAIN rows[r] \cap {Len(rows[r])}}

\* A claimed run that waits at a gate, and one that an exception has left where
\* it was: while the prompt was composed, or when its issue was to be blocked.
Parked(r) ==
    /\ Unattached(r) /\ runStatus[r] = "running"
    /\ \E row \in LastRow(r) : row.status = "pending" /\ row.stage \in Gated

Thrown(r) ==
    /\ Unattached(r) /\ runStatus[r] = "running"
    /\ \E row \in LastRow(r) :
          \/ row.status = "pending" /\ row.stage \notin Gated
          \/ row.status = "completed"
             /\ \E v \in Verdicts : Routing[row.stage][v] = "__blocked__"

\* With a slot for everyone, a run that was queued while the daemon was down
\* or recovering starts, whatever the recovery does first: it is in the drain
\* of the recovery or in the one start fires.  Only the exception of another
\* run of that drain keeps it back.
EveryRunStarts ==
    \A r \in Runs :
       runStatus[r] = "pending" /\ daemon \in {"down", "booting"}
          ~> (runStatus[r] # "pending" \/ \E q \in Runs : Thrown(q))

\* Without a crash, a claimed run settles, waits at a gate, or is where an
\* exception left it: every other failure and verdict, of stages with and
\* without a driver, ends in finishRun or in another stage.
ClaimedRunSettles ==
    \A r \in Runs :
       runStatus[r] = "running"
          ~> (runStatus[r] \in Settled \/ crashes > 0 \/ Parked(r) \/ Thrown(r))

-------------------------------------------------------------------------------
(* What the repository says of the program, and the code does not do. *)

\* stage-executor.ts, L380: when Cancel has marked the stage and the run, the
\* bookkeeping after the driver "must never overwrite that cancellation".
CancelSticks ==
    [][\A r \in Runs :
          /\ runStatus[r] = "cancelled"
          /\ \E i \in DOMAIN rows[r] : rows[r][i].status = "cancelled" /\ rows[r][i].pid
          => runStatus'[r] = "cancelled"]_vars

\* server/routers/pipeline.ts, L507: an approved stage is marked launching "so
\* the orchestrator picks it up"; the run is still running.
ApprovedStageLaunches ==
    \A r \in Runs :
       runStatus[r] = "running" /\ StageRunsWith(rows[r], "launching") # {}
          ~> StageRunsWith(rows[r], "launching") = {}

\* event-orchestrator.ts, L114: "every code path that flips the run's status
\* goes through the same hook", after which "any pending runs waiting for a
\* concurrency slot are picked up immediately".
FreeSlotIsTaken ==
    \A r \in Runs :
       (runStatus[r] = "pending" /\ Cardinality(RunningRuns(runStatus)) < MaxConcurrent)
          ~> (runStatus[r] # "pending"
              \/ Cardinality(RunningRuns(runStatus)) >= MaxConcurrent)

\* docs/superpowers/specs/2026-04-24-r-daemon-design.md, L27: a sweep fails
\* and retries the stage_runs "whose PIDs are dead", and no other.
SweepSparesTheLiving ==
    [][\A s \in Sweeps, r \in Runs :
          \A i \in proc[r] :
             At(s, "sweep") /\ stale[s] # stale'[s] => rows'[r][i] = rows[r][i]]_vars

===============================================================================
