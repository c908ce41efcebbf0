# fluxaOS in TLA+

fluxaOS runs AI agents over issues: an issue is dispatched to a *pipeline*, a
daemon executes the pipeline's *stages* one after the other in a git worktree,
and a completed run is deployed as a pull request. This directory models the
parts of that system where the hard behaviour is - the call chains of one daemon,
a web process that writes the same rows, worktrees and directories on disk, a
forge, crashes and restarts - checks them with TLC and proves their central
properties with TLAPS.

Paths of source files are relative to the repository.

1. [The system](#1-the-system)
2. [What is hard](#2-what-is-hard)
3. [Modules](#3-modules)
4. [How the model corresponds to the code](#4-how-the-model-corresponds-to-the-code)
5. [Runs](#5-runs)
6. [Where documentation and code disagree](#6-where-documentation-and-code-disagree)
7. [Proofs](#7-proofs)
8. [What is not modelled](#8-what-is-not-modelled)
9. [Plan](#9-plan)

## 1. The system

| Component | State it keeps | Operations | Correct when |
|---|---|---|---|
| Event orchestrator (`src/core/orchestrator/event-orchestrator.ts`) | `inFlight`, subscriptions, suspended call chains | `handleNewRun`, `drainPending`, `finishRun`, `start`, `recoverOnStartup` | at most `maxConcurrentRuns` runs are running; every pending run is started; a crash leaves nothing running for ever |
| Stage executor (`stage-executor.ts`) | none but its call stack | `launchStage`, verdict routing, retry, completion | one driver per run, within the retry budget; a cancellation is never undone; every outcome ends in a settled run or another stage |
| Run service (`pipeline-run-service.ts`) | rows of `pipeline_run`, `stage_run` | create, claim a slot, update, complete, record pid | the claim is atomic; a cancelled row is not completed |
| Pipeline router (`src/server/routers/pipeline.ts`), web process | the same rows | trigger, cancel, cancelStage, approve, reject, execute | what a user decided takes effect and stays |
| Stage graph (`src/adapters/langgraph/`) | driver child process | prepare, execute, ingest | a driver is waited for and killed at its timeout |
| Daemon (`src/scripts/daemon.ts`, `ops/systemd/`) | process, timers | boot, periodic recovery, shutdown | recovers before it subscribes, misses no run inserted before |
| Terminal hook (`pipeline-terminal-hook.ts`) | `deploy_run` | deploy or release | a completed run is deployed once; an environment is released when nobody works in it |
| Issue watcher (`issue-watcher.ts`) | `inFlight` of issues | startup sweep, dispatch | one active run per issue; no open issue forgotten |
| Deploy bridge (`src/core/deploy/`) | branch and pull-request rows | commit, push, open PR, record, transition, release | the forge and the database agree, whichever step fails |
| Isolation (`src/adapters/git/`, `stage-runner-env.ts`) | worktrees, `isolation_environment`, artifacts directories | acquire, repair, release | row and worktree agree; one environment per run |
| Cleanup (`src/core/cleanup/`) | - | sweep, remove, make room, reap artifacts | never removes what an active run uses |
| Issue service (`src/core/services/issue.ts`, `issue-comment.ts`) | `issue` and `issue_comment` rows with versions | transition, status, close, reopen, comment, epic auto-close | no lost update; an epic closes with its last child; comments are numbered in turn |
| Gates engine (`src/core/gates/`) | `stage_gate_result` | evaluate a rule tree | exactly the failures that count decide; mending one never hurts |
| Drivers, skills, personas (`src/core/services/`) | rows, their revisions, bindings, the columns of a stage | versioned save, revert, delete, bind, resolve by scope | histories follow rows; nothing points nowhere; a look-up has one answer |
| Agents (`src/core/agents/`) | - | loop, parallel | verdict is that of the children |
| Other catalogue services, configuration, routers, UI, CLI, forges, Realtime/auth/queue adapters | rows, caches | CRUD, look-ups, I/O | mostly sequential |

How they interact. The web process and the issue watcher **insert** a
`pipeline_run` that is pending. Supabase Realtime **delivers** the change to the
orchestrator, in no particular order, possibly again, and not at all while its
channel is not joined; it joins some time after `subscribe` has returned. The orchestrator **claims** a slot in one SQL statement
under an advisory lock, then **launches** a stage; the stage executor calls
itself for the next stage, so one asynchronous call chain carries a run from
claim to end and every `await` in it is a point where other chains, the web
process or a crash come between. `finishRun` **completes** the row, calls the
terminal hook and fires `drainPending`, which **awaits** `handleNewRun` for one
queued run after another. The web process shares only the database and the
process table (it signals recorded pids). A crash loses every chain; boot
reads the rows that still say running and fails or relaunches their stages.

A stage **acquires** the worktree of its run (row, tree on disk, artifacts
directory), the terminal hook **deploys** a completed run (commit, push, pull
request, rows, transition of the issue) or **releases** the worktree, and the
cleanup scheduler **sweeps** what seems abandoned, without asking the
orchestrator. A run that ends blocked **blocks** its issue; the closing of an
issue **closes** its epic. What a stage needs - driver, persona, skills, gate - is
looked up in rows that users edit meanwhile.

## 2. What is hard

`PROJECT.json` lists the hazards at the lines where they bite, with the
properties that cover them or the reason none does. The groups are:

* **Races for a run and for a slot**: Realtime, two drains and a recovery may
  reach the same run, or the last slot, together.
* **Reads that are stale when used**: the single `wasCancelled` test, rows
  updated without a guard, a pid that is recorded after the spawn, the version
  of an issue read before a long deploy, the page a user submits, an event or a
  sweep's list that is old when it is handled.
* **Check, then act**: the active-run test before the insertion of a run, the
  cleanliness of a worktree before its removal, references counted before a
  deletion, `MAX + 1` before an insertion.
* **Crashes** between any two writes; what `recoverOnStartup` can see of them.
* **Liveness**: who is told of a free slot, of an approved stage, of a run
  inserted during boot, of one inserted before the channel has joined.
* **Partial failure**: exceptions that leave a chain, a pull request without a
  row, an insert that fails after its worktree exists, a removal whose row is not
  updated, an event that is not recorded.

## 3. Modules

| Module | Contents |
|---|---|
| `RunService` | the two tables as values, and the operations of `PipelineRunService` as operators on them |
| `RunSlots` | abstract specification: a run is queued, claimed below the limit, settled |
| `PipelineOrchestrator` | daemon, web process, Realtime, crash: state, actions, properties |
| `IssueDispatch` | the issue watcher beside users, runs that touch their issue, boot, crash and a broken config |
| `Environments` | worktree, artifacts, deploy, release and cleanup sweep of the runs of an issue |
| `VersionedRows` | abstract specification of optimistic concurrency: only who has seen a row replaces it |
| `IssueLifecycle` | issues, epics and comments under concurrent requests |
| `Gates` | the gates engine as operators, and what it promises |
| `Catalogue` | drivers, skills, personas and what a stage names, under concurrent requests; recorded gate verdicts |
| `MC...` | the constants TLC needs, one module for each of the five specifications that run |
| `..._proofs`, `PipelineOrchestrator_claims`, `PipelineOrchestrator_workers` | theorems and their proofs |

How they compose:

* `PipelineOrchestrator` EXTENDS `RunService` and implements `RunSlots`
  (`ImplementsRunSlots`; the mapping is the identity on `runStatus`).
* `IssueDispatch` stands beside `PipelineOrchestrator`: it has a stub of the
  orchestrator, translated from the lines that write a run's status or its issue, and
  nothing is claimed of how the stub and the full model relate.
* `IssueLifecycle` and `Catalogue` implement `VersionedRows` (`NoLostUpdate` in both).
  The mapping hides the version in the content of a row and makes a request's view
  out of the row it holds between its read and its write.
* `Catalogue` EXTENDS `Gates`: a stage's gate is edited, read, evaluated and recorded.
* `Environments` takes over where `PipelineOrchestrator` has one Boolean (is the
  worktree held?) and one step (the hook); the runs' stages are cut down to the
  writes and commits in the tree.

Some definitions are preceded by a variant of themselves, marked as a mutant: a
plausible bug (a dropped guard, a limit off by one), kept to show that a property
does depend on the definition.

## 4. How the model corresponds to the code

Every module follows one scheme. A variable is a table, a piece of process memory,
or what is on disk or at the forge. A record with a `pc` is one suspended call
chain; `pc` names the await. An action is the code between two awaits whose order
another actor can observe. A statement of the database is one step; statements
that the code puts into a transaction are one step only where a lock or a unique
index makes them so.

### PipelineOrchestrator

**Chains.** `chain[c]` is one asynchronous call chain of the daemon. Its caller
`c` is a run (`handleNewRun` of that run: `inFlight` admits one) or a sweep (one
invocation of `recoverOnStartup`; 0 is the one at boot). Awaits that only read rows
nobody else writes, or append events, are merged with what follows.

| `pc` | suspended in | left by |
|---|---|---|
| `fetch` | `getRun`, `getStages` | `Fetch` |
| `stageless` | `updateRunStatus(failed)` of a pipeline without stages | `FailStageless` |
| `slot` | `tryAcquireRunningSlot` | `TryAcquireRunningSlot` |
| `denied` | the answer of a refused claim | `Denied` |
| `seed` | `getStageRuns` | `ChooseStage` |
| `create` | `createStageRun` | `CreateRow` |
| `gate` | the pre-gate, the look-ups, the worktree, the prompt | `HoldAtGate`, `RefuseNoDriver`, `AcquireEnv`, `RefuseNoArtifacts`, `ThrowAtPrompt` |
| `mark` | `updateStageRunStatus(running)` | `MarkRunning` |
| `prepare`, `exec` | the stage graph | `SpawnDriver`, `DriverExit` |
| `settle` | `wasCancelled` | `Settle` |
| `done`, `failed` | `completeStageRun` | `StageCompleted`, `StageFailed` |
| `finish`, `hook` | `completeRun`, `onTerminal` | `FinishRun`, `TerminalHook` |
| `sweep`, `drain`, `await` | the loop of `recoverOnStartup`, its query of the queue, its awaited drain | `SweepRow`, `SweepEnd`, `SweepDrain`, the drain's end |

**Drains.** A fired `drainPending` is counted in `drains` until it reads the
queue; its loop then lives in `loop[r]`, attached to the run whose handler it
awaits. `ContinueDrain` skips the runs in flight, which `handleNewRun` refuses at
once, and `Return` resumes whatever awaited the chain. `Throw` is an exception
that leaves the chain: everything up to the `catch` is abandoned; under the
awaited recovery at boot it ends the process (`main().catch`).

**Crash and restart.** `Crash` empties the daemon's variables and the process
table: the service unit has `KillMode=mixed` and `Restart=always`, so what is
left of the control group, the drivers included, is killed before the restart.
A daemon that is started by hand instead may leave drivers behind; the mutant
`ExitOrphaning` shows what is lost then. A graceful shutdown whose grace period
runs out is a `Crash`. The initial state is a daemon that is up on an empty
database.

**The channel.** `subscribe` (`adapters/supabase/realtime.ts:52-69`) returns before the
channel has joined, and no status of the channel is handled. So `daemon` has two values
for a daemon that runs: `started` (subscription asked for, channel not joined) and `up`.
The end of the boot recovery leads to `started` and fires the drain of `start`; `Join`
comes at any time after, before or after that drain has read the queue; `Disconnect`
leads back from `up` and loses what was not delivered. Only what is inserted in `up` is
announced.

**Web process.** `Trigger` inserts the run and `Seed` the stage it starts at, in
two steps as in the code. A cancel reads the rows, marks them and completes the
run in three; each run is cancelled at most once per behaviour. The rows are those that
are not terminal (`cancel`), or one row whatever it holds (`cancelStage`). `Decide` is
approve, execute and reject, of any row in any status: the handlers test none, so a
page that is no longer true overwrites a row that has gone on.

**Names.** A run is named by its position in `created_at` order, so the FIFO queue
is the order of the naturals. A stage's routing is a table from verdict to stage
or sentinel; `"none"` stands for a missing or dangling route.

**Abstractions.** A driver ends with a usable document, or an error, at any time;
its exit code plays no part, as in `runDriver`. A pid is a Boolean (is it
recorded?) beside the set of rows whose driver is alive: pids are not reused, and
`recordPid`, which nobody awaits, commits while the driver runs or never. The
worktree is one Boolean; `AcquireEnv` sets it or fails, `TerminalHook` clears it
unless it is dirty. A missing persona, soul, issue or list of arguments makes a launch
throw after its worktree exists; since rows are edited while runs go on, `ThrowAtPrompt`
may do so at any stage that has a driver. `createStageRun` is one step, although the
code reads `max(attempt)` and inserts in two statements: only a seed can come between
(section 9). Database statements commit or are not
reached because of a crash; that a statement itself fails is modelled only where
the code names it (a version conflict when an issue is blocked). Runs without an
issue, and a daemon built without a graph runner, are left out.

### IssueDispatch

`chain[<<i, lane>>]` is `handleIssueEvent` of issue `i`, started by Realtime or by the
startup sweep; the watcher's `inFlight` set is "some lane of `i` is not idle".
Its `pc` follows `dispatch`: `read` (the row is read anew), `status` (the configured
status is resolved; an invalid one ends the daemon), `active` (`hasActiveRun`),
`insert`. `startupSweep` is `list`, `runs` and a `loop` that awaits each dispatch.
An issue row is three Booleans: does it exist, does its status resolve to the
configured one, is it closed. The channels are those of section PipelineOrchestrator:
a change is announced only to a watcher whose channels have joined (`daemon = "up"`), and
the startup sweep may list the issues before they have; of an event only the id is used.
`missed` and `changed` are history variables: changes nobody will read the row for
(committed after the sweep's list and before the channels join, lost with the channels,
or announced while a dispatch that has read the row is in flight), and issues changed
since their row was read. The orchestrator is a claim, an
outcome, the block of the issue before or after the row (both orders occur in the
code), and the transition of a deploy.

### Environments

| State | Code |
|---|---|
| `env`, `recorded` | `isolation_environment`, `pipeline_run.artifacts_path` |
| `tree` | the worktree (none, clean, dirty), its branch, commits ahead of the base, merged or not |
| `dirs` | artifacts directories, named by the run that made them |
| `forge`, `deploy`, `issue` | pushed commits and pull request; `deploy_run` and the pull request's row; who read the issue's present version |
| `job[a]` | the chain of run `a`, or of the sweeper |

`Acquire`, `Create`, `Insert` and `Repair` are `acquire` cut at its effects: the
three-way choice by row and worktree, `git worktree add -b` with the directory, the
insertion with its undo, the second `worktree add`. `LoadDeploy` to `RecordFailure`
are `deploy`, one action for each value of `failed_stage` and one for the success;
every step may fail, with the stage a `DeployBridgeError` names or, where the code wraps
no error (the loads, `branchAheadCount`, the look-up of the forge), without one; the
answer to a push, or of the forge after the pull request was opened, may be lost. A
repair may fail before or after the tree and the directory exist again, and undoes
nothing. After a crash recovery starts the stage anew, or fails the run and calls the
hook, which releases the environment. `Advance` is a step of its own because the issue service is bound to the
database and not to the transaction around it. `CheckRelease`, `RemoveWorktree` and
`MarkInactive` are `release` without force, in the hook's hands or in the sweeper's;
`Judge`, `JudgeAgain` and `SweepDir` are the scheduled sweep. A path is the number of
the run that named it. That a branch without commits counts as merged, as
`git branch --merged` has it, is `commits = 0`. The database's age of a row is the
set `old`. Runs outside `Followed` only get a worktree: enough to record
directories that others inherit.

### IssueLifecycle

A request is one call from the moment its page read the row: `Load`, then `Check`
(the handler's own SELECT and `assertVersion`), then the `UPDATE ... WHERE version`,
each a step; the insertion of the event belongs to the write and may fail in any
request of `EventFails`, that of an epic it closes included. `Number` and `Insert` are the allocation `MAX(number) + 1` under
`FOR UPDATE` and the insertion: under READ COMMITTED a lock does not show the waiter
the rows inserted meanwhile, so two requests may compute one number and the unique
index decides. A parent in another project, and a status that cannot be resolved, refuse
the creation in the same step. `Ascend`, `ReadParent`, `CountOpen` and `CloseParent` are
`maybeAutoCloseParent` with its one retry, and the recursion to the grandparent.
`Vanish` ends the process under a request. The body of a comment is named by the
request that wrote it; `trail` is what the `issue_event` rows of it hold.

### Gates and Catalogue

`Gates` writes the engine's recursion out to its nesting limit (three levels), because
the engine throws at the fourth (`TooDeep`). The order in which rules are scanned
plays no part, since rules of equal severity and action lead to one verdict.
In `Catalogue` a save is one step for a driver, whose row and revision are one
transaction, and three for a skill (`Save`, `Number`, `AppendRevision`), as in the
code; a number that is taken refuses the insertion, and the request ends in an error
although its row is saved. A deletion is `Count`, then `Delete`, between which a reference
may be inserted. The unique indexes (`NameTaken`, `MayAppend`) and the foreign keys
(`Restricts`) are those of the schema, but for the references of `stage_run.skill_id` and
`stage_run.driver_id`: they only make the code refuse more deletions than the model. The
content of a row is its name, which is what look-ups depend on. `ResolveEffectiveById` is `resolveScoped`.

## 5. Runs

`CHECK_DEADLOCK FALSE` in all of them: when the users have done what they may and
every chain is at its end, the system rests.

| Run | Module | Properties | Bounds | States |
|---|---|---|---|---|
| `slots` | `MCPipelineOrchestrator` | `TypeOK`, `SlotLimit`, `DriversAreClaimed`, `OneDriverPerRun`, `WorktreeHeldWhileDriven`, `DeployAtMostOnce`, `ImplementsRunSlots`, `QueuedRunNotForgotten` | 2 runs for 1 slot, a stage of which recovery may start a second row, 1 crash, a channel that joins late and drops, the first run may be cancelled | 1 259 595 |
| `pipeline` | `MCPipelineOrchestrator` | `CancelledRowFinal` | 1 run, 2 stages (one gated), prompts that cannot be composed, trigger, cancel and decide from pages old and new, a periodic sweep | 1 625 548 |
| `progress` | `MCPipelineOrchestrator` | `RetryBudget`, `RunningStageSettles`, `EveryRunStarts`, `ClaimedRunSettles` | 2 runs with 2 slots; 4 stages, of which one is gated, one has no driver, and one may lead to the blocked sentinel or to a dead end; the second run of a pipeline without stages; up to 3 rows of a run, 1 retry, 1 crash, a channel that joins late and drops; fair | 122 044 |
| `dispatch` | `MCIssueDispatch` | `TypeOK`, `OneDispatchedRun`, `DispatchIsFresh`, `OpenIssueGetsRun` | 1 issue, 2 runs for 1 slot, 2 acts of users, 1 crash, loss of the channels or broken config; fair | 235 944 |
| `environments` | `MCEnvironments` | `TypeOK`, `UncommittedWorkStays`, `DeployRowTellsTruth`, `ArtifactsStayPut`, `ArtifactsAtHand`, `ActiveRowHasTree`, `EnvironmentSettles` | 2 runs of which 1 is followed to its end, 1 commit by a stage (and one by the deploy), 1 failing call or crash; fair | 499 883 |
| `issues` | `MCIssueLifecycle` | `TypeOK`, `NoLostUpdate`, `EpicClosesWithLastChild`, `OpenChildKeepsEpicOpen`, `CommentsNumberedInTurn`, `CommentTrailComplete` | a theme, its epic, 2 children and a third to come, 1 comment and 2 to come; 7 sets of 3 or 4 concurrent requests | 36 018 |
| `catalogue` | `MCCatalogue` | `TypeOK`, `NoLostUpdate`, `HistoryFollowsDriver`, `SavedIsRecorded`, `NoOrphans`, `EffectiveIsDetermined`, `BlameIsExact`, `MendingHelps` | 3 skills in 2 layers, 2 drivers, 1 persona, 1 stage; 7 sets of 2 to 5 concurrent requests; all gates of 3 groups and 2 rules over 7 kinds of rules | 44 168 |
| `cancel_sticks`, `approval`, `free_slot`, `periodic_sweep`, `sweep` | | one statement of the repository each, violated (section 6) | 1 or 2 runs | |

What the properties say of the orchestrator:

* `SlotLimit`, `ImplementsRunSlots`: however handlers, drains and sweeps race, at
  most `maxConcurrentRuns` runs are running, a run is claimed only when pending,
  and a settled run never returns to the queue or to a slot.
* `OneDriverPerRun`: two drivers never share the worktree and the `result.json`
  of a run. It holds with the sweep at boot only; with a periodic sweep it does
  not, see below.
* `WorktreeHeldWhileDriven`: no hook or cancel takes the worktree from under a
  living driver.
* `DeployAtMostOnce`: no crash and no recovery leads to a second deploy (again with
  the sweep at boot only: two chains of one run would complete it twice).
* `QueuedRunNotForgotten`: no wake-up the daemon could hear of is lost. From an insertion
  that the joined channel announces, or that precedes `start`, something the daemon will
  do looks at a pending run (`Attended`: an event, a drain, a handler before its claim,
  the rest of a loop, a sweep that ends in a drain, the drain of `start`), however these
  are consumed, skipped by `inFlight` or abandoned. The exceptions are the code's: a claim
  that was refused, whose run is skipped even while the refusal is on its way to the
  handler (`Refused`), an exception, which takes the loop with it (`Abandoned`), and a
  channel that drops with the announcement (`Unannounced`). A run inserted between the
  drain of `start` and the join of the channel is not promised anything: see section 6.
* `DriversAreClaimed`: no path around the claim reaches a spawn.
* `CancelledRowFinal`: once a driver is recorded and its row cancelled, nothing but an
  approval overwrites the row: no bookkeeping of the unwinding stage, no recovery, no
  second cancel, no rejection. Before the pid is recorded the code gives no such
  guarantee: `updateStageRunStatus` has no guard; for the same reason an approval (or
  `executeStage`) from a stale page writes `launching` over any row.
* `RetryBudget`: failures of a stage's driver, those that recovery declares
  included, stay within `maxRetries + 1`, in runs that no user decides on (a rejection
  writes failed without counting).
* `RunningStageSettles`: a row that says running settles, crash or not.
* `EveryRunStarts`: with a slot for everyone a run that was queued while the daemon was
  down or recovering starts, whatever the recovery does first. Serial draining delays, it
  does not starve; only the exception of another run of that drain keeps it back.
* `ClaimedRunSettles`: without a crash each claimed run reaches a settled status, waits at
  a gate (`Parked`), or is where an exception left it (`Thrown`): a prompt that could not
  be composed, or an issue that could not be blocked. Stages without a driver, without a
  route and with the blocked sentinel are among those that settle. A crash between two
  stages does leave a run running for ever: see the hazards.

Of the dispatch of issues:

* `OneDispatchedRun`: the watcher never queues a second run for an issue while one it
  queued is active. Runs triggered by users are excepted - `trigger` inserts without
  looking - and so are cancelled runs that their own chain wrote over.
* `DispatchIsFresh`: a run is queued on the row as it is, or on one that changed after
  `dispatch` read it; never on what an event or the sweep's list said.
* `OpenIssueGetsRun`: an issue that becomes dispatchable while the daemon is down, boots,
  has not listed the issues yet, or handles it without having read its row, gets a run.
  The exceptions are the changes in `missed`, until the row is read again.

Of worktrees and deploys:

* `UncommittedWorkStays`: no removal takes uncommitted work, although stages write
  between the checks and the removal; git's own refusal is what saves them.
* `DeployRowTellsTruth`: in whatever step a deploy stops, its row agrees with the remote,
  the pull request and the issue.
* `ArtifactsStayPut`, `ArtifactsAtHand`: the directory a stage uses is the one its
  earlier stages used, and exists, unless the run that named it has ended (the sweep
  judges an inherited directory by that run) or a failed insertion removed it. Both
  exceptions are behaviours of the code.
* `ActiveRowHasTree`: only a release that was stopped half-way leaves an active row
  without its tree.
* `EnvironmentSettles`: no environment of an ended run stays for ever without a reason:
  uncommitted changes, or a pull request whose row says open. Nothing in the code ever
  closes that row.

Of issues and comments:

* `NoLostUpdate`: users, the daemon's blocks and the automatic closing of epics all
  implement `VersionedRows`.
* `EpicClosesWithLastChild`, `OpenChildKeepsEpicOpen`: once no request is handled, an epic
  without an open child is closed, and one that was closed automatically has none. The
  accidents `LeftOpen` names are those the code does not repair: the request of a child was
  overtaken twice, lost its process or could not record its event; a child was deleted,
  or the epic reopened; a closed epic whose own event failed leaves its parent open.
* `CommentsNumberedInTurn`: the numbers of an issue's comments have no gap, although
  creations compute one number, fail at the index or after it, and comments are erased: an
  erased comment keeps its row, and a refused creation takes nothing.
* `CommentTrailComplete`: whichever of an edit and an erasure commits first, the body it
  replaces is in the trail.

Of the catalogue and of gates:

* `HistoryFollowsDriver`: a driver's revisions are its saves, in order.
* `SavedIsRecorded`: a save or revert of a skill that was answered as done is in the history
  with the version and content it wrote, and no version is there twice. A save that was
  answered with an error, or lost its process, may have changed the row all the same: the
  row and the revision are two statements without a transaction, which contradicts the
  comments quoted in section 6.
* `NoOrphans`: no binding and no stage's driver points nowhere, even if it was attached
  between count and deletion. A stage's persona has no foreign key and is excepted.
* `EffectiveIsDetermined`: no race of creations, renames and reverts leaves two rows for
  `LIMIT 1` to choose from.
* `BlameIsExact`: the failures behind a verdict suffice and are needed.
* `MendingHelps`: if no failure that counts is of severity block, no set of rules makes the
  verdict worse by passing, alternatives and nested groups included. (A failed rule of
  severity block speaks in place of all others; mended, the others are heard.)

**Bounds.** In `slots`, `pipeline` and `progress`, two runs and one slot are the smallest
instance in which a claim can be refused, a drain can find a run in flight and a
finish can free a slot for another; the properties are about one run or a pair. One
crash can fall between any two steps, and recovery and another run interleave after
it; a second crash meets the same kinds of state, since nothing of the first is
remembered but rows. `MaxStageRuns` bounds the rows of a run: beyond it the model
draws no outcome that repeats a stage, other than those the retry budget bounds. With
`MaxStageRuns = 1`, as in `slots`, the only second row is the one recovery makes; the
executor's own retries are in `progress`. `NumRuns` and `MaxCrashes` bound insertions and
crashes. `ChannelDrops` says whether the channel drops; it joins late in every run.

In `dispatch`, issues do not interact but through the sweep's order, so one issue
with two runs shows what a second run needs; `MaxActs` and `MaxOutages` let one edit
meet one trigger or cancel and one outage. In `environments`, a second run is what an
inherited directory needs; `MaxFaults = 1` puts one failing call or crash anywhere,
and what a failure leaves (`torn`, a row without its tree) is met by repairs and
sweeps after it. The batches of `issues` and `catalogue` are the requests that touch
common rows: three closings against an edit of their epic, for example, suffice for
two version conflicts in a row. Every safety property of a run is proved for every value of these
bounds (section 7; four of the orchestrator's for a daemon that sweeps at boot only, as
`slots` and `progress` have it), so the instances matter for liveness alone.

**Fairness.** In `progress`: weak fairness on `Deliver`, `Handle`, `Launch`, `Sweep`,
`DrainPending`, `StartDaemon` and `Join`. The event loop resumes every chain whose await
has returned; a driver ends, by itself or by the SIGKILL of `runDriver` at the
stage's `timeoutSec` (a stage without a timeout is assumed to end); Realtime
delivers while its channel is joined, which it is in the end; the supervisor restarts
the daemon. `Launch(c)` is fair as a whole: a chain has one `pc`, so a step that stays enabled
is taken, and no particular outcome is promised. Nothing obliges a user, the
periodic sweep, `recordPid` (fire and forget), a crash or a drop of the channel.

In `dispatch`: weak fairness on delivery, on each lane's dispatch, on the sweep, on
boot and start - the same event loop, Realtime and supervisor. The join of the channels
is not needed, since what precedes it is either read by the sweep or in `missed`. Nobody
is obliged to edit, to mend the config, or to end a run. In `environments`: weak fairness on the
steps of deploys, releases and sweeps, and on the passage of time (`Age`), since the
scheduler's timer goes on firing; nothing makes a stage end. `issues` and
`catalogue` state no liveness: a request that is not answered is `Vanish`.

## 6. Where documentation and code disagree

* **`CancelSticks`** (`stage-executor.ts:380`): the bookkeeping after a driver
  "must never overwrite that cancellation". The test is made once; a cancel that
  commits after it is overwritten by `completeRun`, which has no guard, and a run
  cancelled by its user can end completed, and deployed.
* **`ApprovedStageLaunches`** (`server/routers/pipeline.ts:507`): an approved stage
  is marked launching "so the orchestrator picks it up". Nothing reads that
  status: the stage waits for ever, its run keeps its slot.
* **`FreeSlotIsTaken`** (`event-orchestrator.ts:114`): every code path that flips
  a run's status goes through the same hook, and queued runs "are picked up
  immediately". A cancel completes the run in the web process; if it was held at
  a gate no chain is left to drain, and a queued run waits beside a free slot
  until another event comes.
* **`SweepSparesTheLiving`** (`docs/superpowers/specs/2026-04-24-r-daemon-design.md:27`):
  sweeps fail stage_runs "whose PIDs are dead". A row whose pid is not recorded yet
  counts as dead, so a periodic sweep can fail, and relaunch, a stage whose driver
  was spawned a moment ago.
* **`SweepTakesEndedOrStale`** (`docs/superpowers/specs/2026-04-22-r-runtime-design.md:370`):
  the scheduled sweep takes the environments of ended runs and stale ones. It takes
  every active row and asks git alone, where a branch on which nothing was committed
  yet counts as merged: the worktree of a run that has just started is removed.

The following are visible in the models, without a run of their own. The passing runs
state what the code does give in their place, and name the rest as exceptions.

* `core/orchestrator/event-orchestrator.ts:176` says that the drain of `start` catches the
  runs "inserted before the Realtime subscription was established". The drain is fired when
  `subscribe` has returned, and the channel joins some time after
  (`adapters/supabase/realtime.ts:52-69`): a run inserted between the two is announced to
  nobody and read by no drain, until another run ends or the daemon starts again.
  The same gap is between the sweep of the issue watcher and its channels
  (`issue-watcher.ts:122-142`). (`daemon = "started"` in `QueuedRunNotForgotten`, `missed` in
  `OpenIssueGetsRun`.)
* `core/db/revision.ts:6-8` and `core/services/skill.ts:222-228` say that the subquery for
  `MAX + 1` keeps concurrent saves from colliding. Under READ COMMITTED it does not; a
  driver is saved by the lock its transaction holds, a skill by nothing: its second
  saver gets the error of the unique index after the row has been saved, and the
  revision is missing (`AppendRevision`, `end = "lost"`).
* `core/services/issue-comment.ts:64` says that FOR UPDATE on the existing comments
  serializes creations. It does not show the waiter the new row; the unique index, which
  the comment calls the last resort, is what keeps numbers apart (`MayInsert`).
* `core/gates/types.ts:27` and `engine.ts:168` say a rule of severity block always holds. It
  never passes, but its action decides: with `onFail: proceed` it proceeds, and outranks a
  required rule that asks to abort. No property is stated of how severities rank; that is
  also why `MendingHelps` is about gates in which none of the failures blocks. An OR group
  without members fails without any failure, and the gate proceeds.
* `core/orchestrator/event-orchestrator.ts:201` skips a run that is in flight, and it is in
  flight until the answer of its refused claim has arrived: the drain of a slot freed in
  that moment passes it by, and it waits for the next run that ends (`Refused`).
* `docs/invariants.md:79` (invariant 12) asks for versions on all that can be edited
  concurrently. `stages.update` writes the columns of a stage without one (`SetDriver`,
  `SetPersona`, `SetGate`), and `approveStage` and `executeStage` write over whatever the row
  holds (`Decide`).
* `pipeline_stage.persona_id` is not a foreign key: a persona can be deleted under a
  stage, whose launch then throws (`ThrowAtPrompt` in `PipelineOrchestrator`).
* The orchestrator's pre-gate reads `gate_mode` only: a stage in mode `rules` is not held
  by its rules; `evaluateStageGate` is called by a router and by the manual runner alone.
* `trigger` inserts the run, then the stage it is to start at; a handler that comes
  between starts at the first stage and its row comes before the seed's.

## 7. Proofs

TLAPS proves the following for every value of the constants, under the named
assumption of each module, which gives the constants their types; that of
`IssueLifecycle` also says that the table at the start obeys the foreign key of parents.
Four theorems, marked *, have one hypothesis more, `NoPeriodicSweep`: the daemon sweeps at
boot only. That is how it ships (`FLUXAOS_DAEMON_RECOVERY_SWEEP_INTERVAL_MIN` is unset,
`src/scripts/daemon.ts:89`), and with a periodic sweep a run can get two drivers (run
`periodic_sweep`).

| Module | Theorem | Statement |
|---|---|---|
| `PipelineOrchestrator_proofs` | `TypeCorrect` | `Spec => []TypeOK` |
| `PipelineOrchestrator_claims` | `SlotsImplemented`, `DriversClaimed`, `SlotLimitHolds` | `ImplementsRunSlots`, `[]DriversAreClaimed`, `[]SlotLimit` |
| `PipelineOrchestrator_workers` | `CancelledRowStays`, `QueueNotForgotten`; *`OneDriverHolds`, `WorktreeHolds`, `DeployHolds`, `RetryBudgetHolds` | `CancelledRowFinal`, `QueuedRunNotForgotten`; `[]OneDriverPerRun`, `[]WorktreeHeldWhileDriven`, `[]DeployAtMostOnce`, `[]RetryBudget` |
| `IssueDispatch_proofs` | `TypeCorrect`, `OneDispatchedRunHolds`, `DispatchIsFreshHolds` | `[]TypeOK`, `[]OneDispatchedRun`, `DispatchIsFresh` |
| `Environments_proofs` | `TypeCorrect`, `UncommittedWorkStaysHolds`, `DeployRowTellsTruthHolds`, `ArtifactsStayPutHolds`, `ArtifactsAtHandHolds`, `ActiveRowHasTreeHolds` | each safety property of the run `environments` |
| `IssueLifecycle_proofs` | `TypeCorrect`, `NoLostUpdateHolds`, `CommentNumbersHold`, `CommentTrailHolds`, `OpenChildHolds`, `EpicClosesHolds` | `[]TypeOK`, `NoLostUpdate`, `[]CommentsNumberedInTurn`, `[]CommentTrailComplete`, `[]OpenChildKeepsEpicOpen`, `[]EpicClosesWithLastChild` |
| `Gates_proofs` | `BlameSufficient`, `BlameNecessary`, `MendingHarmless` | what the engine promises of every gate it accepts |
| `Catalogue_proofs` | `TypeCorrect`, `NoLostUpdateHolds`, `DriverHistoryHolds`, `SavedIsRecordedHolds`, `NoOrphansHolds`, `EffectiveIsDeterminedHolds`, `BlameIsExactHolds`, `MendingHelpsHolds` | each property of the run `catalogue` |

The arguments:

**PipelineOrchestrator, types.** `TypeOK` is not inductive: a launch writes the tables at
`chain[c].run`, which must be a run and not the 0 of an idle chain, and a recovery
launches the stage of the row it read, which must still exist. `TypeInv` adds
`ChainsRun` (a chain in the launch holds a run, a handler's chain holds its own) and
`StaleKnown` (a row a sweep has read is a row of its run). The argument has two
halves. Rows only grow (`RowsGrow`, from a lemma per operation of `RunService`), so
what a sweep has read stays a row; and the operators that move between chains
(`ContinueDrain`, `Return`, `Exit`, `Throw`, `Goto`) leave a chain alone, make it idle,
start it afresh or move the one it is given (`MovesTyped`, with a lemma each). Every
action is then a small step over those lemmas.

**PipelineOrchestrator, claims.** `DriversAreClaimed` and the refinement are proved
together, because each step's refinement needs that the run a chain works for was
claimed, and that persists because a step of `RunSlots` never unclaims. `ClaimInv` says
that a chain in the launch works for a claimed run, that a running row and a row read
by a sweep belong to one, that a driver does, and that a request concerns an inserted
run. `SlotLimit` then follows from the abstract steps alone (`SlotLimitStep`): the only
one that adds a running run is `Claim`.

**PipelineOrchestrator, workers.** No line of the code tests that a run has one worker: a
handler takes up pending runs, a sweep takes up runs with a row that says running, and
nothing compares the two. They are kept apart by what the rows say. `LoopInv` says whose
drain a loop is, `DownInv` that a crash leaves no worker and no driver, `RowsInv` which
row a worker holds and what it may say; these hold with any sweeps and give
`CancelledRowStays`, since each write of a row is one of fourteen named moves (`Move`: a
worker `Parks`, `Marks`, `Spawns`, `Settles`, ...) and none of them overwrites a
cancelled row whose driver was recorded; what users write is a cancel, a rejection, which
asks whether the row is cancelled, or an approval, which the property excepts. With the
sweep at boot only, `WorkInv` says of
each run (`RunOK`) that it has one worker, that a sweep still has one of its rows to look
at only while nobody works on it, that a row says running for the worker that holds it or
was left by a crash, that a living driver has its worker in `exec`, which keeps the
worktree - and that a deploy, or a failure the budget does not cover, comes when no stage
of the run will be started again (`Over`). That last part is what makes the deploy happen
once and the retries stay within the budget, together with `AttemptsInv`: the rows of a
stage are numbered without a repetition. The proof follows one run: a step by the chain
that works on it is a move from what `RunBefore` says to what `RunAfter` says, any other
step leaves the run as it is (`RunStays`).

**PipelineOrchestrator, the queue.** `QueuedRunNotForgotten` speaks of steps, and needs to know
where the chain of a pending run can be: `HandlerInv` says that a handler's chain holds its
own run and is never a sweep's, so with `ClaimInv` a run that waits and is not refused is
idle or on its way to its claim (`WaitingPlace`). Whatever reads the queue then takes it, or
finds it in flight and about to look; a loop that goes on hands its rest to the next
handler (`ContinueDrainLooks`), whose own loop is free because an idle run has none
(`LoopInv`); a chain that returns passes on the loop that awaited it (`ReturnLooks`); an
exception loses its own loop or sweep and no other (`ThrowLooks`). A daemon that is
`started` or `up` needs one of these; one that is down or boots has the drain of `start`
before it. It is the safety half of
`EveryRunStarts`, and holds with any sweeps, limits and pipelines.

**IssueDispatch.** Between the test for an active run and the insertion anything may
happen to the issue's runs but one thing: that a run the watcher queued becomes active.
`PhasesInv` ties what a run's chain may still write to its status (a chain that can
write an active status has an active run, or a cancelled one, which the property
excepts); `OneLane` says that one lane at a time handles an issue; `InsertInv` that
at the insertion no such run is held; `OneHeld` follows. `FreshInv` follows the row
that `dispatch` has read. Joining and losing the channels touches neither.

**Environments.** `TypeInv` says of each run where its chain may be (`PlaceOK`): in a stage
exactly as long as the run is running, in the deploy before the row is written, in the
release after. An insertion is alone with its tree: an environment with a path had its
branch made, git makes a branch once, and only an environment with a path is released
by anybody. `DeployOK` follows the deploy (what the forge knows at each await),
`DirsOK` the directories, `SweeperOK` the sweep. Each action either touches one run
(`Alone`, `OwnStep`) or leaves of every run what its invariant speaks of (`Quiet`). The
action properties come from `Careful`, which every step satisfies; `ActiveRowHasTree`
and `DeployRowTellsTruth` (`Tells`) are inductive on top.

**IssueLifecycle and Catalogue.** A row in the table has the version a request holds
only if it is still the row the request has read (`SeenInv`): versions grow, and a
deleted row never comes back (`RowOK`, `RequestOK`). That makes every guarded UPDATE a
`Replace` of `VersionedRows` and every other step a `Look`, `GiveUp`, `Insert`, `Delete` or
stutter. `EditInv` accounts for the bodies of comments; `NumbersInv` follows a number from
its computation to the insertion: its predecessor was in the table, and no comment leaves
the table. `History` and `Accounts` account for the revisions of drivers and skills, version
by version, and `AnswersInv` for the saves that were answered; `NamesUnique` gives that a
look-up has one answer; `AuditInv` that only gates the engine accepts are recorded.

**IssueLifecycle, epics.** Every step has one of ten fates (`StepFate`): it prepares,
refuses or touches, it makes the open children of one epic grow, shrink or shift, or the
request climbs, gathers, misses its close or vanishes. `OpenInv` is `OpenChildKeepsEpicOpen` with
the requests between their count and their close: what such a request has counted has
changed only by a child somebody opened since, and that is who the property excuses.
`EpicInv` says that an open epic over closed children has a request that answers for it:
one still on its way to it (`Chasing`), one whose event for the epic below failed
(`Unrecorded`), or one that has ended and is among the accidents (`Excused`); when no
request is handled only the last two are left, and `LeftOpen` names them. `KeyInv`, the
foreign key, is needed because a request climbs from a child to the epic that has it.

**Gates.** By the levels of groups, without induction: repairing failures keeps what
passes passing (`RepairedShape` and its consequences), an inner group whose failures
are repaired passes, hence a middle one, hence the gate. What fails effectively after a
repair did so before (`FailuresShrink`), so the worst of what is left weighs no more than
the worst there was (`MendingHarmless`).

**Model-checked only.** Liveness (`RunningStageSettles`, `EveryRunStarts`,
`ClaimedRunSettles`, `OpenIssueGetsRun`, `EnvironmentSettles`) is out of the prover's
reach, as is whatever needs ENABLED or induction over data. Every safety property of a
passing run has its theorem, and so has the safety half of `EveryRunStarts`.

## 8. What is not modelled

Each part has its reason in `PROJECT.json`.

* **Sequential code around the models**: the user interface (about a third of all lines),
  CLI, website, seeds, migrations and schema declarations, the read models and the thin
  CRUD of the other routers and catalogue services, configuration and cron rows (nothing
  in the repository fires a cron row), composition of prompts, validation of result
  documents. The models cover the lines where several actors meet; they cannot cover
  the lines where none do, so the share of the repository they map stays small.
* **Code nothing in production reaches**: agent executors (loops and fan-outs), the queue
  adapter, `onPrClosed`, `cleanupToMakeRoom` and forced removal in the cleanup service.
* **A second path**: the manual runner, a sequential program beside the daemon.
* **The inside of what is external**: git, the forges, Realtime and drivers appear as
  their outcomes, lost answers and refusals included.
* **Inside modelled parts**: the edit of a pipeline's stages under a run; two cleanup sweeps
  at once; states, types, priorities and labels of issues other than the
  deactivation of a state; roles and ownership tests everywhere.

## 9. Plan

Done: `PipelineOrchestrator`, `IssueDispatch`, `Environments` (isolation, cleanup and the
deploy bridge in one module, since they share the tree), `IssueLifecycle`, `Gates`,
`Catalogue`, and the proofs listed above. Left, in this order:

1. The stages of a pipeline edited, reordered or deleted while a run is between two of
   them, in `PipelineOrchestrator`; `createStageRun` as two steps, so that a seed and the
   first row of a handler may take one attempt number.
2. A daemon that is started by hand beside drivers that survived the last one.
