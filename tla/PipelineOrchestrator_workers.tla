--------------------- MODULE PipelineOrchestrator_workers ---------------------
(***************************************************************************)
(* Who works on a run, and on which of its rows.  Proved here, for every   *)
(* value of the constants: only an approval writes over a cancelled row,    *)
(* and a queued run is not forgotten; and, when the daemon recovers at boot*)
(* only, that a run has one driver at a time, which keeps its worktree, is *)
(* deployed once, and stays within its retries.                            *)
(*                                                                         *)
(* A run may be taken up by its handler and by a sweep, in that order and  *)
(* with a crash between.  What keeps the two apart is never tested by the  *)
(* code in one place: a handler takes up pending runs only, a sweep only   *)
(* runs with a row that says running, the rows of a run that say running   *)
(* are those of its worker, and a crash leaves neither workers nor drivers.*)
(***************************************************************************)
EXTENDS PipelineOrchestrator_claims

\* The daemon starts the periodic sweep only when its interval is set
\* (FLUXAOS_DAEMON_RECOVERY_SWEEP_INTERVAL_MIN), which it is not by default.
NoPeriodicSweep == Sweeps = {Boot}

-------------------------------------------------------------------------------
(* Loops.  A loop that awaits a handler belongs to a sweep that awaits it, *)
(* or to nobody, and no sweep has two.                                     *)

LoopsOK(ch, lp) ==
    /\ \A r \in Runs : ch[r].pc = "idle" => lp[r] = NoLoop
    /\ \A r \in Runs : lp[r].owner # NoSweep => ch[lp[r].owner].pc = "await"
    /\ \A r, q \in Runs : lp[r].owner = lp[q].owner /\ lp[r].owner # NoSweep => r = q

LoopInv == LoopsOK(chain, loop)

Off(c) == chain[c].pc \notin WorkingPc

\* Only c moves from where it works, or to where it would.
OthersStay(c) ==
    \A d \in Callers : d # c => \/ chain'[d] = chain[d]
                                \/ Off(d) /\ chain'[d].pc \notin WorkingPc

LEMMA CallerFacts ==
    /\ NoSweep \notin Callers /\ Runs \subseteq Callers /\ Sweeps \subseteq Callers
    /\ Boot \in Sweeps
    /\ \A r \in Runs : r \notin Sweeps
BY OrchestratorAssumption DEF Callers

LEMMA ContinueDrainLoops ==
    ASSUME NEW todo \in SUBSET Runs, NEW owner \in Sweeps \union {NoSweep},
           NEW ch \in [Callers -> Chain], NEW lp \in [Runs -> Loop], NEW fired,
           LoopsOK(ch, lp),
           owner # NoSweep => /\ ch[owner].pc = "await"
                              /\ \A r \in Runs : lp[r].owner # owner,
           ContinueDrain(todo, owner, ch, lp, fired)
    PROVE  /\ LoopInv' /\ daemon' \in {daemon, "started"}
           /\ \A d \in Callers : \/ chain'[d] = ch[d]
                                 \/ /\ ch[d].pc \in {"idle", "await"}
                                    /\ chain'[d].pc \in {"idle", "fetch"}
<1>1. CASE EndDrain(owner, ch, lp, fired)
  <2>1. /\ loop' = lp
        /\ \A c \in Callers : chain'[c] = IF c = owner THEN Idle ELSE ch[c]
    BY <1>1 DEF EndDrain
  <2>2. \A r \in Runs : chain'[r] = ch[r]
    BY <2>1, CallerFacts
  <2>3. \A r \in Runs : lp[r].owner # NoSweep => chain'[lp[r].owner] = ch[lp[r].owner]
    <3> SUFFICES ASSUME NEW r \in Runs, lp[r].owner # NoSweep
                 PROVE  chain'[lp[r].owner] = ch[lp[r].owner]
      OBVIOUS
    <3>1. lp[r].owner \in Sweeps /\ lp[r].owner \in Callers
      BY CallerFacts DEF Loop
    <3>2. lp[r].owner # owner
      BY <3>1, CallerFacts
    <3> QED BY <2>1, <3>1, <3>2
  <2>4. LoopInv'
    BY <2>1, <2>2, <2>3 DEF LoopInv, LoopsOK
  <2>5. daemon' \in {daemon, "started"}
    BY <1>1 DEF EndDrain
  <2> QED BY <2>1, <2>4, <2>5, IdleType, CallerFacts
<1>2. ASSUME NEW r \in todo, ~InFlight(ch, r),
             chain' = [ch EXCEPT ![r] = Handling(r)],
             loop' = [lp EXCEPT ![r] = [todo |-> {q \in todo : q > r}, owner |-> owner]],
             daemon' = daemon
      PROVE  /\ LoopInv' /\ daemon' \in {daemon, "started"}
             /\ \A d \in Callers : \/ chain'[d] = ch[d]
                                   \/ /\ ch[d].pc \in {"idle", "await"}
                                      /\ chain'[d].pc \in {"idle", "fetch"}
  <2>1. r \in Runs /\ r \in Callers /\ ch[r].pc = "idle"
    BY <1>2, CallerFacts DEF InFlight
  <2>2. /\ chain'[r].pc = "fetch"
        /\ \A d \in Callers : d # r => chain'[d] = ch[d]
    BY <1>2, <2>1, HandlingType
  <2>3. /\ loop'[r].owner = owner
        /\ \A q \in Runs : q # r => loop'[q] = lp[q]
    BY <1>2, <2>1
  <2>4. \A q \in Runs : lp[q].owner # NoSweep => /\ lp[q].owner \in Callers
                                                 /\ lp[q].owner # r
    BY <2>1, CallerFacts DEF Loop
  <2>5. owner # NoSweep => owner \in Callers /\ owner # r
    BY <2>1, CallerFacts
  <2>6. \A q \in Runs : chain'[q].pc = "idle" => loop'[q] = NoLoop
    BY <2>1, <2>2, <2>3, CallerFacts DEF LoopsOK
  <2>7. \A q \in Runs : loop'[q].owner # NoSweep => chain'[loop'[q].owner].pc = "await"
    BY <2>1, <2>2, <2>3, <2>4, <2>5 DEF LoopsOK
  <2>8. \A p, q \in Runs : loop'[p].owner = loop'[q].owner /\ loop'[p].owner # NoSweep => p = q
    BY <2>1, <2>3 DEF LoopsOK
  <2>9. LoopInv'
    BY <2>6, <2>7, <2>8 DEF LoopInv, LoopsOK
  <2> QED BY <1>2, <2>1, <2>2, <2>9
<1> QED BY <1>1, <1>2 DEF ContinueDrain

\* A chain that returns leaves the others where they work.
LEMMA ReturnLoops ==
    ASSUME TypeOK, LoopInv, NEW c \in Callers, NEW fired, chain[c].pc # "await",
           Return(c, fired)
    PROVE  /\ LoopInv' /\ OthersStay(c) /\ chain'[c].pc \notin WorkingPc
           /\ daemon' \in {daemon, "started"}
<1>0. chain \in [Callers -> Chain] /\ loop \in [Runs -> Loop]
  BY DEF TypeOK
<1>1. CASE c \in Runs
  <2> DEFINE ch == [chain EXCEPT ![c] = Idle]
             lp == [loop EXCEPT ![c] = NoLoop]
             owner == loop[c].owner
  <2>1. /\ loop[c].todo \in SUBSET Runs /\ owner \in Sweeps \union {NoSweep}
        /\ ch \in [Callers -> Chain] /\ lp \in [Runs -> Loop]
    BY <1>0, <1>1, IdleType DEF Loop
  <2>2. /\ ch[c] = Idle /\ lp[c] = NoLoop
        /\ \A d \in Callers : d # c => ch[d] = chain[d]
        /\ \A q \in Runs : q # c => lp[q] = loop[q]
    BY <1>0, <1>1
  <2>3. NoLoop.owner = NoSweep /\ Idle.pc = "idle"
    BY DEF NoLoop, Idle
  <2>4. \A q \in Runs : loop[q].owner # NoSweep => /\ loop[q].owner \in Callers
                                                   /\ loop[q].owner # c
    BY <1>0, <1>1, CallerFacts DEF Loop
  <2>5. ContinueDrain(loop[c].todo, owner, ch, lp, fired)
    BY <1>1 DEF Return
  <2>6. LoopsOK(ch, lp)
    <3> HIDE DEF ch, lp
    <3> QED BY <1>1, <2>2, <2>3, <2>4, CallerFacts DEF LoopInv, LoopsOK
  <2>7. owner # NoSweep => /\ ch[owner].pc = "await"
                           /\ \A r \in Runs : lp[r].owner # owner
    <3> HIDE DEF ch, lp
    <3> QED BY <1>1, <2>2, <2>3, <2>4, CallerFacts DEF LoopInv, LoopsOK
  <2> HIDE DEF ch, lp, owner
  <2>8. /\ LoopInv' /\ daemon' \in {daemon, "started"}
        /\ \A d \in Callers : \/ chain'[d] = ch[d]
                              \/ /\ ch[d].pc \in {"idle", "await"}
                                 /\ chain'[d].pc \in {"idle", "fetch"}
    BY <2>1, <2>5, <2>6, <2>7, ContinueDrainLoops
  <2> QED BY <2>2, <2>3, <2>8 DEF OthersStay, Off, WorkingPc, LaunchPc
<1>2. CASE c \notin Runs
  <2>1. /\ chain'[c] = [Idle EXCEPT !.pc = "sweep"] /\ loop' = loop /\ daemon' = daemon
        /\ \A d \in Callers : d # c => chain'[d] = chain[d]
    BY <1>0, <1>2 DEF Return
  <2>2. chain'[c].pc = "sweep"
    BY <2>1, GoSweepType
  <2>3. \A q \in Runs : loop[q].owner # NoSweep => /\ loop[q].owner \in Callers
                                                   /\ loop[q].owner # c
    BY <1>0, CallerFacts DEF Loop, LoopInv, LoopsOK
  <2>4. LoopInv'
    BY <1>2, <2>1, <2>3, CallerFacts DEF LoopInv, LoopsOK
  <2> QED BY <2>1, <2>2, <2>4 DEF OthersStay, WorkingPc, LaunchPc
<1> QED BY <1>1, <1>2

LEMMA ExitLoops ==
    ASSUME Exit
    PROVE  /\ LoopInv' /\ daemon' = "down"
           /\ \A d \in Callers : chain'[d].pc = "idle"
           /\ \A s \in Sweeps : stale'[s] = {}
           /\ \A r \in Runs : proc'[r] = {}
<1>1. NoLoop.owner = NoSweep /\ Idle.pc = "idle"
  BY DEF NoLoop, Idle
<1> QED BY <1>1, CallerFacts DEF Exit, LoopInv, LoopsOK

\* An exception ends the process, or its own chain and what awaits it.
LEMMA ThrowLoops ==
    ASSUME TypeOK, LoopInv, NEW c \in Callers, NEW fired,
           chain[c].pc # "await", Throw(c, fired), ~Exit
    PROVE  /\ LoopInv' /\ OthersStay(c) /\ chain'[c].pc \notin WorkingPc
           /\ \A s \in Sweeps : stale'[s] \subseteq stale[s]
           /\ UNCHANGED <<daemon, proc>>
<1> DEFINE top == IF c \in Runs THEN loop[c].owner ELSE c
<1>1. /\ \A d \in Callers : chain'[d] = IF d \in {c, top} THEN Idle ELSE chain[d]
      /\ \A r \in Runs : loop'[r] = IF r = c THEN NoLoop ELSE loop[r]
      /\ \A s \in Sweeps : stale'[s] = IF s = top THEN {} ELSE stale[s]
      /\ UNCHANGED <<daemon, proc>>
  BY DEF Throw
<1>2. NoLoop.owner = NoSweep /\ Idle.pc = "idle"
  BY DEF NoLoop, Idle
<1>3. \A q \in Runs : loop[q].owner # NoSweep => /\ loop[q].owner \in Callers
                                                 /\ loop[q].owner \notin Runs
                                                 /\ loop[q].owner # c
  BY CallerFacts DEF TypeOK, Loop, LoopInv, LoopsOK
<1>4. \A q \in Runs : q # c /\ loop[q].owner # NoSweep => loop[q].owner # top
  BY <1>3 DEF LoopInv, LoopsOK
<1>5. top # c => c \in Runs
  OBVIOUS
<1>6. top # c /\ top \in Callers => chain[top].pc = "await" /\ top \notin Runs
  BY <1>3, <1>5, CallerFacts DEF LoopInv, LoopsOK
<1> HIDE DEF top
<1>7. LoopInv'
  BY <1>1, <1>2, <1>3, <1>4, <1>6, CallerFacts DEF LoopInv, LoopsOK
<1>8. OthersStay(c) /\ chain'[c].pc \notin WorkingPc
  BY <1>1, <1>2, <1>6 DEF OthersStay, Off, WorkingPc, LaunchPc
<1> QED BY <1>1, <1>7, <1>8

\* A chain that moves by itself, away from neither end of a loop.
LEMMA GotoLoops ==
    ASSUME TypeOK, LoopInv, NEW c \in Callers, NEW next, Goto(c, next),
           chain[c].pc # "await", c \in Runs => next.pc # "idle"
    PROVE  /\ LoopInv' /\ OthersStay(c) /\ chain'[c] = next
           /\ \A d \in Callers : d # c => chain'[d] = chain[d]
           /\ UNCHANGED daemon
<1>1. /\ chain'[c] = next /\ loop' = loop /\ daemon' = daemon
      /\ \A d \in Callers : d # c => chain'[d] = chain[d]
  BY DEF Goto, TypeOK
<1>2. \A q \in Runs : loop[q].owner # NoSweep => /\ loop[q].owner \in Callers
                                                 /\ loop[q].owner # c
  BY CallerFacts DEF TypeOK, Loop, LoopInv, LoopsOK
<1>3. LoopInv'
  BY <1>1, <1>2, CallerFacts DEF LoopInv, LoopsOK
<1> QED BY <1>1, <1>3 DEF OthersStay

-------------------------------------------------------------------------------
(* Steps, seen from the run they are about. *)

\* The process has ended, its drivers with it.
Gone ==
    /\ \A d \in Callers : chain'[d].pc = "idle"
    /\ \A s \in Sweeps : stale'[s] = {}
    /\ \A r \in Runs : proc'[r] = {}

\* Without a process there are neither chains nor rows to sweep.
DownInv == daemon = "down" => /\ \A d \in Callers : chain[d].pc = "idle"
                              /\ \A s \in Sweeps : stale[s] = {}

StaleShrinks == \A s \in Sweeps : stale'[s] \subseteq stale[s]

\* A step of the chain c on the run r concerns no other chain and no other run.
OwnStep(c, r) ==
    /\ LoopInv'
    /\ daemon' = "down" => Gone
    /\ Gone \/ /\ OthersStay(c)
               /\ \A q \in Runs : q # r => proc'[q] = proc[q]
    /\ StaleShrinks
    /\ chain'[c].pc \in WorkingPc => chain'[c].run = r
    /\ \A q \in Runs : q # r => /\ rows'[q] = rows[q]
                                /\ env'[q] = env[q] /\ deployed'[q] = deployed[q]

\* The steps of a chain that works on a run.
Work(c) == Launch(c) \/ PidRecorded(c) \/ (c \in Runs /\ ChooseStage(c))

LEMMA WorkerFacts ==
    ASSUME TypeInv, NEW c \in Callers, Work(c)
    PROVE  /\ chain[c].pc \in WorkingPc /\ RunOf(c) \in Runs /\ RunOf(c) = chain[c].run
           /\ chain[c] \in Chain /\ rows[RunOf(c)] \in Seq(StageRun)
<1>1. chain[c].pc \in WorkingPc
  BY DEF Work, Launch, CreateRow, HoldAtGate, RefuseNoDriver, AcquireEnv, MarkRunning,
         SpawnDriver, DriverExit, Settle, StageFailed, StageCompleted, FinishRun,
         TerminalHook, PidRecorded, ChooseStage, RefuseNoArtifacts, ThrowAtPrompt, Acquired,
         PassGate, At, WorkingPc, LaunchPc
<1>2. chain[c].run \in Runs
  BY <1>1, WorkerRuns
<1> QED BY <1>1, <1>2 DEF RunOf, TypeInv, TypeOK

\* Writing the rows of one run.
LEMMA WriteElsewhere ==
    ASSUME TypeOK, NEW r \in Runs, NEW rs, WriteRows(r, rs)
    PROVE  rows'[r] = rs /\ \A q \in Runs : q # r => rows'[q] = rows[q]
BY DEF WriteRows, TypeOK

LEMMA WorkIsOwn ==
    ASSUME TypeInv, LoopInv, DownInv, NEW c \in Callers, Work(c)
    PROVE  OwnStep(c, RunOf(c))
<1> DEFINE r == RunOf(c)
<1>0. /\ TypeOK /\ r \in Runs /\ r = chain[c].run /\ chain[c].pc \in WorkingPc
      /\ chain[c] \in Chain /\ chain[c].pc # "await"
  BY WorkerFacts DEF TypeInv, WorkingPc, LaunchPc
<1>1. daemon # "down"
  BY <1>0 DEF DownInv, WorkingPc, LaunchPc
<1> DEFINE Elsewhere == \A q \in Runs : q # r => /\ rows'[q] = rows[q]
                                                 /\ env'[q] = env[q]
                                                 /\ deployed'[q] = deployed[q]
           Procs == \A q \in Runs : q # r => proc'[q] = proc[q]
<1>goto. ASSUME NEW next, Goto(c, next), next.run = chain[c].run, next.pc \in WorkingPc,
                StaleShrinks, Procs, Elsewhere
         PROVE  OwnStep(c, r)
  <2>1. next.pc # "idle"
    BY <1>goto DEF WorkingPc, LaunchPc
  <2>2. LoopInv' /\ OthersStay(c) /\ chain'[c] = next /\ daemon' = daemon
    BY <1>0, <1>goto, <2>1, GotoLoops
  <2> QED BY <1>0, <1>1, <1>goto, <2>2 DEF OwnStep
<1>to. ASSUME NEW pc \in LaunchPc, NEW arg, To(c, pc, arg),
              StaleShrinks, Procs, Elsewhere
       PROVE  OwnStep(c, r)
  <2> DEFINE next == [chain[c] EXCEPT !.pc = pc, !.arg = arg]
  <2>1. next.run = chain[c].run /\ next.pc \in WorkingPc
    BY <1>0 DEF Chain, WorkingPc
  <2>2. Goto(c, next)
    BY <1>to DEF To
  <2> HIDE DEF next
  <2> QED BY <1>to, <1>goto, <2>1, <2>2
<1>return. ASSUME NEW fired, Return(c, fired), StaleShrinks, Procs, Elsewhere
           PROVE  OwnStep(c, r)
  BY <1>0, <1>1, <1>return, ReturnLoops DEF OwnStep
<1>throw. ASSUME NEW fired, Throw(c, fired), Elsewhere
          PROVE  OwnStep(c, r)
  <2>1. CASE Exit
    BY <1>throw, <2>1, ExitLoops DEF OwnStep, Gone, StaleShrinks, WorkingPc, LaunchPc
  <2>2. CASE ~Exit
    BY <1>0, <1>1, <1>throw, <2>2, ThrowLoops DEF OwnStep, StaleShrinks
  <2> QED BY <2>1, <2>2
<1>write. ASSUME NEW rs, WriteRows(r, rs), UNCHANGED <<env, deployed>>
          PROVE  Elsewhere
  BY <1>0, <1>write, WriteElsewhere
<1>2. CASE CreateRow(c)
  <2> DEFINE next == [chain[c] EXCEPT !.pc = "gate", !.row = Len(rows[r]) + 1]
  <2>1. next.run = chain[c].run /\ next.pc \in WorkingPc
    BY <1>0 DEF Chain, WorkingPc, LaunchPc
  <2>2. Goto(c, next) /\ StaleShrinks /\ Procs /\ Elsewhere
    BY <1>2, <1>write DEF CreateRow, StaleShrinks
  <2> HIDE DEF next
  <2> QED BY <2>1, <2>2, <1>goto
<1>3. CASE HoldAtGate(c)
  BY <1>3, <1>write, <1>return DEF HoldAtGate, StaleShrinks
<1>4. CASE RefuseNoDriver(c)
  BY <1>4, <1>write, <1>to DEF RefuseNoDriver, StaleShrinks, LaunchPc
<1>acquired. ASSUME Acquired(c)
             PROVE  \A q \in Runs : q # r => env'[q] = env[q]
  BY <1>0, <1>acquired DEF Acquired, TypeOK
<1>5. CASE AcquireEnv(c)
  <2>1. Elsewhere /\ StaleShrinks /\ Procs
    BY <1>5, <1>acquired DEF AcquireEnv, StaleShrinks
  <2> QED BY <1>5, <2>1, <1>to DEF AcquireEnv, LaunchPc
<1>16. CASE RefuseNoArtifacts(c)
  <2>1. \A q \in Runs : q # r => rows'[q] = rows[q]
    BY <1>0, <1>16, WriteElsewhere DEF RefuseNoArtifacts
  <2>2. Elsewhere /\ StaleShrinks /\ Procs
    BY <1>16, <2>1, <1>acquired DEF RefuseNoArtifacts, StaleShrinks
  <2> QED BY <1>16, <2>2, <1>to DEF RefuseNoArtifacts, LaunchPc
<1>17. CASE ThrowAtPrompt(c)
  <2>1. Elsewhere
    BY <1>17, <1>acquired DEF ThrowAtPrompt
  <2> QED BY <1>17, <2>1, <1>throw DEF ThrowAtPrompt
<1>6. CASE MarkRunning(c)
  BY <1>6, <1>write, <1>to DEF MarkRunning, StaleShrinks, LaunchPc
<1>7. CASE SpawnDriver(c)
  <2>1. Elsewhere /\ StaleShrinks /\ Procs
    BY <1>0, <1>7 DEF SpawnDriver, dbVars, StaleShrinks, TypeOK
  <2> QED BY <1>7, <2>1, <1>to DEF SpawnDriver, LaunchPc
<1>8. CASE DriverExit(c)
  <2>1. Elsewhere /\ StaleShrinks /\ Procs
    BY <1>0, <1>8 DEF DriverExit, dbVars, StaleShrinks, TypeOK
  <2> QED BY <1>8, <2>1, <1>to DEF DriverExit, LaunchPc
<1>9. CASE Settle(c)
  <2>1. Elsewhere /\ StaleShrinks /\ Procs
    BY <1>9 DEF Settle, dbVars, StaleShrinks
  <2>2. \E pc \in {"finish", "failed", "done"}, arg \in {"cancelled", ""} \union Verdicts :
            To(c, pc, arg)
    BY <1>9 DEF Settle, Verdicts
  <2> QED BY <2>1, <2>2, <1>to DEF LaunchPc
<1>10. CASE StageFailed(c)
  <2>1. Elsewhere /\ StaleShrinks /\ Procs
    BY <1>10, <1>write DEF StageFailed, StaleShrinks
  <2>2. CASE To(c, "finish", "failed")
    BY <2>1, <2>2, <1>to DEF LaunchPc
  <2>3. CASE Goto(c, [chain[c] EXCEPT !.pc = "create", !.row = 0])
    <3> DEFINE next == [chain[c] EXCEPT !.pc = "create", !.row = 0]
    <3>1. next.run = chain[c].run /\ next.pc \in WorkingPc
      BY <1>0 DEF Chain, WorkingPc, LaunchPc
    <3>2. Goto(c, next)
      BY <2>3
    <3> HIDE DEF next
    <3> QED BY <2>1, <3>1, <3>2, <1>goto
  <2> QED BY <1>10, <2>2, <2>3 DEF StageFailed
<1>11. CASE StageCompleted(c)
  <2>1. Elsewhere
    BY <1>11, <1>write DEF StageCompleted
  <2>2. CASE Throw(c, 0)
    BY <2>1, <2>2, <1>throw
  <2>3. CASE UNCHANGED <<proc, stale, events>> /\
             \E arg \in {"failed", "completed", "blocked", "dead_end"} : To(c, "finish", arg)
    BY <2>1, <2>3, <1>to DEF StaleShrinks, LaunchPc
  <2>4. ASSUME NEW s \in Stages, UNCHANGED <<proc, stale, events>>,
               Goto(c, [chain[c] EXCEPT !.pc = "create", !.row = 0, !.stage = s, !.arg = ""])
        PROVE  OwnStep(c, r)
    <3> DEFINE next == [chain[c] EXCEPT !.pc = "create", !.row = 0, !.stage = s, !.arg = ""]
    <3>1. next.run = chain[c].run /\ next.pc \in WorkingPc
      BY <1>0 DEF Chain, WorkingPc, LaunchPc
    <3>2. Goto(c, next) /\ StaleShrinks /\ Procs
      BY <2>4 DEF StaleShrinks
    <3> HIDE DEF next
    <3> QED BY <2>1, <3>1, <3>2, <1>goto
  <2> QED BY <1>11, <2>2, <2>3, <2>4 DEF StageCompleted
<1>12. CASE FinishRun(c)
  BY <1>12, <1>to DEF FinishRun, StaleShrinks, LaunchPc
<1>13. CASE TerminalHook(c)
  <2>1. Elsewhere
    BY <1>0, <1>13 DEF TerminalHook, TypeOK
  <2>2. CASE Throw(c, 1)
    BY <2>1, <2>2, <1>throw
  <2>3. CASE Return(c, 1) /\ UNCHANGED <<proc, stale, events>>
    BY <2>1, <2>3, <1>return DEF StaleShrinks
  <2> QED BY <1>13, <2>2, <2>3 DEF TerminalHook
<1>14. CASE PidRecorded(c)
  <2>1. Elsewhere /\ StaleShrinks /\ Procs /\ UNCHANGED <<chain, loop, daemon>>
    BY <1>14, <1>write DEF PidRecorded, StaleShrinks
  <2> QED BY <1>0, <1>1, <2>1 DEF OwnStep, OthersStay, LoopInv
<1>15. CASE c \in Runs /\ ChooseStage(c)
  <2>1. Elsewhere /\ StaleShrinks /\ Procs
    BY <1>15 DEF ChooseStage, dbVars, StaleShrinks
  <2>2. \E next : Goto(c, next) /\ next.run = chain[c].run /\ next.pc \in WorkingPc
    <3>1. LET next == [chain[c] EXCEPT !.pc = "create", !.stage = FirstStage] IN
            next.run = chain[c].run /\ next.pc = "create"
      BY <1>0 DEF Chain
    <3>2. \A i : LET next == [chain[c] EXCEPT !.pc = "gate", !.row = i,
                                              !.stage = rows[c][i].stage] IN
            next.run = chain[c].run /\ next.pc = "gate"
      BY <1>0 DEF Chain
    <3> QED BY <1>15, <3>1, <3>2 DEF ChooseStage, WorkingPc, LaunchPc
  <2> QED BY <2>1, <2>2, <1>goto
<1> QED
  BY <1>2, <1>3, <1>4, <1>5, <1>6, <1>7, <1>8, <1>9, <1>10, <1>11, <1>12, <1>13, <1>14,
     <1>15, <1>16, <1>17 DEF Work, Launch

\* Steps that concern neither a worker nor a row.
AllStay == \A d \in Callers : \/ chain'[d] = chain[d]
                              \/ Off(d) /\ chain'[d].pc \notin WorkingPc

StillStep ==
    /\ LoopInv'
    /\ daemon' = "down" => Gone
    /\ Gone \/ (AllStay /\ proc' = proc)
    /\ StaleShrinks
    /\ UNCHANGED <<rows, env, deployed>>

\* A chain that is away from work and stays away.
LEMMA AwayStays ==
    ASSUME NEW c \in Callers, Off(c), OthersStay(c), chain'[c].pc \notin WorkingPc
    PROVE  AllStay
BY DEF AllStay, OthersStay

LEMMA HandlerIsStill ==
    ASSUME TypeInv, LoopInv, DownInv, NEW r \in Runs,
           \/ Deliver(r) \/ Fetch(r) \/ FailStageless(r) \/ Denied(r)
           \/ TryAcquireRunningSlot(r) /\ ~CanAcquire(runStatus, r)
    PROVE  StillStep
<1>0. /\ TypeOK /\ r \in Callers /\ chain[r] \in Chain
      /\ chain \in [Callers -> Chain] /\ loop \in [Runs -> Loop]
  BY CallerFacts DEF TypeInv, TypeOK
<1>away. ASSUME chain[r].pc \in {"fetch", "stageless", "slot", "denied"}
         PROVE  daemon # "down" /\ chain[r].pc # "await" /\ Off(r)
  BY <1>0, <1>away DEF DownInv, Off, WorkingPc, LaunchPc
<1>return. ASSUME Return(r, 0), chain[r].pc \in {"fetch", "stageless", "denied"}
           PROVE  LoopInv' /\ AllStay /\ daemon' # "down"
  BY <1>0, <1>return, <1>away, ReturnLoops, AwayStays
<1>goto. ASSUME NEW pc \in {"stageless", "slot", "denied"}, Goto(r, [chain[r] EXCEPT !.pc = pc]),
                chain[r].pc \in {"fetch", "slot"}
         PROVE  LoopInv' /\ AllStay /\ daemon' # "down"
  <2>1. [chain[r] EXCEPT !.pc = pc].pc = pc
    BY <1>0 DEF Chain
  <2>2. pc # "idle" /\ pc \notin WorkingPc
    BY DEF WorkingPc, LaunchPc
  <2> DEFINE next == [chain[r] EXCEPT !.pc = pc]
  <2> HIDE DEF next
  <2>3. LoopInv' /\ OthersStay(r) /\ chain'[r] = next /\ daemon' = daemon
    BY <1>0, <1>goto, <1>away, <2>1, <2>2, GotoLoops DEF next
  <2> QED BY <1>0, <1>goto, <1>away, <2>1, <2>2, <2>3, AwayStays DEF next
<1>1. CASE Deliver(r)
  <2>1. /\ UNCHANGED <<rows, env, deployed, proc, daemon, loop, stale>> /\ daemon = "up"
        /\ \/ chain' = chain
           \/ chain[r].pc = "idle" /\ chain' = [chain EXCEPT ![r] = Handling(r)]
    BY <1>1 DEF Deliver, dbVars, InFlight
  <2>2. CASE chain' = chain
    BY <2>1, <2>2 DEF StillStep, LoopInv, AllStay, StaleShrinks
  <2>3. CASE chain[r].pc = "idle" /\ chain' = [chain EXCEPT ![r] = Handling(r)]
    <3>1. /\ chain'[r].pc = "fetch"
          /\ \A d \in Callers : d # r => chain'[d] = chain[d]
      BY <1>0, <2>3, HandlingType
    <3>2. AllStay
      BY <2>3, <3>1 DEF AllStay, Off, WorkingPc, LaunchPc
    <3>3. \A q \in Runs : loop[q].owner # NoSweep => /\ loop[q].owner \in Callers
                                                     /\ loop[q].owner # r
      BY <1>0, CallerFacts DEF Loop
    <3>4. LoopInv'
      BY <2>1, <3>1, <3>3, CallerFacts DEF LoopInv, LoopsOK
    <3> QED BY <2>1, <3>2, <3>4 DEF StillStep, StaleShrinks
  <2> QED BY <2>1, <2>2, <2>3
<1>2. CASE Fetch(r)
  <2> DEFINE pc == IF r \in Stageless THEN "stageless" ELSE "slot"
  <2>1. CASE Return(r, 0)
    BY <1>2, <1>return, <2>1 DEF Fetch, dbVars, StillStep, StaleShrinks
  <2>2. CASE Goto(r, [chain[r] EXCEPT !.pc = pc])
    BY <1>2, <1>goto, <2>2 DEF Fetch, dbVars, StillStep, StaleShrinks
  <2> QED BY <1>2, <2>1, <2>2 DEF Fetch
<1>3. CASE Denied(r)
  BY <1>3, <1>return DEF Denied, dbVars, StillStep, StaleShrinks
<1>4. CASE TryAcquireRunningSlot(r) /\ ~CanAcquire(runStatus, r)
  BY <1>4, <1>goto DEF TryAcquireRunningSlot, StillStep, StaleShrinks
<1>5. CASE FailStageless(r)
  BY <1>5, <1>return DEF FailStageless, StillStep, StaleShrinks
<1> QED BY <1>1, <1>2, <1>3, <1>4, <1>5

LEMMA DaemonIsStill ==
    ASSUME TypeInv, LoopInv, DownInv, DrainPending \/ Crash \/ Join \/ Disconnect
    PROVE  StillStep
<1>1. CASE DrainPending
  <2>1. /\ PendingRuns(runStatus) \in SUBSET Runs /\ LoopsOK(chain, loop)
        /\ chain \in [Callers -> Chain] /\ loop \in [Runs -> Loop]
    BY DEF PendingRuns, TypeInv, TypeOK, LoopInv
  <2>2. ContinueDrain(PendingRuns(runStatus), NoSweep, chain, loop, -1)
    BY <1>1 DEF DrainPending
  <2>3. /\ LoopInv' /\ daemon' \in {daemon, "started"}
        /\ \A d \in Callers : \/ chain'[d] = chain[d]
                              \/ /\ chain[d].pc \in {"idle", "await"}
                                 /\ chain'[d].pc \in {"idle", "fetch"}
    BY <2>1, <2>2, ContinueDrainLoops
  <2>4. AllStay
    BY <2>3 DEF AllStay, Off, WorkingPc, LaunchPc
  <2> QED BY <1>1, <2>3, <2>4 DEF DrainPending, dbVars, StillStep, StaleShrinks
<1>2. CASE Crash
  BY <1>2, ExitLoops DEF Crash, dbVars, StillStep, StaleShrinks, Gone
<1>3. CASE Join \/ Disconnect
  BY <1>3 DEF Join, Disconnect, dbVars, StillStep, StaleShrinks, LoopInv, AllStay
<1> QED BY <1>1, <1>2, <1>3

\* A sweep that comes to its end.
LEMMA SweepIsStill ==
    ASSUME TypeInv, LoopInv, DownInv, NEW s \in Sweeps, SweepEnd(s) \/ SweepDrain(s)
    PROVE  StillStep
<1>0. /\ TypeOK /\ s \in Callers /\ s \notin Runs /\ chain \in [Callers -> Chain]
      /\ loop \in [Runs -> Loop]
  BY CallerFacts DEF TypeInv, TypeOK
<1>1. CASE SweepEnd(s)
  <2>1. chain[s].pc = "sweep" /\ chain'[s].pc = "drain" /\ daemon # "down"
    BY <1>0, <1>1 DEF SweepEnd, At, Idle, DownInv
  <2>2. /\ UNCHANGED <<rows, env, deployed, proc, daemon, loop, stale>>
        /\ \A d \in Callers : d # s => chain'[d] = chain[d]
    BY <1>0, <1>1 DEF SweepEnd, dbVars
  <2>3. AllStay
    BY <2>1, <2>2 DEF AllStay, Off, WorkingPc, LaunchPc
  <2>4. \A q \in Runs : loop[q].owner # NoSweep => /\ loop[q].owner \in Callers
                                                   /\ loop[q].owner # s
    BY <1>0, <2>1, CallerFacts DEF Loop, LoopInv, LoopsOK
  <2>5. LoopInv'
    BY <1>0, <2>2, <2>4, CallerFacts DEF LoopInv, LoopsOK
  <2> QED BY <2>1, <2>2, <2>3, <2>5 DEF StillStep, StaleShrinks
<1>2. CASE SweepDrain(s)
  <2> DEFINE go == [Idle EXCEPT !.pc = "await"]
             ch == [chain EXCEPT ![s] = go]
  <2>0. /\ ContinueDrain(PendingRuns(runStatus), s, ch, loop, 0)
        /\ UNCHANGED <<rows, env, deployed, proc, stale>>
    BY <1>2 DEF SweepDrain, dbVars
  <2>1. go \in Chain /\ go.pc = "await"
    BY OrchestratorAssumption DEF Idle, Chain, SweepPc
  <2>2. /\ chain[s].pc = "drain" /\ daemon # "down"
        /\ ch[s] = go /\ \A d \in Callers : d # s => ch[d] = chain[d]
        /\ PendingRuns(runStatus) \in SUBSET Runs /\ ch \in [Callers -> Chain]
    BY <1>0, <1>2, <2>1 DEF SweepDrain, At, DownInv, PendingRuns
  <2> HIDE DEF go, ch
  <2>3. \A q \in Runs : loop[q].owner # NoSweep => /\ loop[q].owner \in Callers
                                                   /\ loop[q].owner # s
    BY <1>0, <2>2, CallerFacts DEF Loop, LoopInv, LoopsOK
  <2>4. LoopsOK(ch, loop)
    BY <1>0, <2>2, <2>3, CallerFacts DEF LoopInv, LoopsOK
  <2>5. s # NoSweep => ch[s].pc = "await" /\ \A r \in Runs : loop[r].owner # s
    BY <1>0, <2>1, <2>2, <2>3, CallerFacts
  <2>6. /\ LoopInv' /\ daemon' \in {daemon, "started"}
        /\ \A d \in Callers : \/ chain'[d] = ch[d]
                              \/ /\ ch[d].pc \in {"idle", "await"}
                                 /\ chain'[d].pc \in {"idle", "fetch"}
    BY <1>0, <2>0, <2>2, <2>4, <2>5, ContinueDrainLoops
  <2>7. AllStay
    BY <2>1, <2>2, <2>6 DEF AllStay, Off, WorkingPc, LaunchPc
  <2> QED BY <2>0, <2>2, <2>6, <2>7 DEF StillStep, StaleShrinks
<1> QED BY <1>1, <1>2

\* A handler claims its run.
ClaimStep(r) ==
    /\ LoopInv' /\ daemon' # "down"
    /\ runStatus[r] = "pending" /\ Off(r)
    /\ chain'[r].pc = "seed" /\ chain'[r].run = r
    /\ \A d \in Callers : d # r => chain'[d] = chain[d]
    /\ UNCHANGED <<rows, env, deployed, proc, stale>>

LEMMA AcquireClaims ==
    ASSUME TypeInv, LoopInv, DownInv, NEW r \in Runs,
           TryAcquireRunningSlot(r), CanAcquire(runStatus, r)
    PROVE  ClaimStep(r)
<1> DEFINE next == [chain[r] EXCEPT !.pc = "seed"]
<1>0. /\ TypeOK /\ r \in Callers /\ chain[r] \in Chain /\ chain[r].pc = "slot"
      /\ chain[r].run = r /\ daemon # "down"
  BY CallerFacts DEF TypeInv, TypeOK, TryAcquireRunningSlot, ChainsRun, HandlerPc, DownInv
<1>1. next.pc = "seed" /\ next.run = r
  BY <1>0 DEF Chain
<1>2. Goto(r, next) /\ UNCHANGED <<rows, env, deployed, proc, stale>>
  BY DEF TryAcquireRunningSlot
<1> HIDE DEF next
<1>3. /\ LoopInv' /\ chain'[r] = next /\ daemon' = daemon
      /\ \A d \in Callers : d # r => chain'[d] = chain[d]
  BY <1>0, <1>1, <1>2, GotoLoops
<1>4. Off(r)
  BY <1>0 DEF Off, WorkingPc, LaunchPc
<1> QED BY <1>0, <1>1, <1>2, <1>3, <1>4 DEF ClaimStep, CanAcquire

\* A sweep begins: it has read the rows that say running.
ReadStep(s) ==
    /\ LoopInv' /\ daemon' # "down"
    /\ Off(s) /\ chain'[s].pc \notin WorkingPc
    /\ \A d \in Callers : d # s => chain'[d] = chain[d]
    /\ stale' = [stale EXCEPT ![s] = StaleRows]
    /\ UNCHANGED <<rows, env, deployed, proc>>

LEMMA StartReads ==
    ASSUME TypeInv, LoopInv, DownInv, NEW s \in Sweeps, StartSweep(s),
           chain[s].pc = "idle", daemon' # "down",
           UNCHANGED <<rows, env, deployed, proc, loop>>
    PROVE  ReadStep(s)
<1>0. /\ TypeOK /\ s \in Callers /\ s \notin Runs /\ chain \in [Callers -> Chain]
      /\ loop \in [Runs -> Loop]
  BY CallerFacts DEF TypeInv, TypeOK
<1>1. /\ chain'[s].pc = "sweep"
      /\ \A d \in Callers : d # s => chain'[d] = chain[d]
  BY <1>0, GoSweepType DEF StartSweep
<1>2. \A q \in Runs : loop[q].owner # NoSweep => /\ loop[q].owner \in Callers
                                                 /\ loop[q].owner # s
  BY <1>0, CallerFacts DEF Loop, LoopInv, LoopsOK
<1>3. LoopInv'
  BY <1>0, <1>1, <1>2, CallerFacts DEF LoopInv, LoopsOK
<1> QED BY <1>1, <1>3 DEF ReadStep, StartSweep, Off, WorkingPc, LaunchPc

\* A sweep fails a row and launches the row's stage again, or ends the run.
TakeStep(s, e) ==
    /\ LoopInv' /\ daemon' # "down"
    /\ Off(s) /\ chain'[s].run = e.run
    /\ chain'[s].pc \in {"create", "finish"}
    /\ chain'[s].pc = "create" =>
          LET row == rows[e.run][e.row] IN
          chain'[s].stage = row.stage /\ HasBudget(row.stage, row.attempt)
    /\ \A d \in Callers : d # s => chain'[d] = chain[d]
    /\ stale' = [stale EXCEPT ![s] = @ \ {e}]
    /\ WriteRows(e.run, CompleteStageRun(rows[e.run], e.row, "failed"))
    /\ UNCHANGED <<env, deployed, proc>>

LEMMA SweepTakes ==
    ASSUME TypeInv, LoopInv, DownInv, NEW s \in Sweeps, SweepRow(s)
    PROVE  StillStep \/ \E e \in stale[s] : TakeStep(s, e)
<1>0. /\ TypeOK /\ s \in Callers /\ s \notin Runs /\ chain \in [Callers -> Chain]
      /\ loop \in [Runs -> Loop]
  BY CallerFacts DEF TypeInv, TypeOK
<1>1. /\ chain[s].pc = "sweep" /\ daemon # "down" /\ Off(s)
      /\ UNCHANGED <<env, deployed, proc, daemon, loop>>
  BY <1>0 DEF SweepRow, At, DownInv, Off, WorkingPc, LaunchPc
<1>2. \A q \in Runs : loop[q].owner # NoSweep => /\ loop[q].owner \in Callers
                                                 /\ loop[q].owner # s
  BY <1>0, <1>1, CallerFacts DEF Loop, LoopInv, LoopsOK
<1>3. PICK e \in stale[s] :
         /\ stale' = [stale EXCEPT ![s] = @ \ {e}]
         /\ \/ UNCHANGED <<rows, chain>>
            \/ /\ WriteRows(e.run, CompleteStageRun(rows[e.run], e.row, "failed"))
               /\ chain' = [chain EXCEPT ![s] =
                     IF HasBudget(rows[e.run][e.row].stage, rows[e.run][e.row].attempt)
                     THEN [Idle EXCEPT !.pc = "create", !.run = e.run,
                                       !.stage = rows[e.run][e.row].stage]
                     ELSE [Idle EXCEPT !.pc = "finish", !.run = e.run,
                                       !.stage = rows[e.run][e.row].stage, !.arg = "failed"]]
  BY DEF SweepRow
<1>4. CASE UNCHANGED <<rows, chain>>
  <2>1. AllStay /\ LoopInv'
    BY <1>1, <1>4 DEF AllStay, LoopInv
  <2>2. StaleShrinks
    BY <1>0, <1>3 DEF StaleShrinks, TypeOK
  <2> QED BY <1>1, <1>4, <2>1, <2>2 DEF StillStep
<1>5. CASE ~UNCHANGED <<rows, chain>>
  <2> DEFINE row == rows[e.run][e.row]
             next == IF HasBudget(row.stage, row.attempt)
                     THEN [Idle EXCEPT !.pc = "create", !.run = e.run, !.stage = row.stage]
                     ELSE [Idle EXCEPT !.pc = "finish", !.run = e.run,
                                       !.stage = row.stage, !.arg = "failed"]
  <2>0. /\ next.run = e.run /\ next.stage = row.stage
        /\ next.pc = IF HasBudget(row.stage, row.attempt) THEN "create" ELSE "finish"
    <3>1. CASE HasBudget(row.stage, row.attempt)
      BY <3>1 DEF Idle
    <3>2. CASE ~HasBudget(row.stage, row.attempt)
      BY <3>2 DEF Idle
    <3> QED BY <3>1, <3>2
  <2>1. /\ chain'[s].run = e.run /\ chain'[s].stage = row.stage
        /\ chain'[s].pc = IF HasBudget(row.stage, row.attempt) THEN "create" ELSE "finish"
        /\ \A d \in Callers : d # s => chain'[d] = chain[d]
    <3>1. chain' = [chain EXCEPT ![s] = next]
      BY <1>3, <1>5
    <3> HIDE DEF next
    <3> QED BY <1>0, <2>0, <3>1
  <2>2. LoopInv'
    BY <1>0, <1>1, <1>2, <2>1, CallerFacts DEF LoopInv, LoopsOK
  <2>3. TakeStep(s, e)
    BY <1>1, <1>3, <1>5, <2>1, <2>2 DEF TakeStep
  <2> QED BY <2>3
<1> QED BY <1>4, <1>5

-------------------------------------------------------------------------------
(* What the operations of RunService make of the rows of a run.            *)

\* Row i gets a status and keeps the rest; no other row changes.
Written(old, new, i, status) ==
    /\ DOMAIN new = DOMAIN old
    /\ \A j \in DOMAIN old : j # i => new[j] = old[j]
    /\ new[i].stage = old[i].stage /\ new[i].attempt = old[i].attempt
    /\ new[i].pid = old[i].pid /\ new[i].status = status

\* What completeStageRun makes of a status.
Spared(was, status) == IF was = "cancelled" THEN "cancelled" ELSE status

\* A pending row of stage s is added, with the next attempt.
Created(old, new, s) ==
    /\ DOMAIN new = DOMAIN old \union {Len(old) + 1} /\ Len(old) + 1 \notin DOMAIN old
    /\ \A j \in DOMAIN old : new[j] = old[j]
    /\ new[Len(old) + 1].stage = s
    /\ new[Len(old) + 1].attempt = Cardinality(StageRunsOf(old, s)) + 1
    /\ new[Len(old) + 1].status = "pending" /\ ~new[Len(old) + 1].pid

\* The pid of row i is recorded.
Recorded(old, new, i) ==
    /\ DOMAIN new = DOMAIN old
    /\ \A j \in DOMAIN old : j # i => new[j] = old[j]
    /\ new[i].stage = old[i].stage /\ new[i].attempt = old[i].attempt
    /\ new[i].status = old[i].status /\ new[i].pid

LEMMA RowFields ==
    ASSUME NEW rs \in Seq(StageRun)
    PROVE  /\ Len(rs) \in Nat /\ DOMAIN rs = 1..Len(rs) /\ Len(rs) + 1 \notin DOMAIN rs
           /\ \A i \in DOMAIN rs : rs[i] \in StageRun
<1>1. Len(rs) \in Nat /\ DOMAIN rs = 1..Len(rs) /\ rs \in [1..Len(rs) -> StageRun]
  BY LenProperties
<1> QED BY <1>1

LEMMA UpdateWrites ==
    ASSUME NEW rs \in Seq(StageRun), NEW i \in DOMAIN rs, NEW status
    PROVE  Written(rs, UpdateStageRunStatus(rs, i, status), i, status)
BY RowFields DEF Written, UpdateStageRunStatus, StageRun

LEMMA CompleteWrites ==
    ASSUME NEW rs \in Seq(StageRun), NEW i \in DOMAIN rs, NEW status
    PROVE  Written(rs, CompleteStageRun(rs, i, status), i, Spared(rs[i].status, status))
<1>1. CASE rs[i].status = "cancelled" /\ status # "cancelled"
  BY <1>1 DEF Written, CompleteStageRun, Spared
<1>2. CASE ~(rs[i].status = "cancelled" /\ status # "cancelled")
  <2>1. CompleteStageRun(rs, i, status) = UpdateStageRunStatus(rs, i, status)
    BY <1>2 DEF CompleteStageRun, UpdateStageRunStatus
  <2>2. Spared(rs[i].status, status) = status
    BY <1>2 DEF Spared
  <2> QED BY <2>1, <2>2, UpdateWrites
<1> QED BY <1>1, <1>2

LEMMA RecordWrites ==
    ASSUME NEW rs \in Seq(StageRun), NEW i \in DOMAIN rs
    PROVE  Recorded(rs, RecordPid(rs, i), i)
BY RowFields DEF Recorded, RecordPid, StageRun

LEMMA CreateWrites ==
    ASSUME NEW rs \in Seq(StageRun), NEW s \in Stages
    PROVE  Created(rs, CreateStageRun(rs, s), s)
<1> DEFINE row == [stage |-> s, attempt |-> Cardinality(StageRunsOf(rs, s)) + 1,
                   status |-> "pending", pid |-> FALSE]
           new == CreateStageRun(rs, s)
<1>1. /\ DOMAIN new = DOMAIN rs \union {Len(rs) + 1} /\ Len(rs) + 1 \notin DOMAIN rs
      /\ \A j \in DOMAIN rs : new[j] = rs[j]
  BY RowFields, CreateStageRunType
<1>2. new[Len(rs) + 1] = row
  <2>1. new = Append(rs, row)
    BY DEF CreateStageRun
  <2> HIDE DEF row, new
  <2> QED BY <2>1, RowFields
<1>3. /\ row.stage = s /\ row.attempt = Cardinality(StageRunsOf(rs, s)) + 1
      /\ row.status = "pending" /\ ~row.pid
  OBVIOUS
<1> HIDE DEF row, new
<1> QED BY <1>1, <1>2, <1>3 DEF Created, new

\* What users do to the rows of a run: they add a pending row, cancel rows, and
\* decide on any one of them.
Nudged(r, old, new) ==
    \/ \E s \in Stages : Created(old, new, s)
    \/ /\ DOMAIN new = DOMAIN old
       /\ \A i \in DOMAIN old :
             /\ new[i].stage = old[i].stage /\ new[i].attempt = old[i].attempt
             /\ new[i].pid = old[i].pid
             /\ \/ new[i].status \in {old[i].status, "cancelled"}
                \/ /\ "decide" \in Requests[r]
                   /\ \/ new[i].status = "launching"
                      \/ new[i].status = "failed" /\ old[i].status # "cancelled"

LEMMA SameNudged == ASSUME NEW r, NEW rs PROVE Nudged(r, rs, rs)
BY DEF Nudged

LEMMA UserNudges ==
    ASSUME TypeInv, User
    PROVE  /\ UNCHANGED <<env, deployed, proc, daemon, chain, loop, stale>>
           /\ \A r \in Runs : Nudged(r, rows[r], rows'[r])
<1>0. TypeOK /\ \A r \in Runs : rows[r] \in Seq(StageRun)
  BY DEF TypeInv, TypeOK
<1>same. ASSUME UNCHANGED rows
         PROVE  \A r \in Runs : Nudged(r, rows[r], rows'[r])
  BY <1>same, SameNudged
<1>write. ASSUME NEW r \in Runs, NEW new, WriteRows(r, new), Nudged(r, rows[r], new)
          PROVE  \A q \in Runs : Nudged(q, rows[q], rows'[q])
  <2> TAKE q \in Runs
  <2>1. CASE q = r
    BY <1>0, <1>write, <2>1, WriteElsewhere
  <2>2. CASE q # r
    BY <1>0, <1>write, <2>2, WriteElsewhere, SameNudged
  <2> QED BY <2>1, <2>2
<1>1. ASSUME NEW r \in Runs, NEW request, Insert(r, request)
      PROVE  /\ UNCHANGED <<env, deployed, proc, daemon, chain, loop, stale>>
             /\ \A q \in Runs : Nudged(q, rows[q], rows'[q])
  BY <1>1, <1>same DEF Insert
<1>2. ASSUME NEW r \in Runs, Seed(r)
      PROVE  /\ UNCHANGED <<env, deployed, proc, daemon, chain, loop, stale>>
             /\ \A q \in Runs : Nudged(q, rows[q], rows'[q])
  <2>1. web[r].stage \in Stages
    BY DEF TypeInv, TypeOK, Web
  <2>2. Nudged(r, rows[r], CreateStageRun(rows[r], web[r].stage))
    BY <1>0, <2>1, CreateWrites DEF Nudged
  <2> QED BY <1>2, <1>write, <2>2 DEF Seed, WebStep
<1>3. ASSUME NEW r \in Runs, ReadCancel(r) \/ CancelRun(r)
      PROVE  /\ UNCHANGED <<env, deployed, proc, daemon, chain, loop, stale>>
             /\ \A q \in Runs : Nudged(q, rows[q], rows'[q])
  BY <1>3, <1>same DEF ReadCancel, CancelRun, WebStep
<1>4. ASSUME NEW r \in Runs, CancelStageRuns(r)
      PROVE  /\ UNCHANGED <<env, deployed, proc, daemon, chain, loop, stale>>
             /\ \A q \in Runs : Nudged(q, rows[q], rows'[q])
  <2> DEFINE new == [i \in DOMAIN rows[r] |-> IF i \in web[r].picked
                       THEN [rows[r][i] EXCEPT !.status = "cancelled"] ELSE rows[r][i]]
  <2>1. \A i \in DOMAIN rows[r] : rows[r][i] \in StageRun
    BY <1>0, RowFields
  <2>2. Nudged(r, rows[r], new)
    BY <2>1 DEF Nudged, StageRun
  <2>3. WriteRows(r, new)
    BY <1>4 DEF CancelStageRuns
  <2> HIDE DEF new
  <2> QED BY <1>4, <1>write, <2>2, <2>3 DEF CancelStageRuns, WebStep
<1>5. ASSUME NEW r \in Runs, Decide(r)
      PROVE  /\ UNCHANGED <<env, deployed, proc, daemon, chain, loop, stale>>
             /\ \A q \in Runs : Nudged(q, rows[q], rows'[q])
  <2>1. PICK i \in DOMAIN rows[r] :
           \/ WriteRows(r, UpdateStageRunStatus(rows[r], i, "launching"))
           \/ \E status \in {"failed", "cancelled"} :
                 WriteRows(r, CompleteStageRun(rows[r], i, status))
    BY <1>5 DEF Decide
  <2>2. "decide" \in Requests[r]
    BY <1>5 DEF Decide
  <2>3. \A new : Written(rows[r], new, i, "launching") => Nudged(r, rows[r], new)
    BY <2>2 DEF Written, Nudged
  <2>4. \A new : \A status \in {"failed", "cancelled"} :
           Written(rows[r], new, i, Spared(rows[r][i].status, status)) => Nudged(r, rows[r], new)
    BY <2>2 DEF Written, Spared, Nudged
  <2>5. \A q \in Runs : Nudged(q, rows[q], rows'[q])
    BY <1>0, <1>write, <2>1, <2>3, <2>4, UpdateWrites, CompleteWrites
  <2> QED BY <1>5, <2>5 DEF Decide
<1> QED
  BY <1>1, <1>2, <1>3, <1>4, <1>5 DEF User, Cancel, Trigger, AutoDispatch

-------------------------------------------------------------------------------
(* The rows that chains hold.  A chain at one of HoldPc goes on with the row *)
(* it created or chose, whatever the web process makes of it meanwhile.     *)

HoldPc == {"gate", "mark", "prepare", "exec", "settle", "done", "failed"}

Holds(c) == chain[c].pc \in HoldPc

\* The chain c works on the run r.
Works(c, r) == chain[c].pc \in WorkingPc /\ chain[c].run = r

Running(r) == StageRunsWith(rows[r], "running")

RowsHeld ==
    \A c \in Callers : Holds(c) => /\ chain[c].row \in DOMAIN rows[RunOf(c)]
                                   /\ RowOf(c).stage = chain[c].stage

OneHolder ==
    \A c, d \in Callers :
       Holds(c) /\ Holds(d) /\ RunOf(c) = RunOf(d) /\ chain[c].row = chain[d].row => c = d

\* A pid is recorded for a row whose driver was started, and not before.
PendingUnstarted ==
    \A r \in Runs : \A i \in DOMAIN rows[r] : rows[r][i].status = "pending" => ~rows[r][i].pid

HeldUnstarted == \A c \in Callers : chain[c].pc \in {"gate", "mark", "prepare"} => ~RowOf(c).pid

HeldTaken == \A c \in Callers : chain[c].pc \in {"prepare", "exec"} => RowOf(c).status # "pending"

\* While a handler looks for the row to start at, nobody else holds one.
SeedAlone ==
    \A r \in Runs : chain[r].pc = "seed" =>
       /\ \A d \in Callers : Works(d, r) => d = r
       /\ Running(r) = {}
       /\ \A s \in Sweeps : \A e \in stale[s] : e.run # r

RowsInv ==
    /\ RowsHeld
    /\ OneHolder
    /\ PendingUnstarted
    /\ HeldUnstarted
    /\ HeldTaken
    /\ SeedAlone

-------------------------------------------------------------------------------
(* Every step of a chain that works on a run, as a move from one await to  *)
(* the next with what it does to the rows and the drivers of that run.     *)

Left(c) == chain'[c].pc \notin WorkingPc

Kept(c) == chain'[c].row = chain[c].row /\ chain'[c].stage = chain[c].stage

SameRows(r) == rows'[r] = rows[r]

SameHost(r) == env'[r] = env[r] /\ deployed'[r] = deployed[r]

SameProc(r) == proc'[r] = proc[r]

Puts(c, status) == Written(rows[RunOf(c)], rows'[RunOf(c)], chain[c].row, status)

Completes(c, status) == Puts(c, Spared(RowOf(c).status, status))

Creates(c) ==
    LET r == RunOf(c) IN
    /\ chain[c].pc = "create" /\ chain'[c].pc = "gate"
    /\ Created(rows[r], rows'[r], chain[c].stage)
    /\ chain'[c].row = Len(rows[r]) + 1 /\ chain'[c].stage = chain[c].stage
    /\ SameHost(r) /\ SameProc(r)

Parks(c) ==
    /\ chain[c].pc = "gate" /\ Left(c)
    /\ Puts(c, "pending") /\ SameHost(RunOf(c)) /\ SameProc(RunOf(c))

Refuses(c) ==
    LET r == RunOf(c) IN
    /\ chain[c].pc = "gate" /\ chain'[c].pc = "finish"
    /\ Completes(c, "failed") /\ deployed'[r] = deployed[r] /\ SameProc(r)

Acquires(c) ==
    LET r == RunOf(c) IN
    /\ chain[c].pc = "gate" /\ SameRows(r) /\ deployed'[r] = deployed[r]
    /\ \/ chain'[c].pc = "mark" /\ Kept(c) /\ env'[r] /\ SameProc(r)
       \/ Left(c) /\ (SameProc(r) \/ Gone)
       \/ chain'[c].pc = "failed" /\ Kept(c) /\ SameProc(r)

Marks(c) ==
    /\ chain[c].pc = "mark" /\ chain'[c].pc = "prepare" /\ Kept(c)
    /\ Puts(c, "running") /\ SameHost(RunOf(c)) /\ SameProc(RunOf(c))

Spawns(c) ==
    LET r == RunOf(c) IN
    /\ chain[c].pc = "prepare" /\ SameRows(r) /\ SameHost(r) /\ Kept(c)
    /\ \/ chain'[c].pc = "exec" /\ proc'[r] = proc[r] \union {chain[c].row}
       \/ chain'[c].pc = "settle" /\ SameProc(r)

Exits(c) ==
    LET r == RunOf(c) IN
    /\ chain[c].pc = "exec" /\ chain'[c].pc = "settle" /\ Kept(c)
    /\ SameRows(r) /\ SameHost(r) /\ proc'[r] = proc[r] \ {chain[c].row}

Records(c) ==
    LET r == RunOf(c) IN
    /\ chain[c].pc = "exec" /\ chain' = chain
    /\ Recorded(rows[r], rows'[r], chain[c].row) /\ SameHost(r) /\ SameProc(r)

Settles(c) ==
    LET r == RunOf(c) IN
    /\ chain[c].pc = "settle" /\ SameRows(r) /\ SameHost(r) /\ SameProc(r)
    /\ \/ chain'[c].pc = "finish" /\ RowOf(c).status = "cancelled"
       \/ chain'[c].pc \in {"failed", "done"} /\ Kept(c)

Fails(c) ==
    LET r == RunOf(c) IN
    /\ chain[c].pc = "failed" /\ SameHost(r) /\ SameProc(r)
    /\ Completes(c, "failed")
    /\ \/ chain'[c].pc = "create" /\ HasBudget(chain[c].stage, RowOf(c).attempt)
       \/ chain'[c].pc = "finish"

Succeeds(c) ==
    LET r == RunOf(c) IN
    /\ chain[c].pc = "done" /\ SameHost(r) /\ Completes(c, "completed")
    /\ \/ chain'[c].pc \in {"create", "finish"} /\ SameProc(r)
       \/ Left(c) /\ (SameProc(r) \/ Gone)

Finishes(c) ==
    LET r == RunOf(c) IN
    /\ chain[c].pc = "finish" /\ chain'[c].pc = "hook"
    /\ SameRows(r) /\ SameHost(r) /\ SameProc(r)

Ends(c) ==
    LET r == RunOf(c) IN
    /\ chain[c].pc = "hook" /\ Left(c) /\ SameRows(r)
    /\ deployed'[r] \in {deployed[r], deployed[r] + 1}
    /\ SameProc(r) \/ Gone

Chooses(c) ==
    LET r == RunOf(c) IN
    /\ chain[c].pc = "seed" /\ c = r /\ SameRows(r) /\ SameHost(r) /\ SameProc(r)
    /\ \/ chain'[c].pc = "create"
       \/ /\ chain'[c].pc = "gate" /\ chain'[c].row \in DOMAIN rows[r]
          /\ rows[r][chain'[c].row].status = "pending"
          /\ chain'[c].stage = rows[r][chain'[c].row].stage

Move(c) ==
    \/ Creates(c) \/ Parks(c) \/ Refuses(c) \/ Acquires(c) \/ Marks(c) \/ Spawns(c)
    \/ Exits(c) \/ Records(c) \/ Settles(c) \/ Fails(c) \/ Succeeds(c) \/ Finishes(c)
    \/ Ends(c) \/ Chooses(c)

LEMMA WorkMoves ==
    ASSUME TypeInv, LoopInv, DownInv, RowsHeld, NEW c \in Callers, Work(c)
    PROVE  Move(c)
<1> DEFINE r == RunOf(c)
           i == chain[c].row
<1>0. /\ TypeOK /\ r \in Runs /\ r = chain[c].run /\ chain[c].pc \in WorkingPc
      /\ chain[c] \in Chain /\ chain[c].pc # "await" /\ rows[r] \in Seq(StageRun)
      /\ chain \in [Callers -> Chain]
  BY WorkerFacts DEF TypeInv, TypeOK, WorkingPc, LaunchPc
<1>host. ASSUME UNCHANGED <<env, deployed>> PROVE SameHost(r)
  BY <1>host DEF SameHost
<1>to. ASSUME NEW pc, NEW arg, To(c, pc, arg)
       PROVE  chain'[c].pc = pc /\ Kept(c)
  BY <1>0, <1>to DEF To, Goto, Kept, Chain
<1>create. ASSUME NEW next, Goto(c, next)
           PROVE  chain'[c] = next
  BY <1>0, <1>create DEF Goto
<1>return. ASSUME NEW fired, Return(c, fired)
           PROVE  Left(c)
  BY <1>0, <1>return, ReturnLoops DEF Left
<1>throw. ASSUME NEW fired, Throw(c, fired)
          PROVE  Left(c) /\ (SameProc(r) \/ Gone)
  <2>1. CASE Exit
    BY <2>1, ExitLoops DEF Left, Gone, WorkingPc, LaunchPc
  <2>2. CASE ~Exit
    BY <1>0, <1>throw, <2>2, ThrowLoops DEF Left, SameProc
  <2> QED BY <2>1, <2>2
<1>row. ASSUME Holds(c) PROVE i \in DOMAIN rows[r]
  BY <1>row DEF RowsHeld
<1>put. ASSUME NEW status, Holds(c), WriteRows(r, UpdateStageRunStatus(rows[r], i, status))
        PROVE  Puts(c, status)
  BY <1>0, <1>row, <1>put, UpdateWrites, WriteElsewhere DEF Puts
<1>complete. ASSUME NEW status, Holds(c), WriteRows(r, CompleteStageRun(rows[r], i, status))
             PROVE  Completes(c, status)
  BY <1>0, <1>row, <1>complete, CompleteWrites, WriteElsewhere DEF Completes, Puts, RowOf, RunOf
<1>2. CASE CreateRow(c)
  <2> DEFINE next == [chain[c] EXCEPT !.pc = "gate", !.row = Len(rows[r]) + 1]
  <2>1. /\ next.pc = "gate" /\ next.row = Len(rows[r]) + 1 /\ next.stage = chain[c].stage
        /\ chain[c].stage \in Stages
    BY <1>0 DEF Chain
  <2>2. chain'[c] = next
    BY <1>2, <1>create DEF CreateRow
  <2>3. Created(rows[r], rows'[r], chain[c].stage)
    BY <1>0, <1>2, <2>1, CreateWrites, WriteElsewhere DEF CreateRow
  <2> HIDE DEF next
  <2>4. Creates(c)
    BY <1>2, <1>host, <2>1, <2>2, <2>3 DEF Creates, CreateRow, At, SameProc
  <2> QED BY <2>4 DEF Move
<1>3. CASE HoldAtGate(c)
  <2>1. Parks(c)
    BY <1>3, <1>host, <1>return, <1>put DEF Parks, HoldAtGate, At, SameProc, Holds, HoldPc
  <2> QED BY <2>1 DEF Move
<1>4. CASE RefuseNoDriver(c)
  <2>1. Refuses(c)
    BY <1>4, <1>host, <1>to, <1>complete
       DEF Refuses, RefuseNoDriver, PassGate, At, SameHost, SameProc, Holds, HoldPc
  <2> QED BY <2>1 DEF Move
<1>acquired. ASSUME Acquired(c)
             PROVE  chain[c].pc = "gate" /\ env'[r]
  BY <1>0, <1>acquired DEF Acquired, PassGate, At, TypeOK
<1>5. CASE AcquireEnv(c)
  <2>1. chain[c].pc = "gate" /\ SameRows(r) /\ deployed'[r] = deployed[r] /\ SameProc(r)
    BY <1>5 DEF AcquireEnv, Acquired, PassGate, At, SameRows, SameProc
  <2>2. CASE Acquired(c) /\ To(c, "mark", "")
    BY <1>acquired, <1>to, <2>1, <2>2 DEF Move, Acquires
  <2>3. CASE To(c, "failed", "")
    BY <1>to, <2>1, <2>3 DEF Move, Acquires
  <2> QED BY <1>5, <2>2, <2>3 DEF AcquireEnv
<1>16. CASE RefuseNoArtifacts(c)
  <2>1. Acquired(c) /\ deployed' = deployed /\ proc' = proc /\ To(c, "finish", "failed")
    BY <1>16 DEF RefuseNoArtifacts
  <2>2. chain[c].pc = "gate" /\ chain'[c].pc = "finish"
    BY <1>acquired, <1>to, <2>1
  <2>3. Completes(c, "failed")
    BY <1>16, <1>complete, <2>2 DEF RefuseNoArtifacts, Holds, HoldPc
  <2> QED BY <2>1, <2>2, <2>3 DEF Move, Refuses, SameProc
<1>17. CASE ThrowAtPrompt(c)
  <2>1. chain[c].pc = "gate" /\ SameRows(r) /\ deployed'[r] = deployed[r]
    BY <1>17, <1>acquired DEF ThrowAtPrompt, SameRows
  <2>2. Left(c) /\ (SameProc(r) \/ Gone)
    BY <1>17, <1>throw DEF ThrowAtPrompt
  <2> QED BY <2>1, <2>2 DEF Move, Acquires
<1>6. CASE MarkRunning(c)
  <2>1. chain[c].pc = "mark" /\ SameHost(r) /\ SameProc(r)
    BY <1>6, <1>host DEF MarkRunning, At, SameProc
  <2>2. Puts(c, "running")
    <3>1. Holds(c)
      BY <2>1 DEF Holds, HoldPc
    <3>2. WriteRows(r, UpdateStageRunStatus(rows[r], i, "running"))
      BY <1>6 DEF MarkRunning
    <3> QED BY <1>put, <3>1, <3>2
  <2>3. chain'[c].pc = "prepare" /\ Kept(c)
    BY <1>6, <1>to DEF MarkRunning
  <2> QED BY <2>1, <2>2, <2>3 DEF Move, Marks
<1>7. CASE SpawnDriver(c)
  <2>1. chain[c].pc = "prepare" /\ SameRows(r) /\ SameHost(r)
    BY <1>7, <1>host DEF SpawnDriver, At, dbVars, SameRows
  <2>2. CASE proc' = [proc EXCEPT ![r] = @ \union {i}] /\ To(c, "exec", "")
    <3>1. proc'[r] = proc[r] \union {i}
      BY <1>0, <2>2 DEF TypeOK
    <3> QED BY <1>to, <2>1, <2>2, <3>1 DEF Move, Spawns
  <2>3. CASE To(c, "settle", "error") /\ UNCHANGED proc
    BY <1>to, <2>1, <2>3 DEF Move, Spawns, SameProc
  <2> QED BY <1>7, <2>2, <2>3 DEF SpawnDriver
<1>8. CASE DriverExit(c)
  <2>1. chain[c].pc = "exec" /\ SameRows(r) /\ SameHost(r) /\ proc'[r] = proc[r] \ {i}
    BY <1>0, <1>8, <1>host DEF DriverExit, At, dbVars, SameRows, TypeOK
  <2>2. chain'[c].pc = "settle" /\ Kept(c)
    BY <1>8, <1>to DEF DriverExit
  <2> QED BY <2>1, <2>2 DEF Move, Exits
<1>9. CASE Settle(c)
  <2>1. chain[c].pc = "settle" /\ SameRows(r) /\ SameHost(r) /\ SameProc(r)
    BY <1>9, <1>host DEF Settle, At, dbVars, SameRows, SameProc
  <2>2. \/ RowOf(c).status = "cancelled" /\ To(c, "finish", "cancelled")
        \/ \E pc \in {"failed", "done"}, arg \in {""} \union Verdicts : To(c, pc, arg)
    BY <1>9 DEF Settle, Verdicts
  <2> QED BY <1>to, <2>1, <2>2 DEF Move, Settles
<1>10. CASE StageFailed(c)
  <2>1. /\ chain[c].pc = "failed" /\ SameHost(r) /\ SameProc(r)
        /\ Completes(c, "failed")
    BY <1>10, <1>host, <1>complete DEF StageFailed, At, SameProc, Holds, HoldPc
  <2>2. CASE HasBudget(chain[c].stage, RowOf(c).attempt)
    <3>1. chain'[c] = [chain[c] EXCEPT !.pc = "create", !.row = 0]
      BY <1>10, <1>create, <2>2 DEF StageFailed
    <3>2. chain'[c].pc = "create"
      BY <1>0, <3>1 DEF Chain
    <3> QED BY <2>1, <2>2, <3>2 DEF Move, Fails
  <2>3. CASE ~HasBudget(chain[c].stage, RowOf(c).attempt)
    <3>1. chain'[c].pc = "finish"
      BY <1>10, <1>to, <2>3 DEF StageFailed
    <3> QED BY <2>1, <3>1 DEF Move, Fails
  <2> QED BY <2>2, <2>3
<1>11. CASE StageCompleted(c)
  <2>1. chain[c].pc = "done" /\ SameHost(r) /\ Completes(c, "completed")
    BY <1>11, <1>host, <1>complete DEF StageCompleted, At, Holds, HoldPc
  <2>2. CASE Throw(c, 0)
    BY <1>throw, <2>1, <2>2 DEF Move, Succeeds
  <2>3. CASE UNCHANGED proc /\ \E arg \in {"failed", "completed", "blocked", "dead_end"} :
                                  To(c, "finish", arg)
    BY <1>to, <2>1, <2>3 DEF Move, Succeeds, SameProc
  <2>4. ASSUME NEW s \in Stages, UNCHANGED proc,
               Goto(c, [chain[c] EXCEPT !.pc = "create", !.row = 0, !.stage = s, !.arg = ""])
        PROVE  Move(c)
    <3>1. chain'[c] = [chain[c] EXCEPT !.pc = "create", !.row = 0, !.stage = s, !.arg = ""]
      BY <1>create, <2>4
    <3>2. chain'[c].pc = "create"
      BY <1>0, <3>1 DEF Chain
    <3> QED BY <2>1, <2>4, <3>2 DEF Move, Succeeds, SameProc
  <2> QED BY <1>11, <2>2, <2>3, <2>4 DEF StageCompleted
<1>12. CASE FinishRun(c)
  <2>1. Finishes(c)
    BY <1>12, <1>host, <1>to DEF Finishes, FinishRun, At, SameRows, SameProc
  <2> QED BY <2>1 DEF Move
<1>13. CASE TerminalHook(c)
  <2>1. chain[c].pc = "hook" /\ SameRows(r)
    BY <1>13 DEF TerminalHook, At, SameRows
  <2>2. deployed'[r] \in {deployed[r], deployed[r] + 1}
    BY <1>0, <1>13 DEF TerminalHook, TypeOK
  <2>3. Left(c) /\ (SameProc(r) \/ Gone)
    BY <1>13, <1>return, <1>throw DEF TerminalHook, SameProc
  <2> QED BY <2>1, <2>2, <2>3 DEF Move, Ends
<1>14. CASE PidRecorded(c)
  <2>1. chain[c].pc = "exec" /\ chain' = chain /\ SameHost(r) /\ SameProc(r)
    BY <1>14, <1>host DEF PidRecorded, At, SameProc
  <2>2. Recorded(rows[r], rows'[r], i)
    BY <1>0, <1>14, <1>row, <2>1, RecordWrites, WriteElsewhere
       DEF PidRecorded, Holds, HoldPc
  <2> QED BY <2>1, <2>2 DEF Move, Records
<1>15. CASE c \in Runs /\ ChooseStage(c)
  <2>1. /\ chain[c].pc = "seed" /\ c = r /\ SameRows(r) /\ SameHost(r) /\ SameProc(r)
    BY <1>15, <1>host DEF ChooseStage, dbVars, SameRows, SameProc, TypeInv, ChainsRun,
                          HandlerPc, RunOf
  <2>2. CASE Goto(c, [chain[c] EXCEPT !.pc = "create", !.stage = FirstStage])
    <3>1. chain'[c] = [chain[c] EXCEPT !.pc = "create", !.stage = FirstStage]
      BY <1>create, <2>2
    <3>2. chain'[c].pc = "create"
      BY <1>0, <3>1 DEF Chain
    <3> QED BY <2>1, <3>2 DEF Move, Chooses
  <2>3. ASSUME NEW j \in StageRunsWith(rows[c], "pending"),
               Goto(c, [chain[c] EXCEPT !.pc = "gate", !.row = j, !.stage = rows[c][j].stage])
        PROVE  Move(c)
    <3>1. chain'[c] = [chain[c] EXCEPT !.pc = "gate", !.row = j, !.stage = rows[c][j].stage]
      BY <1>create, <2>3
    <3>2. chain'[c].pc = "gate" /\ chain'[c].row = j /\ chain'[c].stage = rows[c][j].stage
      BY <1>0, <3>1 DEF Chain
    <3>3. j \in DOMAIN rows[r] /\ rows[r][j].status = "pending"
      BY <2>1 DEF StageRunsWith
    <3> QED BY <2>1, <3>2, <3>3 DEF Move, Chooses
  <2> QED BY <1>15, <2>2, <2>3 DEF ChooseStage
<1> QED
  BY <1>2, <1>3, <1>4, <1>5, <1>6, <1>7, <1>8, <1>9, <1>10, <1>11, <1>12, <1>13, <1>14,
     <1>15, <1>16, <1>17 DEF Work, Launch

-------------------------------------------------------------------------------
(* Only an approval writes over a cancelled row, and RowsInv is inductive. *)

CancelledStay ==
    \A r \in Runs : \A i \in DOMAIN rows[r] :
       rows[r][i].status = "cancelled" /\ rows[r][i].pid
          => rows'[r][i].status \in {"cancelled", "launching"}

\* What a move of c does to the rows of its run, and which of them it then holds.
OwnRows(c) ==
    LET r == RunOf(c)
        j == chain'[c].row IN
    /\ \A i \in DOMAIN rows[r] :
          /\ i \in DOMAIN rows'[r]
          /\ rows'[r][i] = rows[r][i] \/ (Holds(c) /\ i = chain[c].row)
          /\ rows[r][i].status = "cancelled" /\ rows[r][i].pid => rows'[r][i].status = "cancelled"
    /\ \A i \in DOMAIN rows'[r] : rows'[r][i].status = "pending" => ~rows'[r][i].pid
    /\ chain'[c].pc # "seed"
    /\ chain'[c].pc \in HoldPc =>
          /\ j \in DOMAIN rows'[r] /\ rows'[r][j].stage = chain'[c].stage
          /\ (Holds(c) /\ j = chain[c].row) \/ j \notin DOMAIN rows[r] \/ chain[r].pc = "seed"
          /\ chain'[c].pc \in {"gate", "mark", "prepare"} => ~rows'[r][j].pid
          /\ chain'[c].pc \in {"prepare", "exec"} => rows'[r][j].status # "pending"

LEMMA MoveOwnRows ==
    ASSUME TypeInv, RowsInv, NEW c \in Callers, RunOf(c) \in Runs, Move(c)
    PROVE  OwnRows(c)
<1> DEFINE r == RunOf(c)
           i == chain[c].row
<1>0. /\ RowOf(c) = rows[r][i]
      /\ \A j \in DOMAIN rows[r] : rows[r][j].status = "pending" => ~rows[r][j].pid
      /\ Holds(c) => i \in DOMAIN rows[r] /\ rows[r][i].stage = chain[c].stage
      /\ chain[c].pc \in {"gate", "mark", "prepare"} => ~rows[r][i].pid
      /\ chain[c].pc \in {"prepare", "exec"} => rows[r][i].status # "pending"
  BY DEF RowsInv, PendingUnstarted, RowsHeld, HeldUnstarted, HeldTaken, RowOf, RunOf
<1>1. CASE Creates(c)
  BY <1>0, <1>1 DEF Creates, Created, OwnRows, HoldPc
<1>2. CASE Parks(c)
  BY <1>0, <1>2 DEF Parks, Left, Puts, Written, OwnRows, Holds, HoldPc, WorkingPc, LaunchPc
<1>3. CASE Refuses(c)
  BY <1>0, <1>3 DEF Refuses, Completes, Puts, Written, Spared, OwnRows, Holds, HoldPc
<1>4. CASE Acquires(c)
  BY <1>0, <1>4 DEF Acquires, Left, Kept, SameRows, OwnRows, Holds, HoldPc, WorkingPc, LaunchPc
<1>5. CASE Marks(c)
  BY <1>0, <1>5 DEF Marks, Kept, Puts, Written, OwnRows, Holds, HoldPc
<1>6. CASE Spawns(c)
  BY <1>0, <1>6 DEF Spawns, Kept, SameRows, OwnRows, Holds, HoldPc
<1>7. CASE Exits(c)
  BY <1>0, <1>7 DEF Exits, Kept, SameRows, OwnRows, Holds, HoldPc
<1>8. CASE Records(c)
  BY <1>0, <1>8 DEF Records, Recorded, OwnRows, Holds, HoldPc
<1>9. CASE Settles(c)
  BY <1>0, <1>9 DEF Settles, Kept, SameRows, OwnRows, Holds, HoldPc
<1>10. CASE Fails(c)
  BY <1>0, <1>10 DEF Fails, Completes, Puts, Written, Spared, OwnRows, Holds, HoldPc
<1>11. CASE Succeeds(c)
  BY <1>0, <1>11 DEF Succeeds, Left, Completes, Puts, Written, Spared, OwnRows, Holds, HoldPc,
                     WorkingPc, LaunchPc
<1>12. CASE Finishes(c)
  BY <1>0, <1>12 DEF Finishes, SameRows, OwnRows, HoldPc
<1>13. CASE Ends(c)
  BY <1>0, <1>13 DEF Ends, Left, SameRows, OwnRows, HoldPc, WorkingPc, LaunchPc
<1>14. CASE Chooses(c)
  BY <1>0, <1>14 DEF Chooses, SameRows, OwnRows, HoldPc
<1> QED
  BY <1>1, <1>2, <1>3, <1>4, <1>5, <1>6, <1>7, <1>8, <1>9, <1>10, <1>11, <1>12, <1>13, <1>14
     DEF Move

LEMMA HoldersWork ==
    HoldPc \subseteq WorkingPc /\ "seed" \in WorkingPc /\ "seed" \notin HoldPc
BY DEF HoldPc, WorkingPc, LaunchPc

LEMMA MoveKeepsRows ==
    ASSUME TypeInv, RowsInv, NEW c \in Callers, RunOf(c) \in Runs,
           chain[c].pc \in WorkingPc, Move(c), OwnStep(c, RunOf(c))
    PROVE  RowsInv' /\ CancelledStay
<1> DEFINE r == RunOf(c)
<1>0. OwnRows(c)
  BY MoveOwnRows
<1>1. r = chain[c].run /\ r \in Callers /\ r \in Runs
  BY CallerFacts DEF RunOf
<1>2. \A q \in Runs : q # r => rows'[q] = rows[q]
  BY DEF OwnStep
<1>3. CancelledStay
  BY <1>0, <1>2 DEF CancelledStay, OwnRows
<1>4. PendingUnstarted'
  BY <1>0, <1>2 DEF PendingUnstarted, OwnRows, RowsInv
<1>5. CASE Gone
  BY <1>3, <1>4, <1>5, CallerFacts
     DEF Gone, RowsInv, RowsHeld, OneHolder, HeldUnstarted, HeldTaken, SeedAlone, Holds, HoldPc
<1>6. CASE ~Gone
  <2>1. \A d \in Callers : d # c /\ chain'[d].pc \in WorkingPc => chain'[d] = chain[d]
    BY <1>6 DEF OwnStep, OthersStay
  <2>2. chain'[c].pc \in WorkingPc => chain'[c].run = r
    BY DEF OwnStep
  <2>3. \A d \in Callers : d # c /\ chain'[d].pc \in HoldPc =>
           /\ chain'[d] = chain[d] /\ Holds(d) /\ chain[d].run \in Runs
           /\ chain[d].row \in DOMAIN rows[chain[d].run]
           /\ chain[d].row \in DOMAIN rows'[chain[d].run]
           /\ rows'[chain[d].run][chain[d].row] = rows[chain[d].run][chain[d].row]
    <3> SUFFICES ASSUME NEW d \in Callers, d # c, chain'[d].pc \in HoldPc
                 PROVE  /\ chain'[d] = chain[d] /\ Holds(d) /\ chain[d].run \in Runs
                        /\ chain[d].row \in DOMAIN rows[chain[d].run]
                        /\ chain[d].row \in DOMAIN rows'[chain[d].run]
                        /\ rows'[chain[d].run][chain[d].row] = rows[chain[d].run][chain[d].row]
      OBVIOUS
    <3>1. chain'[d] = chain[d] /\ Holds(d) /\ chain[d].run \in Runs
      BY <2>1, HoldersWork, WorkerRuns DEF Holds
    <3>2. chain[d].row \in DOMAIN rows[chain[d].run]
      BY <3>1 DEF RowsInv, RowsHeld, RunOf
    <3>3. chain[d].run = r /\ Holds(c) => chain[d].row # chain[c].row
      BY <1>1, <3>1 DEF RowsInv, OneHolder, RunOf
    <3> QED BY <1>0, <1>2, <3>1, <3>2, <3>3 DEF OwnRows
  <2>4. RowsHeld'
    BY <1>0, <2>2, <2>3, HoldersWork DEF RowsHeld, Holds, RunOf, RowOf, OwnRows, RowsInv
  <2>5. HeldUnstarted' /\ HeldTaken'
    <3>1. {"gate", "mark", "prepare"} \subseteq HoldPc /\ {"prepare", "exec"} \subseteq HoldPc
      BY DEF HoldPc
    <3> QED BY <1>0, <2>2, <2>3, <3>1, HoldersWork
            DEF HeldUnstarted, HeldTaken, RowOf, OwnRows, RowsInv
  <2>6. OneHolder'
    <3>1. \A d \in Callers : d # c /\ chain'[d].pc \in HoldPc /\ chain'[c].pc \in HoldPc
             => ~(chain'[d].run = chain'[c].run /\ chain'[d].row = chain'[c].row)
      <4> SUFFICES ASSUME NEW d \in Callers, d # c, chain'[d].pc \in HoldPc,
                          chain'[c].pc \in HoldPc, chain'[d].run = chain'[c].run,
                          chain'[d].row = chain'[c].row
                   PROVE  FALSE
        OBVIOUS
      <4>1. /\ chain[d] = chain'[d] /\ Holds(d) /\ chain[d].run = r
            /\ chain[d].row \in DOMAIN rows[r] /\ chain[d].row = chain'[c].row
        BY <2>2, <2>3, HoldersWork
      <4>2. CASE Holds(c) /\ chain'[c].row = chain[c].row
        BY <1>1, <4>1, <4>2 DEF RowsInv, OneHolder, RunOf
      <4>3. CASE chain[r].pc = "seed"
        <5>1. Works(c, r) /\ Works(d, r)
          BY <1>1, <4>1, HoldersWork DEF Works, Holds
        <5>2. c = r /\ d = r
          BY <1>1, <4>3, <5>1 DEF RowsInv, SeedAlone
        <5> QED BY <5>2
      <4> QED BY <1>0, <4>1, <4>2, <4>3 DEF OwnRows
    <3> QED BY <2>3, <3>1 DEF OneHolder, RowsInv, Holds, RunOf
  <2>7. SeedAlone'
    <3> SUFFICES ASSUME NEW q \in Runs, chain'[q].pc = "seed"
                 PROVE  /\ \A d \in Callers :
                              chain'[d].pc \in WorkingPc /\ chain'[d].run = q => d = q
                        /\ StageRunsWith(rows'[q], "running") = {}
                        /\ \A s \in Sweeps : \A e \in stale'[s] : e.run # q
      BY DEF SeedAlone, Works, Running
    <3>1. q # c /\ q \in Callers
      BY <1>0, CallerFacts DEF OwnRows
    <3>2. chain[q].pc = "seed"
      BY <2>1, <3>1, HoldersWork
    <3>3. /\ \A d \in Callers : chain[d].pc \in WorkingPc /\ chain[d].run = q => d = q
          /\ StageRunsWith(rows[q], "running") = {}
          /\ \A s \in Sweeps : \A e \in stale[s] : e.run # q
      BY <3>2 DEF RowsInv, SeedAlone, Works, Running
    <3>4. q # r
      BY <1>1, <3>1, <3>3
    <3> QED BY <1>2, <2>1, <2>2, <3>3, <3>4 DEF OwnStep, StaleShrinks
  <2> QED BY <1>3, <1>4, <2>4, <2>5, <2>6, <2>7 DEF RowsInv
<1> QED BY <1>5, <1>6

\* The steps that leave every chain where it works, or end them all.
LEMMA FrameRows ==
    ASSUME TypeInv, RowsInv, Gone \/ AllStay, StaleShrinks,
           \A r \in Runs : Nudged(r, rows[r], rows'[r])
    PROVE  RowsInv' /\ CancelledStay
<1>1. \A r \in Runs : \A i \in DOMAIN rows[r] :
         /\ i \in DOMAIN rows'[r] /\ rows'[r][i].stage = rows[r][i].stage
         /\ rows'[r][i].pid = rows[r][i].pid
         /\ rows'[r][i].status = "pending" => rows[r][i].status = "pending"
         /\ rows'[r][i].status = "running" => rows[r][i].status = "running"
         /\ rows[r][i].status = "cancelled" => rows'[r][i].status \in {"cancelled", "launching"}
  BY DEF Nudged, Created
<1>2. \A r \in Runs : \A i \in DOMAIN rows'[r] : i \notin DOMAIN rows[r]
         => rows'[r][i].status = "pending" /\ ~rows'[r][i].pid
  BY DEF Nudged, Created
<1>3. CancelledStay
  BY <1>1 DEF CancelledStay
<1>4. PendingUnstarted'
  BY <1>1, <1>2 DEF PendingUnstarted, RowsInv
<1>5. CASE Gone
  BY <1>3, <1>4, <1>5, CallerFacts
     DEF Gone, RowsInv, RowsHeld, OneHolder, HeldUnstarted, HeldTaken, SeedAlone, Holds, HoldPc
<1>6. CASE AllStay
  <2>1. \A d \in Callers : chain'[d].pc \in WorkingPc => chain'[d] = chain[d]
    BY <1>6 DEF AllStay
  <2>2. \A d \in Callers : chain'[d].pc \in HoldPc =>
           /\ chain'[d] = chain[d] /\ Holds(d) /\ chain[d].run \in Runs
           /\ chain[d].row \in DOMAIN rows[chain[d].run]
           /\ rows[chain[d].run][chain[d].row].stage = chain[d].stage
    BY <2>1, HoldersWork, WorkerRuns DEF Holds, RowsInv, RowsHeld, RunOf, RowOf
  <2>3. RowsHeld'
    BY <1>1, <2>2 DEF RowsHeld, Holds, RunOf, RowOf
  <2>4. OneHolder'
    BY <2>2 DEF RowsInv, OneHolder, Holds, RunOf
  <2>5. HeldUnstarted' /\ HeldTaken'
    <3>1. {"gate", "mark", "prepare"} \subseteq HoldPc /\ {"prepare", "exec"} \subseteq HoldPc
      BY DEF HoldPc
    <3> QED BY <1>1, <2>2, <3>1 DEF RowsInv, HeldUnstarted, HeldTaken, RowOf
  <2>6. SeedAlone'
    <3> SUFFICES ASSUME NEW q \in Runs, chain'[q].pc = "seed"
                 PROVE  /\ \A d \in Callers :
                              chain'[d].pc \in WorkingPc /\ chain'[d].run = q => d = q
                        /\ StageRunsWith(rows'[q], "running") = {}
                        /\ \A s \in Sweeps : \A e \in stale'[s] : e.run # q
      BY DEF SeedAlone, Works, Running
    <3>1. chain[q].pc = "seed"
      BY <2>1, HoldersWork, CallerFacts
    <3>2. /\ \A d \in Callers : chain[d].pc \in WorkingPc /\ chain[d].run = q => d = q
          /\ StageRunsWith(rows[q], "running") = {}
          /\ \A s \in Sweeps : \A e \in stale[s] : e.run # q
      BY <3>1 DEF RowsInv, SeedAlone, Works, Running
    <3>3. StageRunsWith(rows'[q], "running") = {}
      BY <1>1, <1>2, <3>2 DEF StageRunsWith
    <3> QED BY <2>1, <3>2, <3>3 DEF StaleShrinks
  <2> QED BY <1>3, <1>4, <2>3, <2>4, <2>5, <2>6 DEF RowsInv
<1> QED BY <1>5, <1>6

\* A chain that begins to look for its row, or does not hold one yet.
LEMMA ClaimKeepsRows ==
    ASSUME TypeInv, ClaimInv, RowsInv, NEW r \in Runs, ClaimStep(r)
    PROVE  RowsInv' /\ CancelledStay
<1>0. r \in Callers /\ rows' = rows /\ stale' = stale
  BY CallerFacts DEF ClaimStep
<1>1. /\ chain'[r].pc = "seed" /\ chain'[r].run = r /\ chain[r].pc \notin WorkingPc
      /\ \A d \in Callers : d # r => chain'[d] = chain[d]
  BY DEF ClaimStep, Off
<1>2. /\ \A d \in Callers : ~Works(d, r)
      /\ Running(r) = {}
      /\ \A s \in Sweeps : \A e \in stale[s] : e.run # r
  BY DEF ClaimStep, ClaimInv, WorkersClaimed, RunningRowsClaimed, StaleClaimed, Claimed,
         Works, Running, StageRunsWith
<1>3. \A d \in Callers : chain'[d].pc \in HoldPc => chain'[d] = chain[d] /\ d # r
  BY <1>1, HoldersWork
<1>4. RowsHeld' /\ OneHolder' /\ PendingUnstarted'
  BY <1>0, <1>3 DEF RowsInv, RowsHeld, OneHolder, PendingUnstarted, Holds, RunOf, RowOf
<1>5. HeldUnstarted' /\ HeldTaken'
  <2>1. {"gate", "mark", "prepare"} \subseteq HoldPc /\ {"prepare", "exec"} \subseteq HoldPc
    BY DEF HoldPc
  <2> QED BY <1>0, <1>3, <2>1 DEF RowsInv, HeldUnstarted, HeldTaken, RowOf
<1>6. SeedAlone'
  <2> SUFFICES ASSUME NEW q \in Runs, chain'[q].pc = "seed"
               PROVE  /\ \A d \in Callers :
                            chain'[d].pc \in WorkingPc /\ chain'[d].run = q => d = q
                      /\ StageRunsWith(rows'[q], "running") = {}
                      /\ \A s \in Sweeps : \A e \in stale'[s] : e.run # q
    BY DEF SeedAlone, Works, Running
  <2>1. CASE q = r
    BY <1>0, <1>1, <1>2, <2>1 DEF Works, Running
  <2>2. CASE q # r
    BY <1>0, <1>1, <2>2, CallerFacts DEF RowsInv, SeedAlone, Works, Running
  <2> QED BY <2>1, <2>2
<1>7. CancelledStay
  BY <1>0 DEF CancelledStay
<1> QED BY <1>4, <1>5, <1>6, <1>7 DEF RowsInv

\* A sweep reads a row of a run that a handler is about to start: there is none.
LEMMA ReadKeepsRows ==
    ASSUME TypeInv, RowsInv, NEW s \in Sweeps, ReadStep(s)
    PROVE  RowsInv' /\ CancelledStay
<1>0. /\ s \in Callers /\ s \notin Runs /\ rows' = rows
      /\ stale'[s] = StaleRows /\ \A t \in Sweeps : t # s => stale'[t] = stale[t]
  BY CallerFacts DEF ReadStep, TypeInv, TypeOK
<1>1. /\ chain'[s].pc \notin WorkingPc
      /\ \A d \in Callers : d # s => chain'[d] = chain[d]
  BY DEF ReadStep
<1>3. \A d \in Callers : chain'[d].pc \in HoldPc => chain'[d] = chain[d]
  BY <1>1, HoldersWork
<1>4. RowsHeld' /\ OneHolder' /\ PendingUnstarted'
  BY <1>0, <1>3 DEF RowsInv, RowsHeld, OneHolder, PendingUnstarted, Holds, RunOf, RowOf
<1>5. HeldUnstarted' /\ HeldTaken'
  <2>1. {"gate", "mark", "prepare"} \subseteq HoldPc /\ {"prepare", "exec"} \subseteq HoldPc
    BY DEF HoldPc
  <2> QED BY <1>0, <1>3, <2>1 DEF RowsInv, HeldUnstarted, HeldTaken, RowOf
<1>6. SeedAlone'
  <2> SUFFICES ASSUME NEW q \in Runs, chain'[q].pc = "seed"
               PROVE  /\ \A d \in Callers :
                            chain'[d].pc \in WorkingPc /\ chain'[d].run = q => d = q
                      /\ StageRunsWith(rows'[q], "running") = {}
                      /\ \A t \in Sweeps : \A e \in stale'[t] : e.run # q
    BY DEF SeedAlone, Works, Running
  <2>1. chain[q].pc = "seed"
    BY <1>0, <1>1, CallerFacts
  <2>2. /\ \A d \in Callers : chain[d].pc \in WorkingPc /\ chain[d].run = q => d = q
        /\ StageRunsWith(rows[q], "running") = {}
        /\ \A t \in Sweeps : \A e \in stale[t] : e.run # q
    BY <2>1 DEF RowsInv, SeedAlone, Works, Running
  <2>3. \A e \in StaleRows : e.run # q
    BY <2>2 DEF StaleRows
  <2> QED BY <1>0, <1>1, <2>2, <2>3
<1>7. CancelledStay
  BY <1>0 DEF CancelledStay
<1> QED BY <1>4, <1>5, <1>6, <1>7 DEF RowsInv

LEMMA TakeFacts ==
    ASSUME TypeInv, NEW s \in Sweeps, NEW e \in stale[s], TakeStep(s, e)
    PROVE  /\ e.run \in Runs /\ e.row \in DOMAIN rows[e.run]
           /\ Written(rows[e.run], rows'[e.run], e.row,
                      Spared(rows[e.run][e.row].status, "failed"))
           /\ \A q \in Runs : q # e.run => rows'[q] = rows[q]
           /\ \A t \in Sweeps : stale'[t] = IF t = s THEN stale[s] \ {e} ELSE stale[t]
<1>1. TypeOK /\ e.run \in Runs /\ e.row \in DOMAIN rows[e.run]
  BY DEF TypeInv, TypeOK, StaleKnown, StaleRow
<1>2. rows[e.run] \in Seq(StageRun)
  BY <1>1 DEF TypeOK
<1>3. \A t \in Sweeps : stale'[t] = IF t = s THEN stale[s] \ {e} ELSE stale[t]
  BY <1>1 DEF TakeStep, TypeOK
<1> QED BY <1>1, <1>2, <1>3, CompleteWrites, WriteElsewhere DEF TakeStep

LEMMA TakeKeepsRows ==
    ASSUME TypeInv, RowsInv, NEW s \in Sweeps, NEW e \in stale[s], TakeStep(s, e)
    PROVE  RowsInv' /\ CancelledStay
<1> DEFINE r == e.run
           i == e.row
<1>0. /\ s \in Callers /\ s \notin Runs /\ r \in Runs /\ i \in DOMAIN rows[r]
      /\ Written(rows[r], rows'[r], i, Spared(rows[r][i].status, "failed"))
      /\ \A q \in Runs : q # r => rows'[q] = rows[q]
      /\ \A t \in Sweeps : stale'[t] \subseteq stale[t]
  BY TakeFacts, CallerFacts
<1>1. /\ chain'[s].pc \in {"create", "finish"} /\ chain'[s].run = r
      /\ \A d \in Callers : d # s => chain'[d] = chain[d]
  BY DEF TakeStep
<1> HIDE DEF r, i
<1>2. \A q \in Runs : /\ DOMAIN rows'[q] = DOMAIN rows[q]
                      /\ \A j \in DOMAIN rows[q] :
                            /\ rows'[q][j].stage = rows[q][j].stage
                            /\ rows'[q][j].pid = rows[q][j].pid
                            /\ rows'[q][j].status = "pending" => rows[q][j].status = "pending"
                            /\ rows'[q][j].status = "running" => rows[q][j].status = "running"
                            /\ rows[q][j].status = "cancelled"
                                  => rows'[q][j].status = "cancelled"
  BY <1>0 DEF Written, Spared
<1>3. \A d \in Callers : chain'[d].pc \in HoldPc =>
         /\ chain'[d] = chain[d] /\ Holds(d) /\ chain[d].run \in Runs
         /\ chain[d].row \in DOMAIN rows[chain[d].run]
         /\ rows[chain[d].run][chain[d].row].stage = chain[d].stage
  <2>1. \A d \in Callers : chain'[d].pc \in HoldPc => chain'[d] = chain[d]
    BY <1>1 DEF HoldPc
  <2> QED BY <2>1, HoldersWork, WorkerRuns DEF Holds, RowsInv, RowsHeld, RunOf, RowOf
<1>4. RowsHeld' /\ PendingUnstarted'
  BY <1>2, <1>3 DEF RowsInv, RowsHeld, PendingUnstarted, Holds, RunOf, RowOf
<1>5. OneHolder'
  BY <1>3 DEF RowsInv, OneHolder, Holds, RunOf
<1>6. HeldUnstarted' /\ HeldTaken'
  <2>1. {"gate", "mark", "prepare"} \subseteq HoldPc /\ {"prepare", "exec"} \subseteq HoldPc
    BY DEF HoldPc
  <2> QED BY <1>2, <1>3, <2>1 DEF RowsInv, HeldUnstarted, HeldTaken, RowOf
<1>7. SeedAlone'
  <2> SUFFICES ASSUME NEW q \in Runs, chain'[q].pc = "seed"
               PROVE  /\ \A d \in Callers :
                            chain'[d].pc \in WorkingPc /\ chain'[d].run = q => d = q
                      /\ StageRunsWith(rows'[q], "running") = {}
                      /\ \A t \in Sweeps : \A f \in stale'[t] : f.run # q
    BY DEF SeedAlone, Works, Running
  <2>1. chain[q].pc = "seed"
    BY <1>0, <1>1, CallerFacts
  <2>2. /\ \A d \in Callers : chain[d].pc \in WorkingPc /\ chain[d].run = q => d = q
        /\ StageRunsWith(rows[q], "running") = {}
        /\ \A t \in Sweeps : \A f \in stale[t] : f.run # q
    BY <2>1 DEF RowsInv, SeedAlone, Works, Running
  <2>3. q # r
    BY <2>2 DEF r
  <2>4. StageRunsWith(rows'[q], "running") = {}
    BY <1>2, <2>2 DEF StageRunsWith
  <2> QED BY <1>0, <1>1, <2>2, <2>3, <2>4
<1>8. CancelledStay
  BY <1>2 DEF CancelledStay
<1> QED BY <1>4, <1>5, <1>6, <1>7, <1>8 DEF RowsInv

-------------------------------------------------------------------------------
(* The steps of the specification, by kind.                                *)

UserStep ==
    /\ UNCHANGED <<env, deployed, proc, daemon, chain, loop, stale>>
    /\ \A r \in Runs : Nudged(r, rows[r], rows'[r])

\* A sweep at boot starts from a daemon that was down.
SweepBegins(s) == ReadStep(s) /\ (s = Boot => daemon = "down")

LEMMA NextKinds ==
    ASSUME TypeInv, LoopInv, DownInv, [Next]_vars
    PROVE  \/ StillStep \/ UserStep
           \/ \E r \in Runs : ClaimStep(r)
           \/ \E s \in Sweeps : SweepBegins(s)
           \/ \E s \in Sweeps : \E e \in stale[s] : TakeStep(s, e)
           \/ \E c \in Callers : Work(c)
<1>1. ASSUME NEW r \in Runs, Deliver(r) \/ Handle(r)
      PROVE  StillStep \/ ClaimStep(r) \/ Work(r)
  <2>1. CASE TryAcquireRunningSlot(r) /\ CanAcquire(runStatus, r)
    BY <2>1, AcquireClaims
  <2>2. CASE ~(TryAcquireRunningSlot(r) /\ CanAcquire(runStatus, r))
    BY <1>1, <2>2, HandlerIsStill DEF Handle, Work
  <2> QED BY <2>1, <2>2
<1>2. ASSUME NEW s \in Sweeps, Sweep(s)
      PROVE  StillStep \/ \E e \in stale[s] : TakeStep(s, e)
  BY <1>2, SweepIsStill, SweepTakes DEF Sweep
<1>3. ASSUME NEW s \in Sweeps, Tick(s)
      PROVE  SweepBegins(s)
  BY <1>3, StartReads DEF Tick, At, dbVars, SweepBegins
<1>4. CASE StartDaemon
  <2>1. chain[Boot].pc = "idle" /\ Boot \in Sweeps
    BY <1>4, CallerFacts DEF StartDaemon, DownInv
  <2> QED BY <1>4, <2>1, StartReads DEF StartDaemon, dbVars, SweepBegins
<1>5. CASE DrainPending \/ Crash \/ Join \/ Disconnect
  BY <1>5, DaemonIsStill
<1>6. CASE User
  BY <1>6, UserNudges DEF UserStep
<1>7. CASE UNCHANGED vars
  BY <1>7, SameNudged DEF UserStep, vars
<1>8. ASSUME NEW c \in Callers, Launch(c) \/ PidRecorded(c)
      PROVE  Work(c)
  BY <1>8 DEF Work
<1> QED
  BY <1>1, <1>2, <1>3, <1>4, <1>5, <1>6, <1>7, <1>8, CallerFacts DEF Next, System

LEMMA RowsInit == Init => LoopInv /\ DownInv /\ RowsInv
BY IdleType, CallerFacts
   DEF Init, LoopInv, LoopsOK, DownInv, RowsInv, RowsHeld, OneHolder, PendingUnstarted,
       HeldUnstarted, HeldTaken, SeedAlone, Holds, HoldPc, NoLoop

LEMMA RowsNext ==
    TypeInv /\ ClaimInv /\ LoopInv /\ DownInv /\ RowsInv /\ [Next]_vars
       => LoopInv' /\ DownInv' /\ RowsInv' /\ CancelledStay
<1> SUFFICES ASSUME TypeInv, ClaimInv, LoopInv, DownInv, RowsInv, [Next]_vars
             PROVE  LoopInv' /\ DownInv' /\ RowsInv' /\ CancelledStay
  OBVIOUS
<1>1. CASE StillStep
  <2>1. \A r \in Runs : Nudged(r, rows[r], rows'[r])
    BY <1>1, SameNudged DEF StillStep
  <2>2. RowsInv' /\ CancelledStay
    BY <1>1, <2>1, FrameRows DEF StillStep
  <2> QED BY <1>1, <2>2 DEF StillStep, DownInv, Gone
<1>2. CASE UserStep
  <2>1. AllStay /\ StaleShrinks
    BY <1>2 DEF UserStep, AllStay, StaleShrinks
  <2>2. RowsInv' /\ CancelledStay
    BY <1>2, <2>1, FrameRows DEF UserStep
  <2> QED BY <1>2, <2>2 DEF UserStep, LoopInv, DownInv
<1>3. ASSUME NEW r \in Runs, ClaimStep(r)
      PROVE  LoopInv' /\ DownInv' /\ RowsInv' /\ CancelledStay
  BY <1>3, ClaimKeepsRows DEF ClaimStep, DownInv
<1>4. ASSUME NEW s \in Sweeps, SweepBegins(s)
      PROVE  LoopInv' /\ DownInv' /\ RowsInv' /\ CancelledStay
  BY <1>4, ReadKeepsRows DEF SweepBegins, ReadStep, DownInv
<1>5. ASSUME NEW s \in Sweeps, NEW e \in stale[s], TakeStep(s, e)
      PROVE  LoopInv' /\ DownInv' /\ RowsInv' /\ CancelledStay
  BY <1>5, TakeKeepsRows DEF TakeStep, DownInv
<1>6. ASSUME NEW c \in Callers, Work(c)
      PROVE  LoopInv' /\ DownInv' /\ RowsInv' /\ CancelledStay
  <2>1. OwnStep(c, RunOf(c))
    BY <1>6, WorkIsOwn
  <2>2. Move(c) /\ RunOf(c) \in Runs /\ chain[c].pc \in WorkingPc
    BY <1>6, WorkMoves, WorkerFacts DEF RowsInv
  <2>3. RowsInv' /\ CancelledStay
    BY <2>1, <2>2, MoveKeepsRows
  <2> QED BY <2>1, <2>3 DEF OwnStep, DownInv, Gone
<1> QED BY <1>1, <1>2, <1>3, <1>4, <1>5, <1>6, NextKinds

\* A stage_run that was cancelled once its driver was recorded is overwritten by
\* no chain, no sweep and no rejection; of the writers that do not look
\* (updateStageRunStatus), a chain writes to a row that it still holds and whose
\* driver has not started, and only an approval, which marks the row launching,
\* writes to any row.
THEOREM CancelledRowStays == Spec => CancelledRowFinal
<1>1. CancelledStay => \A r \in Runs : \A i \in DOMAIN rows[r] :
                          rows[r][i].status = "cancelled" /\ rows[r][i].pid
                             => rows'[r][i].status \in {"cancelled", "launching"}
  BY DEF CancelledStay
<1> QED BY <1>1, RowsInit, RowsNext, ClaimsInit, ClaimsNext, TypeInvHolds, PTL
        DEF Spec, CancelledRowFinal

-------------------------------------------------------------------------------
(* Sole workers.  With no sweep but the one at boot, a run has one worker  *)
(* at a time, and every row that says running, every driver and every      *)
(* unswept row of the run is accounted for by where that worker stands.    *)

BusyPc == {"prepare", "exec", "settle", "done", "failed"}

\* A failure of a driver that the budget of its stage does not cover.
LastFailure(row) == row.status = "failed" /\ row.pid /\ row.attempt > MaxRetries[row.stage]

\* No stage of the run will be started again.
Over(r) ==
    /\ Claimed(r)
    /\ Running(r) = {}
    /\ \A s \in Sweeps : \A e \in stale[s] : e.run # r
    /\ \A c \in Callers : Works(c, r) => chain[c].pc \in {"finish", "hook"}

OneWorker(r) == \A c, d \in Callers : Works(c, r) /\ Works(d, r) => c = d

\* What a sweep is still to look at: one row of a run that nobody works on.
UnsweptAlone(r) ==
    \A s \in Sweeps : \A e \in stale[s] : e.run = r =>
       /\ \A c \in Callers : ~Works(c, r)
       /\ \A f \in stale[s] : f.run = r => f = e
       /\ Running(r) \subseteq {e.row}

\* A row says running for the worker that holds it, or was left by a crash.
OneRunning(r) ==
    /\ \A i, j \in Running(r) : i = j
    /\ \A c \in Callers : Works(c, r) =>
          \A i \in Running(r) : chain[c].pc \in BusyPc /\ i = chain[c].row

DriversOwned(r) ==
    \A i \in proc[r] :
       \E c \in Callers : Works(c, r) /\ chain[c].pc = "exec" /\ chain[c].row = i

WorktreeHeld(r) ==
    \A c \in Callers : Works(c, r) /\ chain[c].pc \in {"mark", "prepare", "exec"} => env[r]

DrivenRunning(r) ==
    "decide" \notin Requests[r] => \A c \in Callers : Works(c, r) /\ chain[c].pc \in {"prepare", "exec"}
                          => RowOf(c).status \in {"running", "cancelled"}

DeployEnds(r) ==
    \/ deployed[r] = 0
    \/ deployed[r] = 1 /\ Over(r) /\ \A c \in Callers : ~Works(c, r)

LastFailureEnds(r) ==
    "decide" \notin Requests[r] => \A i \in DOMAIN rows[r] : LastFailure(rows[r][i]) =>
       /\ Over(r)
       /\ \A j \in DOMAIN rows[r] : LastFailure(rows[r][j]) => i = j

RunOK(r) ==
    /\ OneWorker(r)
    /\ UnsweptAlone(r)
    /\ OneRunning(r)
    /\ DriversOwned(r)
    /\ WorktreeHeld(r)
    /\ DrivenRunning(r)
    /\ DeployEnds(r)
    /\ LastFailureEnds(r)

WorkInv == \A r \in Runs : RunOK(r)

\* The chains that work on the run stay where they are, and so does the rest
\* of what belongs to it; or the process ends.
RunStays(r) ==
    /\ Gone \/ /\ \A d \in Callers : Works(d, r) => chain'[d] = chain[d]
               /\ \A d \in Callers : chain'[d].pc \in WorkingPc /\ chain'[d].run = r
                                        => chain'[d] = chain[d]
               /\ proc'[r] = proc[r]
    /\ StaleShrinks
    /\ env'[r] = env[r] /\ deployed'[r] = deployed[r]
    /\ Nudged(r, rows[r], rows'[r])

LEMMA NudgedRun ==
    ASSUME TypeInv, RowsInv, NEW r \in Runs, Nudged(r, rows[r], rows'[r])
    PROVE  /\ Running(r)' \subseteq Running(r)
           /\ "decide" \notin Requests[r] =>
                 /\ \A i \in DOMAIN rows[r] :
                       rows[r][i].status \in {"running", "cancelled"}
                          => rows'[r][i].status \in {"running", "cancelled"}
                 /\ \A i \in DOMAIN rows'[r] : LastFailure(rows'[r][i])
                       => i \in DOMAIN rows[r] /\ LastFailure(rows[r][i])
<1>1. \A i \in DOMAIN rows[r] : rows[r][i].status = "pending" => ~rows[r][i].pid
  BY DEF RowsInv, PendingUnstarted
<1>2. Running(r)' = {i \in DOMAIN rows'[r] : rows'[r][i].status = "running"}
  BY DEF Running, StageRunsWith
<1>3. ASSUME NEW s \in Stages, Created(rows[r], rows'[r], s)
      PROVE  /\ Running(r)' \subseteq Running(r)
             /\ \A i \in DOMAIN rows[r] : rows'[r][i] = rows[r][i]
             /\ \A i \in DOMAIN rows'[r] : LastFailure(rows'[r][i])
                   => i \in DOMAIN rows[r] /\ LastFailure(rows[r][i])
  BY <1>2, <1>3 DEF Created, Running, StageRunsWith, LastFailure
<1>4. ASSUME DOMAIN rows'[r] = DOMAIN rows[r],
             \A i \in DOMAIN rows[r] :
                /\ rows'[r][i].stage = rows[r][i].stage
                /\ rows'[r][i].attempt = rows[r][i].attempt
                /\ rows'[r][i].pid = rows[r][i].pid
                /\ \/ rows'[r][i].status \in {rows[r][i].status, "cancelled"}
                   \/ "decide" \in Requests[r] /\ rows'[r][i].status \in {"launching", "failed"}
      PROVE  /\ Running(r)' \subseteq Running(r)
             /\ "decide" \notin Requests[r] =>
                   /\ \A i \in DOMAIN rows[r] :
                         rows[r][i].status \in {"running", "cancelled"}
                            => rows'[r][i].status \in {"running", "cancelled"}
                   /\ \A i \in DOMAIN rows'[r] : LastFailure(rows'[r][i])
                         => i \in DOMAIN rows[r] /\ LastFailure(rows[r][i])
  BY <1>1, <1>2, <1>4 DEF Running, StageRunsWith, LastFailure
<1> QED BY <1>3, <1>4 DEF Nudged

LEMMA FrameRun ==
    ASSUME TypeInv, RowsInv, ClaimsKept, NEW r \in Runs, RunOK(r), RunStays(r)
    PROVE  RunOK(r)'
<1>0. /\ Running(r)' \subseteq Running(r)
      /\ "decide" \notin Requests[r] =>
            /\ \A i \in DOMAIN rows[r] :
                  rows[r][i].status \in {"running", "cancelled"}
                     => rows'[r][i].status \in {"running", "cancelled"}
            /\ \A i \in DOMAIN rows'[r] : LastFailure(rows'[r][i])
                  => i \in DOMAIN rows[r] /\ LastFailure(rows[r][i])
  BY NudgedRun DEF RunStays
<1>works. \A d \in Callers : Works(d, r)' <=> chain'[d].pc \in WorkingPc /\ chain'[d].run = r
  BY DEF Works
<1>1. \A d \in Callers : Works(d, r)' => Works(d, r) /\ chain'[d] = chain[d]
  BY <1>works DEF RunStays, Gone, Works, WorkingPc, LaunchPc
<1>2. Over(r) => Over(r)'
  BY <1>0, <1>1 DEF RunStays, StaleShrinks, Over, ClaimsKept, Claimed
<1>3. OneWorker(r)'
  BY <1>1 DEF RunOK, OneWorker
<1>4. UnsweptAlone(r)'
  BY <1>0, <1>1 DEF RunOK, UnsweptAlone, RunStays, StaleShrinks
<1>5. OneRunning(r)'
  BY <1>0, <1>1 DEF RunOK, OneRunning
<1>6. DriversOwned(r)'
  <2>1. CASE Gone
    BY <2>1 DEF Gone, DriversOwned
  <2>2. CASE ~Gone
    BY <2>2, <1>works DEF RunStays, RunOK, DriversOwned, Works
  <2> QED BY <2>1, <2>2
<1>7. WorktreeHeld(r)'
  BY <1>1 DEF RunOK, WorktreeHeld, RunStays
<1>8. DrivenRunning(r)'
  <2> SUFFICES ASSUME "decide" \notin Requests[r],
                      NEW c \in Callers, Works(c, r)', chain'[c].pc \in {"prepare", "exec"}
               PROVE  rows'[chain'[c].run][chain'[c].row].status \in {"running", "cancelled"}
    BY DEF DrivenRunning, RowOf
  <2>1. /\ chain'[c] = chain[c] /\ chain[c].run = r /\ Holds(c)
        /\ rows[r][chain[c].row].status \in {"running", "cancelled"}
    BY <1>1 DEF RunOK, DrivenRunning, RowOf, Works, Holds, HoldPc
  <2>2. chain[c].row \in DOMAIN rows[r]
    BY <2>1 DEF RowsInv, RowsHeld, RunOf
  <2> QED BY <1>0, <2>1, <2>2
<1>9. DeployEnds(r)'
  BY <1>1, <1>2 DEF RunOK, DeployEnds, RunStays
<1>10. LastFailureEnds(r)'
  BY <1>0, <1>2 DEF RunOK, LastFailureEnds
<1> QED BY <1>3, <1>4, <1>5, <1>6, <1>7, <1>8, <1>9, <1>10 DEF RunOK

-------------------------------------------------------------------------------
(* The run of the chain that moves.                                        *)

\* What the invariant says of the run of its only worker, before a move ...
RunBefore(c) ==
    LET r == RunOf(c)
        pc == chain[c].pc
        i == chain[c].row IN
    /\ \A j \in DOMAIN rows[r] : rows[r][j].status = "running" => pc \in BusyPc /\ j = i
    /\ \A j \in proc[r] : pc = "exec" /\ j = i
    /\ pc \in {"mark", "prepare", "exec"} => env[r]
    /\ "decide" \notin Requests[r] /\ pc \in {"prepare", "exec"}
          => rows[r][i].status \in {"running", "cancelled"}
    /\ deployed[r] = 0
    /\ "decide" \notin Requests[r] => \A j \in DOMAIN rows[r] : LastFailure(rows[r][j]) =>
          /\ pc \in {"finish", "hook"}
          /\ \A k \in DOMAIN rows[r] : LastFailure(rows[r][k]) => j = k

\* ... and after it.
RunAfter(c) ==
    LET r == RunOf(c)
        pc == chain'[c].pc
        i == chain'[c].row IN
    /\ \A j \in DOMAIN rows'[r] : rows'[r][j].status = "running" => pc \in BusyPc /\ j = i
    /\ Gone \/ \A j \in proc'[r] : pc = "exec" /\ j = i
    /\ pc \in {"mark", "prepare", "exec"} => env'[r]
    /\ "decide" \notin Requests[r] /\ pc \in {"prepare", "exec"}
          => rows'[r][i].status \in {"running", "cancelled"}
    /\ deployed'[r] = 0 \/ (deployed'[r] = 1 /\ Left(c))
    /\ "decide" \notin Requests[r] => \A j \in DOMAIN rows'[r] : LastFailure(rows'[r][j]) =>
          /\ pc \in {"finish", "hook"} \/ Left(c)
          /\ \A k \in DOMAIN rows'[r] : LastFailure(rows'[r][k]) => j = k

LEMMA WorkerBefore ==
    ASSUME TypeInv, RowsInv, NEW c \in Callers, chain[c].pc \in WorkingPc,
           RunOf(c) \in Runs, RunOK(RunOf(c))
    PROVE  RunBefore(c)
<1> DEFINE r == RunOf(c)
<1>1. Works(c, r) /\ \A d \in Callers : Works(d, r) => d = c
  BY DEF Works, RunOf, RunOK, OneWorker
<1>2. \A j \in DOMAIN rows[r] : rows[r][j].status = "running"
         => chain[c].pc \in BusyPc /\ j = chain[c].row
  BY <1>1 DEF RunOK, OneRunning, Running, StageRunsWith
<1>3. \A j \in proc[r] : chain[c].pc = "exec" /\ j = chain[c].row
  BY <1>1 DEF RunOK, DriversOwned
<1>4. chain[c].pc \in {"mark", "prepare", "exec"} => env[r]
  BY <1>1 DEF RunOK, WorktreeHeld
<1>5. "decide" \notin Requests[r] /\ chain[c].pc \in {"prepare", "exec"}
         => rows[r][chain[c].row].status \in {"running", "cancelled"}
  BY <1>1 DEF RunOK, DrivenRunning, RowOf, RunOf
<1>6. deployed[r] = 0
  BY <1>1 DEF RunOK, DeployEnds
<1>7. "decide" \notin Requests[r] => \A j \in DOMAIN rows[r] : LastFailure(rows[r][j]) =>
         /\ chain[c].pc \in {"finish", "hook"}
         /\ \A k \in DOMAIN rows[r] : LastFailure(rows[r][k]) => j = k
  BY <1>1 DEF RunOK, LastFailureEnds, Over
<1> QED BY <1>2, <1>3, <1>4, <1>5, <1>6, <1>7 DEF RunBefore

LEMMA WorkerAfter ==
    ASSUME TypeInv, RowsInv, NEW c \in Callers, RunOf(c) \in Runs,
           chain[c] \in Chain, rows[RunOf(c)] \in Seq(StageRun), Move(c), RunBefore(c)
    PROVE  RunAfter(c)
<1> DEFINE r == RunOf(c)
           i == chain[c].row
<1>0. /\ RowOf(c) = rows[r][i]
      /\ Holds(c) => i \in DOMAIN rows[r] /\ rows[r][i].stage = chain[c].stage
      /\ chain[c].pc \in {"gate", "mark", "prepare"} => ~rows[r][i].pid
      /\ \A j \in DOMAIN rows[r] : rows[r][j].attempt \in Nat
      /\ chain[c].stage \in Stages /\ MaxRetries[chain[c].stage] \in Nat
  BY RowFields, OrchestratorAssumption
     DEF RowsInv, RowsHeld, HeldUnstarted, RowOf, RunOf, StageRun, Chain
<1>1. CASE Creates(c)
  BY <1>0, <1>1 DEF Creates, Created, SameHost, SameProc, RunBefore, RunAfter, BusyPc, LastFailure
<1>2. CASE Parks(c)
  BY <1>0, <1>2 DEF Parks, Left, Puts, Written, SameHost, SameProc, RunBefore, RunAfter, BusyPc,
                    LastFailure, Holds, HoldPc, WorkingPc, LaunchPc
<1>3. CASE Refuses(c)
  BY <1>0, <1>3 DEF Refuses, Completes, Puts, Written, Spared, SameProc, RunBefore,
                    RunAfter, BusyPc, LastFailure, Holds, HoldPc
<1>4. CASE Acquires(c)
  BY <1>0, <1>4 DEF Acquires, Left, Kept, SameRows, SameProc, RunBefore, RunAfter, BusyPc,
                    WorkingPc, LaunchPc
<1>5. CASE Marks(c)
  BY <1>0, <1>5 DEF Marks, Kept, Puts, Written, SameHost, SameProc, RunBefore, RunAfter, BusyPc,
                    LastFailure, Holds, HoldPc
<1>6. CASE Spawns(c)
  BY <1>0, <1>6 DEF Spawns, Kept, SameRows, SameHost, SameProc, RunBefore, RunAfter, BusyPc
<1>7. CASE Exits(c)
  BY <1>0, <1>7 DEF Exits, Kept, SameRows, SameHost, RunBefore, RunAfter, BusyPc
<1>8. CASE Records(c)
  BY <1>0, <1>8 DEF Records, Recorded, SameHost, SameProc, RunBefore, RunAfter, BusyPc,
                    LastFailure, Holds, HoldPc
<1>9. CASE Settles(c)
  BY <1>0, <1>9 DEF Settles, Kept, SameRows, SameHost, SameProc, RunBefore, RunAfter, BusyPc
<1>10. CASE Fails(c)
  <2>1. chain'[c].pc = "create" => ~(rows[r][i].attempt > MaxRetries[rows[r][i].stage])
    BY <1>0, <1>10 DEF Fails, HasBudget, Holds, HoldPc
  <2>2. /\ DOMAIN rows'[r] = DOMAIN rows[r] /\ i \in DOMAIN rows[r]
        /\ \A j \in DOMAIN rows[r] : j # i => rows'[r][j] = rows[r][j]
        /\ rows'[r][i].stage = rows[r][i].stage /\ rows'[r][i].attempt = rows[r][i].attempt
        /\ rows'[r][i].status \in {"failed", "cancelled"}
    BY <1>0, <1>10 DEF Fails, Completes, Puts, Written, Spared, Holds, HoldPc
  <2>3. /\ chain[c].pc = "failed" /\ chain'[c].pc \in {"create", "finish"}
        /\ proc'[r] = proc[r] /\ deployed'[r] = deployed[r]
    BY <1>10 DEF Fails, SameHost, SameProc
  <2>4. "decide" \notin Requests[r] => \A j \in DOMAIN rows[r] : ~LastFailure(rows[r][j])
    BY <2>3 DEF RunBefore
  <2>5. \A j \in DOMAIN rows'[r] : rows'[r][j].status # "running"
    BY <2>2, <2>3 DEF RunBefore
  <2>6. "decide" \notin Requests[r]
           => \A j \in DOMAIN rows'[r] : LastFailure(rows'[r][j]) => j = i
    BY <2>2, <2>4
  <2>7. chain'[c].pc = "create" => ~LastFailure(rows'[r][i])
    BY <2>1, <2>2 DEF LastFailure
  <2>8. \A j \in proc'[r] : FALSE
    BY <2>3 DEF RunBefore
  <2> QED BY <2>2, <2>3, <2>5, <2>6, <2>7, <2>8 DEF RunBefore, RunAfter
<1>11. CASE Succeeds(c)
  BY <1>0, <1>11 DEF Succeeds, Left, Completes, Puts, Written, Spared, SameHost, SameProc,
                     RunBefore, RunAfter, BusyPc, LastFailure, Holds, HoldPc, WorkingPc, LaunchPc
<1>12. CASE Finishes(c)
  BY <1>0, <1>12 DEF Finishes, SameRows, SameHost, SameProc, RunBefore, RunAfter, BusyPc
<1>13. CASE Ends(c)
  BY <1>0, <1>13 DEF Ends, Left, SameRows, SameProc, RunBefore, RunAfter, BusyPc, WorkingPc,
                     LaunchPc
<1>14. CASE Chooses(c)
  BY <1>0, <1>14 DEF Chooses, SameRows, SameHost, SameProc, RunBefore, RunAfter, BusyPc
<1> QED
  BY <1>1, <1>2, <1>3, <1>4, <1>5, <1>6, <1>7, <1>8, <1>9, <1>10, <1>11, <1>12, <1>13, <1>14
     DEF Move

LEMMA OwnRun ==
    ASSUME TypeInv, ClaimInv, ClaimsKept, NEW c \in Callers, chain[c].pc \in WorkingPc,
           NEW q \in Runs, q = RunOf(c), RunOK(q), OwnStep(c, q), RunAfter(c)
    PROVE  RunOK(q)'
<1>0. chain[c].run = q /\ Works(c, q)
  BY DEF Works, RunOf
<1>1. /\ \A d \in Callers : Works(d, q) => d = c
      /\ \A s \in Sweeps : \A e \in stale[s] : e.run # q
  BY <1>0 DEF RunOK, OneWorker, UnsweptAlone
<1>2. \A d \in Callers : Works(d, q)' => d = c
  BY <1>1 DEF OwnStep, OthersStay, Off, Gone, Works, WorkingPc, LaunchPc
<1>3. \A s \in Sweeps : \A e \in stale'[s] : e.run # q
  BY <1>1 DEF OwnStep, StaleShrinks
<1>4. chain'[c].pc \in WorkingPc => chain'[c].run = q
  BY DEF OwnStep
<1>5. runStatus'[q] \notin {"absent", "pending"}
  BY <1>0 DEF ClaimInv, WorkersClaimed, ClaimsKept, Works
<1>6. /\ \A j \in DOMAIN rows'[q] : rows'[q][j].status = "running"
             => chain'[c].pc \in BusyPc /\ j = chain'[c].row
      /\ Gone \/ \A j \in proc'[q] : chain'[c].pc = "exec" /\ j = chain'[c].row
      /\ chain'[c].pc \in {"mark", "prepare", "exec"} => env'[q]
      /\ "decide" \notin Requests[q] /\ chain'[c].pc \in {"prepare", "exec"}
             => rows'[q][chain'[c].row].status \in {"running", "cancelled"}
      /\ deployed'[q] = 0 \/ (deployed'[q] = 1 /\ chain'[c].pc \notin WorkingPc)
      /\ "decide" \notin Requests[q] => \A j \in DOMAIN rows'[q] : LastFailure(rows'[q][j]) =>
            /\ chain'[c].pc \in {"finish", "hook"} \/ chain'[c].pc \notin WorkingPc
            /\ \A k \in DOMAIN rows'[q] : LastFailure(rows'[q][k]) => j = k
  BY DEF RunAfter, Left
<1>works. \A d \in Callers : Works(d, q)' <=> chain'[d].pc \in WorkingPc /\ chain'[d].run = q
  BY DEF Works
<1>busy. BusyPc \subseteq WorkingPc \ {"finish", "hook"} /\ "exec" \in WorkingPc
  BY DEF BusyPc, WorkingPc, LaunchPc
<1>7. OneWorker(q)'
  BY <1>2 DEF OneWorker
<1>8. UnsweptAlone(q)'
  BY <1>3 DEF UnsweptAlone
<1>9. OneRunning(q)'
  BY <1>2, <1>6 DEF OneRunning, Running, StageRunsWith
<1>10. DriversOwned(q)'
  <2>1. CASE Gone
    BY <2>1 DEF Gone, DriversOwned
  <2>2. CASE ~Gone
    BY <1>4, <1>6, <1>works, <1>busy, <2>2 DEF DriversOwned
  <2> QED BY <2>1, <2>2
<1>11. WorktreeHeld(q)'
  BY <1>2, <1>6 DEF WorktreeHeld
<1>12. DrivenRunning(q)'
  BY <1>2, <1>6, <1>works DEF DrivenRunning, RowOf
<1>over. ASSUME chain'[c].pc \in {"finish", "hook"} \/ chain'[c].pc \notin WorkingPc
         PROVE  Over(q)'
  <2>1. Running(q)' = {}
    BY <1>6, <1>busy, <1>over DEF Running, StageRunsWith
  <2>2. \A d \in Callers : Works(d, q)' => chain'[d].pc \in {"finish", "hook"}
    BY <1>2, <1>works, <1>over
  <2> QED BY <1>3, <1>5, <2>1, <2>2 DEF Over, Claimed
<1>13. DeployEnds(q)'
  <2>1. CASE deployed'[q] = 0
    BY <2>1 DEF DeployEnds
  <2>2. CASE deployed'[q] = 1 /\ chain'[c].pc \notin WorkingPc
    BY <1>2, <1>works, <1>over, <2>2 DEF DeployEnds
  <2> QED BY <1>6, <2>1, <2>2
<1>14. LastFailureEnds(q)'
  BY <1>6, <1>over DEF LastFailureEnds
<1> QED BY <1>7, <1>8, <1>9, <1>10, <1>11, <1>12, <1>13, <1>14 DEF RunOK

-------------------------------------------------------------------------------
(* WorkInv is inductive.                                                   *)

LEMMA ClaimKeepsWork ==
    ASSUME TypeInv, ClaimInv, ClaimsKept, RowsInv, WorkInv, NEW r \in Runs, ClaimStep(r)
    PROVE  WorkInv'
<1>0. /\ UNCHANGED <<rows, env, deployed, proc, stale>> /\ r \in Callers
      /\ chain'[r].pc = "seed" /\ chain'[r].run = r /\ chain[r].pc \notin WorkingPc
      /\ \A d \in Callers : d # r => chain'[d] = chain[d]
  BY CallerFacts DEF ClaimStep, Off
<1>1. ASSUME NEW q \in Runs, q # r
      PROVE  RunOK(q)'
  <2>1. RunStays(q)
    BY <1>0, <1>1, SameNudged DEF RunStays, StaleShrinks, Works
  <2> QED BY <2>1, FrameRun DEF WorkInv
<1>2. RunOK(r)'
  <2>1. /\ ~Claimed(r)
        /\ \A d \in Callers : ~Works(d, r)
        /\ Running(r) = {}
        /\ \A s \in Sweeps : \A e \in stale[s] : e.run # r
    BY DEF ClaimStep, ClaimInv, WorkersClaimed, RunningRowsClaimed, StaleClaimed, Claimed,
           Works, Running, StageRunsWith
  <2>2. \A d \in Callers : Works(d, r)' => d = r
    BY <1>0, <2>1 DEF Works
  <2>3. Running(r)' = {}
    BY <1>0, <2>1 DEF Running
  <2>4. /\ proc[r] = {} /\ deployed[r] = 0
        /\ "decide" \notin Requests[r] => \A i \in DOMAIN rows[r] : ~LastFailure(rows[r][i])
    BY <2>1 DEF WorkInv, RunOK, DriversOwned, DeployEnds, LastFailureEnds, Over
  <2>5. OneWorker(r)' /\ UnsweptAlone(r)' /\ OneRunning(r)'
    BY <1>0, <2>1, <2>2, <2>3 DEF OneWorker, UnsweptAlone, OneRunning
  <2>6. DriversOwned(r)' /\ DeployEnds(r)' /\ LastFailureEnds(r)'
    BY <1>0, <2>4 DEF DriversOwned, DeployEnds, LastFailureEnds
  <2>7. WorktreeHeld(r)' /\ DrivenRunning(r)'
    BY <1>0, <2>2 DEF WorktreeHeld, DrivenRunning
  <2> QED BY <2>5, <2>6, <2>7 DEF RunOK
<1> QED BY <1>1, <1>2 DEF WorkInv

\* The sweep at boot finds nobody at work, and at most one row of a run.
LEMMA ReadKeepsWork ==
    ASSUME NoPeriodicSweep, TypeInv, ClaimsKept, DownInv, WorkInv, NEW s \in Sweeps, SweepBegins(s)
    PROVE  WorkInv'
<1>0. /\ s = Boot /\ s \in Callers /\ daemon = "down"
      /\ UNCHANGED <<rows, env, deployed, proc>>
      /\ chain'[s].pc \notin WorkingPc
      /\ \A d \in Callers : d # s => chain'[d] = chain[d]
      /\ \A t \in Sweeps : stale'[t] = StaleRows
  BY CallerFacts DEF NoPeriodicSweep, SweepBegins, ReadStep, TypeInv, TypeOK
<1>1. \A d \in Callers : chain[d].pc \notin WorkingPc /\ chain'[d].pc \notin WorkingPc
  BY <1>0 DEF DownInv, WorkingPc, LaunchPc
<1> SUFFICES ASSUME NEW q \in Runs
             PROVE  RunOK(q)'
  BY DEF WorkInv
<1>2. /\ \A d \in Callers : ~Works(d, q)
      /\ \A d \in Callers : ~Works(d, q)'
  BY <1>1 DEF Works
<1>3. Running(q)' = Running(q) /\ \A i, j \in Running(q) : i = j
  BY <1>0 DEF Running, WorkInv, RunOK, OneRunning
<1>4. \A e \in StaleRows : e.run = q =>
         e.row \in Running(q) /\ e = [run |-> q, row |-> e.row, pid |-> rows[q][e.row].pid]
  BY DEF StaleRows, Running
<1>5. UnsweptAlone(q)'
  <2> SUFFICES ASSUME NEW e \in StaleRows, e.run = q
               PROVE  /\ \A f \in StaleRows : f.run = q => f = e
                      /\ Running(q) \subseteq {e.row}
    BY <1>0, <1>2, <1>3 DEF UnsweptAlone
  <2>1. \A f \in StaleRows : f.run = q => f = e
    <3> SUFFICES ASSUME NEW f \in StaleRows, f.run = q
                 PROVE  f = e
      OBVIOUS
    <3>1. f.row = e.row
      BY <1>3, <1>4
    <3> QED BY <1>4, <3>1
  <2> QED BY <1>3, <1>4, <2>1
<1>6. OneWorker(q)' /\ OneRunning(q)' /\ WorktreeHeld(q)' /\ DrivenRunning(q)'
  BY <1>2, <1>3 DEF OneWorker, OneRunning, WorktreeHeld, DrivenRunning
<1>7. DriversOwned(q)'
  BY <1>0, <1>2 DEF WorkInv, RunOK, DriversOwned
<1>8. Over(q) => Over(q)'
  BY <1>0, <1>2, <1>3, <1>4 DEF Over, ClaimsKept, Claimed
<1>9. DeployEnds(q)' /\ LastFailureEnds(q)'
  BY <1>0, <1>2, <1>8 DEF WorkInv, RunOK, DeployEnds, LastFailureEnds
<1> QED BY <1>5, <1>6, <1>7, <1>9 DEF RunOK

LEMMA TakeKeepsWork ==
    ASSUME NoPeriodicSweep, TypeInv, ClaimInv, ClaimsKept, RowsInv, WorkInv,
           NEW s \in Sweeps, NEW e \in stale[s], TakeStep(s, e)
    PROVE  WorkInv'
<1> DEFINE r == e.run
           i == e.row
<1>0. /\ s \in Callers /\ r \in Runs /\ i \in DOMAIN rows[r] /\ rows[r] \in Seq(StageRun)
      /\ Written(rows[r], rows'[r], i, Spared(rows[r][i].status, "failed"))
      /\ \A q \in Runs : q # r => rows'[q] = rows[q]
      /\ \A t \in Sweeps : t = s /\ stale'[t] = stale[s] \ {e}
  BY TakeFacts, CallerFacts DEF NoPeriodicSweep, TypeInv, TypeOK
<1>1. /\ chain[s].pc \notin WorkingPc /\ chain'[s].run = r
      /\ chain'[s].pc \in {"create", "finish"}
      /\ chain'[s].pc = "create" => HasBudget(rows[r][i].stage, rows[r][i].attempt)
      /\ \A d \in Callers : d # s => chain'[d] = chain[d]
      /\ UNCHANGED <<env, deployed, proc>>
  BY DEF TakeStep, Off
<1>2. ASSUME NEW q \in Runs, q # r
      PROVE  RunOK(q)'
  <2>1. RunStays(q)
    BY <1>0, <1>1, <1>2, SameNudged DEF RunStays, StaleShrinks, Works
  <2> QED BY <2>1, FrameRun DEF WorkInv
<1>3. /\ \A d \in Callers : ~Works(d, r)
      /\ \A f \in stale[s] : f.run = r => f = e
      /\ Running(r) \subseteq {i}
  BY <1>0 DEF WorkInv, RunOK, UnsweptAlone
<1>4. RunOK(r)'
  <2> SUFFICES ASSUME NEW q \in Runs, q = r
               PROVE  RunOK(q)'
    BY <1>0
  <2>1. \A d \in Callers : Works(d, q)' => d = s
    BY <1>1, <1>3 DEF Works
  <2>2. \A t \in Sweeps : \A f \in stale'[t] : f.run # q
    BY <1>0, <1>3
  <2>3. /\ DOMAIN rows'[q] = DOMAIN rows[q]
        /\ \A j \in DOMAIN rows[q] : j # i => rows'[q][j] = rows[q][j]
        /\ rows'[q][i].stage = rows[q][i].stage /\ rows'[q][i].attempt = rows[q][i].attempt
        /\ rows'[q][i].status \in {"failed", "cancelled"}
    BY <1>0 DEF Written, Spared
  <2>4. Running(q)' = {}
    BY <1>3, <2>3 DEF Running, StageRunsWith
  <2>5. proc'[q] = {}
    BY <1>1, <1>3 DEF WorkInv, RunOK, DriversOwned
  <2>6. ~Over(q)
    BY DEF Over
  <2>7. /\ deployed'[q] = 0
        /\ "decide" \notin Requests[q] => \A j \in DOMAIN rows[q] : ~LastFailure(rows[q][j])
    BY <1>1, <2>6 DEF WorkInv, RunOK, DeployEnds, LastFailureEnds
  <2>8. "decide" \notin Requests[q] =>
           \A j \in DOMAIN rows'[q] : LastFailure(rows'[q][j]) => j = i /\ chain'[s].pc = "finish"
    <3>1. rows[q][i].attempt \in Nat /\ MaxRetries[rows[q][i].stage] \in Nat
      BY <1>0, RowFields, OrchestratorAssumption DEF StageRun
    <3>2. chain'[s].pc = "create" => ~(rows'[q][i].attempt > MaxRetries[rows'[q][i].stage])
      BY <1>1, <2>3, <3>1 DEF HasBudget
    <3>3. "decide" \notin Requests[q]
             => \A j \in DOMAIN rows'[q] : LastFailure(rows'[q][j]) => j = i
      BY <2>3, <2>7
    <3> QED BY <1>1, <3>2, <3>3 DEF LastFailure
  <2>9. chain'[s].pc = "finish" => Over(q)'
    <3>1. runStatus'[q] \notin {"absent", "pending"}
      BY DEF ClaimInv, StaleClaimed, ClaimsKept
    <3> QED BY <2>1, <2>2, <2>4, <3>1 DEF Over, Claimed
  <2>10. OneWorker(q)' /\ UnsweptAlone(q)' /\ OneRunning(q)' /\ DriversOwned(q)'
    BY <2>1, <2>2, <2>4, <2>5 DEF OneWorker, UnsweptAlone, OneRunning, DriversOwned
  <2>11. WorktreeHeld(q)' /\ DrivenRunning(q)'
    BY <1>1, <2>1 DEF WorktreeHeld, DrivenRunning
  <2>12. DeployEnds(q)' /\ LastFailureEnds(q)'
    BY <2>7, <2>8, <2>9 DEF DeployEnds, LastFailureEnds
  <2> QED BY <2>10, <2>11, <2>12 DEF RunOK
<1> QED BY <1>2, <1>4 DEF WorkInv

LEMMA WorkKeepsWork ==
    ASSUME TypeInv, ClaimInv, ClaimsKept, LoopInv, DownInv, RowsInv, WorkInv,
           NEW c \in Callers, Work(c)
    PROVE  WorkInv'
<1> DEFINE r == RunOf(c)
<1>0. /\ r \in Runs /\ r = chain[c].run /\ chain[c].pc \in WorkingPc /\ chain[c] \in Chain
      /\ rows[r] \in Seq(StageRun) /\ Move(c) /\ OwnStep(c, r)
  BY WorkerFacts, WorkMoves, WorkIsOwn DEF RowsInv
<1>1. RunAfter(c)
  BY <1>0, WorkerBefore, WorkerAfter DEF WorkInv
<1> SUFFICES ASSUME NEW q \in Runs
             PROVE  RunOK(q)'
  BY DEF WorkInv
<1>2. CASE q = r
  BY <1>0, <1>1, <1>2, OwnRun DEF WorkInv
<1>3. CASE q # r
  <2>1. ASSUME Gone PROVE RunStays(q)
    BY <1>0, <1>3, <2>1, SameNudged DEF RunStays, OwnStep
  <2>2. ASSUME ~Gone PROVE RunStays(q)
    <3>1. \A d \in Callers : d # c => \/ chain'[d] = chain[d]
                                      \/ chain[d].pc \notin WorkingPc /\ chain'[d].pc \notin WorkingPc
      BY <1>0, <2>2 DEF OwnStep, OthersStay, Off
    <3>2. chain'[c].pc \in WorkingPc => chain'[c].run = r
      BY <1>0 DEF OwnStep
    <3>3. /\ \A d \in Callers : Works(d, q) => chain'[d] = chain[d]
          /\ \A d \in Callers : chain'[d].pc \in WorkingPc /\ chain'[d].run = q
                                   => chain'[d] = chain[d]
      BY <1>0, <1>3, <3>1, <3>2 DEF Works
    <3> QED BY <1>0, <1>3, <2>2, <3>3, SameNudged DEF RunStays, OwnStep
  <2>3. RunStays(q)
    BY <2>1, <2>2
  <2> QED BY <2>3, FrameRun DEF WorkInv
<1> QED BY <1>2, <1>3

LEMMA WorkInit == Init => WorkInv
<1> SUFFICES ASSUME Init, NEW r \in Runs
             PROVE  RunOK(r)
  BY DEF WorkInv
<1>1. \A c \in Callers : ~Works(c, r)
  BY IdleType DEF Init, Works, WorkingPc, LaunchPc
<1>2. /\ rows[r] = <<>> /\ proc[r] = {} /\ deployed[r] = 0
      /\ \A s \in Sweeps : stale[s] = {}
  BY DEF Init
<1>3. Running(r) = {}
  BY <1>2 DEF Running, StageRunsWith
<1> QED BY <1>1, <1>2, <1>3
        DEF RunOK, OneWorker, UnsweptAlone, OneRunning, DriversOwned, WorktreeHeld,
            DrivenRunning, DeployEnds, LastFailureEnds

LEMMA WorkNext ==
    ASSUME NoPeriodicSweep
    PROVE  TypeInv /\ ClaimInv /\ LoopInv /\ DownInv /\ RowsInv /\ WorkInv /\ [Next]_vars
              => WorkInv'
<1> SUFFICES ASSUME TypeInv, ClaimInv, LoopInv, DownInv, RowsInv, WorkInv, [Next]_vars
             PROVE  WorkInv'
  OBVIOUS
<1>0. ClaimsKept
  BY ClaimsNext, SlotStepKeepsClaims
<1>1. ASSUME StillStep \/ UserStep
      PROVE  WorkInv'
  <2> SUFFICES ASSUME NEW q \in Runs
               PROVE  RunOK(q)'
    BY DEF WorkInv
  <2>1. RunStays(q)
    BY <1>1, SameNudged DEF StillStep, UserStep, AllStay, RunStays, StaleShrinks, Works, Off
  <2> QED BY <1>0, <2>1, FrameRun DEF WorkInv
<1>2. ASSUME NEW r \in Runs, ClaimStep(r) PROVE WorkInv'
  BY <1>0, <1>2, ClaimKeepsWork
<1>3. ASSUME NEW s \in Sweeps, SweepBegins(s) PROVE WorkInv'
  BY <1>0, <1>3, ReadKeepsWork
<1>4. ASSUME NEW s \in Sweeps, NEW e \in stale[s], TakeStep(s, e) PROVE WorkInv'
  BY <1>0, <1>4, TakeKeepsWork
<1>5. ASSUME NEW c \in Callers, Work(c) PROVE WorkInv'
  BY <1>0, <1>5, WorkKeepsWork
<1> QED BY <1>1, <1>2, <1>3, <1>4, <1>5, NextKinds

LEMMA WorkHolds ==
    ASSUME NoPeriodicSweep
    PROVE  Spec => [](TypeInv /\ WorkInv)
BY WorkInit, WorkNext, RowsInit, RowsNext, ClaimsInit, ClaimsNext, TypeInvHolds, PTL DEF Spec

-------------------------------------------------------------------------------
(* The theorems on sole workers.                                           *)

\* Two drivers never share a run, when the daemon recovers at boot only: each
\* driver is that of the run's only worker, and it is the row this one is at.
THEOREM OneDriverHolds ==
    ASSUME NoPeriodicSweep
    PROVE  Spec => []OneDriverPerRun
<1>1. WorkInv => OneDriverPerRun
  <2> SUFFICES ASSUME WorkInv, NEW r \in Runs
               PROVE  Cardinality(proc[r]) <= 1
    BY DEF OneDriverPerRun
  <2>1. \A i, j \in proc[r] : i = j
    BY DEF WorkInv, RunOK, OneWorker, DriversOwned
  <2>2. CASE proc[r] = {}
    BY <2>2, FS_EmptySet
  <2>3. ASSUME NEW i \in proc[r]
        PROVE  Cardinality(proc[r]) <= 1
    <3>1. proc[r] = {i}
      BY <2>1, <2>3
    <3>2. Cardinality({i}) = 1
      BY FS_Singleton
    <3> QED BY <3>1, <3>2
  <2> QED BY <2>2, <2>3
<1> QED BY <1>1, WorkHolds, PTL

\* The worktree of a run is not released while a driver works in it, when the
\* daemon recovers at boot only: only the terminal hook of the run's worker
\* releases it, and that worker has no driver any more.
THEOREM WorktreeHolds ==
    ASSUME NoPeriodicSweep
    PROVE  Spec => []WorktreeHeldWhileDriven
<1>1. WorkInv => WorktreeHeldWhileDriven
  BY DEF WorkInv, RunOK, DriversOwned, WorktreeHeld, WorktreeHeldWhileDriven
<1> QED BY <1>1, WorkHolds, PTL

\* A run is deployed at most once, when the daemon recovers at boot only: what
\* is deployed is over, and neither a handler nor a sweep takes it up again.
THEOREM DeployHolds ==
    ASSUME NoPeriodicSweep
    PROVE  Spec => []DeployAtMostOnce
<1>1. WorkInv => DeployAtMostOnce
  BY DEF WorkInv, RunOK, DeployEnds, DeployAtMostOnce
<1> QED BY <1>1, WorkHolds, PTL

-------------------------------------------------------------------------------
(* Attempts.  The rows of a stage are numbered without a repetition.       *)

SameShape(old, new) ==
    /\ DOMAIN new = DOMAIN old
    /\ \A i \in DOMAIN old : new[i].stage = old[i].stage /\ new[i].attempt = old[i].attempt

AttemptsOK(rs) ==
    \A i \in DOMAIN rs :
       /\ 1 <= rs[i].attempt
       /\ rs[i].attempt <= Cardinality(StageRunsOf(rs, rs[i].stage))
       /\ \A j \in DOMAIN rs :
             rs[i].stage = rs[j].stage /\ rs[i].attempt = rs[j].attempt => i = j

AttemptsInv == \A r \in Runs : AttemptsOK(rows[r])

LEMMA ShapesKept ==
    ASSUME TypeInv, LoopInv, DownInv, RowsInv, [Next]_vars, NEW r \in Runs
    PROVE  \/ SameShape(rows[r], rows'[r])
           \/ \E s \in Stages : Created(rows[r], rows'[r], s)
<1>same. rows'[r] = rows[r] => SameShape(rows[r], rows'[r])
  BY DEF SameShape
<1>1. CASE StillStep \/ (\E q \in Runs : ClaimStep(q)) \/ (\E s \in Sweeps : SweepBegins(s))
  BY <1>1, <1>same DEF StillStep, ClaimStep, SweepBegins, ReadStep
<1>2. CASE UserStep
  BY <1>2 DEF UserStep, Nudged, SameShape
<1>3. ASSUME NEW s \in Sweeps, NEW e \in stale[s], TakeStep(s, e)
      PROVE  SameShape(rows[r], rows'[r])
  <2>1. CASE r = e.run
    <3>1. Written(rows[r], rows'[r], e.row, Spared(rows[r][e.row].status, "failed"))
      BY <1>3, <2>1, TakeFacts
    <3> QED BY <3>1 DEF Written, SameShape
  <2>2. CASE r # e.run
    BY <1>3, <1>same, <2>2, TakeFacts
  <2> QED BY <2>1, <2>2
<1>4. ASSUME NEW c \in Callers, Work(c)
      PROVE  \/ SameShape(rows[r], rows'[r])
             \/ \E s \in Stages : Created(rows[r], rows'[r], s)
  <2>1. Move(c) /\ OwnStep(c, RunOf(c)) /\ chain[c].stage \in Stages
    BY <1>4, WorkMoves, WorkIsOwn, WorkerFacts DEF RowsInv, Chain
  <2>2. CASE r # RunOf(c)
    BY <1>same, <2>1, <2>2 DEF OwnStep
  <2>3. CASE r = RunOf(c)
    <3>1. \/ Created(rows[r], rows'[r], chain[c].stage)
          \/ \E status : Written(rows[r], rows'[r], chain[c].row, status)
          \/ Recorded(rows[r], rows'[r], chain[c].row)
          \/ rows'[r] = rows[r]
      BY <2>1, <2>3 DEF Move, Creates, Parks, Refuses, Acquires, Marks, Spawns, Exits, Records,
                        Settles, Fails, Succeeds, Finishes, Ends, Chooses, Puts, Completes, SameRows
    <3> QED BY <1>same, <2>1, <3>1 DEF Written, Recorded, SameShape
  <2> QED BY <2>2, <2>3
<1> QED BY <1>1, <1>2, <1>3, <1>4, NextKinds

\* The rows of a stage, once a row is added.
LEMMA CreatedAttempts ==
    ASSUME NEW old \in Seq(StageRun), NEW new, NEW s \in Stages, Created(old, new, s), AttemptsOK(old)
    PROVE  AttemptsOK(new)
<1> DEFINE n == Len(old) + 1
<1>1. \A t : /\ IsFiniteSet(StageRunsOf(old, t))
             /\ Cardinality(StageRunsOf(old, t)) \in Nat /\ n \notin StageRunsOf(old, t)
  <2> TAKE t
  <2>1. IsFiniteSet(DOMAIN old) /\ n \notin DOMAIN old
    BY RowFields, FS_Interval
  <2>2. StageRunsOf(old, t) \in SUBSET DOMAIN old
    BY DEF StageRunsOf
  <2> QED BY <2>1, <2>2, FS_Subset, FS_CardinalityType
<1>2. \A t : StageRunsOf(new, t) = IF t = s THEN StageRunsOf(old, s) \union {n}
                                           ELSE StageRunsOf(old, t)
  BY DEF Created, StageRunsOf
<1>3. \A t : Cardinality(StageRunsOf(new, t)) =
                IF t = s THEN Cardinality(StageRunsOf(old, s)) + 1
                         ELSE Cardinality(StageRunsOf(old, t))
  <2> TAKE t
  <2>1. CASE t = s
    <3>1. Cardinality(StageRunsOf(old, s) \union {n}) = Cardinality(StageRunsOf(old, s)) + 1
      BY <1>1, FS_AddElement
    <3> QED BY <1>2, <2>1, <3>1
  <2>2. CASE t # s
    BY <1>2, <2>2
  <2> QED BY <2>1, <2>2
<1>4. /\ DOMAIN new = DOMAIN old \union {n}
      /\ \A j \in DOMAIN old : new[j] = old[j]
      /\ new[n].stage = s /\ new[n].attempt = Cardinality(StageRunsOf(old, s)) + 1
  BY DEF Created
<1>5. \A j \in DOMAIN old : old[j].attempt \in Nat
  BY RowFields DEF StageRun
<1>6. \A j \in DOMAIN old : old[j].stage = s => old[j].attempt < new[n].attempt
  BY <1>1, <1>4, <1>5 DEF AttemptsOK
<1> HIDE DEF n
<1> QED BY <1>1, <1>3, <1>4, <1>5, <1>6 DEF AttemptsOK

LEMMA AttemptsNext ==
    TypeInv /\ LoopInv /\ DownInv /\ RowsInv /\ AttemptsInv /\ [Next]_vars => AttemptsInv'
<1> SUFFICES ASSUME TypeInv, LoopInv, DownInv, RowsInv, AttemptsInv, [Next]_vars, NEW r \in Runs
             PROVE  AttemptsOK(rows'[r])
  BY DEF AttemptsInv
<1>1. rows[r] \in Seq(StageRun) /\ AttemptsOK(rows[r])
  BY DEF TypeInv, TypeOK, AttemptsInv
<1>2. CASE SameShape(rows[r], rows'[r])
  <2>1. \A t : StageRunsOf(rows'[r], t) = StageRunsOf(rows[r], t)
    BY <1>2 DEF SameShape, StageRunsOf
  <2> QED BY <1>1, <1>2, <2>1 DEF SameShape, AttemptsOK
<1>3. CASE \E s \in Stages : Created(rows[r], rows'[r], s)
  BY <1>1, <1>3, CreatedAttempts
<1> QED BY <1>2, <1>3, ShapesKept

LEMMA AttemptsInit == Init => AttemptsInv
BY DEF Init, AttemptsInv, AttemptsOK

\* The driver of a stage fails at most maxRetries + 1 times in a run that no user
\* decides on, when the daemon recovers at boot only: the failures within the budget have different
\* attempts, and the first one past it ends the run for good.
THEOREM RetryBudgetHolds ==
    ASSUME NoPeriodicSweep
    PROVE  Spec => []RetryBudget
<1>1. TypeInv /\ WorkInv /\ AttemptsInv => RetryBudget
  <2> SUFFICES ASSUME TypeInv, WorkInv, AttemptsInv, NEW r \in Runs, NEW s \in Stages,
                      "decide" \notin Requests[r]
               PROVE  Cardinality({i \in StageRunsOf(rows[r], s) :
                                     rows[r][i].status = "failed" /\ rows[r][i].pid})
                         <= MaxRetries[s] + 1
    BY DEF RetryBudget
  <2> DEFINE F == {i \in StageRunsOf(rows[r], s) : rows[r][i].status = "failed" /\ rows[r][i].pid}
             m == MaxRetries[s] + 1
             slot == [i \in F |-> IF rows[r][i].attempt <= MaxRetries[s]
                                  THEN rows[r][i].attempt ELSE m]
  <2>1. /\ MaxRetries[s] \in Nat /\ m \in Nat /\ m > MaxRetries[s]
        /\ \A i \in DOMAIN rows[r] : rows[r][i].attempt \in Nat /\ 1 <= rows[r][i].attempt
    <3>1. rows[r] \in Seq(StageRun)
      BY DEF TypeInv, TypeOK
    <3>2. \A i \in DOMAIN rows[r] : rows[r][i].attempt \in Nat /\ 1 <= rows[r][i].attempt
      BY <3>1, RowFields DEF AttemptsInv, AttemptsOK, StageRun
    <3>3. MaxRetries[s] \in Nat
      BY OrchestratorAssumption
    <3> QED BY <3>2, <3>3
  <2>2. \A i \in F : /\ i \in DOMAIN rows[r] /\ rows[r][i].stage = s
                     /\ rows[r][i].status = "failed" /\ rows[r][i].pid
    BY DEF StageRunsOf
  <2> HIDE DEF F, m
  <2>3. slot \in [F -> 1..m]
    BY <2>1, <2>2
  <2>4. \A i, j \in F : slot[i] = slot[j] => i = j
    <3> SUFFICES ASSUME NEW i \in F, NEW j \in F, slot[i] = slot[j]
                 PROVE  i = j
      OBVIOUS
    <3>1. CASE rows[r][i].attempt <= MaxRetries[s] /\ rows[r][j].attempt <= MaxRetries[s]
      BY <2>2, <3>1 DEF AttemptsInv, AttemptsOK
    <3>2. CASE ~(rows[r][i].attempt <= MaxRetries[s]) /\ ~(rows[r][j].attempt <= MaxRetries[s])
      <4>1. LastFailure(rows[r][i]) /\ LastFailure(rows[r][j])
        BY <2>1, <2>2, <3>2 DEF LastFailure
      <4> QED BY <2>2, <4>1 DEF WorkInv, RunOK, LastFailureEnds
    <3>3. CASE (rows[r][i].attempt <= MaxRetries[s]) # (rows[r][j].attempt <= MaxRetries[s])
      BY <2>1, <2>2, <3>3
    <3> QED BY <3>1, <3>2, <3>3
  <2>5. slot \in Injection(F, 1..m)
    <3> HIDE DEF slot
    <3> QED BY <2>3, <2>4 DEF Injection, IsInjective
  <2>6. IsFiniteSet(1..m) /\ Cardinality(1..m) = m
    BY <2>1, FS_Interval
  <2> HIDE DEF slot
  <2>7. Cardinality(F) <= Cardinality(1..m)
    BY <2>5, <2>6, FS_Injection
  <2> QED BY <2>6, <2>7 DEF F, m
<1> QED BY <1>1, WorkInit, WorkNext, AttemptsInit, AttemptsNext, RowsInit, RowsNext, ClaimsInit,
           ClaimsNext, TypeInvHolds, PTL DEF Spec

-------------------------------------------------------------------------------
(* No lost wake-up.  A run that is pending and has not been refused is     *)
(* idle or on its way to its claim; whatever reads the queue, or holds the *)
(* rest of it, therefore hands the run to a handler or on to a later look. *)

HandlersOK(ch) ==
    \A r \in Runs : /\ ch[r].pc \notin SweepPc
                    /\ ch[r].pc # "idle" => ch[r].run = r

HandlerInv == HandlersOK(chain)

\* What looks at the run, with the daemon's state as parameters.
Looked(r, ch, lp, fired) ==
    \/ fired > 0
    \/ ch[r].pc \in {"fetch", "stageless", "slot"}
    \/ \E q \in Runs : r \in lp[q].todo
    \/ \E s \in Sweeps : ch[s].pc \notin {"idle", "await"}

\* A pending run that somebody is to look at, and whose claim is not refused.
Waits(r) == runStatus[r] = "pending" /\ Attended(r) /\ ~Refused(r)

LEMMA AttendedIsLooked ==
    ASSUME NEW r \in Runs
    PROVE  Attended(r) <=> daemon \in {"down", "booting"} \/ r \in events
                            \/ Looked(r, chain, loop, drains)
BY DEF Attended, Looked

LEMMA WaitingPlace ==
    ASSUME TypeInv, ClaimInv, HandlerInv, NEW r \in Runs, Waits(r)
    PROVE  /\ chain[r].pc \in {"idle", "fetch", "stageless", "slot"}
           /\ \A c \in Callers : chain[c].pc \in WorkingPc \union {"denied"} => c # r
<1>1. r \in Callers /\ chain[r] \in Chain
  BY CallerFacts DEF TypeInv, TypeOK
<1>2. chain[r].pc \notin WorkingPc
  <2> SUFFICES ASSUME chain[r].pc \in WorkingPc PROVE FALSE
    OBVIOUS
  <2>1. chain[r].pc # "idle"
    BY DEF WorkingPc, LaunchPc
  <2>2. chain[r].run = r
    BY <2>1 DEF HandlerInv, HandlersOK
  <2> QED BY <1>1, <2>2 DEF ClaimInv, WorkersClaimed, Claimed, Waits
<1>3. chain[r].pc # "denied" /\ chain[r].pc \notin SweepPc
  BY DEF Waits, Refused, At, HandlerInv, HandlersOK
<1> QED BY <1>1, <1>2, <1>3 DEF Chain, WorkingPc, HandlerPc

\* A loop that goes on, or ends, passes on everything it was to look at.
LEMMA ContinueDrainLooks ==
    ASSUME TypeOK,
           NEW todo \in SUBSET Runs, NEW owner \in Sweeps \union {NoSweep},
           NEW ch \in [Callers -> Chain], NEW lp \in [Runs -> Loop],
           NEW fired \in Int, drains + fired >= 0,
           \A q \in Runs : ch[q].pc = "idle" => lp[q] = NoLoop,
           owner # NoSweep => ch[owner].pc = "await",
           ContinueDrain(todo, owner, ch, lp, fired),
           NEW r \in Runs, ch[r].pc \in {"idle", "fetch", "stageless", "slot"},
           \/ daemon \in {"down", "booting"} \/ r \in todo \/ r \in events'
           \/ Looked(r, ch, lp, drains + fired)
    PROVE  Attended(r)'
<1> DEFINE free == {q \in todo : ~InFlight(ch, q)}
<1>1. CASE EndDrain(owner, ch, lp, fired) /\ r \notin todo
  <2>1. /\ loop' = lp
        /\ \A c \in Callers : chain'[c] = IF c = owner THEN Idle ELSE ch[c]
    BY <1>1 DEF EndDrain
  <2>2. CASE owner = Boot
    <3>1. drains' = drains + fired + 1
      BY <1>1, <2>2 DEF EndDrain
    <3> QED BY <3>1 DEF TypeOK, Attended
  <2>3. CASE owner # Boot
    <3>1. daemon' = daemon /\ drains' = drains + fired
      BY <1>1, <2>3 DEF EndDrain, TypeOK
    <3>2. chain'[r] = ch[r]
      BY <2>1, CallerFacts
    <3>3. \A s \in Sweeps : ch[s].pc \notin {"idle", "await"} => chain'[s] = ch[s]
      BY <2>1, CallerFacts
    <3> QED BY <1>1, <2>1, <3>1, <3>2, <3>3 DEF Attended, Looked
  <2> QED BY <2>2, <2>3
<1>2. CASE EndDrain(owner, ch, lp, fired) /\ r \in todo /\ InFlight(ch, r)
  <2>1. chain'[r] = ch[r]
    BY <1>2, CallerFacts DEF EndDrain
  <2> QED BY <1>2, <2>1 DEF Attended, InFlight
<1>3. ASSUME NEW p \in free, \A q \in free : p <= q,
             chain' = [ch EXCEPT ![p] = Handling(p)],
             loop' = [lp EXCEPT ![p] = [todo |-> {q \in todo : q > p}, owner |-> owner]],
             daemon' = daemon, drains' = drains + fired
      PROVE  Attended(r)'
  <2>1. /\ chain'[p].pc = "fetch"
        /\ \A c \in Callers : c # p => chain'[c] = ch[c]
        /\ loop'[p].todo = {q \in todo : q > p}
        /\ \A q \in Runs : q # p => loop'[q] = lp[q]
    BY <1>3, HandlingType, CallerFacts
  <2>2. CASE r = p
    BY <2>1, <2>2 DEF Attended
  <2>3. CASE r # p /\ ch[r].pc # "idle"
    BY <2>1, <2>3, CallerFacts DEF Attended
  <2>4. CASE r # p /\ r \in todo /\ ch[r].pc = "idle"
    <3>1. p <= r /\ p \in Int /\ r \in Int
      BY <1>3, <2>4 DEF InFlight, Runs
    <3>2. r \in loop'[p].todo
      BY <2>1, <2>4, <3>1 DEF InFlight
    <3> QED BY <3>2 DEF Attended
  <2>5. CASE r \notin todo /\ ch[r].pc = "idle"
    <3>1. lp[p].todo = {}
      BY <1>3 DEF InFlight, NoLoop
    <3>2. \A s \in Sweeps : chain'[s] = ch[s]
      BY <2>1, CallerFacts
    <3> QED BY <1>3, <2>1, <2>5, <3>1, <3>2 DEF Attended, Looked
  <2> QED BY <2>2, <2>3, <2>4, <2>5
<1>4. CASE EndDrain(owner, ch, lp, fired) /\ free = {}
  BY <1>1, <1>2, <1>4
<1> QED BY <1>3, <1>4 DEF ContinueDrain

LEMMA ContinueDrainHandlers ==
    ASSUME NEW todo \in SUBSET Runs, NEW owner \in Sweeps \union {NoSweep},
           NEW ch \in [Callers -> Chain], NEW lp, NEW fired, HandlersOK(ch),
           ContinueDrain(todo, owner, ch, lp, fired)
    PROVE  HandlerInv'
<1>1. CASE EndDrain(owner, ch, lp, fired)
  <2>1. \A r \in Runs : chain'[r] = ch[r]
    BY <1>1, CallerFacts DEF EndDrain
  <2> QED BY <2>1 DEF HandlerInv, HandlersOK
<1>2. ASSUME NEW p \in Runs, chain' = [ch EXCEPT ![p] = Handling(p)]
      PROVE  HandlerInv'
  <2>1. /\ chain'[p].pc = "fetch" /\ chain'[p].run = p
        /\ \A q \in Runs : q # p => chain'[q] = ch[q]
    BY <1>2, HandlingType, CallerFacts
  <2> QED BY <2>1 DEF HandlerInv, HandlersOK, SweepPc
<1> QED BY <1>1, <1>2 DEF ContinueDrain

LEMMA ReturnLooks ==
    ASSUME TypeInv, ClaimInv, LoopInv, HandlerInv, NEW c \in Callers, NEW fired \in {0, 1},
           chain[c].pc \notin {"idle", "await"}, Return(c, fired), events' = events
    PROVE  /\ HandlerInv'
           /\ \A r \in Runs : Waits(r) /\ r # c => Attended(r)'
<1>0. /\ TypeOK /\ chain \in [Callers -> Chain] /\ loop \in [Runs -> Loop] /\ drains \in Nat
  BY DEF TypeInv, TypeOK
<1>1. CASE c \in Runs
  <2> DEFINE ch == [chain EXCEPT ![c] = Idle]
             lp == [loop EXCEPT ![c] = NoLoop]
             owner == loop[c].owner
             todo == loop[c].todo
  <2>1. /\ todo \in SUBSET Runs /\ owner \in Sweeps \union {NoSweep}
        /\ ch \in [Callers -> Chain] /\ lp \in [Runs -> Loop]
    BY <1>0, <1>1, IdleType DEF Loop
  <2>2. /\ ch[c] = Idle /\ lp[c] = NoLoop /\ Idle.pc = "idle"
        /\ \A d \in Callers : d # c => ch[d] = chain[d]
        /\ \A q \in Runs : q # c => lp[q] = loop[q]
    BY <1>0, <1>1, IdleType
  <2>3. ContinueDrain(todo, owner, ch, lp, fired)
    BY <1>1 DEF Return
  <2> HIDE DEF ch, lp
  <2>4. \A q \in Runs : ch[q].pc = "idle" => lp[q] = NoLoop
    BY <1>1, <2>2, CallerFacts DEF LoopInv, LoopsOK
  <2>5. owner # NoSweep => ch[owner].pc = "await"
    BY <1>0, <1>1, <2>1, <2>2, CallerFacts DEF LoopInv, LoopsOK
  <2>6. HandlersOK(ch)
    BY <2>2, CallerFacts DEF HandlerInv, HandlersOK, SweepPc
  <2>7. HandlerInv'
    BY <2>1, <2>3, <2>6, ContinueDrainHandlers
  <2>8. ASSUME NEW r \in Runs, Waits(r), r # c
        PROVE  Attended(r)'
    <3>1. ch[r] = chain[r] /\ chain[r].pc \in {"idle", "fetch", "stageless", "slot"}
      BY <2>2, <2>8, WaitingPlace, CallerFacts
    <3>2. \/ daemon \in {"down", "booting"} \/ r \in todo \/ r \in events'
          \/ Looked(r, ch, lp, drains + fired)
      <4>1. \/ daemon \in {"down", "booting"} \/ r \in events
            \/ Looked(r, chain, loop, drains)
        BY <2>8, AttendedIsLooked DEF Waits
      <4>2. drains > 0 => drains + fired > 0
        BY <1>0
      <4>3. \A s \in Sweeps : ch[s] = chain[s]
        BY <1>1, <2>2, CallerFacts
      <4>4. \A q \in Runs : r \in loop[q].todo => r \in todo \/ r \in lp[q].todo
        BY <2>2
      <4> QED BY <3>1, <4>1, <4>2, <4>3, <4>4 DEF Looked
    <3>3. fired \in Int /\ drains + fired >= 0
      BY <1>0
    <3> HIDE DEF owner, todo
    <3> QED BY <1>0, <2>1, <2>3, <2>4, <2>5, <3>1, <3>2, <3>3, ContinueDrainLooks
  <2> QED BY <2>7, <2>8
<1>2. CASE c \notin Runs
  <2>1. /\ chain' = [chain EXCEPT ![c] = [Idle EXCEPT !.pc = "sweep"]]
        /\ drains' = drains + fired /\ loop' = loop /\ daemon' = daemon
    BY <1>2 DEF Return
  <2>2. chain'[c].pc = "sweep" /\ \A d \in Callers : d # c => chain'[d] = chain[d]
    BY <1>0, <2>1, GoSweepType
  <2>3. HandlerInv'
    BY <1>2, <2>2, CallerFacts DEF HandlerInv, HandlersOK
  <2>4. c \in Sweeps /\ \A r \in Runs : r # c /\ r \in Callers
    BY <1>2, CallerFacts DEF Callers
  <2>5. ASSUME NEW r \in Runs, Waits(r)
        PROVE  Attended(r)'
    BY <2>2, <2>4 DEF Attended
  <2> QED BY <2>3, <2>5
<1> QED BY <1>1, <1>2

\* An exception loses what its own loop, or its own sweep, was to look at.
LEMMA ThrowLooks ==
    ASSUME TypeInv, ClaimInv, LoopInv, HandlerInv, NEW c \in Callers, NEW fired \in {0, 1},
           chain[c].pc \in LaunchPc, Throw(c, fired)
    PROVE  /\ HandlerInv'
           /\ \A r \in Runs : Waits(r) =>
                 \/ Attended(r)'
                 \/ fired = 0 /\ chain'[c] = Idle /\ (c \in Sweeps \/ r \in loop[c].todo)
<1>0. chain \in [Callers -> Chain] /\ loop \in [Runs -> Loop] /\ drains \in Nat
  BY DEF TypeInv, TypeOK
<1>1. CASE Exit
  <2>1. daemon' = "down" /\ \A r \in Runs : chain'[r].pc = "idle"
    BY <1>1, ExitLoops, CallerFacts
  <2> QED BY <2>1 DEF HandlerInv, HandlersOK, Attended, SweepPc
<1>2. CASE ~Exit
  <2> DEFINE top == IF c \in Runs THEN loop[c].owner ELSE c
  <2>1. /\ \A d \in Callers : chain'[d] = IF d \in {c, top} THEN Idle ELSE chain[d]
        /\ \A q \in Runs : loop'[q] = IF q = c THEN NoLoop ELSE loop[q]
        /\ drains' = drains + fired /\ daemon' = daemon /\ events' = events
    BY <1>2 DEF Throw
  <2>2. Idle.pc = "idle" /\ chain'[c] = Idle
    BY <2>1, IdleType
  <2>3. top # c /\ top \in Callers => chain[top].pc = "await"
    BY CallerFacts DEF LoopInv, LoopsOK
  <2> HIDE DEF top
  <2>4. HandlerInv'
    BY <2>1, <2>2, CallerFacts DEF HandlerInv, HandlersOK, SweepPc
  <2>5. ASSUME NEW r \in Runs, Waits(r), fired # 1, c \notin Sweeps, r \notin loop[c].todo
        PROVE  Attended(r)'
    <3>1. /\ drains' = drains /\ r \in Callers
          /\ chain[r].pc \in {"idle", "fetch", "stageless", "slot"} /\ r # c
      BY <1>0, <2>1, <2>5, WaitingPlace, CallerFacts DEF WorkingPc
    <3>2. chain[r].pc # "await"
      BY <3>1
    <3>3. r # top
      BY <2>3, <3>1, <3>2
    <3>4. \A s \in Sweeps : chain[s].pc \notin {"idle", "await"} => chain'[s] = chain[s]
      BY <2>1, <2>3, <2>5, CallerFacts
    <3>5. \A q \in Runs : r \in loop[q].todo => loop'[q] = loop[q]
      BY <2>1, <2>5
    <3>6. chain'[r] = chain[r]
      BY <2>1, <3>1, <3>3
    <3> QED BY <2>1, <2>5, <3>1, <3>4, <3>5, <3>6 DEF Attended, Waits
  <2>6. fired = 1 => \A r \in Runs : Attended(r)'
    BY <1>0, <2>1 DEF Attended
  <2> QED BY <2>2, <2>4, <2>5, <2>6
<1> QED BY <1>1, <1>2

\* A chain that goes on with its run leaves all that looks as it is.
LEMMA GotoLooks ==
    ASSUME TypeInv, ClaimInv, HandlerInv, NEW c \in Callers, NEW next, Goto(c, next),
           chain[c].pc \in WorkingPc, next.pc \in LaunchPc, next.run = chain[c].run,
           events' = events
    PROVE  /\ HandlerInv'
           /\ \A r \in Runs : Waits(r) => Attended(r)'
<1>1. /\ chain'[c] = next /\ \A d \in Callers : d # c => chain'[d] = chain[d]
      /\ loop' = loop /\ drains' = drains /\ daemon' = daemon
  BY DEF Goto, TypeInv, TypeOK
<1>2. next.pc \notin SweepPc \union {"idle", "await"} /\ chain[c].pc # "idle"
  BY DEF LaunchPc, SweepPc, WorkingPc
<1>3. HandlerInv'
  BY <1>1, <1>2, CallerFacts DEF HandlerInv, HandlersOK
<1>4. ASSUME NEW r \in Runs, Waits(r)
      PROVE  Attended(r)'
  <2>1. chain'[r] = chain[r]
    BY <1>1, <1>4, WaitingPlace, CallerFacts
  <2> QED BY <1>1, <1>2, <1>4, <2>1, CallerFacts DEF Attended, Waits
<1> QED BY <1>3, <1>4

LEMMA ToLooks ==
    ASSUME TypeInv, ClaimInv, HandlerInv, NEW c \in Callers, NEW pc \in LaunchPc, NEW arg,
           To(c, pc, arg), chain[c].pc \in LaunchPc, events' = events
    PROVE  /\ HandlerInv'
           /\ \A r \in Runs : Waits(r) => Attended(r)'
<1> DEFINE next == [chain[c] EXCEPT !.pc = pc, !.arg = arg]
<1>1. next.pc = pc /\ next.run = chain[c].run /\ Goto(c, next)
  BY DEF To, TypeInv, TypeOK, Chain
<1> HIDE DEF next
<1> QED BY <1>1, GotoLooks DEF WorkingPc

LEMMA LaunchLooks ==
    ASSUME TypeInv, ClaimInv, LoopInv, HandlerInv, NEW c \in Callers, Launch(c)
    PROVE  /\ HandlerInv'
           /\ \A r \in Runs : Waits(r) => Attended(r)' \/ Abandoned(r)
<1>0. /\ chain[c].pc \in LaunchPc /\ chain[c].pc \notin {"idle", "await"}
      /\ \A r \in Runs : Waits(r) => r # c
  <2>1. chain[c].pc \in LaunchPc
    BY DEF Launch, CreateRow, HoldAtGate, RefuseNoDriver, AcquireEnv, MarkRunning,
           SpawnDriver, DriverExit, Settle, StageFailed, StageCompleted, FinishRun,
           TerminalHook, RefuseNoArtifacts, ThrowAtPrompt, Acquired, PassGate, At, LaunchPc
  <2> QED BY <2>1, WaitingPlace DEF WorkingPc, LaunchPc
<1>to. ASSUME NEW pc \in LaunchPc, NEW arg, To(c, pc, arg), events' = events
       PROVE  HandlerInv' /\ \A r \in Runs : Waits(r) => Attended(r)'
  BY <1>0, <1>to, ToLooks
<1>return. ASSUME NEW fired \in {0, 1}, Return(c, fired), events' = events
           PROVE  HandlerInv' /\ \A r \in Runs : Waits(r) => Attended(r)'
  BY <1>0, <1>return, ReturnLooks
<1>create. ASSUME NEW stage, NEW arg, events' = events,
                  Goto(c, [chain[c] EXCEPT !.pc = "create", !.row = 0,
                                           !.stage = stage, !.arg = arg])
           PROVE  HandlerInv' /\ \A r \in Runs : Waits(r) => Attended(r)'
  <2> DEFINE next == [chain[c] EXCEPT !.pc = "create", !.row = 0,
                                      !.stage = stage, !.arg = arg]
  <2>1. next.pc = "create" /\ next.run = chain[c].run
    BY DEF TypeInv, TypeOK, Chain
  <2> HIDE DEF next
  <2> QED BY <1>0, <1>create, <2>1, GotoLooks DEF next, WorkingPc, LaunchPc
<1>1. CASE CreateRow(c)
  <2> DEFINE next == [chain[c] EXCEPT !.pc = "gate", !.row = Len(rows[RunOf(c)]) + 1]
  <2>1. next.pc = "gate" /\ next.run = chain[c].run
    BY DEF TypeInv, TypeOK, Chain
  <2>2. Goto(c, next) /\ events' = events
    BY <1>1 DEF CreateRow
  <2> HIDE DEF next
  <2> QED BY <1>0, <2>1, <2>2, GotoLooks DEF WorkingPc, LaunchPc
<1>2. CASE HoldAtGate(c)
  BY <1>2, <1>return DEF HoldAtGate
<1>3. CASE RefuseNoDriver(c)
  BY <1>3, <1>to DEF RefuseNoDriver, LaunchPc
<1>4. CASE AcquireEnv(c)
  BY <1>4, <1>to DEF AcquireEnv, LaunchPc
<1>13. CASE RefuseNoArtifacts(c)
  BY <1>13, <1>to DEF RefuseNoArtifacts, LaunchPc
<1>14. CASE ThrowAtPrompt(c)
  <2>1. At(c, "gate") /\ chain[c].stage \notin Gated /\ Throw(c, 0)
    BY <1>14 DEF ThrowAtPrompt, Acquired, PassGate
  <2>2. /\ HandlerInv'
        /\ \A r \in Runs : Waits(r) =>
              Attended(r)' \/ (chain'[c] = Idle /\ (c \in Sweeps \/ r \in loop[c].todo))
    BY <1>0, <2>1, ThrowLooks
  <2> QED BY <2>1, <2>2 DEF Abandoned
<1>5. CASE MarkRunning(c)
  BY <1>5, <1>to DEF MarkRunning, LaunchPc
<1>6. CASE SpawnDriver(c)
  BY <1>6, <1>to DEF SpawnDriver, LaunchPc
<1>7. CASE DriverExit(c)
  BY <1>7, <1>to DEF DriverExit, LaunchPc
<1>8. CASE Settle(c)
  BY <1>8, <1>to DEF Settle, LaunchPc
<1>9. CASE StageFailed(c)
  <2>1. CASE Goto(c, [chain[c] EXCEPT !.pc = "create", !.row = 0])
    <3> DEFINE next == [chain[c] EXCEPT !.pc = "create", !.row = 0]
    <3>1. next.pc = "create" /\ next.run = chain[c].run
      BY DEF TypeInv, TypeOK, Chain
    <3>2. events' = events
      BY <1>9 DEF StageFailed
    <3> HIDE DEF next
    <3> QED BY <1>0, <2>1, <3>1, <3>2, GotoLooks DEF next, WorkingPc, LaunchPc
  <2> QED BY <1>9, <2>1, <1>to DEF StageFailed, LaunchPc
<1>10. CASE StageCompleted(c)
  <2> DEFINE target == Routing[chain[c].stage][chain[c].arg]
  <2>1. CASE target = "__blocked__" /\ Throw(c, 0)
    <3>1. At(c, "done")
      BY <1>10 DEF StageCompleted
    <3>2. /\ HandlerInv'
          /\ \A r \in Runs : Waits(r) =>
                Attended(r)' \/ (chain'[c] = Idle /\ (c \in Sweeps \/ r \in loop[c].todo))
      BY <1>0, <2>1, ThrowLooks
    <3> QED BY <2>1, <3>1, <3>2 DEF Abandoned
  <2> HIDE DEF target
  <2>2. CASE /\ events' = events
             /\ \/ \E arg \in {"failed", "completed", "blocked", "dead_end"} :
                      To(c, "finish", arg)
                \/ Goto(c, [chain[c] EXCEPT !.pc = "create", !.row = 0,
                                            !.stage = target, !.arg = ""])
    BY <2>2, <1>to, <1>create DEF LaunchPc
  <2> QED BY <1>10, <2>1, <2>2 DEF StageCompleted, target
<1>11. CASE FinishRun(c)
  BY <1>11, <1>to DEF FinishRun, LaunchPc
<1>12. CASE TerminalHook(c)
  <2>1. CASE Return(c, 1) /\ events' = events
    BY <2>1, <1>return
  <2>2. CASE Throw(c, 1)
    BY <1>0, <2>2, ThrowLooks
  <2> QED BY <1>12, <2>1, <2>2 DEF TerminalHook
<1> QED
  BY <1>1, <1>2, <1>3, <1>4, <1>5, <1>6, <1>7, <1>8, <1>9, <1>10, <1>11, <1>12, <1>13,
     <1>14 DEF Launch

LEMMA HandlerLooks ==
    ASSUME TypeInv, ClaimInv, LoopInv, HandlerInv, NEW q \in Runs, Deliver(q) \/ Handle(q)
    PROVE  /\ HandlerInv'
           /\ \A r \in Runs : Waits(r) /\ runStatus'[r] = "pending" => Attended(r)'
<1>0. q \in Callers /\ chain \in [Callers -> Chain] /\ runStatus \in [Runs -> RunStatus]
  BY CallerFacts DEF TypeInv, TypeOK
<1>goto. ASSUME NEW pc \in {"stageless", "slot", "denied", "seed"}, Goto(q, [chain[q] EXCEPT !.pc = pc]),
                chain[q].pc # "idle", events' = events
         PROVE  /\ HandlerInv' /\ chain'[q].pc = pc
                /\ \A r \in Runs : Waits(r) /\ r # q => Attended(r)'
  <2> DEFINE next == [chain[q] EXCEPT !.pc = pc]
  <2>1. next.pc = pc /\ next.run = chain[q].run
    BY <1>0 DEF Chain
  <2>2. /\ chain'[q] = next /\ \A d \in Callers : d # q => chain'[d] = chain[d]
        /\ loop' = loop /\ drains' = drains /\ daemon' = daemon
    BY <1>0, <1>goto DEF Goto
  <2> HIDE DEF next
  <2>3. HandlerInv'
    BY <1>goto, <2>1, <2>2, CallerFacts DEF HandlerInv, HandlersOK, SweepPc
  <2>4. ASSUME NEW r \in Runs, Waits(r), r # q
        PROVE  Attended(r)'
    <3>1. chain'[r] = chain[r] /\ \A s \in Sweeps : chain'[s] = chain[s]
      BY <2>2, <2>4, CallerFacts
    <3> QED BY <1>goto, <2>2, <2>4, <3>1 DEF Attended, Waits
  <2> QED BY <2>1, <2>2, <2>3, <2>4
<1>1. CASE Deliver(q)
  <2>1. /\ daemon' = daemon /\ loop' = loop /\ drains' = drains
        /\ \A r \in Runs : r # q /\ r \in events => r \in events'
        /\ IF InFlight(chain, q) THEN chain' = chain
                                 ELSE chain' = [chain EXCEPT ![q] = Handling(q)]
    BY <1>1 DEF Deliver
  <2>2. CASE InFlight(chain, q)
    <3>1. chain' = chain /\ HandlerInv'
      BY <2>1, <2>2 DEF HandlerInv
    <3>2. ASSUME NEW r \in Runs, Waits(r) PROVE Attended(r)'
      <4>1. CASE r = q
        BY <2>2, <3>1, <3>2, <4>1, WaitingPlace DEF InFlight, Attended
      <4>2. CASE r # q
        BY <2>1, <3>1, <3>2, <4>2 DEF Attended, Waits
      <4> QED BY <4>1, <4>2
    <3> QED BY <3>1, <3>2
  <2>3. CASE ~InFlight(chain, q)
    <3>1. /\ chain'[q].pc = "fetch" /\ chain'[q].run = q
          /\ \A d \in Callers : d # q => chain'[d] = chain[d]
      BY <1>0, <2>1, <2>3, HandlingType
    <3>2. HandlerInv'
      BY <3>1, CallerFacts DEF HandlerInv, HandlersOK, SweepPc
    <3>3. ASSUME NEW r \in Runs, Waits(r) PROVE Attended(r)'
      <4>1. CASE r = q
        BY <3>1, <4>1 DEF Attended
      <4>2. CASE r # q
        <5>1. chain'[r] = chain[r] /\ \A s \in Sweeps : chain'[s] = chain[s]
          BY <3>1, <4>2, CallerFacts
        <5> QED BY <2>1, <3>3, <4>2, <5>1 DEF Attended, Waits
      <4> QED BY <4>1, <4>2
    <3> QED BY <3>2, <3>3
  <2> QED BY <2>2, <2>3
<1>2. CASE Fetch(q)
  <2>1. events' = events /\ chain[q].pc = "fetch"
    BY <1>2 DEF Fetch
  <2>2. CASE Return(q, 0) /\ runStatus[q] # "pending"
    <3>1. HandlerInv' /\ \A r \in Runs : Waits(r) /\ r # q => Attended(r)'
      BY <1>0, <2>1, <2>2, ReturnLooks
    <3> QED BY <2>2, <3>1 DEF Waits
  <2>3. ASSUME NEW pc \in {"stageless", "slot"}, Goto(q, [chain[q] EXCEPT !.pc = pc])
        PROVE  HandlerInv' /\ \A r \in Runs : Waits(r) => Attended(r)'
    <3>1. /\ HandlerInv' /\ chain'[q].pc = pc
          /\ \A r \in Runs : Waits(r) /\ r # q => Attended(r)'
      BY <2>1, <2>3, <1>goto
    <3> QED BY <3>1 DEF Attended
  <2> DEFINE pc == IF q \in Stageless THEN "stageless" ELSE "slot"
  <2>4. \/ Return(q, 0) /\ runStatus[q] # "pending"
        \/ Goto(q, [chain[q] EXCEPT !.pc = pc])
    BY <1>2 DEF Fetch
  <2>5. pc \in {"stageless", "slot"}
    OBVIOUS
  <2> HIDE DEF pc
  <2> QED BY <2>2, <2>3, <2>4, <2>5
<1>3. CASE TryAcquireRunningSlot(q)
  <2>1. \E pc \in {"seed", "denied"} : Goto(q, [chain[q] EXCEPT !.pc = pc])
    BY <1>3 DEF TryAcquireRunningSlot
  <2>2. events' = events /\ chain[q].pc = "slot"
    BY <1>3 DEF TryAcquireRunningSlot
  <2>3. HandlerInv' /\ \A r \in Runs : Waits(r) /\ r # q => Attended(r)'
    BY <2>1, <2>2, <1>goto
  <2>4. CanAcquire(runStatus, q) => runStatus'[q] = "running"
    BY <1>0, <1>3 DEF TryAcquireRunningSlot
  <2>5. ~CanAcquire(runStatus, q) => ~Waits(q)
    BY <2>2 DEF Waits, Refused, At
  <2> QED BY <2>3, <2>4, <2>5
<1>4. CASE Denied(q)
  <2>1. events' = events /\ chain[q].pc = "denied" /\ Return(q, 0)
    BY <1>4 DEF Denied
  <2>2. HandlerInv' /\ \A r \in Runs : Waits(r) /\ r # q => Attended(r)'
    BY <1>0, <2>1, ReturnLooks
  <2> QED BY <2>1, <2>2 DEF Waits, Refused, At
<1>5. CASE ChooseStage(q)
  <2>1. events' = events /\ chain[q].pc \in WorkingPc
    BY <1>5 DEF ChooseStage, WorkingPc
  <2>2. PICK next : /\ Goto(q, next) /\ next.pc \in LaunchPc
                    /\ next.run = chain[q].run
    <3>1. CASE Goto(q, [chain[q] EXCEPT !.pc = "create", !.stage = FirstStage])
      <4> DEFINE go == [chain[q] EXCEPT !.pc = "create", !.stage = FirstStage]
      <4>1. go.pc = "create" /\ go.run = chain[q].run
        BY <1>0 DEF Chain
      <4> HIDE DEF go
      <4> QED BY <3>1, <4>1 DEF go, LaunchPc
    <3>2. ASSUME NEW i, Goto(q, [chain[q] EXCEPT !.pc = "gate", !.row = i,
                                                 !.stage = rows[q][i].stage])
          PROVE  \E next : /\ Goto(q, next) /\ next.pc \in LaunchPc
                            /\ next.run = chain[q].run
      <4> DEFINE go == [chain[q] EXCEPT !.pc = "gate", !.row = i,
                                        !.stage = rows[q][i].stage]
      <4>1. go.pc = "gate" /\ go.run = chain[q].run
        BY <1>0 DEF Chain
      <4> HIDE DEF go
      <4> QED BY <3>2, <4>1 DEF go, LaunchPc
    <3> QED BY <1>5, <3>1, <3>2 DEF ChooseStage
  <2> QED BY <1>0, <2>1, <2>2, GotoLooks
<1>6. CASE FailStageless(q)
  <2>1. events' = events /\ chain[q].pc = "stageless" /\ Return(q, 0) /\ runStatus'[q] = "failed"
    BY <1>0, <1>6 DEF FailStageless
  <2>2. HandlerInv' /\ \A r \in Runs : Waits(r) /\ r # q => Attended(r)'
    BY <1>0, <2>1, ReturnLooks
  <2> QED BY <2>1, <2>2
<1> QED BY <1>1, <1>2, <1>3, <1>4, <1>5, <1>6 DEF Handle

LEMMA SweepLooks ==
    ASSUME TypeInv, ClaimInv, LoopInv, HandlerInv, NEW s \in Sweeps,
           Sweep(s) \/ Tick(s)
    PROVE  /\ HandlerInv'
           /\ \A r \in Runs : Waits(r) => Attended(r)'
<1>0. /\ TypeOK /\ s \in Callers /\ s \notin Runs
      /\ chain \in [Callers -> Chain] /\ loop \in [Runs -> Loop] /\ drains \in Nat
  BY CallerFacts DEF TypeInv, TypeOK
<1>move. ASSUME NEW next, chain' = [chain EXCEPT ![s] = next],
                next.pc \notin {"idle", "await"}, UNCHANGED <<daemon, loop, drains, events>>
         PROVE  HandlerInv' /\ \A r \in Runs : Waits(r) => Attended(r)'
  <2>1. /\ chain'[s].pc \notin {"idle", "await"}
        /\ \A d \in Callers : d # s => chain'[d] = chain[d]
    BY <1>0, <1>move
  <2>2. HandlerInv'
    BY <1>0, <2>1, CallerFacts DEF HandlerInv, HandlersOK
  <2> QED BY <2>1, <2>2 DEF Attended
<1>1. CASE SweepRow(s)
  <2>1. PICK e \in stale[s] :
           \/ UNCHANGED chain
           \/ \E stage :
                 \/ chain' = [chain EXCEPT ![s] = [Idle EXCEPT !.pc = "create",
                                                               !.run = e.run, !.stage = stage]]
                 \/ chain' = [chain EXCEPT ![s] = [Idle EXCEPT !.pc = "finish", !.run = e.run,
                                                     !.stage = stage, !.arg = "failed"]]
    BY <1>1 DEF SweepRow
  <2>2. UNCHANGED <<daemon, loop, drains, events>>
    BY <1>1 DEF SweepRow
  <2>3. ASSUME NEW stage, NEW run
        PROVE  /\ [Idle EXCEPT !.pc = "create", !.run = run, !.stage = stage].pc = "create"
               /\ [Idle EXCEPT !.pc = "finish", !.run = run, !.stage = stage,
                               !.arg = "failed"].pc = "finish"
    BY DEF Idle
  <2>4. CASE UNCHANGED chain
    BY <2>2, <2>4 DEF HandlerInv, Attended, Waits
  <2>5. ASSUME NEW stage,
               chain' = [chain EXCEPT ![s] = [Idle EXCEPT !.pc = "create",
                                                          !.run = e.run, !.stage = stage]]
        PROVE  HandlerInv' /\ \A r \in Runs : Waits(r) => Attended(r)'
    BY <1>move, <2>2, <2>3, <2>5
  <2>6. ASSUME NEW stage,
               chain' = [chain EXCEPT ![s] = [Idle EXCEPT !.pc = "finish", !.run = e.run,
                                                !.stage = stage, !.arg = "failed"]]
        PROVE  HandlerInv' /\ \A r \in Runs : Waits(r) => Attended(r)'
    BY <1>move, <2>2, <2>3, <2>6
  <2> QED BY <2>1, <2>4, <2>5, <2>6
<1>2. CASE SweepEnd(s)
  <2>1. [Idle EXCEPT !.pc = "drain"].pc = "drain"
    BY DEF Idle
  <2> QED BY <1>2, <1>move, <2>1 DEF SweepEnd
<1>3. CASE Tick(s)
  BY <1>3, <1>move, GoSweepType DEF Tick, StartSweep
<1>4. CASE SweepDrain(s)
  <2> DEFINE go == [Idle EXCEPT !.pc = "await"]
             ch == [chain EXCEPT ![s] = go]
  <2>0. ContinueDrain(PendingRuns(runStatus), s, ch, loop, 0) /\ events' = events
    BY <1>4 DEF SweepDrain
  <2>1. go \in Chain /\ go.pc = "await"
    BY OrchestratorAssumption DEF Idle, Chain, SweepPc
  <2>2. /\ ch[s] = go /\ \A d \in Callers : d # s => ch[d] = chain[d]
        /\ PendingRuns(runStatus) \in SUBSET Runs /\ ch \in [Callers -> Chain]
    BY <1>0, <2>1 DEF PendingRuns
  <2> HIDE DEF go, ch
  <2>3. HandlersOK(ch)
    BY <1>0, <2>2, CallerFacts DEF HandlerInv, HandlersOK
  <2>4. HandlerInv'
    BY <2>0, <2>2, <2>3, ContinueDrainHandlers
  <2>5. ASSUME NEW r \in Runs, Waits(r)
        PROVE  Attended(r)'
    <3>1. ch[r].pc \in {"idle", "fetch", "stageless", "slot"} /\ r \in PendingRuns(runStatus)
      BY <1>0, <2>2, <2>5, WaitingPlace, CallerFacts DEF PendingRuns, Waits
    <3>2. \A q \in Runs : ch[q].pc = "idle" => loop[q] = NoLoop
      BY <1>0, <2>2, CallerFacts DEF LoopInv, LoopsOK
    <3>3. 0 \in Int /\ drains + 0 >= 0
      BY <1>0
    <3> QED BY <1>0, <2>0, <2>1, <2>2, <3>1, <3>2, <3>3, ContinueDrainLooks
  <2> QED BY <2>4, <2>5
<1> QED BY <1>1, <1>2, <1>3, <1>4 DEF Sweep

LEMMA DaemonLooks ==
    ASSUME TypeInv, ClaimInv, LoopInv, HandlerInv,
           StartDaemon \/ DrainPending \/ Join \/ Crash
    PROVE  /\ HandlerInv'
           /\ \A r \in Runs : Waits(r) => Attended(r)'
<1>1. CASE StartDaemon
  <2>1. Boot \in Callers /\ Boot \notin Runs /\ chain \in [Callers -> Chain]
    BY CallerFacts DEF TypeInv, TypeOK
  <2>2. \A r \in Runs : chain'[r] = chain[r]
    BY <1>1, <2>1, CallerFacts DEF StartDaemon, StartSweep
  <2>3. daemon' = "booting"
    BY <1>1 DEF StartDaemon
  <2> QED BY <2>2, <2>3 DEF HandlerInv, HandlersOK, Attended
<1>2. CASE Crash
  <2>1. daemon' = "down" /\ \A r \in Runs : chain'[r].pc = "idle"
    BY <1>2, ExitLoops, CallerFacts DEF Crash
  <2> QED BY <2>1 DEF HandlerInv, HandlersOK, Attended, SweepPc
<1>3. CASE DrainPending
  <2>1. /\ TypeOK /\ PendingRuns(runStatus) \in SUBSET Runs /\ HandlersOK(chain)
        /\ chain \in [Callers -> Chain] /\ loop \in [Runs -> Loop] /\ drains \in Nat
    BY DEF PendingRuns, TypeInv, TypeOK, HandlerInv
  <2>2. /\ ContinueDrain(PendingRuns(runStatus), NoSweep, chain, loop, -1)
        /\ drains > 0
    BY <1>3 DEF DrainPending
  <2>3. HandlerInv'
    BY <2>1, <2>2, ContinueDrainHandlers
  <2>4. ASSUME NEW r \in Runs, Waits(r)
        PROVE  Attended(r)'
    <3>1. chain[r].pc \in {"idle", "fetch", "stageless", "slot"} /\ r \in PendingRuns(runStatus)
      BY <2>4, WaitingPlace DEF PendingRuns, Waits
    <3>2. \A q \in Runs : chain[q].pc = "idle" => loop[q] = NoLoop
      BY DEF LoopInv, LoopsOK
    <3>3. -1 \in Int /\ drains + -1 >= 0
      BY <2>1, <2>2
    <3> QED BY <2>1, <2>2, <3>1, <3>2, <3>3, ContinueDrainLooks
  <2> QED BY <2>3, <2>4
<1>4. CASE Join
  <2>1. daemon = "started" /\ UNCHANGED <<chain, loop, drains, events>>
    BY <1>4 DEF Join
  <2> QED BY <2>1 DEF HandlerInv, Attended, Waits
<1> QED BY <1>1, <1>2, <1>3, <1>4

\* A channel that drops forgets what it was to announce, and nothing else.
LEMMA DropLooks ==
    ASSUME HandlerInv, Disconnect
    PROVE  /\ HandlerInv'
           /\ \A r \in Runs : Attended(r) => Attended(r)' \/ Unannounced(r)
<1>1. daemon = "up" /\ UNCHANGED <<chain, loop, drains>>
  BY DEF Disconnect
<1> QED BY <1>1 DEF HandlerInv, Attended, Unannounced

\* Only an insertion makes a run pending, which a channel that is joined announces.
LEMMA UserLooks ==
    ASSUME TypeInv, HandlerInv, User
    PROVE  /\ HandlerInv'
           /\ \A r \in Runs : /\ Attended(r) \/ (runStatus[r] = "absent" /\ daemon # "started")
                              /\ runStatus'[r] = "pending"
                              => Attended(r)'
<1>1. UNCHANGED <<chain, loop, drains, daemon>>
  BY DEF User, Trigger, AutoDispatch, Insert, Seed, Cancel, ReadCancel, CancelStageRuns,
         CancelRun, WebStep, Decide
<1>2. ASSUME NEW q \in Runs, NEW request, Insert(q, request)
      PROVE  \A r \in Runs : /\ Attended(r) \/ (runStatus[r] = "absent" /\ daemon # "started")
                             /\ runStatus'[r] = "pending"
                             => Attended(r)'
  <2>1. \A r \in Runs : r # q => runStatus'[r] = runStatus[r]
    BY <1>2 DEF Insert, TypeInv, TypeOK
  <2>2. events \subseteq events' /\ (daemon = "up" => q \in events')
    BY <1>2 DEF Insert
  <2>3. daemon \in {"down", "booting", "started", "up"} /\ runStatus \in [Runs -> RunStatus]
    BY DEF TypeInv, TypeOK
  <2>4. ASSUME NEW r \in Runs, Attended(r)
        PROVE  Attended(r)'
    BY <1>1, <2>2, <2>4 DEF Attended
  <2>5. ASSUME NEW r \in Runs, runStatus[r] = "absent", daemon # "started",
               runStatus'[r] = "pending"
        PROVE  Attended(r)'
    <3>1. r = q
      BY <2>1, <2>5
    <3> QED BY <1>1, <2>2, <2>3, <2>5, <3>1 DEF Attended
  <2> QED BY <2>4, <2>5
<1>3. CASE /\ events' = events
           /\ \/ runStatus' = runStatus
              \/ \E q \in Runs : runStatus' = [runStatus EXCEPT ![q] = "cancelled"]
  <2>1. \A r \in Runs : runStatus'[r] \in {runStatus[r], "cancelled"}
    BY <1>3 DEF TypeInv, TypeOK
  <2> QED BY <1>1, <1>3, <2>1 DEF Attended, HandlerInv
<1>4. \/ \E q \in Runs : \E request : Insert(q, request)
      \/ /\ events' = events
         /\ \/ runStatus' = runStatus
            \/ \E q \in Runs : runStatus' = [runStatus EXCEPT ![q] = "cancelled"]
  BY DEF User, Trigger, AutoDispatch, Seed, Cancel, ReadCancel, CancelStageRuns,
         CancelRun, WebStep, Decide
<1> QED BY <1>1, <1>2, <1>3, <1>4 DEF HandlerInv

\* A step of QueuedRunNotForgotten.
NotForgotten ==
    \A r \in Runs :
       /\ Attended(r) \/ (runStatus[r] = "absent" /\ daemon # "started")
       /\ runStatus'[r] = "pending"
       => Attended(r)' \/ Refused(r) \/ Abandoned(r) \/ Unannounced(r)

\* The daemon puts no run into the queue.
LEMMA QueueShrinks ==
    ASSUME TypeInv, System \/ Crash \/ Disconnect, NEW r \in Runs, runStatus'[r] = "pending"
    PROVE  runStatus[r] = "pending"
<1>0. runStatus \in [Runs -> RunStatus]
  BY DEF TypeInv, TypeOK
<1>1. ASSUME NEW q \in Runs, Deliver(q) \/ Handle(q)
      PROVE  runStatus[r] = "pending"
  BY <1>0, <1>1 DEF Deliver, Handle, Fetch, FailStageless, TryAcquireRunningSlot, Denied,
                       ChooseStage, dbVars
<1>2. ASSUME NEW c \in Callers, Launch(c) \/ PidRecorded(c)
      PROVE  runStatus[r] = "pending"
  <2>1. StatusOf(chain[c].arg) # "pending"
    BY DEF StatusOf, Settled
  <2>2. CASE FinishRun(c)
    BY <1>0, <2>1, <2>2 DEF FinishRun
  <2>3. CASE ~FinishRun(c)
    BY <1>2, <2>3 DEF Launch, CreateRow, HoldAtGate, RefuseNoDriver, AcquireEnv, MarkRunning,
         SpawnDriver, DriverExit, Settle, StageFailed, StageCompleted,
         TerminalHook, RefuseNoArtifacts, ThrowAtPrompt, PidRecorded, dbVars
  <2> QED BY <2>2, <2>3
<1>3. CASE \/ StartDaemon \/ DrainPending \/ Crash \/ Join \/ Disconnect
           \/ \E s \in Sweeps : Sweep(s) \/ Tick(s)
  BY <1>3 DEF StartDaemon, DrainPending, Crash, Join, Disconnect, Sweep, SweepRow, SweepEnd, SweepDrain, Tick,
              dbVars
<1> QED BY <1>1, <1>2, <1>3 DEF System

LEMMA LooksNext ==
    TypeInv /\ ClaimInv /\ LoopInv /\ HandlerInv /\ [Next]_vars => HandlerInv' /\ NotForgotten
<1> SUFFICES ASSUME TypeInv, ClaimInv, LoopInv, HandlerInv, [Next]_vars
             PROVE  HandlerInv' /\ NotForgotten
  OBVIOUS
<1>daemon. ASSUME System \/ Crash \/ Disconnect, HandlerInv',
                  \A r \in Runs : Waits(r) /\ runStatus'[r] = "pending"
                                     => Attended(r)' \/ Abandoned(r) \/ Unannounced(r)
           PROVE  HandlerInv' /\ NotForgotten
  <2>1. ASSUME NEW r \in Runs,
               Attended(r) \/ (runStatus[r] = "absent" /\ daemon # "started"),
               runStatus'[r] = "pending", ~Refused(r)
        PROVE  Attended(r)' \/ Abandoned(r) \/ Unannounced(r)
    <3>1. runStatus[r] = "pending"
      BY <1>daemon, <2>1, QueueShrinks
    <3> QED BY <1>daemon, <2>1, <3>1 DEF Waits
  <2> QED BY <1>daemon, <2>1 DEF NotForgotten
<1>1. ASSUME NEW r \in Runs, Deliver(r) \/ Handle(r)
      PROVE  HandlerInv' /\ NotForgotten
  BY <1>1, <1>daemon, HandlerLooks DEF System
<1>2. ASSUME NEW c \in Callers, Launch(c)
      PROVE  HandlerInv' /\ NotForgotten
  BY <1>2, <1>daemon, LaunchLooks DEF System
<1>3. ASSUME NEW s \in Sweeps, Sweep(s) \/ Tick(s)
      PROVE  HandlerInv' /\ NotForgotten
  BY <1>3, <1>daemon, SweepLooks DEF System
<1>4. CASE StartDaemon \/ DrainPending \/ Join \/ Crash
  BY <1>4, <1>daemon, DaemonLooks DEF System
<1>7. CASE Disconnect
  BY <1>7, <1>daemon, DropLooks DEF Waits
<1>5. CASE User
  BY <1>5, UserLooks DEF NotForgotten
<1>6. CASE UNCHANGED vars \/ \E c \in Callers : PidRecorded(c)
  <2>1. UNCHANGED <<runStatus, daemon, chain, loop, drains, events>>
    BY <1>6 DEF vars, PidRecorded
  <2>2. runStatus \in [Runs -> RunStatus] /\ \A r \in Runs : Attended(r) => Attended(r)'
    BY <2>1 DEF TypeInv, TypeOK, Attended
  <2> QED BY <2>1, <2>2 DEF NotForgotten, HandlerInv
<1> QED BY <1>1, <1>2, <1>3, <1>4, <1>5, <1>6, <1>7 DEF Next, System

LEMMA LooksInit == Init => HandlerInv
BY IdleType, CallerFacts DEF Init, HandlerInv, HandlersOK, SweepPc

\* From an insertion that the joined channel announces, or that precedes start,
\* something the daemon will still do looks at the pending run, in every instance
\* and with any sweeps: what wakes the queue is not lost between handlers,
\* drains, sweeps, boot, the join and a crash, but by a refusal, by an exception
\* that abandons the loop the run waits in, or by the channel itself.
THEOREM QueueNotForgotten == Spec => QueuedRunNotForgotten
<1>1. NotForgotten => \A r \in Runs :
          /\ Attended(r) \/ (runStatus[r] = "absent" /\ daemon # "started")
          /\ runStatus'[r] = "pending"
          => Attended(r)' \/ Refused(r) \/ Abandoned(r) \/ Unannounced(r)
  BY DEF NotForgotten
<1> QED BY <1>1, LooksInit, LooksNext, RowsInit, RowsNext, ClaimsInit, ClaimsNext,
           TypeInvHolds, PTL DEF Spec, QueuedRunNotForgotten

===============================================================================
