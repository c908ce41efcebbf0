-------------------------- MODULE IssueDispatch_proofs --------------------------
(***************************************************************************)
(* The watcher's dispatch for every number of issues, runs and outages: it *)
(* queues no second run, and queues on the current row.                    *)
(*                                                                         *)
(* Neither is inductive alone.  Between the test for an active run and the    *)
(* insertion anything may happen to the issue's other runs but one thing:  *)
(* that a run the watcher queued becomes active.  So the invariant follows *)
(* a run's chain to the statuses it may still write, and an issue's chain  *)
(* to what it has read, and says that one lane at a time handles an issue. *)
(***************************************************************************)
EXTENDS IssueDispatch, TLAPS

\* What the chain of a run may still write is decided by its status.
PhasesInv ==
    \A r \in Runs :
        /\ run[r].phase \in {"drive", "block", "stop"} =>
              run[r].status = "running" \/ run[r].cancelled
        /\ run[r].phase # "none" => run[r].status # "absent"
        /\ run[r].status # "absent" => run[r].of \in Issues
        /\ run[r].status = "pending" => ~run[r].cancelled /\ run[r].phase = "none"

TypeInv == TypeOK /\ PhasesInv

-------------------------------------------------------------------------------
(* Types. *)

LEMMA RunEdits ==
    ASSUME NEW x \in Run
    PROVE  /\ [x EXCEPT !.status = "cancelled", !.cancelled = TRUE] \in Run
           /\ [x EXCEPT !.status = "running", !.phase = "drive"] \in Run
           /\ [x EXCEPT !.phase = "none", !.status = "blocked"] \in Run
           /\ \A p \in {"none", "drive", "block", "blocked", "stop", "deploy"} :
                 [x EXCEPT !.phase = p] \in Run
           /\ \A s \in {"completed", "failed", "blocked"},
                p \in {"none", "blocked", "deploy"} :
                 [x EXCEPT !.phase = p, !.status = s] \in Run
  BY DEF Run, Settled

LEMMA IssueEdits ==
    ASSUME NEW x \in Issue
    PROVE  /\ [x EXCEPT !.exists = TRUE, !.open = TRUE] \in Issue
           /\ [x EXCEPT !.open = ~@] \in Issue
           /\ [x EXCEPT !.closed = ~@] \in Issue
           /\ [x EXCEPT !.open = FALSE] \in Issue
  BY DEF Issue

LEMMA CommitTypes ==
    ASSUME TypeOK, NEW i \in Issues, NEW new \in Issue, Commit(i, new)
    PROVE  /\ issue' \in [Issues -> Issue] /\ changed' \subseteq Issues
           /\ events' \subseteq Issues /\ missed' \subseteq Issues
  BY DEF TypeOK, Commit

LEMMA ExitTypes ==
    ASSUME TypeOK, Exit
    PROVE  /\ daemon' = "down" /\ chain' \in [Issues \X Lanes -> Chain]
           /\ sweep' \in [pc : {"none", "list", "runs", "loop"}, todo : SUBSET Issues]
           /\ events' \subseteq Issues /\ run' \in [Runs -> Run]
<1>1. run \in [Runs -> Run]
  BY DEF TypeOK
<1>2. run' = [r \in Runs |-> [run[r] EXCEPT !.phase = "none"]]
  BY DEF Exit
<1>3. \A r \in Runs : [run[r] EXCEPT !.phase = "none"] \in Run
  BY <1>1, RunEdits
<1>4. run' \in [Runs -> Run]
  BY <1>2, <1>3
<1>5. Quiet \in Chain /\ chain' = [x \in Issues \X Lanes |-> Quiet]
  BY DEF Exit, Quiet, Chain
<1>6. chain' \in [Issues \X Lanes -> Chain]
  BY <1>5
<1> QED BY <1>4, <1>6 DEF Exit, NoSweep

LEMMA EnqueueTypes ==
    ASSUME TypeOK, NEW i \in Issues, NEW r \in Runs, NEW who \in {"watcher", "user"},
           Enqueue(r, i, who)
    PROVE  run' \in [Runs -> Run]
  BY DEF TypeOK, Enqueue, Run

LEMMA HandleTypes ==
    ASSUME TypeOK, NEW i \in Issues, NEW l \in Lanes, HandleIssueEvent(i, l)
    PROVE  chain' \in [Issues \X Lanes -> Chain] /\ missed' \subseteq Issues
<1>1. [Quiet EXCEPT !.pc = "read"] \in Chain
  BY DEF Quiet, Chain
<1>2. chain \in [Issues \X Lanes -> Chain] /\ <<i, l>> \in Issues \X Lanes
  BY DEF TypeOK
<1> QED BY <1>1, <1>2 DEF TypeOK, HandleIssueEvent

LEMMA ToTypes ==
    ASSUME TypeOK, NEW i \in Issues, NEW l \in Lanes,
           NEW pc \in {"idle", "active", "insert"}, To(i, l, pc)
    PROVE  chain' \in [Issues \X Lanes -> Chain]
<1>1. chain \in [Issues \X Lanes -> Chain] /\ <<i, l>> \in Issues \X Lanes
  BY DEF TypeOK
<1>2. chain[<<i, l>>] \in Chain
  BY <1>1
<1>3. [chain[<<i, l>>] EXCEPT !.pc = pc] \in Chain /\ Quiet \in Chain
  BY <1>2 DEF Chain, Quiet
<1> QED BY <1>1, <1>3 DEF To

LEMMA TypeOKStep == TypeInv /\ [Next]_vars => TypeOK'
<1> SUFFICES ASSUME TypeOK, PhasesInv, [Next]_vars
             PROVE  TypeOK'
  BY DEF TypeInv
<1> USE DispatchAssumption DEF TypeOK
<1>1. CASE UNCHANGED vars
  BY <1>1 DEF vars
<1>2. ASSUME NEW i \in Issues, File(i)
      PROVE  TypeOK'
  <2>1. [issue[i] EXCEPT !.exists = TRUE, !.open = TRUE] \in Issue
    BY DEF Issue
  <2> QED BY <1>2, <2>1, CommitTypes DEF File
<1>3. ASSUME NEW i \in Issues, Edit(i)
      PROVE  TypeOK'
  <2>1. /\ [issue[i] EXCEPT !.open = ~@] \in Issue
        /\ [issue[i] EXCEPT !.closed = ~@] \in Issue
        /\ issue[i] \in Issue
    BY DEF Issue
  <2> QED BY <1>3, <2>1, CommitTypes DEF Edit, Act
<1>4. ASSUME NEW i \in Issues, NEW r \in Runs, Trigger(i, r)
      PROVE  TypeOK'
  BY <1>4, EnqueueTypes DEF Trigger, Act
<1>5. ASSUME NEW r \in Runs, Cancel(r)
      PROVE  TypeOK'
  <2>1. [run[r] EXCEPT !.status = "cancelled", !.cancelled = TRUE] \in Run
    BY RunEdits
  <2>2. run' = [run EXCEPT ![r] = [run[r] EXCEPT !.status = "cancelled", !.cancelled = TRUE]]
    BY <1>5 DEF Cancel
  <2>3. run' \in [Runs -> Run]
    BY <2>1, <2>2
  <2>4. acts' \in 0..MaxActs
    BY <1>5 DEF Cancel, Act
  <2> QED BY <1>5, <2>3, <2>4 DEF Cancel
<1>6. ASSUME NEW r \in Runs, Claim(r)
      PROVE  TypeOK'
  <2>1. [run[r] EXCEPT !.status = "running", !.phase = "drive"] \in Run
    BY RunEdits
  <2>2. run' = [run EXCEPT ![r] = [run[r] EXCEPT !.status = "running", !.phase = "drive"]]
    BY <1>6 DEF Claim
  <2>3. run' \in [Runs -> Run]
    BY <2>1, <2>2
  <2> QED BY <1>6, <2>3 DEF Claim
<1>7. ASSUME NEW r \in Runs, Decide(r)
      PROVE  TypeOK'
  <2>1. ASSUME NEW p \in {"none", "block"}, run' = [run EXCEPT ![r].phase = p]
        PROVE  run' \in [Runs -> Run]
    <3>1. [run[r] EXCEPT !.phase = p] \in Run
      BY RunEdits
    <3> QED BY <2>1, <3>1
  <2>2. ASSUME NEW p \in {"none", "blocked", "deploy"},
               NEW s \in {"completed", "failed", "blocked"},
               run' = [run EXCEPT ![r].phase = p, ![r].status = s]
        PROVE  run' \in [Runs -> Run]
    <3>1. [run[r] EXCEPT !.phase = p, !.status = s] \in Run
      BY RunEdits
    <3> QED BY <2>2, <3>1
  <2>3. run' \in [Runs -> Run]
    BY <1>7, <2>1, <2>2 DEF Decide
  <2> QED BY <1>7, <2>3 DEF Decide
<1>8. ASSUME NEW r \in Runs, Stop(r)
      PROVE  TypeOK'
  <2>1. [run[r] EXCEPT !.phase = "none", !.status = "blocked"] \in Run
    BY RunEdits
  <2>2. run' = [run EXCEPT ![r] = [run[r] EXCEPT !.phase = "none", !.status = "blocked"]]
    BY <1>8 DEF Stop
  <2>3. run' \in [Runs -> Run]
    BY <2>1, <2>2
  <2> QED BY <1>8, <2>3 DEF Stop
<1>9. ASSUME NEW i \in Issues, Deliver(i)
      PROVE  TypeOK'
  BY <1>9, HandleTypes DEF Deliver, Lanes
<1>10. ASSUME NEW i \in Issues, NEW l \in Lanes, Read(i, l)
       PROVE  TypeOK'
  <2>1. chain' \in [Issues \X Lanes -> Chain]
    <3>1. [pc |-> "status", open |-> issue[i].open] \in Chain /\ Quiet \in Chain
      BY DEF Chain, Quiet, Issue
    <3> QED BY <1>10, <3>1 DEF Read
  <2> QED BY <1>10, <2>1 DEF Read
<1>11. ASSUME NEW i \in Issues, NEW l \in Lanes, ResolveStatus(i, l)
       PROVE  TypeOK'
  BY <1>11, ToTypes, ExitTypes DEF ResolveStatus
<1>12. ASSUME NEW i \in Issues, NEW l \in Lanes, CheckActive(i, l)
       PROVE  TypeOK'
  BY <1>12, ToTypes DEF CheckActive
<1>13. ASSUME NEW i \in Issues, NEW l \in Lanes, NEW r \in Runs, InsertRun(i, l, r)
       PROVE  TypeOK'
  BY <1>13, ToTypes, EnqueueTypes DEF InsertRun
<1>14. CASE SweepIssues \/ SweepRuns
  BY <1>14 DEF SweepIssues, SweepRuns
<1>15. ASSUME NEW i \in Issues, SweepNext(i)
       PROVE  TypeOK'
  BY <1>15, HandleTypes DEF SweepNext, Lanes
<1>16. CASE Crash
  BY <1>16, ExitTypes DEF Crash
<1>17. CASE Boot
  <2>1. run' \in [Runs -> Run]
    BY <1>17 DEF Boot, Run
  <2> QED BY <1>17, <2>1 DEF Boot
<1>18. CASE StartWatcher \/ Join \/ Disconnect
  BY <1>18, ExitTypes DEF StartWatcher, Join, Disconnect
<1>19. CASE BreakConfig \/ MendConfig
  <2>1. outages' \in 0..MaxOutages
    BY <1>19 DEF BreakConfig, MendConfig
  <2>2. config' \in BOOLEAN
    BY <1>19 DEF BreakConfig, MendConfig
  <2> QED BY <1>19, <2>1, <2>2 DEF BreakConfig, MendConfig
<1>20. ASSUME NEW r \in Runs, Block(r) \/ Deploy(r)
       PROVE  TypeOK'
  <2>1. run[r].of \in Issues
    BY <1>20 DEF Block, Deploy, PhasesInv
  <2>2. /\ [issue[run[r].of] EXCEPT !.open = FALSE] \in Issue
        /\ issue[run[r].of] \in Issue
    BY <2>1, IssueEdits
  <2>3. run' \in [Runs -> Run]
    BY <1>20 DEF Block, Deploy, Run
  <2> QED BY <1>20, <2>1, <2>2, <2>3, CommitTypes DEF Block, Deploy
<1> QED BY <1>1, <1>2, <1>3, <1>4, <1>5, <1>6, <1>7, <1>8, <1>9, <1>10, <1>11, <1>12,
     <1>13, <1>14, <1>15, <1>16, <1>17, <1>18, <1>19, <1>20
     DEF Next, Users, Orchestrate, Dispatch, Sweep

-------------------------------------------------------------------------------
(* Rows.  What one step does to the row of a run is one of six things. *)

Queued(x, y) == /\ x.status = "absent" /\ y.status = "pending" /\ y.of \in Issues
                /\ ~y.cancelled /\ y.phase = "none"

SameRun(x, y) == y.of = x.of /\ y.by = x.by

\* The row of a live run is claimed, is cancelled, or is written by its chain.
RowStep(x, y) ==
    \/ y = x
    \/ Queued(x, y)
    \/ /\ SameRun(x, y) /\ x.status # "absent"
       /\ \/ /\ x.status = "pending" /\ y.status = "running"
             /\ y.phase = "drive" /\ y.cancelled = x.cancelled
          \/ y.status = "cancelled" /\ y.cancelled /\ y.phase = x.phase
          \/ /\ x.phase \in {"drive", "stop"} /\ y.cancelled = x.cancelled
             /\ y.phase \in {"none", "deploy", "blocked"}
             /\ y.status \in {"completed", "failed", "blocked"}
          \/ /\ y.status = x.status /\ y.cancelled = x.cancelled
             /\ y.phase \in {"drive", "block", "stop"} =>
                   x.phase \in {"drive", "block", "stop"} \/ x.status = "running"
             /\ x.phase = "none" => y.phase = "none" \/ x.status = "running"
    \/ [x EXCEPT !.phase = "none"] = y

LEMMA RowStepKeepsPhases ==
    ASSUME NEW x \in Run, NEW y \in Run, RowStep(x, y),
           x.phase \in {"drive", "block", "stop"} => x.status = "running" \/ x.cancelled,
           x.phase # "none" => x.status # "absent",
           x.status # "absent" => x.of \in Issues,
           x.status = "pending" => ~x.cancelled /\ x.phase = "none"
    PROVE  /\ y.phase \in {"drive", "block", "stop"} => y.status = "running" \/ y.cancelled
           /\ y.phase # "none" => y.status # "absent"
           /\ y.status # "absent" => y.of \in Issues
           /\ y.status = "pending" => ~y.cancelled /\ y.phase = "none"
  BY DEF Run, Settled, RowStep, Queued, SameRun

\* The run whose row a step writes.
Writes(r) == \A q \in Runs : q # r => run'[q] = run[q]

LEMMA WriteIsStep ==
    ASSUME TypeOK, NEW r \in Runs, NEW y, run' = [run EXCEPT ![r] = y],
           RowStep(run[r], y)
    PROVE  \A q \in Runs : RowStep(run[q], run'[q])
<1>1. \A q \in Runs : run'[q] = IF q = r THEN y ELSE run[q]
  BY DEF TypeOK
<1> QED BY <1>1 DEF RowStep

LEMMA EnqueueIsStep ==
    ASSUME TypeOK, NEW r \in Runs, NEW i \in Issues, NEW who, Enqueue(r, i, who)
    PROVE  \A q \in Runs : RowStep(run[q], run'[q])
<1> DEFINE y == [status |-> "pending", of |-> i, by |-> who,
                 cancelled |-> FALSE, phase |-> "none"]
<1>1. run' = [run EXCEPT ![r] = y] /\ Queued(run[r], y)
  BY DEF Enqueue, Queued
<1>2. RowStep(run[r], y)
  BY <1>1 DEF RowStep
<1> HIDE DEF y
<1> QED BY <1>1, <1>2, WriteIsStep

LEMMA OrchestrateIsStep ==
    ASSUME TypeInv, NEW r \in Runs, Orchestrate(r)
    PROVE  /\ run[r].status # "absent"
           /\ \E y \in Run : run' = [run EXCEPT ![r] = y] /\ RowStep(run[r], y)
<1>0. run[r] \in Run /\ run \in [Runs -> Run]
  BY DEF TypeInv, TypeOK
<1>p. \A p \in {"none", "deploy", "drive", "block", "stop"} :
        [run[r] EXCEPT !.phase = p] \in Run
  BY <1>0, RunEdits
<1>s. run[r].phase # "none" => run[r].status # "absent"
  BY DEF TypeInv, PhasesInv
<1>a. run[r].status # "absent"
  BY <1>s DEF Orchestrate, Claim, Claimable, Decide, Block, Stop, Deploy
<1>1. CASE Claim(r)
  <2> DEFINE y == [run[r] EXCEPT !.status = "running", !.phase = "drive"]
  <2>1. run' = [run EXCEPT ![r] = y] /\ y \in Run /\ run[r].status = "pending"
    BY <1>0, <1>1, RunEdits DEF Claim, Claimable
  <2>2. RowStep(run[r], y)
    BY <1>0, <2>1 DEF RowStep, SameRun, Run
  <2> QED BY <1>a, <2>1, <2>2
<1>2. CASE Decide(r)
  <2>1. ASSUME NEW p \in {"none", "block"}, run' = [run EXCEPT ![r].phase = p]
        PROVE  \E y \in Run : run' = [run EXCEPT ![r] = y] /\ RowStep(run[r], y)
    <3> DEFINE y == [run[r] EXCEPT !.phase = p]
    <3>1. run' = [run EXCEPT ![r] = y] /\ y \in Run
      BY <1>p, <2>1
    <3>2. RowStep(run[r], y)
      BY <1>0, <1>s, <1>2, <3>1 DEF RowStep, SameRun, Run, Decide
    <3> QED BY <3>1, <3>2
  <2>2. ASSUME NEW p \in {"none", "blocked", "deploy"},
               NEW s \in {"completed", "failed", "blocked"},
               run' = [run EXCEPT ![r].phase = p, ![r].status = s]
        PROVE  \E y \in Run : run' = [run EXCEPT ![r] = y] /\ RowStep(run[r], y)
    <3> DEFINE y == [run[r] EXCEPT !.phase = p, !.status = s]
    <3>1. run' = [run EXCEPT ![r] = y] /\ y \in Run
      BY <1>0, <2>2, RunEdits
    <3>2. RowStep(run[r], y)
      BY <1>0, <1>s, <1>2, <3>1 DEF RowStep, SameRun, Run, Decide
    <3> QED BY <3>1, <3>2
  <2> QED BY <1>a, <1>2, <2>1, <2>2 DEF Decide
<1>3. CASE Block(r)
  <2>1. PICK p \in {"none", "stop"} :
          /\ run' = [run EXCEPT ![r].phase = p]
          /\ p = "stop" => run[r].phase = "block"
    BY <1>0, <1>3 DEF Block
  <2> DEFINE y == [run[r] EXCEPT !.phase = p]
  <2>2. run' = [run EXCEPT ![r] = y] /\ y \in Run
    BY <1>p, <2>1
  <2>3. RowStep(run[r], y)
    BY <1>0, <1>s, <1>3, <2>1, <2>2 DEF RowStep, SameRun, Run, Block
  <2> QED BY <1>a, <2>2, <2>3
<1>4. CASE Stop(r)
  <2> DEFINE y == [run[r] EXCEPT !.phase = "none", !.status = "blocked"]
  <2>1. run' = [run EXCEPT ![r] = y] /\ y \in Run
    BY <1>0, <1>4, RunEdits DEF Stop
  <2>2. RowStep(run[r], y)
    BY <1>0, <1>s, <1>4, <2>1 DEF RowStep, SameRun, Run, Stop
  <2> QED BY <1>a, <2>1, <2>2
<1>5. CASE Deploy(r)
  <2> DEFINE y == [run[r] EXCEPT !.phase = "none"]
  <2>1. run' = [run EXCEPT ![r] = y] /\ y \in Run
    BY <1>p, <1>5 DEF Deploy
  <2>2. RowStep(run[r], y)
    BY <1>0, <1>s, <1>5, <2>1 DEF RowStep, SameRun, Run, Deploy
  <2> QED BY <1>a, <2>1, <2>2
<1> QED BY <1>1, <1>2, <1>3, <1>4, <1>5 DEF Orchestrate

LEMMA RowsStep ==
    ASSUME TypeInv, [Next]_vars
    PROVE  \A q \in Runs : RowStep(run[q], run'[q])
<1>0. run \in [Runs -> Run]
  BY DEF TypeInv, TypeOK
<1>1. CASE UNCHANGED run
  BY <1>1 DEF RowStep
<1>2. ASSUME NEW r \in Runs, Orchestrate(r)
      PROVE  \A q \in Runs : RowStep(run[q], run'[q])
  BY <1>2, OrchestrateIsStep, WriteIsStep DEF TypeInv
<1>3. ASSUME NEW r \in Runs, NEW i \in Issues, NEW who, Enqueue(r, i, who)
      PROVE  \A q \in Runs : RowStep(run[q], run'[q])
  BY <1>3, EnqueueIsStep DEF TypeInv
<1>4. ASSUME NEW r \in Runs, Cancel(r)
      PROVE  \A q \in Runs : RowStep(run[q], run'[q])
  <2> DEFINE y == [run[r] EXCEPT !.status = "cancelled", !.cancelled = TRUE]
  <2>1. run' = [run EXCEPT ![r] = y] /\ run[r].status # "absent"
    BY <1>4 DEF Cancel
  <2>2. RowStep(run[r], y)
    BY <1>0, <2>1 DEF RowStep, SameRun, Run
  <2> HIDE DEF y
  <2> QED BY <2>1, <2>2, WriteIsStep DEF TypeInv
<1>5. CASE Exit
  BY <1>5 DEF Exit, RowStep
<1>6. CASE Boot
  <2>1. ASSUME NEW q \in Runs, run'[q] # run[q]
        PROVE  run[q].status = "running" /\ run'[q] = [run[q] EXCEPT !.phase = "drive"]
    BY <1>6, <2>1 DEF Boot
  <2>2. ASSUME NEW q \in Runs, run'[q] # run[q]
        PROVE  RowStep(run[q], run'[q])
    <3>1. run[q] \in Run /\ run[q].status = "running"
      BY <1>0, <2>1, <2>2
    <3>2. run'[q] = [run[q] EXCEPT !.phase = "drive"]
      BY <2>1, <2>2
    <3>3. RowStep(run[q], [run[q] EXCEPT !.phase = "drive"])
      BY <3>1 DEF RowStep, SameRun, Run
    <3> QED BY <3>2, <3>3
  <2> QED BY <2>2 DEF RowStep
<1> QED
  <2>1. ASSUME NEW i \in Issues, NEW r \in Runs, Trigger(i, r)
        PROVE  \A q \in Runs : RowStep(run[q], run'[q])
    BY <1>3, <2>1 DEF Trigger
  <2>2. ASSUME NEW i \in Issues, NEW l \in Lanes, Dispatch(i, l)
        PROVE  \A q \in Runs : RowStep(run[q], run'[q])
    BY <1>1, <1>3, <1>5, <2>2 DEF Dispatch, Read, ResolveStatus, CheckActive, InsertRun
  <2>3. CASE Users
    BY <1>1, <1>4, <2>1, <2>3 DEF Users, File, Edit
  <2>4. CASE Sweep \/ Crash \/ StartWatcher \/ Join \/ Disconnect \/ BreakConfig \/ MendConfig
    BY <1>1, <1>5, <2>4
       DEF Sweep, SweepIssues, SweepRuns, SweepNext, Crash,
          StartWatcher, Join, Disconnect, BreakConfig, MendConfig
  <2>5. ASSUME NEW i \in Issues, Deliver(i)
        PROVE  \A q \in Runs : RowStep(run[q], run'[q])
    BY <1>1, <2>5 DEF Deliver
  <2> QED BY <1>1, <1>2, <1>6, <2>2, <2>3, <2>4, <2>5 DEF Next, vars

LEMMA TypeInvStep == TypeInv /\ [Next]_vars => TypeInv'
<1> SUFFICES ASSUME TypeInv, [Next]_vars
             PROVE  TypeInv'
  OBVIOUS
<1>1. TypeOK'
  BY TypeOKStep
<1>2. ASSUME NEW r \in Runs
      PROVE  /\ run'[r].phase \in {"drive", "block", "stop"} =>
                    run'[r].status = "running" \/ run'[r].cancelled
             /\ run'[r].phase # "none" => run'[r].status # "absent"
             /\ run'[r].status # "absent" => run'[r].of \in Issues
             /\ run'[r].status = "pending" => ~run'[r].cancelled /\ run'[r].phase = "none"
  <2>1. run[r] \in Run /\ run'[r] \in Run
    BY <1>1 DEF TypeInv, TypeOK
  <2>2. RowStep(run[r], run'[r])
    BY RowsStep
  <2> HIDE DEF TypeInv
  <2>3. PhasesInv
    BY DEF TypeInv
  <2> QED BY <2>1, <2>2, <2>3, RowStepKeepsPhases DEF PhasesInv
<1> QED BY <1>1, <1>2 DEF TypeInv, PhasesInv

THEOREM TypeInvHolds == Spec => []TypeInv
<1>1. Init => TypeInv
  BY DispatchAssumption
     DEF Init, TypeInv, TypeOK, PhasesInv, Issue, Run, Chain, Quiet, NoSweep
<1> QED BY <1>1, TypeInvStep, PTL DEF Spec

\* Types: what the events, the lanes and the runs' chains hold is what the
\* code's declarations allow, through every crash, sweep and cancellation.
THEOREM TypeCorrect == Spec => []TypeOK
<1>1. TypeInv => TypeOK
  BY DEF TypeInv
<1> QED BY <1>1, TypeInvHolds, PTL

-------------------------------------------------------------------------------
(* Lanes.  The two lanes never handle one issue at a time, and a lane that *)
(* has found the issue without an active run still finds it without one    *)
(* the watcher queued.                                                     *)

OneLane == \A i \in Issues, l, m \in Lanes :
    chain[<<i, l>>].pc # "idle" /\ chain[<<i, m>>].pc # "idle" => l = m

\* The run x is one the watcher queued for i, and is not over.
Holds(x, i) == /\ x.of = i /\ x.by = "watcher"
               /\ x.status \in Active /\ ~x.cancelled

InsertInv == \A i \in Issues, l \in Lanes :
    chain[<<i, l>>].pc = "insert" => \A r \in Runs : ~Holds(run[r], i)

OneHeld == \A i \in Issues, r, q \in Runs :
    Holds(run[r], i) /\ Holds(run[q], i) => r = q

DispatchInv == TypeInv /\ OneLane /\ InsertInv /\ OneHeld

\* Lanes that only advance: none starts, none passes the test.
Calm == \A i \in Issues, l \in Lanes :
    /\ chain'[<<i, l>>].pc # "idle" => chain[<<i, l>>].pc # "idle"
    /\ chain'[<<i, l>>].pc = "insert" => chain[<<i, l>>].pc = "insert"

\* No run becomes one that the watcher queued and that is not over.
Unheld == \A r \in Runs, i \in Issues : Holds(run'[r], i) => Holds(run[r], i)

LEMMA RowStepUnheld ==
    ASSUME TypeInv, NEW r \in Runs, RowStep(run[r], run'[r]),
           ~Queued(run[r], run'[r]), NEW i \in Issues, Holds(run'[r], i)
    PROVE  Holds(run[r], i)
<1>1. run[r] \in Run
  BY DEF TypeInv, TypeOK
<1>2. run[r].phase \in {"drive", "stop"} => run[r].status = "running" \/ run[r].cancelled
  BY DEF TypeInv, PhasesInv
<1> HIDE DEF TypeInv
<1> DEFINE x == run[r]
           y == run'[r]
<1>3. x \in Run /\ RowStep(x, y) /\ ~Queued(x, y) /\ Holds(y, i)
  BY <1>1
<1>4. x.phase \in {"drive", "stop"} => x.status = "running" \/ x.cancelled
  BY <1>2
<1>5. Holds(x, i)
  <2> HIDE DEF x, y
  <2> QED BY <1>3, <1>4 DEF RowStep, SameRun, Holds, Active, Run
<1> QED BY <1>5

\* Only a queued run can become one.
LEMMA NoneQueued ==
    ASSUME TypeInv, [Next]_vars,
           \A r \in Runs : run[r].status = "absent" => run'[r].status = "absent"
    PROVE  Unheld
<1>1. \A r \in Runs : ~Queued(run[r], run'[r])
  BY DEF Queued
<1>2. \A r \in Runs : RowStep(run[r], run'[r])
  BY RowsStep
<1> QED BY <1>1, <1>2, RowStepUnheld DEF Unheld

LEMMA OthersUnheld ==
    ASSUME TypeInv, [Next]_vars, ~(\E i \in Issues, l \in Lanes, r \in Runs : InsertRun(i, l, r))
    PROVE  Unheld
<1>0. run \in [Runs -> Run]
  BY DEF TypeInv, TypeOK
<1>1. CASE UNCHANGED run
  BY <1>1 DEF Unheld
<1>2. ASSUME NEW r \in Runs, Orchestrate(r)
      PROVE  Unheld
  <2>1. PICK y \in Run : run[r].status # "absent" /\ run' = [run EXCEPT ![r] = y]
    BY <1>2, OrchestrateIsStep
  <2> QED BY <1>0, <2>1, NoneQueued
<1>3. ASSUME NEW r \in Runs, Cancel(r)
      PROVE  Unheld
  <2>1. \A q \in Runs : run[q].status = "absent" => run'[q].status = "absent"
    BY <1>0, <1>3 DEF Cancel
  <2> QED BY <2>1, NoneQueued
<1>4. CASE Exit \/ Boot
  <2>1. \A q \in Runs : run'[q].status = run[q].status
    BY <1>0, <1>4 DEF Exit, Boot, Run
  <2> QED BY <2>1, NoneQueued
<1>5. ASSUME NEW i \in Issues, NEW r \in Runs, Trigger(i, r)
      PROVE  Unheld
  <2>1. \A q \in Runs : q # r => run'[q] = run[q]
    BY <1>0, <1>5 DEF Trigger, Enqueue
  <2>2. run'[r].by = "user"
    BY <1>0, <1>5 DEF Trigger, Enqueue
  <2> QED BY <2>1, <2>2 DEF Unheld, Holds
<1>6. ASSUME NEW i \in Issues, NEW l \in Lanes, Dispatch(i, l)
      PROVE  Unheld
  BY <1>1, <1>4, <1>6 DEF Dispatch, Read, ResolveStatus, CheckActive
<1>7. CASE Users
  BY <1>1, <1>3, <1>5, <1>7 DEF Users, File, Edit
<1>8. CASE Sweep \/ Crash \/ StartWatcher \/ Join \/ Disconnect \/ BreakConfig \/ MendConfig
  BY <1>1, <1>4, <1>8
     DEF Sweep, SweepIssues, SweepRuns, SweepNext, Crash,
        StartWatcher, Join, Disconnect, BreakConfig, MendConfig
<1>9. ASSUME NEW i \in Issues, Deliver(i)
      PROVE  Unheld
  BY <1>1, <1>9 DEF Deliver
<1> QED BY <1>1, <1>2, <1>4, <1>6, <1>7, <1>8, <1>9 DEF Next, vars

-------------------------------------------------------------------------------
(* Moves of the lanes. *)

LEMMA ToMoves ==
    ASSUME TypeInv, NEW i \in Issues, NEW l \in Lanes,
           NEW pc \in {"idle", "active", "insert"}, To(i, l, pc)
    PROVE  /\ chain'[<<i, l>>].pc = pc
           /\ pc # "idle" => chain'[<<i, l>>].open = chain[<<i, l>>].open
           /\ \A j \in Issues, m \in Lanes :
                 <<j, m>> # <<i, l>> => chain'[<<j, m>>] = chain[<<j, m>>]
<1>1. chain \in [Issues \X Lanes -> Chain] /\ <<i, l>> \in Issues \X Lanes
  BY DEF TypeInv, TypeOK
<1>2. chain[<<i, l>>] \in Chain
  BY <1>1
<1>3. \A x \in Issues \X Lanes : x # <<i, l>> => chain'[x] = chain[x]
  BY <1>1 DEF To
<1>4. chain'[<<i, l>>] = IF pc = "idle" THEN Quiet ELSE [chain[<<i, l>>] EXCEPT !.pc = pc]
  BY <1>1 DEF To
<1>5. CASE pc = "idle"
  BY <1>3, <1>4, <1>5 DEF Quiet
<1>6. CASE pc # "idle"
  <2>1. chain'[<<i, l>>] = [chain[<<i, l>>] EXCEPT !.pc = pc]
    BY <1>4, <1>6
  <2>2. chain'[<<i, l>>].pc = pc /\ chain'[<<i, l>>].open = chain[<<i, l>>].open
    BY <1>2, <2>1 DEF Chain
  <2> QED BY <1>3, <2>2
<1> QED BY <1>5, <1>6

LEMMA ReadMoves ==
    ASSUME TypeInv, NEW i \in Issues, NEW l \in Lanes, Read(i, l)
    PROVE  /\ \/ chain'[<<i, l>>].pc = "idle"
              \/ /\ chain'[<<i, l>>].pc = "status"
                 /\ chain'[<<i, l>>].open = issue[i].open
                 /\ ~Skips(i)
           /\ \A j \in Issues, m \in Lanes :
                 <<j, m>> # <<i, l>> => chain'[<<j, m>>] = chain[<<j, m>>]
<1>1. chain \in [Issues \X Lanes -> Chain] /\ <<i, l>> \in Issues \X Lanes
  BY DEF TypeInv, TypeOK
<1>2. \A x \in Issues \X Lanes : x # <<i, l>> => chain'[x] = chain[x]
  BY <1>1 DEF Read
<1>3. chain'[<<i, l>>] = IF Skips(i) THEN Quiet ELSE [pc |-> "status", open |-> issue[i].open]
  BY <1>1 DEF Read
<1>4. CASE Skips(i)
  BY <1>2, <1>3, <1>4 DEF Quiet
<1>5. CASE ~Skips(i)
  <2>1. chain'[<<i, l>>] = [pc |-> "status", open |-> issue[i].open]
    BY <1>3, <1>5
  <2>2. chain'[<<i, l>>].pc = "status" /\ chain'[<<i, l>>].open = issue[i].open
    BY <2>1
  <2> QED BY <1>2, <1>5, <2>2
<1> QED BY <1>4, <1>5

LEMMA HandleMoves ==
    ASSUME TypeInv, NEW i \in Issues, NEW l \in Lanes, HandleIssueEvent(i, l)
    PROVE  \/ UNCHANGED chain
           \/ /\ ~InFlight(i) /\ chain'[<<i, l>>].pc = "read"
              /\ \A j \in Issues, m \in Lanes :
                    <<j, m>> # <<i, l>> => chain'[<<j, m>>] = chain[<<j, m>>]
<1>1. chain \in [Issues \X Lanes -> Chain] /\ <<i, l>> \in Issues \X Lanes
  BY DEF TypeInv, TypeOK
<1>2. CASE InFlight(i)
  BY <1>2 DEF HandleIssueEvent
<1>3. CASE ~InFlight(i)
  <2>1. chain' = [chain EXCEPT ![<<i, l>>] = [Quiet EXCEPT !.pc = "read"]]
    BY <1>3 DEF HandleIssueEvent
  <2>2. [Quiet EXCEPT !.pc = "read"].pc = "read"
    BY DEF Quiet
  <2>3. \A x \in Issues \X Lanes : x # <<i, l>> => chain'[x] = chain[x]
    BY <1>1, <2>1
  <2> QED BY <1>1, <1>3, <2>1, <2>2, <2>3
<1> QED BY <1>2, <1>3

-------------------------------------------------------------------------------
(* One dispatched run. *)

LEMMA CalmKeeps ==
    ASSUME DispatchInv, Calm, Unheld
    PROVE  OneLane' /\ InsertInv' /\ OneHeld'
BY DEF DispatchInv, Calm, Unheld, OneLane, InsertInv, OneHeld

LEMMA HandleKeeps ==
    ASSUME DispatchInv, UNCHANGED run,
           NEW i \in Issues, NEW l \in Lanes, HandleIssueEvent(i, l)
    PROVE  OneLane' /\ InsertInv' /\ OneHeld'
<1>0. OneHeld'
  BY DEF DispatchInv, OneHeld
<1>1. CASE UNCHANGED chain
  BY <1>0, <1>1, CalmKeeps DEF Calm, Unheld
<1>2. CASE /\ ~InFlight(i) /\ chain'[<<i, l>>].pc = "read"
           /\ \A j \in Issues, m \in Lanes :
                 <<j, m>> # <<i, l>> => chain'[<<j, m>>] = chain[<<j, m>>]
  <2>1. \A m \in Lanes : m # l => chain'[<<i, m>>].pc = "idle"
    BY <1>2 DEF InFlight
  <2>2. OneLane'
    BY <1>2, <2>1 DEF DispatchInv, OneLane
  <2>3. InsertInv'
    BY <1>2, <2>1 DEF DispatchInv, InsertInv
  <2> QED BY <1>0, <2>2, <2>3
<1> QED BY <1>1, <1>2, HandleMoves DEF DispatchInv

LEMMA DispatchStep ==
    ASSUME DispatchInv, [Next]_vars, NEW i \in Issues, NEW l \in Lanes, Dispatch(i, l)
    PROVE  OneLane' /\ InsertInv' /\ OneHeld'
<1>0. TypeInv /\ run \in [Runs -> Run]
  BY DEF DispatchInv, TypeInv, TypeOK
<1>1. CASE Read(i, l)
  <2>1. Unheld
    BY <1>1 DEF Read, Unheld
  <2>2. Calm
    <3>1. chain'[<<i, l>>].pc \in {"idle", "status"} /\ chain[<<i, l>>].pc = "read"
      BY <1>0, <1>1, ReadMoves DEF Read
    <3>2. \A j \in Issues, m \in Lanes :
             <<j, m>> # <<i, l>> => chain'[<<j, m>>] = chain[<<j, m>>]
      BY <1>0, <1>1, ReadMoves
    <3> QED BY <3>1, <3>2 DEF Calm
  <2> QED BY <2>1, <2>2, CalmKeeps
<1>2. CASE ResolveStatus(i, l)
  <2>1. CASE Exit
    <3>1. \A j \in Issues, m \in Lanes : chain'[<<j, m>>].pc = "idle"
      BY <2>1 DEF Exit, Quiet
    <3>2. \A r \in Runs : run[r].status = "absent" => run'[r].status = "absent"
      BY <1>0, <2>1 DEF Exit, Run
    <3> QED BY <1>0, <3>1, <3>2, NoneQueued, CalmKeeps DEF Calm
  <2>2. CASE config
    <3> DEFINE pc == IF chain[<<i, l>>].open THEN "active" ELSE "idle"
    <3>1. To(i, l, pc) /\ pc \in {"idle", "active"} /\ UNCHANGED run
      BY <1>2, <2>2 DEF ResolveStatus
    <3>2. Calm
      <4> HIDE DEF pc
      <4> QED BY <1>0, <1>2, <3>1, ToMoves DEF Calm, ResolveStatus
    <3> QED BY <3>1, <3>2, CalmKeeps DEF Unheld
  <2> QED BY <1>2, <2>1, <2>2 DEF ResolveStatus
<1>3. CASE CheckActive(i, l)
  <2> DEFINE pc == IF HasActiveRun(i) THEN "idle" ELSE "insert"
  <2>1. /\ To(i, l, pc) /\ pc \in {"idle", "insert"} /\ UNCHANGED run
        /\ pc = "insert" => ~HasActiveRun(i)
    BY <1>3 DEF CheckActive
  <2>2. ~HasActiveRun(i) => \A r \in Runs : ~Holds(run[r], i)
    BY DEF HasActiveRun, RunsOf, Holds, Active
  <2>3. /\ chain'[<<i, l>>].pc = pc /\ chain[<<i, l>>].pc = "active"
        /\ \A j \in Issues, m \in Lanes :
              <<j, m>> # <<i, l>> => chain'[<<j, m>>] = chain[<<j, m>>]
    <3> HIDE DEF pc
    <3> QED BY <1>0, <1>3, <2>1, ToMoves DEF CheckActive
  <2> HIDE DEF pc
  <2>4. OneLane'
    BY <2>3 DEF DispatchInv, OneLane
  <2>5. InsertInv'
    BY <2>1, <2>2, <2>3 DEF DispatchInv, InsertInv
  <2>6. OneHeld'
    BY <2>1 DEF DispatchInv, OneHeld
  <2> QED BY <2>4, <2>5, <2>6
<1>4. ASSUME NEW r \in Runs, InsertRun(i, l, r)
      PROVE  OneLane' /\ InsertInv' /\ OneHeld'
  <2>1. /\ chain'[<<i, l>>].pc = "idle" /\ chain[<<i, l>>].pc = "insert"
        /\ \A j \in Issues, m \in Lanes :
              <<j, m>> # <<i, l>> => chain'[<<j, m>>] = chain[<<j, m>>]
    BY <1>0, <1>4, ToMoves DEF InsertRun
  <2>2. /\ \A q \in Runs : q # r => run'[q] = run[q]
        /\ run'[r].of = i
    BY <1>0, <1>4 DEF InsertRun, Enqueue
  <2>3. OneLane'
    BY <2>1 DEF DispatchInv, OneLane
  <2>4. \A m \in Lanes : chain'[<<i, m>>].pc = "idle"
    BY <2>1 DEF DispatchInv, OneLane
  <2>5. InsertInv'
    <3> SUFFICES ASSUME NEW j \in Issues, NEW m \in Lanes, chain'[<<j, m>>].pc = "insert",
                        NEW q \in Runs
                 PROVE  ~Holds(run'[q], j)
      BY DEF InsertInv
    <3>1. j # i /\ chain[<<j, m>>].pc = "insert"
      BY <2>1, <2>4
    <3> QED BY <2>2, <3>1 DEF DispatchInv, InsertInv, Holds
  <2>6. \A q \in Runs : ~Holds(run[q], i)
    BY <2>1 DEF DispatchInv, InsertInv
  <2>7. OneHeld'
    BY <2>2, <2>6 DEF DispatchInv, OneHeld, Holds
  <2> QED BY <2>3, <2>5, <2>7
<1> QED BY <1>1, <1>2, <1>3, <1>4 DEF Dispatch

LEMMA DispatchInvStep == DispatchInv /\ [Next]_vars => DispatchInv'
<1> SUFFICES ASSUME DispatchInv, [Next]_vars
             PROVE  OneLane' /\ InsertInv' /\ OneHeld'
  BY TypeInvStep DEF DispatchInv
<1>0. TypeInv
  BY DEF DispatchInv
<1>1. CASE UNCHANGED chain /\ ~(\E i \in Issues, l \in Lanes, r \in Runs : InsertRun(i, l, r))
  BY <1>0, <1>1, OthersUnheld, CalmKeeps DEF Calm
<1>2. CASE \E i \in Issues, l \in Lanes : Dispatch(i, l)
  BY <1>2, DispatchStep
<1>3. CASE \E i \in Issues : Deliver(i) \/ SweepNext(i)
  BY <1>3, HandleKeeps DEF Deliver, SweepNext, Lanes
<1>4. CASE Exit
  <2>1. \A j \in Issues, m \in Lanes : chain'[<<j, m>>].pc = "idle"
    BY <1>4 DEF Exit, Quiet
  <2>2. \A r \in Runs : run[r].status = "absent" => run'[r].status = "absent"
    BY <1>0, <1>4 DEF Exit, Run, TypeInv, TypeOK
  <2> QED BY <1>0, <2>1, <2>2, NoneQueued, CalmKeeps DEF Calm
<1>5. CASE UNCHANGED chain
  BY <1>1, <1>2, <1>5 DEF Dispatch
<1>6. \/ UNCHANGED chain \/ Exit
      \/ \E i \in Issues, l \in Lanes : Dispatch(i, l)
      \/ \E i \in Issues : Deliver(i) \/ SweepNext(i)
  <2>1. CASE Users
    BY <2>1 DEF Users, File, Edit, Trigger, Cancel
  <2>2. CASE \E r \in Runs : Orchestrate(r)
    BY <2>2 DEF Orchestrate, Claim, Decide, Block, Stop, Deploy
  <2>3. CASE Sweep \/ Crash \/ Boot \/ StartWatcher \/ Join \/ Disconnect \/ BreakConfig \/ MendConfig
    BY <2>3 DEF Sweep, SweepIssues, SweepRuns, Crash, Boot,
       StartWatcher, Join, Disconnect, BreakConfig, MendConfig
  <2> QED BY <2>1, <2>2, <2>3 DEF Next, vars
<1> QED BY <1>2, <1>3, <1>4, <1>5, <1>6

LEMMA DispatchInvHolds == Spec => []DispatchInv
<1>1. Init => OneLane /\ InsertInv /\ OneHeld
  BY DEF Init, OneLane, InsertInv, OneHeld, Holds, Active, Quiet
<1>2. Init => TypeInv
  BY DispatchAssumption
     DEF Init, TypeInv, TypeOK, PhasesInv, Issue, Run, Chain, Quiet, NoSweep
<1>3. Init => DispatchInv
  BY <1>1, <1>2 DEF DispatchInv
<1> QED BY <1>3, DispatchInvStep, PTL DEF Spec

\* The watcher has at most one run of its own going for an issue, for every
\* number of issues, runs and restarts: two events, an event and the sweep, or
\* a sweep over the runs of an earlier life never queue a second.
THEOREM OneDispatchedRunHolds == Spec => []OneDispatchedRun
<1>1. DispatchInv => OneDispatchedRun
  <2> SUFFICES ASSUME DispatchInv, NEW r \in Runs, NEW q \in Runs, run[r].of = run[q].of,
                      \A x \in {r, q} : /\ run[x].status \in Active
                                        /\ run[x].by = "watcher" /\ ~run[x].cancelled
               PROVE  r = q
    BY DEF OneDispatchedRun
  <2>1. run[r].of \in Issues
    BY DEF DispatchInv, TypeInv, PhasesInv, Active
  <2> QED BY <2>1 DEF DispatchInv, OneHeld, Holds
<1> QED BY <1>1, DispatchInvHolds, PTL

-------------------------------------------------------------------------------
(* What a dispatch has read. *)

\* A dispatch past its read holds the present row, unless that was changed;
\* past the comparison of the status, it has read an open issue.
FreshInv == \A i \in Issues, l \in Lanes :
    LET held == chain[<<i, l>>] IN
    /\ held.pc \in {"status", "active", "insert"} =>
          i \in changed \/ (~Skips(i) /\ held.open = issue[i].open)
    /\ held.pc \in {"active", "insert"} => held.open = TRUE

\* Rows stay, or are committed where every reader of the row can tell.
RowsKept == \A j \in Issues :
    \/ /\ issue'[j] = issue[j]
       /\ j \in changed => j \in changed'
    \/ ~ReadBy(j)
    \/ j \in changed'

LEMMA CommitKeepsRows ==
    ASSUME TypeInv, NEW i \in Issues, NEW new, Commit(i, new)
    PROVE  RowsKept
BY DEF TypeInv, TypeOK, Commit, RowsKept

LEMMA FreshKept ==
    ASSUME FreshInv, UNCHANGED chain, RowsKept
    PROVE  FreshInv'
<1> SUFFICES ASSUME NEW i \in Issues, NEW l \in Lanes,
                    chain'[<<i, l>>].pc \in {"status", "active", "insert"}
             PROVE  /\ \/ i \in changed'
                       \/ (~Skips(i)' /\ chain'[<<i, l>>].open = issue'[i].open)
                    /\ chain'[<<i, l>>].pc \in {"active", "insert"} =>
                          chain'[<<i, l>>].open = TRUE
  BY DEF FreshInv
<1>1. chain' = chain /\ ReadBy(i)
  BY DEF ReadBy
<1>2. (issue'[i] = issue[i] /\ (i \in changed => i \in changed')) \/ i \in changed'
  BY <1>1 DEF RowsKept
<1>3. issue'[i] = issue[i] => (Skips(i)' <=> Skips(i))
  BY DEF Skips
<1> QED BY <1>1, <1>2, <1>3 DEF FreshInv

LEMMA FreshMoved ==
    ASSUME FreshInv, UNCHANGED issue, NEW i \in Issues, NEW l \in Lanes,
           \A j \in Issues : j # i /\ j \in changed => j \in changed',
           \A j \in Issues, m \in Lanes : <<j, m>> # <<i, l>> =>
               /\ chain'[<<j, m>>] = chain[<<j, m>>]
               /\ j = i => i \in changed' \/ i \notin changed \/ chain[<<j, m>>].pc = "idle",
           LET held == chain'[<<i, l>>] IN
               /\ held.pc \in {"status", "active", "insert"} =>
                     i \in changed' \/ (~Skips(i) /\ held.open = issue[i].open)
               /\ held.pc \in {"active", "insert"} => held.open = TRUE
    PROVE  FreshInv'
<1> SUFFICES ASSUME NEW j \in Issues, NEW m \in Lanes,
                    chain'[<<j, m>>].pc \in {"status", "active", "insert"}
             PROVE  /\ \/ j \in changed'
                       \/ (~Skips(j)' /\ chain'[<<j, m>>].open = issue'[j].open)
                    /\ chain'[<<j, m>>].pc \in {"active", "insert"} =>
                          chain'[<<j, m>>].open = TRUE
  BY DEF FreshInv
<1>1. Skips(j)' <=> Skips(j)
  BY DEF Skips
<1>2. CASE <<j, m>> = <<i, l>>
  BY <1>1, <1>2
<1>3. CASE <<j, m>> # <<i, l>>
  <2>1. chain'[<<j, m>>] = chain[<<j, m>>]
    BY <1>3
  <2>2. j \in changed => j \in changed'
    BY <1>3, <2>1
  <2> QED BY <1>1, <2>1, <2>2 DEF FreshInv
<1> QED BY <1>2, <1>3

LEMMA HandleFresh ==
    ASSUME TypeInv, FreshInv, UNCHANGED <<issue, changed>>,
           NEW i \in Issues, NEW l \in Lanes, HandleIssueEvent(i, l)
    PROVE  FreshInv'
<1>1. CASE UNCHANGED chain
  BY <1>1, FreshKept DEF RowsKept
<1>2. CASE ~(UNCHANGED chain)
  <2>1. /\ chain'[<<i, l>>].pc = "read"
        /\ \A j \in Issues, m \in Lanes :
              <<j, m>> # <<i, l>> => chain'[<<j, m>>] = chain[<<j, m>>]
    BY <1>2, HandleMoves
  <2> QED BY <2>1, FreshMoved
<1> QED BY <1>1, <1>2

LEMMA DispatchFresh ==
    ASSUME DispatchInv, FreshInv, NEW i \in Issues, NEW l \in Lanes, Dispatch(i, l)
    PROVE  FreshInv'
<1>0. TypeInv
  BY DEF DispatchInv
<1>1. CASE Read(i, l)
  <2>1. \A m \in Lanes : m # l => chain[<<i, m>>].pc = "idle"
    BY <1>1 DEF DispatchInv, OneLane, Read
  <2>2. /\ chain'[<<i, l>>].pc \in {"idle", "status"}
        /\ chain'[<<i, l>>].pc = "status" =>
              ~Skips(i) /\ chain'[<<i, l>>].open = issue[i].open
        /\ \A j \in Issues, m \in Lanes :
              <<j, m>> # <<i, l>> => chain'[<<j, m>>] = chain[<<j, m>>]
    BY <1>0, <1>1, ReadMoves
  <2>3. changed' = changed \ {i} /\ UNCHANGED issue
    BY <1>1 DEF Read
  <2>4. \A j \in Issues : j # i /\ j \in changed => j \in changed'
    BY <2>3
  <2>5. \A j \in Issues, m \in Lanes : <<j, m>> # <<i, l>> =>
           /\ chain'[<<j, m>>] = chain[<<j, m>>]
           /\ j = i => i \in changed' \/ i \notin changed \/ chain[<<j, m>>].pc = "idle"
    BY <2>1, <2>2
  <2>6. LET held == chain'[<<i, l>>] IN
            /\ held.pc \in {"status", "active", "insert"} =>
                  i \in changed' \/ (~Skips(i) /\ held.open = issue[i].open)
            /\ held.pc \in {"active", "insert"} => held.open = TRUE
    BY <2>2
  <2> HIDE DEF Dispatch
  <2> QED BY <2>3, <2>4, <2>5, <2>6, FreshMoved
<1>2. CASE ResolveStatus(i, l)
  <2>1. CASE Exit
    BY <2>1 DEF Exit, Quiet, FreshInv
  <2>2. CASE config
    <3> DEFINE pc == IF chain[<<i, l>>].open THEN "active" ELSE "idle"
    <3>1. /\ To(i, l, pc) /\ pc \in {"idle", "active"} /\ UNCHANGED <<issue, changed>>
          /\ pc = "active" => chain[<<i, l>>].open
      BY <1>2, <2>2 DEF ResolveStatus
    <3>2. chain[<<i, l>>].open \in BOOLEAN /\ chain[<<i, l>>].pc = "status"
      BY <1>0, <1>2 DEF TypeInv, TypeOK, Chain, ResolveStatus
    <3> HIDE DEF pc
    <3>3. /\ chain'[<<i, l>>].pc = pc
          /\ pc # "idle" => chain'[<<i, l>>].open = chain[<<i, l>>].open
          /\ \A j \in Issues, m \in Lanes :
                <<j, m>> # <<i, l>> => chain'[<<j, m>>] = chain[<<j, m>>]
      BY <1>0, <3>1, ToMoves
    <3>4. i \in changed \/ (~Skips(i) /\ chain[<<i, l>>].open = issue[i].open)
      BY <3>2 DEF FreshInv
    <3> QED BY <3>1, <3>2, <3>3, <3>4, FreshMoved
  <2> QED BY <1>2, <2>1, <2>2 DEF ResolveStatus
<1>3. CASE CheckActive(i, l)
  <2> DEFINE pc == IF HasActiveRun(i) THEN "idle" ELSE "insert"
  <2>1. To(i, l, pc) /\ pc \in {"idle", "insert"} /\ UNCHANGED <<issue, changed>>
    BY <1>3 DEF CheckActive
  <2> HIDE DEF pc
  <2>2. /\ chain'[<<i, l>>].pc = pc
        /\ pc # "idle" => chain'[<<i, l>>].open = chain[<<i, l>>].open
        /\ \A j \in Issues, m \in Lanes :
              <<j, m>> # <<i, l>> => chain'[<<j, m>>] = chain[<<j, m>>]
    BY <1>0, <2>1, ToMoves
  <2>3. chain[<<i, l>>].pc = "active"
    BY <1>3 DEF CheckActive
  <2>4. /\ i \in changed \/ (~Skips(i) /\ chain[<<i, l>>].open = issue[i].open)
        /\ chain[<<i, l>>].open = TRUE
    BY <2>3 DEF FreshInv
  <2> QED BY <2>1, <2>2, <2>4, FreshMoved
<1>4. ASSUME NEW r \in Runs, InsertRun(i, l, r)
      PROVE  FreshInv'
  <2>1. /\ chain'[<<i, l>>].pc = "idle"
        /\ \A j \in Issues, m \in Lanes :
              <<j, m>> # <<i, l>> => chain'[<<j, m>>] = chain[<<j, m>>]
    BY <1>0, <1>4, ToMoves DEF InsertRun
  <2>2. UNCHANGED <<issue, changed>>
    BY <1>4 DEF InsertRun
  <2> QED BY <2>1, <2>2, FreshMoved
<1> QED BY <1>1, <1>2, <1>3, <1>4 DEF Dispatch

LEMMA FreshStep == DispatchInv /\ FreshInv /\ [Next]_vars => FreshInv'
<1> SUFFICES ASSUME DispatchInv, FreshInv, [Next]_vars
             PROVE  FreshInv'
  OBVIOUS
<1>0. TypeInv
  BY DEF DispatchInv
<1>1. CASE UNCHANGED <<chain, issue, changed>>
  BY <1>1, FreshKept DEF RowsKept
<1>2. ASSUME NEW i \in Issues, NEW new, Commit(i, new), UNCHANGED chain
      PROVE  FreshInv'
  BY <1>0, <1>2, CommitKeepsRows, FreshKept
<1>3. CASE Exit
  BY <1>3 DEF Exit, Quiet, FreshInv
<1>4. CASE Users
  BY <1>1, <1>2, <1>4 DEF Users, File, Edit, Trigger, Cancel
<1>5. ASSUME NEW r \in Runs, Orchestrate(r)
      PROVE  FreshInv'
  <2>1. CASE Block(r) \/ Deploy(r)
    <3>1. run[r].of \in Issues
      BY <1>0, <2>1 DEF Block, Deploy, TypeInv, PhasesInv
    <3> QED BY <1>1, <1>2, <2>1, <3>1 DEF Block, Deploy
  <2> QED BY <1>1, <1>5, <2>1 DEF Orchestrate, Claim, Decide, Stop
<1>6. CASE \E i \in Issues, l \in Lanes : Dispatch(i, l)
  BY <1>6, DispatchFresh
<1>7. CASE \E i \in Issues : Deliver(i) \/ SweepNext(i)
  BY <1>0, <1>7, HandleFresh DEF Deliver, SweepNext, Lanes
<1>8. CASE SweepIssues \/ SweepRuns \/ Crash \/ Boot \/ StartWatcher \/ Join \/ Disconnect
           \/ BreakConfig \/ MendConfig
  BY <1>1, <1>3, <1>8
     DEF SweepIssues, SweepRuns, Crash, Boot,
        StartWatcher, Join, Disconnect, BreakConfig, MendConfig
<1> QED BY <1>1, <1>4, <1>5, <1>6, <1>7, <1>8 DEF Next, Sweep, vars

\* A run is queued on the current row: whatever the event or the sweep's list
\* said, and however long the dispatch took, the issue is open and not closed
\* at the insertion or was changed after dispatch read it.
THEOREM DispatchIsFreshHolds == Spec => DispatchIsFresh
<1>1. Init => FreshInv
  <2>1. Init => \A i \in Issues, l \in Lanes : chain[<<i, l>>].pc = "idle"
    BY DEF Init, Quiet
  <2> QED BY <2>1 DEF FreshInv
<1>2. FreshInv => [\A i \in Issues, l \in Lanes :
                     chain[<<i, l>>].pc = "insert" /\ run' # run
                         /\ chain'[<<i, l>>].pc = "idle" /\ daemon' # "down"
                     => Dispatchable(i) \/ i \in changed]_vars
  BY DEF FreshInv, Dispatchable, Skips
<1> QED BY <1>1, <1>2, FreshStep, DispatchInvHolds, PTL DEF Spec, DispatchIsFresh

===============================================================================
