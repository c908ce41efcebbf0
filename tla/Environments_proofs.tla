-------------------------- MODULE Environments_proofs --------------------------
(***************************************************************************)
(* Worktrees, artifacts and deploys for every number of runs, commits,     *)
(* faults and crashes: nothing uncommitted is thrown away, directories     *)
(* stay where they are, and the rows say what disk and forge say.          *)
(*                                                                         *)
(* The invariant says of each run where its chain may be: in a stage as    *)
(* long as the run is running, in the deploy before the row is written, in *)
(* the release after.  An insertion is alone with its tree, because an     *)
(* environment that has a path had its branch made, git makes a branch     *)
(* once, and only an environment with a path is released by anybody.       *)
(***************************************************************************)
EXTENDS Environments, TLAPS

Pcs == {"stage", "create", "insert", "repair", "work",
        "load", "commit", "push", "open", "advance", "save", "fail",
        "again", "check", "remove", "mark", "over"}
Errors == {"none", "find-env", "commit", "push", "create-pr", "record-db"}

Early == {"stage", "create", "insert", "repair", "work"}
Before == Early \union {"load", "commit"}
Late == {"check", "remove", "mark", "over"}

NoDeploy == [status |-> "none", stage |-> "none", pr |-> FALSE]

\* Where the chain of a run may be, and what it has found there.
PlaceOK(r) ==
    LET j == job[r] IN
    /\ j.pc \in Early <=> status[r] = "running"
    /\ j.pc # "over" => j.of = r
    /\ j.pc # "again"
    /\ j.pc \in {"create", "insert"} => j.path # None
    /\ j.pc \in {"repair", "remove", "mark"} => env[r].path # None
    /\ j.pc = "insert" =>
          env[r].path = None /\ tree[r].disk = "clean" /\ tree[r].branch
    /\ env[r].status # "none" => env[r].path # None
    /\ env[r].path # None => tree[r].branch

SweeperOK ==
    LET j == job[Sweeper] IN
    /\ j.pc \in {"over", "again", "check", "remove", "mark"}
    /\ j.pc # "over" => j.of \in Runs /\ env[j.of].path # None

\* How far the deploy is, and what the forge knows by then.
DeployOK(r) ==
    LET j == job[r] IN
    /\ deploy[r] = NoDeploy \/ j.pc \in Late
    /\ j.pc \in Before => tree[r].commits <= MaxCommits
    /\ j.pc \in Before \union {"push", "open"} => ~forge[r].pr
    /\ j.pc \in {"open", "advance", "save"} => forge[r].pushed = tree[r].commits
    /\ j.pc \in {"advance", "save"} => forge[r].pr
    /\ j.pc = "save" => issue.review
    /\ j.pc = "fail" =>
          /\ j.error \in {"find-env", "commit", "push"} => ~forge[r].pr
          /\ j.error = "record-db" => forge[r].pr

\* A directory is on disk, or there is a reason why it is not.
Kept(d) == d \in dirs \/ status[d] \in Terminal \/ <<d, "dir">> \in torn

DirsOK(r) ==
    /\ env[r].path # None => Kept(env[r].path)
    /\ job[r].pc = "insert" => Kept(job[r].path)

TypeInv == TypeOK /\ SweeperOK /\ \A r \in Runs : PlaceOK(r) /\ DeployOK(r) /\ DirsOK(r)

-------------------------------------------------------------------------------
(* Types. *)

LEMMA Constant ==
    /\ MaxCommits \in Nat /\ None \notin Runs /\ Runs \subseteq Nat /\ Sweeper \notin Runs
    /\ Runs \subseteq Actors /\ Sweeper \in Actors
BY EnvironmentsAssumption DEF Runs, Sweeper, Actors

LEMMA IdleJob == Idle \in Job /\ Idle.pc = "over"
BY DEF Idle, Job, Path

LEMMA JobAt ==
    ASSUME NEW x \in Job, NEW pc \in Pcs
    PROVE  /\ [x EXCEPT !.pc = pc] \in Job /\ [x EXCEPT !.pc = pc].pc = pc
           /\ [x EXCEPT !.pc = pc].of = x.of /\ [x EXCEPT !.pc = pc].path = x.path
           /\ [x EXCEPT !.pc = pc].error = x.error
BY DEF Job, Pcs

LEMMA JobStep ==
    ASSUME NEW x \in Job, NEW pc \in Pcs, NEW p \in Path
    PROVE  /\ [x EXCEPT !.pc = pc, !.path = p] \in Job
           /\ [x EXCEPT !.pc = pc, !.path = p].pc = pc
           /\ [x EXCEPT !.pc = pc, !.path = p].of = x.of
           /\ [x EXCEPT !.pc = pc, !.path = p].path = p
BY DEF Job, Pcs

LEMMA JobThrow ==
    ASSUME NEW x \in Job, NEW e \in Errors
    PROVE  /\ [x EXCEPT !.pc = "fail", !.error = e] \in Job
           /\ [x EXCEPT !.pc = "fail", !.error = e].pc = "fail"
           /\ [x EXCEPT !.pc = "fail", !.error = e].of = x.of
           /\ [x EXCEPT !.pc = "fail", !.error = e].error = e
BY DEF Job, Errors

LEMMA JobStart ==
    ASSUME NEW x \in Job, NEW r \in Runs
    PROVE  /\ [Idle EXCEPT !.pc = "stage", !.of = r] \in Job
           /\ [Idle EXCEPT !.pc = "stage", !.of = r].pc = "stage"
           /\ [Idle EXCEPT !.pc = "stage", !.of = r].of = r
           /\ [x EXCEPT !.pc = "again", !.of = r] \in Job
           /\ [x EXCEPT !.pc = "again", !.of = r].pc = "again"
           /\ [x EXCEPT !.pc = "again", !.of = r].of = r
BY DEF Job, Idle, Path

\* What Goto does to the jobs.
LEMMA GotoMoves ==
    ASSUME TypeOK, NEW a \in Actors, NEW pc \in Pcs, Goto(a, pc)
    PROVE  /\ job' \in [Actors -> Job] /\ job'[a].pc = pc
           /\ \A b \in Actors \ {a} : job'[b] = job[b]
           /\ pc # "over" => /\ job'[a].of = job[a].of /\ job'[a].path = job[a].path
                             /\ job'[a].error = job[a].error
<1>0. job \in [Actors -> Job]
  BY DEF TypeOK
<1>1. CASE pc = "over"
  <2>1. job' = [job EXCEPT ![a] = Idle]
    BY <1>1 DEF Goto
  <2> QED BY <1>0, <1>1, <2>1, IdleJob
<1>2. CASE pc # "over"
  <2> DEFINE y == [job[a] EXCEPT !.pc = pc]
  <2>1. job' = [job EXCEPT ![a] = y]
    BY <1>0, <1>2 DEF Goto
  <2>2. /\ y \in Job /\ y.pc = pc /\ y.of = job[a].of
        /\ y.path = job[a].path /\ y.error = job[a].error
    BY <1>0, JobAt
  <2> HIDE DEF y
  <2> QED BY <1>0, <2>1, <2>2
<1> QED BY <1>1, <1>2

LEMMA StepMoves ==
    ASSUME TypeOK, NEW r \in Runs, NEW pc \in Pcs, NEW p \in Path,
           job' = [job EXCEPT ![r].pc = pc, ![r].path = p]
    PROVE  /\ job' \in [Actors -> Job] /\ job'[r].pc = pc
           /\ \A b \in Actors \ {r} : job'[b] = job[b]
           /\ job'[r].of = job[r].of /\ job'[r].path = p
<1> DEFINE y == [job[r] EXCEPT !.pc = pc, !.path = p]
<1>0. job \in [Actors -> Job] /\ r \in Actors
  BY Constant DEF TypeOK
<1>1. job' = [job EXCEPT ![r] = y]
  BY <1>0
<1>2. y \in Job /\ y.pc = pc /\ y.of = job[r].of /\ y.path = p
  <2>1. job[r] \in Job
    BY <1>0
  <2> QED BY <2>1 DEF Job, Pcs
<1> HIDE DEF y
<1> QED BY <1>0, <1>1, <1>2

LEMMA ThrowMoves ==
    ASSUME TypeOK, NEW r \in Runs, NEW e \in Errors, Throw(r, e)
    PROVE  /\ job' \in [Actors -> Job] /\ job'[r].pc = "fail"
           /\ \A b \in Actors \ {r} : job'[b] = job[b]
           /\ job'[r].of = job[r].of /\ job'[r].error = e
<1> DEFINE y == [job[r] EXCEPT !.pc = "fail", !.error = e]
<1>0. job \in [Actors -> Job] /\ r \in Actors
  BY Constant DEF TypeOK
<1>1. job' = [job EXCEPT ![r] = y]
  BY <1>0 DEF Throw
<1>2. y \in Job /\ y.pc = "fail" /\ y.of = job[r].of /\ y.error = e
  BY <1>0, JobThrow
<1> HIDE DEF y
<1> QED BY <1>0, <1>1, <1>2

LEMMA StageFailsMoves ==
    ASSUME TypeOK, NEW r \in Runs, StageFails(r)
    PROVE  /\ job' \in [Actors -> Job] /\ job'[r].of = job[r].of
           /\ \A b \in Actors \ {r} : job'[b] = job[b]
           /\ \/ job'[r].pc = "stage" /\ status' = status
              \/ job'[r].pc = "check" /\ status' = [status EXCEPT ![r] = "failed"]
BY GotoMoves, Constant DEF StageFails, Pcs

LEMMA TreeEdits ==
    ASSUME NEW t \in Tree, NEW d \in {"none", "clean", "dirty"}, NEW c \in 0..MaxCommits + 1
    PROVE  /\ [t EXCEPT !.disk = d] \in Tree
           /\ [t EXCEPT !.branch = TRUE, !.disk = "clean"] \in Tree
           /\ [t EXCEPT !.commits = c, !.disk = "clean"] \in Tree
           /\ [t EXCEPT !.merged = TRUE] \in Tree
BY DEF Tree

LEMMA ReleaseTypes ==
    ASSUME TypeInv, NEW a \in Actors, Release(a)
    PROVE  TypeOK'
<1>0. TypeOK /\ (a \in Runs => PlaceOK(a)) /\ SweeperOK
  BY DEF TypeInv
<1>1. job[a].pc \in {"check", "remove", "mark"} => job[a].of \in Runs
  BY <1>0 DEF PlaceOK, SweeperOK, Actors
<1>2. CASE CheckRelease(a)
  <2>1. job' \in [Actors -> Job]
    BY <1>0, <1>2, GotoMoves DEF CheckRelease, Stop, Pcs
  <2> QED BY <1>0, <1>2, <2>1 DEF CheckRelease, TypeOK
<1>3. CASE RemoveWorktree(a)
  <2>1. job' \in [Actors -> Job]
    BY <1>0, <1>3, GotoMoves DEF RemoveWorktree, Stop, Pcs
  <2>2. tree' \in [Runs -> Tree]
    <3>1. \A t \in Tree : [t EXCEPT !.disk = "none"] \in Tree
      BY DEF Tree
    <3>2. tree' = tree \/ tree' = [tree EXCEPT ![job[a].of].disk = "none"]
      BY <1>3 DEF RemoveWorktree
    <3> QED BY <1>0, <1>1, <1>3, <3>1, <3>2 DEF TypeOK
  <2>3. faults' \in 0..MaxFaults
    BY <1>0, <1>3, EnvironmentsAssumption DEF RemoveWorktree, NoFault, Fault, TypeOK
  <2> QED BY <1>0, <1>3, <2>1, <2>2, <2>3 DEF RemoveWorktree, TypeOK
<1>4. CASE MarkInactive(a)
  <2>0. job[a].of \in Runs
    BY <1>1, <1>4 DEF MarkInactive, At
  <2>1. job' \in [Actors -> Job]
    BY <1>0, <1>4, GotoMoves DEF MarkInactive, Stop, Pcs
  <2>2. env' \in [Runs -> Env]
    <3>1. \A x \in Env : [x EXCEPT !.status = "inactive"] \in Env
      BY DEF Env
    <3>2. env' = env \/ env' = [env EXCEPT ![job[a].of].status = "inactive"]
      BY <1>4 DEF MarkInactive, Marked
    <3> QED BY <1>0, <2>0, <3>1, <3>2 DEF TypeOK
  <2>3. faults' \in 0..MaxFaults
    BY <1>0, <1>4, EnvironmentsAssumption DEF MarkInactive, NoFault, Fault, TypeOK
  <2>4. torn' \subseteq Runs \X {"tree", "dir"}
    BY <1>0, <1>4, <2>0 DEF MarkInactive, TypeOK
  <2> QED BY <1>0, <1>4, <2>1, <2>2, <2>3, <2>4 DEF MarkInactive, TypeOK
<1> QED BY <1>2, <1>3, <1>4 DEF Release

LEMMA FaultTypes == TypeOK /\ (Fault \/ NoFault) => faults' \in 0..MaxFaults
BY EnvironmentsAssumption DEF TypeOK, Fault, NoFault

\* What a stage's chain does to its job: it moves it, or gives up.
LEMMA RunTypes ==
    ASSUME TypeInv, NEW r \in Runs,
           Acquire(r) \/ Create(r) \/ Insert(r) \/ Repair(r) \/ Work(r)
    PROVE  TypeOK'
<1>0. TypeOK /\ PlaceOK(r) /\ DeployOK(r) /\ r \in Actors
  BY Constant DEF TypeInv
<1>1. /\ job[r] \in Job /\ job[r].path \in Path /\ env[r] \in Env /\ env[r].path \in Path
      /\ tree[r] \in Tree /\ tree[r].commits \in 0..MaxCommits + 1
  BY <1>0 DEF TypeOK, Job, Env, Tree
<1>2. ASSUME NEW p \in Path, Record(r, p)
      PROVE  recorded' \in [Runs -> Path] /\ faults' \in 0..MaxFaults
  BY <1>0, <1>2, FaultTypes DEF Record, TypeOK
<1>3. ASSUME StageFails(r)
      PROVE  /\ job' \in [Actors -> Job]
             /\ status' \in [Runs -> {"running", "blocked"} \union Terminal]
  BY <1>0, <1>3, StageFailsMoves DEF TypeOK, Terminal
<1>4. \A t \in Tree : /\ [t EXCEPT !.disk = "none"] \in Tree
                      /\ [t EXCEPT !.disk = "clean"] \in Tree
                      /\ [t EXCEPT !.disk = "dirty"] \in Tree
                      /\ [t EXCEPT !.branch = TRUE, !.disk = "clean"] \in Tree
  BY DEF Tree
<1>5. CASE Acquire(r)
  <2>1. PICK p \in IF Inherited(r) = {} THEN {r} ELSE Inherited(r), pc \in Pcs :
           job' = [job EXCEPT ![r].pc = pc, ![r].path = p]
    BY <1>5 DEF Acquire, Pcs
  <2>2. p \in Path
    BY <1>0 DEF Inherited, Path, TypeOK
  <2>3. job' \in [Actors -> Job]
    BY <1>0, <2>1, <2>2, StepMoves
  <2>4. recorded' \in [Runs -> Path] /\ faults' \in 0..MaxFaults
    <3>1. Record(r, env[r].path) \/ UNCHANGED <<recorded, faults>>
      BY <1>5 DEF Acquire
    <3> QED BY <1>0, <1>1, <1>2, <3>1 DEF TypeOK
  <2> QED BY <1>0, <1>5, <2>3, <2>4 DEF Acquire, TypeOK
<1>6. CASE Create(r)
  <2>1. job[r].path \in Runs
    BY <1>0, <1>1, <1>6 DEF Create, At, PlaceOK, Path
  <2>2. faults' \in 0..MaxFaults
    BY <1>0, <1>6, FaultTypes DEF Create, TypeOK
  <2>3. job' \in [Actors -> Job] /\ status' \in [Runs -> {"running", "blocked"} \union Terminal]
    <3>1. StageFails(r) \/ (Goto(r, "insert") /\ UNCHANGED status)
      BY <1>6 DEF Create
    <3> QED BY <1>0, <1>3, <3>1, GotoMoves DEF Pcs, TypeOK
  <2>4. tree' \in [Runs -> Tree]
    <3>1. tree' = tree \/ tree' = [tree EXCEPT ![r].branch = TRUE, ![r].disk = "clean"]
      BY <1>6 DEF Create
    <3> QED BY <1>0, <1>1, <1>4, <3>1 DEF TypeOK
  <2>5. dirs' \subseteq Runs
    BY <1>0, <1>6, <2>1 DEF Create, TypeOK
  <2> QED BY <1>0, <1>6, <2>2, <2>3, <2>4, <2>5 DEF Create, TypeOK
<1>7. CASE Insert(r)
  <2>1. job[r].path \in Runs
    BY <1>0, <1>1, <1>7 DEF Insert, At, PlaceOK, Path
  <2>2. recorded' \in [Runs -> Path] /\ faults' \in 0..MaxFaults
    BY <1>0, <1>1, <1>2, <1>7, FaultTypes DEF Insert, TypeOK
  <2>3. job' \in [Actors -> Job] /\ status' \in [Runs -> {"running", "blocked"} \union Terminal]
    <3>1. StageFails(r) \/ (Goto(r, "work") /\ UNCHANGED status)
      BY <1>7 DEF Insert
    <3> QED BY <1>0, <1>3, <3>1, GotoMoves DEF Pcs, TypeOK
  <2>4. tree' \in [Runs -> Tree]
    <3>1. tree' = tree \/ tree' = [tree EXCEPT ![r].disk = "none"]
      BY <1>7 DEF Insert
    <3> QED BY <1>0, <1>1, <1>4, <3>1 DEF TypeOK
  <2>5. dirs' \subseteq Runs /\ torn' \subseteq Runs \X {"tree", "dir"}
    BY <1>0, <1>7, <2>1 DEF Insert, TypeOK
  <2>6. env' \in [Runs -> Env]
    <3>1. [status |-> "active", path |-> job[r].path] \in Env
      BY <1>1 DEF Env
    <3> QED BY <1>0, <1>7, <3>1 DEF Insert, TypeOK
  <2> QED BY <1>0, <1>7, <2>2, <2>3, <2>4, <2>5, <2>6 DEF Insert, TypeOK
<1>8. CASE Repair(r)
  <2>1. env[r].path \in Runs
    BY <1>0, <1>1, <1>8 DEF Repair, At, PlaceOK, Path
  <2>2. recorded' \in [Runs -> Path] /\ faults' \in 0..MaxFaults
    BY <1>0, <1>1, <1>2, <1>8, FaultTypes DEF Repair, Repaired, TypeOK
  <2>3. job' \in [Actors -> Job] /\ status' \in [Runs -> {"running", "blocked"} \union Terminal]
    <3>1. StageFails(r) \/ (Goto(r, "work") /\ UNCHANGED status)
      BY <1>8 DEF Repair
    <3> QED BY <1>0, <1>3, <3>1, GotoMoves DEF Pcs, TypeOK
  <2>4. tree' \in [Runs -> Tree]
    BY <1>0, <1>1, <1>4, <1>8 DEF Repair, TypeOK
  <2>5. dirs' \subseteq Runs
    BY <1>0, <1>8, <2>1 DEF Repair, Repaired, TypeOK
  <2>6. env' \in [Runs -> Env]
    <3>1. env' = env \/ env' = [env EXCEPT ![r].path = env[r].path]
      BY <1>8 DEF Repair, Repaired
    <3>2. [env[r] EXCEPT !.path = env[r].path] \in Env
      BY <1>1 DEF Env
    <3> QED BY <1>0, <3>1, <3>2 DEF TypeOK
  <2> QED BY <1>0, <1>8, <2>2, <2>3, <2>4, <2>5, <2>6 DEF Repair, TypeOK
<1>9. CASE Write(r)
  BY <1>0, <1>1, <1>4, <1>9 DEF Write, TypeOK
<1>10. CASE Commit(r)
  <2>1. [tree[r] EXCEPT !.disk = "clean", !.commits = @ + 1] \in Tree
    <3>1. tree[r].commits + 1 \in 0..MaxCommits + 1
      BY <1>1, <1>10, Constant DEF Commit
    <3> QED BY <1>1, <3>1 DEF Tree
  <2> QED BY <1>0, <1>10, <2>1 DEF Commit, TypeOK
<1>11. CASE EndStage(r)
  <2>1. job' \in [Actors -> Job] /\ status' \in [Runs -> {"running", "blocked"} \union Terminal]
    <3>1. \/ StageFails(r)
          \/ \E pc \in {"stage", "load", "check"}, s \in {"completed", "failed", "blocked"} :
                Goto(r, pc) /\ (UNCHANGED status \/ status' = [status EXCEPT ![r] = s])
      BY <1>11 DEF EndStage
    <3> QED BY <1>0, <1>3, <3>1, GotoMoves DEF Pcs, TypeOK, Terminal
  <2> QED BY <1>0, <1>11, <2>1 DEF EndStage, TypeOK
<1> QED BY <1>5, <1>6, <1>7, <1>8, <1>9, <1>10, <1>11 DEF Work

LEMMA BridgeTypes ==
    ASSUME TypeInv, NEW r \in Runs, Bridge(r)
    PROVE  TypeOK'
<1>0. TypeOK /\ PlaceOK(r) /\ DeployOK(r) /\ r \in Actors
  BY Constant DEF TypeInv
<1>1. /\ job[r] \in Job /\ job[r].error \in Errors /\ deploy[r] \in Deploy
      /\ tree[r] \in Tree /\ tree[r].commits \in 0..MaxCommits + 1 /\ forge[r] \in Forge
  BY <1>0 DEF TypeOK, Job, Tree, Errors
<1>2. ASSUME NEW e \in Errors, NEW pc \in Pcs, Throw(r, e) \/ Goto(r, pc)
      PROVE  job' \in [Actors -> Job]
  BY <1>0, <1>2, ThrowMoves, GotoMoves
<1>3. /\ Saved \in Deploy
      /\ \A d \in Deploy : [d EXCEPT !.status = "skipped"] \in Deploy
      /\ [deploy[r] EXCEPT !.status = "failed", !.stage = job[r].error] \in Deploy
  <2> DEFINE e == job[r].error
             d == deploy[r]
  <2>1. e \in Errors /\ d \in Deploy
    BY <1>1
  <2> HIDE DEF e, d
  <2>2. [d EXCEPT !.status = "failed", !.stage = e] \in Deploy
    BY <2>1 DEF Deploy, Errors
  <2> QED BY <2>2 DEF Deploy, Saved, e, d
<1>4. CASE LoadDeploy(r)
  <2>1. job' \in [Actors -> Job]
    BY <1>2, <1>4 DEF LoadDeploy, Pcs, Errors
  <2>2. issue' \in [readers : SUBSET Runs, review : BOOLEAN]
    BY <1>0, <1>4 DEF LoadDeploy, TypeOK
  <2> QED BY <1>0, <1>4, <2>1, <2>2, FaultTypes DEF LoadDeploy, TypeOK
<1>5. CASE CommitAll(r)
  <2>1. job' \in [Actors -> Job]
    BY <1>2, <1>5 DEF CommitAll, Pcs, Errors
  <2>2. faults' \in 0..MaxFaults
    BY <1>0, <1>5, FaultTypes DEF CommitAll
  <2>3. tree' \in [Runs -> Tree]
    <3>1. CASE tree' = tree
      BY <1>0, <3>1 DEF TypeOK
    <3>2. ASSUME NEW c \in {tree[r].commits, tree[r].commits + 1},
                 tree' = [tree EXCEPT ![r].commits = c, ![r].disk = "clean"]
          PROVE  tree' \in [Runs -> Tree]
      <4>1. tree[r].commits <= MaxCommits
        BY <1>0, <1>5 DEF CommitAll, At, DeployOK, Before
      <4>2. c \in 0..MaxCommits + 1
        BY <1>1, <4>1, Constant
      <4>3. [tree[r] EXCEPT !.commits = c, !.disk = "clean"] \in Tree
        BY <1>1, <4>2 DEF Tree
      <4> QED BY <1>0, <3>2, <4>3 DEF TypeOK
    <3> QED BY <1>5, <3>1, <3>2 DEF CommitAll
  <2>4. deploy' \in [Runs -> Deploy]
    <3>1. deploy' = deploy \/ deploy' = [deploy EXCEPT ![r].status = "skipped"]
      BY <1>5 DEF CommitAll
    <3> QED BY <1>0, <1>1, <1>3, <3>1 DEF TypeOK
  <2> QED BY <1>0, <1>5, <2>1, <2>2, <2>3, <2>4 DEF CommitAll, TypeOK
<1>6. CASE Push(r)
  <2>1. job' \in [Actors -> Job]
    BY <1>2, <1>6 DEF Push, Pcs, Errors
  <2>2. forge' \in [Runs -> Forge]
    <3>1. [forge[r] EXCEPT !.pushed = tree[r].commits] \in Forge
      BY <1>1 DEF Forge
    <3>2. forge' = forge \/ forge' = [forge EXCEPT ![r].pushed = tree[r].commits]
      BY <1>6 DEF Push
    <3> QED BY <1>0, <3>1, <3>2 DEF TypeOK
  <2> QED BY <1>0, <1>6, <2>1, <2>2, FaultTypes DEF Push, TypeOK
<1>7. CASE OpenPr(r)
  <2>1. job' \in [Actors -> Job]
    BY <1>2, <1>7 DEF OpenPr, Pcs, Errors
  <2>2. forge' \in [Runs -> Forge]
    <3>1. [forge[r] EXCEPT !.pr = TRUE] \in Forge
      BY <1>1 DEF Forge
    <3>2. forge' = forge \/ forge' = [forge EXCEPT ![r].pr = TRUE]
      BY <1>7 DEF OpenPr
    <3> QED BY <1>0, <3>1, <3>2 DEF TypeOK
  <2> QED BY <1>0, <1>7, <2>1, <2>2, FaultTypes DEF OpenPr, TypeOK
<1>8. CASE Advance(r)
  <2>1. job' \in [Actors -> Job]
    BY <1>2, <1>8 DEF Advance, Pcs, Errors
  <2>2. issue' \in [readers : SUBSET Runs, review : BOOLEAN]
    <3>1. [readers |-> {}, review |-> TRUE] \in [readers : SUBSET Runs, review : BOOLEAN]
      OBVIOUS
    <3> QED BY <1>0, <1>8, <3>1 DEF Advance, TypeOK
  <2> QED BY <1>0, <1>8, <2>1, <2>2 DEF Advance, TypeOK
<1>9. CASE Save(r)
  <2>1. job' \in [Actors -> Job]
    BY <1>2, <1>9 DEF Save, Pcs, Errors
  <2>2. deploy' \in [Runs -> Deploy]
    BY <1>0, <1>3, <1>9 DEF Save, TypeOK
  <2> QED BY <1>0, <1>9, <2>1, <2>2, FaultTypes DEF Save, TypeOK
<1>10. CASE RecordFailure(r)
  <2>1. job' \in [Actors -> Job]
    BY <1>2, <1>10 DEF RecordFailure, Pcs, Errors
  <2>2. deploy' \in [Runs -> Deploy]
    <3>1. \/ deploy' = deploy
          \/ deploy' = [deploy EXCEPT ![r].status = "failed", ![r].stage = job[r].error]
      BY <1>10 DEF RecordFailure
    <3> QED BY <1>0, <1>1, <1>3, <3>1 DEF TypeOK
  <2> QED BY <1>0, <1>10, <2>1, <2>2, FaultTypes DEF RecordFailure, TypeOK
<1> QED BY <1>4, <1>5, <1>6, <1>7, <1>8, <1>9, <1>10 DEF Bridge

Reaping == JudgeAgain \/ \E r \in Runs : Judge(r) \/ SweepDir(r)
Outside == EditIssue \/ \E r \in Runs : Merge(r) \/ Age(r)

LEMMA OtherTypes ==
    ASSUME TypeInv, Reaping \/ Outside \/ Crash
    PROVE  TypeOK'
<1>0. TypeOK
  BY DEF TypeInv
<1>1. CASE JudgeAgain
  <2>1. job' \in [Actors -> Job]
    BY <1>0, <1>1, GotoMoves, Constant DEF JudgeAgain, Stop, Pcs
  <2> QED BY <1>0, <1>1, <2>1 DEF JudgeAgain, TypeOK
<1>2. ASSUME NEW r \in Runs, Judge(r) PROVE TypeOK'
  <2>1. job' \in [Actors -> Job]
    <3>1. job[Sweeper] \in Job
      BY <1>0, Constant DEF TypeOK
    <3>2. [job[Sweeper] EXCEPT !.pc = "again", !.of = r] \in Job
      BY <3>1, JobStart
    <3> QED BY <1>0, <1>2, <3>2 DEF Judge, TypeOK
  <2> QED BY <1>0, <1>2, <2>1 DEF Judge, TypeOK
<1>3. ASSUME NEW r \in Runs, SweepDir(r) PROVE TypeOK'
  BY <1>0, <1>3 DEF SweepDir, TypeOK
<1>4. CASE EditIssue
  BY <1>0, <1>4 DEF EditIssue, TypeOK
<1>5. ASSUME NEW r \in Runs, Merge(r) PROVE TypeOK'
  <2>1. [tree[r] EXCEPT !.merged = TRUE] \in Tree
    BY <1>0 DEF TypeOK, Tree
  <2> QED BY <1>0, <1>5, <2>1 DEF Merge, TypeOK
<1>6. ASSUME NEW r \in Runs, Age(r) PROVE TypeOK'
  BY <1>0, <1>6 DEF Age, TypeOK
<1>7. CASE Crash
  <2>1. job' \in [Actors -> Job]
    <3>1. PICK again \in SUBSET Runs :
             job' = [a \in Actors |->
                       IF a \in Runs /\ status[a] = "running"
                       THEN [Idle EXCEPT !.pc = IF a \in again THEN "stage" ELSE "check",
                                         !.of = a]
                       ELSE Idle]
      BY <1>7 DEF Crash
    <3>2. \A r \in Runs : [Idle EXCEPT !.pc = IF r \in again THEN "stage" ELSE "check",
                                       !.of = r] \in Job
      BY DEF Idle, Job, Path
    <3> QED BY <3>1, <3>2, IdleJob
  <2>2. status' \in [Runs -> {"running", "blocked"} \union Terminal]
    BY <1>0, <1>7 DEF Crash, TypeOK, Terminal
  <2>3. \A a \in Actors : job[a].pc = "mark" => job[a].of \in Runs
    BY DEF TypeInv, PlaceOK, SweeperOK, Actors
  <2>4. torn' \subseteq Runs \X {"tree", "dir"}
    <3>1. torn' = torn \union {<<job[a].of, "tree">> : a \in {b \in Actors : At(b, "mark")}}
      BY <1>7 DEF Crash
    <3>2. \A a \in {b \in Actors : At(b, "mark")} : <<job[a].of, "tree">> \in Runs \X {"tree", "dir"}
      BY <2>3 DEF At
    <3> QED BY <1>0, <3>1, <3>2 DEF TypeOK
  <2> QED BY <1>0, <1>7, <2>1, <2>2, <2>4, FaultTypes DEF Crash, TypeOK
<1> QED BY <1>1, <1>2, <1>3, <1>4, <1>5, <1>6, <1>7 DEF Reaping, Outside

-------------------------------------------------------------------------------
(* The invariant: what a chain does to its own run and to nobody else's.   *)

Alone(q) ==
    \A p \in Runs \ {q} :
        /\ job'[p] = job[p] /\ status'[p] = status[p] /\ env'[p] = env[p]
        /\ tree'[p] = tree[p] /\ forge'[p] = forge[p] /\ deploy'[p] = deploy[p]

\* What is never taken back.
Forward ==
    /\ issue.review => issue'.review
    /\ \A d \in Runs : Kept(d) => Kept(d)'
    /\ \A r \in Runs : env[r].path # None => env'[r].path # None

RunOK(r) == PlaceOK(r) /\ DeployOK(r) /\ DirsOK(r)

OwnStep(q) == RunOK(q)' /\ Alone(q) /\ Forward

LEMMA Paths ==
    ASSUME TypeOK, NEW r \in Runs
    PROVE  env[r].path \in Path /\ job[r].path \in Path
BY Constant DEF TypeOK, Env, Job

LEMMA OthersStay ==
    ASSUME TypeInv, NEW q, Forward, Alone(q), NEW p \in Runs \ {q}
    PROVE  RunOK(p)'
<1>1. PlaceOK(p) /\ DeployOK(p) /\ DirsOK(p)
  BY DEF TypeInv
<1>2. /\ job'[p] = job[p] /\ status'[p] = status[p] /\ env'[p] = env[p]
      /\ tree'[p] = tree[p] /\ forge'[p] = forge[p] /\ deploy'[p] = deploy[p]
  BY DEF Alone
<1>3. PlaceOK(p)'
  BY <1>1, <1>2 DEF PlaceOK
<1>4. DeployOK(p)'
  BY <1>1, <1>2 DEF DeployOK, Forward
<1>5. DirsOK(p)'
  <2>1. env[p].path # None => env[p].path \in Runs
    BY Paths DEF TypeInv, Path
  <2>2. job[p].pc = "insert" => job[p].path \in Runs
    BY <1>1, Paths DEF TypeInv, Path, PlaceOK
  <2>3. \A d \in Runs : d \in dirs \/ status[d] \in Terminal \/ <<d, "dir">> \in torn
                      => d \in dirs' \/ status'[d] \in Terminal \/ <<d, "dir">> \in torn'
    BY DEF Forward, Kept
  <2> QED BY <1>1, <1>2, <2>1, <2>2, <2>3 DEF DirsOK, Kept
<1> QED BY <1>3, <1>4, <1>5 DEF RunOK

LEMMA KeptStays ==
    ASSUME \A d \in Runs : status[d] \in Terminal => status'[d] \in Terminal,
           torn \subseteq torn',
           \A d \in dirs : d \in dirs' \/ <<d, "dir">> \in torn' \/ status[d] \in Terminal
    PROVE  \A d \in Runs : Kept(d) => Kept(d)'
BY DEF Kept

LEMMA SweeperStays ==
    ASSUME TypeInv, job'[Sweeper] = job[Sweeper], Forward
    PROVE  SweeperOK'
BY DEF TypeInv, SweeperOK, Forward

\* A stage that fails stays in its run or ends it.
LEMMA FailsOwn ==
    ASSUME TypeOK, NEW q \in Runs, job[q].pc \in Early, PlaceOK(q), DeployOK(q), StageFails(q)
    PROVE  /\ job'[q].pc \in {"stage", "check"} /\ job'[q].of = q
           /\ job'[q].pc \in Early <=> status'[q] = "running"
           /\ \A b \in Actors \ {q} : job'[b] = job[b]
           /\ \A d \in Runs \ {q} : status'[d] = status[d]
           /\ status[q] \notin Terminal
<1>1. job[q].of = q /\ status[q] = "running"
  BY DEF PlaceOK, Early
<1>2. status \in [Runs -> {"running", "blocked"} \union Terminal]
  BY DEF TypeOK
<1> QED BY <1>1, <1>2, StageFailsMoves DEF Early, Terminal

LEMMA AcquireOwn ==
    ASSUME TypeInv, NEW q \in Runs, Acquire(q)
    PROVE  OwnStep(q)
<1>0. TypeOK /\ PlaceOK(q) /\ DeployOK(q) /\ DirsOK(q) /\ job[q].pc = "stage"
  BY DEF TypeInv, Acquire, At
<1>1. PICK p \in IF Inherited(q) = {} THEN {q} ELSE Inherited(q),
           pc \in {"work", "repair", "create"} :
         /\ job' = [job EXCEPT ![q].pc = pc, ![q].path = p]
         /\ pc = "repair" => env[q].status = "active"
  BY DEF Acquire
<1>2. p \in Path /\ p # None
  BY <1>0, <1>1, Constant DEF Inherited, Path, TypeOK
<1>3. /\ job'[q].pc = pc /\ job'[q].of = job[q].of /\ job'[q].path = p
      /\ \A b \in Actors \ {q} : job'[b] = job[b]
  BY <1>0, <1>1, <1>2, StepMoves DEF Pcs
<1>4. UNCHANGED <<status, env, tree, dirs, forge, deploy, issue, torn>>
  BY DEF Acquire
<1>5. PlaceOK(q)'
  BY <1>0, <1>1, <1>2, <1>3, <1>4 DEF PlaceOK, Early
<1>6. DeployOK(q)' /\ DirsOK(q)'
  BY <1>0, <1>1, <1>3, <1>4 DEF DeployOK, DirsOK, Kept, Before, Early, Late
<1>7. Alone(q) /\ Forward
  BY <1>3, <1>4, Constant DEF Alone, Forward, Kept
<1> QED BY <1>5, <1>6, <1>7 DEF OwnStep, RunOK

LEMMA CreateOwn ==
    ASSUME TypeInv, NEW q \in Runs, Create(q)
    PROVE  OwnStep(q)
<1>0. TypeOK /\ PlaceOK(q) /\ DeployOK(q) /\ DirsOK(q) /\ job[q].pc = "create"
  BY DEF TypeInv, Create, At
<1>1. UNCHANGED <<env, forge, deploy, issue, torn>> /\ dirs \subseteq dirs'
  BY DEF Create
<1>2. tree \in [Runs -> Tree] /\ tree[q] \in Tree
  BY <1>0 DEF TypeOK
<1>3. /\ \A p \in Runs \ {q} : tree'[p] = tree[p]
      /\ tree'[q].commits = tree[q].commits /\ (tree[q].branch => tree'[q].branch)
  <2>1. tree' = tree \/ tree' = [tree EXCEPT ![q] = [@ EXCEPT !.branch = TRUE, !.disk = "clean"]]
    BY DEF Create
  <2>2. /\ [tree[q] EXCEPT !.branch = TRUE, !.disk = "clean"].commits = tree[q].commits
        /\ [tree[q] EXCEPT !.branch = TRUE, !.disk = "clean"].branch
    BY <1>2 DEF Tree
  <2> QED BY <1>2, <2>1, <2>2
<1>4. CASE StageFails(q)
  <2>1. /\ job'[q].pc \in {"stage", "check"} /\ job'[q].of = q
        /\ job'[q].pc \in Early <=> status'[q] = "running"
        /\ \A b \in Actors \ {q} : job'[b] = job[b]
        /\ \A d \in Runs \ {q} : status'[d] = status[d]
        /\ status[q] \notin Terminal
    BY <1>0, <1>4, FailsOwn DEF Early
  <2>2. PlaceOK(q)'
    BY <1>0, <1>1, <1>3, <2>1 DEF PlaceOK
  <2>3. DeployOK(q)'
    BY <1>0, <1>1, <1>3, <2>1 DEF DeployOK, Before, Early, Late
  <2>4. Forward
    BY <1>1, <2>1, KeptStays DEF Forward
  <2>5. Alone(q)
    BY <1>1, <1>3, <2>1, Constant DEF Alone
  <2>6. DirsOK(q)'
    <3>1. env[q].path # None => env[q].path \in Runs
      BY <1>0, Paths DEF Path
    <3> QED BY <1>0, <1>1, <2>1, <2>4, <3>1 DEF DirsOK, Forward, Kept
  <2> QED BY <2>2, <2>3, <2>4, <2>5, <2>6 DEF OwnStep, RunOK
<1>5. CASE Goto(q, "insert") /\ UNCHANGED status /\ dirs' = dirs \union {job[q].path}
           /\ ~(tree[q].branch \/ tree[q].disk # "none")
           /\ tree' = [tree EXCEPT ![q].branch = TRUE, ![q].disk = "clean"]
  <2>1. /\ job'[q].pc = "insert" /\ job'[q].of = job[q].of /\ job'[q].path = job[q].path
        /\ \A b \in Actors \ {q} : job'[b] = job[b]
    BY <1>0, <1>5, GotoMoves, Constant DEF Pcs
  <2>2. tree'[q].branch /\ tree'[q].disk = "clean"
    <3>1. /\ [tree[q] EXCEPT !.branch = TRUE, !.disk = "clean"].disk = "clean"
          /\ [tree[q] EXCEPT !.branch = TRUE, !.disk = "clean"].branch
      BY <1>2 DEF Tree
    <3> QED BY <1>2, <1>5, <3>1
  <2>3. env[q].path = None
    BY <1>0, <1>5 DEF PlaceOK
  <2>4. PlaceOK(q)'
    BY <1>0, <1>1, <1>5, <2>1, <2>2, <2>3 DEF PlaceOK, Early
  <2>5. DeployOK(q)'
    BY <1>0, <1>1, <1>3, <2>1 DEF DeployOK, Before, Early, Late
  <2>6. Forward
    BY <1>1, <1>5, KeptStays DEF Forward
  <2>7. Alone(q)
    BY <1>1, <1>3, <1>5, <2>1, Constant DEF Alone
  <2>8. DirsOK(q)'
    BY <1>1, <1>5, <2>1, <2>3 DEF DirsOK, Kept
  <2> QED BY <2>4, <2>5, <2>6, <2>7, <2>8 DEF OwnStep, RunOK
<1> QED BY <1>4, <1>5 DEF Create

LEMMA InsertOwn ==
    ASSUME TypeInv, NEW q \in Runs, Insert(q)
    PROVE  OwnStep(q)
<1>0. TypeOK /\ PlaceOK(q) /\ DeployOK(q) /\ DirsOK(q) /\ job[q].pc = "insert"
  BY DEF TypeInv, Insert, At
<1>1. /\ UNCHANGED <<forge, deploy, issue>>
      /\ job[q].path \in Runs /\ env[q].path = None /\ tree[q].branch
  BY <1>0, Paths DEF Insert, PlaceOK, Path
<1>2. /\ tree \in [Runs -> Tree] /\ tree[q] \in Tree /\ env \in [Runs -> Env]
      /\ status \in [Runs -> {"running", "blocked"} \union Terminal]
  BY <1>0 DEF TypeOK
<1>3. CASE /\ env' = [env EXCEPT ![q] = [status |-> "active", path |-> job[q].path]]
           /\ Goto(q, "work") /\ UNCHANGED <<tree, dirs, status, torn>>
  <2>1. /\ job'[q].pc = "work" /\ job'[q].of = job[q].of
        /\ \A b \in Actors \ {q} : job'[b] = job[b]
    BY <1>0, <1>3, GotoMoves, Constant DEF Pcs
  <2>2. /\ env'[q].path = job[q].path /\ env'[q].status = "active"
        /\ \A p \in Runs \ {q} : env'[p] = env[p]
    BY <1>2, <1>3
  <2>3. PlaceOK(q)'
    BY <1>0, <1>1, <1>3, <2>1, <2>2, Constant DEF PlaceOK, Early
  <2>4. DeployOK(q)'
    BY <1>0, <1>1, <1>3, <2>1 DEF DeployOK, Before, Early, Late
  <2>5. Forward
    BY <1>1, <1>3, <2>2 DEF Forward, Kept
  <2>6. Alone(q)
    BY <1>1, <1>3, <2>1, <2>2, Constant DEF Alone
  <2>7. DirsOK(q)'
    BY <1>0, <1>3, <2>1, <2>2 DEF DirsOK, Kept
  <2> QED BY <2>3, <2>4, <2>5, <2>6, <2>7 DEF OwnStep, RunOK
<1>4. CASE /\ StageFails(q) /\ tree' = [tree EXCEPT ![q].disk = "none"]
           /\ dirs' = dirs \ {job[q].path} /\ torn' = torn \union {<<job[q].path, "dir">>}
           /\ UNCHANGED env
  <2>1. /\ job'[q].pc \in {"stage", "check"} /\ job'[q].of = q
        /\ job'[q].pc \in Early <=> status'[q] = "running"
        /\ \A b \in Actors \ {q} : job'[b] = job[b]
        /\ \A d \in Runs \ {q} : status'[d] = status[d]
        /\ status[q] \notin Terminal
    BY <1>0, <1>4, FailsOwn DEF Early
  <2>2. /\ \A p \in Runs \ {q} : tree'[p] = tree[p]
        /\ tree'[q].commits = tree[q].commits /\ tree'[q].branch = tree[q].branch
    <3>1. /\ [tree[q] EXCEPT !.disk = "none"].commits = tree[q].commits
          /\ [tree[q] EXCEPT !.disk = "none"].branch = tree[q].branch
      BY <1>2 DEF Tree
    <3> QED BY <1>2, <1>4, <3>1
  <2>3. PlaceOK(q)'
    BY <1>0, <1>1, <1>4, <2>1, <2>2 DEF PlaceOK
  <2>4. DeployOK(q)'
    BY <1>0, <1>1, <2>1, <2>2 DEF DeployOK, Before, Early, Late
  <2>5. Forward
    BY <1>1, <1>4, <2>1, KeptStays DEF Forward
  <2>6. Alone(q)
    BY <1>1, <1>4, <2>1, <2>2, Constant DEF Alone
  <2>7. DirsOK(q)'
    BY <1>1, <1>4, <2>1 DEF DirsOK
  <2> QED BY <2>3, <2>4, <2>5, <2>6, <2>7 DEF OwnStep, RunOK
<1> QED BY <1>3, <1>4 DEF Insert

LEMMA RepairOwn ==
    ASSUME TypeInv, NEW q \in Runs, Repair(q)
    PROVE  OwnStep(q)
<1>0. TypeOK /\ PlaceOK(q) /\ DeployOK(q) /\ DirsOK(q) /\ job[q].pc = "repair"
  BY DEF TypeInv, Repair, At
<1>1. /\ UNCHANGED <<forge, deploy, issue, torn>> /\ dirs \subseteq dirs'
      /\ env[q].path \in Runs
  BY <1>0, Paths DEF Repair, PlaceOK, Path
<1>2. /\ tree \in [Runs -> Tree] /\ tree[q] \in Tree /\ env \in [Runs -> Env] /\ env[q] \in Env
      /\ status \in [Runs -> {"running", "blocked"} \union Terminal]
  BY <1>0 DEF TypeOK
<1>3. /\ \A p \in Runs \ {q} : tree'[p] = tree[p]
      /\ tree'[q].commits = tree[q].commits /\ tree'[q].branch = tree[q].branch
  <2>1. /\ [tree[q] EXCEPT !.disk = "clean"].commits = tree[q].commits
        /\ [tree[q] EXCEPT !.disk = "clean"].branch = tree[q].branch
    BY <1>2 DEF Tree
  <2> QED BY <1>2, <2>1 DEF Repair
<1>4. env' = env
  <2>1. [env[q] EXCEPT !.path = env[q].path] = env[q]
    BY <1>2 DEF Env
  <2> QED BY <1>2, <2>1 DEF Repair, Repaired
<1>5. DirsOK(q)' /\ Forward
  <2>1. ASSUME \A d \in Runs : status[d] \in Terminal => status'[d] \in Terminal
        PROVE  Forward
    BY <1>1, <1>4, <2>1, KeptStays DEF Forward
  <2>2. CASE Goto(q, "work") /\ UNCHANGED status
    <3>1. job'[q].pc = "work"
      BY <1>0, <2>2, GotoMoves, Constant DEF Pcs
    <3>2. Forward
      BY <2>1, <2>2
    <3> QED BY <1>0, <1>1, <1>4, <3>1, <3>2 DEF DirsOK, Forward, Kept
  <2>3. CASE StageFails(q)
    <3>1. /\ job'[q].pc \in {"stage", "check"} /\ status[q] \notin Terminal
          /\ \A d \in Runs \ {q} : status'[d] = status[d]
      BY <1>0, <2>3, FailsOwn DEF Early
    <3>2. Forward
      BY <2>1, <3>1
    <3> QED BY <1>0, <1>1, <1>4, <3>1, <3>2 DEF DirsOK, Forward, Kept
  <2> QED BY <2>2, <2>3 DEF Repair
<1>6. CASE Goto(q, "work") /\ UNCHANGED status
  <2>1. /\ job'[q].pc = "work" /\ job'[q].of = job[q].of
        /\ \A b \in Actors \ {q} : job'[b] = job[b]
    BY <1>0, <1>6, GotoMoves, Constant DEF Pcs
  <2>2. PlaceOK(q)'
    BY <1>0, <1>1, <1>3, <1>4, <1>6, <2>1 DEF PlaceOK, Early
  <2>3. DeployOK(q)'
    BY <1>0, <1>1, <1>3, <2>1 DEF DeployOK, Before, Early, Late
  <2>4. Alone(q)
    BY <1>1, <1>3, <1>4, <1>6, <2>1, Constant DEF Alone
  <2> QED BY <1>5, <2>2, <2>3, <2>4 DEF OwnStep, RunOK
<1>7. CASE StageFails(q)
  <2>1. /\ job'[q].pc \in {"stage", "check"} /\ job'[q].of = q
        /\ job'[q].pc \in Early <=> status'[q] = "running"
        /\ \A b \in Actors \ {q} : job'[b] = job[b]
        /\ \A d \in Runs \ {q} : status'[d] = status[d]
    BY <1>0, <1>7, FailsOwn DEF Early
  <2>2. PlaceOK(q)'
    BY <1>0, <1>3, <1>4, <2>1 DEF PlaceOK
  <2>3. DeployOK(q)'
    BY <1>0, <1>1, <1>3, <2>1 DEF DeployOK, Before, Early, Late
  <2>4. Alone(q)
    BY <1>1, <1>3, <1>4, <2>1, Constant DEF Alone
  <2> QED BY <1>5, <2>2, <2>3, <2>4 DEF OwnStep, RunOK
<1> QED BY <1>6, <1>7 DEF Repair

LEMMA WorkOwn ==
    ASSUME TypeInv, NEW q \in Runs, Work(q)
    PROVE  OwnStep(q)
<1>0. TypeOK /\ PlaceOK(q) /\ DeployOK(q) /\ DirsOK(q) /\ job[q].pc = "work"
  BY DEF TypeInv, Work, Write, Commit, EndStage, At
<1>1. UNCHANGED <<env, dirs, forge, deploy, issue, torn>>
  BY DEF Work, Write, Commit, EndStage
<1>2. /\ tree \in [Runs -> Tree] /\ tree[q] \in Tree /\ tree[q].commits \in Nat
      /\ status \in [Runs -> {"running", "blocked"} \union Terminal]
      /\ status[q] = "running" /\ job[q].of = q
  BY <1>0 DEF TypeOK, Tree, PlaceOK, Early
<1>3. CASE Write(q) \/ Commit(q)
  <2>1. UNCHANGED <<job, status>>
    BY <1>3 DEF Write, Commit
  <2>2. /\ \A p \in Runs \ {q} : tree'[p] = tree[p]
        /\ tree'[q].commits <= MaxCommits /\ tree'[q].branch = tree[q].branch
    <3>1. CASE Write(q)
      <4>1. /\ [tree[q] EXCEPT !.disk = "dirty"].commits = tree[q].commits
            /\ [tree[q] EXCEPT !.disk = "dirty"].branch = tree[q].branch
        BY <1>2 DEF Tree
      <4>2. tree[q].commits <= MaxCommits
        BY <1>0 DEF DeployOK, Before, Early
      <4> QED BY <1>2, <3>1, <4>1, <4>2 DEF Write
    <3>2. CASE Commit(q)
      <4> DEFINE c == tree[q].commits + 1
      <4>1. c <= MaxCommits
        BY <1>2, <3>2, Constant DEF Commit
      <4>2. tree' = [tree EXCEPT ![q] = [tree[q] EXCEPT !.disk = "clean", !.commits = c]]
        BY <1>2, <3>2 DEF Commit
      <4> HIDE DEF c
      <4>3. /\ [tree[q] EXCEPT !.disk = "clean", !.commits = c].commits = c
            /\ [tree[q] EXCEPT !.disk = "clean", !.commits = c].branch = tree[q].branch
        BY <1>2 DEF Tree
      <4> QED BY <1>2, <4>1, <4>2, <4>3
    <3> QED BY <1>3, <3>1, <3>2
  <2>3. PlaceOK(q)'
    BY <1>0, <1>1, <2>1, <2>2 DEF PlaceOK
  <2>4. DeployOK(q)'
    BY <1>0, <1>1, <2>1, <2>2 DEF DeployOK, Before, Early, Late
  <2>5. Alone(q) /\ Forward /\ DirsOK(q)'
    BY <1>0, <1>1, <2>1, <2>2 DEF Alone, Forward, Kept, DirsOK
  <2> QED BY <2>3, <2>4, <2>5 DEF OwnStep, RunOK
<1>4. CASE EndStage(q)
  <2>1. UNCHANGED tree
    BY <1>4 DEF EndStage
  <2>2. /\ job'[q].pc \in {"stage", "load", "check"} /\ job'[q].of = q
        /\ job'[q].pc \in Early <=> status'[q] = "running"
        /\ \A b \in Actors \ {q} : job'[b] = job[b]
        /\ \A d \in Runs \ {q} : status'[d] = status[d]
    <3>1. CASE StageFails(q)
      BY <1>0, <3>1, FailsOwn DEF Early
    <3>2. ASSUME NEW pc \in {"stage", "load", "check"}, Goto(q, pc),
                 \/ pc = "stage" /\ UNCHANGED status
                 \/ pc # "stage" /\ \E s \in {"completed", "failed", "blocked"} :
                                       status' = [status EXCEPT ![q] = s]
          PROVE  /\ job'[q].pc \in {"stage", "load", "check"} /\ job'[q].of = q
                 /\ job'[q].pc \in Early <=> status'[q] = "running"
                 /\ \A b \in Actors \ {q} : job'[b] = job[b]
                 /\ \A d \in Runs \ {q} : status'[d] = status[d]
      <4>1. /\ job'[q].pc = pc /\ job'[q].of = q
            /\ \A b \in Actors \ {q} : job'[b] = job[b]
        BY <1>0, <1>2, <3>2, GotoMoves, Constant DEF Pcs
      <4> QED BY <1>2, <3>2, <4>1 DEF Early
    <3> QED BY <1>4, <3>1, <3>2 DEF EndStage
  <2>3. PlaceOK(q)'
    BY <1>0, <1>1, <2>1, <2>2 DEF PlaceOK
  <2>4. DeployOK(q)'
    BY <1>0, <1>1, <2>1, <2>2 DEF DeployOK, Before, Early, Late
  <2>5. Forward
    BY <1>1, <1>2, <2>2, KeptStays DEF Forward, Terminal
  <2>6. Alone(q)
    BY <1>1, <2>1, <2>2, Constant DEF Alone
  <2>7. DirsOK(q)'
    <3>1. env[q].path # None => env[q].path \in Runs
      BY <1>0, Paths DEF Path
    <3> QED BY <1>0, <1>1, <2>2, <2>5, <3>1 DEF DirsOK, Forward, Kept
  <2> QED BY <2>3, <2>4, <2>5, <2>6, <2>7 DEF OwnStep, RunOK
<1> QED BY <1>3, <1>4 DEF Work

LEMMA BridgeFrame ==
    ASSUME TypeInv, NEW q \in Runs, Bridge(q)
    PROVE  /\ UNCHANGED <<status, env, dirs, torn>> /\ Alone(q) /\ Forward
           /\ tree'[q].branch = tree[q].branch /\ job'[q].of = job[q].of
           /\ job[q].pc \in {"load", "commit", "push", "open", "advance", "save", "fail"}
           /\ job'[q].pc \in {"commit", "push", "open", "advance", "save", "fail", "check"}
           /\ \A b \in Actors \ {q} : job'[b] = job[b]
<1>0. /\ TypeOK /\ tree \in [Runs -> Tree] /\ forge \in [Runs -> Forge]
      /\ deploy \in [Runs -> Deploy] /\ tree[q] \in Tree /\ q \in Actors
  BY Constant DEF TypeInv, TypeOK
<1>1. UNCHANGED <<status, env, dirs, torn>> /\ (issue.review => issue'.review)
  <2>1. LoadDeploy(q) => (issue.review => issue'.review)
    <3>1. issue \in [readers : SUBSET Runs, review : BOOLEAN]
      BY <1>0 DEF TypeOK
    <3> QED BY <3>1 DEF LoadDeploy
  <2>2. Advance(q) => (issue.review => issue'.review)
    BY DEF Advance
  <2> QED BY <2>1, <2>2
          DEF Bridge, LoadDeploy, CommitAll, Push, OpenPr, Advance, Save, RecordFailure
<1>2. job[q].pc \in {"load", "commit", "push", "open", "advance", "save", "fail"}
  BY DEF Bridge, LoadDeploy, CommitAll, Push, OpenPr, Advance, Save, RecordFailure, At
<1>3. /\ job'[q].of = job[q].of /\ \A b \in Actors \ {q} : job'[b] = job[b]
      /\ job'[q].pc \in {"commit", "push", "open", "advance", "save", "fail", "check"}
  <2>1. \/ \E e \in Errors : Throw(q, e)
        \/ \E pc \in {"commit", "push", "open", "advance", "save", "check"} : Goto(q, pc)
    BY DEF Bridge, LoadDeploy, CommitAll, Push, OpenPr, Advance, Save, RecordFailure, Errors
  <2>2. ASSUME NEW e \in Errors, Throw(q, e)
        PROVE  /\ job'[q].of = job[q].of /\ \A b \in Actors \ {q} : job'[b] = job[b]
               /\ job'[q].pc = "fail"
    BY <1>0, <2>2, ThrowMoves
  <2>3. ASSUME NEW pc \in {"commit", "push", "open", "advance", "save", "check"}, Goto(q, pc)
        PROVE  /\ job'[q].of = job[q].of /\ \A b \in Actors \ {q} : job'[b] = job[b]
               /\ job'[q].pc = pc
    BY <1>0, <2>3, GotoMoves DEF Pcs
  <2> QED BY <2>1, <2>2, <2>3
<1>4. \A p \in Runs \ {q} : tree'[p] = tree[p] /\ forge'[p] = forge[p] /\ deploy'[p] = deploy[p]
  <2>1. \/ UNCHANGED tree
        \/ \E c : tree' = [tree EXCEPT ![q].commits = c, ![q].disk = "clean"]
    BY DEF Bridge, LoadDeploy, CommitAll, Push, OpenPr, Advance, Save, RecordFailure
  <2>2. UNCHANGED forge \/ \E x : forge' = [forge EXCEPT ![q] = x]
    <3>1. \/ UNCHANGED forge
          \/ \E c : forge' = [forge EXCEPT ![q].pushed = c]
          \/ forge' = [forge EXCEPT ![q].pr = TRUE]
      BY DEF Bridge, LoadDeploy, CommitAll, Push, OpenPr, Advance, Save, RecordFailure
    <3> QED BY <1>0, <3>1
  <2>3. UNCHANGED deploy \/ \E x : deploy' = [deploy EXCEPT ![q] = x]
    <3>1. \/ UNCHANGED deploy
          \/ deploy' = [deploy EXCEPT ![q].status = "skipped"]
          \/ deploy' = [deploy EXCEPT ![q].status = "failed", ![q].stage = job[q].error]
          \/ deploy' = [deploy EXCEPT ![q] = Saved]
      BY DEF Bridge, LoadDeploy, CommitAll, Push, OpenPr, Advance, Save, RecordFailure
    <3> QED BY <1>0, <3>1
  <2> QED BY <1>0, <2>1, <2>2, <2>3
<1>5. tree'[q].branch = tree[q].branch
  <2>1. \A c : [tree[q] EXCEPT !.commits = c, !.disk = "clean"].branch = tree[q].branch
    BY <1>0 DEF Tree
  <2>2. \/ UNCHANGED tree
        \/ \E c : tree' = [tree EXCEPT ![q] = [tree[q] EXCEPT !.commits = c, !.disk = "clean"]]
    <3>1. \/ UNCHANGED tree
          \/ \E c : tree' = [tree EXCEPT ![q].commits = c, ![q].disk = "clean"]
      BY DEF Bridge, LoadDeploy, CommitAll, Push, OpenPr, Advance, Save, RecordFailure
    <3> QED BY <1>0, <3>1
  <2> QED BY <1>0, <2>1, <2>2
<1>6. Alone(q)
  BY <1>1, <1>3, <1>4, Constant DEF Alone
<1>7. Forward
  BY <1>1 DEF Forward, Kept
<1> QED BY <1>1, <1>2, <1>3, <1>5, <1>6, <1>7

LEMMA BridgeOwn ==
    ASSUME TypeInv, NEW q \in Runs, Bridge(q)
    PROVE  OwnStep(q)
<1>0. /\ TypeOK /\ PlaceOK(q) /\ DeployOK(q) /\ DirsOK(q) /\ q \in Actors
      /\ tree \in [Runs -> Tree] /\ forge \in [Runs -> Forge] /\ forge[q] \in Forge
      /\ tree[q] \in Tree /\ tree[q].commits \in Nat
  BY Constant DEF TypeInv, TypeOK, Tree
<1>f. /\ UNCHANGED <<status, env, dirs, torn>> /\ Alone(q) /\ Forward
      /\ tree'[q].branch = tree[q].branch /\ job'[q].of = job[q].of
      /\ job[q].pc \in {"load", "commit", "push", "open", "advance", "save", "fail"}
      /\ job'[q].pc \in {"commit", "push", "open", "advance", "save", "fail", "check"}
  BY BridgeFrame
<1>1. PlaceOK(q)'
  BY <1>0, <1>f DEF PlaceOK, Early
<1>2. DirsOK(q)'
  BY <1>0, <1>f DEF DirsOK, Kept
<1>g. ASSUME NEW pc \in Pcs \ {"over"}, Goto(q, pc) PROVE job'[q].pc = pc
  BY <1>0, <1>g, GotoMoves
<1>t. ASSUME NEW e \in Errors, Throw(q, e) PROVE job'[q].pc = "fail" /\ job'[q].error = e
  BY <1>0, <1>t, ThrowMoves
<1>3. CASE LoadDeploy(q)
  <2>1. job[q].pc = "load" /\ UNCHANGED <<tree, forge, deploy>>
    BY <1>3 DEF LoadDeploy, At
  <2>2. \/ job'[q].pc = "commit"
        \/ job'[q].pc = "fail" /\ job'[q].error \in {"find-env", "none"}
    BY <1>3, <1>g, <1>t DEF LoadDeploy, Pcs, Errors
  <2>3. DeployOK(q)'
    BY <1>0, <2>1, <2>2 DEF DeployOK, Before, Early, Late
  <2> QED BY <1>f, <1>1, <1>2, <2>3 DEF OwnStep, RunOK
<1>4. CASE CommitAll(q)
  <2>1. job[q].pc = "commit" /\ UNCHANGED forge
    BY <1>4 DEF CommitAll, At
  <2>2. \/ job'[q].pc \in {"push", "check"}
        \/ job'[q].pc = "fail" /\ job'[q].error \in {"commit", "none"}
    BY <1>4, <1>g, <1>t DEF CommitAll, Pcs, Errors
  <2>3. job'[q].pc # "check" => UNCHANGED deploy
    BY <1>4, <1>g DEF CommitAll, Pcs
  <2>4. DeployOK(q)'
    BY <1>0, <2>1, <2>2, <2>3 DEF DeployOK, Before, Early, Late
  <2> QED BY <1>f, <1>1, <1>2, <2>4 DEF OwnStep, RunOK
<1>5. CASE Push(q)
  <2>1. job[q].pc = "push" /\ UNCHANGED <<tree, deploy>>
    BY <1>5 DEF Push, At
  <2>2. \/ job'[q].pc = "open" /\ forge' = [forge EXCEPT ![q].pushed = tree[q].commits]
        \/ /\ job'[q].pc = "fail" /\ job'[q].error \in {"push", "none"}
           /\ forge' \in {forge, [forge EXCEPT ![q].pushed = tree[q].commits]}
    BY <1>5, <1>g, <1>t DEF Push, Pcs, Errors
  <2>3. /\ [forge[q] EXCEPT !.pushed = tree[q].commits].pushed = tree[q].commits
        /\ [forge[q] EXCEPT !.pushed = tree[q].commits].pr = forge[q].pr
    BY <1>0 DEF Forge
  <2>4. \/ job'[q].pc = "open" /\ forge'[q].pushed = tree[q].commits /\ forge'[q].pr = forge[q].pr
        \/ /\ job'[q].pc = "fail" /\ job'[q].error \in {"push", "none"}
           /\ forge'[q].pr = forge[q].pr
    BY <1>0, <2>2, <2>3
  <2>5. DeployOK(q)'
    BY <1>0, <2>1, <2>4 DEF DeployOK, Before, Early, Late
  <2> QED BY <1>f, <1>1, <1>2, <2>5 DEF OwnStep, RunOK
<1>6. CASE OpenPr(q)
  <2>1. job[q].pc = "open" /\ UNCHANGED <<tree, deploy>>
    BY <1>6 DEF OpenPr, At
  <2>2. \/ job'[q].pc = "advance" /\ forge' = [forge EXCEPT ![q].pr = TRUE]
        \/ job'[q].pc = "fail" /\ job'[q].error = "create-pr"
    BY <1>6, <1>g, <1>t DEF OpenPr, Pcs, Errors
  <2>3. /\ [forge[q] EXCEPT !.pr = TRUE].pushed = forge[q].pushed
        /\ [forge[q] EXCEPT !.pr = TRUE].pr
    BY <1>0 DEF Forge
  <2>4. \/ job'[q].pc = "advance" /\ forge'[q].pushed = forge[q].pushed /\ forge'[q].pr
        \/ job'[q].pc = "fail" /\ job'[q].error = "create-pr"
    BY <1>0, <2>2, <2>3
  <2>5. DeployOK(q)'
    BY <1>0, <2>1, <2>4 DEF DeployOK, Before, Early, Late
  <2> QED BY <1>f, <1>1, <1>2, <2>5 DEF OwnStep, RunOK
<1>7. CASE Advance(q)
  <2>1. job[q].pc = "advance" /\ UNCHANGED <<tree, deploy, forge>>
    BY <1>7 DEF Advance, At
  <2>2. \/ job'[q].pc = "save" /\ issue'.review
        \/ job'[q].pc = "fail" /\ job'[q].error = "record-db"
    BY <1>7, <1>g, <1>t DEF Advance, Pcs, Errors
  <2>3. DeployOK(q)'
    BY <1>0, <2>1, <2>2 DEF DeployOK, Before, Early, Late
  <2> QED BY <1>f, <1>1, <1>2, <2>3 DEF OwnStep, RunOK
<1>8. CASE Save(q)
  <2>1. job[q].pc = "save" /\ UNCHANGED <<tree, forge>>
    BY <1>8 DEF Save, At
  <2>2. \/ job'[q].pc = "check"
        \/ job'[q].pc = "fail" /\ job'[q].error = "record-db" /\ UNCHANGED deploy
    BY <1>8, <1>g, <1>t DEF Save, Pcs, Errors
  <2>3. DeployOK(q)'
    BY <1>0, <2>1, <2>2 DEF DeployOK, Before, Early, Late
  <2> QED BY <1>f, <1>1, <1>2, <2>3 DEF OwnStep, RunOK
<1>9. CASE RecordFailure(q)
  <2>1. job'[q].pc = "check"
    BY <1>9, <1>g DEF RecordFailure, Pcs
  <2>2. DeployOK(q)'
    BY <2>1 DEF DeployOK, Before, Early, Late
  <2> QED BY <1>f, <1>1, <1>2, <2>2 DEF OwnStep, RunOK
<1> QED BY <1>3, <1>4, <1>5, <1>6, <1>7, <1>8, <1>9 DEF Bridge

\* What a release, a sweep, a user or the passage of time leaves of a run.
Quiet(p) ==
    /\ status'[p] = status[p] /\ forge'[p] = forge[p] /\ deploy'[p] = deploy[p]
    /\ tree'[p].commits = tree[p].commits /\ tree'[p].branch = tree[p].branch
    /\ tree[p].merged => tree'[p].merged
    /\ tree'[p].disk = tree[p].disk \/ env[p].path # None
    /\ env'[p].path = env[p].path /\ (env'[p].status # "none" => env[p].path # None)
    /\ \/ job'[p] = job[p]
       \/ /\ job[p].pc \in Late /\ job'[p].pc \in {"remove", "mark", "over"}
          /\ job'[p].pc # "over" => job'[p].of = p /\ env[p].path # None

LEMMA QuietOwn ==
    ASSUME TypeInv, Forward, NEW p \in Runs, Quiet(p)
    PROVE  RunOK(p)'
<1>0. /\ PlaceOK(p) /\ DeployOK(p) /\ DirsOK(p)
      /\ env[p].path # None => env[p].path \in Runs
      /\ job[p].pc = "insert" => job[p].path \in Runs
  BY Paths DEF TypeInv, PlaceOK, Path
<1>1. PlaceOK(p)'
  BY <1>0 DEF PlaceOK, Quiet, Early, Late
<1>2. DeployOK(p)'
  BY <1>0 DEF DeployOK, Quiet, Before, Early, Late, Forward
<1>3. DirsOK(p)'
  <2>1. \A d \in Runs : d \in dirs \/ status[d] \in Terminal \/ <<d, "dir">> \in torn
                      => d \in dirs' \/ status'[d] \in Terminal \/ <<d, "dir">> \in torn'
    BY DEF Forward, Kept
  <2> QED BY <1>0, <2>1 DEF DirsOK, Kept, Quiet
<1> QED BY <1>1, <1>2, <1>3 DEF RunOK

LEMMA EnvNone ==
    ASSUME TypeInv, NEW p \in Runs
    PROVE  env[p].status # "none" => env[p].path # None
BY DEF TypeInv, PlaceOK

LEMMA ReleaseOwn ==
    ASSUME TypeInv, NEW a \in Actors, Release(a)
    PROVE  SweeperOK' /\ Forward /\ \A p \in Runs : Quiet(p) /\ RunOK(p)'
<1> DEFINE r == job[a].of
<1>0. /\ TypeOK /\ (a \in Runs => PlaceOK(a)) /\ SweeperOK
      /\ job[a].pc \in {"check", "remove", "mark"}
      /\ tree \in [Runs -> Tree] /\ env \in [Runs -> Env]
  BY DEF TypeInv, TypeOK, Release, CheckRelease, RemoveWorktree, MarkInactive, At
<1>1. /\ r \in Runs /\ (a \in Runs => r = a) /\ (a \notin Runs => a = Sweeper)
      /\ job[a].pc \in {"remove", "mark"} => env[r].path # None
  BY <1>0 DEF PlaceOK, SweeperOK, Actors
<1>2. /\ \A b \in Actors \ {a} : job'[b] = job[b]
      /\ job'[a].pc \in {"remove", "mark", "over"}
      /\ job'[a].pc # "over" => job'[a].of = r /\ env[r].path # None
  <2>1. PICK pc \in {"remove", "mark", "over"} :
           Goto(a, pc) /\ (pc = "over" \/ env[r].status = "active" \/ job[a].pc = "remove")
    BY DEF Release, CheckRelease, RemoveWorktree, MarkInactive, Stop, At
  <2>2. pc # "over" => env[r].path # None
    BY <1>1, <2>1, EnvNone
  <2> QED BY <1>0, <2>1, <2>2, GotoMoves DEF Pcs
<1>3. UNCHANGED <<status, forge, deploy, issue, dirs>> /\ torn \subseteq torn'
  BY DEF Release, CheckRelease, RemoveWorktree, MarkInactive
<1>4. /\ \A p \in Runs : /\ tree'[p].commits = tree[p].commits /\ tree'[p].branch = tree[p].branch
                         /\ tree'[p].merged = tree[p].merged
                         /\ tree'[p].disk = tree[p].disk \/ env[p].path # None
  <2>1. UNCHANGED tree \/ (job[a].pc = "remove" /\ tree' = [tree EXCEPT ![r].disk = "none"])
    BY DEF Release, CheckRelease, RemoveWorktree, MarkInactive, At
  <2>2. /\ [tree[r] EXCEPT !.disk = "none"].commits = tree[r].commits
        /\ [tree[r] EXCEPT !.disk = "none"].branch = tree[r].branch
        /\ [tree[r] EXCEPT !.disk = "none"].merged = tree[r].merged
    BY <1>0, <1>1 DEF Tree
  <2> QED BY <1>0, <1>1, <2>1, <2>2
<1>5. /\ \A p \in Runs : env'[p].path = env[p].path /\ (env'[p].status # "none" => env[p].path # None)
  <2>1. UNCHANGED env \/ (job[a].pc = "mark" /\ env' = [env EXCEPT ![r].status = "inactive"])
    BY DEF Release, CheckRelease, RemoveWorktree, MarkInactive, At, Marked
  <2>2. [env[r] EXCEPT !.status = "inactive"].path = env[r].path
    BY <1>0, <1>1 DEF Env
  <2> QED BY <1>0, <1>1, <2>1, <2>2, EnvNone
<1>6. Forward
  BY <1>3, <1>5 DEF Forward, Kept
<1>7. \A p \in Runs : Quiet(p)
  BY <1>0, <1>1, <1>2, <1>3, <1>4, <1>5, Constant DEF Quiet, Late
<1>8. SweeperOK'
  BY <1>0, <1>1, <1>2, <1>5, Constant DEF SweeperOK
<1> QED BY <1>6, <1>7, <1>8, QuietOwn

LEMMA OtherOwn ==
    ASSUME TypeInv, Reaping \/ Outside
    PROVE  SweeperOK' /\ Forward /\ \A p \in Runs : Quiet(p) /\ RunOK(p)'
<1>0. /\ TypeOK /\ SweeperOK /\ tree \in [Runs -> Tree] /\ job \in [Actors -> Job]
      /\ Sweeper \in Actors /\ Sweeper \notin Runs /\ Runs \subseteq Actors
  BY Constant DEF TypeInv, TypeOK
<1>1. UNCHANGED <<status, env, forge, deploy, torn>> /\ (issue.review => issue'.review)
  <2>1. issue \in [readers : SUBSET Runs, review : BOOLEAN]
    BY <1>0 DEF TypeOK
  <2> QED BY <2>1 DEF Reaping, Outside, JudgeAgain, Judge, SweepDir, EditIssue, Merge, Age
<1>2. \A p \in Runs : job'[p] = job[p]
  <2>1. CASE JudgeAgain
    <3>1. \E pc \in Pcs : Goto(Sweeper, pc)
      BY <2>1 DEF JudgeAgain, Stop, Pcs
    <3> QED BY <1>0, <3>1, GotoMoves
  <2>2. ASSUME NEW r \in Runs, Judge(r)
        PROVE  \A p \in Runs : job'[p] = job[p]
    BY <1>0, <2>2 DEF Judge
  <2> QED BY <2>1, <2>2 DEF Reaping, Outside, SweepDir, EditIssue, Merge, Age
<1>3. \A p \in Runs : /\ tree'[p].commits = tree[p].commits /\ tree'[p].branch = tree[p].branch
                      /\ tree'[p].disk = tree[p].disk
                      /\ tree[p].merged => tree'[p].merged
  <2>1. UNCHANGED tree \/ \E r \in Runs : tree' = [tree EXCEPT ![r].merged = TRUE]
    BY DEF Reaping, Outside, JudgeAgain, Judge, SweepDir, EditIssue, Merge, Age
  <2>2. \A r \in Runs : /\ [tree[r] EXCEPT !.merged = TRUE].commits = tree[r].commits
                        /\ [tree[r] EXCEPT !.merged = TRUE].branch = tree[r].branch
                        /\ [tree[r] EXCEPT !.merged = TRUE].disk = tree[r].disk
                        /\ [tree[r] EXCEPT !.merged = TRUE].merged
    BY <1>0 DEF Tree
  <2> QED BY <1>0, <2>1, <2>2
<1>4. \A d \in dirs : d \in dirs' \/ status[d] \in Terminal
  BY DEF Reaping, Outside, JudgeAgain, Judge, SweepDir, Reapable, EditIssue, Merge, Age
<1>5. Forward
  BY <1>1, <1>4, KeptStays DEF Forward
<1>6. \A p \in Runs : Quiet(p)
  BY <1>1, <1>2, <1>3, EnvNone DEF Quiet
<1>7. SweeperOK'
  <2>1. CASE job'[Sweeper] = job[Sweeper]
    BY <1>5, <2>1, SweeperStays
  <2>2. CASE JudgeAgain
    <3>1. PICK pc \in {"check", "over"} : Goto(Sweeper, pc)
      BY <2>2 DEF JudgeAgain, Stop
    <3>2. job'[Sweeper].pc = pc /\ (pc # "over" => job'[Sweeper].of = job[Sweeper].of)
      BY <1>0, <3>1, GotoMoves DEF Pcs
    <3>3. job[Sweeper].pc = "again"
      BY <2>2 DEF JudgeAgain, At
    <3> QED BY <1>0, <1>1, <3>2, <3>3 DEF SweeperOK
  <2>3. ASSUME NEW r \in Runs, Judge(r)
        PROVE  SweeperOK'
    <3>1. job'[Sweeper].pc = "again" /\ job'[Sweeper].of = r
      <4>1. job[Sweeper] \in Job
        BY <1>0
      <4>2. job' = [job EXCEPT ![Sweeper] = [job[Sweeper] EXCEPT !.pc = "again", !.of = r]]
        BY <1>0, <2>3 DEF Judge
      <4>3. /\ [job[Sweeper] EXCEPT !.pc = "again", !.of = r].pc = "again"
            /\ [job[Sweeper] EXCEPT !.pc = "again", !.of = r].of = r
        BY <4>1, JobStart
      <4> QED BY <1>0, <4>2, <4>3
    <3>2. env[r].path # None
      BY <2>3, EnvNone DEF Judge
    <3> QED BY <1>1, <3>1, <3>2 DEF SweeperOK
  <2> QED BY <2>1, <2>2, <2>3 DEF Reaping, Outside, SweepDir, EditIssue, Merge, Age
<1> QED BY <1>5, <1>6, <1>7, QuietOwn

LEMMA CrashOwn ==
    ASSUME TypeInv, Crash
    PROVE  SweeperOK' /\ \A p \in Runs : RunOK(p)'
<1>0. TypeOK /\ Sweeper \in Actors /\ Sweeper \notin Runs /\ Runs \subseteq Actors
  BY Constant DEF TypeInv
<1>1. /\ UNCHANGED <<env, tree, dirs, forge, deploy, issue>> /\ torn \subseteq torn'
  BY DEF Crash
<1>2. PICK again \in SUBSET {r \in Runs : status[r] = "running"} :
         /\ job' = [a \in Actors |->
               IF a \in Runs /\ status[a] = "running"
               THEN [Idle EXCEPT !.pc = IF a \in again THEN "stage" ELSE "check", !.of = a]
               ELSE Idle]
         /\ status' = [r \in Runs |->
               IF status[r] = "running" /\ r \notin again THEN "failed" ELSE status[r]]
  BY DEF Crash
<1>3. \A p \in Runs :
         \/ status'[p] = "running" /\ status[p] = "running"
               /\ job'[p].pc = "stage" /\ job'[p].of = p
         \/ status'[p] = "failed" /\ status[p] = "running"
               /\ job'[p].pc = "check" /\ job'[p].of = p
         \/ status'[p] # "running" /\ job'[p].pc = "over"
  <2>1. \A p, pc : [Idle EXCEPT !.pc = pc, !.of = p].pc = pc
                         /\ [Idle EXCEPT !.pc = pc, !.of = p].of = p
    BY DEF Idle
  <2> SUFFICES ASSUME NEW p \in Runs
               PROVE  \/ status'[p] = "running" /\ status[p] = "running"
                            /\ job'[p].pc = "stage" /\ job'[p].of = p
                      \/ status'[p] = "failed" /\ status[p] = "running"
                            /\ job'[p].pc = "check" /\ job'[p].of = p
                      \/ status'[p] # "running" /\ job'[p].pc = "over"
    OBVIOUS
  <2>2. CASE status[p] # "running"
    BY <1>0, <1>2, <2>2, IdleJob
  <2>3. CASE status[p] = "running" /\ p \in again
    <3>1. job'[p] = [Idle EXCEPT !.pc = "stage", !.of = p] /\ status'[p] = "running"
      BY <1>0, <1>2, <2>3
    <3> QED BY <2>1, <2>3, <3>1
  <2>4. CASE status[p] = "running" /\ p \notin again
    <3>1. job'[p] = [Idle EXCEPT !.pc = "check", !.of = p] /\ status'[p] = "failed"
      BY <1>0, <1>2, <2>4
    <3> QED BY <2>1, <2>4, <3>1
  <2> QED BY <2>2, <2>3, <2>4
<1>4. Forward
  <2>1. \A d \in Runs : status[d] \in Terminal => status'[d] \in Terminal
    BY <1>2 DEF Terminal
  <2> QED BY <1>1, <2>1, KeptStays DEF Forward
<1>5. ASSUME NEW p \in Runs PROVE RunOK(p)'
  <2>0. /\ PlaceOK(p) /\ DeployOK(p) /\ DirsOK(p)
        /\ env[p].path # None => env[p].path \in Runs
    BY <1>0, Paths DEF TypeInv, Path
  <2>1. PlaceOK(p)'
    BY <1>1, <1>3, <2>0 DEF PlaceOK, Early
  <2>2. DeployOK(p)'
    BY <1>1, <1>3, <2>0 DEF DeployOK, PlaceOK, Before, Early, Late
  <2>3. DirsOK(p)'
    BY <1>1, <1>3, <1>4, <2>0 DEF DirsOK, Forward, Kept
  <2> QED BY <2>1, <2>2, <2>3 DEF RunOK
<1>6. SweeperOK'
  BY <1>0, <1>2, IdleJob DEF SweeperOK
<1> QED BY <1>5, <1>6

\* A stage's step leaves the sweeper, and every release, alone.
LEMMA RunMoves ==
    ASSUME TypeInv, NEW q \in Runs,
           Acquire(q) \/ Create(q) \/ Insert(q) \/ Repair(q) \/ Work(q)
    PROVE  /\ job[q].pc \in Early /\ \A b \in Actors \ {q} : job'[b] = job[b]
           /\ job'[Sweeper] = job[Sweeper] /\ torn \subseteq torn'
<1>0. TypeOK /\ job \in [Actors -> Job] /\ q \in Actors /\ Sweeper \in Actors \ {q}
  BY Constant DEF TypeInv, TypeOK
<1>1. job[q].pc \in Early /\ torn \subseteq torn'
  BY DEF Acquire, Create, Insert, Repair, Work, Write, Commit, EndStage, At, Early
<1>2. \/ UNCHANGED job \/ StageFails(q) \/ \E pc \in Pcs : Goto(q, pc)
      \/ \E pc, p : job' = [job EXCEPT ![q].pc = pc, ![q].path = p]
  BY DEF Acquire, Create, Insert, Repair, Work, Write, Commit, EndStage, Pcs
<1>3. \A b \in Actors \ {q} : job'[b] = job[b]
  BY <1>0, <1>2, GotoMoves, StageFailsMoves
<1> QED BY <1>0, <1>1, <1>3

LEMMA OneActor ==
    [Next]_vars =>
        \/ UNCHANGED vars
        \/ \E q \in Runs : Acquire(q) \/ Create(q) \/ Insert(q) \/ Repair(q) \/ Work(q)
        \/ \E q \in Runs : Bridge(q)
        \/ \E a \in Actors : Release(a)
        \/ Reaping \/ Outside
        \/ Crash
BY EnvironmentsAssumption DEF Next, Reaping, Outside, Runs

LEMMA TypeInvStep == TypeInv /\ [Next]_vars => TypeInv'
<1> SUFFICES ASSUME TypeInv, [Next]_vars
             PROVE  TypeInv'
  OBVIOUS
<1>1. CASE UNCHANGED vars
  BY <1>1 DEF vars, TypeInv, TypeOK, SweeperOK, PlaceOK, DeployOK, DirsOK, Kept
<1>2. ASSUME NEW q \in Runs, OwnStep(q), TypeOK', job'[Sweeper] = job[Sweeper]
      PROVE  TypeInv'
  <2>1. \A p \in Runs \ {q} : RunOK(p)'
    BY <1>2, OthersStay DEF OwnStep
  <2>2. SweeperOK'
    BY <1>2, SweeperStays DEF OwnStep
  <2> QED BY <1>2, <2>1, <2>2 DEF OwnStep, TypeInv, RunOK
<1>3. ASSUME NEW q \in Runs, Acquire(q) \/ Create(q) \/ Insert(q) \/ Repair(q) \/ Work(q)
      PROVE  TypeInv'
  <2>1. OwnStep(q) /\ TypeOK'
    BY <1>3, AcquireOwn, CreateOwn, InsertOwn, RepairOwn, WorkOwn, RunTypes
  <2>2. job'[Sweeper] = job[Sweeper]
    BY <1>3, RunMoves
  <2> QED BY <1>2, <2>1, <2>2
<1>4. ASSUME NEW q \in Runs, Bridge(q)
      PROVE  TypeInv'
  BY <1>2, <1>4, BridgeOwn, BridgeTypes, BridgeFrame, Constant
<1>5. ASSUME NEW a \in Actors, Release(a)
      PROVE  TypeInv'
  BY <1>5, ReleaseOwn, ReleaseTypes DEF TypeInv, RunOK
<1>6. CASE Reaping \/ Outside
  BY <1>6, OtherOwn, OtherTypes DEF TypeInv, RunOK
<1>7. CASE Crash
  BY <1>7, CrashOwn, OtherTypes DEF TypeInv, RunOK
<1> QED BY <1>1, <1>3, <1>4, <1>5, <1>6, <1>7, OneActor

LEMMA InitTypes == Init => TypeInv
<1> SUFFICES ASSUME Init
             PROVE  TypeInv
  OBVIOUS
<1>1. /\ \A r \in Runs : job[r].pc = "stage" /\ job[r].of = r /\ job[r] \in Job
      /\ job[Sweeper] = Idle /\ job \in [Actors -> Job]
  <2>1. job = [a \in Actors |-> IF a = Sweeper THEN Idle
                                ELSE [Idle EXCEPT !.pc = "stage", !.of = a]]
    BY DEF Init
  <2>2. \A r \in Runs : /\ [Idle EXCEPT !.pc = "stage", !.of = r] \in Job
                        /\ [Idle EXCEPT !.pc = "stage", !.of = r].pc = "stage"
                        /\ [Idle EXCEPT !.pc = "stage", !.of = r].of = r
    BY IdleJob, JobStart
  <2>3. \A a \in Actors : a # Sweeper => a \in Runs
    BY DEF Actors
  <2> QED BY <2>1, <2>2, <2>3, IdleJob, Constant
<1>2. TypeOK
  <2>0. 0 \in 0..MaxCommits + 1 /\ 0 \in 0..MaxFaults
    BY EnvironmentsAssumption
  <2>1. tree \in [Runs -> Tree]
    <3>1. [disk |-> "none", branch |-> FALSE, commits |-> 0, merged |-> FALSE] \in Tree
      BY <2>0 DEF Tree
    <3>2. tree = [r \in Runs |-> [disk |-> "none", branch |-> FALSE, commits |-> 0,
                                 merged |-> FALSE]]
      BY DEF Init
    <3> QED BY <3>1, <3>2
  <2>2. forge \in [Runs -> Forge] /\ deploy \in [Runs -> Deploy]
    <3>1. [pushed |-> 0, pr |-> FALSE] \in Forge /\ NoDeploy \in Deploy
      BY <2>0 DEF Forge, Deploy, NoDeploy
    <3>2. /\ forge = [r \in Runs |-> [pushed |-> 0, pr |-> FALSE]]
          /\ deploy = [r \in Runs |-> NoDeploy]
      BY DEF Init, NoDeploy
    <3> QED BY <3>1, <3>2
  <2>3. /\ env \in [Runs -> Env] /\ recorded \in [Runs -> Path]
        /\ status \in [Runs -> {"running", "blocked"} \union Terminal]
    <3>1. [status |-> "none", path |-> None] \in Env /\ None \in Path
      BY DEF Env, Path
    <3>2. /\ env = [r \in Runs |-> [status |-> "none", path |-> None]]
          /\ recorded = [r \in Runs |-> None] /\ status = [r \in Runs |-> "running"]
      BY DEF Init
    <3> QED BY <3>1, <3>2
  <2>4. issue \in [readers : SUBSET Runs, review : BOOLEAN] /\ faults \in 0..MaxFaults
    BY <2>0 DEF Init
  <2>5. dirs = {} /\ old = {} /\ torn = {}
    BY DEF Init
  <2> QED BY <1>1, <2>1, <2>2, <2>3, <2>4, <2>5 DEF TypeOK
<1>3. SweeperOK
  BY <1>1, IdleJob DEF SweeperOK
<1>4. ASSUME NEW r \in Runs
      PROVE  PlaceOK(r) /\ DeployOK(r) /\ DirsOK(r)
  <2>1. /\ status[r] = "running" /\ env[r].status = "none" /\ env[r].path = None
        /\ tree[r].commits = 0 /\ ~forge[r].pr /\ deploy[r] = NoDeploy
    BY DEF Init, NoDeploy
  <2>2. PlaceOK(r)
    BY <1>1, <2>1 DEF PlaceOK, Early
  <2>3. DeployOK(r)
    BY <1>1, <2>1, Constant DEF DeployOK, Before, Early, Late
  <2> QED BY <1>1, <2>1, <2>2, <2>3 DEF DirsOK
<1> QED BY <1>2, <1>3, <1>4 DEF TypeInv

THEOREM TypeInvHolds == Spec => []TypeInv
BY InitTypes, TypeInvStep, PTL DEF Spec

\* Rows, worktrees, directories, the forge and the chains keep their types,
\* whatever fails or crashes on the way (worktree-isolation-provider.ts,
\* deploy-bridge.ts, cleanup-service.ts).
THEOREM TypeCorrect == Spec => []TypeOK
<1>1. TypeInv => TypeOK
  BY DEF TypeInv
<1> QED BY <1>1, TypeInvHolds, PTL

-------------------------------------------------------------------------------
(* What the invariant gives. *)

\* The artifacts of a stage at work are there, or their run has ended, or a
\* failed insertion took them (provisionArtifactsDir, isArtifactsSafeToRemove).
THEOREM ArtifactsAtHandHolds == Spec => []ArtifactsAtHand
<1>1. TypeInv => ArtifactsAtHand
  BY DEF TypeInv, DirsOK, Kept, ArtifactsAtHand
<1> QED BY <1>1, TypeInvHolds, PTL

-------------------------------------------------------------------------------
(* Trees and rows. *)

\* What no step does to the tree and the row of a run: throw away uncommitted
\* work, change the directory, remove a tree and not go on to the row, or
\* make a row active that has no tree.
Careful(r) ==
    /\ tree[r].disk = "dirty" => tree'[r].disk # "none"
    /\ env[r].path # None => env'[r].path = env[r].path
    /\ tree[r].disk # "none" /\ tree'[r].disk = "none" =>
          \/ env'[r].status # "active"
          \/ \E a \in Actors : job'[a].pc = "mark" /\ job'[a].of = r
    /\ env'[r].status = "active" => env[r].status = "active" \/ tree'[r].disk # "none"

LEMMA TreeTo ==
    ASSUME TypeOK, NEW q \in Runs, NEW x,
           tree' = [tree EXCEPT ![q] = x], x.disk # "none", UNCHANGED env
    PROVE  \A r \in Runs : Careful(r)
BY DEF TypeOK, Careful

LEMMA StageCareful ==
    ASSUME TypeInv, NEW q \in Runs,
           Acquire(q) \/ Create(q) \/ Insert(q) \/ Repair(q) \/ Work(q)
    PROVE  \A r \in Runs : Careful(r)
<1>0. /\ TypeOK /\ PlaceOK(q) /\ tree \in [Runs -> Tree] /\ tree[q] \in Tree
      /\ env \in [Runs -> Env] /\ env[q] \in Env
  BY DEF TypeInv, TypeOK
<1>1. CASE UNCHANGED <<tree, env>>
  BY <1>1 DEF Careful
<1>2. CASE Create(q)
  <2>1. [tree[q] EXCEPT !.branch = TRUE, !.disk = "clean"].disk = "clean"
    BY <1>0 DEF Tree
  <2>2. \/ UNCHANGED tree
        \/ tree' = [tree EXCEPT ![q] = [tree[q] EXCEPT !.branch = TRUE, !.disk = "clean"]]
    BY <1>0, <1>2 DEF Create
  <2>3. UNCHANGED env
    BY <1>2 DEF Create
  <2> QED BY <1>0, <1>1, <2>1, <2>2, <2>3, TreeTo
<1>3. CASE Insert(q)
  <2>1. env[q].path = None /\ tree[q].disk = "clean" /\ env[q].status = "none"
    BY <1>0, <1>3 DEF Insert, At, PlaceOK
  <2>2. CASE /\ env' = [env EXCEPT ![q] = [status |-> "active", path |-> job[q].path]]
             /\ UNCHANGED tree
    BY <1>0, <2>1, <2>2 DEF Careful
  <2>3. CASE tree' = [tree EXCEPT ![q].disk = "none"] /\ UNCHANGED env
    BY <1>0, <2>1, <2>3 DEF Careful
  <2> QED BY <1>3, <2>2, <2>3 DEF Insert
<1>4. CASE Repair(q)
  <2>1. \/ UNCHANGED tree
        \/ tree' = [tree EXCEPT ![q] = [tree[q] EXCEPT !.disk = "clean"]]
    BY <1>0, <1>4 DEF Repair
  <2>2. [tree[q] EXCEPT !.disk = "clean"].disk = "clean"
    BY <1>0 DEF Tree
  <2>3. UNCHANGED env
    <3>1. env' = env \/ env' = [env EXCEPT ![q].path = env[q].path]
      BY <1>4 DEF Repair, Repaired
    <3>2. [env[q] EXCEPT !.path = env[q].path] = env[q]
      BY <1>0 DEF Env
    <3> QED BY <1>0, <3>1, <3>2
  <2> QED BY <1>0, <1>1, <2>1, <2>2, <2>3, TreeTo
<1>5. CASE Write(q)
  <2>1. tree' = [tree EXCEPT ![q] = [tree[q] EXCEPT !.disk = "dirty"]]
    BY <1>0, <1>5 DEF Write
  <2>2. [tree[q] EXCEPT !.disk = "dirty"].disk = "dirty"
    BY <1>0 DEF Tree
  <2> QED BY <1>0, <1>5, <2>1, <2>2, TreeTo DEF Write
<1>6. CASE Commit(q)
  <2> DEFINE x == [tree[q] EXCEPT !.disk = "clean", !.commits = @ + 1]
  <2>1. tree' = [tree EXCEPT ![q] = x]
    BY <1>0, <1>6 DEF Commit
  <2>2. x.disk = "clean"
    BY <1>0 DEF Tree
  <2> HIDE DEF x
  <2> QED BY <1>0, <1>6, <2>1, <2>2, TreeTo DEF Commit
<1> QED BY <1>1, <1>2, <1>3, <1>4, <1>5, <1>6 DEF Acquire, Work, EndStage

LEMMA BridgeCareful ==
    ASSUME TypeInv, NEW q \in Runs, Bridge(q)
    PROVE  \A r \in Runs : Careful(r)
<1>0. TypeOK /\ tree \in [Runs -> Tree] /\ tree[q] \in Tree
  BY DEF TypeInv, TypeOK
<1>1. UNCHANGED env
  BY BridgeFrame
<1>2. \/ UNCHANGED tree
      \/ \E n : tree' = [tree EXCEPT ![q].commits = n, ![q].disk = "clean"]
  BY DEF Bridge, LoadDeploy, CommitAll, Push, OpenPr, Advance, Save, RecordFailure
<1>3. CASE UNCHANGED tree
  BY <1>1, <1>3 DEF Careful
<1>4. ASSUME NEW n, tree' = [tree EXCEPT ![q].commits = n, ![q].disk = "clean"]
      PROVE  \A r \in Runs : Careful(r)
  <2> DEFINE x == [tree[q] EXCEPT !.commits = n, !.disk = "clean"]
  <2>1. tree' = [tree EXCEPT ![q] = x]
    BY <1>0, <1>4
  <2>2. x.disk = "clean"
    BY <1>0 DEF Tree
  <2> HIDE DEF x
  <2> QED BY <1>0, <1>1, <2>1, <2>2, TreeTo
<1> QED BY <1>2, <1>3, <1>4

LEMMA ReleaseCareful ==
    ASSUME TypeInv, NEW a \in Actors, Release(a)
    PROVE  \A r \in Runs : Careful(r)
<1>0. /\ TypeOK /\ (a \in Runs => PlaceOK(a)) /\ SweeperOK
      /\ tree \in [Runs -> Tree] /\ env \in [Runs -> Env]
  BY DEF TypeInv, TypeOK
<1>1. CASE UNCHANGED <<tree, env>>
  BY <1>1 DEF Careful
<1>2. CASE RemoveWorktree(a)
  <2>1. job[a].of \in Runs /\ UNCHANGED env
    BY <1>0, <1>2 DEF RemoveWorktree, At, PlaceOK, SweeperOK, Actors
  <2>2. CASE UNCHANGED tree
    BY <1>1, <2>1, <2>2
  <2>3. CASE /\ tree[job[a].of].disk # "dirty" /\ Goto(a, "mark")
             /\ tree' = [tree EXCEPT ![job[a].of].disk = "none"]
    <3>1. job'[a].pc = "mark" /\ job'[a].of = job[a].of
      BY <1>0, <2>3, GotoMoves DEF Pcs
    <3> QED BY <1>0, <2>1, <2>3, <3>1 DEF Careful
  <2> QED BY <1>2, <2>2, <2>3 DEF RemoveWorktree, Refuses
<1>3. CASE MarkInactive(a)
  <2>1. UNCHANGED tree /\ (UNCHANGED env \/ env' = [env EXCEPT ![job[a].of].status = "inactive"])
    BY <1>3 DEF MarkInactive, Marked
  <2>2. \A r \in Runs : /\ [env[r] EXCEPT !.status = "inactive"].path = env[r].path
                        /\ [env[r] EXCEPT !.status = "inactive"].status = "inactive"
    BY <1>0 DEF Env
  <2> QED BY <1>0, <2>1, <2>2 DEF Careful
<1> QED BY <1>1, <1>2, <1>3 DEF Release, CheckRelease

LEMMA EveryStepCareful == TypeInv /\ [Next]_vars => \A r \in Runs : Careful(r)
<1> SUFFICES ASSUME TypeInv, [Next]_vars
             PROVE  \A r \in Runs : Careful(r)
  OBVIOUS
<1>1. CASE UNCHANGED vars
  BY <1>1 DEF vars, Careful
<1>2. CASE Reaping \/ Outside
  <2>1. UNCHANGED env
    BY <1>2 DEF Reaping, Outside, JudgeAgain, Judge, SweepDir, EditIssue, Merge, Age
  <2>2. UNCHANGED tree \/ \E q \in Runs : tree' = [tree EXCEPT ![q].merged = TRUE]
    BY <1>2 DEF Reaping, Outside, JudgeAgain, Judge, SweepDir, EditIssue, Merge, Age
  <2>3. tree \in [Runs -> Tree] /\ \A q \in Runs : [tree[q] EXCEPT !.merged = TRUE].disk = tree[q].disk
    BY DEF TypeInv, TypeOK, Tree
  <2>4. \A r \in Runs : tree'[r].disk = tree[r].disk
    BY <2>2, <2>3
  <2> QED BY <2>1, <2>4 DEF Careful
<1>3. CASE Crash
  BY <1>3 DEF Crash, Careful
<1> QED BY <1>1, <1>2, <1>3, OneActor, StageCareful, BridgeCareful, ReleaseCareful

\* git's own refusal is enough: whatever the stages write between a check and
\* a removal, no removal takes it (worktree-isolation-provider.ts, release).
THEOREM UncommittedWorkStaysHolds == Spec => UncommittedWorkStays
<1>1. TypeInv /\ [Next]_vars =>
         [\A r \in Runs : tree[r].disk = "dirty" => tree'[r].disk # "none"]_vars
  BY EveryStepCareful DEF Careful
<1> QED BY <1>1, TypeInvHolds, PTL DEF Spec, UncommittedWorkStays

\* The directory that an environment was given first is its directory for good
\* (worktree-isolation-provider.ts, repairWorktree).
THEOREM ArtifactsStayPutHolds == Spec => ArtifactsStayPut
<1>1. TypeInv /\ [Next]_vars =>
         [\A r \in Runs : env[r].path # None => env'[r].path = env[r].path]_vars
  BY EveryStepCareful DEF Careful
<1> QED BY <1>1, TypeInvHolds, PTL DEF Spec, ArtifactsStayPut

-------------------------------------------------------------------------------
(* A row without a tree. *)

LEMMA TornGrows == TypeInv /\ [Next]_vars => torn \subseteq torn'
<1> SUFFICES ASSUME TypeInv, [Next]_vars
             PROVE  torn \subseteq torn'
  OBVIOUS
<1>1. CASE UNCHANGED vars
  BY <1>1 DEF vars
<1>2. ASSUME NEW a \in Actors, Release(a)
      PROVE  torn \subseteq torn'
  BY <1>2 DEF Release, CheckRelease, RemoveWorktree, MarkInactive
<1>3. CASE Reaping \/ Outside
  BY <1>3 DEF Reaping, Outside, JudgeAgain, Judge, SweepDir, EditIssue, Merge, Age
<1>4. CASE Crash
  BY <1>4 DEF Crash
<1> QED BY <1>1, <1>2, <1>3, <1>4, OneActor, RunMoves, BridgeFrame

\* A release about to update the row stays so, updates it, or leaves a trace.
LEMMA MarkStays ==
    ASSUME TypeInv, [Next]_vars, NEW a \in Actors, job[a].pc = "mark"
    PROVE  \/ job'[a] = job[a]
           \/ env'[job[a].of].status # "active"
           \/ <<job[a].of, "tree">> \in torn'
<1>0. TypeOK /\ env \in [Runs -> Env] /\ job \in [Actors -> Job] /\ (a \in Runs \/ a = Sweeper)
  BY DEF TypeInv, TypeOK, Actors
<1>1. CASE UNCHANGED job
  BY <1>1
<1>2. ASSUME NEW q \in Runs, Acquire(q) \/ Create(q) \/ Insert(q) \/ Repair(q) \/ Work(q)
      PROVE  job'[a] = job[a]
  BY <1>2, RunMoves DEF Early
<1>3. ASSUME NEW q \in Runs, Bridge(q)
      PROVE  job'[a] = job[a]
  BY <1>3, BridgeFrame
<1>4. ASSUME NEW b \in Actors, Release(b), b # a
      PROVE  job'[a] = job[a]
  <2>1. \E pc \in Pcs : Goto(b, pc)
    BY <1>4 DEF Release, CheckRelease, RemoveWorktree, MarkInactive, Stop, Pcs
  <2> QED BY <1>0, <1>4, <2>1, GotoMoves
<1>5. CASE Release(a)
  <2>1. MarkInactive(a)
    BY <1>5 DEF Release, CheckRelease, RemoveWorktree, At
  <2>2. job[a].of \in Runs
    BY <1>0 DEF TypeInv, PlaceOK, SweeperOK
  <2>3. [env[job[a].of] EXCEPT !.status = "inactive"].status = "inactive"
    BY <1>0, <2>2 DEF Env
  <2> QED BY <1>0, <2>1, <2>2, <2>3 DEF MarkInactive, Marked
<1>6. CASE JudgeAgain
  <2>1. a # Sweeper
    BY <1>6 DEF JudgeAgain, At
  <2>2. \E pc \in Pcs : Goto(Sweeper, pc)
    BY <1>6 DEF JudgeAgain, Stop, Pcs
  <2> QED BY <1>0, <2>1, <2>2, GotoMoves, Constant
<1>7. ASSUME NEW r \in Runs, Judge(r)
      PROVE  job'[a] = job[a]
  <2>1. a # Sweeper
    BY <1>7 DEF Judge, At
  <2> QED BY <1>0, <1>7, <2>1 DEF Judge
<1>8. CASE Crash
  BY <1>8 DEF Crash, At
<1>9. CASE Reaping \/ Outside
  BY <1>1, <1>6, <1>7, <1>9 DEF Reaping, Outside, SweepDir, EditIssue, Merge, Age
<1>10. CASE UNCHANGED vars
  BY <1>1, <1>10 DEF vars
<1> QED BY <1>2, <1>3, <1>4, <1>5, <1>8, <1>9, <1>10, OneActor

LEMMA ActiveRowHasTreeStep ==
    TypeInv /\ ActiveRowHasTree /\ [Next]_vars => ActiveRowHasTree'
<1> SUFFICES ASSUME TypeInv, ActiveRowHasTree, [Next]_vars, NEW r \in Runs,
                    env'[r].status = "active", tree'[r].disk = "none"
             PROVE  \/ \E a \in Actors : job'[a].pc = "mark" /\ job'[a].of = r
                    \/ <<r, "tree">> \in torn'
  BY DEF ActiveRowHasTree, At
<1>1. Careful(r) /\ torn \subseteq torn'
  BY EveryStepCareful, TornGrows
<1>2. env[r].status = "active"
  BY <1>1 DEF Careful
<1>3. CASE tree[r].disk # "none"
  BY <1>1, <1>3 DEF Careful
<1>4. CASE tree[r].disk = "none"
  <2>1. \/ \E a \in Actors : job[a].pc = "mark" /\ job[a].of = r
        \/ <<r, "tree">> \in torn
    BY <1>2, <1>4 DEF ActiveRowHasTree, At
  <2>2. ASSUME NEW a \in Actors, job[a].pc = "mark", job[a].of = r
        PROVE  job'[a] = job[a] \/ <<r, "tree">> \in torn'
    BY <2>2, MarkStays
  <2> QED BY <1>1, <2>1, <2>2
<1> QED BY <1>3, <1>4

\* Only a release that was stopped half way leaves an active row whose tree is
\* gone (worktree-isolation-provider.ts, release).
THEOREM ActiveRowHasTreeHolds == Spec => []ActiveRowHasTree
<1>1. Init => ActiveRowHasTree
  <2>1. ASSUME Init, NEW r \in Runs
        PROVE  env[r].status = "none"
    <3>1. env = [q \in Runs |-> [status |-> "none", path |-> None]]
      BY <2>1 DEF Init
    <3> QED BY <3>1
  <2> QED BY <2>1 DEF ActiveRowHasTree
<1> QED BY <1>1, TypeInvHolds, ActiveRowHasTreeStep, PTL DEF Spec

-------------------------------------------------------------------------------
(* The row of a deploy. *)

\* DeployRowTellsTruth, of one run.
Tells(r) ==
    LET d == deploy[r] IN
    /\ d.status = "succeeded" =>
          d.pr /\ forge[r].pr /\ forge[r].pushed = tree[r].commits /\ issue.review
    /\ d.status = "skipped" => tree[r].commits = 0 \/ tree[r].merged
    /\ d.stage \in {"find-env", "commit", "push"} => ~forge[r].pr
    /\ d.stage = "record-db" => forge[r].pr /\ ~d.pr

\* What a row speaks of stays, or gets only truer.
LEMMA TellsStill ==
    ASSUME NEW r \in Runs, Tells(r), deploy'[r] = deploy[r], forge'[r] = forge[r],
           tree'[r].commits = tree[r].commits, tree[r].merged => tree'[r].merged,
           issue.review => issue'.review
    PROVE  Tells(r)'
BY DEF Tells

LEMMA TellsNothing ==
    ASSUME NEW r \in Runs, deploy'[r] = NoDeploy
    PROVE  Tells(r)'
BY DEF Tells, NoDeploy

LEMMA BridgeTells ==
    ASSUME TypeInv, NEW q \in Runs, Bridge(q)
    PROVE  Tells(q)'
<1>0. /\ TypeOK /\ DeployOK(q) /\ deploy \in [Runs -> Deploy]
      /\ job[q].pc \in {"load", "commit", "push", "open", "advance", "save", "fail"}
  BY BridgeFrame DEF TypeInv, TypeOK
<1>1. deploy[q] = NoDeploy
  BY <1>0 DEF DeployOK, Late
<1>2. CASE UNCHANGED deploy
  BY <1>1, <1>2, TellsNothing
<1>3. CASE NothingToPush(q) /\ UNCHANGED tree /\ deploy' = [deploy EXCEPT ![q].status = "skipped"]
  <2>1. deploy'[q].status = "skipped" /\ deploy'[q].stage = "none"
    <3>1. /\ [NoDeploy EXCEPT !.status = "skipped"].status = "skipped"
          /\ [NoDeploy EXCEPT !.status = "skipped"].stage = "none"
      BY DEF NoDeploy
    <3> QED BY <1>0, <1>1, <1>3, <3>1
  <2> QED BY <1>3, <2>1 DEF NothingToPush, Tells
<1>4. CASE Save(q) /\ deploy' = [deploy EXCEPT ![q] = Saved]
  <2>1. job[q].pc = "save" /\ UNCHANGED <<tree, forge, issue>>
    BY <1>4 DEF Save, At
  <2>2. deploy'[q] = Saved
    BY <1>0, <1>4
  <2> QED BY <1>0, <2>1, <2>2 DEF DeployOK, Saved, Tells
<1>5. CASE /\ RecordFailure(q)
           /\ deploy' = [deploy EXCEPT ![q].status = "failed", ![q].stage = job[q].error]
  <2>1. job[q].pc = "fail" /\ UNCHANGED forge
    BY <1>5 DEF RecordFailure, At
  <2>2. deploy'[q].status = "failed" /\ deploy'[q].stage = job[q].error /\ ~deploy'[q].pr
    <3> DEFINE x == [NoDeploy EXCEPT !.status = "failed", !.stage = job[q].error]
    <3>1. x.status = "failed" /\ x.stage = job[q].error /\ ~x.pr
      BY DEF NoDeploy
    <3>2. deploy' = [deploy EXCEPT ![q] = x]
      BY <1>0, <1>1, <1>5
    <3> HIDE DEF x
    <3> QED BY <1>0, <3>1, <3>2
  <2> QED BY <1>0, <2>1, <2>2 DEF DeployOK, Tells
<1> QED BY <1>2, <1>3, <1>4, <1>5
        DEF Bridge, LoadDeploy, CommitAll, Push, OpenPr, Advance, Save, RecordFailure

LEMMA TellsStep ==
    TypeInv /\ [Next]_vars /\ (\A r \in Runs : Tells(r)) => \A r \in Runs : Tells(r)'
<1> SUFFICES ASSUME TypeInv, [Next]_vars, \A p \in Runs : Tells(p), NEW r \in Runs
             PROVE  Tells(r)'
  OBVIOUS
<1>1. ASSUME NEW q \in Runs, Alone(q), Forward, q # r
      PROVE  Tells(r)'
  BY <1>1, TellsStill DEF Alone, Forward
<1>2. CASE UNCHANGED vars
  BY <1>2, TellsStill DEF vars
<1>3. ASSUME NEW q \in Runs, Acquire(q) \/ Create(q) \/ Insert(q) \/ Repair(q) \/ Work(q)
      PROVE  Tells(r)'
  <2>1. Alone(q) /\ Forward
    BY <1>3, AcquireOwn, CreateOwn, InsertOwn, RepairOwn, WorkOwn DEF OwnStep
  <2>2. CASE q = r
    <3>1. deploy[r] = NoDeploy
      BY <1>3, <2>2, RunMoves DEF TypeInv, DeployOK, Early, Late
    <3>2. UNCHANGED deploy
      BY <1>3 DEF Acquire, Create, Insert, Repair, Work, Write, Commit, EndStage
    <3> QED BY <3>1, <3>2, TellsNothing
  <2> QED BY <1>1, <2>1, <2>2
<1>4. ASSUME NEW q \in Runs, Bridge(q)
      PROVE  Tells(r)'
  BY <1>1, <1>4, BridgeFrame, BridgeTells
<1>5. ASSUME Forward, Quiet(r)
      PROVE  Tells(r)'
  BY <1>5, TellsStill DEF Quiet, Forward
<1>6. CASE Crash
  BY <1>6, TellsStill DEF Crash
<1> QED BY <1>2, <1>3, <1>4, <1>5, <1>6, OneActor, ReleaseOwn, OtherOwn

\* What deploy_run says of the push, the pull request and the issue is so, in
\* whatever step the deploy was stopped (deploy-bridge.ts).
THEOREM DeployRowTellsTruthHolds == Spec => []DeployRowTellsTruth
<1> DEFINE All == \A r \in Runs : Tells(r)
<1>1. Init => All
  <2>1. Init => \A r \in Runs : deploy[r] = NoDeploy
    BY DEF Init, NoDeploy
  <2> QED BY <2>1 DEF Tells, NoDeploy
<1>2. TypeInv /\ [Next]_vars /\ All => All'
  BY TellsStep
<1>3. All => DeployRowTellsTruth
  BY DEF Tells, DeployRowTellsTruth
<1> HIDE DEF All
<1> QED BY <1>1, <1>2, <1>3, TypeInvHolds, PTL DEF Spec

===============================================================================
