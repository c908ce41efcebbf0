------------------------------ MODULE Environments ------------------------------
(***************************************************************************)
(* The worktree of a run, from the stage that acquires it to the deploy    *)
(* that publishes it: the isolation provider                               *)
(* (adapters/git/worktree-isolation-provider.ts), the deploy bridge        *)
(* (core/deploy/deploy-bridge.ts), the terminal hook and the cleanup       *)
(* service (core/cleanup).                                                 *)
(*                                                                         *)
(* The runs are those of one issue and one pipeline, in order of creation. *)
(* Of a run only the stages' work on the tree is kept; PipelineOrchestrator*)
(* says when a stage starts and when the hook is called.  The disk, the    *)
(* rows and the forge change in steps of their own, so a crash or the      *)
(* cleanup sweep can come between any two.                                 *)
(***************************************************************************)
EXTENDS Integers, FiniteSets

CONSTANTS
    NumRuns,
    Followed,       \* bound: runs followed to their end; the others get a worktree
    MaxCommits,     \* bound: commits by the stages of a run
    MaxFaults,      \* bound: failing calls and crashes
    None

ASSUME EnvironmentsAssumption ==
    /\ NumRuns \in Nat /\ Followed \subseteq 1..NumRuns
    /\ MaxCommits \in Nat /\ MaxFaults \in Nat
    /\ None \notin 1..NumRuns

Runs == 1..NumRuns
Sweeper == 0
Actors == Runs \union {Sweeper}

VARIABLES
    status,      \* pipeline_run.status
    recorded,    \* pipeline_run.artifacts_path: the run that named the directory
    env,         \* isolation_environment of the run
    tree,        \* the worktree on disk, and its branch in the local repository
    dirs,        \* artifacts directories on disk, by the run that named them
    forge,       \* the remote: the commits pushed, the pull request
    deploy,      \* deploy_run of the run, with the issue_pull_request row
    issue,       \* the issue: is it in review, and who read its current version?
    job,         \* what each run's chain, and the sweeper, is about to do
    old,         \* runs whose environment's row is past cleanup.stale_days
    faults,
    torn         \* what a failure left half done: a tree removed and its row not
                 \* updated, a directory removed with another run's insertion

vars == <<status, recorded, env, tree, dirs, forge, deploy, issue, job, old,
          faults, torn>>

-------------------------------------------------------------------------------
(* State. *)

Terminal == {"completed", "failed"}    \* failed stands for cancelled too

Path == Runs \union {None}

Env == [status : {"none", "active", "inactive"}, path : Path]

Tree == [disk : {"none", "clean", "dirty"},
         branch : BOOLEAN,                        \* does it exist?
         commits : 0..MaxCommits + 1,             \* ahead of the base when made
         merged : BOOLEAN]                        \* and in the base by now

Forge == [pushed : 0..MaxCommits + 1, pr : BOOLEAN]

\* pr: has the pull request a row?
Deploy == [status : {"none", "succeeded", "skipped", "failed"},
           stage : {"none", "find-env", "commit", "push", "create-pr", "record-db"},
           pr : BOOLEAN]

\* of: whose environment; path: the directory that acquire is to use.
Job == [pc : {"stage", "create", "insert", "repair", "work",
              "load", "commit", "push", "open", "advance", "save", "fail",
              "again", "check", "remove", "mark", "over"},
        of : Path,
        path : Path,
        error : {"none", "find-env", "commit", "push", "create-pr", "record-db"}]

TypeOK ==
    /\ status \in [Runs -> {"running", "blocked"} \union Terminal]
    /\ recorded \in [Runs -> Path]
    /\ env \in [Runs -> Env]
    /\ tree \in [Runs -> Tree]
    /\ dirs \subseteq Runs
    /\ forge \in [Runs -> Forge]
    /\ deploy \in [Runs -> Deploy]
    /\ issue \in [readers : SUBSET Runs, review : BOOLEAN]
    /\ job \in [Actors -> Job]
    /\ old \subseteq Runs
    /\ faults \in 0..MaxFaults
    /\ torn \subseteq Runs \X {"tree", "dir"}

Idle == [pc |-> "over", of |-> None, path |-> None, error |-> "none"]

Init ==
    /\ status = [r \in Runs |-> "running"]
    /\ recorded = [r \in Runs |-> None]
    /\ env = [r \in Runs |-> [status |-> "none", path |-> None]]
    /\ tree = [r \in Runs |-> [disk |-> "none", branch |-> FALSE, commits |-> 0,
                               merged |-> FALSE]]
    /\ dirs = {}
    /\ forge = [r \in Runs |-> [pushed |-> 0, pr |-> FALSE]]
    /\ deploy = [r \in Runs |-> [status |-> "none", stage |-> "none", pr |-> FALSE]]
    /\ issue = [readers |-> {}, review |-> FALSE]
    /\ job = [a \in Actors |-> IF a = Sweeper THEN Idle
                               ELSE [Idle EXCEPT !.pc = "stage", !.of = a]]
    /\ old = {}
    /\ faults = 0
    /\ torn = {}

At(a, pc) == job[a].pc = pc

\* The chain a goes on at pc; forgetting what it read when it is done.
Goto(a, pc) == job' = [job EXCEPT ![a] = IF pc = "over" THEN Idle ELSE [@ EXCEPT !.pc = pc]]

\* A call fails: of git, of the database or of the forge.
Fault == faults < MaxFaults /\ faults' = faults + 1

NoFault == UNCHANGED faults

-------------------------------------------------------------------------------
(* acquire: a stage gets its worktree. *)

\* findInheritedArtifactsPath: of the other runs of the issue, the newest one
\* with a recorded path, if any has one.
Inherited(r) ==
    LET others == {q \in Runs \ {r} : recorded[q] # None}
    IN {recorded[q] : q \in {n \in others : \A p \in others : p <= n}}

\* A stage fails: it is tried again, or the run fails and the hook is called.
StageFails(r) ==
    \/ Goto(r, "stage") /\ UNCHANGED status
    \/ Goto(r, "check") /\ status' = [status EXCEPT ![r] = "failed"]

\* The path is written to the run once, and is not essential.
Record(r, path) ==
    \/ recorded' = [recorded EXCEPT ![r] = IF @ = None THEN path ELSE @] /\ NoFault
    \/ Fault /\ UNCHANGED recorded

\* The active row, and whether its worktree exists, decide how to go on.
Acquire(r) ==
    /\ At(r, "stage") /\ status[r] = "running"
    /\ \E path \in IF Inherited(r) = {} THEN {r} ELSE Inherited(r) :
       LET step(pc) == job' = [job EXCEPT ![r].pc = pc, ![r].path = path] IN
       \/ /\ env[r].status = "active" /\ tree[r].disk # "none"
          /\ step("work")
          /\ Record(r, env[r].path)
       \/ /\ env[r].status = "active" /\ tree[r].disk = "none"
          /\ step("repair")
          /\ UNCHANGED <<recorded, faults>>
       \/ /\ env[r].status # "active"
          /\ step("create")
          /\ UNCHANGED <<recorded, faults>>
    /\ UNCHANGED <<status, env, tree, dirs, forge, deploy, issue, old, torn>>

\* git worktree add -b: neither the branch nor the directory may exist.  What
\* follows, up to the insertion, is not undone when it fails.
Create(r) ==
    /\ At(r, "create")
    /\ IF tree[r].branch \/ tree[r].disk # "none"
       THEN StageFails(r) /\ UNCHANGED <<tree, dirs, faults>>
       ELSE /\ tree' = [tree EXCEPT ![r].branch = TRUE, ![r].disk = "clean"]
            /\ \/ /\ dirs' = dirs \union {job[r].path}
                  /\ Goto(r, "insert")
                  /\ NoFault /\ UNCHANGED status
               \/ /\ Fault /\ StageFails(r)
                  /\ UNCHANGED dirs
    /\ UNCHANGED <<recorded, env, forge, deploy, issue, old, torn>>

\* When the insertion fails the worktree and the directory are removed, not
\* the branch.
Insert(r) ==
    /\ At(r, "insert")
    /\ \/ /\ env' = [env EXCEPT ![r] = [status |-> "active", path |-> job[r].path]]
          /\ Goto(r, "work")
          /\ Record(r, job[r].path)
          /\ UNCHANGED <<tree, dirs, status, torn>>
       \/ /\ Fault /\ StageFails(r)
          /\ tree' = [tree EXCEPT ![r].disk = "none"]
          /\ dirs' = dirs \ {job[r].path}
          /\ torn' = torn \union {<<job[r].path, "dir">>}
          /\ UNCHANGED <<env, recorded>>
    /\ UNCHANGED <<forge, deploy, issue, old>>

\* Mutant of Repaired: the path of a fresh acquire wins over the row's.
RepairedAnew(r) == job[r].path

\* The directory of a repaired environment.  (A row from before R-ARTIFACTS
\* has none and takes the other; no row here is that old.)
Repaired(r) == env[r].path

\* The worktree is added again on the branch that exists, then the directory is
\* made; the row keeps the status it has by now.  What was done is not undone.
Repair(r) ==
    /\ At(r, "repair")
    /\ \/ /\ tree' = [tree EXCEPT ![r].disk = "clean"]
          /\ dirs' = dirs \union {Repaired(r)}
          /\ env' = [env EXCEPT ![r].path = Repaired(r)]
          /\ Goto(r, "work")
          /\ Record(r, Repaired(r))
          /\ UNCHANGED status
       \/ /\ Fault /\ StageFails(r)
          /\ \/ UNCHANGED <<tree, dirs>>
             \/ /\ tree' = [tree EXCEPT ![r].disk = "clean"]
                /\ dirs' \in {dirs, dirs \union {Repaired(r)}}
          /\ UNCHANGED <<env, recorded>>
    /\ UNCHANGED <<forge, deploy, issue, old, torn>>

-------------------------------------------------------------------------------
(* The stage works in its tree, and the run goes on or ends. *)

Write(r) ==
    /\ At(r, "work") /\ tree[r].disk = "clean"
    /\ tree' = [tree EXCEPT ![r].disk = "dirty"]
    /\ UNCHANGED <<status, recorded, env, dirs, forge, deploy, issue, job, old,
                   faults, torn>>

Commit(r) ==
    /\ At(r, "work") /\ tree[r].disk = "dirty" /\ tree[r].commits < MaxCommits
    /\ tree' = [tree EXCEPT ![r].disk = "clean", ![r].commits = @ + 1]
    /\ UNCHANGED <<status, recorded, env, dirs, forge, deploy, issue, job, old,
                   faults, torn>>

\* The next stage, or an end: the hook deploys a completed run, and releases
\* the environment of any other.  Without a worktree the stage fails.
EndStage(r) ==
    /\ At(r, "work")
    /\ IF tree[r].disk = "none" THEN StageFails(r)
       ELSE \/ Goto(r, "stage") /\ UNCHANGED status
            \/ Goto(r, "load") /\ status' = [status EXCEPT ![r] = "completed"]
            \/ \E s \in {"failed", "blocked"} :
                  Goto(r, "check") /\ status' = [status EXCEPT ![r] = s]
    /\ UNCHANGED <<recorded, env, tree, dirs, forge, deploy, issue, old, faults, torn>>

-------------------------------------------------------------------------------
(* deploy.  A step that throws goes to "fail", which writes the row. *)

Throw(r, stage) == job' = [job EXCEPT ![r].pc = "fail", ![r].error = stage]

\* The issue with its version, and the active environment.  (An error that no
\* DeployBridgeError wraps leaves the stage empty; those of load-run, load-issue
\* and load-project are not told from it.)
LoadDeploy(r) ==
    /\ At(r, "load")
    /\ \/ /\ env[r].status = "active"
          /\ Goto(r, "commit") /\ issue' = [issue EXCEPT !.readers = @ \union {r}]
          /\ NoFault
       \/ env[r].status # "active" /\ Throw(r, "find-env") /\ NoFault /\ UNCHANGED issue
       \/ Fault /\ Throw(r, "none") /\ UNCHANGED issue
    /\ UNCHANGED <<status, recorded, env, tree, dirs, forge, deploy, old, torn>>

\* Mutant of NothingToPush: as before FLX-92, the branch is not asked.
NothingNew(r) == tree[r].disk = "clean"

NothingToPush(r) == tree[r].disk = "clean" /\ (tree[r].commits = 0 \/ tree[r].merged)

\* commitAll, then branchAheadCount; the latter's errors are not wrapped.
CommitAll(r) ==
    /\ At(r, "commit")
    /\ \/ /\ tree[r].disk = "none"
          /\ Throw(r, "commit")
          /\ NoFault /\ UNCHANGED <<tree, deploy>>
       \/ /\ NothingToPush(r)
          /\ deploy' = [deploy EXCEPT ![r].status = "skipped"]
          /\ Goto(r, "check")
          /\ NoFault /\ UNCHANGED tree
       \/ /\ tree[r].disk # "none" /\ ~NothingToPush(r)
          /\ tree' = [tree EXCEPT ![r].commits = IF tree[r].disk = "dirty" THEN @ + 1 ELSE @,
                                  ![r].disk = "clean"]
          /\ Goto(r, "push")
          /\ NoFault /\ UNCHANGED deploy
       \/ Fault /\ UNCHANGED <<tree, deploy>>
          /\ \E stage \in {"commit", "none"} : Throw(r, stage)
    /\ UNCHANGED <<status, recorded, env, dirs, forge, issue, old, torn>>

\* The push, and the look-up of the forge, whose errors are not wrapped.
Push(r) ==
    /\ At(r, "push")
    /\ \/ /\ tree[r].disk # "none"
          /\ forge' = [forge EXCEPT ![r].pushed = tree[r].commits]
          /\ Goto(r, "open") /\ NoFault
       \/ tree[r].disk = "none" /\ Throw(r, "push") /\ NoFault /\ UNCHANGED forge
       \/ Fault /\ Throw(r, "push") /\ UNCHANGED forge
       \/ /\ Fault /\ tree[r].disk # "none"
          /\ forge' = [forge EXCEPT ![r].pushed = tree[r].commits]
          /\ \E stage \in {"push", "none"} : Throw(r, stage)
    /\ UNCHANGED <<status, recorded, env, tree, dirs, deploy, issue, old, torn>>

\* The forge opens the pull request, refuses, or its answer is lost.
OpenPr(r) ==
    /\ At(r, "open")
    /\ \/ /\ forge' = [forge EXCEPT ![r].pr = TRUE]
          /\ \/ Goto(r, "advance") /\ NoFault
             \/ Fault /\ Throw(r, "create-pr")
       \/ Fault /\ Throw(r, "create-pr") /\ UNCHANGED forge
    /\ UNCHANGED <<status, recorded, env, tree, dirs, deploy, issue, old, torn>>

\* Inside the transaction, but on a connection of its own, the issue moves to
\* review if its version is still the one that was loaded.
Advance(r) ==
    /\ At(r, "advance")
    /\ IF r \in issue.readers
       THEN /\ issue' = [readers |-> {}, review |-> TRUE]
            /\ Goto(r, "save")
       ELSE Throw(r, "record-db") /\ UNCHANGED issue
    /\ UNCHANGED <<status, recorded, env, tree, dirs, forge, deploy, old, faults, torn>>

\* Mutant of Saved: the row says succeeded and the pull request has none.
SavedPartly == [status |-> "succeeded", stage |-> "none", pr |-> FALSE]

Saved == [status |-> "succeeded", stage |-> "none", pr |-> TRUE]

\* The transaction commits the rows of branch, pull request and deploy_run.
Save(r) ==
    /\ At(r, "save")
    /\ \/ deploy' = [deploy EXCEPT ![r] = Saved] /\ Goto(r, "check") /\ NoFault
       \/ Fault /\ Throw(r, "record-db") /\ UNCHANGED deploy
    /\ UNCHANGED <<status, recorded, env, tree, dirs, forge, issue, old, torn>>

\* recordDeployFailure; a failure to record it is only logged.
RecordFailure(r) ==
    /\ At(r, "fail")
    /\ \/ /\ deploy' = [deploy EXCEPT ![r].status = "failed", ![r].stage = job[r].error]
          /\ NoFault
       \/ Fault /\ UNCHANGED deploy
    /\ Goto(r, "check")
    /\ UNCHANGED <<status, recorded, env, tree, dirs, forge, issue, old, torn>>

-------------------------------------------------------------------------------
(* release, without force: by the chain of the run or by the sweeper.      *)

\* Where a release stops that is done or that throws; its callers swallow it.
Stop(a) == Goto(a, "over")

CheckRelease(a) ==
    LET r == job[a].of IN
    /\ At(a, "check")
    /\ IF env[r].status # "active" \/ tree[r].disk = "dirty" THEN Stop(a)
       ELSE Goto(a, IF tree[r].disk = "none" THEN "mark" ELSE "remove")
    /\ UNCHANGED <<status, recorded, env, tree, dirs, forge, deploy, issue, old,
                   faults, torn>>

\* Mutant of Refuses: git worktree remove --force.
RefusesNothing(r) == FALSE

\* git worktree remove refuses a tree with changes.
Refuses(r) == tree[r].disk = "dirty"

\* A refusal is passed on, unless the directory is gone.
RemoveWorktree(a) ==
    LET r == job[a].of IN
    /\ At(a, "remove")
    /\ \/ Refuses(r) /\ Stop(a) /\ NoFault /\ UNCHANGED tree
       \/ ~Refuses(r) /\ tree' = [tree EXCEPT ![r].disk = "none"] /\ Goto(a, "mark") /\ NoFault
       \/ tree[r].disk # "none" /\ Fault /\ Stop(a) /\ UNCHANGED tree
    /\ UNCHANGED <<status, recorded, env, dirs, forge, deploy, issue, old, torn>>

\* Mutant of Marked: a release that has removed the worktree is done.
Unmarked(r) == env

\* Mutant of Marked: a status the other readers of the row do not know.
MarkedReleased(r) == [env EXCEPT ![r].status = "released"]

Marked(r) == [env EXCEPT ![r].status = "inactive"]

MarkInactive(a) ==
    /\ At(a, "mark")
    /\ \/ env' = Marked(job[a].of) /\ NoFault /\ UNCHANGED torn
       \/ Fault /\ torn' = torn \union {<<job[a].of, "tree">>} /\ UNCHANGED env
    /\ Stop(a)
    /\ UNCHANGED <<status, recorded, tree, dirs, forge, deploy, issue, old>>

-------------------------------------------------------------------------------
(* The cleanup sweep. *)

\* Mutant of SafeToRemove: the age of the row is not looked at.
SafeIfMerged(r) ==
    tree[r].disk = "clean" /\ (tree[r].commits = 0 \/ tree[r].merged)

\* isSafeToRemove: uncommitted changes, a merged branch, a pull request whose
\* row says open (nothing ever changes it), and last the age.  The status of
\* the run is not looked at.
SafeToRemove(r) ==
    /\ tree[r].disk # "dirty"
    /\ \/ tree[r].disk = "clean" /\ (tree[r].commits = 0 \/ tree[r].merged)
       \/ ~deploy[r].pr /\ r \in old

\* runScheduledSweep takes up an active row that seems safe.
Judge(r) ==
    /\ At(Sweeper, "over")
    /\ env[r].status = "active" /\ SafeToRemove(r)
    /\ job' = [job EXCEPT ![Sweeper].pc = "again", ![Sweeper].of = r]
    /\ UNCHANGED <<status, recorded, env, tree, dirs, forge, deploy, issue, old,
                   faults, torn>>

\* removeEnvironment reads the row and judges once more.
JudgeAgain ==
    LET r == job[Sweeper].of IN
    /\ At(Sweeper, "again")
    /\ IF env[r].status = "active" /\ SafeToRemove(r)
       THEN Goto(Sweeper, "check") ELSE Stop(Sweeper)
    /\ UNCHANGED <<status, recorded, env, tree, dirs, forge, deploy, issue, old,
                   faults, torn>>

\* Mutant of Reapable: the active run is left out of the test.
ReapableOld(d) == d \in dirs

\* isArtifactsSafeToRemove: the run the directory is named after is not
\* active.  Any directory may be past its retention.
Reapable(d) == d \in dirs /\ status[d] \in Terminal

SweepDir(d) ==
    /\ Reapable(d)
    /\ dirs' = dirs \ {d}
    /\ UNCHANGED <<status, recorded, env, tree, forge, deploy, issue, job, old,
                   faults, torn>>

-------------------------------------------------------------------------------
(* Time, users, crashes. *)

Age(r) ==
    /\ env[r].status # "none" /\ r \notin old
    /\ old' = old \union {r}
    /\ UNCHANGED <<status, recorded, env, tree, dirs, forge, deploy, issue, job,
                   faults, torn>>

EditIssue ==
    /\ issue.readers # {}          \* otherwise nothing tells the versions apart
    /\ issue' = [issue EXCEPT !.readers = {}]
    /\ UNCHANGED <<status, recorded, env, tree, dirs, forge, deploy, job, old,
                   faults, torn>>

\* The pull request is merged, and the base pulled into the local repository.
Merge(r) ==
    /\ forge[r].pr /\ ~tree[r].merged
    /\ tree' = [tree EXCEPT ![r].merged = TRUE]
    /\ UNCHANGED <<status, recorded, env, dirs, forge, deploy, issue, job, old,
                   faults, torn>>

\* The daemon crashes and starts again.  Recovery has a run that was in the
\* middle of a stage start it anew, or fails the run and calls the hook, which
\* releases the environment; for a run that had ended the hook is not called again.
Crash ==
    /\ Fault
    /\ \E again \in SUBSET {r \in Runs : status[r] = "running"} :
          /\ {r \in Runs : status[r] = "running" /\ At(r, "stage")} \subseteq again
          /\ job' = [a \in Actors |->
                IF a \in Runs /\ status[a] = "running"
                THEN [Idle EXCEPT !.pc = IF a \in again THEN "stage" ELSE "check",
                                  !.of = a]
                ELSE Idle]
          /\ status' = [r \in Runs |->
                IF status[r] = "running" /\ r \notin again THEN "failed" ELSE status[r]]
    /\ torn' = torn \union {<<job[a].of, "tree">> : a \in {b \in Actors : At(b, "mark")}}
    /\ UNCHANGED <<recorded, env, tree, dirs, forge, deploy, issue, old>>

-------------------------------------------------------------------------------
(* The specification. *)

Work(r) == Write(r) \/ Commit(r) \/ EndStage(r)

Bridge(r) == \/ LoadDeploy(r) \/ CommitAll(r) \/ Push(r) \/ OpenPr(r)
             \/ Advance(r) \/ Save(r) \/ RecordFailure(r)

Release(a) == CheckRelease(a) \/ RemoveWorktree(a) \/ MarkInactive(a)

Next ==
    \/ \E r \in Runs : Acquire(r) \/ Create(r) \/ Insert(r) \/ Repair(r)
    \/ \E r \in Followed :
          Work(r) \/ Bridge(r) \/ Judge(r) \/ Merge(r) \/ Age(r)
    \/ \E a \in Actors : Release(a)
    \/ JudgeAgain
    \/ \E d \in Runs : SweepDir(d)
    \/ EditIssue
    \/ Crash

\* The event loop resumes every deploy, release and sweep; the sweep's timer
\* goes on firing and rows grow old.  Nothing makes a stage end.
Fairness ==
    /\ \A r \in Followed : WF_vars(Bridge(r)) /\ WF_vars(Judge(r)) /\ WF_vars(Age(r))
    /\ \A a \in Actors : WF_vars(Release(a))
    /\ WF_vars(JudgeAgain)

Spec == Init /\ [][Next]_vars /\ Fairness

-------------------------------------------------------------------------------
(* Properties. *)

\* Work that is not committed is never removed with its worktree, although
\* the stages write between the checks of a release or of the sweep and the
\* removal.
UncommittedWorkStays ==
    [][\A r \in Runs : tree[r].disk = "dirty" => tree'[r].disk # "none"]_vars

\* What deploy_run says is so: a deploy that succeeded has pushed every commit
\* and has a pull request with a row; one that was skipped had nothing
\* committed that is not in the base; one that failed before the forge was
\* asked opened no pull request, and one that could not be recorded did.
DeployRowTellsTruth ==
    \A r \in Runs :
        LET d == deploy[r] IN
        /\ d.status = "succeeded" =>
              d.pr /\ forge[r].pr /\ forge[r].pushed = tree[r].commits /\ issue.review
        /\ d.status = "skipped" => tree[r].commits = 0 \/ tree[r].merged
        /\ d.stage \in {"find-env", "commit", "push"} => ~forge[r].pr
        /\ d.stage = "record-db" => forge[r].pr /\ ~d.pr

\* A stage finds the artifacts of the stages before it: the directory of an
\* environment never changes, even if the environment is repaired after other
\* runs of the issue have recorded theirs.
ArtifactsStayPut ==
    [][\A r \in Runs : env[r].path # None => env'[r].path = env[r].path]_vars

\* The artifacts directory of a stage at work is on disk, unless the run that
\* named it has ended: the sweep judges an inherited directory by that run.
\* (The insertion that fails removes an inherited directory as well.)
ArtifactsAtHand ==
    \A r \in Runs :
        At(r, "work") /\ env[r].path # None
        => \/ env[r].path \in dirs \/ status[env[r].path] \in Terminal
           \/ <<env[r].path, "dir">> \in torn

\* An active row has its worktree on disk, unless a release is between the
\* removal and the update of the row or was stopped there.
ActiveRowHasTree ==
    \A r \in Runs :
        env[r].status = "active" /\ tree[r].disk = "none"
        => \/ \E a \in Actors : At(a, "mark") /\ job[a].of = r
           \/ <<r, "tree">> \in torn

\* No environment of a run that has ended is left for ever, whatever failed
\* on the way: it becomes inactive, or there is a reason to keep it
\* (uncommitted changes, or a pull request that was recorded).
EnvironmentSettles ==
    \A r \in Followed :
        status[r] # "running" /\ env[r].status = "active"
        ~> env[r].status = "inactive" \/ tree[r].disk = "dirty" \/ deploy[r].pr

\* What the design says of the scheduled sweep: it takes the environments of
\* runs that have ended, and those that are stale.
SweepTakesEndedOrStale ==
    [][\A r \in Runs :
        At(Sweeper, "remove") /\ job[Sweeper].of = r
            /\ tree[r].disk # "none" /\ tree'[r].disk = "none"
        => status[r] # "running" \/ r \in old]_vars

===============================================================================
